----------------------------- MODULE KeyIntake ------------------------------
(***************************************************************************)
(* load_secret_key of main.rs: where a command's secret key comes from.    *)
(* The sources are tried in a fixed order; what was taken from the         *)
(* environment is scrubbed there before anything else happens.  A key is   *)
(* named after its source; whether a text parses or a mnemonic derives is  *)
(* open until it is tried.  A buffer that is dropped without being         *)
(* zeroized is held: its bytes are left in memory.                         *)
(***************************************************************************)
EXTENDS ExitCodes, FiniteSets

CONSTANTS Fds,           \* descriptors that the caller may open and name
          None

\* The variables of the environment, under the new and the old name.
Secrets == {"SEC_KEY", "MNEMONIC", "PASSPHRASE"}
Prefixes == {"PIPE_K1", "PIPEK1"}

\* The keys that can be returned: a source and, of a mnemonic, the passphrase.
Sources == {"sec_fd", "sec_file", "mnemonic_fd", "git_key"} \cup Secrets
Keys == [from : Sources]
        \cup [from : Sources, pass : {"passphrase_fd", "PASSPHRASE", None}]

\* The descriptors that a File is made from, and what for.
Files == [fd : Fds, for : {"sec_fd", "mnemonic_fd", "passphrase_fd"}]

\* The texts, and what they are parsed into.
Buffers == Secrets \cup {"text", "mnemonic_fd", "passphrase_fd", "decoded", "words", "seed"}

\* The number that no File can be made from.
MinusOne == -1

ASSUME NoneAssumption == /\ None \notin Int
                         /\ None \notin Prefixes
                         /\ None \notin Keys \cup Files \cup Buffers

ASSUME FdsAssumption == Fds \subseteq Nat

VARIABLES sec_fd, sec_file, mnemonic_fd, passphrase_fd,    \* KeyIntakeArgs
          git_keys,      \* the git_key files under HOME, by prefix
          env0, odd,     \* the variables set at the start; those that are not UTF-8
          env,           \* the variables set now
          block,         \* the variables whose bytes are in the environment block
          grabbed,       \* secret -> prefix of the variable it was copied from
          open, used,    \* descriptors open, and those load_secret_key has taken
          file,          \* the File f, if any: its descriptor and what it is read for
          held,          \* buffers that hold a secret and were not zeroized
          key,           \* the key returned: source and, if any, passphrase
          kpc, kexit

argVars == <<sec_fd, sec_file, mnemonic_fd, passphrase_fd, git_keys, env0, odd>>
envVars == <<env, block, grabbed>>
fdVars == <<open, used, file>>
keyVars == <<argVars, envVars, fdVars, held, key, kpc, kexit>>

KeyInit == /\ sec_fd \in Fds \cup {MinusOne, None}
           /\ sec_file \in BOOLEAN
           /\ mnemonic_fd \in Fds \cup {MinusOne, None}
           /\ passphrase_fd \in Fds \cup {MinusOne, None}
           /\ git_keys \in SUBSET Prefixes
           /\ env0 \in SUBSET (Prefixes \X Secrets)
           /\ odd \in SUBSET env0
           /\ env = env0 /\ block = env0
           /\ grabbed = [s \in Secrets |-> None]
           /\ open = Fds
           /\ used = {}
           /\ file = None
           /\ held = {}
           /\ key = None
           /\ kpc = "grab"
           /\ kexit = Running

Return(code, k) == kpc' = "done" /\ kexit' = code /\ key' = k
Goto(pc) == kpc' = pc /\ UNCHANGED <<kexit, key>>

-----------------------------------------------------------------------------
(* The environment.                                                        *)

\* env::var fails on a variable that is not UTF-8, as on one that is not set.
Readable == env \ odd

\* env::var of the new name, or else of the old one.
GrabFrom(s) == IF <<"PIPE_K1", s>> \in Readable THEN "PIPE_K1"
               ELSE IF <<"PIPEK1", s>> \in Readable THEN "PIPEK1" ELSE None

Scrubbed == Prefixes \X Secrets

\* scrub_env_var overwrites an entry only if it is UTF-8, and removes it anyway.
GrabAndScrub ==
    /\ kpc = "grab"
    /\ grabbed' = [s \in Secrets |-> GrabFrom(s)]
    /\ held' = {s \in Secrets : GrabFrom(s) # None}
    /\ env' = env \ Scrubbed
    /\ block' = block \ (Scrubbed \cap Readable)
    /\ Goto("sec_fd")
    /\ UNCHANGED <<argVars, fdVars>>

-----------------------------------------------------------------------------
(* Reading a descriptor: the File f is made, read and dropped.             *)

\* File::from_raw_fd panics on -1.
FromRawFd(fd, source) ==
    IF fd = MinusOne THEN Return(Aborted, None) /\ UNCHANGED <<fdVars, held>>
    ELSE /\ file' = [fd |-> fd, for |-> source]
         /\ used' = used \cup {fd}
         /\ Goto("read")
         /\ UNCHANGED <<open, held>>

\* f is dropped, at drop(f) or where the function returns.
Drop == open' = open \ {file.fd} /\ file' = None

Buffer == IF file.for = "sec_fd" THEN "text" ELSE file.for

\* read_to_string fails if the descriptor is closed, and may fail otherwise, with a
\* part of the text read; the ? then returns.
ReadFd ==
    /\ kpc = "read"
    /\ \/ /\ Return(UsageError, None) /\ Drop
          /\ held' \in {held, held \cup {Buffer}}
       \/ /\ file.fd \in open
          /\ held' = held \cup {Buffer}
          /\ Goto("drop") /\ UNCHANGED <<open, file>>
    /\ UNCHANGED <<argVars, envVars, used>>

\* Where the function goes on with what it has read.
AfterRead == CASE file.for = "sec_fd" -> "parse_fd"
               [] file.for = "mnemonic_fd" -> "passphrase"
               [] file.for = "passphrase_fd" -> "derive"

\* Replaces DropAfterRead: f is left to the end of the block, after the parsing.
DropAtEndOfBlock == IF file.for = "sec_fd" THEN UNCHANGED <<open, file>> ELSE Drop

DropAfterRead == Drop

DropFd == /\ kpc = "drop"
          /\ DropAfterRead
          /\ Goto(AfterRead)
          /\ UNCHANGED <<argVars, envVars, used, held>>

-----------------------------------------------------------------------------
(* The sources, in order.  A text in memory is the buffer "text".          *)

SecFd == /\ kpc = "sec_fd"
         /\ IF sec_fd = None THEN Goto("sec_file") /\ UNCHANGED <<fdVars, held>>
            ELSE FromRawFd(sec_fd, "sec_fd")
         /\ UNCHANGED <<argVars, envVars>>

SecFile == /\ kpc = "sec_file"
           /\ IF ~sec_file THEN Goto("mnemonic") /\ UNCHANGED held
              ELSE \/ Return(UsageError, None) /\ held' \in {held, held \cup {"text"}}
                   \/ held' = held \cup {"text"} /\ Goto("parse_file")
           /\ UNCHANGED <<argVars, envVars, fdVars>>

\* parse_key_bytes decodes into a vector of its own and copies the key from there:
\* the vector is dropped with the bytes in it, if there are 32 of them or not.
Decoded == {"decoded"}

\* On an error the ? returns before the zeroize.
ParseText == /\ kpc \in {"parse_fd", "parse_file"}
             /\ \/ /\ held' \in {held, held \cup Decoded}
                   /\ Return(UsageError, None)
                \/ /\ held' = (held \ {"text"}) \cup Decoded
                   /\ Return(Success, [from |-> IF kpc = "parse_fd" THEN "sec_fd"
                                                ELSE "sec_file"])
             /\ UNCHANGED <<argVars, envVars, fdVars>>

\* Replaces TryMnemonic: an unreadable --mnemonic-fd falls through.
TryMnemonicLenient ==
    IF mnemonic_fd # None
    THEN \/ FromRawFd(mnemonic_fd, "mnemonic_fd")
         \/ Goto("env_key") /\ UNCHANGED <<fdVars, held>>
    ELSE /\ Goto(IF grabbed["MNEMONIC"] # None THEN "passphrase" ELSE "env_key")
         /\ UNCHANGED <<fdVars, held>>

TryMnemonic ==
    IF mnemonic_fd # None THEN FromRawFd(mnemonic_fd, "mnemonic_fd")
    ELSE /\ Goto(IF grabbed["MNEMONIC"] # None THEN "passphrase" ELSE "env_key")
         /\ UNCHANGED <<fdVars, held>>

MnemonicSource == /\ kpc = "mnemonic"
                  /\ TryMnemonic
                  /\ UNCHANGED <<argVars, envVars>>

PassphraseSource ==
    /\ kpc = "passphrase"
    /\ IF passphrase_fd # None THEN FromRawFd(passphrase_fd, "passphrase_fd")
       ELSE Goto("derive") /\ UNCHANGED <<fdVars, held>>
    /\ UNCHANGED <<argVars, envVars>>

MnemonicFrom == IF mnemonic_fd # None THEN "mnemonic_fd" ELSE "MNEMONIC"
PassphraseFrom == IF passphrase_fd # None THEN "passphrase_fd"
                  ELSE IF grabbed["PASSPHRASE"] # None THEN "PASSPHRASE" ELSE None

\* Replaces DeriveWipes: the passphrase of a descriptor is taken for one of the
\* environment.
DeriveWipesEnv == held \ {MnemonicFrom, "PASSPHRASE"}

DeriveWipes == held \ {MnemonicFrom, PassphraseFrom}

\* Replaces DeriveFails: the scalar is returned without being validated.
DeriveUnchecked == Return(Success, None)

DeriveFails == Return(UsageError, None)

\* derive_bip85_operational_key, then both strings are wiped, on an error too.  A
\* Mnemonic that was parsed is dropped with its words in it, and where BIP-32 refuses
\* the seed, that is left as well.
Derive ==
    /\ kpc = "derive"
    /\ \/ /\ held' = DeriveWipes \cup {"words"}
          /\ Return(Success, [from |-> MnemonicFrom, pass |-> PassphraseFrom])
       \/ /\ \E left \in {{}, {"words"}, {"words", "seed"}} : held' = DeriveWipes \cup left
          /\ DeriveFails
    /\ UNCHANGED <<argVars, envVars, fdVars>>

EnvKey == /\ kpc = "env_key"
          /\ IF grabbed["SEC_KEY"] = None THEN Goto("git_key") /\ UNCHANGED held
             ELSE LET wiped == held \ {"SEC_KEY"}
                  IN  \/ held' \in {wiped, wiped \cup Decoded} /\ Return(UsageError, None)
                      \/ /\ held' = wiped \cup Decoded
                         /\ Return(Success, [from |-> "SEC_KEY"])
          /\ UNCHANGED <<argVars, envVars, fdVars>>

\* The git_key file of the new prefix, or else of the old one: read, parsed and
\* wiped, or passed over on any error.
GitKey == /\ kpc = "git_key"
          /\ \/ UNCHANGED held /\ Return(UsageError, None)
             \/ /\ git_keys # {} /\ held' = held \cup Decoded
                /\ \/ Return(UsageError, None)
                   \/ Return(Success, [from |-> "git_key"])
             \/ /\ git_keys # {} /\ held' = held \cup {"text"}
                /\ Return(UsageError, None)
          /\ UNCHANGED <<argVars, envVars, fdVars>>

load_secret_key ==
    \/ GrabAndScrub \/ SecFd \/ ReadFd \/ DropFd \/ SecFile \/ ParseText
    \/ MnemonicSource \/ PassphraseSource \/ Derive \/ EnvKey \/ GitKey

KeySpec == KeyInit /\ [][load_secret_key]_keyVars

-----------------------------------------------------------------------------

\* The types of the variables.
KeyTypeOK ==
    /\ env \subseteq env0 /\ block \subseteq env0
    /\ grabbed \in [Secrets -> Prefixes \cup {None}]
    /\ open \subseteq Fds /\ used \subseteq Fds
    /\ file \in Files \cup {None}
    /\ held \subseteq Buffers
    /\ kexit \in {Running, Success, UsageError, Aborted}
    /\ key # None <=> kexit = Success

\* The sources in the order of the code, and those the caller gave.
Order == <<"sec_fd", "sec_file", "mnemonic_fd", "MNEMONIC", "SEC_KEY", "git_key">>

Given == {s \in Sources :
              \/ s = "sec_fd" /\ sec_fd # None
              \/ s = "sec_file" /\ sec_file
              \/ s = "mnemonic_fd" /\ mnemonic_fd # None
              \/ s = "git_key" /\ git_keys # {}
              \/ \E p \in Prefixes : <<p, s>> \in env0 \ odd}

GivenPassphrase == IF passphrase_fd # None THEN "passphrase_fd"
                   ELSE IF "PASSPHRASE" \in Given THEN "PASSPHRASE" ELSE None

\* A key never comes from a source that ranks below another one the caller gave:
\* a source that is broken ends the command, it does not let the next one in.
\* (A variable that is not UTF-8 does not count as given: the code takes it for unset.)
\* And a passphrase that was given is part of the key, one descriptor being read
\* for one secret only.
KeyFromFirstSource ==
    kexit = Success =>
        \E r \in DOMAIN Order :
            /\ key.from = Order[r]
            /\ Order[r] \in Given
            /\ \A q \in 1 .. r - 1 : Order[q] \notin Given
            /\ Order[r] \in {"mnemonic_fd", "MNEMONIC"} =>
                  /\ key.pass = GivenPassphrase
                  /\ passphrase_fd # None => passphrase_fd # mnemonic_fd

\* While a text is parsed, or a mnemonic and a passphrase are put together, and when
\* the function has returned, for whatever reason, no descriptor that it took is open,
\* not even one that two options name.
DescriptorsClosed ==
    kpc \in {"parse_fd", "derive", "done"} => used \cap open = {}

\* The texts that a key was made from.
TextsOf(k) == {"text", k.from} \cup (IF "pass" \in DOMAIN k THEN {k.pass} ELSE {})

\* The text, the mnemonic and the passphrase that a returned key was made from are
\* wiped, whichever source they came from.  What they were parsed into is
\* UsedSecretsWiped's question.
TextsWiped == kexit = Success => held \cap TextsOf(key) = {}

\* What SPECIFICATION.md:42 says of the environment block: the memory of the variables
\* is overwritten.
EnvironmentOverwritten == kpc # "grab" => block = {}

\* What SPECIFICATION.md:44 says of the buffers of a key: all are wiped on drop, not
\* only the texts.
UsedSecretsWiped ==
    kexit = Success => held \cap (TextsOf(key) \cup {"decoded", "words", "seed"}) = {}
=============================================================================
