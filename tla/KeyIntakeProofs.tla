-------------------------- MODULE KeyIntakeProofs ---------------------------
(***************************************************************************)
(* Proofs about load_secret_key, for any set of descriptors, any choice of *)
(* options and any environment.                                            *)
(*                                                                         *)
(* The invariant says at each place of the function which sources are      *)
(* known not to have been given by then (Passed), which descriptor is in   *)
(* use (Reading) and which may be open (Descriptors), and which buffers    *)
(* hold the texts (Live).                                                  *)
(***************************************************************************)
EXTENDS KeyIntake, TLAPS

Places == {"grab", "sec_fd", "parse_fd", "sec_file", "parse_file", "mnemonic",
           "passphrase", "derive", "env_key", "git_key", "read", "drop", "done"}

\* The arguments, which never change.
Arguments == /\ sec_fd \in Fds \cup {MinusOne, None}
             /\ sec_file \in BOOLEAN
             /\ mnemonic_fd \in Fds \cup {MinusOne, None}
             /\ passphrase_fd \in Fds \cup {MinusOne, None}
             /\ env0 \subseteq Prefixes \X Secrets

\* A variable of the environment that can be read, under one of its names.
Set(s) == \E p \in Prefixes : <<p, s>> \in env0 \ odd

\* What was grabbed is what was set.
Grabbed ==
    /\ kpc = "grab" => env = env0 /\ held = {}
    /\ kpc # "grab" => \A s \in Secrets : grabbed[s] # None <=> Set(s)

\* The place of the function, or the source that a File is being read for.
Where == IF file = None THEN kpc ELSE file.for

\* The File is of the descriptor that the option names.
Reading ==
    /\ file = None <=> kpc \notin {"read", "drop"}
    /\ file # None =>
           /\ file.for = "sec_fd" => file.fd = sec_fd
           /\ file.for = "mnemonic_fd" => file.fd = mnemonic_fd
           /\ file.for = "passphrase_fd" => file.fd = passphrase_fd

\* The sources that were passed over were not given, and the one that is being
\* read was.
Passed ==
    /\ Where = "parse_fd" => sec_fd # None
    /\ Where \in {"sec_file", "parse_file", "mnemonic", "mnemonic_fd", "passphrase",
                  "passphrase_fd", "derive", "env_key", "git_key"} => sec_fd = None
    /\ Where = "parse_file" => sec_file
    /\ Where \in {"mnemonic", "mnemonic_fd", "passphrase", "passphrase_fd", "derive",
                  "env_key", "git_key"} => ~sec_file
    /\ Where \in {"passphrase", "passphrase_fd", "derive"} =>
           mnemonic_fd # None \/ Set("MNEMONIC")
    /\ Where \in {"env_key", "git_key"} => mnemonic_fd = None /\ ~Set("MNEMONIC")
    /\ Where = "git_key" => ~Set("SEC_KEY")

\* The buffers that may hold a text, apart from those of the environment.
Live ==
    CASE Where = "sec_fd" -> IF file = None THEN {} ELSE {"text"}
      [] Where \in {"parse_fd", "parse_file"} -> {"text"}
      [] Where = "mnemonic_fd" -> {"mnemonic_fd"}
      [] Where = "passphrase" -> {MnemonicFrom}
      [] Where \in {"passphrase_fd", "derive"} -> {MnemonicFrom, PassphraseFrom}
      [] OTHER -> {}

\* Of the descriptors that were taken only that of the File can be open, and the
\* passphrase has not come from the descriptor of the mnemonic.
Descriptors ==
    /\ \A fd \in used \cap open : file # None /\ fd = file.fd
    /\ Where \in {"passphrase", "passphrase_fd", "derive"} /\ mnemonic_fd # None =>
           mnemonic_fd \notin open
    /\ Where \in {"passphrase_fd", "derive"} /\ kpc # "read" /\ passphrase_fd # None =>
           passphrase_fd # mnemonic_fd

Returned == /\ kpc # "done" => kexit = Running
            /\ kpc # "done" => held \subseteq Secrets \cup Live

KInv == /\ KeyTypeOK /\ kpc \in Places /\ Arguments
        /\ Grabbed /\ Reading /\ Passed /\ Descriptors /\ Returned
        /\ KeyFromFirstSource /\ TextsWiped

-----------------------------------------------------------------------------
\* Which sources were given, spelled out.
LEMMA GivenSources ==
    ASSUME Arguments
    PROVE  /\ "sec_fd" \in Given <=> sec_fd # None
           /\ "sec_file" \in Given <=> sec_file
           /\ "mnemonic_fd" \in Given <=> mnemonic_fd # None
           /\ "git_key" \in Given <=> git_keys # {}
           /\ \A s \in Secrets : s \in Given <=> Set(s)
  BY DEF Arguments, Given, Sources, Secrets, Set

\* A key from the source of rank r, when the sources before it were not given.
LEMMA RankedSource ==
    ASSUME UNCHANGED argVars, NEW r \in 1..6, r \notin {3, 4},
           key' = [from |-> Order[r]], Order[r] \in Given,
           \A q \in 1 .. r - 1 : Order[q] \notin Given
    PROVE  KeyFromFirstSource'
<1>1. Order[r] \notin {"mnemonic_fd", "MNEMONIC"} /\ DOMAIN Order = 1..6
  BY DEF Order
<1>2. Given' = Given
  BY DEF Given, argVars
<1>3. key'.from = Order[r]
  OBVIOUS
<1>4. QED
  BY <1>1, <1>2, <1>3 DEF KeyFromFirstSource

\* The key of a mnemonic, with the passphrase that goes with it.
LEMMA RankedMnemonic ==
    ASSUME UNCHANGED argVars, Arguments, sec_fd = None, ~sec_file,
           mnemonic_fd # None \/ Set("MNEMONIC"),
           passphrase_fd # None => passphrase_fd # mnemonic_fd,
           grabbed["PASSPHRASE"] # None <=> Set("PASSPHRASE"),
           key' = [from |-> MnemonicFrom, pass |-> PassphraseFrom]
    PROVE  KeyFromFirstSource'
<1> DEFINE r == IF mnemonic_fd # None THEN 3 ELSE 4
<1>1. r \in DOMAIN Order /\ key'.from = Order[r]
  BY DEF Order, MnemonicFrom
<1>2. Order[r] \in Given /\ \A q \in 1 .. r - 1 : Order[q] \notin Given
  BY GivenSources DEF Order, Secrets
<1>3. "PASSPHRASE" \in Given <=> Set("PASSPHRASE")
  BY GivenSources DEF Secrets
<1>4. Given' = Given
  BY DEF Given, argVars
<1>5. key'.pass = GivenPassphrase'
  BY <1>3, <1>4 DEF PassphraseFrom, GivenPassphrase, argVars
<1>6. UNCHANGED <<passphrase_fd, mnemonic_fd>>
  BY DEF argVars
<1> HIDE DEF r
<1>7. QED
  BY <1>1, <1>2, <1>4, <1>5, <1>6 DEF KeyFromFirstSource

LEMMA FdNotNone == ASSUME NEW fd \in Fds PROVE fd # None
<1>1. fd \in Int
  BY FdsAssumption
<1>2. QED
  BY <1>1, NoneAssumption, Zenon

\* The invariant holds when load_secret_key is called.
LEMMA InitKInv == KeyInit => KInv
<1> SUFFICES ASSUME KeyInit PROVE KInv
  OBVIOUS
<1> USE DEF KeyInit, Running, Success, UsageError, Aborted
<1>1. KeyTypeOK
  BY DEF KeyTypeOK
<1>2. kpc \in Places /\ Arguments /\ Grabbed /\ Reading /\ Passed /\ Descriptors
  BY DEF Places, Arguments, Grabbed, Reading, Passed, Descriptors, Where
<1>3. Returned /\ KeyFromFirstSource /\ TextsWiped
  BY DEF Returned, KeyFromFirstSource, TextsWiped
<1>4. QED
  BY <1>1, <1>2, <1>3 DEF KInv

\* Taking a copy of the variables and removing them.
LEMMA GrabKInv == KInv /\ GrabAndScrub => KInv'
<1> SUFFICES ASSUME KInv, GrabAndScrub PROVE KInv'
  OBVIOUS
<1> USE DEF KInv, GrabAndScrub, Goto, argVars, fdVars
<1>1. \A s \in Secrets : GrabFrom(s) \in Prefixes \cup {None}
  BY DEF GrabFrom, Prefixes
<1>2. \A s \in Secrets : GrabFrom(s) # None <=> Set(s)
  BY NoneAssumption DEF GrabFrom, Readable, Prefixes, Set, Grabbed
<1>3. KeyTypeOK'
  BY <1>1 DEF KeyTypeOK, Buffers
<1>4. Grabbed'
  BY <1>2 DEF Grabbed, Set
<1>5. (kpc \in Places /\ Arguments /\ Reading /\ Passed /\ Descriptors)'
  BY DEF Places, Arguments, Reading, Passed, Descriptors, Where
<1>6. (Returned /\ KeyFromFirstSource /\ TextsWiped)'
  BY DEF Returned, KeyFromFirstSource, TextsWiped, Running, Success
<1>7. QED
  BY <1>3, <1>4, <1>5, <1>6

\* A return with an error, or an abort: nothing is promised but the types and the
\* descriptors.
LEMMA FailKInv ==
    ASSUME KInv, kpc # "grab", NEW code \in {UsageError, Aborted}, Return(code, None),
           UNCHANGED <<argVars, envVars>>, open' \subseteq Fds, used' \subseteq Fds,
           used' \cap open' = {}, file' = None, held' \subseteq Buffers
    PROVE  KInv'
<1> USE DEF KInv, Return, argVars, envVars
<1>1. KeyTypeOK'
  BY DEF KeyTypeOK, Running, Success, UsageError, Aborted
<1>2. Grabbed'
  BY DEF Grabbed, Set
<1>3. (kpc \in Places /\ Arguments /\ Reading /\ Passed /\ Descriptors)'
  BY DEF Places, Arguments, Reading, Passed, Descriptors, Where
<1>4. (Returned /\ KeyFromFirstSource /\ TextsWiped)'
  BY DEF Returned, KeyFromFirstSource, TextsWiped, UsageError, Aborted, Success
<1>5. QED
  BY <1>1, <1>2, <1>3, <1>4

\* A step that does not return: what it must establish at its new place.
LEMMA GotoKInv ==
    ASSUME KInv, kpc \notin {"grab", "done"}, NEW pc \in Places \ {"grab", "done"},
           Goto(pc), UNCHANGED <<argVars, envVars>>,
           open' \subseteq Fds, used' \subseteq Fds, Reading', Descriptors', Passed',
           file' \in Files \cup {None},
           held' \subseteq Secrets \cup Live', held' \subseteq Buffers
    PROVE  KInv'
<1> USE DEF KInv, Goto, argVars, envVars
<1>1. KeyTypeOK'
  BY DEF KeyTypeOK
<1>2. (Grabbed /\ Arguments /\ kpc \in Places)'
  BY DEF Grabbed, Set, Arguments
<1>3. (Returned /\ KeyFromFirstSource /\ TextsWiped)'
  BY DEF Returned, KeyFromFirstSource, TextsWiped, Running, Success
<1>4. QED
  BY <1>1, <1>2, <1>3

\* Between two files: the File is None, what was taken is closed.
LEMMA NoFile ==
    ASSUME KInv, kpc \notin {"read", "drop"}
    PROVE  /\ file = None /\ Where = kpc /\ used \cap open = {}
           /\ open \subseteq Fds /\ used \subseteq Fds /\ held \subseteq Buffers
  BY DEF KInv, KeyTypeOK, Descriptors, Reading, Where

\* A step to another place that leaves the descriptors alone.
LEMMA StepKInv ==
    ASSUME KInv, kpc \notin {"grab", "done", "read", "drop"},
           NEW pc \in Places \ {"grab", "done", "read", "drop"},
           Goto(pc), UNCHANGED <<argVars, envVars, fdVars>>, Descriptors', Passed',
           held' \subseteq Secrets \cup Live', held' \subseteq Buffers
    PROVE  KInv'
<1>1. file' = None /\ open' \subseteq Fds /\ used' \subseteq Fds
  BY NoFile DEF fdVars
<1>2. Reading'
  BY <1>1 DEF Reading, Goto
<1>3. UNCHANGED <<argVars, envVars>>
  OBVIOUS
<1>4. QED
  BY <1>1, <1>2, <1>3, GotoKInv

\* Taking a descriptor.
LEMMA FromRawFdKInv ==
    ASSUME KInv, UNCHANGED <<argVars, envVars>>,
           NEW fd, NEW source \in {"sec_fd", "mnemonic_fd", "passphrase_fd"},
           \/ source = "sec_fd" /\ fd = sec_fd /\ kpc = "sec_fd"
           \/ source = "mnemonic_fd" /\ fd = mnemonic_fd /\ kpc = "mnemonic"
           \/ source = "passphrase_fd" /\ fd = passphrase_fd /\ kpc = "passphrase",
           fd # None, FromRawFd(fd, source)
    PROVE  KInv'
<1>0. kpc \notin {"grab", "done", "read", "drop"} /\ kpc \in {"sec_fd", "mnemonic", "passphrase"}
  OBVIOUS
<1>1. /\ file = None /\ Where = kpc /\ used \cap open = {}
      /\ open \subseteq Fds /\ used \subseteq Fds /\ held \subseteq Buffers
  BY <1>0, NoFile
<1>2. held \subseteq Secrets \cup Live
  BY <1>0 DEF KInv, Returned
<1>3. CASE fd = MinusOne
  <2>1. Return(Aborted, None) /\ UNCHANGED <<open, used, file, held>>
    BY <1>3 DEF FromRawFd, fdVars
  <2>2. QED
    BY <1>0, <1>1, <2>1, FailKInv
<1>4. CASE fd # MinusOne
  <2> DEFINE f == [fd |-> fd, for |-> source]
  <2>1. /\ file' = f /\ used' = used \cup {fd} /\ Goto("read")
        /\ UNCHANGED <<open, held>>
    BY <1>4 DEF FromRawFd
  <2>2. fd \in Fds
    BY <1>4 DEF KInv, Arguments
  <2>3. f.fd = fd /\ f.for = source /\ f # None
        /\ f \in Files
    BY <2>2, NoneAssumption DEF Files
  <2> HIDE DEF f
  <2>4. Where' = source /\ kpc' = "read"
    BY <2>1, <2>3 DEF Where, Goto
  <2>5. UNCHANGED <<sec_fd, sec_file, mnemonic_fd, passphrase_fd, git_keys, env0, odd, grabbed>>
    BY DEF argVars, envVars
  <2>6. Reading'
    BY <2>1, <2>3, <2>4, <2>5 DEF Reading
  <2>7. Passed'
    BY <1>0, <1>1, <2>4, <2>5 DEF Passed, KInv, Set
  <2>8. Descriptors'
    BY <1>0, <1>1, <2>1, <2>3, <2>4, <2>5 DEF Descriptors, KInv
  <2>9. held' \subseteq Secrets \cup Live'
    <3>1. MnemonicFrom' = MnemonicFrom
      BY <2>5 DEF MnemonicFrom
    <3>2. Live \subseteq Live'
      BY <1>0, <1>1, <2>1, <2>3, <2>4, <3>1 DEF Live
    <3>3. QED
      BY <1>2, <2>1, <3>2
  <2>10. used' \subseteq Fds /\ open' \subseteq Fds /\ held' \subseteq Buffers
         /\ "read" \in Places \ {"grab", "done"}
    BY <1>1, <2>1, <2>2 DEF Places
  <2>11. QED
    BY <1>0, <2>1, <2>3, <2>6, <2>7, <2>8, <2>9, <2>10, GotoKInv
<1>5. QED
  BY <1>3, <1>4

\* Reading the File.
LEMMA ReadKInv == KInv /\ ReadFd => KInv'
<1> SUFFICES ASSUME KInv, ReadFd PROVE KInv'
  OBVIOUS
<1>0. kpc = "read" /\ UNCHANGED <<argVars, envVars, used>>
  BY DEF ReadFd
<1>1. /\ file \in Files /\ file # None /\ file.fd \in Fds
      /\ file.for \in {"sec_fd", "mnemonic_fd", "passphrase_fd"}
      /\ open \subseteq Fds /\ used \subseteq Fds /\ held \subseteq Buffers
      /\ Where = file.for
  BY <1>0 DEF KInv, KeyTypeOK, Reading, Where, Files
<1>2. Buffer \in Buffers
  BY <1>1 DEF Buffer, Buffers
<1>3. CASE Return(UsageError, None) /\ Drop /\ held' \in {held, held \cup {Buffer}}
  <2>1. open' = open \ {file.fd} /\ file' = None /\ used' = used
    BY <1>0, <1>3 DEF Drop
  <2>2. used' \cap open' = {}
    BY <2>1 DEF KInv, Descriptors
  <2>3. held' \subseteq Buffers
    BY <1>1, <1>2, <1>3
  <2>4. QED
    BY <1>0, <1>1, <1>3, <2>1, <2>2, <2>3, FailKInv
<1>4. CASE /\ file.fd \in open /\ held' = held \cup {Buffer}
           /\ Goto("drop") /\ UNCHANGED <<open, file>>
  <2>1. kpc' = "drop" /\ Where' = Where
    BY <1>1, <1>4 DEF Where, Goto
  <2>2. UNCHANGED <<sec_fd, sec_file, mnemonic_fd, passphrase_fd, git_keys, env0, odd, grabbed>>
    BY <1>0 DEF argVars, envVars
  <2>3. Reading'
    BY <1>1, <1>4, <2>1, <2>2 DEF Reading, KInv
  <2>4. Passed'
    BY <2>1, <2>2 DEF Passed, KInv, Set
  <2>5. Descriptors'
    <3>1. Where = "passphrase_fd" => file.fd = passphrase_fd
      BY <1>1 DEF KInv, Reading
    <3>2. QED
      BY <1>0, <1>1, <1>4, <2>1, <2>2, <3>1 DEF Descriptors, KInv
  <2>6. held' \subseteq Secrets \cup Live'
    <3>1. MnemonicFrom' = MnemonicFrom /\ PassphraseFrom' = PassphraseFrom
      BY <2>2 DEF MnemonicFrom, PassphraseFrom
    <3>2. Live' = Live
      BY <1>1, <1>4, <2>1, <3>1 DEF Live
    <3>3. Buffer \in Live
      <4>1. Where = "passphrase_fd" => PassphraseFrom = "passphrase_fd"
        <5>1. Where = "passphrase_fd" => file.fd = passphrase_fd
          BY <1>1 DEF KInv, Reading
        <5>2. QED
          BY <1>1, <5>1, FdNotNone DEF PassphraseFrom
      <4>2. QED
        BY <1>1, <4>1 DEF Live, Buffer
    <3>4. QED
      BY <1>0, <1>4, <3>2, <3>3 DEF KInv, Returned
  <2>7. held' \subseteq Buffers /\ "drop" \in Places \ {"grab", "done"}
    BY <1>1, <1>2, <1>4 DEF Places
  <2>8. QED
    BY <1>0, <1>1, <1>4, <2>3, <2>4, <2>5, <2>6, <2>7, GotoKInv
<1>5. QED
  BY <1>3, <1>4 DEF ReadFd

\* Dropping the File, and going on with what was read.
LEMMA DropKInv == KInv /\ DropFd => KInv'
<1> SUFFICES ASSUME KInv, DropFd PROVE KInv'
  OBVIOUS
<1>0. /\ kpc = "drop" /\ UNCHANGED <<argVars, envVars, used, held>> /\ Goto(AfterRead)
      /\ open' = open \ {file.fd} /\ file' = None
  BY DEF DropFd, DropAfterRead, Drop
<1>1. /\ file \in Files /\ file # None /\ file.fd \in Fds
      /\ file.for \in {"sec_fd", "mnemonic_fd", "passphrase_fd"}
      /\ open \subseteq Fds /\ used \subseteq Fds /\ held \subseteq Buffers
      /\ Where = file.for
  BY <1>0 DEF KInv, KeyTypeOK, Reading, Where, Files
<1>2. UNCHANGED <<sec_fd, sec_file, mnemonic_fd, passphrase_fd, git_keys, env0, odd, grabbed>>
  BY <1>0 DEF argVars, envVars
<1>3. /\ Where = "sec_fd" => AfterRead = "parse_fd" /\ file.fd = sec_fd
      /\ Where = "mnemonic_fd" => AfterRead = "passphrase" /\ file.fd = mnemonic_fd
      /\ Where = "passphrase_fd" => AfterRead = "derive" /\ file.fd = passphrase_fd
  BY <1>1 DEF AfterRead, KInv, Reading
<1>4. Where' = AfterRead /\ kpc' = AfterRead
  BY <1>0 DEF Where, Goto
<1>5. Where \in {"sec_fd", "mnemonic_fd", "passphrase_fd"} /\ file.fd # None
  BY <1>1, FdNotNone
<1>6. Reading'
  BY <1>0, <1>3, <1>4, <1>5 DEF Reading
<1>7. Passed'
  BY <1>2, <1>3, <1>4, <1>5 DEF Passed, KInv, Set
<1>8. Descriptors'
  BY <1>0, <1>1, <1>2, <1>3, <1>4, <1>5 DEF Descriptors, KInv
<1>9. held' \subseteq Secrets \cup Live'
  <2>1. MnemonicFrom' = MnemonicFrom /\ PassphraseFrom' = PassphraseFrom
    BY <1>2 DEF MnemonicFrom, PassphraseFrom
  <2>2. Where = "mnemonic_fd" => MnemonicFrom = "mnemonic_fd"
    BY <1>3, <1>5 DEF MnemonicFrom
  <2>3. Live \subseteq Live'
    BY <1>1, <1>3, <1>4, <1>5, <2>1, <2>2 DEF Live
  <2>4. QED
    BY <1>0, <2>3 DEF KInv, Returned
<1>10. AfterRead \in Places \ {"grab", "done"}
  BY <1>3, <1>5 DEF Places
<1>11. QED
  BY <1>0, <1>1, <1>6, <1>7, <1>8, <1>9, <1>10, GotoKInv

\* --sec-fd.
LEMMA SecFdKInv == KInv /\ SecFd => KInv'
<1> SUFFICES ASSUME KInv, SecFd PROVE KInv'
  OBVIOUS
<1>0. kpc = "sec_fd" /\ UNCHANGED <<argVars, envVars>>
  BY DEF SecFd
<1>1. /\ file = None /\ Where = kpc /\ used \cap open = {} /\ held \subseteq Buffers
  BY <1>0, NoFile
<1>2. CASE sec_fd = None
  <2>1. Goto("sec_file") /\ UNCHANGED <<open, used, file, held>>
    BY <1>2 DEF SecFd, fdVars
  <2>2. Passed' /\ Descriptors'
    BY <1>0, <1>1, <1>2, <2>1 DEF Goto, KInv, Passed, Descriptors, Where, argVars
  <2>3. held \subseteq Secrets
    BY <1>0, <1>1 DEF KInv, Returned, Live
  <2>4. "sec_file" \in Places \ {"grab", "done", "read", "drop"}
    BY DEF Places
  <2>5. QED
    BY <1>0, <1>1, <2>1, <2>2, <2>3, <2>4, StepKInv DEF fdVars
<1>3. CASE sec_fd # None
  BY <1>0, <1>3, FromRawFdKInv DEF SecFd
<1>4. QED
  BY <1>2, <1>3

\* --sec-file.
LEMMA SecFileKInv == KInv /\ SecFile => KInv'
<1> SUFFICES ASSUME KInv, SecFile PROVE KInv'
  OBVIOUS
<1>0. kpc = "sec_file" /\ UNCHANGED <<argVars, envVars, fdVars>>
  BY DEF SecFile
<1>1. /\ file = None /\ Where = kpc /\ used \cap open = {} /\ held \subseteq Buffers
      /\ open \subseteq Fds /\ used \subseteq Fds
  BY <1>0, NoFile
<1>2. held \subseteq Secrets /\ "text" \in Buffers
  BY <1>0, <1>1 DEF KInv, Returned, Live, Buffers
<1>3. CASE ~sec_file /\ Goto("mnemonic") /\ UNCHANGED held
  <2>1. Passed' /\ Descriptors'
    BY <1>0, <1>1, <1>3 DEF Goto, KInv, Passed, Descriptors, Where, argVars, fdVars
  <2>2. "mnemonic" \in Places \ {"grab", "done", "read", "drop"}
    BY DEF Places
  <2>3. QED
    BY <1>0, <1>1, <1>2, <1>3, <2>1, <2>2, StepKInv
<1>4. CASE Return(UsageError, None) /\ held' \in {held, held \cup {"text"}}
  BY <1>0, <1>1, <1>2, <1>4, FailKInv DEF fdVars
<1>5. CASE sec_file /\ held' = held \cup {"text"} /\ Goto("parse_file")
  <2>1. Passed' /\ Descriptors' /\ Live' = {"text"}
    BY <1>0, <1>1, <1>5 DEF Goto, KInv, Passed, Descriptors, Live, Where, argVars, fdVars
  <2>2. "parse_file" \in Places \ {"grab", "done", "read", "drop"}
    BY DEF Places
  <2>3. QED
    BY <1>0, <1>1, <1>2, <1>5, <2>1, <2>2, StepKInv
<1>6. QED
  BY <1>3, <1>4, <1>5 DEF SecFile

\* A return with a key: it comes from the first source and its texts are wiped.
LEMMA SuccessKInv ==
    ASSUME KInv, kpc \notin {"grab", "read", "drop"}, NEW k \in Keys, Return(Success, k),
           UNCHANGED <<argVars, envVars, fdVars>>,
           held' \subseteq Buffers, KeyFromFirstSource', TextsWiped'
    PROVE  KInv'
<1>0. /\ file = None /\ used \cap open = {}
  BY NoFile
<1> USE DEF KInv, Return, argVars, envVars, fdVars
<1>1. KeyTypeOK'
  BY NoneAssumption DEF KeyTypeOK, Success
<1>2. Grabbed'
  BY DEF Grabbed, Set
<1>3. (kpc \in Places /\ Arguments /\ Reading /\ Passed /\ Descriptors /\ Returned)'
  BY <1>0 DEF Places, Arguments, Reading, Passed, Descriptors, Returned, Where
<1>4. QED
  BY <1>1, <1>2, <1>3

\* A key without a passphrase is wiped with its own text.
LEMMA PlainKeyWiped ==
    ASSUME NEW s, key' = [from |-> s], s \notin held', "text" \notin held'
    PROVE  TextsWiped'
<1>1. DOMAIN key' = {"from"} /\ key'.from = s
  OBVIOUS
<1>2. TextsOf(key)' = {"text", s}
  BY <1>1 DEF TextsOf
<1>3. QED
  BY <1>2 DEF TextsWiped

\* parse_key_bytes.
LEMMA ParseTextKInv == KInv /\ ParseText => KInv'
<1> SUFFICES ASSUME KInv, ParseText PROVE KInv'
  OBVIOUS
<1> DEFINE r == IF kpc = "parse_fd" THEN 1 ELSE 2
<1>0. /\ kpc \in {"parse_fd", "parse_file"}
      /\ UNCHANGED <<argVars, envVars, fdVars>>
  BY DEF ParseText
<1>1. /\ file = None /\ Where = kpc /\ used \cap open = {} /\ held \subseteq Buffers
      /\ open \subseteq Fds /\ used \subseteq Fds
  BY <1>0, NoFile
<1>2. held \subseteq Secrets \cup {"text"} /\ "decoded" \in Buffers
  BY <1>0, <1>1 DEF KInv, Returned, Live, Buffers
<1>3. CASE Return(UsageError, None) /\ held' \in {held, held \cup Decoded}
  BY <1>0, <1>1, <1>2, <1>3, FailKInv DEF fdVars, Decoded
<1>4. CASE held' = (held \ {"text"}) \cup Decoded /\ Return(Success, [from |-> Order[r]])
  <2>1. r \in 1..6 \ {3, 4} /\ Order[r] \in {"sec_fd", "sec_file"}
    BY DEF Order
  <2>2. Order[r] \in Given /\ \A q \in 1 .. r - 1 : Order[q] \notin Given
    BY <1>0, <1>1, GivenSources DEF Order, KInv, Passed
  <2>3. key' = [from |-> Order[r]] /\ [from |-> Order[r]] \in Keys
    BY <1>4, <2>1 DEF Return, Keys, Sources
  <2>4. KeyFromFirstSource'
    BY <1>0, <2>1, <2>2, <2>3, RankedSource
  <2>5. Order[r] \notin held' /\ "text" \notin held'
    BY <1>2, <1>4, <2>1 DEF Secrets, Decoded
  <2>6. TextsWiped'
    BY <2>3, <2>5, PlainKeyWiped
  <2>7. held' \subseteq Buffers
    BY <1>1, <1>2, <1>4 DEF Decoded
  <2>8. QED
    BY <1>0, <1>4, <2>3, <2>4, <2>6, <2>7, SuccessKInv
<1>5. Order[r] = IF kpc = "parse_fd" THEN "sec_fd" ELSE "sec_file"
  BY DEF Order
<1>6. QED
  BY <1>3, <1>4, <1>5 DEF ParseText

\* --mnemonic-fd, or the mnemonic of the environment.
LEMMA MnemonicKInv == KInv /\ MnemonicSource => KInv'
<1> SUFFICES ASSUME KInv, MnemonicSource PROVE KInv'
  OBVIOUS
<1>0. kpc = "mnemonic" /\ UNCHANGED <<argVars, envVars>> /\ TryMnemonic
  BY DEF MnemonicSource
<1>1. /\ file = None /\ Where = kpc /\ used \cap open = {} /\ held \subseteq Buffers
  BY <1>0, NoFile
<1>2. CASE mnemonic_fd # None
  BY <1>0, <1>2, FromRawFdKInv DEF TryMnemonic
<1>3. CASE mnemonic_fd = None
  <2> DEFINE pc == IF grabbed["MNEMONIC"] # None THEN "passphrase" ELSE "env_key"
  <2>1. Goto(pc) /\ UNCHANGED <<fdVars, held>>
    BY <1>0, <1>3 DEF TryMnemonic
  <2>2. grabbed["MNEMONIC"] # None <=> Set("MNEMONIC")
    BY <1>0 DEF KInv, Grabbed, Secrets
  <2>3. Passed' /\ Descriptors'
    BY <1>0, <1>1, <1>3, <2>1, <2>2
    DEF Goto, KInv, Passed, Descriptors, Where, argVars, fdVars, Set
  <2>4. held \subseteq Secrets
    BY <1>0, <1>1 DEF KInv, Returned, Live
  <2>5. pc \in Places \ {"grab", "done", "read", "drop"}
    BY DEF Places
  <2>6. QED
    BY <1>0, <1>1, <2>1, <2>3, <2>4, <2>5, StepKInv
<1>4. QED
  BY <1>2, <1>3

\* --passphrase-fd, or the passphrase of the environment.
LEMMA PassphraseKInv == KInv /\ PassphraseSource => KInv'
<1> SUFFICES ASSUME KInv, PassphraseSource PROVE KInv'
  OBVIOUS
<1>0. kpc = "passphrase" /\ UNCHANGED <<argVars, envVars>>
  BY DEF PassphraseSource
<1>1. /\ file = None /\ Where = kpc /\ used \cap open = {} /\ held \subseteq Buffers
  BY <1>0, NoFile
<1>2. CASE passphrase_fd = None
  <2>1. Goto("derive") /\ UNCHANGED <<fdVars, held>>
    BY <1>2 DEF PassphraseSource
  <2>2. /\ MnemonicFrom' = MnemonicFrom /\ PassphraseFrom' = PassphraseFrom
    BY <1>0 DEF MnemonicFrom, PassphraseFrom, argVars, envVars
  <2>3. Passed' /\ Descriptors' /\ Live' = {MnemonicFrom, PassphraseFrom}
    BY <1>0, <1>1, <1>2, <2>1, <2>2
    DEF Goto, KInv, Passed, Descriptors, Live, Where, argVars, fdVars, Set
  <2>4. held \subseteq Secrets \cup {MnemonicFrom}
    BY <1>0, <1>1 DEF KInv, Returned, Live
  <2>5. "derive" \in Places \ {"grab", "done", "read", "drop"}
    BY DEF Places
  <2>6. QED
    BY <1>0, <1>1, <2>1, <2>3, <2>4, <2>5, StepKInv
<1>3. CASE passphrase_fd # None
  BY <1>0, <1>3, FromRawFdKInv DEF PassphraseSource
<1>4. QED
  BY <1>2, <1>3

\* BIP-85 derivation.
LEMMA DeriveKInv == KInv /\ Derive => KInv'
<1> SUFFICES ASSUME KInv, Derive PROVE KInv'
  OBVIOUS
<1> DEFINE k == [from |-> MnemonicFrom, pass |-> PassphraseFrom]
<1>0. kpc = "derive" /\ UNCHANGED <<argVars, envVars, fdVars>>
  BY DEF Derive
<1>1. /\ file = None /\ Where = kpc /\ used \cap open = {} /\ held \subseteq Buffers
      /\ open \subseteq Fds /\ used \subseteq Fds
  BY <1>0, NoFile
<1>2. held \subseteq Secrets \cup {MnemonicFrom, PassphraseFrom}
  BY <1>0, <1>1 DEF KInv, Returned, Live
<1>3. CASE held' = DeriveWipes \cup {"words"} /\ Return(Success, k)
  <2>1. k \in Keys
    BY DEF Keys, Sources, Secrets, MnemonicFrom, PassphraseFrom
  <2>2. grabbed["PASSPHRASE"] # None <=> Set("PASSPHRASE")
    BY <1>0 DEF KInv, Grabbed, Secrets
  <2>3. KeyFromFirstSource'
    <3>1. /\ sec_fd = None /\ ~sec_file /\ (mnemonic_fd # None \/ Set("MNEMONIC"))
          /\ (passphrase_fd # None => passphrase_fd # mnemonic_fd)
      BY <1>0, <1>1 DEF KInv, Passed, Descriptors
    <3>2. key' = k /\ UNCHANGED argVars /\ Arguments
      BY <1>0, <1>3 DEF Return, KInv
    <3>3. QED
      BY <2>2, <3>1, <3>2, RankedMnemonic
  <2>4. DOMAIN k = {"from", "pass"} /\ k.from = MnemonicFrom
        /\ k.pass = PassphraseFrom /\ key' = k
    BY <1>3 DEF Return
  <2>5. /\ MnemonicFrom \notin held' /\ PassphraseFrom \notin held' /\ "text" \notin held'
    <3>1. MnemonicFrom # "words" /\ MnemonicFrom # "text"
      BY DEF MnemonicFrom
    <3>2. PassphraseFrom \in {"passphrase_fd", "PASSPHRASE", None}
      BY DEF PassphraseFrom
    <3>3. CASE PassphraseFrom = None
      <4>1. PassphraseFrom \notin held'
        <5>1. None \notin {"words"} \cup DeriveWipes
          BY <1>1, NoneAssumption DEF DeriveWipes, Buffers
        <5>2. QED
          BY <1>3, <3>3, <5>1
      <4>2. QED
        BY <1>2, <1>3, <3>1, <4>1 DEF DeriveWipes, Secrets
    <3>4. CASE PassphraseFrom # None
      BY <1>2, <1>3, <3>1, <3>2, <3>4 DEF DeriveWipes, Secrets
    <3>5. QED
      BY <3>3, <3>4
  <2>6. TextsWiped'
    <3>1. TextsOf(key)' = {"text", MnemonicFrom, PassphraseFrom}
      BY <2>4 DEF TextsOf
    <3>2. QED
      BY <2>5, <3>1 DEF TextsWiped
  <2>7. held' \subseteq Buffers
    BY <1>1, <1>3 DEF DeriveWipes, Buffers
  <2> HIDE DEF k
  <2>8. QED
    BY <1>0, <1>3, <2>1, <2>3, <2>6, <2>7, SuccessKInv
<1>4. CASE /\ \E left \in {{}, {"words"}, {"words", "seed"}} : held' = DeriveWipes \cup left
           /\ DeriveFails
  <2>1. held' \subseteq Buffers
    BY <1>1, <1>4 DEF DeriveWipes, Buffers
  <2>2. QED
    BY <1>0, <1>1, <1>4, <2>1, FailKInv DEF DeriveFails, fdVars
<1>5. QED
  BY <1>3, <1>4 DEF Derive

\* The key of the environment.
LEMMA EnvKeyKInv == KInv /\ EnvKey => KInv'
<1> SUFFICES ASSUME KInv, EnvKey PROVE KInv'
  OBVIOUS
<1>0. kpc = "env_key" /\ UNCHANGED <<argVars, envVars, fdVars>>
  BY DEF EnvKey
<1>1. /\ file = None /\ Where = kpc /\ used \cap open = {} /\ held \subseteq Buffers
      /\ open \subseteq Fds /\ used \subseteq Fds
  BY <1>0, NoFile
<1>2. held \subseteq Secrets /\ "decoded" \in Buffers
  BY <1>0, <1>1 DEF KInv, Returned, Live, Buffers
<1>3. grabbed["SEC_KEY"] # None <=> Set("SEC_KEY")
  BY <1>0 DEF KInv, Grabbed, Secrets
<1>4. CASE grabbed["SEC_KEY"] = None
  <2>1. Goto("git_key") /\ UNCHANGED held
    BY <1>4 DEF EnvKey
  <2>2. Passed' /\ Descriptors'
    BY <1>0, <1>1, <1>3, <1>4, <2>1
    DEF Goto, KInv, Passed, Descriptors, Where, argVars, fdVars, Set
  <2>3. "git_key" \in Places \ {"grab", "done", "read", "drop"}
    BY DEF Places
  <2>4. QED
    BY <1>0, <1>1, <1>2, <2>1, <2>2, <2>3, StepKInv
<1>5. CASE /\ held' \in {held \ {"SEC_KEY"}, (held \ {"SEC_KEY"}) \cup Decoded}
           /\ Return(UsageError, None)
  BY <1>0, <1>1, <1>2, <1>5, FailKInv DEF Decoded, fdVars
<1>6. CASE /\ grabbed["SEC_KEY"] # None /\ held' = (held \ {"SEC_KEY"}) \cup Decoded
           /\ Return(Success, [from |-> "SEC_KEY"])
  <2>1. Order[5] = "SEC_KEY" /\ [from |-> "SEC_KEY"] \in Keys
    BY DEF Order, Keys, Sources, Secrets
  <2>2. Order[5] \in Given /\ \A q \in 1..4 : Order[q] \notin Given
    BY <1>0, <1>1, <1>3, <1>6, GivenSources DEF Order, KInv, Passed, Secrets
  <2>3. key' = [from |-> "SEC_KEY"]
    BY <1>6 DEF Return
  <2>4. KeyFromFirstSource'
    BY <1>0, <2>1, <2>2, <2>3, RankedSource
  <2>5. "SEC_KEY" \notin held' /\ "text" \notin held' /\ held' \subseteq Buffers
    BY <1>1, <1>2, <1>6 DEF Decoded, Secrets
  <2>6. TextsWiped'
    BY <2>3, <2>5, PlainKeyWiped
  <2>7. QED
    BY <1>0, <1>6, <2>1, <2>4, <2>5, <2>6, SuccessKInv
<1>7. QED
  BY <1>4, <1>5, <1>6 DEF EnvKey

\* The key file of the git shim.
LEMMA GitKeyKInv == KInv /\ GitKey => KInv'
<1> SUFFICES ASSUME KInv, GitKey PROVE KInv'
  OBVIOUS
<1>0. kpc = "git_key" /\ UNCHANGED <<argVars, envVars, fdVars>>
  BY DEF GitKey
<1>1. /\ file = None /\ Where = kpc /\ used \cap open = {} /\ held \subseteq Buffers
      /\ open \subseteq Fds /\ used \subseteq Fds
  BY <1>0, NoFile
<1>2. held \subseteq Secrets /\ "decoded" \in Buffers /\ "text" \in Buffers
  BY <1>0, <1>1 DEF KInv, Returned, Live, Buffers
<1>3. CASE /\ held' \in {held, held \cup Decoded, held \cup {"text"}}
           /\ Return(UsageError, None)
  BY <1>0, <1>1, <1>2, <1>3, FailKInv DEF Decoded, fdVars
<1>4. CASE /\ git_keys # {} /\ held' = held \cup Decoded
           /\ Return(Success, [from |-> "git_key"])
  <2>1. Order[6] = "git_key" /\ [from |-> "git_key"] \in Keys
    BY DEF Order, Keys, Sources, Secrets
  <2>2. Order[6] \in Given /\ \A q \in 1..5 : Order[q] \notin Given
    BY <1>0, <1>1, <1>4, GivenSources DEF Order, KInv, Passed, Secrets
  <2>3. key' = [from |-> "git_key"]
    BY <1>4 DEF Return
  <2>4. KeyFromFirstSource'
    BY <1>0, <2>1, <2>2, <2>3, RankedSource
  <2>5. "git_key" \notin held' /\ "text" \notin held' /\ held' \subseteq Buffers
    BY <1>1, <1>2, <1>4 DEF Decoded, Secrets
  <2>6. TextsWiped'
    BY <2>3, <2>5, PlainKeyWiped
  <2>7. QED
    BY <1>0, <1>4, <2>1, <2>4, <2>5, <2>6, SuccessKInv
<1>5. QED
  BY <1>3, <1>4 DEF GitKey

-----------------------------------------------------------------------------
\* The invariant holds in every state of load_secret_key.
LEMMA KeyInvariant == KeySpec => []KInv
<1>1. KInv /\ UNCHANGED keyVars => KInv'
  <2> SUFFICES ASSUME KInv, UNCHANGED keyVars PROVE KInv'
    OBVIOUS
  <2> USE DEF KInv, keyVars, argVars, envVars, fdVars
  <2>0. Where' = Where
    BY DEF Where
  <2>1. Live' = Live
    BY <2>0 DEF Live, MnemonicFrom, PassphraseFrom
  <2>2. (KeyTypeOK /\ kpc \in Places /\ Arguments /\ Returned)'
    BY <2>1 DEF KeyTypeOK, Arguments, Returned
  <2>3. (Grabbed /\ Reading /\ Passed /\ Descriptors)'
    BY <2>0 DEF Grabbed, Reading, Passed, Descriptors, Set
  <2>4. Given' = Given /\ GivenPassphrase' = GivenPassphrase
    BY DEF Given, GivenPassphrase
  <2>5. (KeyFromFirstSource /\ TextsWiped)'
    BY <2>4 DEF KeyFromFirstSource, TextsWiped
  <2>6. QED
    BY <2>2, <2>3, <2>5
<1>2. KInv /\ [load_secret_key]_keyVars => KInv'
  BY <1>1, GrabKInv, SecFdKInv, ReadKInv, DropKInv, SecFileKInv, ParseTextKInv,
     MnemonicKInv, PassphraseKInv, DeriveKInv, EnvKeyKInv, GitKeyKInv
  DEF load_secret_key
<1>3. QED
  BY InitKInv, <1>2, PTL DEF KeySpec

\* Every variable of load_secret_key has its type; a key is returned with exit
\* code 0 and with no other.
THEOREM KeyTypeCorrect == KeySpec => []KeyTypeOK
  BY KeyInvariant, PTL DEF KInv

\* Whatever the caller gave and whichever source turns out to be broken, a key
\* comes from the first source that was given, with the passphrase that was given.
THEOREM KeyFromFirst == KeySpec => []KeyFromFirstSource
  BY KeyInvariant, PTL DEF KInv

\* Wherever a text is parsed, a mnemonic and a passphrase are put together, or the
\* function has returned, every descriptor that it took is closed, whichever options
\* name it and however the read and the steps before it went.
THEOREM DescriptorsAreClosed == KeySpec => []DescriptorsClosed
<1>1. KInv => DescriptorsClosed
  BY DEF KInv, Descriptors, Reading, DescriptorsClosed
<1>2. QED
  BY <1>1, KeyInvariant, PTL

\* The texts that a returned key was made from are wiped; what they were parsed into
\* need not be.
THEOREM TextsAreWiped == KeySpec => []TextsWiped
  BY KeyInvariant, PTL DEF KInv
=============================================================================
