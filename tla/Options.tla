------------------------------ MODULE Options -------------------------------
(***************************************************************************)
(* The command line: real_main picks a command or the git shim, and loops  *)
(* over the arguments assign the options, one loop for the key intake and  *)
(* one for the command.  A token is a string; a loop takes a token as an   *)
(* option if it is in the loop's table and otherwise passes over it.       *)
(* Beside the tokens the model keeps the items they were written as: an    *)
(* option, its values, what the caller means by them, and the fields for   *)
(* which they give no number where one is needed, or nothing at all.       *)
(***************************************************************************)
EXTENDS ExitCodes, Sequences, SequencesExt

CONSTANTS Items,         \* command -> the items its lines may contain
          Numbers,       \* the tokens that parse as a number
          MAX_ITEMS,     \* items in a line
          None

VARIABLES cmd,           \* the command that the caller wants
          exe,           \* the name the program is called by
          items, argv,   \* the line, as items and as tokens
          loops,         \* the loops still to be run, in order
          i,             \* the index of the running loop
          opts,          \* field -> value
          oexit          \* Running while composing or parsing

optionVars == <<cmd, exe, items, argv, loops, i, opts, oexit>>

-----------------------------------------------------------------------------
(* The tables: match arms of the loops.                                    *)

KeyOpts == {"--sec-fd", "--sec-file", "--mnemonic-fd", "--passphrase-fd",
            "--bip85-identity", "--bip85-index"}

CommandOpts == [encrypt |-> {"--recipient", "--mode", "--entropy-fd"},
                decrypt |-> {"--sender", "--max-size"},
                pubkey |-> {},
                sign |-> {},
                verify |-> {"--sig", "--pub", "--max-size"}]

CommandFlags == [encrypt |-> {},
                 decrypt |-> {"--allow-untrusted-sender", "--allow-unverified-stream"},
                 pubkey |-> {},
                 sign |-> {"--armor", "-a"},
                 verify |-> {"--pass-through"}]

\* Tokens of the git shim that hold their value.
Joined == [t \in {"--status-fd=2", "-uK"} |->
               IF t = "-uK" THEN <<"key_id", "K">> ELSE <<"status_fd", "2">>]

\* The fields that a loop fills from the tokens after tok.
Takes(loop, tok) ==
    CASE loop = "key" -> IF tok \in KeyOpts THEN <<tok>> ELSE << >>
      [] loop = "shim" -> CASE tok \in {"--verify", "-v"} -> <<"sig", "data">>
                            [] tok \in {"-u", "-bsau"} -> <<"key_id">>
                            [] tok = "--status-fd" -> <<"status_fd">>
                            [] OTHER -> << >>
      [] OTHER -> IF tok \in CommandOpts[loop] THEN <<tok>> ELSE << >>

\* The field that tok sets by itself, with its value; -a and --armor are one.
Sets(loop, tok) ==
    CASE loop = "shim" /\ tok \in {"--verify", "-v"} -> <<"is_verify", TRUE>>
      [] loop = "shim" /\ tok \in DOMAIN Joined -> Joined[tok]
      [] loop \in DOMAIN CommandFlags /\ tok \in CommandFlags[loop] ->
             <<IF tok = "-a" THEN "--armor" ELSE tok, TRUE>>
      [] OTHER -> << >>

Numeric == {"--sec-fd", "--mnemonic-fd", "--passphrase-fd", "--bip85-identity",
            "--bip85-index", "--entropy-fd", "--max-size", "status_fd"}

\* parse().ok(), parse().unwrap_or(2) for --mode, the token itself for the rest.
Parse(field, tok) ==
    IF field = "--mode" THEN (IF tok \in Numbers THEN tok ELSE "2")
    ELSE IF field \in Numeric /\ tok \notin Numbers THEN None
    ELSE tok

\* parse() succeeds, or the field is a string.
Parses(field, tok) == field \in Numeric \cup {"--mode"} => tok \in Numbers

\* The fields that a loop fills.
FieldsOf(loop) ==
    CASE loop = "key" -> KeyOpts
      [] loop = "shim" -> {"sig", "data", "key_id", "status_fd", "is_verify"}
      [] OTHER -> CommandOpts[loop] \cup CommandFlags[loop]

Fields == UNION {FieldsOf(loop) : loop \in {"key", "shim"} \cup DOMAIN CommandOpts}

Defaults == [f \in Fields |-> IF f = "--mode" THEN "2" ELSE None]

Commands == DOMAIN CommandOpts \cup {"git-shim"}

\* The loops that run for a command, in order.
LoopsOf(c) == CASE c = "git-shim" -> <<"shim">>
                [] c = "verify" -> <<c>>
                [] c = "sign" -> <<c, "key">>
                [] OTHER -> <<"key", c>>

\* The loop has an arm for the token.
Knows(loop, tok) == Takes(loop, tok) # << >> \/ Sets(loop, tok) # << >>

-----------------------------------------------------------------------------
(* What a caller can write.                                                *)

\* An item means what its loop makes of it by itself: each field that it takes has
\* the value in that place.  A field is broken if the value there is no number and
\* must be, or if the line ends before it.
MeansByItself(loop, it) ==
    LET fs == Takes(loop, it.opt)
        set == Sets(loop, it.opt)
        sound == {m \in DOMAIN it.values : Parses(fs[m], it.values[m])}
    IN  /\ IF it.dangling THEN Len(it.values) < Len(fs) ELSE Len(it.values) = Len(fs)
        /\ DOMAIN it.means = {fs[m] : m \in sound} \cup (IF set = << >> THEN {} ELSE {set[1]})
        /\ \A m \in sound : it.means[fs[m]] = it.values[m]
        /\ set # << >> => it.means[set[1]] = set[2]
        /\ it.broken = {fs[m] : m \in DOMAIN fs \ sound}

\* A token that no loop knows is written as an item without a meaning.
ASSUME ItemsAssumption ==
    /\ DOMAIN Items \subseteq Commands
    /\ \A c \in DOMAIN Items : \A it \in Items[c] :
           /\ it.opt \in STRING \ Commands /\ it.values \in Seq(STRING)
           /\ \A l \in DOMAIN LoopsOf(c) :
                  Knows(LoopsOf(c)[l], it.opt) => MeansByItself(LoopsOf(c)[l], it)
           /\ (\A l \in DOMAIN LoopsOf(c) : ~Knows(LoopsOf(c)[l], it.opt)) =>
                  DOMAIN it.means = {} /\ ~it.dangling

-----------------------------------------------------------------------------
(* Composing a line, and picking the command.                              *)

OptionInit == /\ cmd \in DOMAIN Items
              /\ exe \in IF cmd = "git-shim" THEN {"pipe-k1", "pipe-k1-git-shim"}
                         ELSE {"pipe-k1"}
              /\ argv \in IF cmd = "git-shim" THEN {<<cmd>>, << >>} ELSE {<<cmd>>}
              /\ items = << >>
              /\ loops = << >>
              /\ i = 0
              /\ opts = Defaults
              /\ oexit = Running

\* The caller appends an item; one without its values can only be the last.
WriteItem == /\ i = 0
             /\ Len(items) < MAX_ITEMS
             /\ items # << >> => ~Last(items).dangling
             /\ \E it \in Items[cmd] : /\ items' = Append(items, it)
                                       /\ argv' = argv \o <<it.opt>> \o it.values
             /\ UNCHANGED <<cmd, exe, loops, i, opts, oexit>>

IsGitInvocation ==
    exe = "pipe-k1-git-shim"
        \/ argv[1] \in {"git-shim", "-bsau", "--status-fd=2", "--status-fd",
                        "--keyid-format=long", "--verify"}

\* real_main.
Dispatch ==
    /\ i = 0
    /\ IF argv = << >>
       THEN i' = 1 /\ oexit' = UsageError /\ UNCHANGED loops
       ELSE IF IsGitInvocation
       THEN /\ loops' = LoopsOf("git-shim")
            /\ i' = IF argv[1] = "git-shim" THEN 2 ELSE 1
            /\ UNCHANGED oexit
       ELSE IF argv[1] \in DOMAIN CommandOpts
       THEN /\ loops' = LoopsOf(argv[1])
            /\ i' = 2
            /\ UNCHANGED oexit
       ELSE i' = 1 /\ oexit' = UsageError /\ UNCHANGED loops
    /\ UNCHANGED <<cmd, exe, items, argv, opts>>

-----------------------------------------------------------------------------
(* The loops.                                                              *)

\* How many of the tokens after the option at i belong to it.
Taken(fs) == IF Len(fs) <= Len(argv) - i THEN Len(fs) ELSE Len(argv) - i

\* Replaces NextIndex: the values are not skipped.
NextIndexNoSkip(fs) == i + 1

NextIndex(fs) == i + 1 + Taken(fs)

Parsing == i > 0 /\ oexit = Running /\ loops # << >>

Round ==
    /\ Parsing /\ i <= Len(argv)
    /\ LET loop == Head(loops)
           fs == Takes(loop, argv[i])
           set == Sets(loop, argv[i])
           Value(f) == IF \E k \in 1 .. Taken(fs) : fs[k] = f
                       THEN Parse(f, argv[i + CHOOSE k \in 1 .. Taken(fs) : fs[k] = f])
                       ELSE IF set # << >> /\ set[1] = f THEN set[2]
                       ELSE opts[f]
       IN  /\ opts' = [f \in Fields |-> Value(f)]
           /\ i' = NextIndex(fs)
    /\ UNCHANGED <<cmd, exe, items, argv, loops, oexit>>

\* What a command refuses about its options, found after its last loop.
Refused(loop) ==
    \/ loop = "encrypt" /\ opts["--recipient"] = None
    \/ loop = "verify" /\ opts["--pass-through"] = TRUE /\ opts["--pub"] = None
    \/ loop = "verify" /\ opts["--sig"] = None
    \/ loop = "shim" /\ opts["is_verify"] = TRUE /\ opts["sig"] = None

\* oexit = Success: the command goes on with these options.
LoopEnds ==
    /\ Parsing /\ i > Len(argv)
    /\ loops' = Tail(loops)
    /\ IF Len(loops) > 1 THEN i' = 2 /\ UNCHANGED oexit
       ELSE /\ oexit' = IF Refused(Head(loops)) THEN UsageError ELSE Success
            /\ UNCHANGED i
    /\ UNCHANGED <<cmd, exe, items, argv, opts>>

OptionNext == WriteItem \/ Dispatch \/ Round \/ LoopEnds

OptionSpec == OptionInit /\ [][OptionNext]_optionVars

-----------------------------------------------------------------------------

\* What the caller means by the field: the last item that is about it.
Meant(f) ==
    LET about == {k \in DOMAIN items : f \in DOMAIN items[k].means}
    IN  IF about = {} THEN Defaults[f]
        ELSE items[CHOOSE k \in about : \A l \in about : l <= k].means[f]

Broken == UNION {items[k].broken : k \in DOMAIN items}

\* The loop meets, behind an option that is not its own, a token that it knows.
Disturbed(loop) ==
    \E k \in DOMAIN items : /\ ~Knows(loop, items[k].opt)
                            /\ \E m \in DOMAIN items[k].values : Knows(loop, items[k].values[m])

\* The line is valid about the field, and whatever loop fills it is not disturbed.
Sound(f) ==
    /\ f \notin Broken
    /\ \A l \in DOMAIN LoopsOf(cmd) :
           f \in FieldsOf(LoopsOf(cmd)[l]) => ~Disturbed(LoopsOf(cmd)[l])

\* Two loops over the same tokens, each passing over the other's options and
\* skipping only its own values, agree with a reading of the line item by item: the
\* last occurrence of an option counts, and a value that looks like an option of the
\* same loop is a value.  Where a loop does mistake a value of the other loop for an
\* option, the harm ends at its own fields: the other loop is not put out of step.
LastOccurrenceWins ==
    oexit = Success => \A f \in Fields : Sound(f) => opts[f] = Meant(f)

\* What SPECIFICATION.md:252-253 say of --sec-file <path> and of -a, and the like of
\* every option: a command goes on with the options that were written.
AsWritten ==
    oexit = Success => \A f \in Fields \ Broken : opts[f] = Meant(f)

\* What SPECIFICATION.md:186 says of invalid arguments, such as --max-size without a
\* number: exit code 2.
InvalidRefused == oexit = Success => Broken = {}
=============================================================================
