------------------------------ MODULE GitShim -------------------------------
(***************************************************************************)
(* run_git_shim of main.rs: git calls it to sign a commit and, later, to   *)
(* verify one.  It answers with status lines, on a descriptor that may     *)
(* swallow them, with armor on stdout and with its exit code.              *)
(***************************************************************************)
EXTENDS Signature

INSTANCE AllowedSigners

CONSTANTS Me,            \* the key that load_secret_key(default) returns
          Unresolvable,  \* a -u that is not a key
          Calls,         \* how git calls: [verify, key_id, world, file, data, faults]
          Earlier        \* payloads made before

\* Whoever made a payload signed what it says, with the key in it.
ASSUME EarlierAssumption ==
    \A p \in Earlier : p = SignedPayload(p.sig.hash.tag, p.pk, p.sig.hash.msg[2], p.ts)

\* Signatures are not forged: the one in a signature file was made before.
ASSUME UnforgedAssumption ==
    \A c \in Calls :
        LET d == Detach(c.file)
        IN  c.verify /\ d.ok /\ Len(d.bytes) = SIGNATURE_PAYLOAD_SIZE =>
                \E p \in Earlier : Payload(d.bytes).sig = p.sig

ASSUME CallsAssumption ==
    \A c \in Calls : /\ c.verify \in BOOLEAN /\ c.faults \in BOOLEAN
                     /\ c.verify /\ c.file.text => IsText(c.file.lines)

\* Settings are on or off, .git is looked for level by level, files have lines.
ASSUME WorldAssumption ==
    \A c \in Calls :
        LET w == c.world
        IN  /\ w.config \subseteq {"pipe-k1", "pipek1"}
            /\ {w.git_dir, w.home, w.commondir} \subseteq BOOLEAN
            /\ w.dot_git \in Seq({"none", "dir", "pointer", "unusable"})
            /\ \A p \in DOMAIN w.files : w.files[p] \in Seq(Range(w.files[p]))

ASSUME MeAssumption == Me # None

VARIABLES status_fd,     \* was --status-fd given?
          key_id, is_verify,
          world, g_file, g_data,
          faults,        \* may the key, files, stdin, stdout or the status fail?
          g_payload,
          pending, result,         \* status writes still to come, each of some
                                   \* lines, and the exit code that follows them
          status,                  \* what arrived on the descriptor
          lost,                    \* a status line did not arrive
          g_out,                   \* stdout
          issued,                  \* facts of every signature made
          gpc, gexit

callVars == <<status_fd, key_id, is_verify, world, g_file, g_data, faults>>
gitVars == <<status_fd, key_id, is_verify, world, g_file, g_data, faults, g_payload,
             pending, result, status, lost, g_out, issued, gpc, gexit>>

GitInit == /\ status_fd \in BOOLEAN
           /\ \E c \in Calls :
                  /\ is_verify = c.verify /\ key_id = c.key_id /\ world = c.world
                  /\ g_file = c.file /\ g_data = c.data /\ faults = c.faults
           /\ g_payload = None
           /\ pending = << >> /\ result = Running
           /\ status = << >> /\ lost = FALSE
           /\ g_out = << >>
           /\ issued = {Fact(p, p.sig.hash.msg[2]) : p \in Earlier}
           /\ gpc = IF is_verify THEN "sig" ELSE "key"
           /\ gexit = Running

GExit(code) == gpc' = "exit" /\ gexit' = code

\* Returns without a status line.
Silent(code) == /\ GExit(code)
                /\ UNCHANGED <<callVars, g_payload, pending, result, status, lost,
                               g_out, issued>>

\* Calls write_status_fd for each of the writes, then exits.
Report(writes, code) ==
    /\ pending' = writes
    /\ result' = code
    /\ gpc' = "status"
    /\ UNCHANGED <<callVars, g_payload, status, lost, g_out, issued, gexit>>

\* A status line: its tag, a key and an identity.
S(tag, pk, identity) == [tag |-> tag, pk |-> pk, identity |-> identity]
Plain(tag) == S(tag, None, None)
Npub(pk) == Identity(None, pk)

\* write_status_fd: without --status-fd nothing is written; errors are ignored.
WriteStatus ==
    /\ gpc \in {"status", "created"} /\ pending # << >>
    /\ pending' = Tail(pending)
    /\ \/ status' = (IF status_fd THEN status \o Head(pending) ELSE status)
          /\ UNCHANGED lost
       \/ faults /\ status_fd /\ lost' = TRUE /\ UNCHANGED status
    /\ UNCHANGED <<callVars, g_payload, result, g_out, issued, gpc, gexit>>

StatusWritten == /\ gpc = "status" /\ pending = << >>
                 /\ GExit(result)
                 /\ UNCHANGED <<callVars, g_payload, pending, result, status, lost,
                                g_out, issued>>

-----------------------------------------------------------------------------
(* --verify                                                                *)

\* Replaces LengthError: returns at once.
LengthErrorSilent == Silent(WireCorruption)

LengthError == Report(<< <<Plain("NEWSIG"), Plain("ERRSIG")>> >>, WireCorruption)

\* Corrupt base64 returns before a status line is written.
GReadSig ==
    /\ gpc = "sig"
    /\ LET d == Detach(g_file)
       IN  IF ~d.ok THEN Silent(WireCorruption)
           ELSE IF Len(d.bytes) # SIGNATURE_PAYLOAD_SIZE
           THEN LengthError
           ELSE /\ g_payload' = Payload(d.bytes)
                /\ gpc' = "data"
                /\ UNCHANGED <<callVars, pending, result, status, lost, g_out,
                               issued, gexit>>

\* Replaces Answer: the lines of a good signature whatever the verdict.
AnswerBeforeVerdict(p, digest) ==
    <<Plain("NEWSIG"), S("GOODSIG", p.pk, Npub(p.pk)), S("VALIDSIG", p.pk, None)>>
        \o (IF verify_stream_payload(p, digest) = None
            THEN <<S("BADSIG", p.pk, Npub(p.pk))>> ELSE <<Plain("TRUST_UNDEFINED")>>)

\* The status lines for a payload and the data.
Answer(p, digest) ==
    LET signer == verify_stream_payload(p, digest)
        signers == resolve_allowed_signers(world)
        known == {k \in DOMAIN signers : signers[k].key = signer}
        identity == IF known = {} THEN Npub(signer) ELSE signers[Min(known)].identity
    IN  IF signer = None
        THEN <<Plain("NEWSIG"), S("BADSIG", p.pk, Npub(p.pk))>>
        ELSE <<Plain("NEWSIG"), S("GOODSIG", signer, identity),
               S("VALIDSIG", signer, None),
               Plain(IF known = {} THEN "TRUST_UNDEFINED" ELSE "TRUST_ULTIMATE")>>

GVerify ==
    /\ gpc = "data"
    /\ LET lines == Answer(g_payload, g_data)
       IN  Report([k \in DOMAIN lines |-> <<lines[k]>>],
                  IF verify_stream_payload(g_payload, g_data) = None THEN AuthFailure
                  ELSE Success)

-----------------------------------------------------------------------------
(* Signing.                                                                *)

\* Replaces WrongKeyId: the key id is not looked at.
WrongKeyIdNever == FALSE

\* A key id that is a key, but not of the secret key at hand.
WrongKeyId == key_id \notin {None, Unresolvable, Me}

\* load_secret_key has returned Me.
GCheckKeyId ==
    /\ gpc = "key"
    /\ IF WrongKeyId THEN Report(<< <<S("INV_SGNR", key_id, None)>> >>, UsageError)
       ELSE /\ gpc' = "commit"
            /\ UNCHANGED <<callVars, g_payload, pending, result, status, lost, g_out,
                           issued, gexit>>

\* The commit on stdin is read and signed; the status line comes before the armor.
GSign ==
    /\ gpc = "commit"
    /\ g_payload' = sign_stream_payload(Me, g_data, 1)
    /\ issued' = issued \cup {Fact(g_payload', g_data)}
    /\ pending' = << <<S("SIG_CREATED", Me, None)>> >>
    /\ gpc' = "created"
    /\ UNCHANGED <<callVars, result, status, lost, g_out, gexit>>

GPrintLine ==
    /\ gpc = "created" /\ pending = << >>
    /\ g_out' = Append(g_out, ArmorLines(g_payload)[Len(g_out) + 1])
    /\ IF Len(g_out') = Len(ArmorLines(g_payload)) THEN GExit(Success)
       ELSE UNCHANGED <<gpc, gexit>>
    /\ UNCHANGED <<callVars, g_payload, pending, result, status, lost, issued>>

-----------------------------------------------------------------------------

\* git log --show-signature on the commit that was signed.
VerifySigned ==
    /\ gpc = "exit" /\ gexit = Success /\ ~is_verify
    /\ is_verify' = TRUE
    /\ g_file' = TextFile(g_out)
    /\ g_payload' = None
    /\ status' = << >> /\ lost' = FALSE
    /\ gpc' = "sig" /\ gexit' = Running
    /\ UNCHANGED <<status_fd, key_id, world, g_data, faults, pending, result, g_out,
                   issued>>

run_git_shim == \/ GReadSig \/ GVerify \/ WriteStatus \/ StatusWritten
                \/ GCheckKeyId \/ GSign \/ GPrintLine

\* The signature file or the key cannot be read, the clock fails: exit 2.  The
\* data cannot be read: exit 1.  stdout fails: println! panics.
ShimFails ==
    /\ faults
    /\ \/ gpc \in {"sig", "key", "commit"} /\ Silent(UsageError)
       \/ gpc \in {"data", "commit"} /\ Silent(IoError)
       \/ gpc = "created" /\ pending = << >> /\ Silent(Aborted)

GitNext == run_git_shim \/ ShimFails \/ VerifySigned

GitSpec == GitInit /\ [][GitNext]_gitVars

-----------------------------------------------------------------------------

Tags == {status[k].tag : k \in DOMAIN status}
Answered(tag) == tag \in Tags
Line1(tag) == status[CHOOSE k \in DOMAIN status : status[k].tag = tag]
Done == gpc = "exit"

\* git takes a commit as signed from the GOODSIG line and from the exit code.
\* Either of them, at any moment and with any lines lost before it, means that
\* the key made that signature over this very commit; and no answer says both
\* good and bad.
GoodOnlyIfIssued ==
    is_verify /\ (Answered("GOODSIG") \/ gexit = Success) =>
        /\ Fact(g_payload, g_data) \in issued
        /\ Answered("GOODSIG") => Line1("GOODSIG").pk = g_payload.pk
        /\ ~Answered("BADSIG") /\ ~Answered("ERRSIG")
        /\ Done => gexit = Success

\* Where nothing fails locally, the exit code is 0 exactly with GOODSIG and else 1;
\* an answer to a signature that decodes starts with NEWSIG and gives exactly one
\* verdict.
ExactlyOneVerdict ==
    is_verify /\ Done /\ ~faults =>
        /\ gexit \in {Success, AuthFailure}
        /\ status_fd => (Answered("GOODSIG") <=> gexit = Success)
        /\ status_fd /\ Detach(g_file).ok =>
               /\ status # << >> /\ status[1].tag = "NEWSIG"
               /\ Cardinality(Tags \cap {"GOODSIG", "BADSIG", "ERRSIG"}) = 1

\* What SPECIFICATION.md:319-326 says of a signature that cannot be parsed, corrupt
\* base64 included: NEWSIG and ERRSIG on the descriptor, and exit code 1.
MalformedGetsErrsig ==
    LET d == Detach(g_file)
    IN  /\ is_verify /\ status_fd /\ Done /\ ~faults
        /\ ~(d.ok /\ Len(d.bytes) = SIGNATURE_PAYLOAD_SIZE)
        => status = <<Plain("NEWSIG"), Plain("ERRSIG")>> /\ gexit = WireCorruption

-----------------------------------------------------------------------------
(* Trust.                                                                  *)

\* The places of the hierarchy in SPECIFICATION.md, best first; in each, the new
\* name goes before the old.
PlaceRank == [config |-> 1, GIT_DIR |-> 2, dot_git |-> 3, gitdir |-> 4, common |-> 5,
              home |-> 6]

RankOf(path) == 2 * PlaceRank[path.place] + (IF path.name = "pipe-k1" THEN 0 ELSE 1)

\* The level of the repository that the working directory belongs to.
Inside(l) == /\ world.dot_git[l] # "none"
             /\ \A m \in 1 .. l - 1 : world.dot_git[m] = "none"

\* The metadata files of the enclosing repository.
InTree(place, l) ==
    \/ place = "GIT_DIR" /\ l = 0 /\ world.git_dir
    \/ /\ l \in DOMAIN world.dot_git /\ Inside(l)
       /\ \/ place = "dot_git" /\ world.dot_git[l] = "dir"
          \/ place = "gitdir" /\ world.dot_git[l] = "pointer"
          \/ place = "common" /\ world.dot_git[l] = "pointer" /\ world.commondir

\* The files of the hierarchy, which the specification has no switch for: the
\* configured one, those of the enclosing repository only, and the user's own.
MaySpeak(path) ==
    \/ \E name \in world.config :
           /\ path = Path("config", 0, name)
           /\ name = "pipek1" => "pipe-k1" \notin world.config
    \/ /\ path \in {Path(path.place, path.level, "pipe-k1"),
                    Path(path.place, path.level, "pipek1")}
       /\ \/ path.place = "home" /\ path.level = 0 /\ world.home
          \/ InTree(path.place, path.level)

\* The files that the code leaves out with allowInTreeSigners = false (main.rs:804).
SwitchedOff(path) == ~AllowInTree(world) /\ path.place \notin {"config", "home"}

\* The entries for a key, as <<path, line>>, and the one that ranks first.
EntriesFor(pk) == {e \in UNION {{p} \X DOMAIN world.files[p] : p \in DOMAIN world.files} :
                       MaySpeak(e[1]) /\ world.files[e[1]][e[2]].key = pk}
Ranks(e, f) == \/ RankOf(e[1]) < RankOf(f[1])
               \/ e[1] = f[1] /\ e[2] <= f[2]

IdentityIn(e, pk) == Identity(world.files[e[1]][e[2]].name, pk)

\* A signer is called trusted exactly if a file of the hierarchy lists the key, by
\* the name in the highest of them: never a name from an enclosing repository or
\* from a lower file or line.  Where the switch is off, this says nothing of the
\* metadata files, which code and specification treat differently: any other file
\* still counts, in its order.
TrustFromHierarchy ==
    LET pk == g_payload.pk
    IN  is_verify =>
            /\ Answered("TRUST_ULTIMATE") /\ Answered("GOODSIG") =>
                   \E e \in EntriesFor(pk) :
                       /\ \A f \in EntriesFor(pk) : Ranks(e, f) \/ SwitchedOff(f[1])
                       /\ Line1("GOODSIG").identity = IdentityIn(e, pk)
            /\ Answered("TRUST_UNDEFINED") => \A e \in EntriesFor(pk) : SwitchedOff(e[1])

\* What SPECIFICATION.md:329-336 says: allowInTreeSigners is about files of the
\* working tree, and $GIT_DIR and .git keep their place whatever it is set to.
TrustAsSpecified ==
    LET pk == g_payload.pk
    IN  is_verify =>
            /\ Answered("TRUST_ULTIMATE") /\ Answered("GOODSIG") =>
                   \E e \in EntriesFor(pk) :
                       /\ \A f \in EntriesFor(pk) : Ranks(e, f)
                       /\ Line1("GOODSIG").identity = IdentityIn(e, pk)
            /\ Answered("TRUST_UNDEFINED") => EntriesFor(pk) = {}

-----------------------------------------------------------------------------
(* Signing and verifying.                                                  *)

\* A commit that the shim signed it later finds good, with its own key; and
\* it does not sign if -u named another key.
SignedVerifies ==
    g_out # << >> =>
        /\ key_id \notin {None, Unresolvable} => key_id = Me
        /\ is_verify /\ Done /\ ~faults =>
               /\ gexit = Success
               /\ status_fd => Line1("GOODSIG").pk = Me

\* What SPECIFICATION.md:295-299 says of a -u that cannot be resolved or names
\* another key: INV_SGNR on the descriptor, exit code 2 and no signature.
SignsOnlyForKeyId ==
    ~is_verify /\ Done /\ ~faults /\ key_id \notin {None, Me} =>
        /\ gexit = UsageError /\ g_out = << >>
        /\ status_fd => Answered("INV_SGNR")

-----------------------------------------------------------------------------
(* The armor of the signature file, which verify and the shim take off by   *)
(* the same code.                                                          *)

ReadsArmor == gpc = "sig" /\ g_file.text

\* The loop that strips the armor (main.rs:972 and 1321) collects exactly the data
\* lines between the first BEGIN and the first END, in their order: what follows,
\* such as a second signature, has no part in what is verified.
CapturedIsArmored ==
    ReadsArmor =>
        LET lines == g_file.lines
            captured == Captured(lines)
        IN  \E at \in [1 .. Len(captured) -> 1 .. Len(lines)] :
                AreArmored(captured, at, lines)

\* However the base64 is wrapped, whatever header and blank lines are between
\* (SPECIFICATION.md shows "Version: pipe-k1-v1"), and whatever follows, a text
\* that begins with one whole armored signature yields its payload.
ArmorRoundTrip ==
    ReadsArmor =>
        \A p \in Earlier :
            (\/ ArmorOf(Bytes(p), g_file.lines)
             \/ ArmorOfTwo(<<Bytes(p)[1]>>, <<Bytes(p)[2]>>, g_file.lines))
            => Detach(g_file) = [ok |-> TRUE, bytes |-> Bytes(p)]
=============================================================================
