------------------------------ MODULE Signature -----------------------------
(***************************************************************************)
(* Detached signatures: the 105-byte payload that sign and the git shim    *)
(* write, its ASCII armor, and the detaching of that armor by verify and   *)
(* the git shim.  Hashes and signatures are ideal, the records of what     *)
(* went into them.  Bytes are sequences of half payloads, so that a file   *)
(* can be cut, joined and wrapped; SIGNATURE_PAYLOAD_SIZE is two of them.  *)
(***************************************************************************)
EXTENDS ExitCodes, Sequences, SequencesExt

CONSTANTS None,          \* no value; no public key: the signature is not valid
          CHUNK_SIZE     \* units in one read of stdin at most

ASSUME ReadAssumption == CHUNK_SIZE \in Nat \ {0}

TAG_SIGN == "pipe-k1/v1/sign"
TAG_SIGN_LEGACY == "pipek1/v1/sign"
TAG_AUTH == "pipe-k1/v1/auth"

tagged_hash(tag, msg) == [tag |-> tag, msg |-> msg]

sign_raw(sk, hash) == [signer |-> sk, hash |-> hash]

\* A payload whose magic and version are right is known.  A key stands for the
\* secret and for the public key.
SignedPayload(tag, sk, digest, ts) ==
    [known |-> TRUE, ts |-> ts, pk |-> sk,
     sig |-> sign_raw(sk, tagged_hash(tag, <<ts, digest>>))]

\* Replaces sign_stream_payload: the timestamp is not covered.
SignWithoutTime(sk, digest, ts) ==
    [SignedPayload(TAG_SIGN, sk, digest, 0) EXCEPT !.ts = ts]

sign_stream_payload(sk, digest, ts) == SignedPayload(TAG_SIGN, sk, digest, ts)

\* Replaces AcceptedTags: the signatures on stream trailers count as well.
AllTags == {TAG_SIGN, TAG_SIGN_LEGACY, TAG_AUTH}

AcceptedTags == {TAG_SIGN, TAG_SIGN_LEGACY}

\* The public key in the payload, if the signature is by that key.
verify_stream_payload(p, digest) ==
    IF p.known /\ \E tag \in AcceptedTags :
           p.sig = sign_raw(p.pk, tagged_hash(tag, <<p.ts, digest>>))
    THEN p.pk ELSE None

\* What a payload says of the data with that digest.
Fact(p, digest) == [pk |-> p.pk, ts |-> p.ts, digest |-> digest]

-----------------------------------------------------------------------------
(* Files.                                                                  *)

SIGNATURE_PAYLOAD_SIZE == 2

Bytes(p) == <<[of |-> p, half |-> 1], [of |-> p, half |-> 2]>>

\* 105 bytes as a payload: halves that do not belong together make one whose
\* signature cannot be valid.
Payload(bytes) == IF bytes = Bytes(bytes[1].of) THEN bytes[1].of
                  ELSE [bytes[1].of EXCEPT !.known = FALSE]

BinaryFile(bytes) == [text |-> FALSE, bytes |-> bytes]
TextFile(lines) == [text |-> TRUE, lines |-> lines]

\* A line of text.  Colon: an armor header such as "Version: ...".  Junk: a
\* line that is not base64.
Line(kind) == [kind |-> kind, bytes |-> << >>]
Base64(bytes) == [kind |-> "base64", bytes |-> bytes]
Begin == Line("begin")
End == Line("end")
Blank == Line("blank")
Colon == Line("colon")
Junk == Line("junk")

ArmorLines(p) == <<Begin, Blank, Base64(Bytes(p)), End>>

-----------------------------------------------------------------------------
(* Detaching the armor.                                                    *)

\* Replaces DetachLine: END is skipped like a blank line.
DetachPastEnd(acc, line) ==
    IF line = Begin THEN [acc EXCEPT !.capture = TRUE]
    ELSE IF acc.capture /\ line.kind \in {"base64", "junk"}
    THEN [acc EXCEPT !.b64 = Append(@, line)]
    ELSE acc

\* Replaces DetachLine: header lines are taken for data.
DetachHeaders(acc, line) ==
    IF acc.done THEN acc
    ELSE IF line = Begin THEN [acc EXCEPT !.capture = TRUE]
    ELSE IF line = End THEN [acc EXCEPT !.done = TRUE]
    ELSE IF acc.capture /\ line # Blank THEN [acc EXCEPT !.b64 = Append(@, line)]
    ELSE acc

\* One round of the loop over the lines; END ends it, before a BEGIN too.
DetachLine(acc, line) ==
    IF acc.done THEN acc
    ELSE IF line = Begin THEN [acc EXCEPT !.capture = TRUE]
    ELSE IF line = End THEN [acc EXCEPT !.done = TRUE]
    ELSE IF acc.capture /\ line.kind \notin {"blank", "colon"}
    THEN [acc EXCEPT !.b64 = Append(@, line)]
    ELSE acc

\* The state of the loop after each line, and what it has collected in the end.
DetachSteps(lines) ==
    LET steps[i \in 0 .. Len(lines)] ==
            IF i = 0 THEN [capture |-> FALSE, done |-> FALSE, b64 |-> << >>]
            ELSE DetachLine(steps[i - 1], lines[i])
    IN  steps

Captured(lines) == DetachSteps(lines)[Len(lines)].b64

\* The bytes of the joined lines, one line after the other.
JoinSteps(b64) ==
    LET steps[i \in 0 .. Len(b64)] ==
            IF i = 0 THEN << >> ELSE steps[i - 1] \o b64[i].bytes
    IN  steps

\* STANDARD.decode of the joined lines.
Decode(b64) ==
    IF \E i \in DOMAIN b64 : b64[i].kind # "base64"
    THEN [ok |-> FALSE, bytes |-> << >>]
    ELSE [ok |-> TRUE, bytes |-> JoinSteps(b64)[Len(b64)]]

\* The bytes of a signature file.  Text without BEGIN is taken as it is: some
\* bytes, which are no payload.
Detach(file) ==
    IF ~file.text THEN [ok |-> TRUE, bytes |-> file.bytes]
    ELSE IF Contains(file.lines, Begin) THEN Decode(Captured(file.lines))
    ELSE [ok |-> TRUE, bytes |-> << >>]

-----------------------------------------------------------------------------
(* What detaching means, going by where the markers are.                   *)

\* A text is made of lines of the kinds above.
IsLine(line) == \/ line \in {Begin, End, Blank, Colon, Junk}
                \/ line.kind = "base64" /\ line = Base64(line.bytes)

IsText(lines) == /\ lines \in Seq({lines[i] : i \in 1 .. Len(lines)})
                 /\ \A i \in 1 .. Len(lines) : IsLine(lines[i])

\* Is line i data?
InArmor(lines, i) ==
    /\ \E b \in 1 .. i - 1 : lines[b] = Begin
    /\ \A e \in 1 .. i - 1 : lines[e] # End
    /\ lines[i].kind \in {"base64", "junk"}

\* b64 holds the data lines, in the order of their numbers, which are at.
AreArmored(b64, at, lines) ==
    /\ \A j, k \in DOMAIN at : j < k => at[j] < at[k]
    /\ {at[k] : k \in DOMAIN at} = {i \in 1 .. Len(lines) : InArmor(lines, i)}
    /\ \A k \in DOMAIN at : b64[k] = lines[at[k]]

\* Armor around the bytes x of one line, with blank and header lines between,
\* and anything after its end; and around the bytes x and y of two lines.
ArmorOf(x, lines) ==
    \E b, d, e \in 1 .. Len(lines) :
        /\ b < d /\ d < e
        /\ lines[b] = Begin /\ lines[d] = Base64(x) /\ lines[e] = End
        /\ \A i \in 1 .. e - 1 : i \in {b, d} \/ lines[i] \in {Blank, Colon}

ArmorOfTwo(x, y, lines) ==
    \E b, c, d, e \in 1 .. Len(lines) :
        /\ b < c /\ c < d /\ d < e
        /\ lines[b] = Begin /\ lines[c] = Base64(x) /\ lines[d] = Base64(y)
        /\ lines[e] = End
        /\ \A i \in 1 .. e - 1 : i \in {b, c, d} \/ lines[i] \in {Blank, Colon}
=============================================================================
