--------------------------- MODULE GitShimProofs ----------------------------
(***************************************************************************)
(* Proofs about the git shim, for every set of calls, worlds and signature *)
(* files, with faults and lost status lines.                               *)
(*                                                                         *)
(* The invariant says for each place in run_git_shim how far it is in its  *)
(* answer: k of the lines were written, each of them arrived or was lost,  *)
(* and without faults all of them arrived, in their order.                 *)
(*                                                                         *)
(* The last part is about trust: that the loops of resolve_allowed_signers *)
(* collect the first entry for each key, that candidate_paths lists the    *)
(* files that may speak in the order of their ranks, and that therefore    *)
(* the answer names the signer as the highest entry does.                  *)
(***************************************************************************)
EXTENDS GitShim, SignatureProofs, FiniteSetTheorems

\* What the shim signs.
Mine == SignedPayload(TAG_SIGN, Me, g_data, 1)

Decoded == /\ Detach(g_file).ok
           /\ Len(Detach(g_file).bytes) = SIGNATURE_PAYLOAD_SIZE
           /\ g_payload = Payload(Detach(g_file).bytes)
           /\ SigIssued(g_payload.sig, issued)

Quiet == pending = << >> /\ status = << >>

\* Everything that is written arrives.
Reliable == status_fd /\ ~faults

ErrorLines == <<Plain("NEWSIG"), Plain("ERRSIG")>>

ErrorReport ==
    /\ Detach(g_file).ok /\ Len(Detach(g_file).bytes) # SIGNATURE_PAYLOAD_SIZE
    /\ result = WireCorruption
    /\ \/ pending = <<ErrorLines>> /\ status = << >>
       \/ pending = << >> /\ status = ErrorLines
       \/ pending = << >> /\ status = << >> /\ ~Reliable

TheAnswer == Answer(g_payload, g_data)

\* The writes of all but k of the lines, one for each.
WritesAfter(k, lines) == [j \in 1 .. Len(lines) - k |-> <<lines[k + j]>>]

\* k of the lines are written.
Progress(k, lines) ==
    /\ pending = WritesAfter(k, lines)
    /\ status \in Seq({lines[i] : i \in 1 .. k})
    /\ Reliable => status = SubSeq(lines, 1, k)

AnswerReport ==
    /\ Decoded
    /\ result = IF verify_stream_payload(g_payload, g_data) = None THEN AuthFailure
                ELSE Success
    /\ \E k \in 0 .. Len(TheAnswer) : Progress(k, TheAnswer)

\* The signature in the file was issued.
FileHolds ==
    Detach(g_file).ok /\ Len(Detach(g_file).bytes) = SIGNATURE_PAYLOAD_SIZE =>
        SigIssued(Payload(Detach(g_file).bytes).sig, issued)

VerifyInv ==
    /\ FileHolds
    /\ g_file.text => IsText(g_file.lines)
    /\ g_out # << >> => /\ g_file = TextFile(ArmorLines(Mine))
                        /\ SigIssued(Mine.sig, issued)
    /\ \/ gpc = "sig" /\ gexit = Running /\ Quiet
       \/ gpc = "data" /\ gexit = Running /\ Quiet /\ Decoded
       \/ gpc = "status" /\ gexit = Running /\ (ErrorReport \/ AnswerReport)
       \/ /\ gpc = "exit" /\ Quiet /\ gexit \in {WireCorruption, UsageError}
          /\ ~faults => gexit = WireCorruption /\ ~Detach(g_file).ok
       \/ gpc = "exit" /\ pending = << >> /\ gexit = result /\ (ErrorReport \/ AnswerReport)

Signed == g_payload = Mine /\ SigIssued(Mine.sig, issued) /\ ~WrongKeyId

SignInv ==
    \/ gpc = "key" /\ gexit = Running /\ Quiet /\ g_out = << >>
    \/ gpc = "status" /\ gexit = Running /\ result = UsageError /\ g_out = << >>
    \/ gpc = "commit" /\ gexit = Running /\ Quiet /\ g_out = << >> /\ ~WrongKeyId
    \/ /\ gpc = "created" /\ gexit = Running /\ Signed
       /\ Len(g_out) \in 0 .. 3 /\ g_out = SubSeq(ArmorLines(Mine), 1, Len(g_out))
    \/ /\ gpc = "exit" /\ gexit = Success /\ pending = << >> /\ Signed
       /\ g_out = ArmorLines(Mine)
    \/ gpc = "exit" /\ gexit \in {IoError, UsageError, Aborted}

GInv ==
    /\ is_verify \in BOOLEAN /\ status_fd \in BOOLEAN /\ faults \in BOOLEAN
    /\ \A p \in Earlier : SigIssued(p.sig, issued)
    /\ g_out # << >> => ~WrongKeyId
    /\ IF is_verify THEN VerifyInv ELSE SignInv

-----------------------------------------------------------------------------
(* Status lines.                                                           *)

LEMMA TailOf ==
    ASSUME NEW T, NEW q \in Seq(T), q # << >>
    PROVE  /\ Tail(q) \in Seq(T) /\ Len(Tail(q)) = Len(q) - 1
           /\ \A j \in 1 .. Len(q) - 1 : Tail(q)[j] = q[j + 1]
  OBVIOUS

LEMMA Single ==
    ASSUME NEW T, NEW x \in T
    PROVE  <<x>> \in Seq(T) /\ Len(<<x>>) = 1 /\ <<x>>[1] = x
  OBVIOUS

LEMMA NoWrites ==
    ASSUME NEW lines, Len(lines) \in Nat
    PROVE  WritesAfter(Len(lines), lines) = << >>
<1>1. 1 .. Len(lines) - Len(lines) = {}
  OBVIOUS
<1>2. [j \in {} |-> <<lines[Len(lines) + j]>>] = << >>
  OBVIOUS
<1>3. QED
  BY <1>1, <1>2 DEF WritesAfter

LEMMA Rest ==
    ASSUME NEW T, NEW lines \in Seq(T), NEW k \in Nat, k < Len(lines),
           NEW q, q = WritesAfter(k, lines)
    PROVE  /\ q # << >> /\ Head(q) = <<lines[k + 1]>>
           /\ Tail(q) = WritesAfter(k + 1, lines)
<1> USE DEF WritesAfter
<1> DEFINE m == Len(lines) - k
           L == {<<x>> : x \in T}
<1>1. m \in Nat /\ m >= 1 /\ Len(lines) \in Nat
  OBVIOUS
<1>2. q \in [1 .. m -> L]
  OBVIOUS
<1>3. q \in Seq(L) /\ Len(q) = m
  BY <1>1, <1>2
<1>4. q # << >> /\ Head(q) = q[1]
  BY <1>1, <1>3
<1>5. q[1] = <<lines[k + 1]>>
  BY <1>1
<1>6. Len(Tail(q)) = m - 1 /\ Tail(q) \in Seq(L)
  BY <1>3, <1>4, TailOf
<1>7. \A j \in 1 .. m - 1 : Tail(q)[j] = q[j + 1]
  BY <1>3, <1>4, TailOf
<1>8. \A j \in 1 .. m - 1 : q[j + 1] = <<lines[(k + 1) + j]>>
  BY <1>1
<1>9. DOMAIN Tail(q) = 1 .. m - 1
  BY <1>6, <1>1
<1>10. Tail(q) = [j \in 1 .. m - 1 |-> <<lines[(k + 1) + j]>>]
  BY <1>6, <1>7, <1>8, <1>9
<1>11. m - 1 = Len(lines) - (k + 1)
  BY <1>1
<1>12. QED
  BY <1>4, <1>5, <1>10, <1>11

LEMMA Arrives ==
    ASSUME NEW T, NEW lines \in Seq(T), NEW k \in Nat, k < Len(lines),
           NEW s \in Seq({lines[i] : i \in 1 .. k})
    PROVE  /\ s \in Seq({lines[i] : i \in 1 .. k + 1})
           /\ s \o <<lines[k + 1]>> \in Seq({lines[i] : i \in 1 .. k + 1})
           /\ s = SubSeq(lines, 1, k) => s \o <<lines[k + 1]>> = SubSeq(lines, 1, k + 1)
<1> DEFINE A == {lines[i] : i \in 1 .. k}
           B == {lines[i] : i \in 1 .. k + 1}
           x == lines[k + 1]
<1>1. A \subseteq B /\ x \in B
  OBVIOUS
<1>2. k + 1 \in 1 .. Len(lines) /\ x \in T
  OBVIOUS
<1> HIDE DEF A, B
<1>3. s \in Seq(A)
  BY DEF A
<1>4. s \in Seq(B)
  BY <1>1, <1>3
<1>5. <<x>> \in Seq(B)
  BY <1>1
<1>6. s \o <<x>> \in Seq(B)
  BY <1>4, <1>5
<1>7. ASSUME s = SubSeq(lines, 1, k) PROVE s \o <<x>> = SubSeq(lines, 1, k + 1)
  <2> HIDE DEF x
  <2>1. s \in Seq(T) /\ Len(s) = k /\ \A i \in 1 .. k : s[i] = lines[i]
    BY <1>7
  <2>2. PICK w \in Seq(T) : w = <<x>>
    BY <1>2, Single
  <2>3. Len(w) = 1 /\ w[1] = x
    BY <1>2, <2>2, Single
  <2>4. /\ s \o w \in Seq(T) /\ Len(s \o w) = k + 1
        /\ \A i \in 1 .. k + 1 : (s \o w)[i] = IF i <= k THEN s[i] ELSE w[i - k]
    <3>1. /\ s \o w \in Seq(T) /\ Len(s \o w) = Len(s) + Len(w)
          /\ \A i \in 1 .. Len(s) + Len(w) :
                 (s \o w)[i] = IF i <= Len(s) THEN s[i] ELSE w[i - Len(s)]
      BY <2>1, Concatenated
    <3>2. QED
      BY <3>1, <2>1, <2>3
  <2>5. \A i \in 1 .. k + 1 : (s \o w)[i] = lines[i]
    <3> SUFFICES ASSUME NEW i \in 1 .. k + 1 PROVE (s \o w)[i] = lines[i]
      OBVIOUS
    <3>1. CASE i <= k
      BY <3>1, <2>1, <2>4
    <3>2. CASE ~(i <= k)
      <4>1. i = k + 1 /\ i - k = 1
        BY <3>2
      <4>2. QED
        BY <3>2, <4>1, <2>3, <2>4 DEF x
    <3>3. QED
      BY <3>1, <3>2
  <2>6. s \o w = SubSeq(lines, 1, k + 1)
    BY <2>4, <2>5, <1>2
  <2>7. QED
    BY <2>2, <2>6
<1>8. QED
  BY <1>4, <1>6, <1>7 DEF B

\* The lines of an answer.
IsBad(lines) == Len(lines) = 2 /\ lines[1].tag = "NEWSIG" /\ lines[2].tag = "BADSIG"

IsGood(lines, pk) ==
    /\ Len(lines) = 4 /\ lines[1].tag = "NEWSIG"
    /\ lines[2].tag = "GOODSIG" /\ lines[2].pk = pk
    /\ lines[3].tag = "VALIDSIG"
    /\ lines[4].tag \in {"TRUST_UNDEFINED", "TRUST_ULTIMATE"}

\* A line that does not go against a good signature by the key.
GoodLine(line, pk) == /\ line.tag # "BADSIG" /\ line.tag # "ERRSIG"
                      /\ line.tag = "GOODSIG" => line.pk = pk

AnswerOK(lines, p, digest) ==
    /\ lines \in Seq({lines[i] : i \in 1 .. Len(lines)})
    /\ IF verify_stream_payload(p, digest) = None THEN IsBad(lines) ELSE IsGood(lines, p.pk)

LEMMA SeqOfTwo ==
    ASSUME NEW a, NEW b
    PROVE  LET s == <<a, b>> IN /\ Len(s) = 2 /\ s[1] = a /\ s[2] = b
                                /\ s \in Seq({s[i] : i \in 1 .. Len(s)})
<1> DEFINE s == <<a, b>>
<1>1. Len(s) = 2 /\ s[1] = a /\ s[2] = b /\ s \in Seq({a, b})
  OBVIOUS
<1> HIDE DEF s
<1>2. 1 .. Len(s) = {1, 2}
  BY <1>1
<1>3. {s[i] : i \in {1, 2}} = {s[1], s[2]}
  OBVIOUS
<1>4. QED
  BY <1>1, <1>2, <1>3 DEF s

LEMMA SeqOfFour ==
    ASSUME NEW a, NEW b, NEW c, NEW d
    PROVE  LET s == <<a, b, c, d>>
           IN  /\ Len(s) = 4 /\ s[1] = a /\ s[2] = b /\ s[3] = c /\ s[4] = d
               /\ s \in Seq({s[i] : i \in 1 .. Len(s)})
<1> DEFINE s == <<a, b, c, d>>
<1>1. /\ Len(s) = 4 /\ s[1] = a /\ s[2] = b /\ s[3] = c /\ s[4] = d
      /\ s \in Seq({a, b, c, d})
  OBVIOUS
<1> HIDE DEF s
<1>2. 1 .. Len(s) = {1, 2, 3, 4}
  BY <1>1
<1>3. {s[i] : i \in {1, 2, 3, 4}} = {s[1], s[2], s[3], s[4]}
  OBVIOUS
<1>4. QED
  BY <1>1, <1>2, <1>3 DEF s

LEMMA AnswerShape ==
    ASSUME NEW p, NEW digest
    PROVE  AnswerOK(Answer(p, digest), p, digest)
<1> DEFINE signer == verify_stream_payload(p, digest)
           signers == resolve_allowed_signers(world)
           known == {k \in DOMAIN signers : signers[k].key = signer}
           identity == IF known = {} THEN Npub(signer) ELSE signers[Min(known)].identity
           trust == IF known = {} THEN "TRUST_UNDEFINED" ELSE "TRUST_ULTIMATE"
           A == Answer(p, digest)
<1>1. A = IF signer = None
          THEN <<Plain("NEWSIG"), S("BADSIG", p.pk, Npub(p.pk))>>
          ELSE <<Plain("NEWSIG"), S("GOODSIG", signer, identity),
                 S("VALIDSIG", signer, None), Plain(trust)>>
  BY DEF Answer
<1>2. trust \in {"TRUST_UNDEFINED", "TRUST_ULTIMATE"}
  OBVIOUS
<1>3. signer # None => signer = p.pk
  BY VerifyGives
<1> HIDE DEF A, signer, known, identity, trust
<1>4. \A tag, pk, id : S(tag, pk, id).tag = tag /\ S(tag, pk, id).pk = pk
  BY DEF S
<1>5. \A tag : Plain(tag).tag = tag
  BY DEF Plain, S
<1>6. CASE signer = None
  <2>1. A = <<Plain("NEWSIG"), S("BADSIG", p.pk, Npub(p.pk))>>
    BY <1>1, <1>6
  <2>2. /\ Len(A) = 2 /\ A[1] = Plain("NEWSIG") /\ A[2] = S("BADSIG", p.pk, Npub(p.pk))
        /\ A \in Seq({A[i] : i \in 1 .. Len(A)})
    BY <2>1, SeqOfTwo
  <2>3. IsBad(A)
    BY <2>2, <1>4, <1>5 DEF IsBad
  <2>4. QED
    BY <2>2, <2>3, <1>6 DEF AnswerOK, A, signer
<1>7. CASE signer # None
  <2>1. A = <<Plain("NEWSIG"), S("GOODSIG", signer, identity),
              S("VALIDSIG", signer, None), Plain(trust)>>
    BY <1>1, <1>7
  <2>2. /\ Len(A) = 4 /\ A[1] = Plain("NEWSIG") /\ A[2] = S("GOODSIG", signer, identity)
        /\ A[3] = S("VALIDSIG", signer, None) /\ A[4] = Plain(trust)
        /\ A \in Seq({A[i] : i \in 1 .. Len(A)})
    BY <2>1, SeqOfFour
  <2>3. IsGood(A, p.pk)
    BY <2>2, <1>2, <1>3, <1>4, <1>5, <1>7 DEF IsGood
  <2>4. QED
    BY <2>2, <2>3, <1>7 DEF AnswerOK, A, signer
<1>8. QED
  BY <1>6, <1>7

-----------------------------------------------------------------------------

LEMMA GitInitInv == GitInit => GInv
<1> SUFFICES ASSUME GitInit PROVE GInv
  OBVIOUS
<1>1. PICK c \in Calls :
          /\ is_verify = c.verify /\ key_id = c.key_id /\ world = c.world
          /\ g_file = c.file /\ g_data = c.data /\ faults = c.faults
  BY DEF GitInit
<1>2. is_verify \in BOOLEAN /\ status_fd \in BOOLEAN /\ faults \in BOOLEAN
  BY <1>1, CallsAssumption DEF GitInit
<1>3. \A p \in Earlier : SigIssued(p.sig, issued)
  <2> SUFFICES ASSUME NEW p \in Earlier PROVE SigIssued(p.sig, issued)
    OBVIOUS
  <2>1. PICK k, t : p = SignedPayload(p.sig.hash.tag, k, p.sig.hash.msg[2], t)
    BY EarlierAssumption
  <2>2. Fact(p, p.sig.hash.msg[2]) \in issued
    BY DEF GitInit
  <2>3. QED
    BY <2>1, <2>2, SignedSig
<1>4. Quiet /\ g_out = << >> /\ gexit = Running
  BY DEF GitInit, Quiet
<1>5. CASE is_verify
  <2>1. FileHolds
    <3> SUFFICES ASSUME Detach(g_file).ok,
                        Len(Detach(g_file).bytes) = SIGNATURE_PAYLOAD_SIZE
                 PROVE  SigIssued(Payload(Detach(g_file).bytes).sig, issued)
      BY DEF FileHolds
    <3>1. PICK p \in Earlier : Payload(Detach(g_file).bytes).sig = p.sig
      BY <1>1, <1>5, UnforgedAssumption
    <3>2. QED
      BY <3>1, <1>3
  <2>2. g_file.text => IsText(g_file.lines)
    BY <1>1, <1>5, CallsAssumption
  <2>3. gpc = "sig"
    BY <1>5 DEF GitInit
  <2>4. VerifyInv
    BY <1>4, <2>1, <2>2, <2>3 DEF VerifyInv
  <2>5. QED
    BY <1>2, <1>3, <1>4, <1>5, <2>4 DEF GInv
<1>6. CASE ~is_verify
  <2>1. gpc = "key"
    BY <1>6 DEF GitInit
  <2>2. QED
    BY <1>2, <1>3, <1>4, <1>6, <2>1 DEF GInv, SignInv
<1>7. QED
  BY <1>5, <1>6

\* A step that leaves the call, the payload and the facts alone.
Frame == UNCHANGED <<callVars, g_payload, issued>>

LEMMA FrameKept ==
    ASSUME Frame
    PROVE  /\ Decoded => Decoded'
           /\ TheAnswer' = TheAnswer
           /\ Reliable' <=> Reliable
           /\ FileHolds => FileHolds'
           /\ Signed => Signed'
           /\ Mine' = Mine
           /\ UNCHANGED <<status_fd, key_id, is_verify, world, g_file, g_data, faults>>
           /\ WrongKeyId' <=> WrongKeyId
<1>1. UNCHANGED <<status_fd, key_id, is_verify, world, g_file, g_data, faults, g_payload,
                  issued>>
  BY DEF Frame, callVars
<1>2. Decoded => Decoded'
  BY <1>1 DEF Decoded, SigIssued
<1>3. TheAnswer' = TheAnswer
  BY <1>1 DEF TheAnswer, Answer, verify_stream_payload
<1>4. (Reliable' <=> Reliable) /\ (WrongKeyId' <=> WrongKeyId) /\ Mine' = Mine
  BY <1>1 DEF Reliable, WrongKeyId, Mine
<1>5. FileHolds => FileHolds'
  BY <1>1 DEF FileHolds, SigIssued
<1>6. Signed => Signed'
  BY <1>1, <1>4 DEF Signed, SigIssued
<1>7. QED
  BY <1>1, <1>2, <1>3, <1>4, <1>5, <1>6

\* The same of the parts of the invariant that hold at every place.
Standing ==
    /\ is_verify \in BOOLEAN /\ status_fd \in BOOLEAN /\ faults \in BOOLEAN
    /\ \A p \in Earlier : SigIssued(p.sig, issued)
    /\ g_out # << >> => ~WrongKeyId

StandingFile ==
    /\ FileHolds
    /\ g_file.text => IsText(g_file.lines)
    /\ g_out # << >> => g_file = TextFile(ArmorLines(Mine)) /\ SigIssued(Mine.sig, issued)

LEMMA StandingKept ==
    ASSUME Frame, g_out' = g_out
    PROVE  (Standing => Standing') /\ (StandingFile => StandingFile')
<1>1. UNCHANGED <<status_fd, key_id, is_verify, world, g_file, g_data, faults, issued>>
  BY DEF Frame, callVars
<1>2. Standing => Standing'
  BY <1>1, FrameKept DEF Standing
<1>3. StandingFile => StandingFile'
  BY <1>1, FrameKept DEF StandingFile
<1>4. QED
  BY <1>2, <1>3

LEMMA VerifySideStep ==
    ASSUME GInv, is_verify, run_git_shim \/ ShimFails
    PROVE  GInv'
<1>1. Standing /\ StandingFile /\ VerifyInv
  BY DEF GInv, Standing, StandingFile, VerifyInv
<1>2. Standing' /\ is_verify' /\ VerifyInv' => GInv'
  BY DEF GInv, Standing
<1>3. CASE GReadSig
  <2>1. gpc = "sig" /\ gexit = Running /\ Quiet
    BY <1>1, <1>3 DEF GReadSig, VerifyInv
  <2>2. PICK d : d = Detach(g_file)
    OBVIOUS
  <2>3. CASE ~d.ok
    <3>1. Silent(WireCorruption)
      BY <1>3, <2>2, <2>3 DEF GReadSig
    <3>2. Frame /\ UNCHANGED <<g_out, pending, status>> /\ gpc' = "exit" /\ gexit' = WireCorruption
      BY <3>1 DEF Silent, GExit, Frame, callVars
    <3>3. ~Detach(g_file').ok
      BY <2>2, <2>3, <3>2, FrameKept
    <3>4. Quiet'
      BY <2>1, <3>2 DEF Quiet
    <3>5. Standing' /\ StandingFile' /\ is_verify'
      BY <1>1, <3>2, StandingKept, FrameKept
    <3>6. VerifyInv'
      BY <3>2, <3>3, <3>4, <3>5 DEF VerifyInv, StandingFile
    <3>7. QED
      BY <1>2, <3>5, <3>6
  <2>4. CASE d.ok /\ Len(d.bytes) # SIGNATURE_PAYLOAD_SIZE
    <3>1. Report(<< <<Plain("NEWSIG"), Plain("ERRSIG")>> >>, WireCorruption)
      BY <1>3, <2>2, <2>4 DEF GReadSig, LengthError
    <3>2. /\ Frame /\ UNCHANGED <<g_out, status, gexit>> /\ gpc' = "status"
          /\ pending' = <<ErrorLines>> /\ result' = WireCorruption
      BY <3>1 DEF Report, Frame, callVars, ErrorLines
    <3>3. ErrorReport'
      BY <2>1, <2>2, <2>4, <3>2, FrameKept DEF ErrorReport, Quiet, ErrorLines, Plain, S
    <3>4. Standing' /\ StandingFile' /\ is_verify'
      BY <1>1, <3>2, StandingKept, FrameKept
    <3>5. VerifyInv'
      BY <2>1, <3>2, <3>3, <3>4 DEF VerifyInv, StandingFile
    <3>6. QED
      BY <1>2, <3>4, <3>5
  <2>5. CASE d.ok /\ Len(d.bytes) = SIGNATURE_PAYLOAD_SIZE
    <3>1. /\ UNCHANGED <<callVars, pending, result, status, lost, g_out, issued, gexit>>
          /\ g_payload' = Payload(d.bytes) /\ gpc' = "data"
      BY <1>3, <2>2, <2>5 DEF GReadSig
    <3>2. UNCHANGED <<status_fd, key_id, is_verify, world, g_file, g_data, faults>>
      BY <3>1 DEF callVars
    <3>3. SigIssued(Payload(d.bytes).sig, issued)
      BY <1>1, <2>2, <2>5 DEF StandingFile, FileHolds
    <3>4. Decoded'
      BY <2>2, <2>5, <3>1, <3>2, <3>3 DEF Decoded, SigIssued
    <3>5. Quiet'
      BY <2>1, <3>1 DEF Quiet
    <3>6. Standing'
      BY <1>1, <3>1, <3>2 DEF Standing, WrongKeyId, SigIssued
    <3>7. StandingFile'
      BY <1>1, <3>1, <3>2 DEF StandingFile, FileHolds, SigIssued, Mine
    <3>8. VerifyInv'
      BY <2>1, <3>1, <3>4, <3>5, <3>7 DEF VerifyInv, StandingFile
    <3>9. QED
      BY <1>2, <3>2, <3>6, <3>8
  <2>6. QED
    BY <2>3, <2>4, <2>5
<1>4. CASE GVerify
  <2>1. gpc = "data" /\ gexit = Running /\ Quiet /\ Decoded
    BY <1>1, <1>4 DEF GVerify, VerifyInv
  <2>2. PICK A : A = TheAnswer
    OBVIOUS
  <2>3. AnswerOK(A, g_payload, g_data)
    BY <2>2, AnswerShape DEF TheAnswer
  <2>4. A \in Seq({A[i] : i \in 1 .. Len(A)}) /\ Len(A) \in Nat
    BY <2>3 DEF AnswerOK
  <2>5. /\ Frame /\ UNCHANGED <<status, g_out, gexit>> /\ gpc' = "status"
        /\ pending' = [k \in DOMAIN A |-> <<A[k]>>]
        /\ result' = IF verify_stream_payload(g_payload, g_data) = None THEN AuthFailure
                     ELSE Success
    BY <1>4, <2>2 DEF GVerify, Report, Frame, callVars, TheAnswer
  <2>6. pending' = [j \in 1 .. Len(A) - 0 |-> <<A[0 + j]>>]
    <3>1. DOMAIN A = 1 .. Len(A) - 0 /\ \A j \in 1 .. Len(A) : 0 + j = j
      BY <2>4
    <3>2. QED
      BY <2>5, <3>1
  <2>7. status' = << >> /\ << >> \in Seq({A[i] : i \in 1 .. 0}) /\ SubSeq(A, 1, 0) = << >>
    BY <2>1, <2>4, <2>5 DEF Quiet
  <2>8. TheAnswer' = A /\ Decoded'
    BY <2>1, <2>2, <2>5, FrameKept
  <2>9. Progress(0, TheAnswer)'
    BY <2>6, <2>7, <2>8 DEF Progress, WritesAfter
  <2>10. result' = IF verify_stream_payload(g_payload', g_data') = None THEN AuthFailure
                   ELSE Success
    BY <2>5 DEF Frame, callVars
  <2>11. AnswerReport'
    BY <2>4, <2>8, <2>9, <2>10 DEF AnswerReport
  <2>12. Standing' /\ StandingFile' /\ is_verify'
    BY <1>1, <2>5, StandingKept, FrameKept
  <2>13. VerifyInv'
    BY <2>1, <2>5, <2>11, <2>12 DEF VerifyInv, StandingFile
  <2>14. QED
    BY <1>2, <2>12, <2>13
<1>5. CASE WriteStatus
  <2>1. gpc = "status" /\ gexit = Running /\ (ErrorReport \/ AnswerReport) /\ pending # << >>
    BY <1>1, <1>5 DEF WriteStatus, VerifyInv
  <2>2. /\ Frame /\ UNCHANGED <<result, g_out, gpc, gexit>> /\ pending' = Tail(pending)
        /\ \/ status' = (IF status_fd THEN status \o Head(pending) ELSE status)
           \/ faults /\ status' = status
    BY <1>5 DEF WriteStatus, Frame, callVars
  <2>3. CASE ErrorReport
    <3>1. pending = <<ErrorLines>> /\ status = << >>
      BY <2>1, <2>3 DEF ErrorReport
    <3>2. pending' = << >> /\ Head(pending) = ErrorLines
      BY <2>2, <3>1
    <3>3. << >> \o ErrorLines = ErrorLines
      BY DEF ErrorLines
    <3>4. status' = ErrorLines \/ (status' = << >> /\ ~Reliable)
      BY <2>2, <3>1, <3>2, <3>3 DEF Reliable
    <3>5. ErrorReport'
      <4>1. ErrorLines' = ErrorLines
        BY DEF ErrorLines, Plain, S
      <4>2. QED
        BY <2>2, <2>3, <3>2, <3>4, <4>1, FrameKept DEF ErrorReport
    <3>6. Standing' /\ StandingFile' /\ is_verify'
      BY <1>1, <2>2, StandingKept, FrameKept
    <3>7. VerifyInv'
      BY <2>1, <2>2, <3>5, <3>6 DEF VerifyInv, StandingFile
    <3>8. QED
      BY <1>2, <3>6, <3>7
  <2>4. CASE AnswerReport
    <3>1. PICK A : A = TheAnswer
      OBVIOUS
    <3>2. AnswerOK(A, g_payload, g_data)
      BY <3>1, AnswerShape DEF TheAnswer
    <3>3. A \in Seq({A[i] : i \in 1 .. Len(A)}) /\ Len(A) \in Nat
      BY <3>2 DEF AnswerOK
    <3>4. PICK k \in 0 .. Len(A) : Progress(k, A)
      BY <2>4, <3>1 DEF AnswerReport
    <3>5. k \in Nat /\ k < Len(A)
      <4>1. k \in Nat /\ k <= Len(A)
        BY <3>3
      <4>2. k # Len(A)
        <5>1. pending = WritesAfter(k, A)
          BY <3>4 DEF Progress
        <5>2. WritesAfter(Len(A), A) = << >>
          BY <3>3, NoWrites
        <5>3. QED
          BY <2>1, <5>1, <5>2
      <4>3. QED
        BY <3>3, <4>1, <4>2
    <3>6. pending = WritesAfter(k, A) /\ status \in Seq({A[i] : i \in 1 .. k})
          /\ (Reliable => status = SubSeq(A, 1, k))
      BY <3>4 DEF Progress
    <3>7. Head(pending) = <<A[k + 1]>> /\ Tail(pending) = WritesAfter(k + 1, A)
      <4>1. PICK T : A \in Seq(T)
        BY <3>3
      <4>2. QED
        BY <4>1, <3>5, <3>6, Rest
    <3>8. /\ status \in Seq({A[i] : i \in 1 .. k + 1})
          /\ status \o <<A[k + 1]>> \in Seq({A[i] : i \in 1 .. k + 1})
          /\ status = SubSeq(A, 1, k) => status \o <<A[k + 1]>> = SubSeq(A, 1, k + 1)
      BY <3>3, <3>5, <3>6, Arrives
    <3>9. /\ status' \in Seq({A[i] : i \in 1 .. k + 1})
          /\ Reliable => status' = SubSeq(A, 1, k + 1)
      BY <2>2, <3>6, <3>7, <3>8 DEF Reliable
    <3>10. TheAnswer' = A /\ (Reliable' <=> Reliable) /\ Decoded'
      BY <2>2, <2>4, <3>1, FrameKept DEF AnswerReport
    <3>11. Progress(k + 1, TheAnswer)'
      BY <2>2, <3>7, <3>9, <3>10 DEF Progress
    <3>12. k + 1 \in 0 .. Len(A)
      BY <3>3, <3>5
    <3>13. result' = IF verify_stream_payload(g_payload', g_data') = None THEN AuthFailure
                     ELSE Success
      BY <2>2, <2>4 DEF AnswerReport, Frame, callVars
    <3>14. AnswerReport'
      BY <3>10, <3>11, <3>12, <3>13 DEF AnswerReport
    <3>15. Standing' /\ StandingFile' /\ is_verify'
      BY <1>1, <2>2, StandingKept, FrameKept
    <3>16. VerifyInv'
      BY <2>1, <2>2, <3>14, <3>15 DEF VerifyInv, StandingFile
    <3>17. QED
      BY <1>2, <3>15, <3>16
  <2>5. QED
    BY <2>1, <2>3, <2>4
<1>6. CASE StatusWritten
  <2>1. gpc = "status" /\ gexit = Running /\ (ErrorReport \/ AnswerReport) /\ pending = << >>
    BY <1>1, <1>6 DEF StatusWritten, VerifyInv
  <2>2. /\ Frame /\ UNCHANGED <<pending, result, status, g_out>>
        /\ gpc' = "exit" /\ gexit' = result
    BY <1>6 DEF StatusWritten, Frame, callVars, GExit
  <2>3. ErrorReport => ErrorReport'
    BY <2>2, FrameKept DEF ErrorReport, ErrorLines, Plain, S
  <2>4. AnswerReport => AnswerReport'
    <3>1. SUFFICES ASSUME AnswerReport PROVE AnswerReport'
      OBVIOUS
    <3>2. TheAnswer' = TheAnswer /\ (Reliable' <=> Reliable) /\ Decoded'
      BY <2>2, <3>1, FrameKept DEF AnswerReport
    <3>3. result' = IF verify_stream_payload(g_payload', g_data') = None THEN AuthFailure
                    ELSE Success
      BY <2>2, <3>1 DEF AnswerReport, Frame, callVars
    <3>4. \E k \in 0 .. Len(TheAnswer') : Progress(k, TheAnswer)'
      BY <2>2, <3>1, <3>2 DEF AnswerReport, Progress
    <3>5. QED
      BY <3>2, <3>3, <3>4 DEF AnswerReport
  <2>5. Standing' /\ StandingFile' /\ is_verify'
    BY <1>1, <2>2, StandingKept, FrameKept
  <2>6. VerifyInv'
    BY <2>1, <2>2, <2>3, <2>4, <2>5 DEF VerifyInv, StandingFile
  <2>7. QED
    BY <1>2, <2>5, <2>6
<1>7. CASE ShimFails
  <2>1. gpc \in {"sig", "data"} /\ faults /\ (Silent(UsageError) \/ Silent(IoError))
    BY <1>1, <1>7 DEF ShimFails, VerifyInv
  <2>2. Quiet
    BY <1>1, <2>1 DEF VerifyInv
  <2>3. /\ Frame /\ UNCHANGED <<g_out, pending, status>> /\ gpc' = "exit"
        /\ gexit' \in {WireCorruption, UsageError}
    BY <2>1 DEF Silent, GExit, Frame, callVars, WireCorruption, IoError
  <2>4. faults' /\ Quiet'
    BY <2>1, <2>2, <2>3, FrameKept DEF Quiet
  <2>5. Standing' /\ StandingFile' /\ is_verify'
    BY <1>1, <2>3, StandingKept, FrameKept
  <2>6. VerifyInv'
    BY <2>3, <2>4, <2>5 DEF VerifyInv, StandingFile
  <2>7. QED
    BY <1>2, <2>5, <2>6
<1>8. ~(GCheckKeyId \/ GSign \/ GPrintLine)
  BY <1>1 DEF GCheckKeyId, GSign, GPrintLine, VerifyInv
<1>9. QED
  BY <1>3, <1>4, <1>5, <1>6, <1>7, <1>8 DEF run_git_shim

LEMMA SignSideStep ==
    ASSUME GInv, ~is_verify, run_git_shim \/ ShimFails
    PROVE  GInv'
<1>1. Standing /\ SignInv
  BY DEF GInv, Standing
<1>2. Standing' /\ ~is_verify' /\ SignInv' => GInv'
  BY DEF GInv, Standing
<1>3. CASE GCheckKeyId
  <2>1. gpc = "key" /\ gexit = Running /\ Quiet /\ g_out = << >>
    BY <1>1, <1>3 DEF GCheckKeyId, SignInv
  <2>2. CASE WrongKeyId
    <3>1. Report(<< <<S("INV_SGNR", key_id, None)>> >>, UsageError)
      BY <1>3, <2>2 DEF GCheckKeyId
    <3>2. /\ Frame /\ g_out' = g_out /\ gexit' = gexit
          /\ gpc' = "status" /\ result' = UsageError
      BY <3>1 DEF Report, Frame, callVars
    <3>3. QED
      BY <1>1, <1>2, <2>1, <3>2, StandingKept, FrameKept DEF SignInv
  <2>3. CASE ~WrongKeyId
    <3>1. /\ Frame /\ UNCHANGED <<g_out, gexit, pending, status>> /\ gpc' = "commit"
      BY <1>3, <2>3 DEF GCheckKeyId, Frame, callVars
    <3>2. Quiet' /\ ~WrongKeyId'
      BY <2>1, <2>3, <3>1, FrameKept DEF Quiet
    <3>3. QED
      BY <1>1, <1>2, <2>1, <3>1, <3>2, StandingKept, FrameKept DEF SignInv
  <2>4. QED
    BY <2>2, <2>3
<1>4. CASE WriteStatus
  <2>1. Frame /\ UNCHANGED <<result, g_out, gpc, gexit>>
    BY <1>4 DEF WriteStatus, Frame, callVars
  <2>2. gpc \in {"status", "created"}
    BY <1>4 DEF WriteStatus
  <2>3. (Signed => Signed') /\ Mine' = Mine /\ Standing' /\ ~is_verify'
    BY <1>1, <2>1, StandingKept, FrameKept
  <2>4. SignInv'
    BY <1>1, <2>1, <2>2, <2>3 DEF SignInv
  <2>5. QED
    BY <1>2, <2>3, <2>4
<1>5. CASE StatusWritten
  <2>1. gpc = "status" /\ result = UsageError
    BY <1>1, <1>5 DEF StatusWritten, SignInv
  <2>2. Frame /\ g_out' = g_out /\ gpc' = "exit" /\ gexit' = UsageError
    BY <1>5, <2>1 DEF StatusWritten, GExit, Frame, callVars
  <2>3. QED
    BY <1>1, <1>2, <2>2, StandingKept, FrameKept DEF SignInv
<1>6. CASE GSign
  <2>1. gpc = "commit" /\ gexit = Running /\ g_out = << >> /\ ~WrongKeyId
    BY <1>1, <1>6 DEF GSign, SignInv
  <2>2. /\ UNCHANGED <<status_fd, key_id, is_verify, world, g_file, g_data, faults, g_out,
                       gexit>>
        /\ g_payload' = Mine /\ issued' = issued \cup {Fact(g_payload', g_data)}
        /\ gpc' = "created"
    BY <1>6 DEF GSign, callVars, Mine, sign_stream_payload
  <2>3. Mine' = Mine /\ ~WrongKeyId'
    BY <2>1, <2>2 DEF Mine, WrongKeyId
  <2>4. \A p \in Earlier : SigIssued(p.sig, issued')
    BY <1>1, <2>2, MoreIssued DEF Standing
  <2>5. Standing'
    BY <1>1, <2>1, <2>2, <2>4 DEF Standing
  <2>6. SigIssued(Mine.sig, issued')
    <3>1. Fact(Mine, g_data) \in issued'
      BY <2>2
    <3>2. QED
      BY <3>1, SignedSig DEF Mine
  <2>7. Signed'
    BY <2>2, <2>3, <2>6 DEF Signed
  <2>8. Len(g_out') = 0 /\ g_out' = SubSeq(ArmorLines(Mine'), 1, Len(g_out'))
    <3>1. g_out' = << >> /\ SubSeq(ArmorLines(Mine), 1, 0) = << >>
      BY <2>1, <2>2 DEF ArmorLines
    <3>2. QED
      BY <3>1, <2>3
  <2>9. SignInv'
    BY <2>1, <2>2, <2>7, <2>8 DEF SignInv
  <2>10. QED
    BY <1>2, <2>2, <2>5, <2>9
<1>7. CASE GPrintLine
  <2>1. /\ gpc = "created" /\ gexit = Running /\ Signed
        /\ Len(g_out) \in 0 .. 3 /\ g_out = SubSeq(ArmorLines(Mine), 1, Len(g_out))
    BY <1>1, <1>7 DEF GPrintLine, SignInv
  <2>2. PICK x : x = Append(g_out, ArmorLines(Mine)[Len(g_out) + 1])
    OBVIOUS
  <2>3. /\ Len(ArmorLines(Mine)) = 4
        /\ Len(x) \in 1 .. 4 /\ x = SubSeq(ArmorLines(Mine), 1, Len(x))
        /\ Len(x) = 4 => x = ArmorLines(Mine)
    BY <2>1, <2>2, ArmorGrows
  <2>4. /\ Frame /\ pending = << >> /\ pending' = pending
        /\ g_out' = x
        /\ IF Len(x) = 4 THEN gpc' = "exit" /\ gexit' = Success
           ELSE gpc' = gpc /\ gexit' = gexit
    BY <1>7, <2>1, <2>2, <2>3 DEF GPrintLine, Frame, callVars, GExit, Signed
  <2>5. Signed' /\ Mine' = Mine /\ ~is_verify' /\ ~WrongKeyId'
    BY <2>1, <2>4, FrameKept DEF Signed
  <2>6. Standing'
    <3>1. issued' = issued /\ UNCHANGED <<status_fd, is_verify, faults>>
      BY <2>4 DEF Frame, callVars
    <3>2. \A p \in Earlier : SigIssued(p.sig, issued')
      BY <1>1, <3>1 DEF Standing
    <3>3. QED
      BY <1>1, <2>5, <3>1, <3>2 DEF Standing
  <2>7. SignInv'
    <3>1. CASE Len(x) = 4
      BY <3>1, <2>3, <2>4, <2>5 DEF SignInv
    <3>2. CASE Len(x) # 4
      <4>1. Len(x) \in 0 .. 3
        BY <3>2, <2>3
      <4>2. QED
        BY <3>2, <4>1, <2>1, <2>3, <2>4, <2>5 DEF SignInv
    <3>3. QED
      BY <3>1, <3>2
  <2>8. QED
    BY <1>2, <2>5, <2>6, <2>7
<1>8. CASE ShimFails
  <2>1. Silent(UsageError) \/ Silent(IoError) \/ Silent(Aborted)
    BY <1>8 DEF ShimFails
  <2>2. Frame /\ g_out' = g_out /\ gpc' = "exit" /\ gexit' \in {IoError, UsageError, Aborted}
    BY <2>1 DEF Silent, GExit, Frame, callVars
  <2>3. QED
    BY <1>1, <1>2, <2>2, StandingKept, FrameKept DEF SignInv
<1>9. ~(GReadSig \/ GVerify)
  BY <1>1 DEF GReadSig, GVerify, SignInv
<1>10. QED
  BY <1>3, <1>4, <1>5, <1>6, <1>7, <1>8, <1>9 DEF run_git_shim

LEMMA VerifySignedStep ==
    ASSUME GInv, VerifySigned
    PROVE  GInv'
<1>1. /\ gpc = "exit" /\ gexit = Success /\ ~is_verify
      /\ is_verify' = TRUE /\ g_file' = TextFile(g_out)
      /\ status' = << >> /\ gpc' = "sig" /\ gexit' = Running
      /\ UNCHANGED <<status_fd, key_id, world, g_data, faults, pending, result, g_out,
                     issued>>
  BY DEF VerifySigned
<1>2. Standing /\ pending = << >> /\ Signed /\ g_out = ArmorLines(Mine)
  BY <1>1 DEF GInv, SignInv, Standing, Success, IoError, UsageError, Aborted
<1>3. Mine' = Mine /\ (WrongKeyId' <=> WrongKeyId)
  BY <1>1 DEF Mine, WrongKeyId
<1>4. SigIssued(Mine.sig, issued') /\ \A p \in Earlier : SigIssued(p.sig, issued')
  BY <1>1, <1>2 DEF Signed, Standing
<1>5. PICK f : f = TextFile(ArmorLines(Mine))
  OBVIOUS
<1>6. Detach(f) = [ok |-> TRUE, bytes |-> Bytes(Mine)]
  BY <1>5, DetachArmor
<1>7. g_file' = f
  BY <1>1, <1>2, <1>5
<1>8. FileHolds'
  <2>1. Payload(Detach(f).bytes) = Mine
    BY <1>6, PayloadOfBytes
  <2>2. SigIssued(Payload(Detach(f).bytes).sig, issued')
    BY <2>1, <1>4
  <2>3. QED
    BY <2>2, <1>7 DEF FileHolds
<1>9. (g_file.text => IsText(g_file.lines))'
  <2>1. f.lines = ArmorLines(Mine) /\ IsText(ArmorLines(Mine))
    BY <1>5, ArmorIsText DEF TextFile
  <2>2. IsText(f.lines)
    BY <2>1
  <2>3. QED
    BY <2>2, <1>7
<1>10. Quiet' /\ g_file' = TextFile(ArmorLines(Mine'))
  BY <1>1, <1>2, <1>3 DEF Quiet
<1>11. VerifyInv'
  BY <1>1, <1>3, <1>4, <1>8, <1>9, <1>10 DEF VerifyInv
<1>12. Standing'
  BY <1>1, <1>2, <1>3, <1>4 DEF Standing, Signed
<1>13. QED
  BY <1>1, <1>11, <1>12 DEF GInv, Standing

LEMMA GitStutter ==
    ASSUME GInv, UNCHANGED gitVars
    PROVE  GInv'
<1>1. Frame /\ UNCHANGED <<pending, result, status, lost, g_out, gpc, gexit>>
  BY DEF gitVars, Frame, callVars
<1>2. Standing' /\ (is_verify' = is_verify) /\ (Mine' = Mine)
  BY <1>1, StandingKept, FrameKept DEF GInv, Standing
<1>3. CASE is_verify
  <2>1. StandingFile' /\ (Decoded => Decoded') /\ (TheAnswer' = TheAnswer)
        /\ (Reliable' <=> Reliable)
    BY <1>1, <1>3, StandingKept, FrameKept DEF GInv, VerifyInv, StandingFile
  <2>2. ErrorReport => ErrorReport'
    BY <1>1, FrameKept DEF ErrorReport, ErrorLines, Plain, S
  <2>3. AnswerReport => AnswerReport'
    <3>1. SUFFICES ASSUME AnswerReport PROVE AnswerReport'
      OBVIOUS
    <3>2. result' = IF verify_stream_payload(g_payload', g_data') = None THEN AuthFailure
                    ELSE Success
      BY <1>1, <3>1 DEF AnswerReport, Frame, callVars
    <3>3. \E k \in 0 .. Len(TheAnswer') : Progress(k, TheAnswer)'
      BY <1>1, <2>1, <3>1 DEF AnswerReport, Progress
    <3>4. QED
      BY <2>1, <3>1, <3>2, <3>3 DEF AnswerReport
  <2>4. (Quiet => Quiet') /\ (faults' <=> faults) /\ g_file' = g_file
    BY <1>1, FrameKept DEF Quiet
  <2>5. VerifyInv'
    BY <1>1, <1>3, <2>1, <2>2, <2>3, <2>4 DEF GInv, VerifyInv, StandingFile
  <2>6. QED
    BY <1>2, <1>3, <2>5 DEF GInv, Standing
<1>4. CASE ~is_verify
  <2>1. (Signed => Signed') /\ (WrongKeyId' <=> WrongKeyId) /\ (Quiet => Quiet')
    BY <1>1, FrameKept DEF Quiet
  <2>2. SignInv'
    BY <1>1, <1>2, <1>4, <2>1 DEF GInv, SignInv
  <2>3. QED
    BY <1>2, <1>4, <2>2 DEF GInv, Standing
<1>5. QED
  BY <1>3, <1>4

LEMMA GitInvariance == GitSpec => []GInv
<1>1. GInv /\ [GitNext]_gitVars => GInv'
  BY VerifySideStep, SignSideStep, VerifySignedStep, GitStutter DEF GitNext
<1>2. QED
  BY GitInitInv, <1>1, PTL DEF GitSpec

-----------------------------------------------------------------------------
(* The properties.                                                         *)

Answering ==
    \E k \in 0 .. Len(TheAnswer) :
        /\ status \in Seq({TheAnswer[i] : i \in 1 .. k})
        /\ gexit = Running \/ gexit = result
        /\ result = IF verify_stream_payload(g_payload, g_data) = None THEN AuthFailure
                    ELSE Success

\* Where the shim stands when an answer or an exit code is out.
LEMMA Lines ==
    ASSUME GInv, is_verify
    PROVE  /\ Done => gexit # Running
           /\ \/ status = << >> /\ gexit # Success
              \/ status = ErrorLines /\ gexit \in {Running, WireCorruption}
              \/ Decoded /\ Answering
<1>1. ErrorReport => status \in {<< >>, ErrorLines} /\ result = WireCorruption
  BY DEF ErrorReport
<1>2. AnswerReport =>
          /\ Decoded /\ result \in {AuthFailure, Success}
          /\ gexit = Running \/ gexit = result => Answering
  BY DEF AnswerReport, Answering, Progress
<1> USE DEF Running, Success, WireCorruption, UsageError, AuthFailure
<1>3. CASE gpc = "sig" \/ gpc = "data"
  BY <1>3 DEF GInv, VerifyInv, Quiet, Done
<1>4. CASE gpc = "status"
  <2>1. gexit = Running /\ (ErrorReport \/ AnswerReport)
    BY <1>4 DEF GInv, VerifyInv
  <2>2. QED
    BY <1>4, <2>1, <1>1, <1>2 DEF Done
<1>5. CASE gpc = "exit"
  <2>1. \/ Quiet /\ gexit \in {WireCorruption, UsageError}
        \/ gexit = result /\ (ErrorReport \/ AnswerReport)
    BY <1>5 DEF GInv, VerifyInv
  <2>2. QED
    BY <2>1, <1>1, <1>2 DEF Quiet
<1>6. QED
  BY <1>3, <1>4, <1>5 DEF GInv, VerifyInv

\* A GOODSIG line or the exit code 0 means that the key issued that very
\* signature, over this commit, whatever lines are lost.
THEOREM GoodCorrect == GitSpec => []GoodOnlyIfIssued
<1>1. GInv => GoodOnlyIfIssued
  <2> SUFFICES ASSUME GInv, is_verify, Answered("GOODSIG") \/ gexit = Success
               PROVE  /\ Fact(g_payload, g_data) \in issued
                      /\ Answered("GOODSIG") => Line1("GOODSIG").pk = g_payload.pk
                      /\ ~Answered("BADSIG") /\ ~Answered("ERRSIG")
                      /\ Done => gexit = Success
    BY DEF GoodOnlyIfIssued
  <2>1. \A i \in {1, 2} : ErrorLines[i].tag \in {"NEWSIG", "ERRSIG"}
    BY DEF ErrorLines, Plain, S
  <2>2. ~(status = << >> /\ gexit # Success)
    BY DEF Answered, Tags
  <2>3. ~(status = ErrorLines /\ gexit \in {Running, WireCorruption})
    <3>1. DOMAIN ErrorLines = {1, 2}
      BY DEF ErrorLines
    <3>2. QED
      BY <2>1, <3>1 DEF Answered, Tags, Running, Success, WireCorruption
  <2>4. PICK k \in 0 .. Len(TheAnswer) :
            /\ status \in Seq({TheAnswer[i] : i \in 1 .. k})
            /\ gexit = Running \/ gexit = result
            /\ result = IF verify_stream_payload(g_payload, g_data) = None
                        THEN AuthFailure ELSE Success
    BY <2>2, <2>3, Lines DEF Answering
  <2>5. Decoded
    BY <2>2, <2>3, Lines
  <2>6. PICK A : A = TheAnswer
    OBVIOUS
  <2>7. AnswerOK(A, g_payload, g_data)
    BY <2>6, AnswerShape DEF TheAnswer
  <2>8. \A j \in DOMAIN status : \E i \in 1 .. Len(A) : status[j] = A[i]
    <3> DEFINE T == {A[i] : i \in 1 .. k}
    <3>1. Len(A) \in Nat
      BY <2>7 DEF AnswerOK
    <3>2. \A x \in T : \E i \in 1 .. Len(A) : x = A[i]
      BY <3>1, <2>4, <2>6
    <3>3. status \in Seq(T)
      BY <2>4, <2>6
    <3> HIDE DEF T
    <3>4. \A j \in DOMAIN status : status[j] \in T
      BY <3>3
    <3>5. QED
      BY <3>2, <3>4
  <2>9. verify_stream_payload(g_payload, g_data) # None
    <3>1. SUFFICES ASSUME verify_stream_payload(g_payload, g_data) = None PROVE FALSE
      OBVIOUS
    <3>2. IsBad(A)
      BY <2>7, <3>1 DEF AnswerOK
    <3>3. \A i \in 1 .. Len(A) : A[i].tag # "GOODSIG"
      BY <3>2 DEF IsBad
    <3>4. ~Answered("GOODSIG")
      BY <2>8, <3>3 DEF Answered, Tags
    <3>5. gexit # Success
      BY <2>4, <3>1 DEF AuthFailure, Success, Running
    <3>6. QED
      BY <3>4, <3>5
  <2>10. IsGood(A, g_payload.pk)
    BY <2>7, <2>9 DEF AnswerOK
  <2>11. Fact(g_payload, g_data) \in issued
    BY <2>5, <2>9, IssuedFact DEF Decoded
  <2>12. \A i \in 1 .. Len(A) : GoodLine(A[i], g_payload.pk)
    BY <2>10 DEF IsGood, GoodLine
  <2>13. \A j \in DOMAIN status : GoodLine(status[j], g_payload.pk)
    BY <2>8, <2>12, Zenon
  <2>14. /\ ~Answered("BADSIG") /\ ~Answered("ERRSIG")
         /\ Answered("GOODSIG") => Line1("GOODSIG").pk = g_payload.pk
    BY <2>13 DEF GoodLine, Answered, Tags, Line1
  <2>15. Done => gexit = Success
    <3>1. result = Success
      BY <2>4, <2>9
    <3>2. Done => gexit # Running
      BY Lines
    <3>3. QED
      BY <2>4, <3>1, <3>2
  <2>16. QED
    BY <2>11, <2>14, <2>15
<1>2. QED
  BY <1>1, GitInvariance, PTL

\* Without faults the shim ends in one of three ways.
LEMMA Endings ==
    ASSUME GInv, is_verify, Done, ~faults
    PROVE  \/ ~Detach(g_file).ok /\ status = << >> /\ gexit = WireCorruption
           \/ /\ Detach(g_file).ok /\ Len(Detach(g_file).bytes) # SIGNATURE_PAYLOAD_SIZE
              /\ gexit = WireCorruption
              /\ status_fd => status = ErrorLines
           \/ /\ Decoded
              /\ gexit = IF verify_stream_payload(g_payload, g_data) = None THEN AuthFailure
                         ELSE Success
              /\ status_fd => status = TheAnswer
<1>1. \/ Quiet /\ gexit = WireCorruption /\ ~Detach(g_file).ok
      \/ pending = << >> /\ gexit = result /\ (ErrorReport \/ AnswerReport)
  BY DEF Done, GInv, VerifyInv
<1>2. CASE pending = << >> /\ gexit = result /\ ErrorReport
  BY <1>2 DEF ErrorReport, Reliable
<1>3. CASE pending = << >> /\ gexit = result /\ AnswerReport
  <2>1. PICK A : A = TheAnswer
    OBVIOUS
  <2>2. AnswerOK(A, g_payload, g_data)
    BY <2>1, AnswerShape DEF TheAnswer
  <2>3. A \in Seq({A[i] : i \in 1 .. Len(A)}) /\ Len(A) \in Nat
    BY <2>2 DEF AnswerOK
  <2>4. PICK T : A \in Seq(T)
    BY <2>3
  <2>5. PICK k \in 0 .. Len(A) : Progress(k, A)
    BY <1>3, <2>1 DEF AnswerReport
  <2>6. pending = WritesAfter(k, A) /\ (Reliable => status = SubSeq(A, 1, k))
    BY <2>5 DEF Progress
  <2>7. k = Len(A)
    <3>1. k \in Nat /\ k <= Len(A)
      BY <2>3
    <3>2. ~(k < Len(A))
      BY <1>3, <2>4, <2>6, <3>1, Rest
    <3>3. QED
      BY <2>3, <3>1, <3>2
  <2>8. SubSeq(A, 1, Len(A)) = A
    BY <2>4
  <2>9. status_fd => status = A
    BY <2>6, <2>7, <2>8 DEF Reliable
  <2>10. QED
    BY <1>3, <2>1, <2>9 DEF AnswerReport
<1>4. QED
  BY <1>1, <1>2, <1>3 DEF Quiet

\* The tags of whole reports.
LEMMA TagsOf ==
    ASSUME NEW n \in Nat, status \in Seq({status[i] : i \in 1 .. n}), Len(status) = n
    PROVE  \A tag : Answered(tag) <=> \E i \in 1 .. n : status[i].tag = tag
  BY DEF Answered, Tags

\* What git reads where nothing fails: GOODSIG exactly with exit code 0, and for a
\* signature that decodes NEWSIG first and one verdict.
THEOREM VerdictCorrect == GitSpec => []ExactlyOneVerdict
<1> DEFINE Verdicts == {"GOODSIG", "BADSIG", "ERRSIG"}
<1>1. ASSUME NEW tag \in Verdicts, \A t \in Verdicts : Answered(t) <=> t = tag
      PROVE  Cardinality(Tags \cap Verdicts) = 1
  <2>1. Tags \cap Verdicts = {tag}
    BY <1>1 DEF Answered
  <2>2. QED
    BY <2>1, FS_Singleton
<1>2. GInv => ExactlyOneVerdict
  <2> SUFFICES ASSUME GInv, is_verify, Done, ~faults
               PROVE  /\ gexit \in {Success, AuthFailure}
                      /\ status_fd => (Answered("GOODSIG") <=> gexit = Success)
                      /\ status_fd /\ Detach(g_file).ok =>
                             /\ status # << >> /\ status[1].tag = "NEWSIG"
                             /\ Cardinality(Tags \cap Verdicts) = 1
    BY DEF ExactlyOneVerdict
  <2>0. gexit \in {Success, AuthFailure}
    BY Endings DEF WireCorruption, AuthFailure
  <2>. SUFFICES ASSUME status_fd
                PROVE  /\ Answered("GOODSIG") <=> gexit = Success
                       /\ Detach(g_file).ok =>
                              /\ status # << >> /\ status[1].tag = "NEWSIG"
                              /\ Cardinality(Tags \cap Verdicts) = 1
    BY <2>0
  <2>1. \A tag, pk, id : S(tag, pk, id).tag = tag
    BY DEF S
  <2>2. \A tag : Plain(tag).tag = tag
    BY DEF Plain, S
  <2>3. CASE ~Detach(g_file).ok
    <3>1. status = << >> /\ gexit = WireCorruption
      BY <2>3, Endings DEF Decoded
    <3>2. ~Answered("GOODSIG")
      BY <3>1 DEF Answered, Tags
    <3>3. QED
      BY <2>3, <3>1, <3>2 DEF WireCorruption, Success
  <2>4. CASE /\ Detach(g_file).ok /\ Len(Detach(g_file).bytes) # SIGNATURE_PAYLOAD_SIZE
             /\ status = ErrorLines /\ gexit = WireCorruption
    <3>1. /\ Len(status) = 2 /\ status[1] = Plain("NEWSIG") /\ status[2] = Plain("ERRSIG")
          /\ status \in Seq({status[i] : i \in 1 .. Len(status)})
      BY <2>4, SeqOfTwo DEF ErrorLines
    <3>2. \A tag : Answered(tag) <=> tag = "NEWSIG" \/ tag = "ERRSIG"
      <4>1. \A tag : Answered(tag) <=> \E i \in 1 .. 2 : status[i].tag = tag
        BY <3>1, TagsOf
      <4>2. \A i \in 1 .. 2 : i = 1 \/ i = 2
        OBVIOUS
      <4>3. 1 \in 1 .. 2 /\ 2 \in 1 .. 2
        OBVIOUS
      <4>4. QED
        BY <4>1, <4>2, <4>3, <3>1, <2>2, Zenon
    <3>3. Cardinality(Tags \cap Verdicts) = 1
      <4>1. \A t \in Verdicts : Answered(t) <=> t = "ERRSIG"
        BY <3>2
      <4>2. QED
        BY <4>1, <1>1
    <3>4. ~Answered("GOODSIG")
      BY <3>2
    <3>5. QED
      BY <2>2, <2>4, <3>1, <3>3, <3>4 DEF WireCorruption, Success
  <2>5. CASE /\ Decoded /\ status = TheAnswer
             /\ gexit = IF verify_stream_payload(g_payload, g_data) = None THEN AuthFailure
                        ELSE Success
    <3>1. AnswerOK(status, g_payload, g_data)
      BY <2>5, AnswerShape DEF TheAnswer
    <3>2. status \in Seq({status[i] : i \in 1 .. Len(status)}) /\ Len(status) \in Nat
      BY <3>1 DEF AnswerOK
    <3>3. \A tag : Answered(tag) <=> \E i \in 1 .. Len(status) : status[i].tag = tag
      BY <3>2, TagsOf
    <3>4. CASE verify_stream_payload(g_payload, g_data) = None
      <4>1. IsBad(status)
        BY <3>1, <3>4 DEF AnswerOK
      <4>2. \A t \in Verdicts : Answered(t) <=> t = "BADSIG"
        BY <3>3, <4>1 DEF IsBad
      <4>3. Cardinality(Tags \cap Verdicts) = 1
        BY <4>2, <1>1
      <4>4. ~Answered("GOODSIG")
        BY <4>2
      <4>5. status # << >> /\ status[1].tag = "NEWSIG"
        BY <4>1 DEF IsBad
      <4>6. QED
        BY <2>5, <3>4, <4>3, <4>4, <4>5 DEF Decoded, AuthFailure, Success
    <3>5. CASE verify_stream_payload(g_payload, g_data) # None
      <4>1. IsGood(status, g_payload.pk)
        BY <3>1, <3>5 DEF AnswerOK
      <4>2. \A t \in Verdicts : Answered(t) <=> t = "GOODSIG"
        <5>1. /\ Len(status) = 4 /\ status[1].tag = "NEWSIG"
              /\ status[2].tag = "GOODSIG" /\ status[3].tag = "VALIDSIG"
              /\ status[4].tag = "TRUST_UNDEFINED" \/ status[4].tag = "TRUST_ULTIMATE"
          BY <4>1 DEF IsGood
        <5>2. \A i \in 1 .. 4 : i = 1 \/ i = 2 \/ i = 3 \/ i = 4
          OBVIOUS
        <5>3. Answered("GOODSIG")
          <6>1. 2 \in 1 .. Len(status)
            BY <5>1
          <6>2. QED
            BY <6>1, <5>1, <3>3
        <5>4. SUFFICES ASSUME NEW t \in {"BADSIG", "ERRSIG"} PROVE ~Answered(t)
          BY <5>3
        <5>5. \A i \in 1 .. Len(status) : status[i].tag # t
          BY <5>1, <5>2
        <5>6. QED
          BY <5>5, <3>3
      <4>3. Cardinality(Tags \cap Verdicts) = 1
        BY <4>2, <1>1
      <4>4. Answered("GOODSIG")
        BY <4>2
      <4>5. Len(status) = 4 /\ status[1].tag = "NEWSIG"
        BY <4>1 DEF IsGood
      <4>6. status # << >>
        BY <4>5
      <4>7. QED
        BY <2>5, <3>5, <4>3, <4>4, <4>5, <4>6 DEF Decoded
    <3>6. QED
      BY <3>4, <3>5
  <2>6. QED
    BY <2>3, <2>4, <2>5, Endings
<1>3. QED
  BY <1>2, GitInvariance, PTL

\* What the shim signed it finds good later, by its own key; and where -u names
\* another key it signs nothing.
THEOREM SignedVerifiesCorrect == GitSpec => []SignedVerifies
<1>1. GInv => SignedVerifies
  <2> SUFFICES ASSUME GInv, g_out # << >>
               PROVE  /\ key_id \notin {None, Unresolvable} => key_id = Me
                      /\ is_verify /\ Done /\ ~faults =>
                             /\ gexit = Success
                             /\ status_fd => Line1("GOODSIG").pk = Me
    BY DEF SignedVerifies
  <2>1. key_id \notin {None, Unresolvable} => key_id = Me
    BY DEF GInv, WrongKeyId
  <2>2. ASSUME is_verify, Done, ~faults
        PROVE  gexit = Success /\ (status_fd => Line1("GOODSIG").pk = Me)
    <3>1. PICK f : f = TextFile(ArmorLines(Mine))
      OBVIOUS
    <3>2. g_file = f
      BY <2>2, <3>1 DEF GInv, VerifyInv
    <3>3. Detach(f) = [ok |-> TRUE, bytes |-> Bytes(Mine)]
      BY <3>1, DetachArmor
    <3>4. Len(Bytes(Mine)) = SIGNATURE_PAYLOAD_SIZE
      BY BytesType DEF SIGNATURE_PAYLOAD_SIZE
    <3>5. /\ Decoded
          /\ gexit = IF verify_stream_payload(g_payload, g_data) = None THEN AuthFailure
                     ELSE Success
          /\ status_fd => status = TheAnswer
      BY <2>2, <3>2, <3>3, <3>4, Endings
    <3>6. g_payload = Mine
      BY <3>2, <3>3, <3>5, PayloadOfBytes DEF Decoded
    <3>7. verify_stream_payload(g_payload, g_data) = Me /\ g_payload.pk = Me
      BY <3>6, SignedIsValid DEF Mine
    <3>8. gexit = Success
      BY <3>5, <3>7, MeAssumption
    <3>9. ASSUME status_fd PROVE Line1("GOODSIG").pk = Me
      <4>1. AnswerOK(status, g_payload, g_data)
        BY <3>5, <3>9, AnswerShape DEF TheAnswer
      <4>2. IsGood(status, Me) /\ status \in Seq({status[i] : i \in 1 .. Len(status)})
        BY <4>1, <3>7, MeAssumption DEF AnswerOK
      <4>3. DOMAIN status = 1 .. 4
        BY <4>2 DEF IsGood
      <4>4. 2 \in DOMAIN status /\ status[2].tag = "GOODSIG"
        BY <4>2, <4>3 DEF IsGood
      <4>5. PICK j \in DOMAIN status : j = CHOOSE i \in DOMAIN status : status[i].tag = "GOODSIG"
        BY <4>4
      <4>6. status[j].tag = "GOODSIG"
        BY <4>4, <4>5
      <4>7. j = 1 \/ j = 2 \/ j = 3 \/ j = 4
        BY <4>3
      <4>8. status[j].pk = Me
        BY <4>2, <4>6, <4>7 DEF IsGood
      <4>9. QED
        BY <4>5, <4>8 DEF Line1
    <3>10. QED
      BY <3>8, <3>9
  <2>3. QED
    BY <2>1, <2>2
<1>2. QED
  BY <1>1, GitInvariance, PTL

-----------------------------------------------------------------------------
(* The armor.                                                              *)

\* What the shim is given to read.
LEMMA ReadsText ==
    ASSUME GInv, ReadsArmor
    PROVE  IsText(g_file.lines)
<1>1. is_verify
  BY DEF GInv, SignInv, ReadsArmor
<1>2. QED
  BY <1>1 DEF GInv, VerifyInv, ReadsArmor

\* The loop collects the data lines between the first BEGIN and the first END, in
\* their order, from any text.
THEOREM CapturedIsArmoredCorrect == GitSpec => []CapturedIsArmored
<1>1. GInv => CapturedIsArmored
  BY ReadsText, CapturedCorrect DEF CapturedIsArmored
<1>2. QED
  BY <1>1, GitInvariance, PTL

\* A text that begins with a whole armored signature, on one base64 line or two and
\* with anything after it, yields the payload.
THEOREM ArmorRoundTripCorrect == GitSpec => []ArmorRoundTrip
<1>1. GInv => ArmorRoundTrip
  <2> SUFFICES ASSUME GInv, ReadsArmor, NEW p \in Earlier,
                      \/ ArmorOf(Bytes(p), g_file.lines)
                      \/ ArmorOfTwo(<<Bytes(p)[1]>>, <<Bytes(p)[2]>>, g_file.lines)
               PROVE  Detach(g_file) = [ok |-> TRUE, bytes |-> Bytes(p)]
    BY DEF ArmorRoundTrip
  <2>1. PICK lines : lines = g_file.lines
    OBVIOUS
  <2>2. IsText(lines)
    BY <2>1, ReadsText
  <2>3. Detach(g_file) = Detach(TextFile(lines))
    BY <2>1 DEF Detach, TextFile, ReadsArmor
  <2>4. CASE ArmorOf(Bytes(p), lines)
    <3>1. Bytes(p) \in Seq({Bytes(p)[1], Bytes(p)[2]})
      BY BytesType
    <3>2. QED
      BY <2>2, <2>3, <2>4, <3>1, DetachOne
  <2>5. CASE ArmorOfTwo(<<Bytes(p)[1]>>, <<Bytes(p)[2]>>, lines)
    <3>1. PICK X : X = {Bytes(p)[1], Bytes(p)[2]}
      OBVIOUS
    <3>2. <<Bytes(p)[1]>> \in Seq(X) /\ <<Bytes(p)[2]>> \in Seq(X)
      BY <3>1, Single
    <3>3. <<Bytes(p)[1]>> \o <<Bytes(p)[2]>> = Bytes(p)
      BY Halves
    <3>4. QED
      BY <2>2, <2>3, <2>5, <3>2, <3>3, DetachTwo
  <2>6. QED
    BY <2>1, <2>4, <2>5
<1>2. QED
  BY <1>1, GitInvariance, PTL

-----------------------------------------------------------------------------
(* resolve_allowed_signers.                                                *)

\* f is what the loop over the lines computes on the first n of them.
IsLineSteps(f, signers, lines, n) ==
    f = [j \in 0 .. n |-> IF j = 0 THEN signers ELSE AddSigner(f[j - 1], lines[j])]

LEMMA LineStepsDef ==
    ASSUME NEW signers, NEW lines, Len(lines) \in Nat
    PROVE  IsLineSteps(LineSteps(signers, lines), signers, lines, Len(lines))
<1> DEFINE N == {n \in Nat : \E f : IsLineSteps(f, signers, lines, n)}
<1>1. 0 \in N
  <2> DEFINE f == [j \in 0 .. 0 |-> signers]
  <2>1. IsLineSteps(f, signers, lines, 0)
    BY DEF IsLineSteps
  <2>2. QED
    BY <2>1
<1>2. ASSUME NEW n \in Nat, n \in N PROVE n + 1 \in N
  <2>1. PICK f : IsLineSteps(f, signers, lines, n)
    BY <1>2
  <2> DEFINE g == [j \in 0 .. n + 1 |->
                       IF j = n + 1 THEN AddSigner(f[n], lines[n + 1]) ELSE f[j]]
  <2>2. \A j \in 0 .. n + 1 :
            g[j] = IF j = 0 THEN signers ELSE AddSigner(g[j - 1], lines[j])
    BY <2>1 DEF IsLineSteps
  <2>3. IsLineSteps(g, signers, lines, n + 1)
    BY <2>2 DEF IsLineSteps
  <2>4. QED
    BY <2>3
<1>3. Len(lines) \in N
  <2> HIDE DEF N
  <2>1. QED
    BY <1>1, <1>2, SetInduction
<1>4. PICK f : IsLineSteps(f, signers, lines, Len(lines))
  BY <1>3
<1>5. QED
  BY <1>4 DEF IsLineSteps, LineSteps

\* The signers after the lines of one more file.
AddFile(signers, lines) == LineSteps(signers, lines)[Len(lines)]

IsFileSteps(f, w, paths, n) ==
    f = [i \in 0 .. n |-> IF i = 0 THEN << >>
                          ELSE AddFile(f[i - 1], FileLines(w, paths[i]))]

LEMMA FileStepsDef ==
    ASSUME NEW w, NEW paths, Len(paths) \in Nat
    PROVE  IsFileSteps(FileSteps(w, paths), w, paths, Len(paths))
<1> DEFINE N == {n \in Nat : \E f : IsFileSteps(f, w, paths, n)}
<1>1. 0 \in N
  <2> DEFINE f == [i \in 0 .. 0 |-> << >>]
  <2>1. IsFileSteps(f, w, paths, 0)
    BY DEF IsFileSteps
  <2>2. QED
    BY <2>1
<1>2. ASSUME NEW n \in Nat, n \in N PROVE n + 1 \in N
  <2>1. PICK f : IsFileSteps(f, w, paths, n)
    BY <1>2
  <2> DEFINE g == [i \in 0 .. n + 1 |->
                       IF i = n + 1 THEN AddFile(f[n], FileLines(w, paths[n + 1]))
                       ELSE f[i]]
  <2>2. \A i \in 0 .. n + 1 :
            g[i] = IF i = 0 THEN << >> ELSE AddFile(g[i - 1], FileLines(w, paths[i]))
    BY <2>1 DEF IsFileSteps
  <2>3. IsFileSteps(g, w, paths, n + 1)
    BY <2>2 DEF IsFileSteps
  <2>4. QED
    BY <2>3
<1>3. Len(paths) \in N
  <2> HIDE DEF N
  <2>1. QED
    BY <1>1, <1>2, SetInduction
<1>4. PICK f : IsFileSteps(f, w, paths, Len(paths))
  BY <1>3
<1>5. QED
  BY <1>4 DEF IsFileSteps, FileSteps, AddFile

\* The line at e = <<number of the file, number of the line>>, and its record.
LineAt(w, paths, e) == FileLines(w, paths[e[1]])[e[2]]
RecordOf(line) == [key |-> line.key, identity |-> Identity(line.name, line.key)]

NotAfter(e, f) == e[1] < f[1] \/ (e[1] = f[1] /\ e[2] <= f[2])

\* e is the first entry for its key among those at the places R.
FirstEntry(e, w, paths, R) ==
    /\ e \in R /\ LineAt(w, paths, e) # Skipped
    /\ \A f \in R : LineAt(w, paths, f) # Skipped
                    /\ LineAt(w, paths, f).key = LineAt(w, paths, e).key
                    => NotAfter(e, f)

\* The signers when the lines at the places R were read: one for each key, made of
\* the first entry for it.
Listing(signers, w, paths, R) ==
    \A e \in R : LineAt(w, paths, e) # Skipped =>
        \E k \in 1 .. Len(signers) : signers[k].key = LineAt(w, paths, e).key
Sourced(signers, w, paths, R) ==
    \A k \in 1 .. Len(signers) : \E e \in R :
        FirstEntry(e, w, paths, R) /\ signers[k] = RecordOf(LineAt(w, paths, e))
OneEach(signers) == \A k, m \in 1 .. Len(signers) : signers[k].key = signers[m].key => k = m

Collected(signers, w, paths, R) ==
    /\ signers \in Seq({RecordOf(LineAt(w, paths, e)) : e \in Nat \X Nat})
    /\ Listing(signers, w, paths, R)
    /\ Sourced(signers, w, paths, R)
    /\ OneEach(signers)

LEMMA AddCollected ==
    ASSUME NEW w, NEW paths, NEW R, NEW e \in Nat \X Nat,
           \A f \in R : f \in Nat \X Nat /\ NotAfter(f, e),
           NEW signers, Collected(signers, w, paths, R)
    PROVE  Collected(AddSigner(signers, LineAt(w, paths, e)), w, paths, R \cup {e})
<1> DEFINE T == {RecordOf(LineAt(w, paths, f)) : f \in Nat \X Nat}
           line == LineAt(w, paths, e)
           n == Len(signers)
           g == AddSigner(signers, line)
<1>1. signers \in Seq(T) /\ n \in Nat /\ RecordOf(line) \in T
  BY DEF Collected
<1>2. /\ Listing(signers, w, paths, R) /\ Sourced(signers, w, paths, R)
      /\ OneEach(signers)
  BY DEF Collected
<1>3. \A x : RecordOf(x).key = x.key
  BY DEF RecordOf
<1>4. g = IF line = Skipped \/ \E k \in 1 .. n : signers[k].key = line.key
          THEN signers ELSE Append(signers, RecordOf(line))
  <2>1. DOMAIN signers = 1 .. n
    BY <1>1
  <2>2. QED
    BY <2>1, Zenon DEF AddSigner, RecordOf
<1>5. NotAfter(e, e)
  BY DEF NotAfter
<1>6. \A f \in R : FirstEntry(f, w, paths, R) => FirstEntry(f, w, paths, R \cup {e})
  BY DEF FirstEntry
<1>7. CASE line = Skipped \/ \E k \in 1 .. n : signers[k].key = line.key
  <2>1. g = signers
    BY <1>4, <1>7
  <2>2. Listing(signers, w, paths, R \cup {e})
    BY <1>2, <1>7 DEF Listing
  <2>3. Sourced(signers, w, paths, R \cup {e})
    BY <1>2, <1>6 DEF Sourced
  <2>4. QED
    BY <1>1, <1>2, <2>1, <2>2, <2>3 DEF Collected
<1>8. CASE line # Skipped /\ ~\E k \in 1 .. n : signers[k].key = line.key
  <2>1. g = Append(signers, RecordOf(line))
    BY <1>4, <1>8
  <2> HIDE DEF T, g
  <2>2. /\ g \in Seq(T) /\ Len(g) = n + 1
        /\ \A k \in 1 .. n : g[k] = signers[k]
        /\ g[n + 1] = RecordOf(line)
    BY <1>1, <2>1, Appended
  <2>3. \A k \in 1 .. Len(g) : \/ k \in 1 .. n /\ g[k] = signers[k]
                               \/ k = n + 1 /\ g[k] = RecordOf(line)
    BY <1>1, <2>2
  <2>4. n + 1 \in 1 .. Len(g) /\ 1 .. n \subseteq 1 .. Len(g)
    BY <1>1, <2>2
  <2>5. RecordOf(line).key = line.key
    BY <1>3
  <2>6. Listing(g, w, paths, R \cup {e})
    BY <1>2, <2>2, <2>4, <2>5 DEF Listing
  <2>7. FirstEntry(e, w, paths, R \cup {e})
    <3>1. \A f \in R : LineAt(w, paths, f) # Skipped => LineAt(w, paths, f).key # line.key
      BY <1>2, <1>8 DEF Listing
    <3>2. QED
      BY <1>5, <1>8, <3>1 DEF FirstEntry
  <2>8. Sourced(g, w, paths, R \cup {e})
    BY <1>2, <1>6, <2>3, <2>7 DEF Sourced
  <2>9. OneEach(g)
    <3>1. \A j \in 1 .. n : signers[j].key # RecordOf(line).key
      BY <1>8, <2>5
    <3>2. QED
      BY <1>2, <2>3, <3>1 DEF OneEach
  <2>10. QED
    BY <2>2, <2>6, <2>8, <2>9 DEF Collected, T, g
<1>9. QED
  BY <1>7, <1>8

\* The places of the first i files and of the first j lines of the next.
Places(w, paths, i, j) ==
    {e \in Nat \X Nat : \/ e[1] \in 1 .. i /\ e[2] \in 1 .. Len(FileLines(w, paths[e[1]]))
                        \/ e[1] = i + 1 /\ e[2] \in 1 .. j}

LEMMA NothingCollected ==
    ASSUME NEW w, NEW paths
    PROVE  Collected(<< >>, w, paths, Places(w, paths, 0, 0))
<1>1. Places(w, paths, 0, 0) = {}
  BY DEF Places
<1>2. QED
  BY <1>1 DEF Collected, Listing, Sourced, OneEach

LEMMA LinesCollected ==
    ASSUME NEW w, NEW paths, NEW i \in Nat, NEW signers,
           Collected(signers, w, paths, Places(w, paths, i, 0)),
           Len(FileLines(w, paths[i + 1])) \in Nat
    PROVE  Collected(AddFile(signers, FileLines(w, paths[i + 1])), w, paths,
                     Places(w, paths, i + 1, 0))
<1> DEFINE lines == FileLines(w, paths[i + 1])
           f == LineSteps(signers, lines)
           n == Len(lines)
           N == {j \in Nat : j <= n => Collected(f[j], w, paths, Places(w, paths, i, j))}
<1>1. IsLineSteps(f, signers, lines, n)
  BY LineStepsDef
<1>2. 0 \in N
  BY <1>1 DEF IsLineSteps
<1>3. ASSUME NEW j \in Nat, j \in N, j + 1 <= n
      PROVE  Collected(f[j + 1], w, paths, Places(w, paths, i, j + 1))
  <2> DEFINE e == <<i + 1, j + 1>>
  <2>1. f[j + 1] = AddSigner(f[j], lines[j + 1])
    BY <1>1, <1>3 DEF IsLineSteps
  <2>2. LineAt(w, paths, e) = lines[j + 1]
    BY DEF LineAt
  <2>3. Collected(f[j], w, paths, Places(w, paths, i, j))
    BY <1>3
  <2>4. Places(w, paths, i, j + 1) = Places(w, paths, i, j) \cup {e}
    BY DEF Places
  <2>5. \A h \in Places(w, paths, i, j) : h \in Nat \X Nat /\ NotAfter(h, e)
    BY DEF Places, NotAfter
  <2>6. e \in Nat \X Nat
    OBVIOUS
  <2> HIDE DEF e, f, lines
  <2>7. QED
    BY <2>1, <2>2, <2>3, <2>4, <2>5, <2>6, AddCollected
<1>4. \A j \in Nat : j \in N => j + 1 \in N
  BY <1>3
<1>5. n \in N
  <2> HIDE DEF N
  <2>1. QED
    BY <1>2, <1>4, SetInduction
<1>6. Places(w, paths, i, n) = Places(w, paths, i + 1, 0)
  BY DEF Places
<1>7. Collected(f[n], w, paths, Places(w, paths, i, n))
  BY <1>5
<1>8. QED
  BY <1>6, <1>7 DEF AddFile

LEMMA AllCollected ==
    ASSUME NEW w, NEW paths, Len(paths) \in Nat,
           \A i \in 1 .. Len(paths) : Len(FileLines(w, paths[i])) \in Nat
    PROVE  Collected(FileSteps(w, paths)[Len(paths)], w, paths,
                     Places(w, paths, Len(paths), 0))
<1> DEFINE f == FileSteps(w, paths)
           n == Len(paths)
           N == {i \in Nat : i <= n => Collected(f[i], w, paths, Places(w, paths, i, 0))}
<1>1. IsFileSteps(f, w, paths, n)
  BY FileStepsDef
<1>2. 0 \in N
  <2>1. f[0] = << >>
    BY <1>1 DEF IsFileSteps
  <2>2. QED
    BY <2>1, NothingCollected
<1>3. ASSUME NEW i \in Nat, i \in N, i + 1 <= n
      PROVE  Collected(f[i + 1], w, paths, Places(w, paths, i + 1, 0))
  <2>1. f[i + 1] = AddFile(f[i], FileLines(w, paths[i + 1]))
    BY <1>1, <1>3 DEF IsFileSteps
  <2>2. Collected(f[i], w, paths, Places(w, paths, i, 0))
    BY <1>3
  <2>3. Len(FileLines(w, paths[i + 1])) \in Nat
    BY <1>3
  <2> HIDE DEF f
  <2>4. QED
    BY <2>1, <2>2, <2>3, LinesCollected
<1>4. \A i \in Nat : i \in N => i + 1 \in N
  BY <1>3
<1>5. n \in N
  <2> HIDE DEF N
  <2>1. QED
    BY <1>2, <1>4, SetInduction
<1>6. QED
  BY <1>5

-----------------------------------------------------------------------------
(* candidate_paths: the files that may speak, in the order of their ranks. *)

PlaceNames == {"config", "GIT_DIR", "dot_git", "gitdir", "common", "home"}
AllPaths == {Path(place, level, name) : place \in PlaceNames, level \in Nat,
                                        name \in {"pipe-k1", "pipek1"}}

InSeq(p, paths) == \E i \in 1 .. Len(paths) : paths[i] = p

\* The files of paths, best first, have ranks from lo to hi.
Ranked(paths, lo, hi) ==
    /\ paths \in Seq(AllPaths)
    /\ \A i \in 1 .. Len(paths) : RankOf(paths[i]) \in lo .. hi
    /\ \A i, j \in 1 .. Len(paths) : i < j => RankOf(paths[i]) < RankOf(paths[j])

LEMMA NoPaths ==
    ASSUME NEW lo, NEW hi
    PROVE  Ranked(<< >>, lo, hi) /\ \A p : ~InSeq(p, << >>)
BY DEF Ranked, InSeq

LEMMA MorePaths ==
    ASSUME NEW a \in Nat, NEW b \in Nat, NEW c \in Nat, NEW d \in Nat,
           a <= b, b < c, c <= d, NEW s, NEW t, Ranked(s, a, b), Ranked(t, c, d)
    PROVE  /\ Ranked(s \o t, a, d)
           /\ \A p : InSeq(p, s \o t) <=> InSeq(p, s) \/ InSeq(p, t)
<1> DEFINE u == s \o t
           m == Len(s)
           n == Len(t)
<1>1. s \in Seq(AllPaths) /\ t \in Seq(AllPaths) /\ m \in Nat /\ n \in Nat
  BY DEF Ranked
<1>2. /\ u \in Seq(AllPaths) /\ Len(u) = m + n
      /\ \A i \in 1 .. m + n : u[i] = IF i <= m THEN s[i] ELSE t[i - m]
  BY <1>1, Concatenated
<1>3. /\ \A i \in 1 .. Len(u) : \/ i \in 1 .. m /\ u[i] = s[i]
                                \/ i - m \in 1 .. n /\ u[i] = t[i - m]
      /\ \A i \in 1 .. m : i \in 1 .. Len(u) /\ u[i] = s[i]
      /\ \A i \in 1 .. n : m + i \in 1 .. Len(u) /\ u[m + i] = t[i]
  <2> HIDE DEF u, m, n
  <2>1. \A i \in 1 .. n : m + i \in 1 .. m + n /\ ~(m + i <= m) /\ (m + i) - m = i
    BY <1>1
  <2>2. \A i \in 1 .. n : u[m + i] = t[i]
    BY <1>2, <2>1
  <2>3. QED
    BY <1>1, <1>2, <2>1, <2>2
<1>4. /\ \A i \in 1 .. m : RankOf(s[i]) \in a .. b
      /\ \A i, j \in 1 .. m : i < j => RankOf(s[i]) < RankOf(s[j])
      /\ \A i \in 1 .. n : RankOf(t[i]) \in c .. d
      /\ \A i, j \in 1 .. n : i < j => RankOf(t[i]) < RankOf(t[j])
  BY DEF Ranked
<1> HIDE DEF u, m, n
<1>5. \A i \in 1 .. Len(u) : RankOf(u[i]) \in a .. d
  BY <1>1, <1>3, <1>4
<1>6. ASSUME NEW i \in 1 .. Len(u), NEW j \in 1 .. Len(u), i < j
      PROVE  RankOf(u[i]) < RankOf(u[j])
  <2>1. i \in Int /\ j \in Int
    BY <1>1, <1>2
  <2>2. CASE j \in 1 .. m /\ u[j] = s[j]
    <3>1. i \in 1 .. m
      BY <1>1, <1>6, <2>1, <2>2
    <3>2. u[i] = s[i] /\ RankOf(s[i]) < RankOf(s[j])
      BY <1>3, <1>4, <1>6, <2>2, <3>1
    <3>3. QED
      BY <2>2, <3>2
  <2>3. CASE i \in 1 .. m /\ u[i] = s[i] /\ j - m \in 1 .. n /\ u[j] = t[j - m]
    <3>1. RankOf(s[i]) \in a .. b /\ RankOf(t[j - m]) \in c .. d
      BY <1>4, <2>3
    <3>2. \A x \in a .. b, y \in c .. d : x < y
      OBVIOUS
    <3>3. QED
      BY <2>3, <3>1, <3>2
  <2>4. CASE i - m \in 1 .. n /\ u[i] = t[i - m] /\ j - m \in 1 .. n /\ u[j] = t[j - m]
    <3>1. i - m < j - m
      BY <1>1, <1>6, <2>1
    <3>2. QED
      BY <1>4, <2>4, <3>1
  <2>5. QED
    BY <1>3, <2>2, <2>3, <2>4
<1>7. Ranked(u, a, d)
  BY <1>2, <1>5, <1>6 DEF Ranked
<1>8. ASSUME NEW p PROVE InSeq(p, u) <=> InSeq(p, s) \/ InSeq(p, t)
  <2>1. InSeq(p, u) => InSeq(p, s) \/ InSeq(p, t)
    BY <1>3 DEF InSeq, m, n
  <2>2. InSeq(p, s) => InSeq(p, u)
    BY <1>3 DEF InSeq, m
  <2>3. ASSUME InSeq(p, t) PROVE InSeq(p, u)
    <3>1. PICK i \in 1 .. n : t[i] = p
      BY <2>3 DEF InSeq, n
    <3>2. m + i \in 1 .. Len(u) /\ u[m + i] = p
      BY <1>3, <3>1
    <3>3. QED
      BY <3>2 DEF InSeq
  <2>4. QED
    BY <2>1, <2>2, <2>3
<1>9. QED
  BY <1>7, <1>8 DEF u

LEMMA BothPaths ==
    ASSUME NEW place \in PlaceNames, NEW level \in Nat
    PROVE  /\ Ranked(BothNames(place, level), 2 * PlaceRank[place],
                     2 * PlaceRank[place] + 1)
           /\ \A p : InSeq(p, BothNames(place, level)) <=>
                         \/ p = Path(place, level, "pipe-k1")
                         \/ p = Path(place, level, "pipek1")
<1> DEFINE P == Path(place, level, "pipe-k1")
           Q == Path(place, level, "pipek1")
           r == PlaceRank[place]
<1>1. P \in AllPaths /\ Q \in AllPaths
  BY DEF AllPaths
<1>2. r \in Nat
  BY DEF PlaceNames, PlaceRank
<1>3. RankOf(P) = 2 * r + 0 /\ RankOf(Q) = 2 * r + 1
  BY DEF RankOf, Path
<1>4. BothNames(place, level) = <<P, Q>>
  BY DEF BothNames
<1> HIDE DEF P, Q, r
<1>5. <<P, Q>> \in Seq(AllPaths) /\ Len(<<P, Q>>) = 2 /\ <<P, Q>>[1] = P /\ <<P, Q>>[2] = Q
  BY <1>1
<1>6. 1 .. 2 = {1, 2}
  OBVIOUS
<1>7. Ranked(<<P, Q>>, 2 * r, 2 * r + 1)
  BY <1>2, <1>3, <1>5, <1>6 DEF Ranked
<1>8. \A p : InSeq(p, <<P, Q>>) <=> p = P \/ p = Q
  BY <1>5, <1>6 DEF InSeq
<1>9. QED
  BY <1>4, <1>7, <1>8 DEF P, Q, r

LEMMA FewerRanks ==
    ASSUME NEW a \in Nat, NEW b \in Nat, NEW c \in Nat, NEW d \in Nat,
           c <= a, b <= d, NEW s, Ranked(s, a, b)
    PROVE  Ranked(s, c, d)
<1>1. a .. b \subseteq c .. d
  OBVIOUS
<1>2. QED
  BY <1>1 DEF Ranked

\* p is one of the two files at a place.
OneOf(p, place, level) ==
    p = Path(place, level, "pipe-k1") \/ p = Path(place, level, "pipek1")

LEMMA TwoRanks ==
    ASSUME NEW level \in Nat
    PROVE  /\ Ranked(BothNames("GIT_DIR", level), 4, 5)
           /\ Ranked(BothNames("dot_git", level), 6, 7)
           /\ Ranked(BothNames("gitdir", level), 8, 9)
           /\ Ranked(BothNames("common", level), 10, 11)
           /\ Ranked(BothNames("home", level), 12, 13)
           /\ \A place \in PlaceNames : \A p :
                  InSeq(p, BothNames(place, level)) <=> OneOf(p, place, level)
<1>1. /\ PlaceRank["GIT_DIR"] = 2 /\ PlaceRank["dot_git"] = 3 /\ PlaceRank["gitdir"] = 4
      /\ PlaceRank["common"] = 5 /\ PlaceRank["home"] = 6
  BY DEF PlaceRank
<1>2. {"GIT_DIR", "dot_git", "gitdir", "common", "home"} \subseteq PlaceNames
  BY DEF PlaceNames
<1>3. Ranked(BothNames("GIT_DIR", level), 2 * 2, 2 * 2 + 1)
  BY <1>1, <1>2, BothPaths
<1>4. Ranked(BothNames("dot_git", level), 2 * 3, 2 * 3 + 1)
  BY <1>1, <1>2, BothPaths
<1>5. Ranked(BothNames("gitdir", level), 2 * 4, 2 * 4 + 1)
  BY <1>1, <1>2, BothPaths
<1>6. Ranked(BothNames("common", level), 2 * 5, 2 * 5 + 1)
  BY <1>1, <1>2, BothPaths
<1>7. Ranked(BothNames("home", level), 2 * 6, 2 * 6 + 1)
  BY <1>1, <1>2, BothPaths
<1>8. \A place \in PlaceNames : \A p :
          InSeq(p, BothNames(place, level)) <=> OneOf(p, place, level)
  BY BothPaths DEF OneOf
<1>9. QED
  BY <1>3, <1>4, <1>5, <1>6, <1>7, <1>8

\* What WorldAssumption says of a world.
WorldOK(w) ==
    /\ w.config \subseteq {"pipe-k1", "pipek1"} /\ w.git_dir \in BOOLEAN
    /\ w.home \in BOOLEAN /\ w.commondir \in BOOLEAN
    /\ w.dot_git \in Seq({"none", "dir", "pointer", "unusable"})
    /\ \A p \in DOMAIN w.files : w.files[p] \in Seq(Range(w.files[p]))

\* The ascent stops at the level that is inside the repository, if there is one.
LEMMA FirstDotGit ==
    ASSUME WorldOK(world), DotGitLevels(world) # {}
    PROVE  /\ Min(DotGitLevels(world)) \in DOMAIN world.dot_git
           /\ Inside(Min(DotGitLevels(world)))
           /\ \A l \in DOMAIN world.dot_git :
                  Inside(l) => l = Min(DotGitLevels(world))
<1> DEFINE D == DotGitLevels(world)
<1>1. DOMAIN world.dot_git = 1 .. Len(world.dot_git) /\ Len(world.dot_git) \in Nat
  BY DEF WorldOK
<1>2. D \subseteq Nat
  BY <1>1 DEF DotGitLevels
<1>3. \E x \in D : \A y \in D : x <= y
  <2> HIDE DEF D
  <2>1. QED
    BY <1>2, MinExists DEF D
<1>4. Min(D) \in D /\ \A y \in D : Min(D) <= y
  BY <1>3 DEF Min
<1> DEFINE l == Min(D)
<1>5. l \in DOMAIN world.dot_git /\ world.dot_git[l] # "none"
  BY <1>4 DEF DotGitLevels
<1>6. ASSUME NEW m \in 1 .. l - 1 PROVE world.dot_git[m] = "none"
  <2>1. m \in DOMAIN world.dot_git /\ ~(l <= m)
    BY <1>1, <1>5
  <2>2. m \notin D
    BY <1>4, <2>1
  <2>3. QED
    BY <2>1, <2>2 DEF DotGitLevels
<1>7. Inside(l)
  BY <1>5, <1>6 DEF Inside
<1>8. ASSUME NEW k \in DOMAIN world.dot_git, Inside(k) PROVE k = l
  <2>1. k \in D
    BY <1>8 DEF Inside, DotGitLevels
  <2>2. l <= k /\ k \in Nat /\ l \in Nat
    BY <1>1, <1>2, <1>4, <2>1
  <2>3. ~(l \in 1 .. k - 1)
    BY <1>5, <1>8 DEF Inside
  <2>4. 1 <= l
    BY <1>1, <1>5
  <2>5. QED
    BY <2>2, <2>3, <2>4
<1>9. QED
  BY <1>5, <1>7, <1>8

\* The files of the repository that the working directory belongs to.
RepositoryFile(p) ==
    \E l \in DOMAIN world.dot_git :
        /\ Inside(l)
        /\ \/ world.dot_git[l] = "dir" /\ OneOf(p, "dot_git", l)
           \/ world.dot_git[l] = "pointer" /\ OneOf(p, "gitdir", l)
           \/ world.dot_git[l] = "pointer" /\ world.commondir /\ OneOf(p, "common", l)

LEMMA RepositoryFiles ==
    ASSUME WorldOK(world)
    PROVE  /\ Ranked(InRepository(world), 6, 11)
           /\ \A p : InSeq(p, InRepository(world)) <=> RepositoryFile(p)
<1>1. CASE DotGitLevels(world) = {}
  <2>1. \A l \in DOMAIN world.dot_git : ~Inside(l)
    BY <1>1 DEF DotGitLevels, Inside
  <2>2. InRepository(world) = << >>
    BY <1>1 DEF InRepository
  <2>3. \A p : ~RepositoryFile(p)
    BY <2>1 DEF RepositoryFile
  <2>4. QED
    BY <2>2, <2>3, NoPaths
<1>2. CASE DotGitLevels(world) # {}
  <2> DEFINE l == Min(DotGitLevels(world))
             kind == world.dot_git[l]
             common == IF world.commondir THEN BothNames("common", l) ELSE << >>
  <2>1. /\ l \in DOMAIN world.dot_git /\ Inside(l)
        /\ \A k \in DOMAIN world.dot_git : Inside(k) => k = l
    BY <1>2, FirstDotGit
  <2>2. l \in Nat /\ kind \in {"none", "dir", "pointer", "unusable"} /\ kind # "none"
    BY <2>1 DEF WorldOK, Inside
  <2>3. InRepository(world) =
            CASE kind = "dir" -> BothNames("dot_git", l)
              [] kind = "pointer" -> BothNames("gitdir", l) \o common
              [] OTHER -> << >>
    BY <1>2 DEF InRepository
  <2>4. \A p : RepositoryFile(p) <=>
            \/ kind = "dir" /\ OneOf(p, "dot_git", l)
            \/ kind = "pointer" /\ OneOf(p, "gitdir", l)
            \/ kind = "pointer" /\ world.commondir /\ OneOf(p, "common", l)
    BY <2>1 DEF RepositoryFile
  <2> HIDE DEF l, kind
  <2>5. {"dot_git", "gitdir", "common"} \subseteq PlaceNames
    BY DEF PlaceNames
  <2>6. CASE kind = "dir"
    <3>1. InRepository(world) = BothNames("dot_git", l)
      BY <2>3, <2>6
    <3>2. Ranked(BothNames("dot_git", l), 6, 11)
      BY <2>2, TwoRanks, FewerRanks
    <3>3. QED
      BY <2>2, <2>4, <2>5, <2>6, <3>1, <3>2, TwoRanks
  <2>7. CASE kind = "pointer"
    <3>1. InRepository(world) = BothNames("gitdir", l) \o common
      BY <2>3, <2>7
    <3>2. Ranked(common, 10, 11)
      BY <2>2, NoPaths, TwoRanks
    <3>3. \A p : InSeq(p, common) <=> world.commondir /\ OneOf(p, "common", l)
      BY <2>2, <2>5, NoPaths, TwoRanks DEF WorldOK
    <3>4. Ranked(BothNames("gitdir", l), 8, 9)
      BY <2>2, TwoRanks
    <3>5. \A p : InSeq(p, BothNames("gitdir", l)) <=> OneOf(p, "gitdir", l)
      BY <2>2, <2>5, TwoRanks
    <3> HIDE DEF common
    <3>6. /\ Ranked(BothNames("gitdir", l) \o common, 8, 11)
          /\ \A p : InSeq(p, BothNames("gitdir", l) \o common) <=>
                        InSeq(p, BothNames("gitdir", l)) \/ InSeq(p, common)
      BY <3>2, <3>4, MorePaths
    <3>7. Ranked(InRepository(world), 6, 11)
      BY <3>1, <3>6, FewerRanks
    <3>8. QED
      BY <2>4, <2>7, <3>1, <3>3, <3>5, <3>6, <3>7
  <2>8. CASE kind = "unusable"
    BY <2>3, <2>4, <2>8, NoPaths
  <2>9. QED
    BY <2>2, <2>6, <2>7, <2>8
<1>3. QED
  BY <1>1, <1>2

LEMMA ConfigPath ==
    ASSUME NEW name \in {"pipe-k1", "pipek1"}
    PROVE  /\ Ranked(<<Path("config", 0, name)>>, 2, 3)
           /\ \A p : InSeq(p, <<Path("config", 0, name)>>) <=> p = Path("config", 0, name)
<1> DEFINE P == Path("config", 0, name)
<1>1. P \in AllPaths
  BY DEF AllPaths, PlaceNames
<1>2. RankOf(P) \in 2 .. 3
  BY DEF RankOf, Path, PlaceRank
<1> HIDE DEF P
<1>3. <<P>> \in Seq(AllPaths) /\ Len(<<P>>) = 1 /\ <<P>>[1] = P
  BY <1>1
<1>4. 1 .. 1 = {1}
  OBVIOUS
<1>5. Ranked(<<P>>, 2, 3)
  BY <1>2, <1>3, <1>4 DEF Ranked
<1>6. \A p : InSeq(p, <<P>>) <=> p = P
  BY <1>3, <1>4 DEF InSeq
<1>7. QED
  BY <1>5, <1>6 DEF P

\* The configured file.
Configured(p) ==
    \E name \in world.config :
        /\ p = Path("config", 0, name)
        /\ name = "pipek1" => "pipe-k1" \notin world.config

LEMMA ConfigFileSpeaks ==
    ASSUME WorldOK(world)
    PROVE  /\ Ranked(ConfigFile(world), 2, 3)
           /\ \A p : InSeq(p, ConfigFile(world)) <=> Configured(p)
<1> DEFINE names == {"pipe-k1", "pipek1"}
<1>1. world.config \subseteq names
  BY DEF WorldOK
<1>2. CASE "pipe-k1" \in world.config
  <2>1. ConfigFile(world) = <<Path("config", 0, "pipe-k1")>>
    BY <1>2 DEF ConfigFile
  <2>2. \A p : Configured(p) <=> p = Path("config", 0, "pipe-k1")
    BY <1>1, <1>2 DEF Configured
  <2>3. QED
    BY <2>1, <2>2, ConfigPath
<1>3. CASE "pipe-k1" \notin world.config /\ "pipek1" \in world.config
  <2>1. ConfigFile(world) = <<Path("config", 0, "pipek1")>>
    BY <1>3 DEF ConfigFile
  <2>2. \A p : Configured(p) <=> p = Path("config", 0, "pipek1")
    BY <1>1, <1>3 DEF Configured
  <2>3. QED
    BY <2>1, <2>2, ConfigPath
<1>4. CASE "pipe-k1" \notin world.config /\ "pipek1" \notin world.config
  <2>1. ConfigFile(world) = << >>
    BY <1>4 DEF ConfigFile
  <2>2. \A p : ~Configured(p)
    BY <1>1, <1>4 DEF Configured
  <2>3. QED
    BY <2>1, <2>2, NoPaths
<1>5. QED
  BY <1>2, <1>3, <1>4

\* The files of the hierarchy that the code opens: with the switch off, not the
\* metadata files.  What the code computes is stated of these; TrustCorrect goes
\* back from them to the hierarchy.
Consulted(p) == MaySpeak(p) /\ ~SwitchedOff(p)
ConsultedEntries(pk) == {e \in EntriesFor(pk) : ~SwitchedOff(e[1])}

\* Consulted, place by place.
LEMMA Speakers ==
    ASSUME NEW p
    PROVE  Consulted(p) <=>
               \/ Configured(p)
               \/ /\ AllowInTree(world)
                  /\ \/ world.git_dir /\ OneOf(p, "GIT_DIR", 0)
                     \/ RepositoryFile(p)
               \/ world.home /\ OneOf(p, "home", 0)
<1>1. \A place, level : OneOf(p, place, level) <=>
          /\ p.place = place /\ p.level = level
          /\ OneOf(p, p.place, p.level)
  BY DEF OneOf, Path
<1>2. Consulted(p) <=>
          \/ Configured(p)
          \/ /\ OneOf(p, p.place, p.level)
             /\ \/ p.place = "home" /\ p.level = 0 /\ world.home
                \/ AllowInTree(world) /\ InTree(p.place, p.level)
  <2>1. Configured(p) => p.place = "config"
    BY DEF Configured, Path
  <2>2. InTree(p.place, p.level) => p.place \notin {"config", "home"}
    BY DEF InTree
  <2>3. MaySpeak(p) <=>
            \/ Configured(p)
            \/ /\ OneOf(p, p.place, p.level)
               /\ \/ p.place = "home" /\ p.level = 0 /\ world.home
                  \/ InTree(p.place, p.level)
    BY DEF MaySpeak, Configured, OneOf
  <2>4. QED
    BY <2>1, <2>2, <2>3 DEF Consulted, SwitchedOff
<1>3. OneOf(p, p.place, p.level) /\ InTree(p.place, p.level) <=>
          (world.git_dir /\ OneOf(p, "GIT_DIR", 0)) \/ RepositoryFile(p)
  <2>1. OneOf(p, p.place, p.level) /\ p.place = "GIT_DIR" /\ p.level = 0 <=>
            OneOf(p, "GIT_DIR", 0)
    BY <1>1
  <2>2. RepositoryFile(p) <=>
            /\ OneOf(p, p.place, p.level)
            /\ p.level \in DOMAIN world.dot_git /\ Inside(p.level)
            /\ \/ p.place = "dot_git" /\ world.dot_git[p.level] = "dir"
               \/ p.place = "gitdir" /\ world.dot_git[p.level] = "pointer"
               \/ p.place = "common" /\ world.dot_git[p.level] = "pointer"
                  /\ world.commondir
    BY <1>1 DEF RepositoryFile
  <2>3. QED
    BY <2>1, <2>2 DEF InTree
<1>4. OneOf(p, p.place, p.level) /\ p.place = "home" /\ p.level = 0 <=> OneOf(p, "home", 0)
  BY <1>1
<1>5. QED
  BY <1>2, <1>3, <1>4

LEMMA CandidatesSpeak ==
    ASSUME WorldOK(world)
    PROVE  /\ Ranked(candidate_paths(world), 2, 13)
           /\ \A p : InSeq(p, candidate_paths(world)) <=> Consulted(p)
<1> DEFINE C == ConfigFile(world)
           G == IF world.git_dir THEN BothNames("GIT_DIR", 0) ELSE << >>
           R == InRepository(world)
           T == IF AllowInTree(world) THEN G \o R ELSE << >>
           H == IF world.home THEN BothNames("home", 0) ELSE << >>
<1>1. candidate_paths(world) = (C \o T) \o H
  BY DEF candidate_paths
<1>2. {"GIT_DIR", "home"} \subseteq PlaceNames
  BY DEF PlaceNames
<1>3. /\ Ranked(C, 2, 3)
      /\ \A p : InSeq(p, C) <=> Configured(p)
  BY ConfigFileSpeaks
<1>4. Ranked(G, 4, 5) /\ \A p : InSeq(p, G) <=> world.git_dir /\ OneOf(p, "GIT_DIR", 0)
  BY <1>2, TwoRanks, NoPaths DEF WorldOK
<1>5. Ranked(H, 12, 13) /\ \A p : InSeq(p, H) <=> world.home /\ OneOf(p, "home", 0)
  BY <1>2, TwoRanks, NoPaths DEF WorldOK
<1>6. Ranked(R, 6, 11) /\ \A p : InSeq(p, R) <=> RepositoryFile(p)
  BY RepositoryFiles
<1> HIDE DEF C, G, R, H
<1>7. Ranked(G \o R, 4, 11) /\ \A p : InSeq(p, G \o R) <=> InSeq(p, G) \/ InSeq(p, R)
  BY <1>4, <1>6, MorePaths
<1>8. /\ Ranked(T, 4, 11)
      /\ \A p : InSeq(p, T) <=> AllowInTree(world) /\ (InSeq(p, G) \/ InSeq(p, R))
  <2>1. AllowInTree(world) \in BOOLEAN
    BY DEF AllowInTree
  <2>2. QED
    BY <1>7, <2>1, NoPaths
<1> HIDE DEF T
<1>9. Ranked(C \o T, 2, 11) /\ \A p : InSeq(p, C \o T) <=> InSeq(p, C) \/ InSeq(p, T)
  BY <1>3, <1>8, MorePaths
<1>10. /\ Ranked((C \o T) \o H, 2, 13)
       /\ \A p : InSeq(p, (C \o T) \o H) <=> InSeq(p, C \o T) \/ InSeq(p, H)
  BY <1>5, <1>9, MorePaths
<1>11. \A p : InSeq(p, (C \o T) \o H) <=> Consulted(p)
  BY <1>3, <1>4, <1>5, <1>6, <1>8, <1>9, <1>10, Speakers
<1>12. QED
  BY <1>1, <1>10, <1>11

-----------------------------------------------------------------------------
(* Whom the signers trust.                                                 *)

IsEntry(p, j, pk) ==
    /\ p \in DOMAIN world.files /\ j \in DOMAIN world.files[p]
    /\ Consulted(p) /\ world.files[p][j].key = pk

LEMMA EntryMembers ==
    ASSUME NEW pk
    PROVE  /\ \A e \in ConsultedEntries(pk) : e = <<e[1], e[2]>> /\ IsEntry(e[1], e[2], pk)
           /\ \A p, j : IsEntry(p, j, pk) => <<p, j>> \in ConsultedEntries(pk)
<1>1. ASSUME NEW e \in ConsultedEntries(pk)
      PROVE  e = <<e[1], e[2]>> /\ IsEntry(e[1], e[2], pk)
  <2>1. PICK p \in DOMAIN world.files : e \in {p} \X DOMAIN world.files[p]
    BY DEF ConsultedEntries, EntriesFor
  <2>2. e = <<e[1], e[2]>> /\ e[1] = p /\ e[2] \in DOMAIN world.files[p]
    BY <2>1
  <2>3. Consulted(e[1]) /\ world.files[e[1]][e[2]].key = pk
    BY DEF ConsultedEntries, EntriesFor, Consulted
  <2>4. QED
    BY <2>2, <2>3 DEF IsEntry
<1>2. ASSUME NEW p, NEW j, IsEntry(p, j, pk) PROVE <<p, j>> \in ConsultedEntries(pk)
  <2> DEFINE e == <<p, j>>
  <2>1. e \in {p} \X DOMAIN world.files[p] /\ p \in DOMAIN world.files
    BY <1>2 DEF IsEntry
  <2>2. e[1] = p /\ e[2] = j
    OBVIOUS
  <2>3. Consulted(e[1]) /\ world.files[e[1]][e[2]].key = pk
    BY <1>2, <2>2 DEF IsEntry
  <2> HIDE DEF e
  <2>4. e \in ConsultedEntries(pk)
    BY <2>1, <2>3 DEF ConsultedEntries, EntriesFor, Consulted
  <2>5. QED
    BY <2>4 DEF e
<1>3. QED
  BY <1>1, <1>2

\* signers trusts a key exactly if a consulted file lists it, and then by the
\* name in the highest entry.
Trusts(signers, pk) ==
    /\ \A k \in DOMAIN signers : signers[k].key = pk =>
           \E e \in ConsultedEntries(pk) :
               /\ \A f \in ConsultedEntries(pk) : Ranks(e, f)
               /\ signers[k].identity = Identity(world.files[e[1]][e[2]].name, pk)
    /\ ConsultedEntries(pk) # {} => \E k \in DOMAIN signers : signers[k].key = pk
    /\ \A k, m \in DOMAIN signers : signers[k].key = signers[m].key => k = m

LEMMA ResolvedTrust ==
    ASSUME WorldOK(world), NEW pk, pk # None
    PROVE  Trusts(resolve_allowed_signers(world), pk)
<1> DEFINE paths == candidate_paths(world)
           n == Len(paths)
           signers == resolve_allowed_signers(world)
           R == Places(world, paths, n, 0)
           At(e) == LineAt(world, paths, e)
<1>1. /\ Ranked(paths, 2, 13)
      /\ \A p : InSeq(p, paths) <=> Consulted(p)
  BY CandidatesSpeak
<1>2. n \in Nat /\ paths \in Seq(AllPaths)
  BY <1>1 DEF Ranked
<1>3. \A p : Len(FileLines(world, p)) \in Nat
             /\ (p \in DOMAIN world.files =>
                     DOMAIN world.files[p] = 1 .. Len(FileLines(world, p)))
  <2>1. ASSUME NEW p, p \in DOMAIN world.files
        PROVE  /\ Len(FileLines(world, p)) \in Nat
               /\ DOMAIN world.files[p] = 1 .. Len(FileLines(world, p))
    <3>1. FileLines(world, p) = world.files[p]
      BY <2>1 DEF FileLines
    <3>2. world.files[p] \in Seq(Range(world.files[p]))
      BY <2>1 DEF WorldOK
    <3>3. QED
      BY <3>1, <3>2
  <2>2. ASSUME NEW p, p \notin DOMAIN world.files
        PROVE  Len(FileLines(world, p)) \in Nat
    BY <2>2 DEF FileLines
  <2>3. QED
    BY <2>1, <2>2
<1>4. signers = FileSteps(world, paths)[n]
  BY DEF resolve_allowed_signers
<1>5. Collected(signers, world, paths, R)
  <2> HIDE DEF paths
  <2>1. QED
    BY <1>2, <1>3, <1>4, AllCollected
<1> HIDE DEF paths, n, signers
\* Places and entries.
<1>6. ASSUME NEW e \in R, At(e).key = pk
      PROVE  /\ e = <<e[1], e[2]>> /\ e[1] \in 1 .. n /\ e[2] \in Nat
             /\ IsEntry(paths[e[1]], e[2], pk)
             /\ At(e) = world.files[paths[e[1]]][e[2]]
  <2>1. /\ e = <<e[1], e[2]>> /\ e[1] \in Nat /\ e[2] \in Nat
        /\ e[1] \in 1 .. n /\ e[2] \in 1 .. Len(FileLines(world, paths[e[1]]))
    BY DEF Places
  <2>2. paths[e[1]] \in DOMAIN world.files
    BY <2>1 DEF FileLines
  <2>3. Consulted(paths[e[1]])
    BY <1>1, <2>1 DEF InSeq, n
  <2>4. At(e) = world.files[paths[e[1]]][e[2]]
    BY <2>2 DEF LineAt, FileLines
  <2>5. QED
    BY <1>3, <1>6, <2>1, <2>2, <2>3, <2>4 DEF IsEntry
<1>7. ASSUME NEW p, NEW j, IsEntry(p, j, pk)
      PROVE  \E i \in 1 .. n : /\ paths[i] = p /\ <<i, j>> \in R /\ j \in Nat
                               /\ At(<<i, j>>).key = pk /\ At(<<i, j>>) # Skipped
  <2>1. PICK i \in 1 .. n : paths[i] = p
    BY <1>1, <1>7 DEF IsEntry, InSeq, n
  <2>2. j \in 1 .. Len(FileLines(world, p)) /\ Len(FileLines(world, p)) \in Nat
    BY <1>3, <1>7 DEF IsEntry
  <2>3. <<i, j>> \in R
    BY <1>2, <2>1, <2>2 DEF Places
  <2>4. At(<<i, j>>) = world.files[p][j]
    BY <1>7, <2>1 DEF LineAt, FileLines, IsEntry
  <2>5. At(<<i, j>>).key = pk
    BY <1>7, <2>4 DEF IsEntry
  <2>6. Skipped.key = None
    BY DEF Skipped
  <2>7. QED
    BY <2>1, <2>2, <2>3, <2>5, <2>6
<1>8. \A i, k \in 1 .. n : i < k => RankOf(paths[i]) < RankOf(paths[k])
  BY <1>1 DEF Ranked, n
<1> HIDE DEF R, At
<1>9. ASSUME NEW k \in DOMAIN signers, signers[k].key = pk
      PROVE  \E e \in ConsultedEntries(pk) :
                 /\ \A f \in ConsultedEntries(pk) : Ranks(e, f)
                 /\ signers[k].identity = Identity(world.files[e[1]][e[2]].name, pk)
  <2>1. DOMAIN signers = 1 .. Len(signers)
    BY <1>5 DEF Collected
  <2>2. PICK e \in R : FirstEntry(e, world, paths, R) /\ signers[k] = RecordOf(At(e))
    BY <1>5, <2>1 DEF Collected, Sourced, At
  <2>3. At(e).key = pk
    BY <1>9, <2>2 DEF RecordOf
  <2>4. /\ e = <<e[1], e[2]>> /\ e[1] \in 1 .. n /\ e[2] \in Nat
        /\ IsEntry(paths[e[1]], e[2], pk)
        /\ At(e) = world.files[paths[e[1]]][e[2]]
    BY <1>6, <2>3
  <2> DEFINE x == <<paths[e[1]], e[2]>>
  <2>5. x \in ConsultedEntries(pk)
    BY <2>4, EntryMembers
  <2>6. signers[k].identity = Identity(world.files[x[1]][x[2]].name, pk)
    BY <2>2, <2>3, <2>4 DEF RecordOf
  <2>7. ASSUME NEW f \in ConsultedEntries(pk) PROVE Ranks(x, f)
    <3>1. IsEntry(f[1], f[2], pk)
      BY EntryMembers
    <3>2. PICK i \in 1 .. n : /\ paths[i] = f[1] /\ <<i, f[2]>> \in R /\ f[2] \in Nat
                              /\ At(<<i, f[2]>>).key = pk /\ At(<<i, f[2]>>) # Skipped
      BY <1>7, <3>1
    <3>3. NotAfter(e, <<i, f[2]>>)
      BY <2>2, <2>3, <3>2 DEF FirstEntry, At
    <3>4. e[1] < i \/ (e[1] = i /\ e[2] <= f[2])
      BY <3>3 DEF NotAfter
    <3>5. CASE e[1] < i
      <4>1. RankOf(paths[e[1]]) < RankOf(paths[i])
        BY <1>8, <2>4, <3>5
      <4>2. QED
        BY <3>2, <4>1 DEF Ranks
    <3>6. CASE e[1] = i /\ e[2] <= f[2]
      BY <3>2, <3>6 DEF Ranks
    <3>7. QED
      BY <3>4, <3>5, <3>6
  <2> HIDE DEF x
  <2>8. QED
    BY <2>5, <2>6, <2>7
<1>10. ASSUME ConsultedEntries(pk) # {}
       PROVE  \E k \in DOMAIN signers : signers[k].key = pk
  <2>1. PICK f \in ConsultedEntries(pk) : TRUE
    BY <1>10
  <2>2. IsEntry(f[1], f[2], pk)
    BY EntryMembers
  <2>3. PICK i \in 1 .. n : /\ <<i, f[2]>> \in R
                            /\ At(<<i, f[2]>>).key = pk /\ At(<<i, f[2]>>) # Skipped
    BY <1>7, <2>2
  <2>4. Listing(signers, world, paths, R) /\ DOMAIN signers = 1 .. Len(signers)
    BY <1>5 DEF Collected
  <2>5. QED
    BY <2>3, <2>4 DEF Listing, At
<1>11. \A k, m \in DOMAIN signers : signers[k].key = signers[m].key => k = m
  <2>1. DOMAIN signers = 1 .. Len(signers)
    BY <1>5 DEF Collected
  <2>2. QED
    BY <1>5, <2>1, Zenon DEF Collected, OneEach
<1>12. Trusts(signers, pk)
  BY <1>9, <1>10, <1>11 DEF Trusts
<1>13. QED
  BY <1>12 DEF signers

\* The identity of the highest entry for a key.
HighestIdentity(identity, pk) ==
    \E e \in ConsultedEntries(pk) :
        /\ \A f \in ConsultedEntries(pk) : Ranks(e, f)
        /\ identity = Identity(world.files[e[1]][e[2]].name, pk)

\* What a status line says of trust is so.
TrustLine(line, pk) ==
    /\ line.tag = "GOODSIG" /\ ConsultedEntries(pk) # {} => HighestIdentity(line.identity, pk)
    /\ line.tag = "TRUST_ULTIMATE" => ConsultedEntries(pk) # {}
    /\ line.tag = "TRUST_UNDEFINED" => ConsultedEntries(pk) = {}

LEMMA AnswerTrust ==
    ASSUME WorldOK(world), NEW p, NEW digest
    PROVE  \A i \in 1 .. Len(Answer(p, digest)) : TrustLine(Answer(p, digest)[i], p.pk)
<1> DEFINE signer == verify_stream_payload(p, digest)
           signers == resolve_allowed_signers(world)
           known == {k \in DOMAIN signers : signers[k].key = signer}
           identity == IF known = {} THEN Npub(signer) ELSE signers[Min(known)].identity
           trust == IF known = {} THEN "TRUST_UNDEFINED" ELSE "TRUST_ULTIMATE"
           A == Answer(p, digest)
<1>1. A = IF signer = None
          THEN <<Plain("NEWSIG"), S("BADSIG", p.pk, Npub(p.pk))>>
          ELSE <<Plain("NEWSIG"), S("GOODSIG", signer, identity),
                 S("VALIDSIG", signer, None), Plain(trust)>>
  BY DEF Answer
<1>2. signer # None => signer = p.pk
  BY VerifyGives
<1>3. signer # None =>
          /\ known = {} <=> ConsultedEntries(p.pk) = {}
          /\ known # {} => HighestIdentity(identity, p.pk)
  <2>1. SUFFICES ASSUME signer # None
                 PROVE  /\ known = {} <=> ConsultedEntries(p.pk) = {}
                        /\ known # {} => HighestIdentity(identity, p.pk)
    OBVIOUS
  <2> DEFINE pk == p.pk
  <2>2. Trusts(signers, pk)
    BY <1>2, <2>1, ResolvedTrust
  <2>3. known = {k \in DOMAIN signers : signers[k].key = pk}
    BY <1>2, <2>1
  <2> HIDE DEF signers, signer, known, pk
  <2>4. \A k \in known : k \in DOMAIN signers /\ signers[k].key = pk
    BY <2>3
  <2>5. known = {} <=> ConsultedEntries(pk) = {}
    <3>1. known # {} => ConsultedEntries(pk) # {}
      BY <2>2, <2>4 DEF Trusts
    <3>2. ConsultedEntries(pk) # {} => known # {}
      BY <2>2, <2>3 DEF Trusts
    <3>3. QED
      BY <3>1, <3>2
  <2>6. ASSUME known # {} PROVE HighestIdentity(identity, pk)
    <3>1. PICK k \in known : TRUE
      BY <2>6
    <3>2. known = {k}
      BY <2>2, <2>4 DEF Trusts
    <3>3. k \in DOMAIN signers /\ signers[k].key = pk
      BY <2>4
    <3>4. Min({k}) = k
      BY DEF Min
    <3>5. identity = signers[k].identity
      BY <2>6, <3>2, <3>4
    <3>6. QED
      BY <2>2, <3>3, <3>5 DEF Trusts, HighestIdentity
  <2>7. QED
    BY <2>5, <2>6 DEF pk
<1> HIDE DEF A, signer, known, identity, trust
<1>4. \A tag, pk, id : S(tag, pk, id).tag = tag /\ S(tag, pk, id).identity = id
  BY DEF S
<1>5. \A tag : Plain(tag).tag = tag
  BY DEF Plain, S
<1>6. \A pk : TrustLine(Plain("NEWSIG"), pk)
  BY <1>5 DEF TrustLine
<1>7. CASE signer = None
  <2>1. /\ Len(A) = 2 /\ A[1] = Plain("NEWSIG") /\ A[2] = S("BADSIG", p.pk, Npub(p.pk))
    BY <1>1, <1>7, SeqOfTwo
  <2>2. TrustLine(S("BADSIG", p.pk, Npub(p.pk)), p.pk)
    BY <1>4 DEF TrustLine
  <2>3. \A i \in 1 .. 2 : i = 1 \/ i = 2
    OBVIOUS
  <2>4. \A i \in 1 .. Len(A) : TrustLine(A[i], p.pk)
    BY <1>6, <2>1, <2>2, <2>3
  <2>5. QED
    BY <2>4 DEF A
<1>8. CASE signer # None
  <2>1. /\ Len(A) = 4 /\ A[1] = Plain("NEWSIG") /\ A[2] = S("GOODSIG", signer, identity)
        /\ A[3] = S("VALIDSIG", signer, None) /\ A[4] = Plain(trust)
    BY <1>1, <1>8, SeqOfFour
  <2>2. TrustLine(A[2], p.pk)
    BY <1>3, <1>4, <1>8, <2>1 DEF TrustLine
  <2>3. TrustLine(A[3], p.pk)
    BY <1>4, <2>1 DEF TrustLine
  <2>4. TrustLine(A[4], p.pk)
    BY <1>3, <1>5, <1>8, <2>1 DEF TrustLine, trust
  <2>5. \A i \in 1 .. 4 : i = 1 \/ i = 2 \/ i = 3 \/ i = 4
    OBVIOUS
  <2>6. \A i \in 1 .. Len(A) : TrustLine(A[i], p.pk)
    BY <1>6, <2>1, <2>2, <2>3, <2>4, <2>5
  <2>7. QED
    BY <2>6 DEF A
<1>9. QED
  BY <1>7, <1>8

\* The world is that of the call: the shim changes nothing of it.
WorldFromCall == \E c \in Calls : world = c.world

LEMMA WorldInvariance == GitSpec => [](WorldFromCall /\ GInv)
<1>1. GitInit => WorldFromCall
  BY DEF GitInit, WorldFromCall
<1>2. WorldFromCall /\ [GitNext]_gitVars => WorldFromCall'
  <2>1. SUFFICES ASSUME [GitNext]_gitVars PROVE world' = world
    BY DEF WorldFromCall
  <2> USE DEF callVars, gitVars
  <2>2. CASE run_git_shim
    BY <2>2 DEF run_git_shim, GReadSig, GVerify, WriteStatus, StatusWritten, GCheckKeyId,
                GSign, GPrintLine, Report, Silent, LengthError
  <2>3. CASE ShimFails
    BY <2>3 DEF ShimFails, Silent
  <2>4. CASE VerifySigned
    BY <2>4 DEF VerifySigned
  <2>5. CASE UNCHANGED gitVars
    BY <2>5
  <2>6. QED
    BY <2>1, <2>2, <2>3, <2>4, <2>5 DEF GitNext
<1>3. QED
  BY <1>1, <1>2, GitInvariance, PTL DEF GitSpec

\* TRUST_ULTIMATE means that an entry of the hierarchy gives the name, the highest
\* of those that are not switched off; TRUST_UNDEFINED that there is none of them.
THEOREM TrustCorrect == GitSpec => []TrustFromHierarchy
<1>1. WorldFromCall /\ GInv => TrustFromHierarchy
  <2> SUFFICES ASSUME WorldFromCall, GInv, is_verify
               PROVE  /\ Answered("TRUST_ULTIMATE") /\ Answered("GOODSIG") =>
                             HighestIdentity(Line1("GOODSIG").identity, g_payload.pk)
                      /\ Answered("TRUST_UNDEFINED") => ConsultedEntries(g_payload.pk) = {}
    <3>1. ASSUME NEW identity, NEW pk, HighestIdentity(identity, pk)
          PROVE  \E e \in EntriesFor(pk) :
                     /\ \A f \in EntriesFor(pk) : Ranks(e, f) \/ SwitchedOff(f[1])
                     /\ identity = IdentityIn(e, pk)
      BY <3>1 DEF HighestIdentity, ConsultedEntries, IdentityIn
    <3>2. ASSUME NEW pk, ConsultedEntries(pk) = {}
          PROVE  \A e \in EntriesFor(pk) : SwitchedOff(e[1])
      BY <3>2 DEF ConsultedEntries
    <3>3. QED
      BY <3>1, <3>2 DEF TrustFromHierarchy
  <2>1. WorldOK(world)
    BY WorldAssumption DEF WorldFromCall, WorldOK
  <2> DEFINE pk == g_payload.pk
  <2>2. CASE status = << >>
    BY <2>2 DEF Answered, Tags
  <2>3. CASE status = ErrorLines
    <3>1. DOMAIN ErrorLines = {1, 2}
      BY DEF ErrorLines
    <3>2. \A i \in {1, 2} : ErrorLines[i].tag \in {"NEWSIG", "ERRSIG"}
      BY DEF ErrorLines, Plain, S
    <3>3. QED
      BY <2>3, <3>1, <3>2 DEF Answered, Tags
  <2>4. CASE Answering
    <3>1. PICK k \in 0 .. Len(TheAnswer) : status \in Seq({TheAnswer[i] : i \in 1 .. k})
      BY <2>4 DEF Answering
    <3>2. PICK A : A = TheAnswer
      OBVIOUS
    <3>3. \A i \in 1 .. Len(A) : TrustLine(A[i], pk)
      BY <2>1, <3>2, AnswerTrust DEF TheAnswer
    <3>4. Len(A) \in Nat
      BY <3>2, AnswerShape DEF TheAnswer, AnswerOK
    <3> DEFINE T == {A[i] : i \in 1 .. k}
    <3>5. \A x \in T : TrustLine(x, pk)
      BY <3>1, <3>2, <3>3, <3>4
    <3>6. status \in Seq(T)
      BY <3>1, <3>2
    <3> HIDE DEF T
    <3>7. \A j \in DOMAIN status : TrustLine(status[j], pk)
      BY <3>5, <3>6
    <3> HIDE DEF pk
    <3>8. Answered("GOODSIG") /\ ConsultedEntries(pk) # {} =>
              HighestIdentity(Line1("GOODSIG").identity, pk)
      BY <3>7 DEF Answered, Tags, Line1, TrustLine
    <3>9. Answered("TRUST_ULTIMATE") => ConsultedEntries(pk) # {}
      BY <3>7 DEF Answered, Tags, TrustLine
    <3>10. Answered("TRUST_UNDEFINED") => ConsultedEntries(pk) = {}
      BY <3>7 DEF Answered, Tags, TrustLine
    <3>11. QED
      BY <3>8, <3>9, <3>10 DEF pk
  <2>5. QED
    BY <2>2, <2>3, <2>4, Lines
<1>2. QED
  BY <1>1, WorldInvariance, PTL
=============================================================================
