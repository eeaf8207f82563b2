-------------------------- MODULE SignVerifyProofs -------------------------
(***************************************************************************)
(* Proofs about sign and verify, for all messages, keys, signature files,  *)
(* options and failures.                                                   *)
(*                                                                         *)
(* The invariant has the state of sign at each of its places (SignInv);    *)
(* that verify was not called yet (Idle), or what it has read, offered and *)
(* released at each of its places, and that a signature it holds was       *)
(* issued (VerifyInv); and, where it was given what sign wrote, that the   *)
(* outcome follows from the options alone (FaithfulInv).                   *)
(***************************************************************************)
EXTENDS SignVerify, SignatureProofs

\* r is what was read of m so far.
ReadOf(r, m) == /\ r \in Seq(Range(m))
                /\ Len(r) <= Len(m)
                /\ \A i \in 1 .. Len(r) : r[i] = m[i]

-----------------------------------------------------------------------------
(* sign                                                                    *)

GoodPayload ==
    /\ sk \in Keys /\ s_read = message
    /\ \E t \in 0 .. TS_MAX : payload = SignedPayload(TAG_SIGN, sk, message, t)
    /\ SigIssued(payload.sig, issued)

NothingOut == payload = None /\ out = << >> /\ buffered = << >>

\* What is out: while the four lines are printed, before the flush, after it.
Writing ==
    /\ buffered = << >>
    /\ IF armor THEN /\ Len(out) \in 0 .. 3
                     /\ out = SubSeq(ArmorLines(payload), 1, Len(out))
       ELSE out = << >>

Written ==
    IF armor THEN out = ArmorLines(payload) /\ buffered = << >>
    ELSE \/ out = << >> /\ buffered = Bytes(payload)
         \/ out = <<Bytes(payload)[1]>> /\ buffered = <<Bytes(payload)[2]>>
         \/ out = Bytes(payload) /\ buffered = << >>

Complete == out = IF armor THEN ArmorLines(payload) ELSE Bytes(payload)
CutShort == ~armor /\ (out = << >> \/ out = <<Bytes(payload)[1]>>)

SignInv ==
    /\ armor \in BOOLEAN /\ message \in Messages /\ sk \in Keys \cup {None}
    /\ ReadOf(s_read, message)
    /\ \A p \in Earlier : SigIssued(p.sig, issued)
    /\ \/ spc = "start" /\ sexit = Running /\ NothingOut
       \/ spc = "read" /\ sexit = Running /\ NothingOut /\ sk \in Keys
       \/ spc = "write" /\ sexit = Running /\ GoodPayload /\ Writing
       \/ spc = "flush" /\ sexit = Running /\ GoodPayload /\ Written
       \/ spc = "exit" /\ sexit = Success /\ GoodPayload /\ (Complete \/ CutShort)
       \/ /\ spc = "exit" /\ sexit \in {IoError, UsageError, Aborted}
          /\ payload = None \/ GoodPayload

-----------------------------------------------------------------------------
(* verify                                                                  *)

WithinLimit == max_size = None \/ offered <= max_size

\* The verdict on the data is success.
Accepts == /\ verify_stream_payload(v_payload, v_data) # None
           /\ expected_pub # Garbled
           /\ expected_pub \in {None, v_payload.pk}

Accepted == /\ v_read = v_data
            /\ ~PubMissing /\ WithinLimit
            /\ SigIssued(v_payload.sig, issued) /\ Accepts

Fresh == vexit = Running /\ v_read = << >> /\ emitted = 0 /\ st = "open"

Idle == /\ vpc = "idle" /\ Fresh /\ offered = 0 /\ faithful = FALSE
        /\ v_file = None /\ v_data = << >>
        /\ max_size \in MaxSizes /\ pass_through \in BOOLEAN

VerifyInv ==
    /\ v_data \in Messages /\ ReadOf(v_read, v_data)
    /\ max_size \in MaxSizes /\ pass_through \in BOOLEAN
    /\ offered = IF pass_through THEN Len(v_read) ELSE 0
    /\ FileIssued(v_file, issued)
    /\ \/ vpc = "start" /\ Fresh
       \/ vpc = "sig" /\ Fresh /\ ~PubMissing /\ v_file # None
       \/ /\ vpc = "data" /\ vexit = Running /\ emitted = 0 /\ st = "open"
          /\ ~PubMissing /\ WithinLimit /\ SigIssued(v_payload.sig, issued)
       \/ /\ vpc = "release" /\ vexit = Running /\ st = "releasing"
          /\ pass_through /\ emitted \in 0 .. offered /\ Accepted
       \/ vpc = "exit" /\ vexit = Success /\ emitted = offered /\ Accepted
       \/ /\ vpc = "exit" /\ vexit \in {AuthFailure, UsageError}
          /\ emitted \in 0 .. offered /\ (emitted > 0 => Accepted)

\* The verifier was given what sign wrote.
FaithfulInv ==
    /\ v_data = message /\ v_file = SignFile
    /\ vpc \in {"data", "release"} => v_payload = payload /\ Complete
    /\ vpc = "exit" =>
           IF PubMissing \/ (pass_through /\ ~(max_size = None \/ Len(message) <= max_size))
           THEN vexit # Success
           ELSE vexit = Success <=> expected_pub \in {None, sk} /\ Complete

SVInv == /\ SignInv
         /\ \/ Idle
            \/ sexit = Success /\ VerifyInv /\ (faithful => FaithfulInv)

-----------------------------------------------------------------------------
(* Facts about the operators.                                              *)

LEMMA ReadMore ==
    ASSUME NEW m, m \in Seq(Range(m)), NEW r, ReadOf(r, m), NEW n \in Nat, n >= 1,
           n <= Len(SubSeq(m, Len(r) + 1, Len(m)))
    PROVE  LET x == r \o SubSeq(SubSeq(m, Len(r) + 1, Len(m)), 1, n)
           IN  ReadOf(x, m) /\ Len(x) = Len(r) + n
<1> DEFINE u == SubSeq(m, Len(r) + 1, Len(m))
           v == SubSeq(u, 1, n)
           l == Len(r)
           k == Len(m)
<1>1. r \in Seq(Range(m)) /\ l \in Nat /\ k \in Nat /\ l <= k
  BY DEF ReadOf
<1>2. u \in Seq(Range(m)) /\ Len(u) = k - l /\ \A i \in 1 .. k - l : u[i] = m[l + i]
  BY <1>1
<1> HIDE DEF u
<1>3. n <= k - l
  BY <1>2 DEF u
<1> HIDE DEF l, k
<1>4. v \in Seq(Range(m)) /\ Len(v) = n /\ \A i \in 1 .. n : v[i] = u[i]
  BY <1>1, <1>2, <1>3
<1> HIDE DEF v
<1>5. \A i \in 1 .. n : v[i] = m[l + i]
  <2>1. \A i \in 1 .. n : i \in 1 .. k - l
    BY <1>1, <1>3
  <2>2. QED
    BY <2>1, <1>2, <1>4
<1>6. /\ r \o v \in Seq(Range(m)) /\ Len(r \o v) = l + n
      /\ \A i \in 1 .. l + n : (r \o v)[i] = IF i <= l THEN r[i] ELSE v[i - l]
  <2>1. PICK w \in Seq(Range(m)) : w = v
    BY <1>4
  <2>2. Len(w) = n
    BY <1>4, <2>1
  <2>3. /\ r \o w \in Seq(Range(m)) /\ Len(r \o w) = Len(r) + Len(w)
        /\ \A i \in 1 .. Len(r) + Len(w) :
               (r \o w)[i] = IF i <= Len(r) THEN r[i] ELSE w[i - Len(r)]
    BY <1>1, Concatenated
  <2>4. QED
    BY <2>1, <2>2, <2>3 DEF l
<1>7. \A i \in 1 .. l + n : (r \o v)[i] = m[i]
  <2> SUFFICES ASSUME NEW i \in 1 .. l + n PROVE (r \o v)[i] = m[i]
    OBVIOUS
  <2>1. CASE i <= l
    BY <2>1, <1>1, <1>6 DEF ReadOf, l
  <2>2. CASE ~(i <= l)
    <3>1. i - l \in 1 .. n /\ l + (i - l) = i
      BY <2>2, <1>1
    <3>2. v[i - l] = m[l + (i - l)]
      BY <3>1, <1>5
    <3>3. QED
      BY <2>2, <3>1, <3>2, <1>6
  <2>3. QED
    BY <2>1, <2>2
<1>8. l + n <= k
  BY <1>1, <1>3
<1>9. ReadOf(r \o v, m) /\ Len(r \o v) = l + n
  BY <1>6, <1>7, <1>8 DEF ReadOf, k
<1>10. QED
  BY <1>9 DEF l, v, u

LEMMA ReadAll ==
    ASSUME NEW m, m \in Seq(Range(m)), NEW r, ReadOf(r, m)
    PROVE  /\ Len(SubSeq(m, Len(r) + 1, Len(m))) = Len(m) - Len(r)
           /\ SubSeq(m, Len(r) + 1, Len(m)) = << >> => r = m
<1>1. r \in Seq(Range(m)) /\ Len(r) \in Nat /\ Len(m) \in Nat /\ Len(r) <= Len(m)
  BY DEF ReadOf
<1>2. Len(SubSeq(m, Len(r) + 1, Len(m))) = Len(m) - Len(r)
  BY <1>1
<1>3. ASSUME Len(r) = Len(m) PROVE r = m
  BY <1>1, <1>3 DEF ReadOf
<1>4. SubSeq(m, Len(r) + 1, Len(m)) = << >> => Len(m) - Len(r) = 0
  BY <1>2
<1>5. QED
  BY <1>1, <1>2, <1>3, <1>4

LEMMA ReadIsPrefix ==
    ASSUME NEW m, m \in Seq(Range(m)), NEW r, ReadOf(r, m)
    PROVE  IsPrefix(r, m)
<1>1. r \in Seq(Range(m)) /\ Len(r) \in Nat /\ Len(m) \in Nat /\ Len(r) <= Len(m)
  BY DEF ReadOf
<1>2. SubSeq(r, 1, Len(r)) = SubSeq(m, 1, Len(r))
  BY <1>1 DEF ReadOf
<1>3. QED
  BY <1>1, <1>2 DEF IsPrefix

\* No alteration touches the signature itself.
LEMMA AlteredSig ==
    ASSUME NEW tag, NEW k, NEW digest, NEW t,
           NEW a \in Alterations(SignedPayload(tag, k, digest, t))
    PROVE  a.sig = SignedPayload(tag, k, digest, t).sig
  BY DEF Alterations, SignedPayload

LEMMA ShapesIssued ==
    ASSUME NEW a, NEW facts, SigIssued(a.sig, facts), NEW file \in Shapes(a)
    PROVE  FileIssued(file, facts)
<1>1. Detach(file).bytes = Bytes(a)
  BY DetachBinary, DetachArmor DEF Shapes
<1>2. QED
  BY <1>1, PayloadOfBytes DEF FileIssued

LEMMA DamagedIssued ==
    ASSUME NEW tag, NEW k, NEW digest, NEW t, NEW q, NEW facts,
           SigIssued(SignedPayload(tag, k, digest, t).sig, facts),
           NEW file \in Damaged(SignedPayload(tag, k, digest, t), q)
    PROVE  FileIssued(file, facts)
<1> DEFINE p == SignedPayload(tag, k, digest, t)
<1>1. CASE file = BinaryFile(<<Bytes(p)[1]>>)
  <2>1. Detach(file).bytes = <<Bytes(p)[1]>>
    BY <1>1, DetachBinary
  <2>2. Len(Detach(file).bytes) = 1
    BY <2>1
  <2>3. QED
    BY <2>2 DEF FileIssued, SIGNATURE_PAYLOAD_SIZE
<1>2. CASE file = TextFile(<<Base64(Bytes(p))>>)
  <2>1. Detach(file).bytes = << >>
    BY <1>2, DetachBare
  <2>2. Len(Detach(file).bytes) = 0
    BY <2>1
  <2>3. QED
    BY <2>2 DEF FileIssued, SIGNATURE_PAYLOAD_SIZE
<1>3. CASE file = TextFile(<<Begin, Junk, End>>)
  BY <1>3, DetachJunk DEF FileIssued
<1>4. CASE file = BinaryFile(<<Bytes(p)[1], Bytes(q)[2]>>)
  <2> DEFINE b == <<Bytes(p)[1], Bytes(q)[2]>>
  <2>1. Detach(file).bytes = b
    BY <1>4, DetachBinary
  <2>2. b[1].of = p
    BY BytesType
  <2>3. p.sig = [p EXCEPT !.known = FALSE].sig
    BY DEF SignedPayload
  <2> HIDE DEF p, b
  <2>4. Payload(b).sig = p.sig
    BY <2>2, <2>3 DEF Payload
  <2>5. QED
    BY <2>1, <2>4 DEF FileIssued, p
<1>5. QED
  BY <1>1, <1>2, <1>3, <1>4 DEF Damaged

-----------------------------------------------------------------------------
(* sign                                                                    *)

LEMMA SVInitInv == SVInit => SVInv
<1> SUFFICES ASSUME SVInit PROVE SVInv
  OBVIOUS
<1>1. ReadOf(s_read, message)
  <2>1. s_read = << >> /\ message \in Seq(Range(message))
    BY MessagesAssumption DEF SVInit, SignInit
  <2>2. QED
    BY <2>1 DEF ReadOf
<1>2. \A p \in Earlier : SigIssued(p.sig, issued)
  <2> SUFFICES ASSUME NEW p \in Earlier PROVE SigIssued(p.sig, issued)
    OBVIOUS
  <2>1. PICK k, t : p = SignedPayload(p.sig.hash.tag, k, p.sig.hash.msg[2], t)
    BY EarlierAssumption
  <2>2. CASE p.sig.hash.tag = TAG_AUTH
    BY <2>2 DEF SigIssued, AcceptedTags, TAG_AUTH, TAG_SIGN, TAG_SIGN_LEGACY
  <2>3. CASE p.sig.hash.tag # TAG_AUTH
    <3>1. Fact(p, p.sig.hash.msg[2]) \in issued
      BY <2>3 DEF SVInit
    <3>2. QED
      BY <2>1, <3>1, SignedSig
  <2>4. QED
    BY <2>2, <2>3
<1>3. SignInv
  BY <1>1, <1>2 DEF SVInit, SignInit, SignInv, NothingOut
<1>4. Idle
  BY DEF SVInit, VerifyInit, Idle, Fresh, Spooler!Init
<1>5. QED
  BY <1>3, <1>4 DEF SVInv

\* A step of sign that leaves all but its output alone keeps the payload.
LEMMA PayloadKept ==
    ASSUME GoodPayload, UNCHANGED <<sk, message, s_read, payload, issued>>
    PROVE  GoodPayload'
  BY DEF GoodPayload, SigIssued

LEMMA MakePayloadStep ==
    ASSUME SignInv, SMakePayload, issued' = issued \cup {Fact(payload', s_read)}
    PROVE  SignInv'
<1>1. s_read = message
  BY MessagesAssumption, ReadAll DEF SignInv, SMakePayload, AtEof, SUnread
<1>2. PICK now \in Clocks : payload' = SignedPayload(TAG_SIGN, sk, message, Timestamp(now))
  BY <1>1 DEF SMakePayload, sign_stream_payload
<1>3. Timestamp(now) \in 0 .. TS_MAX
  <2>1. now \in Nat /\ TS_MAX \in Nat
    BY SignAssumption
  <2>2. QED
    BY <2>1 DEF Timestamp
<1>4. UNCHANGED <<armor, sk, message, s_read, out, buffered, sexit>> /\ spc = "read" /\ spc' = "write"
  BY DEF SMakePayload
<1>5. sk \in Keys /\ sexit = Running /\ out = << >> /\ buffered = << >>
  BY <1>4 DEF SignInv, NothingOut
<1>6. SigIssued(payload'.sig, issued')
  <2>1. Fact(payload', message) \in issued'
    BY <1>1
  <2>2. QED
    BY <1>2, <2>1, SignedSig
<1>7. GoodPayload'
  BY <1>1, <1>2, <1>3, <1>4, <1>5, <1>6 DEF GoodPayload
<1>8. Writing'
  <2>1. Len(<< >>) \in 0 .. 3
    OBVIOUS
  <2>2. << >> = SubSeq(ArmorLines(payload'), 1, Len(<< >>))
    BY DEF ArmorLines
  <2>3. QED
    BY <1>4, <1>5, <2>1, <2>2 DEF Writing
<1>9. \A p \in Earlier : SigIssued(p.sig, issued')
  <2>1. issued \subseteq issued'
    OBVIOUS
  <2>2. QED
    BY <2>1, MoreIssued DEF SignInv
<1>10. ReadOf(s_read, message)' /\ (armor \in BOOLEAN)' /\ (message \in Messages)'
  BY <1>4 DEF SignInv, ReadOf
<1>11. QED
  BY <1>4, <1>5, <1>7, <1>8, <1>9, <1>10 DEF SignInv

\* The rest of what sign does.
SignRest == SLoadKey \/ SRead \/ SPrintLine \/ SWrite \/ SFlush \/ SignFails

LEMMA SignRestStep ==
    ASSUME SignInv, SignRest, issued' = issued
    PROVE  SignInv'
<1>1. \A p \in Earlier : SigIssued(p.sig, issued')
  BY DEF SignInv
<1>2. UNCHANGED <<armor, message>>
  BY DEF SignRest, SLoadKey, SRead, SPrintLine, SWrite, SFlush, SignFails
<1>3. CASE SLoadKey
  BY <1>1, <1>3 DEF SignInv, SLoadKey, NothingOut, ReadOf
<1>4. CASE SRead
  <2>1. ReadOf(s_read', message)
    <3>1. PICK n \in 1 .. CHUNK_SIZE :
              n <= Len(SUnread) /\ s_read' = s_read \o SubSeq(SUnread, 1, n)
      BY <1>4 DEF SRead
    <3>2. n \in Nat /\ n >= 1
      BY ReadAssumption
    <3>3. message \in Seq(Range(message)) /\ ReadOf(s_read, message)
      BY MessagesAssumption DEF SignInv
    <3>4. QED
      BY <3>1, <3>2, <3>3, ReadMore DEF SUnread
  <2>2. QED
    BY <1>1, <1>4, <2>1 DEF SignInv, SRead, NothingOut, ReadOf
<1> SUFFICES ASSUME SPrintLine \/ SWrite \/ SFlush \/ SignFails PROVE SignInv'
  BY <1>3, <1>4 DEF SignRest
<1>5. UNCHANGED <<sk, s_read, payload>>
  BY DEF SPrintLine, SWrite, SFlush, SignFails
<1>6. /\ (armor \in BOOLEAN)' /\ (message \in Messages)' /\ (sk \in Keys \cup {None})'
      /\ ReadOf(s_read, message)'
  BY <1>2, <1>5 DEF SignInv, ReadOf
<1>7. GoodPayload => GoodPayload'
  BY <1>2, <1>5, PayloadKept
<1>8. CASE SPrintLine
  <2>1. GoodPayload /\ Writing /\ armor /\ sexit = Running
    BY <1>8 DEF SignInv, SPrintLine
  <2>2. PICK p : p = payload
    OBVIOUS
  <2>3. Len(out) \in 0 .. 3 /\ out = SubSeq(ArmorLines(p), 1, Len(out)) /\ buffered = << >>
    BY <2>1, <2>2 DEF Writing
  <2>4. out' = Append(out, ArmorLines(p)[Len(out) + 1])
    BY <1>8, <2>2 DEF SPrintLine
  <2>5. /\ Len(ArmorLines(p)) = 4 /\ Len(out') \in 1 .. 4
        /\ out' = SubSeq(ArmorLines(p), 1, Len(out'))
        /\ Len(out') = 4 => out' = ArmorLines(p)
    BY <2>3, <2>4, ArmorGrows
  <2>6. payload' = p /\ buffered' = << >> /\ armor' /\ sexit' = Running
    BY <1>2, <1>5, <1>8, <2>1, <2>2, <2>3 DEF SPrintLine
  <2>7. CASE Len(out') = 4
    <3>1. Written'
      BY <2>5, <2>6, <2>7 DEF Written
    <3>2. spc' = "flush"
      BY <1>8, <2>2, <2>5, <2>7 DEF SPrintLine
    <3>3. QED
      BY <1>1, <1>6, <1>7, <2>1, <2>6, <3>1, <3>2 DEF SignInv
  <2>8. CASE Len(out') # 4
    <3>1. Len(out') \in 0 .. 3
      BY <2>5, <2>8
    <3>2. Writing'
      BY <2>5, <2>6, <3>1 DEF Writing
    <3>3. spc' = "write"
      BY <1>8, <2>2, <2>5, <2>8 DEF SPrintLine
    <3>4. QED
      BY <1>1, <1>6, <1>7, <2>1, <2>6, <3>2, <3>3 DEF SignInv
  <2>9. QED
    BY <2>7, <2>8
<1>9. CASE SWrite
  <2>1. GoodPayload /\ ~armor /\ sexit = Running
    BY <1>9 DEF SignInv, SWrite
  <2>2. PICK p : p = payload
    OBVIOUS
  <2>3. PICK n \in 0 .. 2 : out' = SubSeq(Bytes(p), 1, n) /\ buffered' = SubSeq(Bytes(p), n + 1, 2)
    BY <1>9, <2>2 DEF SWrite, SIGNATURE_PAYLOAD_SIZE
  <2>4. \/ out' = << >> /\ buffered' = Bytes(p)
        \/ out' = <<Bytes(p)[1]>> /\ buffered' = <<Bytes(p)[2]>>
        \/ out' = Bytes(p) /\ buffered' = << >>
    <3>1. /\ SubSeq(Bytes(p), 1, 0) = << >> /\ SubSeq(Bytes(p), 1, 1) = <<Bytes(p)[1]>>
          /\ SubSeq(Bytes(p), 1, 2) = Bytes(p) /\ SubSeq(Bytes(p), 2, 2) = <<Bytes(p)[2]>>
          /\ SubSeq(Bytes(p), 3, 2) = << >>
      BY Halves
    <3>2. n = 0 \/ n = 1 \/ n = 2
      OBVIOUS
    <3>3. QED
      BY <2>3, <3>1, <3>2
  <2>5. payload' = p /\ ~armor' /\ sexit' = Running /\ spc' = "flush"
    BY <1>2, <1>5, <1>9, <2>1, <2>2 DEF SWrite
  <2>6. Written'
    BY <2>4, <2>5 DEF Written
  <2>7. QED
    BY <1>1, <1>6, <1>7, <2>1, <2>5, <2>6 DEF SignInv
<1>10. CASE SFlush
  <2>1. GoodPayload /\ Written
    BY <1>10 DEF SignInv, SFlush
  <2>2. PICK p : p = payload
    OBVIOUS
  <2>3. out' = out \o buffered
    BY <1>10 DEF SFlush
  <2>4. out' = IF armor THEN ArmorLines(p) ELSE Bytes(p)
    <3>1. CASE armor
      <4>1. out = ArmorLines(p) /\ buffered = << >>
        BY <2>1, <2>2, <3>1 DEF Written
      <4>2. ArmorLines(p) \o << >> = ArmorLines(p)
        BY DEF ArmorLines
      <4>3. QED
        BY <4>1, <4>2, <3>1, <2>3
    <3>2. CASE ~armor
      <4>1. \/ out = << >> /\ buffered = Bytes(p)
            \/ out = <<Bytes(p)[1]>> /\ buffered = <<Bytes(p)[2]>>
            \/ out = Bytes(p) /\ buffered = << >>
        BY <2>1, <2>2, <3>2 DEF Written
      <4>2. /\ << >> \o Bytes(p) = Bytes(p) /\ Bytes(p) \o << >> = Bytes(p)
            /\ <<Bytes(p)[1]>> \o <<Bytes(p)[2]>> = Bytes(p)
        BY Halves
      <4>3. QED
        BY <4>1, <4>2, <3>2, <2>3
    <3>3. QED
      BY <3>1, <3>2
  <2>5. payload' = p /\ spc' = "exit" /\ sexit' = Success
    BY <1>5, <1>10, <2>2 DEF SFlush, SExit
  <2>6. Complete'
    BY <1>2, <2>4, <2>5 DEF Complete
  <2>7. QED
    BY <1>1, <1>6, <1>7, <2>1, <2>5, <2>6 DEF SignInv
<1>11. CASE SignFails
  <2>1. CASE spc # "flush"
    <3>1. spc' = "exit" /\ sexit' \in {IoError, UsageError, Aborted}
      BY <1>11, <2>1 DEF SignFails, SExit, PrintFails
    <3>2. payload = None \/ GoodPayload
      BY <1>11, <2>1 DEF SignInv, NothingOut, SignFails, PrintFails
    <3>3. (payload = None \/ GoodPayload)'
      BY <3>2, <1>5, <1>7
    <3>4. QED
      BY <1>1, <1>6, <3>1, <3>3 DEF SignInv
  <2>2. CASE spc = "flush"
    <3>1. /\ spc' = "exit" /\ sexit' = Success
          /\ buffered # << >> /\ out' # Bytes(payload)
          /\ out' = out \/ out' = Append(out, buffered[1])
      BY <1>11, <2>2 DEF SignFails, SExit, PrintFails
    <3>2. GoodPayload /\ Written
      BY <2>2 DEF SignInv
    <3>3. PICK p : p = payload
      OBVIOUS
    <3>4. ~armor
      BY <3>1, <3>2 DEF Written
    <3>5. \/ out = << >> /\ buffered = Bytes(p)
          \/ out = <<Bytes(p)[1]>> /\ buffered = <<Bytes(p)[2]>>
      BY <3>1, <3>2, <3>3, <3>4 DEF Written
    <3>6. Append(<< >>, Bytes(p)[1]) = <<Bytes(p)[1]>>
      OBVIOUS
    <3>7. Append(<<Bytes(p)[1]>>, <<Bytes(p)[2]>>[1]) = Bytes(p)
      <4>1. PICK x : x = Bytes(p)[2]
        OBVIOUS
      <4>2. <<x>>[1] = x
        OBVIOUS
      <4>3. Append(<<Bytes(p)[1]>>, Bytes(p)[2]) = Bytes(p)
        BY Halves
      <4>4. QED
        BY <4>1, <4>2, <4>3
    <3>8. out' = << >> \/ out' = <<Bytes(p)[1]>>
      BY <3>1, <3>3, <3>5, <3>6, <3>7
    <3>9. CutShort'
      BY <3>8, <3>3, <3>4, <1>2, <1>5 DEF CutShort
    <3>10. QED
      BY <1>1, <1>6, <1>7, <3>1, <3>2, <3>9 DEF SignInv
  <2>3. QED
    BY <2>1, <2>2
<1>12. QED
  BY <1>8, <1>9, <1>10, <1>11

-----------------------------------------------------------------------------
(* The call                                                                *)

\* The file that a sign leaves that exited with success.
LEMMA SignFileFacts ==
    ASSUME SignInv, sexit = Success
    PROVE  /\ GoodPayload /\ SignFile # None /\ FileIssued(SignFile, issued)
           /\ Detach(SignFile).ok
           /\ Complete => Detach(SignFile).bytes = Bytes(payload)
           /\ ~Complete => Len(Detach(SignFile).bytes) # 2
<1>1. GoodPayload /\ (Complete \/ CutShort)
  BY DEF SignInv, Success, Running, IoError, UsageError, Aborted
<1>2. PICK t \in 0 .. TS_MAX : payload = SignedPayload(TAG_SIGN, sk, message, t)
  BY <1>1 DEF GoodPayload
<1>3. sk \in Keys /\ message \in Messages
  BY <1>1 DEF GoodPayload, SignInv
<1>4. None \notin {TextFile(ArmorLines(payload)), BinaryFile(Bytes(payload)),
                   BinaryFile(<<Bytes(payload)[1]>>), BinaryFile(<< >>)}
  BY <1>2, <1>3, NoFileAssumption
<1>5. SigIssued(payload.sig, issued)
  BY <1>1 DEF GoodPayload
<1>6. CASE Complete
  <2>1. SignFile \in {TextFile(ArmorLines(payload)), BinaryFile(Bytes(payload))}
    BY <1>6 DEF Complete, SignFile
  <2>2. Detach(SignFile) = [ok |-> TRUE, bytes |-> Bytes(payload)]
    BY <2>1, DetachArmor, DetachBinary
  <2>3. FileIssued(SignFile, issued)
    <3>1. SignFile \in Shapes(payload)
      BY <2>1 DEF Shapes
    <3>2. QED
      BY <3>1, <1>5, ShapesIssued
  <2>4. QED
    BY <1>1, <1>4, <1>6, <2>1, <2>2, <2>3
<1>7. CASE ~Complete
  <2>1. ~armor /\ (out = << >> \/ out = <<Bytes(payload)[1]>>)
    BY <1>1, <1>7 DEF CutShort
  <2>2. SignFile = BinaryFile(out)
    BY <2>1 DEF SignFile
  <2>3. Detach(SignFile) = [ok |-> TRUE, bytes |-> out]
    BY <2>2, DetachBinary
  <2>4. Len(out) # 2
    BY <2>1
  <2>5. FileIssued(SignFile, issued)
    BY <2>3, <2>4 DEF FileIssued, SIGNATURE_PAYLOAD_SIZE
  <2>6. QED
    BY <1>1, <1>4, <1>7, <2>1, <2>2, <2>3, <2>4, <2>5
<1>8. QED
  BY <1>6, <1>7

\* Every file that the verifier may be given.
LEMMA ShapedIssued ==
    ASSUME NEW made, NEW facts, NEW file \in Shaped(made),
           \A p \in made : /\ SigIssued(p.sig, facts)
                           /\ \E tag, k, d, t : p = SignedPayload(tag, k, d, t)
    PROVE  FileIssued(file, facts)
<1>1. PICK p \in made : \E a \in Alterations(p) : file \in Shapes(a)
  BY DEF Shaped
<1> PICK a \in Alterations(p) : file \in Shapes(a)
  BY <1>1
<1>2. PICK tag, k, d, t : p = SignedPayload(tag, k, d, t)
  OBVIOUS
<1>3. a.sig = p.sig
  BY <1>1, <1>2, AlteredSig
<1>4. QED
  BY <1>1, <1>3, ShapesIssued

LEMMA AnyFileIssued ==
    ASSUME SignInv, sexit = Success,
           NEW file \in OtherFiles \cup Shaped({payload})
                            \cup UNION {Damaged(payload, q) : q \in Earlier}
    PROVE  FileIssued(file, issued)
<1>1. \A p \in Earlier : SigIssued(p.sig, issued)
  BY DEF SignInv
<1>2. \A p \in Earlier : \E tag, k, d, t : p = SignedPayload(tag, k, d, t)
  BY EarlierAssumption
<1>3. SigIssued(payload.sig, issued) /\ \E tag, k, d, t : payload = SignedPayload(tag, k, d, t)
  BY SignFileFacts DEF GoodPayload
<1>4. CASE file = None
  BY <1>4 DEF FileIssued
<1>5. CASE file \in Shaped(Earlier)
  BY <1>1, <1>2, <1>5, ShapedIssued
<1>6. CASE file \in Shaped({payload})
  BY <1>3, <1>6, ShapedIssued
<1>7. ASSUME NEW p \in Earlier, NEW q \in Earlier, file \in Damaged(p, q)
      PROVE  FileIssued(file, issued)
  <2>1. PICK tag, k, d, t : p = SignedPayload(tag, k, d, t)
    BY <1>2
  <2>2. QED
    BY <2>1, <1>1, <1>7, DamagedIssued
<1>8. ASSUME NEW q \in Earlier, file \in Damaged(payload, q)
      PROVE  FileIssued(file, issued)
  <2>1. PICK tag, k, d, t : payload = SignedPayload(tag, k, d, t)
    BY <1>3
  <2>2. QED
    BY <2>1, <1>3, <1>8, DamagedIssued
<1>9. QED
  BY <1>4, <1>5, <1>6, <1>7, <1>8 DEF OtherFiles

LEMMA CallStep ==
    ASSUME SVInv, CallFaithful \/ CallAnything
    PROVE  VerifyInv' /\ (faithful => FaithfulInv)' /\ sexit' = Success
<1>1. /\ vpc = "idle" /\ sexit = Success /\ vpc' = "start"
      /\ UNCHANGED <<signVars, expected_pub, pass_through, v_read, v_payload, vexit,
                     vSpoolVars, issued>>
  BY DEF CallFaithful, CallAnything, Call
<1>2. Idle /\ SignInv
  BY <1>1 DEF SVInv, VerifyInv
<1>3. v_data' \in Messages
  BY <1>2 DEF CallFaithful, CallAnything, SignInv
<1>4. FileIssued(v_file', issued)
  <2>1. CASE CallFaithful
    BY <2>1, <1>1, <1>2, SignFileFacts DEF CallFaithful
  <2>2. CASE CallAnything
    <3>1. PICK file : file = v_file'
      OBVIOUS
    <3>2. file \in OtherFiles \cup Shaped({payload})
                     \cup UNION {Damaged(payload, q) : q \in Earlier}
      BY <2>2, <3>1 DEF CallAnything
    <3>3. FileIssued(file, issued)
      BY <3>2, <1>1, <1>2, AnyFileIssued
    <3>4. QED
      BY <3>1, <3>3
  <2>3. QED
    BY <2>1, <2>2
<1>5. ReadOf(v_read, v_data)'
  <2>1. v_read' = << >> /\ v_data' \in Seq(Range(v_data'))
    BY <1>1, <1>2, <1>3, MessagesAssumption DEF Idle, Fresh
  <2>2. QED
    BY <2>1 DEF ReadOf
<1>6. offered' = IF pass_through' THEN Len(v_read') ELSE 0
  <2>1. v_read' = << >> /\ offered' = 0
    BY <1>1, <1>2 DEF Idle, Fresh, vSpoolVars
  <2>2. QED
    BY <2>1
<1>7. VerifyInv'
  <2>1. FileIssued(v_file, issued)'
    BY <1>1, <1>4 DEF FileIssued, SigIssued
  <2>2. QED
    BY <1>1, <1>2, <1>3, <1>5, <1>6, <2>1 DEF VerifyInv, Idle, Fresh, vSpoolVars
<1>8. ASSUME faithful' PROVE FaithfulInv'
  <2>1. CallFaithful
    BY <1>2, <1>8 DEF CallAnything, Idle
  <2>2. v_file' = SignFile' /\ v_data' = message'
    BY <2>1, <1>1 DEF CallFaithful, SignFile, signVars
  <2>3. QED
    BY <2>2, <1>1 DEF FaithfulInv
<1>9. QED
  BY <1>1, <1>7, <1>8 DEF signVars

-----------------------------------------------------------------------------
(* verify                                                                  *)

\* What no step of verify touches.
Given == <<expected_pub, pass_through, v_file, v_data, max_size>>

LEMMA GivenKept ==
    ASSUME verify \/ VerifyFails
    PROVE  UNCHANGED Given
  BY DEF verify, VerifyFails, VOptions, VReadSig, VReadData, VVerdict, VRelease, VLeave,
         Given, vOptVars, vSpoolVars, Spooler!Commit, Spooler!Emit, Spooler!Finish,
         Spooler!Fail

LEMMA VerdictSuccess ==
    ASSUME v_read = v_data
    PROVE  /\ Verdict(v_read) = Success <=> Accepts
           /\ Verdict(v_read) \in {Success, AuthFailure, UsageError}
<1> DEFINE signer == verify_stream_payload(v_payload, v_data)
<1>1. signer # None => signer = v_payload.pk
  BY VerifyGives
<1>2. Verdict(v_read) = IF signer = None THEN AuthFailure
                        ELSE IF expected_pub = Garbled THEN UsageError
                        ELSE IF expected_pub \notin {None, signer} THEN AuthFailure
                        ELSE Success
  BY DEF Verdict
<1>3. Accepts <=> /\ signer # None /\ expected_pub # Garbled
                  /\ expected_pub \in {None, v_payload.pk}
  BY DEF Accepts
<1> HIDE DEF signer
<1>4. QED
  BY <1>1, <1>2, <1>3 DEF Success, AuthFailure, UsageError

LEMMA ReadDataStep ==
    ASSUME VerifyInv, VReadData
    PROVE  /\ ReadOf(v_read', v_data)
           /\ Len(v_read') \in Nat /\ Len(v_read') <= Len(v_data)
           /\ offered' = IF pass_through THEN Len(v_read') ELSE 0
<1>1. PICK n \in 1 .. CHUNK_SIZE :
          /\ n <= Len(VUnread)
          /\ v_read' = v_read \o SubSeq(VUnread, 1, n)
          /\ offered' = offered + (IF pass_through THEN n ELSE 0)
  BY DEF VReadData
<1>2. n \in Nat /\ n >= 1
  BY ReadAssumption
<1>3. v_data \in Seq(Range(v_data)) /\ ReadOf(v_read, v_data)
  BY MessagesAssumption DEF VerifyInv
<1>4. ReadOf(v_read', v_data) /\ Len(v_read') = Len(v_read) + n
  BY <1>1, <1>2, <1>3, ReadMore DEF VUnread
<1>5. Len(v_read) \in Nat /\ Len(v_read') \in Nat /\ Len(v_read') <= Len(v_data)
  BY <1>3, <1>4 DEF ReadOf
<1>6. offered = IF pass_through THEN Len(v_read) ELSE 0
  BY DEF VerifyInv
<1>7. QED
  BY <1>1, <1>2, <1>4, <1>5, <1>6

\* Before the data were read to their end, and after it.
LEMMA VerifyTypes ==
    ASSUME VerifyInv
    PROVE  /\ v_data \in Seq(Range(v_data)) /\ ReadOf(v_read, v_data)
           /\ Len(v_read) \in Nat /\ Len(v_data) \in Nat /\ Len(v_read) <= Len(v_data)
           /\ offered \in Nat
           /\ VUnread = << >> => v_read = v_data
<1>1. v_data \in Seq(Range(v_data)) /\ ReadOf(v_read, v_data)
  BY MessagesAssumption DEF VerifyInv
<1>2. Len(v_read) \in Nat /\ Len(v_data) \in Nat /\ Len(v_read) <= Len(v_data)
  BY <1>1 DEF ReadOf
<1>3. offered \in Nat
  BY <1>2 DEF VerifyInv
<1>4. VUnread = << >> => v_read = v_data
  BY <1>1, ReadAll DEF VUnread
<1>5. QED
  BY <1>1, <1>2, <1>3, <1>4

\* Accepted depends on these alone.
LEMMA AcceptedKept ==
    ASSUME Accepted, UNCHANGED Given, UNCHANGED <<v_read, v_payload, offered, issued>>
    PROVE  Accepted'
  BY DEF Accepted, Given, PubMissing, WithinLimit, SigIssued, Accepts,
         verify_stream_payload

LEMMA VerifyStep ==
    ASSUME VerifyInv, verify \/ VerifyFails, issued' = issued
    PROVE  VerifyInv'
<1>1. UNCHANGED Given
  BY GivenKept
<1>2. /\ (v_data \in Messages)' /\ (max_size \in MaxSizes)' /\ (pass_through \in BOOLEAN)'
      /\ FileIssued(v_file, issued)'
  BY <1>1 DEF VerifyInv, Given, FileIssued, SigIssued
<1>3. UNCHANGED <<v_read, offered>> =>
          /\ ReadOf(v_read, v_data)'
          /\ offered' = IF pass_through' THEN Len(v_read') ELSE 0
  BY <1>1 DEF VerifyInv, Given, ReadOf
<1>4. offered \in Nat
  BY VerifyTypes
<1>5. ASSUME NEW code, VLeave(code), code \in {AuthFailure, UsageError}, emitted = 0
      PROVE  VerifyInv'
  <2>1. /\ UNCHANGED <<v_read, offered, emitted>> /\ vpc' = "exit"
        /\ vexit' \in {AuthFailure, UsageError}
    BY <1>5 DEF VLeave, VExit
  <2>2. emitted' \in 0 .. offered' /\ ~(emitted' > 0)
    BY <1>4, <1>5, <2>1
  <2>3. QED
    BY <1>2, <1>3, <2>1, <2>2 DEF VerifyInv
<1>6. WireCorruption = AuthFailure /\ IoError = AuthFailure
  BY DEF WireCorruption, AuthFailure, IoError
<1>7. CASE VOptions
  <2>1. vpc = "start" /\ Fresh
    BY <1>7 DEF VOptions, VerifyInv
  <2>2. CASE PubMissing \/ v_file = None
    BY <1>5, <1>7, <2>1, <2>2 DEF VOptions, Fresh
  <2>3. CASE ~(PubMissing \/ v_file = None)
    <3>1. vpc' = "sig" /\ UNCHANGED <<v_read, v_payload, vexit, offered, emitted, st>>
      BY <1>7, <2>3 DEF VOptions, vSpoolVars
    <3>2. Fresh' /\ ~PubMissing' /\ v_file' # None
      BY <1>1, <2>1, <2>3, <3>1 DEF Fresh, PubMissing, Given
    <3>3. QED
      BY <1>2, <1>3, <3>1, <3>2 DEF VerifyInv
  <2>4. QED
    BY <2>2, <2>3
<1>8. CASE VReadSig
  <2>1. vpc = "sig" /\ Fresh /\ ~PubMissing /\ v_file # None
    BY <1>8 DEF VReadSig, VerifyInv
  <2>2. PICK d : d = Detach(v_file)
    OBVIOUS
  <2>3. CASE d.ok /\ Len(d.bytes) = SIGNATURE_PAYLOAD_SIZE
    <3>1. /\ v_payload' = Payload(d.bytes) /\ vpc' = "data"
          /\ UNCHANGED <<v_read, vexit, offered, emitted, st>>
      BY <1>8, <2>2, <2>3 DEF VReadSig, vSpoolVars
    <3>2. SigIssued(Payload(d.bytes).sig, issued)
      BY <2>1, <2>2, <2>3 DEF VerifyInv, FileIssued
    <3>3. SigIssued(v_payload.sig, issued)'
      BY <3>1, <3>2 DEF SigIssued
    <3>4. offered' = 0
      <4>1. v_read = << >>
        BY <2>1 DEF Fresh
      <4>2. Len(v_read) = 0
        BY <4>1
      <4>3. QED
        BY <3>1, <4>2 DEF VerifyInv
    <3>5. WithinLimit' /\ ~PubMissing'
      BY <1>1, <2>1, <3>4, MaxSizesAssumption DEF WithinLimit, PubMissing, Given, VerifyInv
    <3>6. QED
      BY <1>2, <1>3, <2>1, <3>1, <3>3, <3>5 DEF VerifyInv, Fresh
  <2>4. CASE ~(d.ok /\ Len(d.bytes) = SIGNATURE_PAYLOAD_SIZE)
    <3>1. VLeave(WireCorruption)
      BY <1>8, <2>2, <2>4 DEF VReadSig
    <3>2. QED
      BY <1>5, <1>6, <2>1, <3>1 DEF Fresh
  <2>5. QED
    BY <2>3, <2>4
<1>9. CASE VReadData
  <2>1. /\ vpc = "data" /\ vexit = Running /\ emitted = 0 /\ st = "open"
        /\ ~PubMissing /\ SigIssued(v_payload.sig, issued)
    BY <1>9 DEF VReadData, VerifyInv
  <2>2. ReadOf(v_read, v_data)' /\ offered' = IF pass_through' THEN Len(v_read') ELSE 0
    BY <1>1, <1>9, ReadDataStep DEF Given, ReadOf
  <2>3. offered' \in Nat
    BY <1>9, ReadDataStep
  <2>4. UNCHANGED <<v_payload, emitted>>
    BY <1>9 DEF VReadData
  <2>5. CASE Spooler!Within(offered')
    <3>1. UNCHANGED <<vpc, vexit, st>>
      BY <1>9, <2>5 DEF VReadData
    <3>2. WithinLimit' /\ ~PubMissing' /\ SigIssued(v_payload.sig, issued)'
      BY <1>1, <2>1, <2>4, <2>5 DEF WithinLimit, PubMissing, Given, Spooler!Within, SigIssued
    <3>3. QED
      BY <1>2, <2>1, <2>2, <2>4, <3>1, <3>2 DEF VerifyInv
  <2>6. CASE ~Spooler!Within(offered')
    <3>1. vpc' = "exit" /\ vexit' = UsageError
      BY <1>9, <2>6 DEF VReadData, VExit
    <3>2. emitted' \in 0 .. offered' /\ ~(emitted' > 0)
      BY <2>1, <2>3, <2>4
    <3>3. QED
      BY <1>2, <2>2, <3>1, <3>2 DEF VerifyInv
  <2>7. QED
    BY <2>5, <2>6
<1>10. CASE VVerdict
  <2>1. /\ vpc = "data" /\ vexit = Running /\ emitted = 0 /\ st = "open"
        /\ ~PubMissing /\ WithinLimit /\ SigIssued(v_payload.sig, issued)
    BY <1>10 DEF VVerdict, VerifyInv
  <2>2. v_read = v_data
    BY <1>10, VerifyTypes DEF VVerdict
  <2>3. PICK v : v = Verdict(v_read)
    OBVIOUS
  <2>4. (v = Success <=> Accepts) /\ v \in {Success, AuthFailure, UsageError}
    BY <2>2, <2>3, VerdictSuccess
  <2>5. v = Success => Accepted
    BY <2>1, <2>2, <2>4 DEF Accepted
  <2>6. CASE v = Success /\ pass_through
    <3>1. vpc' = "release" /\ UNCHANGED <<v_read, v_payload, vexit>> /\ Spooler!Commit
      BY <1>10, <2>3, <2>6 DEF VVerdict
    <3>2. UNCHANGED <<offered, emitted>> /\ st' = "releasing"
      BY <3>1 DEF Spooler!Commit
    <3>3. Accepted'
      BY <1>1, <2>5, <2>6, <3>1, <3>2, AcceptedKept
    <3>4. emitted' \in 0 .. offered' /\ pass_through'
      BY <1>1, <1>4, <2>1, <2>6, <3>2 DEF Given
    <3>5. QED
      BY <1>2, <1>3, <2>1, <3>1, <3>2, <3>3, <3>4 DEF VerifyInv
  <2>7. CASE v = Success /\ ~pass_through
    <3>1. VLeave(Success)
      BY <1>10, <2>3, <2>7 DEF VVerdict
    <3>2. /\ UNCHANGED <<v_read, v_payload, offered, emitted>> /\ vpc' = "exit"
          /\ vexit' = Success
      BY <3>1 DEF VLeave, VExit
    <3>3. Accepted'
      BY <1>1, <2>5, <2>7, <3>2, AcceptedKept
    <3>4. emitted' = offered'
      BY <2>1, <2>7, <3>2 DEF VerifyInv
    <3>5. QED
      BY <1>2, <1>3, <3>2, <3>3, <3>4 DEF VerifyInv
  <2>8. CASE v # Success
    <3>1. VLeave(v)
      BY <1>10, <2>3, <2>8 DEF VVerdict
    <3>2. QED
      BY <1>5, <2>1, <2>4, <2>8, <3>1
  <2>9. QED
    BY <2>6, <2>7, <2>8
<1>11. CASE VRelease \/ (vpc = "release" /\ VerifyFails)
  <2>1. /\ vpc = "release" /\ vexit = Running /\ st = "releasing" /\ pass_through
        /\ emitted \in 0 .. offered /\ Accepted
    BY <1>11 DEF VRelease, VerifyInv
  <2>2. UNCHANGED <<v_read, v_payload, offered>>
    BY <1>11, <2>1 DEF VRelease, VerifyFails, Spooler!Emit, Spooler!Finish, Spooler!Fail
  <2>3. Accepted' /\ pass_through'
    BY <1>1, <2>1, <2>2, AcceptedKept DEF Given
  <2>4. CASE VRelease /\ Spooler!Emit /\ UNCHANGED <<vpc, vexit>>
    <3>1. emitted' \in emitted + 1 .. offered /\ st' = st
      BY <2>4 DEF Spooler!Emit
    <3>2. emitted' \in 0 .. offered'
      BY <1>4, <2>1, <2>2, <3>1
    <3>3. QED
      BY <1>2, <1>3, <2>1, <2>2, <2>3, <2>4, <3>1, <3>2 DEF VerifyInv
  <2>5. CASE VRelease /\ Spooler!Finish /\ VExit(Success)
    <3>1. emitted' = offered'
      BY <2>5 DEF Spooler!Finish
    <3>2. QED
      BY <1>2, <1>3, <2>2, <2>3, <2>5, <3>1 DEF VerifyInv, VExit
  <2>6. CASE VerifyFails
    <3>1. Spooler!Fail /\ VExit(IoError)
      BY <2>1, <2>6 DEF VerifyFails
    <3>2. emitted' \in emitted .. offered
      BY <2>1, <3>1 DEF Spooler!Fail
    <3>3. emitted' \in 0 .. offered'
      BY <1>4, <2>1, <2>2, <3>2
    <3>4. QED
      BY <1>2, <1>3, <1>6, <2>2, <2>3, <3>1, <3>3 DEF VerifyInv, VExit
  <2>7. QED
    BY <1>11, <2>4, <2>5, <2>6 DEF VRelease
<1>12. CASE VerifyFails /\ vpc # "release"
  <2>1. emitted = 0
    BY <1>12 DEF VerifyFails, VerifyInv, Fresh
  <2>2. VLeave(UsageError) \/ VLeave(IoError)
    BY <1>12 DEF VerifyFails
  <2>3. QED
    BY <1>5, <1>6, <2>1, <2>2
<1>13. QED
  BY <1>7, <1>8, <1>9, <1>10, <1>11, <1>12 DEF verify

\* The verifier that got what sign wrote, as long as nothing fails it.
LEMMA FaithfulStep ==
    ASSUME SignInv, sexit = Success, VerifyInv, FaithfulInv, verify,
           UNCHANGED <<signVars, issued>>
    PROVE  FaithfulInv'
<1>1. UNCHANGED Given
  BY GivenKept
<1>2. /\ GoodPayload /\ SignFile # None /\ Detach(SignFile).ok
      /\ Complete => Detach(SignFile).bytes = Bytes(payload)
      /\ ~Complete => Len(Detach(SignFile).bytes) # 2
  BY SignFileFacts
<1>3. (v_data = message)' /\ (v_file = SignFile)'
  BY <1>1 DEF FaithfulInv, Given, SignFile, signVars
<1>4. (Complete <=> Complete') /\ UNCHANGED <<sk, message, payload>>
  BY DEF Complete, signVars
<1>5. v_data = message /\ v_file = SignFile
  BY DEF FaithfulInv
<1>6. CASE VOptions
  <2>1. CASE PubMissing
    <3>1. vpc' = "exit" /\ vexit' # Success /\ PubMissing'
      BY <1>1, <1>6, <2>1 DEF VOptions, VLeave, VExit, PubMissing, Given, UsageError, Success
    <3>2. QED
      BY <1>3, <3>1 DEF FaithfulInv
  <2>2. CASE ~PubMissing
    <3>1. vpc' = "sig"
      BY <1>2, <1>5, <1>6, <2>2 DEF VOptions
    <3>2. QED
      BY <1>3, <3>1 DEF FaithfulInv
  <2>3. QED
    BY <2>1, <2>2
<1>7. CASE VReadSig
  <2>1. vpc = "sig"
    BY <1>7 DEF VReadSig
  <2>2. PICK d : d = Detach(v_file)
    OBVIOUS
  <2>3. CASE Complete
    <3>1. d.ok /\ d.bytes = Bytes(payload) /\ Len(d.bytes) = 2
      BY <1>2, <1>5, <2>2, <2>3, BytesType
    <3>2. v_payload' = Payload(d.bytes) /\ vpc' = "data"
      BY <1>7, <2>2, <3>1 DEF VReadSig, SIGNATURE_PAYLOAD_SIZE
    <3>3. v_payload' = payload'
      BY <3>1, <3>2, <1>4, PayloadOfBytes
    <3>4. QED
      BY <1>3, <1>4, <2>3, <3>2, <3>3 DEF FaithfulInv
  <2>4. CASE ~Complete
    <3>1. vpc' = "exit" /\ vexit' # Success
      BY <1>2, <1>5, <1>7, <2>2, <2>4
      DEF VReadSig, SIGNATURE_PAYLOAD_SIZE, VLeave, VExit, WireCorruption, Success
    <3>2. QED
      BY <1>3, <1>4, <2>4, <3>1 DEF FaithfulInv
  <2>5. QED
    BY <2>3, <2>4
<1>8. CASE VReadData
  <2>1. vpc = "data" /\ v_payload = payload /\ Complete /\ v_payload' = v_payload
    BY <1>8 DEF VReadData, FaithfulInv
  <2>2. CASE Spooler!Within(offered')
    <3>1. vpc' = "data"
      BY <1>8, <2>1, <2>2 DEF VReadData
    <3>2. QED
      BY <1>3, <1>4, <2>1, <3>1 DEF FaithfulInv
  <2>3. CASE ~Spooler!Within(offered')
    <3>1. vpc' = "exit" /\ vexit' # Success
      BY <1>8, <2>3 DEF VReadData, VExit, UsageError, Success
    <3>2. /\ offered' = IF pass_through THEN Len(v_read') ELSE 0
          /\ Len(v_read') \in Nat /\ Len(v_read') <= Len(v_data)
      BY <1>8, ReadDataStep
    <3>3. max_size # None /\ max_size \in Nat /\ ~(offered' <= max_size)
      BY <2>3, MaxSizesAssumption DEF Spooler!Within, VerifyInv
    <3>4. pass_through
      BY <3>2, <3>3
    <3>5. Len(message) \in Nat /\ ~(Len(message) <= max_size)
      <4>1. Len(message) \in Nat
        BY <1>5, VerifyTypes
      <4>2. offered' = Len(v_read') /\ Len(v_read') <= Len(message)
        BY <1>5, <3>2, <3>4
      <4>3. QED
        BY <3>2, <3>3, <4>1, <4>2
    <3>6. (pass_through /\ ~(max_size = None \/ Len(message) <= max_size))'
      BY <1>1, <1>4, <3>3, <3>4, <3>5 DEF Given
    <3>7. QED
      BY <1>3, <3>1, <3>6 DEF FaithfulInv
  <2>4. QED
    BY <2>2, <2>3
<1>9. CASE VVerdict
  <2>1. /\ vpc = "data" /\ v_payload = payload /\ Complete
        /\ ~PubMissing /\ WithinLimit
    BY <1>9 DEF VVerdict, FaithfulInv, VerifyInv
  <2>2. v_read = v_data
    BY <1>9, VerifyTypes DEF VVerdict
  <2>3. PICK v : v = Verdict(v_read)
    OBVIOUS
  <2>4. v = Success <=> Accepts
    BY <2>2, <2>3, VerdictSuccess
  <2>5. Accepts <=> expected_pub \in {None, sk}
    <3>1. PICK t : payload = SignedPayload(TAG_SIGN, sk, message, t)
      BY <1>2 DEF GoodPayload
    <3>2. verify_stream_payload(v_payload, v_data) = sk /\ v_payload.pk = sk
      BY <1>5, <2>1, <3>1, SignedIsValid
    <3>3. sk # None /\ Garbled # sk /\ Garbled # None
      BY <1>2, KeysAssumption, NoKeyAssumption, GarbledAssumption DEF GoodPayload
    <3>4. QED
      BY <3>2, <3>3 DEF Accepts
  <2>6. CASE v = Success /\ pass_through
    <3>1. vpc' = "release" /\ v_payload' = v_payload
      BY <1>9, <2>3, <2>6 DEF VVerdict
    <3>2. QED
      BY <1>3, <1>4, <2>1, <3>1 DEF FaithfulInv
  <2>7. CASE ~(v = Success /\ pass_through)
    <3>1. vpc' = "exit" /\ vexit' = v
      BY <1>9, <2>3, <2>7 DEF VVerdict, VLeave, VExit
    <3>2. vexit' = Success <=> expected_pub \in {None, sk}
      BY <2>4, <2>5, <3>1
    <3>3. ~(PubMissing \/ (pass_through /\ ~(max_size = None \/ Len(message) <= max_size)))
      BY <1>5, <2>1, <2>2 DEF WithinLimit, VerifyInv
    <3>4. ~(PubMissing \/ (pass_through /\ ~(max_size = None \/ Len(message) <= max_size)))'
      BY <1>1, <1>4, <3>3 DEF Given, PubMissing
    <3>5. expected_pub' = expected_pub
      BY <1>1 DEF Given
    <3>6. QED
      BY <1>3, <1>4, <2>1, <3>1, <3>2, <3>4, <3>5 DEF FaithfulInv
  <2>8. QED
    BY <2>6, <2>7
<1>10. CASE VRelease
  <2>1. /\ vpc = "release" /\ v_payload = payload /\ Complete /\ pass_through /\ Accepted
    BY <1>10 DEF VRelease, FaithfulInv, VerifyInv
  <2>2. CASE UNCHANGED <<vpc, vexit>>
    BY <1>3, <1>4, <1>10, <2>1, <2>2 DEF FaithfulInv, VRelease
  <2>3. CASE VExit(Success)
    <3>1. vpc' = "exit" /\ vexit' = Success
      BY <2>3 DEF VExit
    <3>2. ~PubMissing /\ (max_size = None \/ Len(message) <= max_size)
      BY <1>5, <2>1 DEF Accepted, WithinLimit, VerifyInv
    <3>3. expected_pub \in {None, sk}
      <4>1. payload.pk = sk
        BY <1>2, SignedIsValid DEF GoodPayload
      <4>2. QED
        BY <2>1, <4>1 DEF Accepted, Accepts
    <3>4. ~PubMissing' /\ (max_size = None \/ Len(message) <= max_size)'
          /\ expected_pub' \in {None, sk'}
      BY <1>1, <1>4, <3>2, <3>3 DEF Given, PubMissing
    <3>5. QED
      BY <1>3, <1>4, <2>1, <3>1, <3>4 DEF FaithfulInv
  <2>4. QED
    BY <1>10, <2>2, <2>3 DEF VRelease
<1>11. QED
  BY <1>6, <1>7, <1>8, <1>9, <1>10 DEF verify

-----------------------------------------------------------------------------
(* The two together                                                        *)

LEMMA SVInvStep ==
    ASSUME SVInv, [SVNext]_svVars
    PROVE  SVInv'
<1>1. SignInv
  BY DEF SVInv
<1>2. UNCHANGED <<signVars, issued>> => SignInv'
  BY <1>1 DEF SignInv, signVars, ReadOf, SigIssued, NothingOut, GoodPayload, Writing,
              Written, Complete, CutShort
<1>3. CASE Signer
  <2>1. spc # "exit"
    BY <1>3 DEF Signer, sign, SLoadKey, SRead, SMakePayload, SPrintLine, SWrite, SFlush,
                SignFails, PrintFails
  <2>2. sexit # Success
    BY <1>1, <2>1 DEF SignInv, Running, Success
  <2>3. Idle
    BY <2>2 DEF SVInv
  <2>4. Idle'
    BY <1>3, <2>3 DEF Signer, verifyVars, Idle, Fresh
  <2>5. CASE SMakePayload
    <3>1. issued' = issued \cup {Fact(payload', s_read)}
      BY <1>3, <2>5 DEF Signer, SMakePayload
    <3>2. QED
      BY <1>1, <2>4, <2>5, <3>1, MakePayloadStep DEF SVInv
  <2>6. CASE SignRest
    <3>1. ~(spc = "read" /\ spc' = "write")
      BY <2>6 DEF SignRest, SLoadKey, SRead, SPrintLine, SWrite, SFlush, SignFails,
                  PrintFails, SExit
    <3>2. issued' = issued
      BY <1>3, <3>1 DEF Signer
    <3>3. QED
      BY <1>1, <2>4, <2>6, <3>2, SignRestStep DEF SVInv
  <2>7. QED
    BY <1>3, <2>5, <2>6 DEF Signer, sign, SignRest
<1>4. CASE CallFaithful \/ CallAnything
  <2>1. UNCHANGED <<signVars, issued>>
    BY <1>4 DEF CallFaithful, CallAnything, Call
  <2>2. QED
    BY <1>2, <1>4, <2>1, CallStep DEF SVInv
<1>5. CASE Verifier \/ VerifierFails
  <2>1. UNCHANGED <<signVars, issued>> /\ (verify \/ VerifyFails)
    BY <1>5 DEF Verifier, VerifierFails
  <2>2. vpc # "idle"
    BY <2>1 DEF verify, VerifyFails, VOptions, VReadSig, VReadData, VVerdict, VRelease
  <2>3. sexit = Success /\ VerifyInv /\ (faithful => FaithfulInv)
    BY <2>2 DEF SVInv, Idle
  <2>4. VerifyInv' /\ sexit' = Success
    BY <2>1, <2>3, VerifyStep DEF signVars
  <2>5. ASSUME faithful' PROVE FaithfulInv'
    <3>1. verify /\ faithful
      BY <1>5, <2>5 DEF Verifier, VerifierFails
    <3>2. QED
      BY <1>1, <2>1, <2>3, <3>1, FaithfulStep
  <2>6. QED
    BY <1>2, <2>1, <2>4, <2>5 DEF SVInv
<1>6. CASE UNCHANGED svVars
  <2>1. UNCHANGED <<signVars, issued>> /\ UNCHANGED verifyVars /\ UNCHANGED faithful
    BY <1>6 DEF svVars
  <2>2. Idle => Idle'
    BY <2>1 DEF Idle, Fresh, verifyVars
  <2>3. VerifyInv => VerifyInv'
    BY <2>1 DEF VerifyInv, verifyVars, ReadOf, FileIssued, SigIssued, Fresh, PubMissing,
                WithinLimit, Accepted, Accepts, verify_stream_payload
  <2>4. FaithfulInv => FaithfulInv'
    BY <2>1 DEF FaithfulInv, verifyVars, signVars, Complete, SignFile, PubMissing
  <2>5. QED
    BY <1>2, <2>1, <2>2, <2>3, <2>4 DEF SVInv, signVars
<1>7. QED
  BY <1>3, <1>4, <1>5, <1>6 DEF SVNext

LEMMA SVInvariance == SVSpec => []SVInv
  BY SVInitInv, SVInvStep, PTL DEF SVSpec

\* The types of the variables of sign and verify.
THEOREM SVTypeCorrect == SVSpec => []SVTypeOK
<1>1. SVInv => SVTypeOK
  <2> SUFFICES ASSUME SVInv PROVE SVTypeOK
    OBVIOUS
  <2>1. SignInv
    BY DEF SVInv
  <2>2. IsPrefix(s_read, message)
    BY <2>1, MessagesAssumption, ReadIsPrefix DEF SignInv
  <2>3. payload # None => payload.ts \in 0 .. TS_MAX
    BY <2>1, SignedIsValid DEF SignInv, NothingOut, GoodPayload
  <2>4. /\ spc \in {"start", "read", "write", "flush", "exit"}
        /\ sexit \in {Running, Success, IoError, UsageError, Aborted}
        /\ sk \in Keys \cup {None}
    BY <2>1 DEF SignInv
  <2>5. CASE Idle
    <3>1. IsPrefix(v_read, v_data)
      BY <2>5 DEF Idle, Fresh, IsPrefix
    <3>2. QED
      BY <2>2, <2>3, <2>4, <2>5, <3>1 DEF Idle, Fresh, SVTypeOK
  <2>6. CASE VerifyInv
    <3>1. IsPrefix(v_read, v_data) /\ offered \in Nat
      BY <2>6, VerifyTypes, ReadIsPrefix
    <3>2. emitted \in 0 .. offered
      BY <2>6, <3>1 DEF VerifyInv, Fresh
    <3>3. /\ vpc \in {"idle", "start", "sig", "data", "release", "exit"}
          /\ vexit \in {Running, Success, AuthFailure, UsageError}
      BY <2>6 DEF VerifyInv, Fresh
    <3>4. QED
      BY <2>2, <2>3, <2>4, <3>1, <3>2, <3>3 DEF SVTypeOK
  <2>7. QED
    BY <2>5, <2>6 DEF SVInv
<1>2. QED
  BY <1>1, SVInvariance, PTL

\* verify lets nothing out and does not succeed unless the signer in the file
\* issued a detached signature over exactly these data, at that time: for every
\* file made from any signatures, with fields altered, cut or armored.
THEOREM AcceptsCorrect == SVSpec => []AcceptsOnlyIssued
<1>1. SVInv => AcceptsOnlyIssued
  <2> SUFFICES ASSUME SVInv, emitted > 0 \/ vexit = Success
               PROVE  /\ Fact(v_payload, v_data) \in issued
                      /\ pass_through => v_payload.pk = expected_pub
                      /\ expected_pub \in {None, v_payload.pk}
    BY DEF AcceptsOnlyIssued
  <2>1. ~Idle
    BY DEF Idle, Fresh, Running, Success
  <2>2. VerifyInv
    BY <2>1 DEF SVInv
  <2>3. Accepted
    BY <2>2 DEF VerifyInv, Fresh, Running, Success, AuthFailure, UsageError
  <2>4. Fact(v_payload, v_data) \in issued
    BY <2>3, IssuedFact DEF Accepted, Accepts
  <2>5. QED
    BY <2>3, <2>4 DEF Accepted, Accepts, PubMissing
<1>2. QED
  BY <1>1, SVInvariance, PTL

\* verify --pass-through that succeeds has passed on all of its input, and never
\* more than --max-size, whatever the sizes of its reads.
THEOREM PassThroughCorrect == SVSpec => []PassThroughWhole
<1>1. SVInv => PassThroughWhole
  <2> SUFFICES ASSUME SVInv, pass_through
               PROVE  /\ vexit = Success => emitted = Len(v_data)
                      /\ max_size # None => emitted <= max_size
    BY DEF PassThroughWhole
  <2>1. CASE Idle
    BY <2>1, MaxSizesAssumption DEF Idle, Fresh, Running, Success
  <2>2. CASE VerifyInv
    <3>1. offered = Len(v_read) /\ offered \in Nat
      BY <2>2, VerifyTypes DEF VerifyInv
    <3>2. vexit = Success => emitted = Len(v_data)
      BY <2>2, <3>1 DEF VerifyInv, Fresh, Accepted, Running, Success, AuthFailure, UsageError
    <3>3. emitted \in 0 .. offered /\ (emitted > 0 => WithinLimit)
      BY <2>2, <3>1 DEF VerifyInv, Fresh, Accepted
    <3>4. max_size = None \/ max_size \in Nat
      BY <2>2, MaxSizesAssumption DEF VerifyInv
    <3>5. max_size # None => emitted <= max_size
      BY <3>1, <3>3, <3>4 DEF WithinLimit
    <3>6. QED
      BY <3>2, <3>5
  <2>3. QED
    BY <2>1, <2>2 DEF SVInv
<1>2. QED
  BY <1>1, SVInvariance, PTL

\* sign --armor that exits with success has written its four lines.
THEOREM ArmorSuccessCorrect == SVSpec => []ArmorSuccessDelivers
<1>1. SVInv => ArmorSuccessDelivers
  BY DEF SVInv, SignInv, ArmorSuccessDelivers, Complete, CutShort, Running, Success,
         IoError, UsageError, Aborted
<1>2. QED
  BY <1>1, SVInvariance, PTL

\* verify accepts what sign wrote, for the same data and unless an option forbids
\* it; and it finds out when sign's output was cut short at its exit.
THEOREM SignatureRoundTripCorrect == SVSpec => []SignatureRoundTrip
<1>1. SVInv => SignatureRoundTrip
  <2> SUFFICES ASSUME SVInv, faithful, vpc = "exit" PROVE SignatureRoundTrip
    BY DEF SignatureRoundTrip
  <2>1. SignInv /\ sexit = Success /\ FaithfulInv
    BY DEF SVInv, Idle
  <2>2. /\ Complete => Detach(SignFile).bytes = Bytes(payload)
        /\ ~Complete => Len(Detach(SignFile).bytes) # 2
    BY <2>1, SignFileFacts
  <2>3. Len(Bytes(payload)) = 2
    BY BytesType
  <2>4. Complete <=> Detach(SignFile).bytes = Bytes(payload)
    BY <2>2, <2>3
  <2>5. QED
    BY <2>1, <2>4 DEF FaithfulInv, SignatureRoundTrip, Spooler!Within
<1>2. QED
  BY <1>1, SVInvariance, PTL

-----------------------------------------------------------------------------
(* verify uses its spooler as SpoolAbs allows.                             *)

\* The spooler as its last call left it; the command drops it when it returns.
LastSt == IF st = "erased" THEN (IF Spooler!Within(offered) THEN "open" ELSE "failed")
          ELSE st

Used == INSTANCE SpoolAbs WITH ChunkSizes <- 0 .. CHUNK_SIZE, st <- LastSt

LEMMA BeforeRelease ==
    ASSUME VerifyInv, vpc \in {"start", "sig", "data"}
    PROVE  st = "open" /\ Spooler!Within(offered) /\ offered \in Nat
<1>1. st = "open"
  BY DEF VerifyInv, Fresh
<1>2. offered \in Nat
  BY VerifyTypes
<1>3. max_size \in MaxSizes
  BY DEF VerifyInv
<1>4. CASE vpc = "data"
  BY <1>1, <1>2, <1>4 DEF VerifyInv, WithinLimit, Spooler!Within
<1>5. CASE vpc # "data"
  <2>1. offered = 0
    BY <1>5 DEF VerifyInv, Fresh
  <2>2. QED
    BY <1>1, <1>3, <2>1, MaxSizesAssumption DEF Spooler!Within
<1>6. QED
  BY <1>4, <1>5

LEMMA VerifyUses ==
    ASSUME VerifyInv, verify \/ VerifyFails
    PROVE  [Used!Next]_(Used!absVars)
<1>1. CASE UNCHANGED vSpoolVars
  BY <1>1 DEF vSpoolVars, LastSt, Spooler!Within, Used!absVars
<1>2. ASSUME vpc \in {"start", "sig", "data"}, NEW code, VLeave(code)
      PROVE  UNCHANGED Used!absVars
  <2>1. st' = "erased" /\ UNCHANGED <<max_size, offered, emitted>>
    BY <1>2 DEF VLeave
  <2>2. LastSt = "open" /\ LastSt' = "open"
    BY <1>2, <2>1, BeforeRelease DEF LastSt, Spooler!Within
  <2>3. QED
    BY <2>1, <2>2 DEF Used!absVars
<1>3. ASSUME Spooler!Emit \/ Spooler!Finish \/ Spooler!Fail \/ Spooler!Commit
      PROVE  Used!Next
  <2>1. st \in {"open", "releasing"} /\ st' \in {"releasing", "done", "failed"}
    BY <1>3 DEF Spooler!Emit, Spooler!Finish, Spooler!Fail, Spooler!Commit
  <2>2. LastSt = st /\ LastSt' = st'
    BY <2>1 DEF LastSt
  <2>3. QED
    BY <1>3, <2>2 DEF Spooler!Emit, Spooler!Finish, Spooler!Fail, Spooler!Commit, Used!Next,
       Used!Emit, Used!Finish, Used!Fail, Used!Commit
<1>4. CASE VReadData
  <2>1. PICK n \in 1 .. CHUNK_SIZE : offered' = offered + (IF pass_through THEN n ELSE 0)
    BY <1>4 DEF VReadData
  <2>2. PICK m \in 0 .. CHUNK_SIZE : offered' = offered + m
    BY <2>1, ReadAssumption
  <2>3. st = "open" /\ LastSt = "open"
    BY <1>4, BeforeRelease DEF VReadData, LastSt
  <2>4. st' = IF Spooler!Within(offered') THEN st ELSE "erased"
    BY <1>4 DEF VReadData
  <2>5. UNCHANGED <<max_size, emitted>>
    BY <1>4 DEF VReadData
  <2>6. LastSt' = IF Used!Within(offered + m) THEN "open" ELSE "failed"
    BY <2>2, <2>3, <2>4, <2>5 DEF LastSt, Spooler!Within, Used!Within
  <2>7. Used!Offer(m)
    BY <2>2, <2>3, <2>5, <2>6 DEF Used!Offer
  <2>8. QED
    BY <2>2, <2>7 DEF Used!Next
<1>5. CASE VOptions
  BY <1>1, <1>2, <1>5 DEF VOptions
<1>6. CASE VReadSig
  BY <1>1, <1>2, <1>6 DEF VReadSig
<1>7. CASE VVerdict
  BY <1>2, <1>3, <1>7 DEF VVerdict
<1>8. CASE VRelease
  BY <1>3, <1>8 DEF VRelease
<1>9. CASE VerifyFails
  BY <1>2, <1>3, <1>9 DEF VerifyFails
<1>10. QED
  BY <1>4, <1>5, <1>6, <1>7, <1>8, <1>9 DEF verify

\* Every call that verify makes on its spooler is one that SpoolAbs allows, with any
\* signature file and through any failure: it commits once, after its last offer, on a
\* spooler that has refused nothing.
THEOREM VerifyUsesSpooler == SVSpec => Used!Spec
<1>1. SVInit => Used!Init
  BY DEF SVInit, VerifyInit, Spooler!Init, Used!Init, LastSt
<1>2. SVInv /\ [SVNext]_svVars => [Used!Next]_(Used!absVars)
  <2> SUFFICES ASSUME SVInv, [SVNext]_svVars PROVE [Used!Next]_(Used!absVars)
    OBVIOUS
  <2>1. CASE UNCHANGED vSpoolVars
    BY <2>1 DEF vSpoolVars, LastSt, Spooler!Within, Used!absVars
  <2>2. CASE Verifier \/ VerifierFails
    <3>1. verify \/ VerifyFails
      BY <2>2 DEF Verifier, VerifierFails
    <3>2. vpc # "idle"
      BY <3>1 DEF verify, VerifyFails, VOptions, VReadSig, VReadData, VVerdict, VRelease
    <3>3. VerifyInv
      BY <3>2 DEF SVInv, Idle
    <3>4. QED
      BY <3>1, <3>3, VerifyUses
  <2>3. CASE Signer \/ CallFaithful \/ CallAnything \/ UNCHANGED svVars
    BY <2>1, <2>3 DEF Signer, CallFaithful, CallAnything, Call, svVars, verifyVars, vSpoolVars
  <2>4. QED
    BY <2>2, <2>3 DEF SVNext
<1>3. QED
  BY <1>1, <1>2, SVInvariance, PTL DEF SVSpec, Used!Spec
=============================================================================
