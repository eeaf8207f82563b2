--------------------------- MODULE EncryptProofs ----------------------------
(***************************************************************************)
(* Proofs about encrypt, for every chunk size, counter width and sequence  *)
(* of reads, with I/O errors.                                              *)
(*                                                                         *)
(* That an intermediate chunk is full follows from the lookahead: a fill   *)
(* ends with a full buffer or at the end of the input, and if stdin stays  *)
(* at its end, a buffer that is not full is followed by an empty one.  The *)
(* invariant says so of both buffers, and that the runs on the wire, in    *)
(* cur_buf and in next_buf follow on from each other up to rd.             *)
(***************************************************************************)
EXTENDS Encrypt, TLAPS

\* Everything that run_encrypt can write.
Items == {Header(Session, m, Recipient) : m \in Modes}
         \cup {Chunk(Session, m, Recipient, c, t, d) :
                   m \in Modes, c \in Nat, t \in {0, 1}, d \in RunSet}
         \cup {Trailer(Sender, Header(Session, m, Recipient).hmac, h) :
                   m \in Modes, h \in Seq(RunSet)}
         \cup {Cut}

\* A chunk at place i: its counter, where its bytes start, when it is full.
ChunkOK(i) ==
    wire[i].type = "chunk" =>
        /\ i >= 2
        /\ wire[i].box.nonce[1] = i - 2
        /\ wire[i].box.data.lo = (IF i = 2 THEN 0 ELSE wire[i - 1].box.data.hi)
        /\ STICKY_EOF /\ wire[i].term_tag = 0 => wire[i].len = CHUNK_SIZE

WireOK == wire \in Seq(Items) /\ \A i \in 1..Len(wire) : ChunkOK(i)

\* The position after the last byte on the wire, while the loop runs.
WireEnd == IF Len(wire) = 1 THEN 0 ELSE wire[Len(wire)].box.data.hi

\* The buffer is full, or the input is known to have ended.
Settled(buf) == RunLen(buf) = CHUNK_SIZE
                \/ (STICKY_EOF => rd = src_len /\ ~src_open)

\* The terminal chunk is on the wire, and the bytes up to it are all there are.
AllSealed == /\ \E i \in 1..Len(wire) : /\ wire[i].type = "chunk"
                                        /\ wire[i].term_tag = 1
                                        /\ wire[i].box.data.hi = rd
             /\ STICKY_EOF => rd = src_len /\ ~src_open

\* encrypt succeeds only when the input, to its last byte, is on the wire.
InputSealed == eexit = Success => AllSealed

Control ==
    /\ epc = "setup" => wire = << >> /\ chunk_counter = 0
    /\ epc = "setup" => rd = 0 /\ cur_buf = Run(0, 0) /\ next_buf = Run(0, 0)
    /\ epc \in {"fill_cur", "fill_next", "emit"} =>
           /\ Len(wire) = chunk_counter + 1
           /\ cur_buf.lo = WireEnd
    /\ epc = "fill_cur" => cur_buf.hi = rd
    /\ epc \in {"fill_next", "emit"} =>
           /\ cur_buf.hi = next_buf.lo
           /\ next_buf.hi = rd
           /\ Settled(cur_buf)
           /\ STICKY_EOF /\ RunLen(cur_buf) # CHUNK_SIZE =>
                  RunLen(next_buf) = 0
    /\ epc = "emit" => Settled(next_buf)
    /\ epc = "finish" => AllSealed
    /\ epc # "exit" => eexit = Running

Lengths == /\ cur_buf.lo <= cur_buf.hi /\ next_buf.lo <= next_buf.hi
           /\ rd <= src_len

EInv == EncTypeOK /\ WireOK /\ Control /\ Lengths /\ InputSealed

-----------------------------------------------------------------------------
\* What the fields of a chunk are.
LEMMA ChunkFields ==
    ASSUME NEW m, NEW c, NEW t, NEW d
    PROVE  LET k == Chunk(Session, m, Recipient, c, t, d)
           IN  /\ k.type = "chunk"
               /\ k.len = RunLen(d)
               /\ k.term_tag = t
               /\ k.box.nonce[1] = c
               /\ k.box.data = d
  BY DEF Chunk, Seal, build_nonce

\* Header, trailer and cut item are not chunks.
LEMMA OtherItems ==
    /\ \A m : Header(Session, m, Recipient).type # "chunk"
    /\ \A h, d : Trailer(Sender, h, d).type # "chunk"
    /\ Cut.type # "chunk"
  BY DEF Header, Trailer, Cut

\* Writing one more item leaves the others where they are.
LEMMA AppendItem ==
    ASSUME NEW s \in Seq(Items), NEW it \in Items
    PROVE  /\ Append(s, it) \in Seq(Items)
           /\ Len(Append(s, it)) = Len(s) + 1
           /\ \A i \in 1..Len(s) : Append(s, it)[i] = s[i]
           /\ Append(s, it)[Len(s) + 1] = it
           /\ Len(s) \in Nat
  OBVIOUS

\* Writing an item that is not a chunk keeps the wire as it must be.
LEMMA AppendOther ==
    ASSUME WireOK, NEW it \in Items, it.type # "chunk", wire' = Append(wire, it)
    PROVE  WireOK'
<1>1. /\ wire' \in Seq(Items) /\ Len(wire') = Len(wire) + 1
      /\ \A i \in 1..Len(wire) : wire'[i] = wire[i]
      /\ wire'[Len(wire) + 1] = it /\ Len(wire) \in Nat
  BY AppendItem DEF WireOK
<1>2. ASSUME NEW i \in 1..Len(wire') PROVE ChunkOK(i)'
  <2>1. CASE i \in 1..Len(wire)
    <3>1. ChunkOK(i) /\ wire'[i] = wire[i]
      BY <2>1, <1>1 DEF WireOK
    <3>2. i >= 2 /\ i # 2 => wire'[i - 1] = wire[i - 1]
      BY <2>1, <1>1
    <3>3. QED
      BY <2>1, <3>1, <3>2 DEF ChunkOK
  <2>2. CASE i = Len(wire) + 1
    BY <2>2, <1>1 DEF ChunkOK
  <2>3. QED
    BY <2>1, <2>2, <1>1
<1>3. QED
  BY <1>1, <1>2 DEF WireOK

\* Writing the next chunk keeps it too, if the chunk continues the wire and is
\* full unless it is the last.
LEMMA AppendChunk ==
    ASSUME WireOK, NEW m \in Modes, NEW c \in Nat, NEW t \in {0, 1},
           NEW d \in RunSet, Len(wire) = c + 1, d.lo = WireEnd,
           STICKY_EOF /\ t = 0 => RunLen(d) = CHUNK_SIZE,
           wire' = Append(wire, Chunk(Session, m, Recipient, c, t, d))
    PROVE  WireOK' /\ Len(wire') = c + 2 /\ WireEnd' = d.hi
<1> DEFINE k == Chunk(Session, m, Recipient, c, t, d)
<1>0. k \in Items
  BY DEF Items
<1>00. /\ k.type = "chunk" /\ k.len = RunLen(d) /\ k.term_tag = t
       /\ k.box.nonce[1] = c /\ k.box.data = d
  BY ChunkFields
<1> HIDE DEF k
<1>1. /\ wire' \in Seq(Items) /\ Len(wire') = Len(wire) + 1
      /\ \A i \in 1..Len(wire) : wire'[i] = wire[i]
      /\ wire'[Len(wire) + 1] = k
  BY <1>0, AppendItem DEF WireOK, k
<1>2. ASSUME NEW i \in 1..Len(wire') PROVE ChunkOK(i)'
  <2>1. CASE i \in 1..Len(wire)
    <3>1. ChunkOK(i) /\ wire'[i] = wire[i]
      BY <2>1, <1>1 DEF WireOK
    <3>2. i >= 2 /\ i # 2 => wire'[i - 1] = wire[i - 1]
      BY <2>1, <1>1
    <3>3. QED
      BY <2>1, <3>1, <3>2 DEF ChunkOK
  <2>2. CASE i = Len(wire) + 1
    <3>1. wire'[i] = k /\ i = c + 2
      BY <2>2, <1>1
    <3>2. i # 2 => wire'[i - 1] = wire[Len(wire)] /\ Len(wire) # 1
      BY <2>2, <1>1
    <3>3. d.lo = (IF i = 2 THEN 0 ELSE wire'[i - 1].box.data.hi)
      BY <2>2, <3>1, <3>2 DEF WireEnd
    <3>4. QED
      BY <1>00, <3>1, <3>3 DEF ChunkOK
  <2>3. QED
    BY <2>1, <2>2, <1>1
<1>3. WireEnd' = d.hi /\ Len(wire') = c + 2
  BY <1>00, <1>1 DEF WireEnd
<1>4. QED
  BY <1>1, <1>2, <1>3 DEF WireOK

-----------------------------------------------------------------------------
(* The inductive invariant.                                                *)

\* The invariant holds when encrypt starts.
LEMMA InitEInv == EncInit => EInv
<1> SUFFICES ASSUME EncInit PROVE EInv
  OBVIOUS
<1> USE DEF EncInit
<1>1. EncTypeOK
  <2>1. cur_buf \in RunSet /\ next_buf \in RunSet
    BY DEF Run, RunSet
  <2>2. chunk_counter \in 0..COUNTER_MAX
    BY WireAssumption
  <2>3. hashed \in Seq(RunSet)
    OBVIOUS
  <2>4. QED
    BY <2>1, <2>2, <2>3 DEF EncTypeOK
<1>2. WireOK
  BY DEF WireOK
<1>3. Control /\ Lengths /\ InputSealed
  <2>1. eexit = -1 /\ epc = "setup"
    BY DEF Running
  <2>2. Lengths /\ InputSealed
    BY <2>1 DEF Lengths, InputSealed, Run, Success
  <2>3. Control
    BY <2>1 DEF Control, Running
  <2>4. QED
    BY <2>2, <2>3
<1>4. QED
  BY <1>1, <1>2, <1>3 DEF EInv

\* The environment: bytes arrive, the input is closed.
LEMMA FeedEInv ==
    ASSUME EInv, Produce \/ CloseInput
    PROVE  EInv'
<1> USE DEF EInv
<1>0. /\ UNCHANGED <<rd, mode, cur_buf, next_buf, chunk_counter, hashed, wire,
                     epc, eexit>>
      /\ src_open
      /\ src_len' \in Nat /\ src_len <= src_len'
      /\ src_open' \in BOOLEAN
  <2>1. src_len \in Nat /\ src_open \in BOOLEAN
    BY DEF EncTypeOK
  <2>2. src_open /\ src_open' \in BOOLEAN
    BY <2>1, Zenon DEF Produce, CloseInput
  <2>3. src_len' = src_len \/ src_len' = src_len + 1
    BY DEF Produce, CloseInput
  <2>4. UNCHANGED <<rd, mode, cur_buf, next_buf, chunk_counter, hashed, wire,
                    epc, eexit>>
    BY DEF Produce, CloseInput
  <2>5. QED
    BY <2>1, <2>2, <2>3, <2>4
<1>1. EncTypeOK'
  BY <1>0 DEF EncTypeOK
<1>2. WireOK'
  BY <1>0 DEF WireOK, ChunkOK
<1>3. AllSealed => AllSealed'
  BY <1>0 DEF AllSealed
<1>4. Settled(cur_buf) => Settled(cur_buf)'
  BY <1>0 DEF Settled
<1>5. Settled(next_buf) => Settled(next_buf)'
  BY <1>0 DEF Settled
<1>6. Control'
  BY <1>0, <1>3, <1>4, <1>5 DEF Control, WireEnd
<1>7. Lengths' /\ InputSealed'
  BY <1>0, <1>3 DEF Lengths, InputSealed, EncTypeOK
<1>8. QED
  BY <1>1, <1>2, <1>6, <1>7

\* Leaving with an error, perhaps after part of an item.
LEMMA FailEInv ==
    ASSUME EInv, SetupFails \/ ReadFails \/ WriteFails
    PROVE  EInv'
<1> USE DEF EInv
<1>0. /\ UNCHANGED <<src_len, src_open, rd, mode, cur_buf, next_buf,
                     chunk_counter, hashed>>
      /\ wire' = wire \/ wire' = Append(wire, Cut)
      /\ epc' = "exit"
      /\ eexit' \in {IoError, UsageError}
  BY DEF SetupFails, ReadFails, WriteFails, Exit
<1>1. EncTypeOK'
  BY <1>0 DEF EncTypeOK
<1>2. WireOK'
  <2>1. CASE wire' = wire
    BY <2>1 DEF WireOK, ChunkOK
  <2>2. CASE wire' = Append(wire, Cut)
    <3>1. Cut \in Items /\ Cut.type # "chunk"
      BY OtherItems DEF Items
    <3>2. QED
      BY <2>2, <3>1, AppendOther
  <2>3. QED
    BY <1>0, <2>1, <2>2
<1>3. Control' /\ Lengths' /\ InputSealed'
  BY <1>0 DEF Control, Lengths, InputSealed, Success, IoError, UsageError
<1>4. QED
  BY <1>1, <1>2, <1>3

\* The header, and the reads.
LEMMA ReadEInv ==
    ASSUME EInv, WriteHeader \/ ReadCur \/ CurFilled \/ ReadNext \/ NextFilled
    PROVE  EInv'
<1> USE WireAssumption DEF EInv
<1>0. /\ rd \in Nat /\ src_len \in Nat /\ cur_buf \in RunSet /\ next_buf \in RunSet
      /\ cur_buf.lo \in Nat /\ cur_buf.hi \in Nat
      /\ next_buf.lo \in Nat /\ next_buf.hi \in Nat
  BY DEF EncTypeOK, RunSet
<1>1. CASE WriteHeader
  <2> USE <1>1 DEF WriteHeader
  <2>1. EncTypeOK'
    BY DEF EncTypeOK
  <2>2. WireOK' /\ Len(wire') = 1
    <3> DEFINE h == Header(Session, mode, Recipient)
    <3>1. h \in Items /\ h.type # "chunk"
      BY OtherItems DEF Items, EncTypeOK
    <3>2. wire' = Append(wire, h)
      BY DEF Control
    <3> HIDE DEF h
    <3>3. QED
      BY <3>1, <3>2, AppendOther DEF Control
  <2>3. Control'
    BY <2>2 DEF Control, WireEnd, Run
  <2>4. Lengths' /\ InputSealed'
    BY DEF Lengths, InputSealed, Control, Running, Success
  <2>5. QED
    BY <2>1, <2>2, <2>3, <2>4
<1>2. CASE ReadCur
  <2>1. PICK n \in 1..CHUNK_SIZE : /\ Fill(cur_buf, n)
                                   /\ cur_buf' = Run(cur_buf.lo, cur_buf.hi + n)
    BY <1>2 DEF ReadCur
  <2>2. /\ n \in Nat /\ rd + n <= src_len /\ rd' = rd + n
        /\ cur_buf'.lo = cur_buf.lo /\ cur_buf'.hi = cur_buf.hi + n
        /\ cur_buf' \in RunSet
    BY <1>0, <2>1 DEF Fill, Run, RunSet
  <2>3. /\ epc = "fill_cur"
        /\ UNCHANGED <<src_len, src_open, mode, next_buf, chunk_counter, hashed,
                       wire, epc, eexit>>
    BY <1>2 DEF ReadCur
  <2>4. EncTypeOK'
    BY <1>0, <2>2, <2>3 DEF EncTypeOK
  <2>5. WireOK'
    BY <2>3 DEF WireOK, ChunkOK
  <2>6. Control'
    BY <2>2, <2>3 DEF Control, WireEnd
  <2>7. Lengths' /\ InputSealed'
    BY <1>0, <2>2, <2>3 DEF Lengths, InputSealed, Control, Running, Success
  <2>8. QED
    BY <2>4, <2>5, <2>6, <2>7
<1>3. CASE CurFilled
  <2> USE <1>3 DEF CurFilled
  <2>1. next_buf' \in RunSet /\ next_buf'.lo = rd /\ next_buf'.hi = rd
    BY <1>0 DEF Run, RunSet
  <2>2. Settled(cur_buf)'
    BY DEF Settled, FillDone, AtEof
  <2>3. EncTypeOK' /\ WireOK'
    BY <2>1 DEF EncTypeOK, WireOK, ChunkOK
  <2>4. Control'
    BY <1>0, <2>1, <2>2 DEF Control, WireEnd, RunLen
  <2>5. Lengths' /\ InputSealed'
    BY <1>0, <2>1 DEF Lengths, InputSealed, Control, Running, Success
  <2>6. QED
    BY <2>3, <2>4, <2>5
<1>4. CASE ReadNext
  <2>1. PICK n \in 1..CHUNK_SIZE : /\ Fill(next_buf, n)
                                   /\ next_buf' = Run(next_buf.lo, next_buf.hi + n)
    BY <1>4 DEF ReadNext
  <2>2. /\ n \in Nat /\ n # 0 /\ rd + n <= src_len /\ rd' = rd + n
        /\ next_buf'.lo = next_buf.lo /\ next_buf'.hi = next_buf.hi + n
        /\ next_buf' \in RunSet
    BY <1>0, <2>1 DEF Fill, Run, RunSet
  <2>3. /\ epc = "fill_next"
        /\ UNCHANGED <<src_len, src_open, mode, cur_buf, chunk_counter, hashed,
                       wire, epc, eexit>>
    BY <1>4 DEF ReadNext
  <2>4. rd # src_len
    BY <1>0, <2>2
  <2>5. STICKY_EOF => RunLen(cur_buf) = CHUNK_SIZE
    BY <2>3, <2>4 DEF Control, Settled
  <2>6. EncTypeOK' /\ WireOK'
    BY <1>0, <2>2, <2>3 DEF EncTypeOK, WireOK, ChunkOK
  <2>7. Settled(cur_buf)'
    BY <2>3, <2>5 DEF Settled
  <2>8. Control'
    BY <2>2, <2>3, <2>5, <2>7 DEF Control, WireEnd
  <2>9. Lengths' /\ InputSealed'
    BY <1>0, <2>2, <2>3 DEF Lengths, InputSealed, Control, Running, Success
  <2>10. QED
    BY <2>6, <2>8, <2>9
<1>5. CASE NextFilled
  <2> USE <1>5 DEF NextFilled
  <2>1. Settled(next_buf)' /\ Settled(cur_buf)'
    BY DEF Settled, FillDone, AtEof, Control
  <2>2. EncTypeOK' /\ WireOK'
    BY DEF EncTypeOK, WireOK, ChunkOK
  <2>3. Control'
    BY <2>1 DEF Control, WireEnd
  <2>4. Lengths' /\ InputSealed'
    BY DEF Lengths, InputSealed, Control, Running, Success
  <2>5. QED
    BY <2>2, <2>3, <2>4
<1>6. QED
  BY <1>1, <1>2, <1>3, <1>4, <1>5

\* One chunk: it is full unless the lookahead found nothing.
LEMMA EmitEInv ==
    ASSUME EInv, EmitChunk
    PROVE  EInv'
<1> USE WireAssumption DEF EInv
<1>0. /\ rd \in Nat /\ src_len \in Nat /\ cur_buf \in RunSet /\ next_buf \in RunSet
      /\ cur_buf.lo \in Nat /\ cur_buf.hi \in Nat
      /\ next_buf.lo \in Nat /\ next_buf.hi \in Nat
      /\ chunk_counter \in Nat /\ mode \in Modes
  BY DEF EncTypeOK, RunSet
<1>1. /\ epc = "emit"
      /\ wire' = Append(wire, Chunk(Session, mode, Recipient, chunk_counter,
                                    TermTag, cur_buf))
      /\ UNCHANGED <<src_len, src_open, rd, mode>>
  BY DEF EmitChunk
<1>2. /\ Len(wire) = chunk_counter + 1 /\ cur_buf.lo = WireEnd
      /\ cur_buf.hi = next_buf.lo /\ next_buf.hi = rd
      /\ Settled(cur_buf) /\ Settled(next_buf)
      /\ STICKY_EOF /\ RunLen(cur_buf) # CHUNK_SIZE => RunLen(next_buf) = 0
      /\ eexit = Running
  BY <1>1 DEF Control
<1>3. /\ TermTag \in {0, 1}
      /\ TermTag = 0 <=> RunLen(next_buf) # 0
  BY DEF TermTag
<1>4. WireOK' /\ Len(wire') = chunk_counter + 2 /\ WireEnd' = cur_buf.hi
  BY <1>0, <1>1, <1>2, <1>3, AppendChunk
<1>5. hashed' \in Seq(RunSet)
  <2>1. hashed \in Seq(RunSet) /\ Append(hashed, cur_buf) \in Seq(RunSet)
    BY <1>0 DEF EncTypeOK
  <2>2. QED
    BY <2>1 DEF EmitChunk
<1>6. CASE CheckedAdd(chunk_counter) = {}
  <2>1. /\ epc' = "exit" /\ eexit' = UsageError
        /\ UNCHANGED <<cur_buf, next_buf, chunk_counter>>
    BY <1>6 DEF EmitChunk, Exit
  <2>2. EncTypeOK'
    BY <1>1, <1>5, <2>1 DEF EncTypeOK
  <2>3. Control' /\ Lengths' /\ InputSealed'
    BY <1>1, <2>1 DEF Control, Lengths, InputSealed, Success, UsageError
  <2>4. QED
    BY <1>4, <2>2, <2>3
<1>7. CASE CheckedAdd(chunk_counter) # {}
  <2>1. chunk_counter' = chunk_counter + 1 /\ chunk_counter' \in 0..COUNTER_MAX
    <3>1. chunk_counter # COUNTER_MAX
      BY <1>7 DEF CheckedAdd
    <3>2. chunk_counter' \in CheckedAdd(chunk_counter)
      BY <1>7 DEF EmitChunk
    <3>3. QED
      BY <3>1, <3>2 DEF CheckedAdd, EncTypeOK
  <2>2. eexit' = Running
    BY <1>2, <1>7 DEF EmitChunk
  <2>3. CASE RunLen(next_buf) = 0
    <3>1. epc' = "finish" /\ UNCHANGED <<cur_buf, next_buf>>
      BY <1>7, <2>3 DEF EmitChunk
    <3>2. EncTypeOK'
      BY <1>1, <1>5, <2>1, <2>2, <3>1 DEF EncTypeOK
    <3>3. AllSealed'
      <4>1. cur_buf.hi = rd
        BY <1>0, <1>2, <2>3 DEF RunLen
      <4>2. STICKY_EOF => rd = src_len /\ ~src_open
        BY <1>2, <2>3 DEF Settled
      <4>3. /\ wire'[chunk_counter + 2].type = "chunk"
            /\ wire'[chunk_counter + 2].term_tag = 1
            /\ wire'[chunk_counter + 2].box.data.hi = cur_buf.hi
        <5> DEFINE k == Chunk(Session, mode, Recipient, chunk_counter, TermTag,
                              cur_buf)
        <5>1. k.type = "chunk" /\ k.term_tag = TermTag /\ k.box.data = cur_buf
          BY ChunkFields
        <5>2. k \in Items
          BY <1>0, <1>3 DEF Items
        <5> HIDE DEF k
        <5>3. wire'[chunk_counter + 2] = k
          <6>1. wire'[Len(wire) + 1] = k
            BY <1>1, <5>2, AppendItem DEF WireOK, k
          <6>2. Len(wire) + 1 = chunk_counter + 2
            BY <1>0, <1>2
          <6>3. QED
            BY <6>1, <6>2
        <5>4. QED
          BY <1>3, <2>3, <5>1, <5>3
      <4>4. chunk_counter + 2 \in 1..Len(wire')
        BY <1>0, <1>4
      <4>5. QED
        BY <1>1, <4>1, <4>2, <4>3, <4>4 DEF AllSealed
    <3>4. Control'
      BY <2>2, <3>1, <3>3 DEF Control
    <3>5. Lengths' /\ InputSealed'
      BY <1>1, <2>2, <3>1 DEF Lengths, InputSealed, Running, Success
    <3>6. QED
      BY <1>4, <3>2, <3>4, <3>5
  <2>4. CASE RunLen(next_buf) # 0
    <3>1. epc' = "fill_next" /\ cur_buf' = next_buf /\ next_buf' = Run(rd, rd)
      BY <1>7, <2>4 DEF EmitChunk, Swapped
    <3>2. next_buf' \in RunSet /\ next_buf'.lo = rd /\ next_buf'.hi = rd
      BY <1>0, <3>1 DEF Run, RunSet
    <3>3. EncTypeOK'
      BY <1>0, <1>1, <1>5, <2>1, <2>2, <3>1, <3>2 DEF EncTypeOK
    <3>4. Settled(cur_buf)'
      BY <1>1, <1>2, <3>1 DEF Settled
    <3>5. RunLen(next_buf)' = 0
      BY <1>0, <3>2 DEF RunLen
    <3>6. Control'
      BY <1>0, <1>1, <1>2, <1>4, <2>1, <2>2, <3>1, <3>2, <3>4, <3>5 DEF Control
    <3>7. Lengths' /\ InputSealed'
      BY <1>0, <1>1, <2>2, <3>1, <3>2 DEF Lengths, InputSealed, Running, Success
    <3>8. QED
      BY <1>4, <3>3, <3>6, <3>7
  <2>5. QED
    BY <2>3, <2>4
<1>8. QED
  BY <1>6, <1>7

\* The trailer.
LEMMA FinishEInv ==
    ASSUME EInv, Finish
    PROVE  EInv'
<1> USE DEF EInv
<1>1. /\ epc = "finish" /\ epc' = "exit" /\ eexit' = Success
      /\ UNCHANGED <<src_len, src_open, rd, mode, cur_buf, next_buf,
                     chunk_counter, hashed>>
  BY DEF Finish, Exit
<1> DEFINE t == Trailer(Sender, Header(Session, mode, Recipient).hmac, hashed)
<1>2. t \in Items /\ t.type # "chunk"
  BY OtherItems DEF Items, EncTypeOK
<1>3. wire' = wire \/ wire' = Append(wire, t)
  BY DEF Finish
<1> HIDE DEF t
<1>4. WireOK'
  <2>1. CASE wire' = wire
    BY <2>1 DEF WireOK, ChunkOK
  <2>2. QED
    BY <1>2, <1>3, <2>1, AppendOther
<1>5. AllSealed'
  <2>1. /\ \A i \in 1..Len(wire) : i \in 1..Len(wire') /\ wire'[i] = wire[i]
    BY <1>2, <1>3, AppendItem DEF WireOK
  <2>2. AllSealed
    BY <1>1 DEF Control
  <2>3. QED
    BY <1>1, <2>1, <2>2 DEF AllSealed
<1>6. EncTypeOK'
  BY <1>1 DEF EncTypeOK
<1>7. Control' /\ Lengths' /\ InputSealed'
  BY <1>1, <1>5 DEF Control, Lengths, InputSealed
<1>8. QED
  BY <1>4, <1>6, <1>7

\* Every step of encrypt and of its environment keeps the invariant.
LEMMA EInvStep == EInv /\ [EncNext]_encVars => EInv'
<1> SUFFICES ASSUME EInv, [EncNext]_encVars PROVE EInv'
  OBVIOUS
<1>1. CASE Produce \/ CloseInput
  BY <1>1, FeedEInv
<1>2. CASE SetupFails \/ ReadFails \/ WriteFails
  BY <1>2, FailEInv
<1>3. CASE WriteHeader \/ ReadCur \/ CurFilled \/ ReadNext \/ NextFilled
  BY <1>3, ReadEInv
<1>4. CASE EmitChunk
  BY <1>4, EmitEInv
<1>5. CASE Finish
  BY <1>5, FinishEInv
<1>6. CASE UNCHANGED encVars
  BY <1>6 DEF encVars, EInv, EncTypeOK, WireOK, ChunkOK, Control, Lengths,
     InputSealed, AllSealed, Settled, WireEnd
<1>7. QED
  BY <1>1, <1>2, <1>3, <1>4, <1>5, <1>6
     DEF EncNext, run_encrypt, Writes, Reads, Fails

\* encrypt keeps its invariant.
THEOREM EncInvariance == EncSpec => []EInv
  BY InitEInv, EInvStep, PTL DEF EncSpec

\* Every variable of encrypt keeps its type; the counter stays within a u64.
THEOREM EncTypeCorrect == EncSpec => []EncTypeOK
  BY EncInvariance, PTL DEF EInv

\* The bytes on the wire are the beginning of the input, in order, for any
\* sequence of short reads.
THEOREM WireOrderCorrect == EncSpec => []WireInOrder
<1>1. EInv => WireInOrder
  BY DEF EInv, WireOK, ChunkOK, WireInOrder, IsChunk
<1>2. QED
  BY <1>1, EncInvariance, PTL

\* No chunk counter is used twice under one payload key.
THEOREM ChunkNonceCorrect == EncSpec => []ChunkNonceUnique
<1>1. EInv => ChunkNonceUnique
  <2> SUFFICES ASSUME EInv, NEW i \in 1..Len(wire), NEW j \in 1..Len(wire),
                      IsChunk(i), IsChunk(j),
                      wire[i].box.nonce[1] = wire[j].box.nonce[1]
               PROVE  i = j
    BY DEF ChunkNonceUnique
  <2>1. i - 2 = j - 2 /\ i \in Int /\ j \in Int
    BY DEF EInv, WireOK, ChunkOK, IsChunk
  <2>2. QED
    BY <2>1
<1>2. QED
  BY <1>1, EncInvariance, PTL

\* If stdin, once at its end, stays there, every intermediate chunk is full:
\* the framing that every decryptor demands.
THEOREM FramingCorrect ==
    ASSUME STICKY_EOF
    PROVE  EncSpec => []IntermediateChunksFull
<1>1. EInv => IntermediateChunksFull
  BY STICKY_EOF DEF EInv, WireOK, ChunkOK, IntermediateChunksFull, IsChunk
<1>2. QED
  BY <1>1, EncInvariance, PTL

\* encrypt exits with success only when the terminal chunk is on the wire and
\* ends with the last byte that was read.
THEOREM SuccessCorrect == EncSpec => []InputSealed
  BY EncInvariance, PTL DEF EInv

-----------------------------------------------------------------------------
(* The stream as a whole.  The invariant describes the wire item by item:  *)
(* a header, n chunks of which only the last may be terminal, then at most *)
(* a trailer over those n chunks or an item that was cut short.  With a    *)
(* stdin that stays at its end, chunk i starts at byte (i - 1) *           *)
(* CHUNK_SIZE, which makes the stream of a successful run the canonical    *)
(* one, for every chunk size and length.                                   *)

TheHeader == Header(Session, mode, Recipient)
TheTrailer == Trailer(Sender, TheHeader.hmac, hashed)

\* The i-th chunk, its terminal tag and its bytes.
Tag(i) == wire[i + 1].term_tag
Data(i) == wire[i + 1].box.data

ChunkAt(i) ==
    /\ Tag(i) \in {0, 1}
    /\ Data(i) \in RunSet
    /\ wire[i + 1] = Chunk(Session, mode, Recipient, i - 1, Tag(i), Data(i))

\* Header and n chunks; all but the last are intermediate ones.
Body(n) == /\ Len(wire) >= n + 1
           /\ wire[1] = TheHeader
           /\ \A i \in 1..n : ChunkAt(i) /\ (i < n => Tag(i) = 0)

Terminal(n) == n > 0 /\ Tag(n) = 1

\* All that can be on the wire, with n chunks.
WireShape(n) ==
    \/ n = 0 /\ wire = << >>
    \/ n = 0 /\ Len(wire) = 1 /\ wire[1] = Cut
    \/ Body(n) /\ Len(wire) = n + 1
    \/ Body(n) /\ Len(wire) = n + 2 /\ wire[n + 2] = Cut
    \/ /\ Body(n) /\ Len(wire) = n + 2 /\ wire[n + 2] = TheTrailer
       /\ mode = Authenticated /\ Terminal(n)

\* plaintext_hasher was fed what the chunks hold.
HashedAll(n) == mode = Authenticated => hashed = [i \in 1..n |-> Data(i)]

\* What is on the wire at each place of run_encrypt.
PlaceShape(n) ==
    /\ epc = "setup" => wire = << >>
    /\ epc \in {"fill_cur", "fill_next", "emit"} =>
           /\ Body(n) /\ Len(wire) = n + 1 /\ n = chunk_counter
           /\ n > 0 => Tag(n) = 0
    /\ epc = "fill_cur" => n = 0
    /\ epc = "finish" => Body(n) /\ Len(wire) = n + 1 /\ Terminal(n)
    /\ eexit = Success =>
           /\ Body(n) /\ Terminal(n)
           /\ Len(wire) = IF mode = Authenticated THEN n + 2 ELSE n + 1
           /\ mode = Authenticated => wire[n + 2] = TheTrailer
    /\ eexit = UsageError => wire = << >> \/ chunk_counter = COUNTER_MAX
    /\ epc = "exit" => eexit # Running

\* A chunk is followed by the next one's bytes, and by some if it is not terminal.
\* Where chunks start if all but the last are full.
Bytes(n) ==
    \A i \in 1..n :
        /\ Data(i).lo = (IF i = 1 THEN 0 ELSE Data(i - 1).hi)
        /\ Data(i).lo <= Data(i).hi
        /\ Data(i).hi <= src_len
        /\ Tag(i) = 0 => Data(i).hi < src_len
        /\ STICKY_EOF => /\ Data(i).lo = (i - 1) * CHUNK_SIZE
                         /\ RunLen(Data(i)) <= CHUNK_SIZE
                         /\ i > 1 => RunLen(Data(i)) > 0
                         /\ Tag(i) = 0 => RunLen(Data(i)) = CHUNK_SIZE

\* The buffers hold a chunk at most, and the first is empty for an empty input only.
Buffers ==
    /\ RunLen(cur_buf) <= CHUNK_SIZE /\ RunLen(next_buf) <= CHUNK_SIZE
    /\ epc \in {"fill_next", "emit"} /\ chunk_counter > 0 => RunLen(cur_buf) > 0
    /\ src_len <= MAX_INPUT

Stream(n) == WireShape(n) /\ HashedAll(n) /\ PlaceShape(n) /\ Bytes(n)

SInv == EInv /\ Buffers /\ \E n \in Nat : Stream(n)

-----------------------------------------------------------------------------
(* Arithmetic.                                                             *)

\* The end of the chunk that starts at byte k * c.
LEMMA NextStart ==
    ASSUME NEW k \in Nat, NEW c \in Nat
    PROVE  /\ k * c \in Nat
           /\ k * c + c = (k + 1) * c
  OBVIOUS

\* More blocks hold at least one block more.
LEMMA MoreBlocks ==
    ASSUME NEW p \in Int, NEW q \in Int, NEW c \in Nat, p < q
    PROVE  p * c + c <= q * c
<1> DEFINE e == q - p - 1
<1>1. e \in Nat /\ q = p + 1 + e
  OBVIOUS
<1>2. e * c \in Nat
  BY <1>1
<1>3. (p + 1 + e) * c = p * c + c + e * c
  BY <1>1
<1>4. p * c \in Int
  OBVIOUS
<1> HIDE DEF e
<1>5. QED
  BY <1>1, <1>2, <1>3, <1>4

\* A quotient is known by its bounds.
LEMMA QuotientBounds ==
    ASSUME NEW a \in Nat, NEW c \in Nat \ {0}, NEW q \in Nat,
           q * c <= a, a < q * c + c
    PROVE  a \div c = q
<1> DEFINE d == a \div c
<1>1. d \in Int /\ d * c <= a /\ a < d * c + c
  OBVIOUS
<1> HIDE DEF d
<1>2. d * c \in Int /\ q * c \in Int
  BY <1>1
<1>3. ~(d < q)
  BY <1>1, <1>2, MoreBlocks
<1>4. ~(q < d)
  BY <1>1, <1>2, MoreBlocks
<1>5. QED
  BY <1>1, <1>3, <1>4 DEF d

-----------------------------------------------------------------------------
(* The inductive invariant.                                                *)

\* Nothing is on the wire when encrypt starts.
LEMMA InitSInv == EncInit => SInv
<1> SUFFICES ASSUME EncInit PROVE SInv
  OBVIOUS
<1>1. EInv
  BY InitEInv
<1>2. Buffers
  BY WireAssumption, EncryptAssumption DEF EncInit, Buffers, Run, RunLen
<1>3. Stream(0)
  <2>1. WireShape(0) /\ Bytes(0)
    BY DEF EncInit, WireShape, Bytes
  <2>2. HashedAll(0)
    BY DEF EncInit, HashedAll
  <2>3. PlaceShape(0)
    BY DEF EncInit, PlaceShape, Running, Success, UsageError
  <2>4. QED
    BY <2>1, <2>2, <2>3 DEF Stream
<1>4. QED
  BY <1>1, <1>2, <1>3 DEF SInv

\* The items at the beginning of the wire stay what they are.
LEMMA BodyStays ==
    ASSUME NEW n \in Nat, Body(n), mode' = mode, Len(wire') >= n + 1,
           \A i \in 1 .. n + 1 : wire'[i] = wire[i]
    PROVE  /\ Body(n)'
           /\ \A i \in 1..n : Tag(i)' = Tag(i) /\ Data(i)' = Data(i)
<1>1. \A i \in 1..n : wire'[i + 1] = wire[i + 1]
  OBVIOUS
<1>2. \A i \in 1..n : Tag(i)' = Tag(i) /\ Data(i)' = Data(i)
  BY <1>1 DEF Tag, Data
<1>3. \A i \in 1..n : ChunkAt(i)'
  BY <1>1, <1>2 DEF Body, ChunkAt
<1>4. wire'[1] = TheHeader'
  BY DEF Body, TheHeader
<1>5. QED
  BY <1>2, <1>3, <1>4 DEF Body

\* Bytes, Hash and Shape for a step that leaves wire, hashed and mode alone.
LEMMA WireStays ==
    ASSUME NEW n \in Nat, WireShape(n), HashedAll(n), Bytes(n),
           UNCHANGED <<wire, hashed, mode>>, src_len \in Nat, src_len' \in Nat,
           src_len <= src_len', wire \in Seq(Items)
    PROVE  (WireShape(n) /\ HashedAll(n) /\ Bytes(n))'
           /\ (Body(n) => Body(n)') /\ TheTrailer' = TheTrailer
           /\ Tag(n)' = Tag(n)
<1>1. \A i \in Int : Tag(i)' = Tag(i) /\ Data(i)' = Data(i)
  BY DEF Tag, Data
<1>2. TheHeader' = TheHeader /\ TheTrailer' = TheTrailer
  BY DEF TheHeader, TheTrailer
<1>3. Body(n)' <=> Body(n)
  BY <1>1, <1>2 DEF Body, ChunkAt
<1>4. WireShape(n)'
  BY <1>1, <1>2, <1>3 DEF WireShape, Terminal
<1>5. HashedAll(n)'
  BY <1>1 DEF HashedAll
<1>6. Bytes(n)'
  <2> SUFFICES ASSUME NEW i \in 1..n
               PROVE  /\ Data(i)'.lo = (IF i = 1 THEN 0 ELSE Data(i - 1)'.hi)
                      /\ Data(i)'.lo <= Data(i)'.hi
                      /\ Data(i)'.hi <= src_len'
                      /\ Tag(i)' = 0 => Data(i)'.hi < src_len'
                      /\ STICKY_EOF => /\ Data(i)'.lo = (i - 1) * CHUNK_SIZE
                                       /\ RunLen(Data(i)') <= CHUNK_SIZE
                                       /\ i > 1 => RunLen(Data(i)') > 0
                                       /\ Tag(i)' = 0 =>
                                              RunLen(Data(i)') = CHUNK_SIZE
    BY DEF Bytes, RunLen
  <2>1. Data(i)' = Data(i) /\ Data(i - 1)' = Data(i - 1) /\ Tag(i)' = Tag(i)
    BY <1>1
  <2>2. Data(i).hi \in Int
    <3>1. Body(n)
      BY DEF WireShape
    <3>2. QED
      BY <3>1 DEF Body, ChunkAt, RunSet
  <2>3. QED
    BY <2>1, <2>2 DEF Bytes
<1>7. QED
  BY <1>1, <1>2, <1>3, <1>4, <1>5, <1>6

\* The environment: bytes arrive, the input is closed.
LEMMA FeedSInv ==
    ASSUME SInv, Produce \/ CloseInput
    PROVE  SInv'
<1>1. EInv'
  BY FeedEInv DEF SInv
<1>2. /\ UNCHANGED <<rd, mode, cur_buf, next_buf, chunk_counter, hashed, wire,
                     epc, eexit>>
      /\ src_len' \in {src_len, src_len + 1} /\ src_len' <= MAX_INPUT
      /\ src_len \in Nat /\ wire \in Seq(Items)
  BY EncryptAssumption
  DEF Produce, CloseInput, SInv, Buffers, EInv, EncTypeOK, WireOK
<1>3. PICK n \in Nat : Stream(n)
  BY DEF SInv
<1>4. /\ (WireShape(n) /\ HashedAll(n) /\ Bytes(n))' /\ Tag(n)' = Tag(n)
      /\ Body(n) => Body(n)'
      /\ TheTrailer' = TheTrailer
  BY <1>2, <1>3, WireStays DEF Stream
<1>5. PlaceShape(n)'
  BY <1>2, <1>3, <1>4 DEF Stream, PlaceShape, Terminal
<1>6. Buffers'
  BY <1>2 DEF SInv, Buffers
<1>7. QED
  BY <1>1, <1>4, <1>5, <1>6 DEF SInv, Stream

\* Leaving with an error: at most a part of an item is added.
LEMMA FailSInv ==
    ASSUME SInv, SetupFails \/ ReadFails \/ WriteFails
    PROVE  SInv'
<1>1. EInv'
  BY FailEInv DEF SInv
<1>2. /\ UNCHANGED <<src_len, rd, mode, cur_buf, next_buf, chunk_counter, hashed>>
      /\ wire' = wire \/ wire' = Append(wire, Cut)
      /\ epc' = "exit"
      /\ eexit' \in {IoError, UsageError}
      /\ eexit' = UsageError => epc = "setup" /\ wire' = wire
      /\ epc \in {"setup", "fill_cur", "fill_next", "emit", "finish"}
  BY DEF SetupFails, KeyIntake, ReadFails, WriteFails, Exit, IoError, UsageError
<1>3. PICK n \in Nat : Stream(n)
  BY DEF SInv
<1>4. src_len \in Nat /\ wire \in Seq(Items)
  BY DEF SInv, EInv, EncTypeOK, WireOK
<1>5. Buffers'
  BY <1>2 DEF SInv, Buffers
<1>6. PlaceShape(n)'
  BY <1>2, <1>3 DEF Stream, PlaceShape, Running, Success, IoError, UsageError
<1>7. CASE wire' = wire
  BY <1>1, <1>2, <1>3, <1>4, <1>5, <1>6, <1>7, WireStays DEF SInv, Stream
<1>8. CASE wire' = Append(wire, Cut)
  <2>1. /\ Len(wire') = Len(wire) + 1 /\ wire'[Len(wire) + 1] = Cut
        /\ \A i \in 1..Len(wire) : wire'[i] = wire[i]
        /\ Len(wire) \in Nat
    BY <1>4, <1>8
  <2>2. wire = << >> \/ (Body(n) /\ Len(wire) = n + 1)
    BY <1>2, <1>3 DEF Stream, PlaceShape
  <2>3. CASE wire = << >>
    <3>1. n = 0 /\ HashedAll(n)
      BY <1>3, <2>3, <1>4 DEF Stream, WireShape, Body
    <3>2. WireShape(n)' /\ Bytes(n)'
      BY <2>1, <2>3, <3>1 DEF WireShape, Bytes
    <3>3. HashedAll(n)'
      BY <1>2, <3>1 DEF HashedAll
    <3>4. QED
      BY <1>1, <1>5, <1>6, <3>2, <3>3 DEF SInv, Stream
  <2>4. CASE Body(n) /\ Len(wire) = n + 1
    <3>1. Body(n)' /\ \A i \in 1..n : Tag(i)' = Tag(i) /\ Data(i)' = Data(i)
      BY <1>2, <2>1, <2>4, BodyStays
    <3>2. WireShape(n)'
      BY <2>1, <2>4, <3>1 DEF WireShape
    <3>3. HashedAll(n)'
      BY <1>2, <1>3, <3>1 DEF Stream, HashedAll
    <3>4. Bytes(n)'
      BY <1>2, <1>3, <3>1 DEF Stream, Bytes
    <3>5. QED
      BY <1>1, <1>5, <1>6, <3>2, <3>3, <3>4 DEF SInv, Stream
  <2>5. QED
    BY <2>2, <2>3, <2>4
<1>9. QED
  BY <1>2, <1>7, <1>8

\* The header.
LEMMA HeaderSInv ==
    ASSUME SInv, WriteHeader
    PROVE  SInv'
<1>1. EInv'
  BY ReadEInv DEF SInv
<1>2. /\ UNCHANGED <<src_len, rd, mode, cur_buf, next_buf, chunk_counter, hashed,
                     eexit>>
      /\ wire' = << TheHeader >> /\ epc = "setup" /\ epc' = "fill_cur"
      /\ wire = << >> /\ chunk_counter = 0 /\ eexit = Running
  BY DEF WriteHeader, TheHeader, SInv, EInv, Control
<1>3. PICK n \in Nat : Stream(n)
  BY DEF SInv
<1>4. n = 0
  BY <1>2, <1>3 DEF Stream, WireShape, Body
<1>5. Len(wire') = 1 /\ wire'[1] = TheHeader /\ TheHeader' = TheHeader
  BY <1>2 DEF TheHeader
<1>6. WireShape(0)' /\ Body(0)' /\ Bytes(0)'
  BY <1>5 DEF WireShape, Body, Bytes
<1>7. HashedAll(0)'
  BY <1>2, <1>3, <1>4 DEF Stream, HashedAll
<1>8. PlaceShape(0)'
  BY <1>2, <1>5, <1>6 DEF PlaceShape, Running, Success, UsageError
<1>9. Buffers'
  BY <1>2 DEF SInv, Buffers
<1>10. QED
  BY <1>1, <1>6, <1>7, <1>8, <1>9 DEF SInv, Stream

\* The reads: fill_buffer never overfills a buffer, and a lookahead that follows
\* a chunk is looked at only when the buffer in front of it is settled.
LEMMA ReadSInv ==
    ASSUME SInv, ReadCur \/ CurFilled \/ ReadNext \/ NextFilled
    PROVE  SInv'
<1>1. EInv'
  BY ReadEInv DEF SInv
<1>2. /\ UNCHANGED <<src_len, mode, chunk_counter, hashed, wire, eexit>>
      /\ epc \in {"fill_cur", "fill_next"} /\ epc' \in {"fill_cur", "fill_next", "emit"}
      /\ epc' = "fill_cur" => epc = "fill_cur"
  BY DEF ReadCur, CurFilled, ReadNext, NextFilled
<1>3. PICK n \in Nat : Stream(n)
  BY DEF SInv
<1>4. src_len \in Nat /\ wire \in Seq(Items)
  BY DEF SInv, EInv, EncTypeOK, WireOK
<1>5. /\ (WireShape(n) /\ HashedAll(n) /\ Bytes(n))' /\ Tag(n)' = Tag(n)
      /\ Body(n) => Body(n)'
      /\ TheTrailer' = TheTrailer
  BY <1>2, <1>3, <1>4, WireStays DEF Stream
<1>6. PlaceShape(n)'
  <2>1. Body(n) /\ Len(wire) = n + 1 /\ n = chunk_counter /\ (n > 0 => Tag(n) = 0)
        /\ (epc = "fill_cur" => n = 0) /\ eexit = Running
    BY <1>2, <1>3 DEF Stream, PlaceShape, SInv, EInv, Control
  <2>2. QED
    BY <1>2, <1>5, <2>1 DEF PlaceShape, Running, Success, UsageError
<1>7. Buffers'
  <2>0. /\ cur_buf.lo \in Nat /\ cur_buf.hi \in Nat /\ rd \in Nat
        /\ next_buf.lo \in Nat /\ next_buf.hi \in Nat
        /\ chunk_counter \in Nat /\ CHUNK_SIZE \in Nat
    BY WireAssumption DEF SInv, EInv, EncTypeOK, RunSet
  <2>1. CASE ReadCur
    <3>1. PICK k \in 1..CHUNK_SIZE : /\ Fill(cur_buf, k)
                                     /\ cur_buf' = Run(cur_buf.lo, cur_buf.hi + k)
      BY <2>1 DEF ReadCur
    <3>2. RunLen(cur_buf') = RunLen(cur_buf) + k /\ RunLen(cur_buf) + k <= CHUNK_SIZE
      BY <2>0, <3>1 DEF Fill, Run, RunLen
    <3>3. epc' = "fill_cur" /\ next_buf' = next_buf
      BY <2>1 DEF ReadCur
    <3>4. QED
      BY <1>2, <3>2, <3>3 DEF SInv, Buffers, RunLen
  <2>2. CASE CurFilled
    <3>1. next_buf' = Run(rd, rd) /\ cur_buf' = cur_buf /\ epc = "fill_cur"
      BY <2>2 DEF CurFilled
    <3>2. chunk_counter = 0
      BY <1>3, <3>1 DEF Stream, PlaceShape
    <3>3. QED
      BY <1>2, <2>0, <3>1, <3>2 DEF SInv, Buffers, Run, RunLen
  <2>3. CASE ReadNext
    <3>1. PICK k \in 1..CHUNK_SIZE : /\ Fill(next_buf, k)
                                     /\ next_buf' = Run(next_buf.lo, next_buf.hi + k)
      BY <2>3 DEF ReadNext
    <3>2. RunLen(next_buf') = RunLen(next_buf) + k /\ RunLen(next_buf) + k <= CHUNK_SIZE
      BY <2>0, <3>1 DEF Fill, Run, RunLen
    <3>3. epc' = epc /\ epc = "fill_next" /\ cur_buf' = cur_buf
      BY <2>3 DEF ReadNext
    <3>4. QED
      BY <1>2, <3>2, <3>3 DEF SInv, Buffers, RunLen
  <2>4. CASE NextFilled
    BY <1>2, <2>4 DEF NextFilled, SInv, Buffers, RunLen
  <2>5. QED
    BY <2>1, <2>2, <2>3, <2>4
<1>8. QED
  BY <1>1, <1>5, <1>6, <1>7 DEF SInv, Stream

\* One chunk more, where the one before it ended.
LEMMA EmitSInv ==
    ASSUME SInv, EmitChunk
    PROVE  SInv'
<1>1. EInv'
  BY EmitEInv DEF SInv
<1>2. PICK n \in Nat : Stream(n)
  BY DEF SInv
<1>3. /\ epc = "emit"
      /\ wire' = Append(wire, Chunk(Session, mode, Recipient, chunk_counter,
                                    TermTag, cur_buf))
      /\ UNCHANGED <<src_len, src_open, rd, mode>>
  BY DEF EmitChunk
<1>4. /\ Body(n) /\ Len(wire) = n + 1 /\ n = chunk_counter
      /\ n > 0 => Tag(n) = 0
  BY <1>2, <1>3 DEF Stream, PlaceShape
<1>5. /\ cur_buf \in RunSet /\ cur_buf.lo \in Nat /\ cur_buf.hi \in Nat
      /\ next_buf \in RunSet /\ next_buf.lo \in Nat /\ next_buf.hi \in Nat
      /\ rd \in Nat /\ src_len \in Nat /\ rd <= src_len /\ wire \in Seq(Items)
      /\ cur_buf.lo <= cur_buf.hi /\ next_buf.lo <= next_buf.hi
      /\ hashed \in Seq(RunSet) /\ CHUNK_SIZE \in Nat
  BY WireAssumption DEF SInv, EInv, EncTypeOK, Lengths, WireOK, RunSet
<1>6. /\ cur_buf.lo = WireEnd /\ cur_buf.hi = next_buf.lo /\ next_buf.hi = rd
      /\ STICKY_EOF /\ RunLen(cur_buf) # CHUNK_SIZE => RunLen(next_buf) = 0
      /\ eexit = Running
  BY <1>3 DEF SInv, EInv, Control
<1>7. /\ TermTag \in {0, 1}
      /\ TermTag = 0 <=> RunLen(next_buf) # 0
  BY DEF TermTag
<1> DEFINE k == Chunk(Session, mode, Recipient, n, TermTag, cur_buf)
<1>8. /\ wire' = Append(wire, k)
      /\ k.term_tag = TermTag /\ k.box.data = cur_buf
  BY <1>3, <1>4, ChunkFields
<1>9. k = Chunk(Session, mode, Recipient, n, k.term_tag, k.box.data)
  BY <1>8
<1> HIDE DEF k
<1>10. /\ Len(wire') = n + 2 /\ wire'[n + 2] = k
       /\ \A i \in 1 .. n + 1 : wire'[i] = wire[i]
  BY <1>4, <1>5, <1>8
<1>11. Body(n)' /\ \A i \in 1..n : Tag(i)' = Tag(i) /\ Data(i)' = Data(i)
  BY <1>3, <1>4, <1>10, BodyStays
<1>12. Tag(n + 1)' = TermTag /\ Data(n + 1)' = cur_buf
  BY <1>8, <1>10 DEF Tag, Data
<1>13. ChunkAt(n + 1)'
  BY <1>3, <1>5, <1>7, <1>8, <1>9, <1>10, <1>12 DEF ChunkAt
<1>14. Body(n + 1)' /\ WireShape(n + 1)'
  <2>1. \A i \in 1 .. n + 1 : ChunkAt(i)'
    BY <1>11, <1>13 DEF Body
  <2>2. \A i \in 1..n : Tag(i)' = 0
    BY <1>4, <1>11 DEF Body
  <2>3. Body(n + 1)'
    BY <1>10, <1>11, <2>1, <2>2 DEF Body
  <2>4. QED
    BY <1>10, <2>3 DEF WireShape
<1>15. HashedAll(n + 1)'
  <2> SUFFICES ASSUME mode = Authenticated
               PROVE  hashed' = [i \in 1 .. n + 1 |-> Data(i)']
    BY <1>3 DEF HashedAll
  <2>1. hashed = [i \in 1..n |-> Data(i)] /\ hashed' = Append(hashed, cur_buf)
    BY <1>2 DEF Stream, HashedAll, EmitChunk
  <2>2. Len(hashed) = n
    BY <1>5, <2>1
  <2>3. /\ DOMAIN hashed' = 1 .. n + 1
        /\ \A i \in 1..n : hashed'[i] = Data(i)'
        /\ hashed'[n + 1] = Data(n + 1)'
    BY <1>5, <1>11, <1>12, <2>1, <2>2
  <2>4. \A i \in 1 .. n + 1 : hashed'[i] = Data(i)'
    BY <2>3
  <2>5. hashed' \in Seq(RunSet)
    BY <1>5, <2>1
  <2>6. QED
    BY <2>3, <2>4, <2>5
<1>16. Bytes(n + 1)'
  <2>1. WireEnd = IF n = 0 THEN 0 ELSE Data(n).hi
    BY <1>4 DEF WireEnd, Data
  <2>2. cur_buf.hi <= src_len /\ (TermTag = 0 => cur_buf.hi < src_len)
    BY <1>5, <1>6, <1>7 DEF RunLen
  <2>3. ASSUME STICKY_EOF
        PROVE  /\ cur_buf.lo = n * CHUNK_SIZE
               /\ RunLen(cur_buf) <= CHUNK_SIZE
               /\ n > 0 => RunLen(cur_buf) > 0
               /\ TermTag = 0 => RunLen(cur_buf) = CHUNK_SIZE
    <3>1. cur_buf.lo = n * CHUNK_SIZE
      <4>1. CASE n = 0
        BY <1>5, <1>6, <2>1, <4>1
      <4>2. CASE n > 0
        <5>1. /\ Data(n).lo = (n - 1) * CHUNK_SIZE
              /\ RunLen(Data(n)) = CHUNK_SIZE
          BY <1>2, <1>4, <2>3, <4>2 DEF Stream, Bytes
        <5>2. Data(n).lo \in Nat /\ Data(n).hi \in Nat
          BY <1>4, <4>2 DEF Body, ChunkAt, RunSet
        <5>3. (n - 1) * CHUNK_SIZE + CHUNK_SIZE = n * CHUNK_SIZE
          <6>1. n - 1 \in Nat /\ (n - 1) + 1 = n
            BY <4>2
          <6>2. (n - 1) * CHUNK_SIZE + CHUNK_SIZE = ((n - 1) + 1) * CHUNK_SIZE
            BY <1>5, <6>1, NextStart
          <6>3. QED
            BY <6>1, <6>2
        <5>4. Data(n).hi = n * CHUNK_SIZE
          <6>1. Data(n).hi - Data(n).lo = CHUNK_SIZE
            BY <5>1 DEF RunLen
          <6>2. Data(n).hi = Data(n).lo + CHUNK_SIZE
            BY <1>5, <5>2, <6>1
          <6>3. QED
            BY <5>1, <5>3, <6>2
        <5>5. QED
          BY <1>6, <2>1, <4>2, <5>4
      <4>3. QED
        BY <4>1, <4>2
    <3>2. QED
      BY <1>3, <1>4, <1>6, <1>7, <2>3, <3>1 DEF SInv, Buffers
  <2> SUFFICES ASSUME NEW i \in 1 .. n + 1
               PROVE  /\ Data(i)'.lo = (IF i = 1 THEN 0 ELSE Data(i - 1)'.hi)
                      /\ Data(i)'.lo <= Data(i)'.hi
                      /\ Data(i)'.hi <= src_len
                      /\ Tag(i)' = 0 => Data(i)'.hi < src_len
                      /\ STICKY_EOF => /\ Data(i)'.lo = (i - 1) * CHUNK_SIZE
                                       /\ RunLen(Data(i)') <= CHUNK_SIZE
                                       /\ i > 1 => RunLen(Data(i)') > 0
                                       /\ Tag(i)' = 0 =>
                                              RunLen(Data(i)') = CHUNK_SIZE
    BY <1>3 DEF Bytes, RunLen
  <2>4. CASE i \in 1..n
    <3>1. Data(i)' = Data(i) /\ Tag(i)' = Tag(i)
          /\ (i > 1 => Data(i - 1)' = Data(i - 1))
      BY <1>11, <2>4
    <3>2. QED
      BY <1>2, <2>4, <3>1 DEF Stream, Bytes
  <2>5. CASE i = n + 1
    <3>1. Data(i)' = cur_buf /\ Tag(i)' = TermTag /\ i - 1 = n
          /\ (i > 1 => Data(i - 1)' = Data(n))
      BY <1>11, <1>12, <2>5
    <3>2. QED
      BY <1>5, <1>6, <2>1, <2>2, <2>3, <2>5, <3>1
  <2>6. QED
    BY <2>4, <2>5
<1>17. PlaceShape(n + 1)' /\ Buffers'
  <2>0. COUNTER_MAX \in Nat /\ chunk_counter \in 0..COUNTER_MAX
    BY WireAssumption DEF SInv, EInv, EncTypeOK
  <2>1. CASE CheckedAdd(chunk_counter) = {}
    <3>1. /\ epc' = "exit" /\ eexit' = UsageError
          /\ UNCHANGED <<cur_buf, next_buf, chunk_counter>>
      BY <2>1 DEF EmitChunk, Exit
    <3>2. chunk_counter = COUNTER_MAX
      BY <2>1 DEF CheckedAdd
    <3>3. QED
      BY <1>3, <3>1, <3>2
      DEF PlaceShape, SInv, Buffers, RunLen, Running, Success, UsageError
  <2>2. CASE CheckedAdd(chunk_counter) # {} /\ RunLen(next_buf) = 0
    <3>1. epc' = "finish" /\ UNCHANGED <<cur_buf, next_buf, eexit>>
      BY <2>2 DEF EmitChunk
    <3>2. Tag(n + 1)' = 1
      BY <1>7, <1>12, <2>2
    <3>3. QED
      BY <1>3, <1>6, <1>10, <1>14, <3>1, <3>2
      DEF PlaceShape, Terminal, SInv, Buffers, RunLen, Running, Success, UsageError
  <2>3. CASE CheckedAdd(chunk_counter) # {} /\ RunLen(next_buf) # 0
    <3>1. /\ epc' = "fill_next" /\ eexit' = eexit
          /\ cur_buf' = next_buf /\ next_buf' = Run(rd, rd)
          /\ chunk_counter' \in CheckedAdd(chunk_counter)
      BY <2>3 DEF EmitChunk, Swapped
    <3>2. chunk_counter' = n + 1
      BY <1>4, <3>1 DEF CheckedAdd
    <3>3. Tag(n + 1)' = 0
      BY <1>7, <1>12, <2>3
    <3>4. PlaceShape(n + 1)'
      BY <1>6, <1>10, <1>14, <3>1, <3>2, <3>3
      DEF PlaceShape, Running, Success, UsageError
    <3>5. RunLen(next_buf') = 0 /\ RunLen(cur_buf') > 0
      BY <1>5, <2>3, <3>1 DEF Run, RunLen
    <3>6. Buffers'
      BY <1>3, <1>5, <3>1, <3>5 DEF SInv, Buffers, RunLen
    <3>7. QED
      BY <3>4, <3>6
  <2>4. QED
    BY <2>1, <2>2, <2>3
<1>18. n + 1 \in Nat /\ Stream(n + 1)'
  BY <1>14, <1>15, <1>16, <1>17 DEF Stream
<1>19. QED
  BY <1>1, <1>17, <1>18 DEF SInv

\* The trailer, over the runs of all the chunks.
LEMMA FinishSInv ==
    ASSUME SInv, Finish
    PROVE  SInv'
<1>1. EInv'
  BY FinishEInv DEF SInv
<1>2. PICK n \in Nat : Stream(n)
  BY DEF SInv
<1>3. /\ epc = "finish" /\ epc' = "exit" /\ eexit' = Success
      /\ UNCHANGED <<src_len, rd, mode, cur_buf, next_buf, chunk_counter, hashed>>
      /\ wire' = IF mode = Authenticated THEN Append(wire, TheTrailer) ELSE wire
  BY DEF Finish, Exit, TheTrailer, TheHeader
<1>4. Body(n) /\ Len(wire) = n + 1 /\ Terminal(n)
  BY <1>2, <1>3 DEF Stream, PlaceShape
<1>5. wire \in Seq(Items)
  BY DEF SInv, EInv, WireOK
<1>6. /\ Len(wire') = IF mode = Authenticated THEN n + 2 ELSE n + 1
      /\ mode = Authenticated => wire'[n + 2] = TheTrailer
      /\ \A i \in 1 .. n + 1 : wire'[i] = wire[i]
  <2>1. CASE mode = Authenticated
    <3> HIDE DEF TheTrailer
    <3>1. wire' = Append(wire, TheTrailer)
      BY <1>3, <2>1
    <3>2. QED
      BY <1>4, <1>5, <2>1, <3>1
  <2>2. CASE mode # Authenticated
    BY <1>3, <1>4, <2>2
  <2>3. QED
    BY <2>1, <2>2
<1>7. Body(n)' /\ \A i \in 1..n : Tag(i)' = Tag(i) /\ Data(i)' = Data(i)
  BY <1>3, <1>4, <1>6, BodyStays
<1>8. TheTrailer' = TheTrailer
  BY <1>3 DEF TheTrailer, TheHeader
<1>9. Terminal(n)'
  BY <1>4, <1>7 DEF Terminal
<1>10. WireShape(n)'
  BY <1>3, <1>6, <1>7, <1>8, <1>9 DEF WireShape
<1>11. HashedAll(n)' /\ Bytes(n)'
  BY <1>2, <1>3, <1>7 DEF Stream, HashedAll, Bytes
<1>12. PlaceShape(n)'
  BY <1>3, <1>6, <1>7, <1>8, <1>9
  DEF PlaceShape, Running, Success, UsageError
<1>13. Buffers'
  BY <1>3 DEF SInv, Buffers, RunLen
<1>14. QED
  BY <1>1, <1>10, <1>11, <1>12, <1>13 DEF SInv, Stream

\* Every step of encrypt and of its environment keeps the invariant; so does a
\* write that fails because the reader is gone.
LEMMA SInvStep == SInv /\ [EncNext \/ WriteFails]_encVars => SInv'
<1> SUFFICES ASSUME SInv, [EncNext \/ WriteFails]_encVars PROVE SInv'
  OBVIOUS
<1>1. CASE Produce \/ CloseInput
  BY <1>1, FeedSInv
<1>2. CASE SetupFails \/ ReadFails \/ WriteFails
  BY <1>2, FailSInv
<1>3. CASE WriteHeader
  BY <1>3, HeaderSInv
<1>4. CASE ReadCur \/ CurFilled \/ ReadNext \/ NextFilled
  BY <1>4, ReadSInv
<1>5. CASE EmitChunk
  BY <1>5, EmitSInv
<1>6. CASE Finish
  BY <1>6, FinishSInv
<1>7. CASE UNCHANGED encVars
  <2>1. PICK n \in Nat : Stream(n)
    BY DEF SInv
  <2>2. EInv'
    BY <1>7, EInvStep DEF SInv
  <2>3. src_len \in Nat /\ wire \in Seq(Items)
    BY DEF SInv, EInv, EncTypeOK, WireOK
  <2>4. /\ (WireShape(n) /\ HashedAll(n) /\ Bytes(n))'
        /\ Body(n) => Body(n)'
        /\ TheTrailer' = TheTrailer /\ Tag(n)' = Tag(n)
    BY <1>7, <2>1, <2>3, WireStays DEF encVars, Stream
  <2>5. PlaceShape(n)' /\ Buffers'
    BY <1>7, <2>1, <2>4 DEF encVars, Stream, PlaceShape, Terminal, SInv, Buffers
  <2>6. QED
    BY <2>2, <2>4, <2>5 DEF SInv, Stream
<1>8. QED
  BY <1>1, <1>2, <1>3, <1>4, <1>5, <1>6, <1>7
     DEF EncNext, run_encrypt, Writes, Reads, Fails

\* The wire has the shape of a stream in every state of encrypt.
LEMMA StreamInvariant == EncSpec => []SInv
<1>1. SInv /\ [EncNext]_encVars => SInv'
  BY SInvStep
<1>2. QED
  BY <1>1, InitSInv, PTL DEF EncSpec

-----------------------------------------------------------------------------
(* The stream of a successful run.                                         *)

\* The number of chunks, from where the last one starts and ends.
LEMMA ChunkCountIs ==
    ASSUME NEW n \in Nat \ {0}, NEW len \in Nat,
           (n - 1) * CHUNK_SIZE <= len, len <= n * CHUNK_SIZE,
           n > 1 => (n - 1) * CHUNK_SIZE < len
    PROVE  ChunkCount(len) = n
<1>0. CHUNK_SIZE \in Nat \ {0} /\ n - 1 \in Nat
  BY WireAssumption
<1>1. (n - 1) * CHUNK_SIZE + CHUNK_SIZE = n * CHUNK_SIZE
  <2>1. (n - 1) * CHUNK_SIZE + CHUNK_SIZE = ((n - 1) + 1) * CHUNK_SIZE
    BY <1>0, NextStart
  <2>2. QED
    BY <2>1
<1>2. (n - 1) * CHUNK_SIZE \in Nat /\ n * CHUNK_SIZE \in Nat
  BY <1>0
<1>3. CASE len = 0
  <2>1. ~(n > 1)
    BY <1>2, <1>3
  <2>2. QED
    BY <1>3, <2>1 DEF ChunkCount
<1>4. CASE len # 0
  <2>1. (n - 1) * CHUNK_SIZE < len
    <3>1. CASE n = 1
      BY <1>0, <1>4, <3>1
    <3>2. QED
      BY <3>1
  <2>2. /\ n * CHUNK_SIZE <= len + CHUNK_SIZE - 1
        /\ len + CHUNK_SIZE - 1 < n * CHUNK_SIZE + CHUNK_SIZE
        /\ len + CHUNK_SIZE - 1 \in Nat
    BY <1>0, <1>1, <1>2, <2>1
  <2>3. (len + CHUNK_SIZE - 1) \div CHUNK_SIZE = n
    BY <1>0, <2>2, QuotientBounds
  <2>4. QED
    BY <1>4, <2>3 DEF ChunkCount
<1>5. QED
  BY <1>3, <1>4

\* The chunks of a successful run are those of the canonical stream.
LEMMA SuccessChunks ==
    ASSUME SInv, STICKY_EOF, NEW n \in Nat, Stream(n), eexit = Success
    PROVE  /\ ChunkCount(src_len) = n
           /\ \A i \in 1..n : /\ Data(i) = Slices(src_len)[i]
                              /\ Tag(i) = IF i = n THEN 1 ELSE 0
<1>0. CHUNK_SIZE \in Nat \ {0} /\ src_len \in Nat
  BY WireAssumption DEF SInv, EInv, EncTypeOK
<1>1. /\ n > 0 /\ Tag(n) = 1 /\ Body(n)
      /\ \A i \in 1..n : Tag(i) = IF i = n THEN 1 ELSE 0
  BY DEF Stream, PlaceShape, Terminal, Body
<1>2. \A i \in 1..n : Data(i) \in RunSet /\ Data(i).lo \in Nat /\ Data(i).hi \in Nat
  BY <1>1 DEF Body, ChunkAt, RunSet
<1>3. Data(n).hi = src_len
  <2>1. PICK i \in 1..Len(wire) : /\ wire[i].type = "chunk"
                                  /\ wire[i].term_tag = 1
                                  /\ wire[i].box.data.hi = src_len
    BY DEF SInv, EInv, InputSealed, AllSealed
  <2>2. i \in 2 .. n + 1
    <3>1. i \in 1 .. n + 2 /\ Len(wire) \in {n + 1, n + 2}
      BY <1>1 DEF Stream, PlaceShape
    <3>2. i # 1
      BY <1>1, <2>1, OtherItems DEF Body, TheHeader
    <3>3. i # n + 2
      <4>1. TheTrailer.type # "chunk"
        BY OtherItems DEF TheTrailer
      <4>2. QED
        BY <1>1, <2>1, <4>1 DEF Stream, PlaceShape
    <3>4. QED
      BY <3>1, <3>2, <3>3
  <2>3. Tag(i - 1) = 1 /\ i - 1 \in 1..n
    BY <2>1, <2>2 DEF Tag
  <2>4. i - 1 = n
    BY <1>1, <2>3
  <2>5. QED
    BY <2>1, <2>2, <2>4 DEF Data
<1>4. \A i \in 1..n :
          /\ Data(i).lo = (i - 1) * CHUNK_SIZE
          /\ Data(i).lo <= Data(i).hi
          /\ Data(i).hi - Data(i).lo <= CHUNK_SIZE
          /\ i > 1 => Data(i).hi - Data(i).lo > 0
          /\ i < n => Data(i).hi - Data(i).lo = CHUNK_SIZE
  BY <1>1 DEF Stream, Bytes, RunLen
<1>5. \A i \in 1..n : (i - 1) * CHUNK_SIZE + CHUNK_SIZE = i * CHUNK_SIZE
  <2> SUFFICES ASSUME NEW i \in 1..n
               PROVE  (i - 1) * CHUNK_SIZE + CHUNK_SIZE = i * CHUNK_SIZE
    OBVIOUS
  <2>1. i - 1 \in Nat /\ (i - 1) + 1 = i
    OBVIOUS
  <2>2. (i - 1) * CHUNK_SIZE + CHUNK_SIZE = ((i - 1) + 1) * CHUNK_SIZE
    BY <1>0, <2>1, NextStart
  <2>3. QED
    BY <2>1, <2>2
<1>6. ChunkCount(src_len) = n
  <2>1. n \in 1..n
    BY <1>1
  <2>2. /\ Data(n).lo = (n - 1) * CHUNK_SIZE /\ Data(n).lo \in Nat
        /\ Data(n).lo <= src_len /\ src_len - Data(n).lo <= CHUNK_SIZE
        /\ n > 1 => src_len - Data(n).lo > 0
    BY <1>2, <1>3, <1>4, <2>1
  <2>3. Data(n).lo + CHUNK_SIZE = n * CHUNK_SIZE
    BY <1>5, <2>1, <2>2
  <2>4. src_len <= Data(n).lo + CHUNK_SIZE /\ (n > 1 => Data(n).lo < src_len)
    BY <1>0, <2>2
  <2>5. QED
    BY <1>0, <1>1, <2>2, <2>3, <2>4, ChunkCountIs
<1>7. \A i \in 1..n : Data(i) = Slices(src_len)[i]
  <2> SUFFICES ASSUME NEW i \in 1..n PROVE Data(i) = Slices(src_len)[i]
    OBVIOUS
  <2>1. Slices(src_len)[i] = Run((i - 1) * CHUNK_SIZE,
                                 IF i = n THEN src_len ELSE i * CHUNK_SIZE)
    BY <1>6 DEF Slices
  <2>2. Data(i) = Run(Data(i).lo, Data(i).hi)
    BY <1>2 DEF RunSet, Run
  <2>3. Data(i).lo = (i - 1) * CHUNK_SIZE
    BY <1>4
  <2>4. Data(i).hi = IF i = n THEN src_len ELSE i * CHUNK_SIZE
    <3>1. CASE i = n
      BY <1>3, <3>1
    <3>2. CASE i # n
      <4>1. Data(i).hi - Data(i).lo = CHUNK_SIZE
        BY <1>4, <3>2
      <4>2. Data(i).hi = Data(i).lo + CHUNK_SIZE
        BY <1>0, <1>2, <4>1
      <4>3. QED
        BY <1>5, <2>3, <3>2, <4>2
    <3>3. QED
      BY <3>1, <3>2
  <2>5. QED
    BY <2>1, <2>2, <2>3, <2>4
<1>8. QED
  BY <1>1, <1>6, <1>7

\* Two sequences, put together.
LEMMA Joined ==
    ASSUME NEW T, NEW a \in Seq(T), NEW b \in Seq(T)
    PROVE  /\ a \o b \in Seq(T)
           /\ Len(a \o b) = Len(a) + Len(b) /\ Len(a) \in Nat /\ Len(b) \in Nat
           /\ \A i \in 1..Len(a) + Len(b) :
                  (a \o b)[i] = IF i <= Len(a) THEN a[i] ELSE b[i - Len(a)]
  OBVIOUS

\* One item, a sequence and another one, put together.
LEMMA Concatenated ==
    ASSUME NEW T, NEW h \in T, NEW b \in Seq(T), NEW t \in Seq(T)
    PROVE  LET s == << h >> \o b \o t
           IN  /\ s \in Seq(T)
               /\ Len(s) = 1 + Len(b) + Len(t)
               /\ s[1] = h
               /\ \A i \in 1..Len(b) : s[i + 1] = b[i]
               /\ \A i \in 1..Len(t) : s[Len(b) + 1 + i] = t[i]
<1> DEFINE a == << h >>
           u == a \o b
<1>1. a \in Seq(T) /\ Len(a) = 1 /\ a[1] = h
  OBVIOUS
<1> HIDE DEF a
<1>2. u \in Seq(T) /\ Len(u) = 1 + Len(b) /\ Len(b) \in Nat
  BY <1>1, Joined
<1>3. \A i \in 1 .. Len(a) + Len(b) : u[i] = IF i <= Len(a) THEN a[i] ELSE b[i - Len(a)]
  BY <1>1, Joined
<1>4. u[1] = h /\ \A i \in 1..Len(b) : u[i + 1] = b[i]
  BY <1>1, <1>2, <1>3
<1> HIDE DEF u
<1> DEFINE s == u \o t
<1>5. s \in Seq(T) /\ Len(s) = 1 + Len(b) + Len(t) /\ Len(t) \in Nat
  BY <1>2
<1>6. \A i \in 1..Len(s) : s[i] = IF i <= Len(u) THEN u[i] ELSE t[i - Len(u)]
  BY <1>2
<1> HIDE DEF s
<1>7. s[1] = h /\ \A i \in 1..Len(b) : s[i + 1] = b[i]
  BY <1>2, <1>4, <1>5, <1>6
<1>8. ASSUME NEW i \in 1..Len(t) PROVE s[Len(b) + 1 + i] = t[i]
  <2>1. Len(b) + 1 + i \in 1..Len(s) /\ ~(Len(b) + 1 + i <= Len(u))
        /\ (Len(b) + 1 + i) - Len(u) = i
    BY <1>2, <1>5
  <2>2. QED
    BY <1>6, <2>1
<1>9. QED
  BY <1>5, <1>7, <1>8 DEF s, u, a

\* The canonical stream of n chunks, place by place.
Canonical(s, n, session, m, recip, sender, len) ==
    /\ DOMAIN s = 1..Len(s)
    /\ Len(s) = IF m = Authenticated THEN n + 2 ELSE n + 1
    /\ s[1] = Header(session, m, recip)
    /\ \A i \in 1..n : s[i + 1] = Chunk(session, m, recip, i - 1,
                                        IF i = n THEN 1 ELSE 0, Slices(len)[i])
    /\ m = Authenticated =>
           s[n + 2] = Trailer(sender, Header(session, m, recip).hmac, Slices(len))

\* CanonicalStream is that.
LEMMA CanonicalPlaces ==
    ASSUME NEW session, NEW m, NEW recip, NEW sender, NEW len \in Nat,
           ChunkCount(len) \in Nat
    PROVE  Canonical(CanonicalStream(session, m, recip, sender, len),
                     ChunkCount(len), session, m, recip, sender, len)
<1> DEFINE n == ChunkCount(len)
<1>0. n \in Nat
  OBVIOUS
<1> HIDE DEF n
<1> DEFINE h == Header(session, m, recip)
           C(i) == Chunk(session, m, recip, i - 1, IF i = n THEN 1 ELSE 0,
                         Slices(len)[i])
           b == [i \in 1..n |-> C(i)]
           t == IF m = Authenticated THEN << Trailer(sender, h.hmac, Slices(len)) >>
                ELSE << >>
           T == {h} \cup {C(i) : i \in 1..n}
                \cup {Trailer(sender, h.hmac, Slices(len))}
<1>1. CanonicalStream(session, m, recip, sender, len) = << h >> \o b \o t
  BY DEF CanonicalStream, n
<1>2. << h >> \in Seq(T) /\ t \in Seq(T) /\ b \in Seq(T)
  <2>1. \A i \in 1..n : C(i) \in T
    OBVIOUS
  <2>2. b \in [1..n -> T]
    BY <2>1
  <2>3. b \in Seq(T)
    BY <1>0, <2>2
  <2>4. h \in T /\ Trailer(sender, h.hmac, Slices(len)) \in T
    OBVIOUS
  <2> HIDE DEF T, h
  <2>5. QED
    BY <2>3, <2>4
<1>3. Len(<< h >>) = 1 /\ Len(b) = n
      /\ Len(t) = IF m = Authenticated THEN 1 ELSE 0
  BY <1>0
<1>4. << h >>[1] = h /\ \A i \in 1..n : b[i] = C(i)
  OBVIOUS
<1>5. m = Authenticated => t[1] = Trailer(sender, h.hmac, Slices(len))
  OBVIOUS
<1>6. h \in T
  OBVIOUS
<1> DEFINE s == << h >> \o b \o t
<1> HIDE DEF C, b, t, T, h
<1>7. /\ s \in Seq(T) /\ Len(s) = 1 + Len(b) + Len(t) /\ s[1] = h
      /\ \A i \in 1..Len(b) : s[i + 1] = b[i]
      /\ \A i \in 1..Len(t) : s[Len(b) + 1 + i] = t[i]
  BY <1>2, <1>6, Concatenated
<1> HIDE DEF s
<1>8. /\ DOMAIN s = 1..Len(s)
      /\ Len(s) = IF m = Authenticated THEN n + 2 ELSE n + 1
      /\ s[1] = h
      /\ \A i \in 1..n : s[i + 1] = C(i)
      /\ m = Authenticated => s[n + 2] = t[1]
  BY <1>0, <1>3, <1>4, <1>7
<1>9. CanonicalStream(session, m, recip, sender, len) = s
  BY <1>1 DEF s
<1>10. QED
  BY <1>5, <1>8, <1>9 DEF C, h, n, Canonical

\* The runs that the trailer signs are the slices of the input.
LEMMA SuccessSlices ==
    ASSUME SInv, STICKY_EOF, NEW n \in Nat, Stream(n), eexit = Success
    PROVE  [i \in 1..n |-> Data(i)] = Slices(src_len)
  BY SuccessChunks DEF Slices

\* On success stdout holds the canonical stream of the input: for every chunk
\* size, every length and every sequence of short reads, provided stdin, once at
\* its end, stays there.
THEOREM CanonicalCorrect ==
    ASSUME STICKY_EOF
    PROVE  EncSpec => []StreamIsCanonical
<1>1. SInv => StreamIsCanonical
  <2> SUFFICES ASSUME SInv, eexit = Success
               PROVE  wire = CanonicalStream(Session, mode, Recipient, Sender,
                                             src_len)
    BY DEF StreamIsCanonical
  <2> DEFINE s == CanonicalStream(Session, mode, Recipient, Sender, src_len)
  <2>1. PICK n \in Nat : Stream(n)
    BY DEF SInv
  <2>2. /\ ChunkCount(src_len) = n
        /\ \A i \in 1..n : /\ Data(i) = Slices(src_len)[i]
                           /\ Tag(i) = IF i = n THEN 1 ELSE 0
    BY <2>1, STICKY_EOF, SuccessChunks
  <2>3. /\ Body(n)
        /\ Len(wire) = IF mode = Authenticated THEN n + 2 ELSE n + 1
        /\ mode = Authenticated =>
               wire[n + 2] = Trailer(Sender, TheHeader.hmac, hashed)
    BY <2>1 DEF Stream, PlaceShape, TheTrailer
  <2>4. mode = Authenticated => hashed = Slices(src_len)
    BY <2>1, STICKY_EOF, SuccessSlices DEF Stream, HashedAll
  <2>5. src_len \in Nat /\ wire \in Seq(Items)
    BY DEF SInv, EInv, EncTypeOK, WireOK
  <2>6. Canonical(s, n, Session, mode, Recipient, Sender, src_len)
    BY <2>2, <2>5, CanonicalPlaces
  <2> HIDE DEF s
  <2>7. \A i \in 1..n : wire[i + 1] = s[i + 1]
    BY <2>2, <2>3, <2>6 DEF Body, ChunkAt, Canonical
  <2>8. wire[1] = s[1] /\ (mode = Authenticated => wire[n + 2] = s[n + 2])
    BY <2>3, <2>4, <2>6 DEF Body, TheHeader, Canonical
  <2>9. \A i \in 1..Len(wire) : wire[i] = s[i]
    <3> SUFFICES ASSUME NEW i \in 1..Len(wire) PROVE wire[i] = s[i]
      OBVIOUS
    <3>1. CASE i = 1
      BY <2>8, <3>1
    <3>2. CASE i \in 2 .. n + 1
      <4>1. i - 1 \in 1..n /\ (i - 1) + 1 = i
        BY <3>2
      <4>2. QED
        BY <2>7, <4>1
    <3>3. CASE i = n + 2
      BY <2>3, <2>8, <3>3
    <3>4. QED
      BY <2>3, <3>1, <3>2, <3>3
  <2>10. QED
    <3>1. DOMAIN wire = DOMAIN s
      BY <2>3, <2>5, <2>6 DEF Canonical
    <3>2. wire = [i \in DOMAIN wire |-> wire[i]]
      BY <2>5
    <3>3. s = [i \in DOMAIN s |-> s[i]]
      BY <2>2, <2>5 DEF s, CanonicalStream
    <3>4. QED
      BY <2>5, <2>9, <3>1, <3>2, <3>3 DEF s
<1>2. QED
  BY <1>1, StreamInvariant, PTL

\* A usage error leaves stdout empty, unless the last counter value was reached.
THEOREM UsageErrorCorrect == EncSpec => []UsageErrorIsSilent
<1>1. SInv => UsageErrorIsSilent
  BY DEF SInv, Stream, PlaceShape, UsageErrorIsSilent
<1>2. QED
  BY <1>1, StreamInvariant, PTL

=============================================================================
