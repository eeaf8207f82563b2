---------------------------- MODULE SpoolProofs -----------------------------
(***************************************************************************)
(* Proofs about the spooler, for every memory limit, block size, ceiling   *)
(* and sequence of chunks, with I/O errors and disk faults.                *)
(*                                                                         *)
(* ReleasedInOrder is not inductive: that the next block continues the     *)
(* output follows from what is sealed, not from what was emitted.  IInv    *)
(* adds the chain sealed blocks | old_mem | chunk | mem_buffer, in which   *)
(* every part starts where the one before it ends; that a block in the     *)
(* file which is still intact is the sealed block its nonce names; and     *)
(* that release_to has emitted exactly the first block_idx blocks.         *)
(***************************************************************************)
EXTENDS Spool, TLAPS

\* Block i was sealed under counter i - 1 and continues block i - 1.
SealedChain ==
    \A i \in 1..Len(sealed) :
        /\ sealed[i].nonce = i - 1
        /\ sealed[i].data.lo = (IF i = 1 THEN 0 ELSE sealed[i - 1].data.hi)
        /\ sealed[i].data.lo <= sealed[i].data.hi
        /\ sealed[i].data.hi <= SealedEnd

\* A block of the file that still opens is one that was sealed.
FileAuthentic ==
    \A i \in 1..Len(file) :
        file[i].intact =>
            /\ file[i].nonce + 1 \in 1..Len(sealed)
            /\ file[i].data = sealed[file[i].nonce + 1].data

\* What is sealed, what is being spilled and what is in memory follow on.
BufferChain ==
    /\ block_counter = Len(sealed)
    /\ old_mem.lo <= old_mem.hi
    /\ old_mem.lo < old_mem.hi => /\ SealedEnd = old_mem.lo
                                  /\ old_mem.hi = chunk.lo
    /\ old_mem.lo = old_mem.hi => SealedEnd = chunk.lo
    /\ chunk.lo <= chunk.hi
    /\ mem_buffer.lo <= mem_buffer.hi
    /\ mem_buffer.hi <= total_bytes
    /\ pc # "dropped" => chunk.hi = mem_buffer.lo
    /\ chunk.hi <= mem_buffer.lo

\* What is known at each control point.
Control ==
    /\ pc \in {"open", "spill"} => out = << >> /\ result = "none"
    /\ pc \in {"open", "spill", "release", "flush"} =>
           mem_buffer.hi = total_bytes
    /\ pc \in {"open", "release", "flush"} =>
           old_mem.lo = old_mem.hi /\ chunk.lo = chunk.hi
    /\ pc \in {"open", "release", "flush"} /\ disk_file =>
           mem_buffer.lo = mem_buffer.hi
    /\ pc = "spill" => mem_buffer.lo = mem_buffer.hi
    /\ pc \in {"open", "spill", "release", "flush"} /\ ~disk_file =>
           Len(sealed) = 0
    /\ pc \in {"release", "flush"} => result = "none"
    /\ pc = "release" => /\ block_idx <= Len(sealed)
                         /\ EndOf(out) = (IF block_idx = 0 THEN 0
                                          ELSE sealed[block_idx].data.hi)
    /\ pc = "flush" => EndOf(out) = total_bytes

\* The ceiling bounds what was accepted, and all of it until a refusal.
Ceiling ==
    max_size # None =>
        /\ mem_buffer.hi <= max_size
        /\ pc \in {"open", "spill", "release", "flush"} => total_bytes <= max_size
        /\ out # << >> => total_bytes <= max_size

\* Memory: only what fits is added, and old_mem is a buffer that fitted.
Memory == Held <= MEMORY_SPOOL_LIMIT

IInv == /\ TypeOK
        /\ SealedChain
        /\ FileAuthentic
        /\ BufferChain
        /\ Control
        /\ Ceiling
        /\ Memory
        /\ ReleasedInOrder
        /\ ReleasedAll

-----------------------------------------------------------------------------
(* Runs.                                                                   *)

\* A block is at most as long as its run, and the rest follows it.
LEMMA TakeRest ==
    ASSUME NEW r \in RunSet, r.lo <= r.hi, NEW n \in Nat
    PROVE  /\ Take(r, n) \in RunSet
           /\ Rest(r, n) \in RunSet
           /\ Take(r, n).lo = r.lo
           /\ Take(r, n).lo <= Take(r, n).hi
           /\ Take(r, n).hi <= r.hi
           /\ Rest(r, n).lo = Take(r, n).hi
           /\ Rest(r, n).lo <= Rest(r, n).hi
           /\ Rest(r, n).hi = r.hi
  BY DEF RunSet, Take, Rest, Run, RunLen

\* A run that starts where the sequence ends extends it.
LEMMA AppendContiguous ==
    ASSUME NEW s \in Seq(RunSet), Contiguous(s),
           NEW r \in RunSet, r.lo = EndOf(s), r.lo <= r.hi
    PROVE  /\ Append(s, r) \in Seq(RunSet)
           /\ Contiguous(Append(s, r))
           /\ EndOf(Append(s, r)) = r.hi
           /\ Append(s, r) # << >>
  BY DEF Contiguous, EndOf

-----------------------------------------------------------------------------
(* The inductive invariant.                                                *)

\* A new spooler satisfies the invariant.
LEMMA InitIInv == Init => IInv
<1> SUFFICES ASSUME Init PROVE IInv
  OBVIOUS
<1> USE DEF Init
<1>1. TypeOK
  <2>1. mem_buffer \in RunSet /\ old_mem \in RunSet /\ chunk \in RunSet
    BY DEF Run, RunSet
  <2>2. max_size \in Nat \cup {None}
    BY SpoolAssumption
  <2>3. file \in Seq(Blocks) /\ sealed \in Seq(Blocks) /\ out \in Seq(RunSet)
    OBVIOUS
  <2>4. QED
    BY <2>1, <2>2, <2>3 DEF TypeOK
<1>2. SealedChain /\ FileAuthentic
  BY DEF SealedChain, FileAuthentic
<1>3. BufferChain
  BY DEF BufferChain, SealedEnd, Run
<1>4. Control
  BY DEF Control, Run, EndOf
<1>5. Ceiling
  BY SpoolAssumption DEF Ceiling, Run
<1>6. Memory
  BY SpoolAssumption DEF Memory, Held, RunLen, Run
<1>7. ReleasedInOrder /\ ReleasedAll
  BY DEF ReleasedInOrder, ReleasedAll, Contiguous, EndOf
<1>8. QED
  BY <1>1, <1>2, <1>3, <1>4, <1>5, <1>6, <1>7 DEF IInv

\* write_chunk, up to the point where it starts to flush.
LEMMA WriteIInv ==
    ASSUME IInv, NEW n \in ChunkSizes, write_chunk(n)
    PROVE  IInv'
<1> USE SpoolAssumption DEF IInv
<1>0. n \in Nat
  OBVIOUS
<1>1. CASE WriteRefused(n)
  BY <1>0, <1>1 DEF WriteRefused, ExceedsCeiling, TypeOK, SealedChain,
     FileAuthentic, BufferChain, Control, Ceiling, Memory, Held, SealedEnd,
     ReleasedInOrder, ReleasedAll, Contiguous, EndOf
<1>2. CASE WriteToMemory(n)
  BY <1>0, <1>2 DEF WriteToMemory, ExceedsCeiling, FitsInMemory, TypeOK,
     SealedChain, FileAuthentic, BufferChain, Control, Ceiling, Memory, Held,
     SealedEnd, ReleasedInOrder, ReleasedAll, Run, RunSet, RunLen, EndOf
<1>3. CASE WriteSpill(n)
  <2> USE <1>0, <1>3 DEF WriteSpill
  <2>1. TypeOK'
    BY DEF TypeOK, Run, RunSet
  <2>2. SealedChain' /\ FileAuthentic'
    BY DEF SealedChain, FileAuthentic, SealedEnd
  <2>3. BufferChain'
    BY DEF BufferChain, Control, TypeOK, SealedEnd, Run, RunSet
  <2>4. Control'
    BY DEF Control, BufferChain, TypeOK, Run, RunSet
  <2>5. Ceiling'
    BY DEF Ceiling, ExceedsCeiling, Control, TypeOK, Run, RunSet
  <2>6. Memory'
    BY DEF Memory, Held, BufferChain, Control, TypeOK, RunLen, Run, RunSet
  <2>7. ReleasedInOrder' /\ ReleasedAll'
    BY DEF ReleasedInOrder, ReleasedAll, Control, Contiguous, EndOf, TypeOK
  <2>8. QED
    BY <2>1, <2>2, <2>3, <2>4, <2>5, <2>6, <2>7
<1>4. QED
  BY <1>1, <1>2, <1>3 DEF write_chunk

\* Sealing a run that starts where the sealed bytes end keeps the chain, and
\* the file it is appended to stays authentic.
LEMMA FlushBlockChain ==
    ASSUME TypeOK, SealedChain, FileAuthentic, block_counter = Len(sealed),
           NEW d \in RunSet, d.lo = SealedEnd, d.lo <= d.hi, FlushBlock(d)
    PROVE  /\ SealedChain' /\ FileAuthentic'
           /\ sealed' \in Seq(Blocks) /\ file' \in Seq(Blocks)
           /\ block_counter' \in Nat
           /\ block_counter' = Len(sealed')
           /\ Len(sealed') # 0
           /\ SealedEnd' = d.hi
<1> DEFINE b == SealBlock(block_counter, d)
<1>1. /\ b \in Blocks /\ b.nonce = block_counter /\ b.data = d
  BY DEF TypeOK, SealBlock, Blocks, RunSet, RunLen, build_spool_nonce,
     build_spool_aad
<1>2. /\ sealed' = Append(sealed, b) /\ file' = Append(file, b)
      /\ block_counter' = block_counter + 1
  BY DEF FlushBlock
<1> HIDE DEF b
<1>3. /\ sealed' \in Seq(Blocks) /\ file' \in Seq(Blocks)
      /\ Len(sealed') = Len(sealed) + 1 /\ Len(file') = Len(file) + 1
      /\ \A i \in 1..Len(sealed) : sealed'[i] = sealed[i]
      /\ \A i \in 1..Len(file) : file'[i] = file[i]
      /\ sealed'[Len(sealed) + 1] = b
      /\ file'[Len(file) + 1] = b
  BY <1>1, <1>2 DEF TypeOK
<1>4. /\ Len(sealed) \in Nat /\ Len(file) \in Nat
      /\ \A i \in 1..Len(file) : file[i].nonce \in Nat
      /\ \A i \in 1..Len(sealed) : sealed[i].data \in RunSet
  <2>1. sealed \in Seq(Blocks) /\ file \in Seq(Blocks)
    BY DEF TypeOK
  <2>2. /\ \A i \in 1..Len(file) : file[i] \in Blocks
        /\ \A i \in 1..Len(sealed) : sealed[i] \in Blocks
    BY <2>1
  <2>3. \A x \in Blocks : x.nonce \in Nat /\ x.data \in RunSet
    BY DEF Blocks
  <2>4. QED
    BY <2>1, <2>2, <2>3
<1>5. SealedEnd' = d.hi
  BY <1>1, <1>3, <1>4 DEF SealedEnd
<1>6. SealedChain'
  <2> SUFFICES ASSUME NEW i \in 1..Len(sealed')
               PROVE  /\ sealed'[i].nonce = i - 1
                      /\ sealed'[i].data.lo =
                            (IF i = 1 THEN 0 ELSE sealed'[i - 1].data.hi)
                      /\ sealed'[i].data.lo <= sealed'[i].data.hi
                      /\ sealed'[i].data.hi <= d.hi
    BY <1>5 DEF SealedChain
  <2>1. CASE i \in 1..Len(sealed)
    <3>1. i # 1 => i - 1 \in 1..Len(sealed)
      BY <2>1, <1>4
    <3>2. sealed'[i] = sealed[i] /\ (i # 1 => sealed'[i - 1] = sealed[i - 1])
      BY <2>1, <3>1, <1>3
    <3>3. sealed[i].data.hi \in Nat /\ d.lo \in Nat /\ d.hi \in Nat
      BY <2>1, <1>4 DEF RunSet
    <3>4. sealed[i].data.hi <= d.lo
      BY <2>1 DEF SealedChain
    <3>5. sealed[i].data.hi <= d.hi
      BY <3>3, <3>4
    <3>6. QED
      BY <2>1, <3>2, <3>5 DEF SealedChain
  <2>2. CASE i = Len(sealed) + 1
    <3>1. sealed'[i].nonce = i - 1 /\ sealed'[i].data = d
      BY <2>2, <1>1, <1>3, <1>4
    <3>2. i # 1 => sealed'[i - 1] = sealed[Len(sealed)]
      BY <2>2, <1>3, <1>4
    <3>3. QED
      BY <2>2, <1>4, <3>1, <3>2 DEF SealedEnd, RunSet
  <2>3. QED
    BY <2>1, <2>2, <1>3, <1>4
<1>7. FileAuthentic'
  <2> SUFFICES ASSUME NEW i \in 1..Len(file'), file'[i].intact
               PROVE  /\ file'[i].nonce + 1 \in 1..Len(sealed')
                      /\ file'[i].data = sealed'[file'[i].nonce + 1].data
    BY DEF FileAuthentic
  <2>1. CASE i \in 1..Len(file)
    <3>1. /\ file'[i] = file[i]
          /\ file[i].nonce + 1 \in 1..Len(sealed)
          /\ file[i].data = sealed[file[i].nonce + 1].data
      BY <2>1, <1>3 DEF FileAuthentic
    <3>2. QED
      BY <3>1, <1>3, <1>4
  <2>2. CASE i = Len(file) + 1
    BY <2>2, <1>1, <1>3, <1>4
  <2>3. QED
    BY <2>1, <2>2, <1>3, <1>4
<1>8. QED
  BY <1>2, <1>3, <1>4, <1>5, <1>6, <1>7

\* The flush loops of write_chunk, one block at a time, and its return.
LEMMA SpillIInv ==
    ASSUME IInv, Spill
    PROVE  IInv'
<1> USE SpoolAssumption DEF IInv
<1>1. CASE FlushOldMem
  <2> DEFINE d == Take(old_mem, SPOOL_CHUNK_SIZE)
             r == Rest(old_mem, SPOOL_CHUNK_SIZE)
  <2>0. /\ pc = "spill" /\ old_mem.lo < old_mem.hi /\ old_mem' = r
        /\ FlushBlock(d) /\ disk_file' = TRUE
        /\ UNCHANGED <<mem_buffer, spool_key, total_bytes, max_size, chunk,
                       block_idx, out, pc, result>>
    BY <1>1 DEF FlushOldMem, FlushBlock, RunLen, TypeOK, RunSet
  <2>1. /\ d \in RunSet /\ r \in RunSet
        /\ d.lo = old_mem.lo /\ d.lo <= d.hi
        /\ r.lo = d.hi /\ r.lo <= r.hi /\ r.hi = old_mem.hi
    <3>1. old_mem \in RunSet /\ old_mem.lo \in Nat /\ old_mem.hi \in Nat
      BY DEF TypeOK, RunSet
    <3>2. old_mem.lo <= old_mem.hi
      BY <2>0, <3>1
    <3>3. QED
      BY <3>1, <3>2, TakeRest
  <2>2. d.lo = SealedEnd
    BY <2>0, <2>1 DEF BufferChain
  <2> HIDE DEF d, r
  <2>3. /\ SealedChain' /\ FileAuthentic'
        /\ sealed' \in Seq(Blocks) /\ file' \in Seq(Blocks)
        /\ block_counter' \in Nat
        /\ block_counter' = Len(sealed')
        /\ Len(sealed') # 0
        /\ SealedEnd' = d.hi
    BY <2>0, <2>1, <2>2, FlushBlockChain DEF BufferChain
  <2>4. TypeOK'
    BY <2>0, <2>1, <2>3 DEF TypeOK
  <2>5. BufferChain'
    BY <2>0, <2>1, <2>3 DEF BufferChain, TypeOK, RunSet
  <2>6. Control' /\ Ceiling'
    BY <2>0 DEF Control, Ceiling
  <2>7. Memory'
    <3>1. d.lo \in Nat /\ d.hi \in Nat /\ old_mem.hi \in Nat
      BY <2>1 DEF TypeOK, RunSet
    <3>2. RunLen(old_mem') <= RunLen(old_mem)
      BY <2>0, <2>1, <3>1 DEF RunLen
    <3>3. /\ RunLen(old_mem) \in Int /\ RunLen(old_mem') \in Int
          /\ RunLen(mem_buffer) \in Int
      BY <2>0, <2>1 DEF RunLen, TypeOK, RunSet
    <3>4. QED
      BY <2>0, <3>2, <3>3 DEF Memory, Held
  <2>8. ReleasedInOrder' /\ ReleasedAll'
    BY <2>0 DEF ReleasedInOrder, ReleasedAll
  <2>9. QED
    BY <2>3, <2>4, <2>5, <2>6, <2>7, <2>8
<1>2. CASE FlushChunk
  <2> DEFINE d == Take(chunk, SPOOL_CHUNK_SIZE)
             r == Rest(chunk, SPOOL_CHUNK_SIZE)
  <2>0. /\ pc = "spill" /\ chunk.lo < chunk.hi /\ chunk' = r
        /\ old_mem.lo = old_mem.hi
        /\ FlushBlock(d) /\ disk_file' = TRUE
        /\ UNCHANGED <<mem_buffer, spool_key, total_bytes, max_size, old_mem,
                       block_idx, out, pc, result>>
    BY <1>2 DEF FlushChunk, FlushBlock, OldMemFlushed, RunLen, TypeOK, RunSet
  <2>1. /\ d \in RunSet /\ r \in RunSet
        /\ d.lo = chunk.lo /\ d.lo <= d.hi
        /\ r.lo = d.hi /\ r.lo <= r.hi /\ r.hi = chunk.hi
    <3>1. chunk \in RunSet /\ chunk.lo \in Nat /\ chunk.hi \in Nat
      BY DEF TypeOK, RunSet
    <3>2. chunk.lo <= chunk.hi
      BY <2>0, <3>1
    <3>3. QED
      BY <3>1, <3>2, TakeRest
  <2>2. d.lo = SealedEnd
    BY <2>0, <2>1 DEF BufferChain
  <2> HIDE DEF d, r
  <2>3. /\ SealedChain' /\ FileAuthentic'
        /\ sealed' \in Seq(Blocks) /\ file' \in Seq(Blocks)
        /\ block_counter' \in Nat
        /\ block_counter' = Len(sealed')
        /\ Len(sealed') # 0
        /\ SealedEnd' = d.hi
    BY <2>0, <2>1, <2>2, FlushBlockChain DEF BufferChain
  <2>4. TypeOK'
    BY <2>0, <2>1, <2>3 DEF TypeOK
  <2>5. BufferChain'
    BY <2>0, <2>1, <2>3 DEF BufferChain, TypeOK, RunSet
  <2>6. Control' /\ Ceiling'
    BY <2>0 DEF Control, Ceiling
  <2>7. Memory'
    BY <2>0 DEF Memory, Held
  <2>8. ReleasedInOrder' /\ ReleasedAll'
    BY <2>0 DEF ReleasedInOrder, ReleasedAll
  <2>9. QED
    BY <2>3, <2>4, <2>5, <2>6, <2>7, <2>8
<1>3. CASE WriteReturns
  <2> USE <1>3 DEF WriteReturns, fieldVars
  <2>1. old_mem.lo = old_mem.hi /\ chunk.lo = chunk.hi
    BY DEF TypeOK, RunSet, RunLen
  <2>2. TypeOK' /\ SealedChain' /\ FileAuthentic'
    BY DEF TypeOK, SealedChain, FileAuthentic, SealedEnd
  <2>3. BufferChain'
    BY DEF BufferChain, SealedEnd
  <2>4. Control'
    BY <2>1 DEF Control
  <2>5. Ceiling' /\ Memory' /\ ReleasedInOrder' /\ ReleasedAll'
    BY DEF Ceiling, Memory, Held, ReleasedInOrder, ReleasedAll
  <2>6. QED
    BY <2>2, <2>3, <2>4, <2>5
<1>4. CASE FlushFails
  BY <1>4 DEF FlushFails, TypeOK, SealedChain, FileAuthentic, BufferChain,
     Control, Ceiling, Memory, Held, SealedEnd, ReleasedInOrder, ReleasedAll
<1>5. QED
  BY <1>1, <1>2, <1>3, <1>4 DEF Spill

\* What is read at position block_idx, if it opens, is the block sealed there,
\* and it continues the output.
LEMMA OpenedBlock ==
    ASSUME IInv, pc = "release", block_idx < Len(sealed),
           block_idx < Len(file), Opens(file[block_idx + 1], block_idx)
    PROVE  LET d == file[block_idx + 1].data
           IN  /\ d = sealed[block_idx + 1].data
               /\ d \in RunSet
               /\ d.lo = EndOf(out)
               /\ d.lo <= d.hi
               /\ d.hi <= SealedEnd
<1> USE DEF IInv
<1>1. /\ sealed \in Seq(Blocks) /\ file \in Seq(Blocks) /\ block_idx \in Nat
  BY DEF TypeOK
<1> DEFINE k == block_idx + 1
<1>2. k \in 1..Len(sealed) /\ k \in 1..Len(file)
  BY <1>1
<1>3. file[k].intact /\ file[k].nonce = block_idx
  BY DEF Opens, build_spool_nonce
<1>4. file[k].data = sealed[k].data
  BY <1>2, <1>3 DEF FileAuthentic
<1>5. sealed[k] \in Blocks /\ (k # 1 => sealed[k - 1] \in Blocks)
  BY <1>1, <1>2
<1>6. sealed[k].data \in RunSet
  BY <1>5 DEF Blocks
<1>7. EndOf(out) = (IF block_idx = 0 THEN 0 ELSE sealed[block_idx].data.hi)
  BY DEF Control
<1>8. /\ sealed[k].data.lo = (IF k = 1 THEN 0 ELSE sealed[k - 1].data.hi)
      /\ sealed[k].data.lo <= sealed[k].data.hi
      /\ sealed[k].data.hi <= SealedEnd
  BY <1>2 DEF SealedChain
<1>9. QED
  BY <1>1, <1>4, <1>6, <1>7, <1>8

\* Positions are natural numbers.
LEMMA EndsAreNat ==
    ASSUME TypeOK
    PROVE  /\ out \in Seq(RunSet) /\ block_idx \in Nat /\ total_bytes \in Nat
           /\ Len(sealed) \in Nat /\ SealedEnd \in Nat /\ mem_buffer \in RunSet
           /\ mem_buffer.lo \in Nat /\ mem_buffer.hi \in Nat
<1>1. sealed \in Seq(Blocks)
  BY DEF TypeOK
<1>2. Len(sealed) # 0 => sealed[Len(sealed)] \in Blocks
  BY <1>1
<1>3. SealedEnd \in Nat
  BY <1>2 DEF SealedEnd, Blocks, RunSet
<1>4. Len(sealed) \in Nat
  BY <1>1
<1>5. QED
  BY <1>3, <1>4 DEF TypeOK, RunSet

\* What release_to passes to the output next continues what it has emitted.
LEMMA NextWriteContinues ==
    ASSUME IInv, NEW r \in NextWrite
    PROVE  /\ r \in RunSet
           /\ r.lo = EndOf(out)
           /\ r.lo <= r.hi
           /\ r.hi <= total_bytes
<1> USE DEF IInv
<1>0. /\ total_bytes \in Nat /\ SealedEnd \in Nat /\ mem_buffer \in RunSet
      /\ mem_buffer.lo \in Nat /\ mem_buffer.hi \in Nat
  BY EndsAreNat
<1>1. pc = "release"
  BY DEF NextWrite
<1>2. SealedEnd = mem_buffer.lo
  BY <1>0, <1>1 DEF BufferChain, Control, TypeOK, RunSet
<1>3. CASE ~disk_file
  <2>1. r = mem_buffer
    BY <1>1, <1>3 DEF NextWrite
  <2>2. Len(sealed) = 0 /\ mem_buffer.hi = total_bytes
    BY <1>1, <1>3 DEF Control
  <2>3. mem_buffer.lo = EndOf(out) /\ mem_buffer.lo <= mem_buffer.hi
    BY <1>0, <1>1, <1>2, <2>2 DEF Control, BufferChain, SealedEnd, TypeOK
  <2>4. QED
    BY <1>0, <2>1, <2>2, <2>3
<1>4. CASE disk_file
  <2>1. /\ block_idx < Len(sealed) /\ block_idx < Len(file)
        /\ Opens(file[block_idx + 1], block_idx)
        /\ r = file[block_idx + 1].data
    BY <1>1, <1>4 DEF NextWrite, BufferChain
  <2>2. /\ r \in RunSet /\ r.lo = EndOf(out) /\ r.lo <= r.hi
        /\ r.hi <= SealedEnd
    BY <1>1, <2>1, OpenedBlock
  <2>3. QED
    BY <1>0, <1>2, <2>2 DEF BufferChain, RunSet
<1>5. QED
  BY <1>3, <1>4

\* release_to: its start, every block it emits or rejects, its return.
LEMMA ReleaseIInv ==
    ASSUME IInv, release_to \/ Release
    PROVE  IInv'
<1> USE DEF IInv
<1>0. /\ out \in Seq(RunSet) /\ block_idx \in Nat /\ total_bytes \in Nat
      /\ Len(sealed) \in Nat /\ SealedEnd \in Nat /\ mem_buffer \in RunSet
      /\ mem_buffer.lo \in Nat /\ mem_buffer.hi \in Nat
  BY EndsAreNat
<1>00. /\ SealedEnd <= mem_buffer.lo
       /\ pc = "release" => SealedEnd = mem_buffer.lo
  BY <1>0 DEF BufferChain, Control, TypeOK, RunSet
<1>1. CASE release_to
  <2> USE <1>1 DEF release_to, fieldVars
  <2>1. TypeOK' /\ SealedChain' /\ FileAuthentic'
    BY DEF TypeOK, SealedChain, FileAuthentic, SealedEnd
  <2>2. BufferChain'
    BY DEF BufferChain, SealedEnd
  <2>3. Control'
    BY <1>0 DEF Control, EndOf
  <2>4. Ceiling' /\ Memory' /\ ReleasedInOrder' /\ ReleasedAll'
    BY DEF Ceiling, Memory, Held, ReleasedInOrder, ReleasedAll
  <2>5. QED
    BY <2>1, <2>2, <2>3, <2>4
<1>2. CASE ReleaseBlock
  <2> DEFINE d == file[block_idx + 1].data
  <2>1. /\ pc = "release" /\ disk_file /\ block_idx < Len(sealed)
        /\ block_idx < Len(file) /\ Opens(file[block_idx + 1], block_idx)
        /\ out' = Append(out, d) /\ block_idx' = block_idx + 1
        /\ UNCHANGED <<fieldVars, old_mem, chunk, file, sealed, pc, result>>
    BY <1>2 DEF ReleaseBlock, BufferChain
  <2>2. /\ d = sealed[block_idx + 1].data /\ d \in RunSet
        /\ d.lo = EndOf(out) /\ d.lo <= d.hi /\ d.hi <= SealedEnd
    BY <2>1, OpenedBlock
  <2> HIDE DEF d
  <2>3. /\ out' \in Seq(RunSet) /\ Contiguous(out') /\ EndOf(out') = d.hi
    BY <1>0, <2>1, <2>2, AppendContiguous DEF ReleasedInOrder
  <2>4. TypeOK'
    BY <1>0, <2>1, <2>3 DEF TypeOK, fieldVars
  <2>5. SealedChain' /\ FileAuthentic' /\ BufferChain'
    BY <2>1 DEF SealedChain, FileAuthentic, BufferChain, SealedEnd, fieldVars
  <2>6. Control'
    BY <1>0, <2>1, <2>2, <2>3 DEF Control, fieldVars
  <2>7. Ceiling' /\ Memory'
    BY <2>1 DEF Ceiling, Memory, Held, fieldVars
  <2>8. ReleasedInOrder' /\ ReleasedAll'
    <3>1. d.hi <= total_bytes
      BY <1>0, <1>00, <2>1, <2>2 DEF BufferChain, RunSet
    <3>2. result' = "none"
      BY <2>1 DEF Control
    <3>3. QED
      BY <2>1, <2>3, <3>1, <3>2 DEF ReleasedInOrder, ReleasedAll, fieldVars
  <2>9. QED
    BY <2>4, <2>5, <2>6, <2>7, <2>8
<1>3. CASE ReleaseRejects
  <2> USE <1>3 DEF ReleaseRejects, fieldVars
  <2>1. TypeOK' /\ SealedChain' /\ FileAuthentic' /\ BufferChain'
    BY DEF TypeOK, SealedChain, FileAuthentic, BufferChain, SealedEnd
  <2>2. Control' /\ Ceiling' /\ Memory'
    BY DEF Control, Ceiling, Memory, Held
  <2>3. ReleasedInOrder' /\ ReleasedAll'
    BY DEF ReleasedInOrder, ReleasedAll
  <2>4. QED
    BY <2>1, <2>2, <2>3
<1>4. CASE ReleaseMemory
  <2> USE <1>4 DEF ReleaseMemory, fieldVars
  <2>1. /\ Len(sealed) = 0 /\ mem_buffer.lo = EndOf(out)
        /\ mem_buffer.lo <= mem_buffer.hi /\ mem_buffer.hi = total_bytes
    BY <1>0, <1>00 DEF Control, BufferChain, SealedEnd
  <2>2. /\ out' \in Seq(RunSet) /\ Contiguous(out') /\ EndOf(out') = total_bytes
    BY <1>0, <2>1, AppendContiguous DEF ReleasedInOrder
  <2>3. TypeOK'
    BY <2>2 DEF TypeOK
  <2>4. SealedChain' /\ FileAuthentic' /\ BufferChain'
    BY DEF SealedChain, FileAuthentic, BufferChain, SealedEnd
  <2>5. Control' /\ Ceiling' /\ Memory'
    BY <2>2 DEF Control, Ceiling, Memory, Held
  <2>6. ReleasedInOrder' /\ ReleasedAll'
    BY <1>0, <2>2 DEF ReleasedInOrder, ReleasedAll
  <2>7. QED
    BY <2>3, <2>4, <2>5, <2>6
<1>5. CASE ReleaseReturns
  <2> USE <1>5 DEF ReleaseReturns, fieldVars
  <2>1. EndOf(out) = total_bytes
    <3>1. CASE pc = "flush"
      BY <3>1 DEF Control
    <3>2. CASE pc = "release" /\ disk_file /\ AllBlocksRead
      <4>1. block_idx = Len(sealed)
        BY <3>2 DEF AllBlocksRead, BufferChain
      <4>2. EndOf(out) = SealedEnd
        BY <3>2, <4>1 DEF Control, SealedEnd
      <4>3. mem_buffer.lo = mem_buffer.hi /\ mem_buffer.hi = total_bytes
        BY <3>2 DEF Control
      <4>4. QED
        BY <1>00, <3>2, <4>2, <4>3
    <3>3. QED
      BY <3>1, <3>2
  <2>2. TypeOK' /\ SealedChain' /\ FileAuthentic' /\ BufferChain'
    BY DEF TypeOK, SealedChain, FileAuthentic, BufferChain, SealedEnd
  <2>3. Control' /\ Ceiling' /\ Memory'
    BY DEF Control, Ceiling, Memory, Held
  <2>4. ReleasedInOrder' /\ ReleasedAll'
    BY <2>1 DEF ReleasedInOrder, ReleasedAll
  <2>5. QED
    BY <2>2, <2>3, <2>4
<1>6. CASE ReleaseFails
  <2>0. /\ pc \in {"release", "flush"} /\ pc' = "done" /\ result' = "err"
        /\ UNCHANGED <<fieldVars, old_mem, chunk, block_idx, file, sealed>>
        /\ \/ out' = out
           \/ \E r \in NextWrite : \E n \in 1 .. RunLen(r) - 1 :
                  out' = Append(out, Take(r, n))
    BY <1>6 DEF ReleaseFails
  <2>1. /\ out' \in Seq(RunSet) /\ Contiguous(out') /\ EndOf(out') <= total_bytes
    <3>1. CASE out' = out
      BY <1>0, <3>1 DEF ReleasedInOrder
    <3>2. CASE \E r \in NextWrite : \E n \in 1 .. RunLen(r) - 1 :
                   out' = Append(out, Take(r, n))
      <4>0. PICK r \in NextWrite : \E n \in 1 .. RunLen(r) - 1 :
                out' = Append(out, Take(r, n))
        BY <3>2
      <4>1. PICK n \in 1 .. RunLen(r) - 1 : out' = Append(out, Take(r, n))
        BY <4>0
      <4>2. /\ r \in RunSet /\ r.lo = EndOf(out) /\ r.lo <= r.hi
            /\ r.hi <= total_bytes
        BY NextWriteContinues
      <4>3. n \in Nat
        BY <4>2 DEF RunSet, RunLen
      <4>4. /\ Take(r, n) \in RunSet /\ Take(r, n).lo = EndOf(out)
            /\ Take(r, n).lo <= Take(r, n).hi
            /\ Take(r, n).hi <= total_bytes
        <5>1. /\ Take(r, n) \in RunSet /\ Take(r, n).lo = r.lo
              /\ Take(r, n).lo <= Take(r, n).hi /\ Take(r, n).hi <= r.hi
          BY <4>2, <4>3, TakeRest
        <5>2. QED
          BY <1>0, <4>2, <5>1 DEF RunSet
      <4>5. QED
        BY <1>0, <4>1, <4>4, AppendContiguous DEF ReleasedInOrder
    <3>3. QED
      BY <2>0, <3>1, <3>2
  <2>2. TypeOK'
    BY <2>0, <2>1 DEF TypeOK, fieldVars
  <2>3. SealedChain' /\ FileAuthentic' /\ BufferChain'
    BY <2>0 DEF SealedChain, FileAuthentic, BufferChain, SealedEnd, fieldVars
  <2>4. Control' /\ Ceiling' /\ Memory'
    BY <2>0 DEF Control, Ceiling, Memory, Held, fieldVars
  <2>5. ReleasedInOrder' /\ ReleasedAll'
    BY <2>0, <2>1 DEF ReleasedInOrder, ReleasedAll, fieldVars
  <2>6. QED
    BY <2>2, <2>3, <2>4, <2>5
<1>7. QED
  BY <1>1, <1>2, <1>3, <1>4, <1>5, <1>6 DEF Release

\* Dropping the spooler, and faults of the disk.
LEMMA OutsideIInv ==
    ASSUME IInv, drop \/ DiskFault
    PROVE  IInv'
<1> USE DEF IInv
<1>1. CASE drop
  <2> USE <1>1 DEF drop
  <2>0. mem_buffer.lo \in Nat /\ mem_buffer.hi \in Nat
    BY DEF TypeOK, RunSet
  <2>1. TypeOK'
    <3>1. mem_buffer' \in RunSet
      BY <2>0 DEF Run, RunSet
    <3>2. file' \in Seq(Blocks)
      OBVIOUS
    <3>3. QED
      BY <3>1, <3>2 DEF TypeOK
  <2>2. SealedChain' /\ FileAuthentic'
    BY DEF SealedChain, FileAuthentic, SealedEnd
  <2>3. BufferChain'
    BY <2>0 DEF BufferChain, SealedEnd, Run, TypeOK, RunSet
  <2>4. Control' /\ Ceiling'
    BY <2>0 DEF Control, Ceiling, Run
  <2>5. Memory'
    <3>1. RunLen(mem_buffer') <= RunLen(mem_buffer) /\ RunLen(mem_buffer') \in Int
      BY <2>0 DEF RunLen, Run, BufferChain
    <3>2. RunLen(mem_buffer) \in Int /\ RunLen(old_mem) \in Int
      BY DEF RunLen, TypeOK, RunSet
    <3>3. QED
      BY <3>1, <3>2, SpoolAssumption DEF Memory, Held
  <2>6. ReleasedInOrder' /\ ReleasedAll'
    BY DEF ReleasedInOrder, ReleasedAll
  <2>7. QED
    BY <2>1, <2>2, <2>3, <2>4, <2>5, <2>6
<1>2. CASE DiskFault
  <2>0. UNCHANGED <<fieldVars, old_mem, chunk, block_idx, sealed, out, pc, result>>
    BY <1>2 DEF DiskFault
  <2> DEFINE i == block_idx + 1
  <2>1. /\ file \in Seq(Blocks) /\ sealed \in Seq(Blocks)
        /\ block_idx \in Nat /\ i \in 1..Len(file)
    BY <1>2 DEF DiskFault, TypeOK
  <2>2. file[i] \in Blocks
    BY <2>1
  <2>3. file' \in Seq(Blocks) /\ FileAuthentic'
    <3>1. CASE file' = SubSeq(file, 1, block_idx)
      BY <2>0, <2>1, <3>1 DEF FileAuthentic
    <3>2. ASSUME NEW b \in Blocks, file' = [file EXCEPT ![i] = b],
                 b.intact => /\ b.nonce + 1 \in 1..Len(sealed)
                             /\ b.data = sealed[b.nonce + 1].data
          PROVE  file' \in Seq(Blocks) /\ FileAuthentic'
      BY <2>0, <2>1, <3>2 DEF FileAuthentic
    <3>3. CASE file' = [file EXCEPT ![i] = [@ EXCEPT !.intact = FALSE]]
      <4> DEFINE b == [file[i] EXCEPT !.intact = FALSE]
      <4>1. b \in Blocks /\ ~b.intact /\ file' = [file EXCEPT ![i] = b]
        BY <2>1, <2>2, <3>3 DEF Blocks
      <4>2. QED
        BY <3>2, <4>1
    <3>4. ASSUME NEW l \in 0 .. SPOOL_CHUNK_SIZE + 1,
                 file' = [file EXCEPT ![i] = [@ EXCEPT !.len = l]]
          PROVE  file' \in Seq(Blocks) /\ FileAuthentic'
      <4> DEFINE b == [file[i] EXCEPT !.len = l]
      <4>1. l \in Nat
        BY SpoolAssumption
      <4>2. b \in Blocks
        BY <2>2, <4>1 DEF Blocks
      <4>3. b.nonce = file[i].nonce /\ b.data = file[i].data
        BY <2>2 DEF Blocks
      <4>4. b.intact => file[i].intact
        BY <2>2 DEF Blocks
      <4>5. file' = [file EXCEPT ![i] = b]
        BY <2>1, <3>4
      <4> HIDE DEF b
      <4>6. b.intact => /\ b.nonce + 1 \in 1..Len(sealed)
                        /\ b.data = sealed[b.nonce + 1].data
        BY <2>1, <4>3, <4>4 DEF FileAuthentic
      <4>7. QED
        BY <3>2, <4>2, <4>5, <4>6
    <3>5. ASSUME NEW j \in 1..Len(sealed), file' = [file EXCEPT ![i] = sealed[j]]
          PROVE  file' \in Seq(Blocks) /\ FileAuthentic'
      <4>1. sealed[j] \in Blocks /\ sealed[j].nonce = j - 1 /\ j \in Int
        BY <2>1 DEF SealedChain
      <4>2. sealed[j].nonce + 1 = j
        BY <4>1
      <4>3. QED
        BY <3>2, <3>5, <4>1, <4>2
    <3>6. QED
      BY <1>2, <3>1, <3>3, <3>4, <3>5 DEF DiskFault
  <2>4. TypeOK'
    BY <2>0, <2>3 DEF TypeOK, fieldVars
  <2>5. SealedChain' /\ BufferChain' /\ Control'
    BY <2>0 DEF SealedChain, BufferChain, Control, SealedEnd, fieldVars
  <2>6. Ceiling' /\ Memory' /\ ReleasedInOrder' /\ ReleasedAll'
    BY <2>0 DEF Ceiling, Memory, Held, ReleasedInOrder, ReleasedAll, fieldVars
  <2>7. QED
    BY <2>3, <2>4, <2>5, <2>6
<1>3. QED
  BY <1>1, <1>2

\* The spooler keeps its invariant through every sequence of calls and faults.
THEOREM Invariance == Spec => []IInv
<1>1. IInv /\ [Next]_vars => IInv'
  <2> SUFFICES ASSUME IInv, [Next]_vars PROVE IInv'
    OBVIOUS
  <2>1. CASE \E n \in ChunkSizes : write_chunk(n)
    BY <2>1, WriteIInv
  <2>2. CASE Spill
    BY <2>2, SpillIInv
  <2>3. CASE release_to \/ Release
    BY <2>3, ReleaseIInv
  <2>4. CASE drop \/ DiskFault
    BY <2>4, OutsideIInv
  <2>5. CASE UNCHANGED vars
    BY <2>5 DEF vars, IInv, TypeOK, SealedChain, FileAuthentic, BufferChain,
       Control, Ceiling, Memory, Held, SealedEnd, ReleasedInOrder, ReleasedAll
  <2>6. QED
    BY <2>1, <2>2, <2>3, <2>4, <2>5 DEF Next
<1>2. QED
  BY <1>1, InitIInv, PTL DEF Spec

\* Every variable of the spooler keeps its type.
THEOREM TypeCorrect == Spec => []TypeOK
  BY Invariance, PTL DEF IInv

\* Whatever the limit, the block size, the chunks, the I/O errors and the
\* damage to the temporary file: what release_to emits is a prefix, in order,
\* of what write_chunk was given.
THEOREM OrderCorrect == Spec => []ReleasedInOrder
  BY Invariance, PTL DEF IInv

\* release_to returns Ok only when every byte was emitted.
THEOREM ReleaseCorrect == Spec => []ReleasedAll
  BY Invariance, PTL DEF IInv

\* No block counter is ever used twice under one spool_key.
THEOREM NonceCorrect == Spec => []NonceUnique
<1>1. IInv => NonceUnique
  <2> SUFFICES ASSUME IInv, NEW i \in 1..Len(sealed), NEW j \in 1..Len(sealed),
                      sealed[i].nonce = sealed[j].nonce
               PROVE  i = j
    BY DEF NonceUnique
  <2>1. i - 1 = j - 1 /\ i \in Int /\ j \in Int
    BY DEF IInv, SealedChain
  <2>2. QED
    BY <2>1
<1>2. QED
  BY <1>1, Invariance, PTL

\* Memory stays within MEMORY_SPOOL_LIMIT, also while it is being spilled.
THEOREM MemoryCorrect == Spec => []MemoryBound
<1>1. IInv => MemoryBound
  BY DEF IInv, MemoryBound, Memory, Control, TypeOK, RunSet, RunLen
<1>2. QED
  BY <1>1, Invariance, PTL

\* The ceiling bounds what is held, and nothing of a stream that passed it is
\* emitted.
THEOREM CeilingCorrect == Spec => []CeilingHolds
<1>1. IInv => CeilingHolds
  <2> SUFFICES ASSUME IInv PROVE CeilingHolds
    OBVIOUS
  <2>1. /\ mem_buffer \in RunSet /\ old_mem \in RunSet /\ chunk \in RunSet
        /\ BufferChain /\ Ceiling /\ max_size \in Nat \cup {None}
    BY DEF IInv, TypeOK
  <2>2. max_size # None => RunLen(mem_buffer) + RunLen(old_mem)
                           + RunLen(chunk) + SealedEnd <= max_size
    <3>1. RunLen(old_mem) + SealedEnd = chunk.lo
      BY <2>1 DEF RunLen, RunSet, BufferChain
    <3>2. QED
      BY <2>1, <3>1, SpoolAssumption DEF RunLen, RunSet, BufferChain, Ceiling
  <2>3. QED
    BY <2>1, <2>2 DEF CeilingHolds, Ceiling
<1>2. QED
  BY <1>1, Invariance, PTL

-----------------------------------------------------------------------------
(* The spooler implements SpoolAbs.                                        *)

\* Each part of write_chunk is an offer, a refusal or invisible.
LEMMA WriteImplements ==
    ASSUME IInv, \/ \E n \in ChunkSizes : write_chunk(n)
                 \/ Spill
    PROVE  [Abs!Next]_(Abs!absVars)
<1> USE DEF AbsState
<1>1. ASSUME NEW n \in ChunkSizes, write_chunk(n)
      PROVE  Abs!Offer(n)
  <2>0. /\ n \in Nat /\ total_bytes \in Nat /\ max_size \in Nat \cup {None}
        /\ None \notin Nat
        /\ ExceedsCeiling(n) <=> ~Abs!Within(total_bytes + n)
    BY SpoolAssumption DEF IInv, TypeOK, ExceedsCeiling, Abs!Within
  <2>1. CASE WriteRefused(n)
    BY <2>0, <2>1 DEF WriteRefused, Abs!Offer
  <2>2. CASE WriteToMemory(n)
    BY <2>0, <2>2 DEF WriteToMemory, Abs!Offer
  <2>3. CASE WriteSpill(n)
    BY <2>0, <2>3 DEF WriteSpill, Abs!Offer
  <2>4. QED
    BY <1>1, <2>1, <2>2, <2>3 DEF write_chunk
<1>2. CASE FlushOldMem \/ FlushChunk \/ WriteReturns
  BY <1>2 DEF FlushOldMem, FlushChunk, WriteReturns, fieldVars, Abs!absVars
<1>3. CASE FlushFails
  BY <1>3 DEF FlushFails, Abs!Fail, Abs!Next
<1>4. QED
  BY <1>1, <1>2, <1>3 DEF Spill, Abs!Next

\* release_to commits, emits more of what is held, finishes or fails.
LEMMA ReleaseImplements ==
    ASSUME IInv, IInv', release_to \/ Release
    PROVE  [Abs!Next]_(Abs!absVars)
<1> USE DEF AbsState
<1>0. /\ total_bytes \in Nat /\ out \in Seq(RunSet) /\ EndOf(out) \in Nat
      /\ EndOf(out') \in Nat /\ EndOf(out') <= total_bytes'
  <2>1. /\ total_bytes \in Nat /\ out \in Seq(RunSet) /\ out' \in Seq(RunSet)
        /\ EndOf(out') <= total_bytes'
    BY DEF IInv, TypeOK, ReleasedInOrder
  <2>2. \A s \in Seq(RunSet) : EndOf(s) \in Nat
    <3> TAKE s \in Seq(RunSet)
    <3>1. CASE Len(s) = 0
      BY <3>1 DEF EndOf
    <3>2. CASE Len(s) # 0
      <4>1. s[Len(s)] \in RunSet
        BY <3>2
      <4>2. s[Len(s)].hi \in Nat
        BY <4>1 DEF RunSet
      <4>3. QED
        BY <3>2, <4>2 DEF EndOf
    <3>3. QED
      BY <3>1, <3>2
  <2>3. QED
    BY <2>1, <2>2
<1>1. CASE release_to
  BY <1>1 DEF release_to, fieldVars, Abs!Commit, Abs!Next
<1>2. CASE ReleaseBlock \/ ReleaseMemory
  <2>1. /\ pc = "release" /\ pc' \in {"release", "flush"}
        /\ UNCHANGED <<total_bytes, max_size>>
    BY <1>2 DEF ReleaseBlock, ReleaseMemory, fieldVars
  <2>2. EndOf(out) <= EndOf(out')
    <3>1. \E r \in RunSet : out' = Append(out, r) /\ EndOf(out) <= r.hi
      <4>1. CASE ReleaseBlock
        <5>1. /\ block_idx < Len(sealed) /\ block_idx < Len(file)
              /\ Opens(file[block_idx + 1], block_idx)
              /\ out' = Append(out, file[block_idx + 1].data)
          BY <4>1 DEF ReleaseBlock, IInv, BufferChain
        <5>2. /\ file[block_idx + 1].data \in RunSet
              /\ file[block_idx + 1].data.lo = EndOf(out)
              /\ file[block_idx + 1].data.lo <= file[block_idx + 1].data.hi
          BY <2>1, <5>1, OpenedBlock
        <5>3. QED
          BY <5>1, <5>2
      <4>2. CASE ReleaseMemory
        <5>1. out' = Append(out, mem_buffer) /\ ~disk_file
          BY <4>2 DEF ReleaseMemory
        <5>2. mem_buffer \in RunSet /\ mem_buffer.hi = total_bytes
          BY <2>1 DEF IInv, TypeOK, Control
        <5>3. EndOf(out) <= total_bytes
          BY DEF IInv, ReleasedInOrder
        <5>4. QED
          BY <5>1, <5>2, <5>3
      <4>3. QED
        BY <1>2, <4>1, <4>2
    <3>2. \A r \in RunSet : EndOf(Append(out, r)) = r.hi
      BY <1>0 DEF EndOf
    <3>3. QED
      BY <3>1, <3>2
  <2>3. CASE EndOf(out) = EndOf(out')
    BY <2>1, <2>3 DEF Abs!absVars
  <2>4. CASE EndOf(out) # EndOf(out')
    <3>1. EndOf(out') \in EndOf(out) + 1 .. total_bytes
      BY <1>0, <2>1, <2>2, <2>4
    <3>2. Abs!Emit
      BY <2>1, <3>1 DEF Abs!Emit
    <3>3. QED
      BY <3>2 DEF Abs!Next
  <2>5. QED
    BY <2>3, <2>4
<1>3. CASE ReleaseReturns
  <2>1. /\ pc \in {"release", "flush"} /\ pc' = "done" /\ result' = "ok"
        /\ UNCHANGED <<total_bytes, max_size, out>>
    BY <1>3 DEF ReleaseReturns, fieldVars
  <2>2. EndOf(out) = total_bytes
    BY <2>1 DEF IInv, ReleasedAll
  <2>3. QED
    BY <2>1, <2>2 DEF Abs!Finish, Abs!Next
<1>4. CASE ReleaseRejects \/ ReleaseFails
  <2>1. /\ pc \in {"release", "flush"} /\ pc' = "done" /\ result' = "err"
        /\ UNCHANGED <<total_bytes, max_size>>
    BY <1>4 DEF ReleaseRejects, ReleaseFails, fieldVars
  <2>2. EndOf(out) <= EndOf(out')
    <3>1. CASE out' = out
      BY <1>0, <3>1
    <3>2. CASE \E r \in NextWrite : \E n \in 1 .. RunLen(r) - 1 :
                   out' = Append(out, Take(r, n))
      <4>1. PICK r \in NextWrite : \E n \in 1 .. RunLen(r) - 1 :
                out' = Append(out, Take(r, n))
        BY <3>2
      <4>2. PICK n \in 1 .. RunLen(r) - 1 : out' = Append(out, Take(r, n))
        BY <4>1
      <4>3. r \in RunSet /\ r.lo = EndOf(out) /\ r.lo <= r.hi
        BY NextWriteContinues
      <4>4. n \in Nat
        BY <4>3 DEF RunSet, RunLen
      <4>5. Take(r, n) \in RunSet /\ r.lo <= Take(r, n).hi
        BY <4>3, <4>4, TakeRest
      <4>6. EndOf(Append(out, Take(r, n))) = Take(r, n).hi
        BY <1>0, <4>5 DEF EndOf
      <4>7. QED
        BY <4>2, <4>3, <4>5, <4>6
    <3>3. QED
      BY <1>4, <3>1, <3>2 DEF ReleaseRejects, ReleaseFails
  <2>3. EndOf(out') \in EndOf(out) .. total_bytes
    BY <1>0, <2>1, <2>2
  <2>4. QED
    BY <2>1, <2>3 DEF Abs!Fail, Abs!Next
<1>5. QED
  BY <1>1, <1>2, <1>3, <1>4 DEF Release

\* The spooler implements what SpoolAbs promises: bytes are held back until
\* release_to is called, come out in order, and all of them on success.
THEOREM Refinement == Spec => ImplementsAbs
<1>1. Init => Abs!Init
  BY DEF Init, Abs!Init, AbsState, EndOf
<1>2. IInv /\ IInv' /\ [Next]_vars => [Abs!Next]_(Abs!absVars)
  <2> SUFFICES ASSUME IInv, IInv', [Next]_vars
               PROVE  [Abs!Next]_(Abs!absVars)
    OBVIOUS
  <2>1. CASE (\E n \in ChunkSizes : write_chunk(n)) \/ Spill
    BY <2>1, WriteImplements
  <2>2. CASE release_to \/ Release
    BY <2>2, ReleaseImplements
  <2>3. CASE drop
    BY <2>3 DEF drop, AbsState, Abs!Erase, Abs!Next
  <2>4. CASE DiskFault
    BY <2>4 DEF DiskFault, fieldVars, AbsState, Abs!absVars
  <2>5. CASE UNCHANGED vars
    BY <2>5 DEF vars, AbsState, Abs!absVars
  <2>6. QED
    BY <2>1, <2>2, <2>3, <2>4, <2>5 DEF Next
<1>3. QED
  BY <1>1, <1>2, Invariance, PTL DEF Spec, ImplementsAbs, Abs!Spec
=============================================================================
