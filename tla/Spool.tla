------------------------------- MODULE Spool --------------------------------
(***************************************************************************)
(* The spool-and-verify engine, src/rust/src/spool.rs: plaintext that may  *)
(* not leave the program yet is held in memory up to MEMORY_SPOOL_LIMIT,   *)
(* and past it in blocks sealed under a key that exists only in this       *)
(* process, written to an unlinked temporary file.  One action per call    *)
(* that returns at once and, inside write_chunk and release_to, one per    *)
(* block, since a block is what can fail or be found damaged.              *)
(***************************************************************************)
EXTENDS Runs, FiniteSets

CONSTANTS MEMORY_SPOOL_LIMIT,  \* bytes kept in memory before spilling
          SPOOL_CHUNK_SIZE,    \* largest block on disk
          MaxSizes,            \* ceilings that callers ask for (naturals, None)
          ChunkSizes,          \* lengths of the chunks that callers write
          None,                \* Option::None
          MAX_STREAM,          \* bound: bytes a caller offers
          IO_ERRORS,           \* may system calls fail?
          DISK_FAULTS          \* may the temporary file change behind our back?

ASSUME SpoolAssumption ==
    /\ MEMORY_SPOOL_LIMIT \in Nat
    /\ SPOOL_CHUNK_SIZE \in Nat \ {0}
    /\ MaxSizes \subseteq Nat \cup {None}
    /\ None \notin Nat
    /\ ChunkSizes \subseteq Nat
    /\ MAX_STREAM \in Nat
    /\ IO_ERRORS \in BOOLEAN
    /\ DISK_FAULTS \in BOOLEAN

VARIABLES mem_buffer, disk_file, spool_key, block_counter, total_bytes,
          max_size,            \* the fields of StreamSpooler
          old_mem, chunk,      \* write_chunk: what it has yet to flush
          block_idx,           \* release_to: the block it reads next
          file,                \* what the temporary file holds
          sealed,              \* history: the blocks as they were sealed
          out,                 \* history: the runs passed to the output
          pc,                  \* where control is; "open": in the caller
          result               \* what the failing or last call returned

fieldVars == <<mem_buffer, disk_file, spool_key, block_counter, total_bytes,
               max_size>>
vars == <<mem_buffer, disk_file, spool_key, block_counter, total_bytes,
          max_size, old_mem, chunk, block_idx, file, sealed, out, pc, result>>

-----------------------------------------------------------------------------
(* Blocks.                                                                 *)

\* Replace build_spool_nonce: the counter is not used, or counted from one.
build_spool_nonceStuck(ctr) == 0
build_spool_nonceBefore(ctr) == ctr - 1

build_spool_nonce(ctr) == ctr

build_spool_aad(ctr, len) == <<ctr, len>>

\* A block: the length in clear, and the box sealed under the nonce with the
\* additional data.  intact is FALSE once ciphertext or tag were damaged.
SealBlock(ctr, data) ==
    [len    |-> RunLen(data),
     nonce  |-> build_spool_nonce(ctr),
     aad    |-> build_spool_aad(ctr, RunLen(data)),
     data   |-> data,
     intact |-> TRUE]

Blocks == [len : Nat, nonce : Nat, aad : Nat \X Nat, data : RunSet,
           intact : BOOLEAN]

\* Replaces Opens: the position of the block is not bound.
OpensAnywhere(b, idx) == /\ b.len \in 1..SPOOL_CHUNK_SIZE
                         /\ b.intact

\* The framing check of release_to and the AEAD open at position idx.
Opens(b, idx) ==
    /\ b.len \in 1..SPOOL_CHUNK_SIZE
    /\ b.intact
    /\ b.nonce = build_spool_nonce(idx)
    /\ b.aad = build_spool_aad(idx, b.len)

-----------------------------------------------------------------------------
(* StreamSpooler::new.                                                     *)

Init == /\ mem_buffer = Run(0, 0)
        /\ disk_file = FALSE
        /\ spool_key = "random"
        /\ block_counter = 0
        /\ total_bytes = 0
        /\ max_size \in MaxSizes
        /\ old_mem = Run(0, 0)
        /\ chunk = Run(0, 0)
        /\ block_idx = 0
        /\ file = << >>
        /\ sealed = << >>
        /\ out = << >>
        /\ pc = "open"
        /\ result = "none"

-----------------------------------------------------------------------------
(* write_chunk.                                                            *)

\* Replaces ExceedsCeiling: compared before the chunk is counted.
ExceedsCeilingBefore(n) == max_size # None /\ total_bytes > max_size

\* total_bytes already counts the chunk when it is compared.
ExceedsCeiling(n) == max_size # None /\ total_bytes + n > max_size

\* Replace FitsInMemory: what memory holds, or that the file exists, is forgotten.
FitsInMemoryEmpty(n) == ~disk_file /\ n <= MEMORY_SPOOL_LIMIT
FitsInMemoryAlways(n) == RunLen(mem_buffer) + n <= MEMORY_SPOOL_LIMIT

FitsInMemory(n) == ~disk_file /\ RunLen(mem_buffer) + n <= MEMORY_SPOOL_LIMIT

WriteRefused(n) ==
    /\ pc = "open"
    /\ ExceedsCeiling(n)
    /\ total_bytes' = total_bytes + n
    /\ pc' = "done"
    /\ result' = "err"
    /\ UNCHANGED <<mem_buffer, disk_file, spool_key, block_counter, max_size,
                   old_mem, chunk, block_idx, file, sealed, out>>

WriteToMemory(n) ==
    /\ pc = "open"
    /\ ~ExceedsCeiling(n)
    /\ FitsInMemory(n)
    /\ total_bytes' = total_bytes + n
    /\ mem_buffer' = Run(mem_buffer.lo, mem_buffer.hi + n)
    /\ UNCHANGED <<disk_file, spool_key, block_counter, max_size, old_mem,
                   chunk, block_idx, file, sealed, out, pc, result>>

\* The memory buffer is taken over by old_mem; both are then flushed.
WriteSpill(n) ==
    /\ pc = "open"
    /\ ~ExceedsCeiling(n)
    /\ ~FitsInMemory(n)
    /\ total_bytes' = total_bytes + n
    /\ old_mem' = mem_buffer
    /\ chunk' = Run(mem_buffer.hi, mem_buffer.hi + n)
    /\ mem_buffer' = Run(mem_buffer.hi + n, mem_buffer.hi + n)
    /\ pc' = "spill"
    /\ UNCHANGED <<disk_file, spool_key, block_counter, max_size, block_idx,
                   file, sealed, out, result>>

write_chunk(n) == /\ total_bytes + n <= MAX_STREAM
                  /\ WriteRefused(n) \/ WriteToMemory(n) \/ WriteSpill(n)

\* flush_single_block_to_disk(data), when every call in it succeeds.
FlushBlock(data) ==
    LET b == SealBlock(block_counter, data)
    IN  /\ disk_file' = TRUE
        /\ sealed' = Append(sealed, b)
        /\ file' = Append(file, b)
        /\ block_counter' = block_counter + 1

\* One round of "for block in old_mem.chunks(SPOOL_CHUNK_SIZE)" ...
FlushOldMem ==
    /\ pc = "spill"
    /\ RunLen(old_mem) > 0
    /\ FlushBlock(Take(old_mem, SPOOL_CHUNK_SIZE))
    /\ old_mem' = Rest(old_mem, SPOOL_CHUNK_SIZE)
    /\ UNCHANGED <<mem_buffer, spool_key, total_bytes, max_size, chunk,
                   block_idx, out, pc, result>>

OldMemFlushed == RunLen(old_mem) = 0

\* ... and then of "for block in chunk.chunks(SPOOL_CHUNK_SIZE)".
FlushChunk ==
    /\ pc = "spill"
    /\ OldMemFlushed
    /\ RunLen(chunk) > 0
    /\ FlushBlock(Take(chunk, SPOOL_CHUNK_SIZE))
    /\ chunk' = Rest(chunk, SPOOL_CHUNK_SIZE)
    /\ UNCHANGED <<mem_buffer, spool_key, total_bytes, max_size, old_mem,
                   block_idx, out, pc, result>>

WriteReturns ==
    /\ pc = "spill"
    /\ RunLen(old_mem) = 0
    /\ RunLen(chunk) = 0
    /\ pc' = "open"
    /\ UNCHANGED <<fieldVars, old_mem, chunk, block_idx, file, sealed, out,
                   result>>

\* Opening the temporary file or writing to it fails.  A torn block at the
\* end of the file is never read: the caller drops the spooler.
FlushFails ==
    /\ IO_ERRORS
    /\ pc = "spill"
    /\ RunLen(old_mem) > 0 \/ RunLen(chunk) > 0
    /\ disk_file' \in {disk_file, TRUE}
    /\ pc' = "done"
    /\ result' = "err"
    /\ UNCHANGED <<mem_buffer, spool_key, block_counter, total_bytes, max_size,
                   old_mem, chunk, block_idx, file, sealed, out>>

-----------------------------------------------------------------------------
(* release_to.                                                             *)

\* The file moves from the field to a local variable; disk_file is TRUE for both.
release_to ==
    /\ pc = "open"
    /\ pc' = "release"
    /\ block_idx' = 0
    /\ UNCHANGED <<fieldVars, old_mem, chunk, file, sealed, out, result>>

ReleaseBlock ==
    /\ pc = "release"
    /\ disk_file
    /\ block_idx < block_counter
    /\ block_idx < Len(file)
    /\ Opens(file[block_idx + 1], block_idx)
    /\ out' = Append(out, file[block_idx + 1].data)
    /\ block_idx' = block_idx + 1
    /\ UNCHANGED <<fieldVars, old_mem, chunk, file, sealed, pc, result>>

\* Replaces ReleaseRejects: a file that ends early is read again and again.
ReleaseRetries ==
    /\ pc = "release"
    /\ disk_file
    /\ block_idx < Len(file)
    /\ ~Opens(file[block_idx + 1], block_idx)
    /\ pc' = "done"
    /\ result' = "err"
    /\ UNCHANGED <<fieldVars, old_mem, chunk, block_idx, file, sealed, out>>

\* The file ends early, or framing or AEAD tag of the block are wrong.
ReleaseRejects ==
    /\ pc = "release"
    /\ disk_file
    /\ block_idx < block_counter
    /\ block_idx < Len(file) => ~Opens(file[block_idx + 1], block_idx)
    /\ pc' = "done"
    /\ result' = "err"
    /\ UNCHANGED <<fieldVars, old_mem, chunk, block_idx, file, sealed, out>>

ReleaseMemory ==
    /\ pc = "release"
    /\ ~disk_file
    /\ out' = Append(out, mem_buffer)
    /\ pc' = "flush"
    /\ UNCHANGED <<fieldVars, old_mem, chunk, block_idx, file, sealed, result>>

\* Replaces AllBlocksRead: off by one.
AllBlocksReadEarly == block_idx + 1 >= block_counter

AllBlocksRead == block_idx = block_counter

ReleaseReturns ==
    /\ \/ pc = "flush"
       \/ pc = "release" /\ disk_file /\ AllBlocksRead
    /\ pc' = "done"
    /\ result' = "ok"
    /\ UNCHANGED <<fieldVars, old_mem, chunk, block_idx, file, sealed, out>>

\* What the next write_all of release_to is given.
NextWrite ==
    CASE pc = "release" /\ ~disk_file -> {mem_buffer}
      [] /\ pc = "release" /\ disk_file
         /\ block_idx < block_counter /\ block_idx < Len(file)
         /\ Opens(file[block_idx + 1], block_idx) -> {file[block_idx + 1].data}
      [] OTHER -> {}

\* A seek, read, write or flush of release_to fails; a failing write_all has
\* passed on a proper prefix of its run, perhaps nothing.
ReleaseFails ==
    /\ IO_ERRORS
    /\ pc \in {"release", "flush"}
    /\ \/ out' = out
       \/ \E r \in NextWrite : \E n \in 1 .. RunLen(r) - 1 :
              out' = Append(out, Take(r, n))
    /\ pc' = "done"
    /\ result' = "err"
    /\ UNCHANGED <<fieldVars, old_mem, chunk, block_idx, file, sealed>>

-----------------------------------------------------------------------------
(* Drop: when release_to returns, after a failed write, or when the caller *)
(* rejects the stream and never releases it.                               *)

drop == /\ pc \in {"open", "done"}
        /\ pc' = "dropped"
        /\ spool_key' = "zero"
        /\ mem_buffer' = Run(mem_buffer.hi, mem_buffer.hi)
        /\ disk_file' = FALSE
        /\ file' = << >>
        /\ UNCHANGED <<block_counter, total_bytes, max_size, old_mem, chunk,
                       block_idx, sealed, out, result>>

\* The world outside: a block is damaged, its length field altered, another
\* block is found in its place, or the file is cut short.  The file may change
\* at any time, but each block is read once, in order: a change shows only
\* through the block that release_to reads next, so that is where it happens.
DiskFault ==
    /\ DISK_FAULTS
    /\ pc = "release"
    /\ block_idx < Len(file)
    /\ LET i == block_idx + 1
       IN  \/ file' = [file EXCEPT ![i] = [@ EXCEPT !.intact = FALSE]]
           \/ \E l \in 0 .. SPOOL_CHUNK_SIZE + 1 :
                  file' = [file EXCEPT ![i] = [@ EXCEPT !.len = l]]
           \/ \E j \in 1..Len(sealed) : file' = [file EXCEPT ![i] = sealed[j]]
           \/ file' = SubSeq(file, 1, block_idx)
    /\ UNCHANGED <<fieldVars, old_mem, chunk, block_idx, sealed, out, pc, result>>

-----------------------------------------------------------------------------
Spill == FlushOldMem \/ FlushChunk \/ WriteReturns \/ FlushFails

Release == ReleaseBlock \/ ReleaseRejects \/ ReleaseMemory \/ ReleaseReturns
           \/ ReleaseFails

Next == \/ \E n \in ChunkSizes : write_chunk(n)
        \/ Spill
        \/ release_to
        \/ Release
        \/ drop
        \/ DiskFault

\* Once a call is made the process runs it to its end.  Faults are not owed.
Fairness == /\ WF_vars(FlushOldMem \/ FlushChunk \/ WriteReturns)
            /\ WF_vars(ReleaseBlock \/ ReleaseRejects \/ ReleaseMemory
                       \/ ReleaseReturns)
            /\ WF_vars(pc = "done" /\ drop)

Spec == Init /\ [][Next]_vars

FairSpec == Spec /\ Fairness

-----------------------------------------------------------------------------
(* Properties.                                                             *)

Held == RunLen(mem_buffer) + RunLen(old_mem)

\* The position after the last byte that was sealed into a block.
SealedEnd == IF Len(sealed) = 0 THEN 0 ELSE sealed[Len(sealed)].data.hi

\* The type of every variable.
TypeOK ==
    /\ mem_buffer \in RunSet
    /\ disk_file \in BOOLEAN
    /\ spool_key \in {"random", "zero"}
    /\ block_counter \in Nat
    /\ total_bytes \in Nat
    /\ max_size \in Nat \cup {None}
    /\ old_mem \in RunSet
    /\ chunk \in RunSet
    /\ block_idx \in Nat
    /\ file \in Seq(Blocks)
    /\ sealed \in Seq(Blocks)
    /\ out \in Seq(RunSet)
    /\ pc \in {"open", "spill", "release", "flush", "done", "dropped"}
    /\ result \in {"none", "ok", "err"}

\* What release_to emits is a prefix of what write_chunk was given: no byte
\* lost, repeated or moved, whatever the temporary file went through and
\* wherever the spill boundary fell between two chunks.
ReleasedInOrder == Contiguous(out) /\ EndOf(out) <= total_bytes

\* release_to returns Ok only when every byte written went to the output.
ReleasedAll == result = "ok" => EndOf(out) = total_bytes

\* No two blocks are sealed under one nonce: spool_key is never used twice
\* with the same block counter, over any sequence of spills.
NonceUnique == \A i, j \in 1..Len(sealed) :
                   sealed[i].nonce = sealed[j].nonce => i = j

\* The plaintext held in memory, the buffer being spilled included, never
\* exceeds MEMORY_SPOOL_LIMIT, and none is kept in memory once the file exists.
MemoryBound == /\ Held <= MEMORY_SPOOL_LIMIT
               /\ pc = "open" /\ disk_file => RunLen(mem_buffer) = 0

\* Nothing of a stream that passed its ceiling is ever emitted, and memory
\* and disk together never hold more than the ceiling.
CeilingHolds ==
    /\ max_size # None => RunLen(mem_buffer) + RunLen(old_mem) + RunLen(chunk)
                          + SealedEnd <= max_size
    /\ out # << >> => (max_size = None \/ total_bytes <= max_size)

\* A call into the spooler returns, and a spooler whose call returned an
\* error or released its bytes is dropped: the key does not stay behind.
CallsReturn == /\ pc = "spill" ~> pc \in {"open", "dropped"}
               /\ pc = "release" ~> pc = "dropped"

\* SPECIFICATION.md promises that a failing verification emits zero bytes;
\* release_to has emitted the blocks before the one it rejects.
FailureIsSilent == result = "err" => out = << >>

-----------------------------------------------------------------------------
(* The spooler implements its abstract promise.                            *)

AbsState == CASE pc \in {"open", "spill"} -> "open"
              [] pc \in {"release", "flush"} -> "releasing"
              [] pc = "done" -> (IF result = "ok" THEN "done" ELSE "failed")
              [] OTHER -> "erased"

Abs == INSTANCE SpoolAbs WITH offered <- total_bytes, emitted <- EndOf(out),
                              st <- AbsState

\* Every behaviour of the spooler, faults included, is one of SpoolAbs.
ImplementsAbs == Abs!Spec
=============================================================================
