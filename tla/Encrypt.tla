------------------------------- MODULE Encrypt ------------------------------
(***************************************************************************)
(* pipe-k1 encrypt: run_encrypt of src/rust/src/main.rs.  It reads stdin   *)
(* in whatever pieces read() returns, keeps one chunk of lookahead to know *)
(* which chunk is the last, and writes header, chunks and trailer.         *)
(***************************************************************************)
EXTENDS Wire

CONSTANTS Modes,          \* what --mode gives run_encrypt
          Recipient,      \* the recipient's key
          Sender,         \* the sender's key, used in mode 1
          Session,        \* the ephemeral key and salt of this run
          MAX_INPUT,      \* bound: bytes that stdin ever holds
          STICKY_EOF,     \* does stdin, once at its end, stay there?
          IO_ERRORS       \* may reads and writes fail?

ASSUME EncryptAssumption ==
    /\ Modes \subseteq Nat
    /\ MAX_INPUT \in Nat
    /\ STICKY_EOF \in BOOLEAN
    /\ IO_ERRORS \in BOOLEAN

VARIABLES src_len,        \* bytes that were put into stdin so far
          src_open,       \* may more follow?
          rd,             \* how many of them were read
          mode,
          cur_buf, next_buf,  \* the filled parts of the two buffers
          chunk_counter,
          hashed,         \* what plaintext_hasher was fed
          wire,           \* what was written to stdout
          epc,            \* where run_encrypt is
          eexit           \* exit code

encVars == <<src_len, src_open, rd, mode, cur_buf, next_buf, chunk_counter,
             hashed, wire, epc, eexit>>

EncInit == /\ src_len = 0
           /\ src_open = TRUE
           /\ rd = 0
           /\ mode \in Modes
           /\ cur_buf = Run(0, 0)
           /\ next_buf = Run(0, 0)
           /\ chunk_counter = 0
           /\ hashed = << >>
           /\ wire = << >>
           /\ epc = "setup"
           /\ eexit = Running

-----------------------------------------------------------------------------
(* stdin, outside the program.                                             *)

Produce == /\ src_open
           /\ src_len < MAX_INPUT
           /\ src_len' = src_len + 1
           /\ UNCHANGED <<src_open, rd, mode, cur_buf, next_buf, chunk_counter,
                          hashed, wire, epc, eexit>>

CloseInput == /\ src_open
              /\ src_open' = FALSE
              /\ UNCHANGED <<src_len, rd, mode, cur_buf, next_buf,
                             chunk_counter, hashed, wire, epc, eexit>>

\* read() returns 0.  At the end of a pipe it waits for the writer to close;
\* at the end of a file or a terminal it does not, and later reads may find
\* more.
AtEof == rd = src_len /\ (STICKY_EOF => ~src_open)

-----------------------------------------------------------------------------
Exit(code) == epc' = "exit" /\ eexit' = code

\* Replaces KeyIntake: the sender's key is first needed for the trailer.
KeyIntakeLazy == epc \in {"setup", "finish"}

\* Keys are taken in before any byte is written.
KeyIntake == epc = "setup"

\* Everything before the first write: the recipient's key, the entropy
\* descriptor, the sender's key (eagerly, in mode 1) and the key agreement.
SetupFails ==
    /\ KeyIntake
    /\ Exit(UsageError)
    /\ UNCHANGED <<src_len, src_open, rd, mode, cur_buf, next_buf,
                   chunk_counter, hashed, wire>>

WriteHeader ==
    /\ epc = "setup"
    /\ wire' = << Header(Session, mode, Recipient) >>
    /\ epc' = "fill_cur"
    /\ UNCHANGED <<src_len, src_open, rd, mode, cur_buf, next_buf,
                   chunk_counter, hashed, eexit>>

\* fill_buffer.  One read() of n bytes, and the end of the loop when the
\* buffer is full or read() returned 0.  An interrupted read is retried.
Fill(buf, n) == /\ rd + n <= src_len
                /\ RunLen(buf) + n <= CHUNK_SIZE
                /\ rd' = rd + n

\* Replaces FillDone: the result of one read is taken for a full buffer.
OneReadFills(buf) == TRUE
\* Replaces FillDone: a read of 0 bytes does not end the loop.
FillDoneFull(buf) == RunLen(buf) = CHUNK_SIZE

FillDone(buf) == RunLen(buf) = CHUNK_SIZE \/ AtEof

ReadCur ==
    /\ epc = "fill_cur"
    /\ \E n \in 1..CHUNK_SIZE : /\ Fill(cur_buf, n)
                                /\ cur_buf' = Run(cur_buf.lo, cur_buf.hi + n)
    /\ UNCHANGED <<src_len, src_open, mode, next_buf, chunk_counter, hashed,
                   wire, epc, eexit>>

CurFilled ==
    /\ epc = "fill_cur"
    /\ FillDone(cur_buf)
    /\ next_buf' = Run(rd, rd)
    /\ epc' = "fill_next"
    /\ UNCHANGED <<src_len, src_open, rd, mode, cur_buf, chunk_counter, hashed,
                   wire, eexit>>

ReadNext ==
    /\ epc = "fill_next"
    /\ \E n \in 1..CHUNK_SIZE : /\ Fill(next_buf, n)
                                /\ next_buf' = Run(next_buf.lo, next_buf.hi + n)
    /\ UNCHANGED <<src_len, src_open, mode, cur_buf, chunk_counter, hashed,
                   wire, epc, eexit>>

NextFilled ==
    /\ epc = "fill_next"
    /\ FillDone(next_buf)
    /\ epc' = "emit"
    /\ UNCHANGED <<src_len, src_open, rd, mode, cur_buf, next_buf,
                   chunk_counter, hashed, wire, eexit>>

ReadFails ==
    /\ IO_ERRORS
    /\ epc \in {"fill_cur", "fill_next"}
    /\ Exit(IoError)
    /\ UNCHANGED <<src_len, src_open, rd, mode, cur_buf, next_buf,
                   chunk_counter, hashed, wire>>

\* Replaces TermTag: a chunk is taken for the last when it is not full.
TermTagWhenShort == IF RunLen(cur_buf) < CHUNK_SIZE THEN 1 ELSE 0

\* The lookahead decides: no further byte means that this chunk is the last.
TermTag == IF RunLen(next_buf) = 0 THEN 1 ELSE 0

\* Replaces CheckedAdd: a plain u64 addition, and one that is too wide.
CounterWraps(c) == IF c = COUNTER_MAX THEN {0} ELSE {c + 1}
CounterUnbounded(c) == {c + 1}

\* checked_add(1), as a set: no value on overflow.
CheckedAdd(c) == IF c = COUNTER_MAX THEN {} ELSE {c + 1}

\* Replaces Swapped: the buffers are not swapped.
NotSwapped == cur_buf

\* mem::swap: the lookahead becomes the current chunk.
Swapped == next_buf

\* The rest of the loop body, once both buffers are filled.
EmitChunk ==
    /\ epc = "emit"
    /\ wire' = Append(wire, Chunk(Session, mode, Recipient, chunk_counter,
                                  TermTag, cur_buf))
    /\ hashed' = IF mode = Authenticated THEN Append(hashed, cur_buf)
                 ELSE hashed
    /\ IF CheckedAdd(chunk_counter) = {}
       THEN /\ Exit(UsageError)
            /\ UNCHANGED <<cur_buf, next_buf, chunk_counter>>
       ELSE /\ chunk_counter' \in CheckedAdd(chunk_counter)
            /\ IF RunLen(next_buf) = 0
               THEN /\ epc' = "finish"
                    /\ UNCHANGED <<cur_buf, next_buf>>
               ELSE /\ epc' = "fill_next"
                    /\ cur_buf' = Swapped
                    /\ next_buf' = Run(rd, rd)
            /\ UNCHANGED eexit
    /\ UNCHANGED <<src_len, src_open, rd, mode>>

\* The trailer in mode 1, and the final flush.
Finish ==
    /\ epc = "finish"
    /\ wire' = IF mode = Authenticated
               THEN Append(wire, Trailer(Sender,
                        Header(Session, mode, Recipient).hmac, hashed))
               ELSE wire
    /\ Exit(Success)
    /\ UNCHANGED <<src_len, src_open, rd, mode, cur_buf, next_buf,
                   chunk_counter, hashed>>

\* Writing to stdout fails, perhaps in the middle of an item.
WriteFails ==
    /\ epc \in {"setup", "emit", "finish"}
    /\ \/ wire' = wire
       \/ wire' = Append(wire, Cut)
    /\ Exit(IoError)
    /\ UNCHANGED <<src_len, src_open, rd, mode, cur_buf, next_buf,
                   chunk_counter, hashed>>

-----------------------------------------------------------------------------
Writes == WriteHeader \/ EmitChunk \/ Finish

Reads == ReadCur \/ CurFilled \/ ReadNext \/ NextFilled

Fails == SetupFails \/ ReadFails \/ (IO_ERRORS /\ WriteFails)

run_encrypt == Writes \/ Reads \/ Fails

EncNext == Produce \/ CloseInput \/ run_encrypt

EncSpec == EncInit /\ [][EncNext]_encVars

\* The process runs, and whoever feeds it ends its input some day.  Failures
\* are not owed.
EncFairSpec == EncSpec /\ WF_encVars(Writes \/ Reads) /\ WF_encVars(CloseInput)

-----------------------------------------------------------------------------
(* Properties.                                                             *)

IsChunk(i) == wire[i].type = "chunk"

\* The type of every variable.
EncTypeOK ==
    /\ src_len \in Nat /\ src_open \in BOOLEAN /\ rd \in Nat
    /\ mode \in Modes
    /\ cur_buf \in RunSet /\ next_buf \in RunSet
    /\ chunk_counter \in 0..COUNTER_MAX
    /\ hashed \in Seq(RunSet)
    /\ epc \in {"setup", "fill_cur", "fill_next", "emit", "finish", "exit"}
    /\ eexit \in {Running, Success, IoError, UsageError}

\* On success stdout holds the canonical stream of exactly the bytes that stdin
\* held, whatever the sizes of the reads: 65536-byte chunks up to the last,
\* which alone has the terminal tag, one empty chunk for no input, and the
\* trailer over the same slices in mode 1.
StreamIsCanonical ==
    eexit = Success =>
        wire = CanonicalStream(Session, mode, Recipient, Sender, src_len)

\* No two chunks are sealed under one nonce, up to the last counter value.
ChunkNonceUnique ==
    \A i, j \in 1..Len(wire) :
        (IsChunk(i) /\ IsChunk(j)
         /\ wire[i].box.nonce[1] = wire[j].box.nonce[1]) => i = j

\* "Canonical Intermediate Chunk Constraint" of SPECIFICATION.md: a chunk
\* without the terminal tag is full, already while the stream is being written.
IntermediateChunksFull ==
    \A i \in 1..Len(wire) :
        IsChunk(i) /\ wire[i].term_tag = 0 => wire[i].len = CHUNK_SIZE

\* What has been written is always the beginning of the input, in order.
WireInOrder ==
    \A i \in 1..Len(wire) :
        IsChunk(i) => wire[i].box.data.lo =
                          (IF i = 2 THEN 0 ELSE wire[i - 1].box.data.hi)

\* A usage error leaves no byte on stdout, unless the chunk counter overflowed.
UsageErrorIsSilent ==
    eexit = UsageError => wire = << >> \/ chunk_counter = COUNTER_MAX

\* An encryptor whose input ends comes to an end itself.
EncTerminates == <>(epc = "exit")
=============================================================================
