------------------------------- MODULE Decrypt ------------------------------
(***************************************************************************)
(* pipe-k1 decrypt: run_decrypt of src/rust/src/main.rs.  One action per   *)
(* item that it reads; an action takes the item as its parameter, so that  *)
(* the module that uses this one decides what the wire delivers: an item   *)
(* of any type at any point, cut items and the end of the stream included. *)
(* The spooler is SpoolAbs, which spool.rs implements.                     *)
(***************************************************************************)
EXTENDS Wire

CONSTANTS Me,               \* the recipient's own key
          Senders,          \* values of --sender: None, keys, Garbled
          Garbled,          \* a --sender value that is not a key
          MaxSizes,         \* values of --max-size
          LOCAL_ERRORS      \* may the key, stdout, the disk or the spooler fail?

VARIABLES expected_sender, allow_untrusted_sender, allow_unverified_stream,
          dmode, key,             \* from the header
          dcounter,               \* chunk_counter
          plain,                  \* plaintext_hasher and spooler: the runs opened
          streamed,               \* how many of them went straight to stdout
          dpc, dexit,
          max_size, offered, emitted, st    \* the spooler

optVars == <<expected_sender, allow_untrusted_sender, allow_unverified_stream>>
spoolVars == <<max_size, offered, emitted, st>>
decVars == <<expected_sender, allow_untrusted_sender, allow_unverified_stream,
             dmode, key, dcounter, plain, streamed, dpc, dexit,
             max_size, offered, emitted, st>>

Spooler == INSTANCE SpoolAbs WITH ChunkSizes <- 0..CHUNK_SIZE

DecInit == /\ expected_sender \in Senders
           /\ allow_untrusted_sender \in BOOLEAN
           /\ allow_unverified_stream \in BOOLEAN
           /\ dmode = 0
           /\ key = None
           /\ dcounter = 0
           /\ plain = << >>
           /\ streamed = 0
           /\ dpc = "start"
           /\ dexit = Running
           /\ Spooler!Init

DExit(code) == dpc' = "exit" /\ dexit' = code

\* run_decrypt returns here; the spooler is dropped unreleased.
Leave(code) == /\ DExit(code)
               /\ st' = "erased"
               /\ UNCHANGED <<optVars, dmode, key, dcounter, plain, streamed,
                              max_size, offered, emitted>>

-----------------------------------------------------------------------------
(* The recipient's key.                                                    *)

LoadKey == /\ dpc = "start"
           /\ dpc' = "header"
           /\ UNCHANGED <<optVars, dmode, key, dcounter, plain, streamed, dexit,
                          spoolVars>>

LoadKeyFails == LOCAL_ERRORS /\ dpc = "start" /\ Leave(UsageError)

-----------------------------------------------------------------------------
(* The header.                                                             *)

HmacMatches(h) ==
    h.hmac = compute_header_hmac(derive_keys(h.session, Me), h.mode, h.session,
                                 h.recip)

\* Replaces BypassesSender: an anonymous stream passes in spite of --sender.
BypassAllowed(h) == FALSE

\* --sender was given, but the stream claims to have none.
BypassesSender(h) == expected_sender # None /\ h.mode = Anonymous

\* The checks in the order of the code; the first that fails decides.  That a
\* mode 1 stream needs --sender is found before the header is authenticated.
HeaderVerdict(h) ==
    IF \/ h.type # "header"
       \/ ~h.known
       \/ h.mode \notin {Authenticated, Anonymous}
       \/ BypassesSender(h)
    THEN WireCorruption
    ELSE IF /\ h.mode = Authenticated
            /\ expected_sender = None
            /\ ~allow_untrusted_sender
         THEN UsageError
         ELSE IF h.recip # Me \/ ~HmacMatches(h) THEN WireCorruption
              ELSE Success

ReadHeader(h) ==
    /\ dpc = "header"
    /\ IF HeaderVerdict(h) = Success
       THEN /\ dmode' = h.mode
            /\ key' = derive_keys(h.session, Me)
            /\ dpc' = "chunks"
            /\ UNCHANGED <<optVars, dcounter, plain, streamed, dexit, spoolVars>>
       ELSE Leave(HeaderVerdict(h))

-----------------------------------------------------------------------------
(* The chunks.                                                             *)

WellFramed(c) ==
    /\ c.type = "chunk"
    /\ c.term_tag \in {0, 1}
    /\ c.term_tag = 0 => c.len = CHUNK_SIZE
    /\ c.len <= CHUNK_SIZE

\* Replaces ChunkOpens: the terminal tag is read from the wire only.
OpensForAnyTag(c) ==
    \E t \in {0, 1} : SealOpens(c.box, key, build_nonce(dcounter, t),
                                build_aad(dmode, Me, c.len, dcounter, t))
\* Replaces ChunkOpens: the position in the stream is not bound.
OpensForAnyCounter(c) == c.box.intact /\ c.box.key = key

\* The AEAD open with the nonce and the additional data the reader expects.
ChunkOpens(c) ==
    SealOpens(c.box, key, build_nonce(dcounter, c.term_tag),
              build_aad(dmode, Me, c.len, dcounter, c.term_tag))

\* Replaces NextCounter: wider than the eight bytes on the wire.
NextCounterUnbounded(c) == c + 1

\* chunk_counter += 1: a release build wraps around.
NextCounter(c) == (c + 1) % (COUNTER_MAX + 1)

\* Where the loop goes after a chunk.
AfterChunk(c) == IF c.term_tag = 0 THEN "chunks"
                 ELSE IF dmode = Authenticated THEN "trailer" ELSE "end"

\* --allow-unverified-stream: the plaintext goes out at once.
StreamChunk(c) ==
    /\ allow_unverified_stream
    /\ streamed' = streamed + 1
    /\ dpc' = AfterChunk(c)
    /\ UNCHANGED <<dexit, spoolVars>>

\* spooler.write_chunk: accepted, or refused because of the ceiling.
SpoolChunk(c) ==
    /\ ~allow_unverified_stream
    /\ offered' = offered + c.len
    /\ IF Spooler!Within(offered + c.len)
       THEN dpc' = AfterChunk(c) /\ UNCHANGED <<dexit, st>>
       ELSE DExit(UsageError) /\ st' = "erased"
    /\ UNCHANGED <<streamed, max_size, emitted>>

ReadChunk(c) ==
    /\ dpc = "chunks"
    /\ IF WellFramed(c) /\ ChunkOpens(c)
       THEN /\ plain' = Append(plain, c.box.data)
            /\ dcounter' = NextCounter(dcounter)
            /\ StreamChunk(c) \/ SpoolChunk(c)
            /\ UNCHANGED <<optVars, dmode, key>>
       ELSE Leave(WireCorruption)

\* A chunk is good, but stdout (exit 1, some of it may be out) or the disk
\* (exit 2) is not.
ReadChunkFails(c) ==
    /\ LOCAL_ERRORS
    /\ dpc = "chunks"
    /\ WellFramed(c) /\ ChunkOpens(c)
    /\ plain' = Append(plain, c.box.data)
    /\ IF allow_unverified_stream
       THEN /\ DExit(IoError)
            /\ streamed' \in {streamed, streamed + 1}
            /\ UNCHANGED offered
       ELSE /\ DExit(UsageError)
            /\ offered' = offered + c.len
            /\ UNCHANGED streamed
    /\ st' = "erased"
    /\ UNCHANGED <<optVars, dmode, key, dcounter, max_size, emitted>>

-----------------------------------------------------------------------------
(* The trailer, mode 1 only.                                               *)

\* verify_raw: by the key in the trailer, over this header and this plaintext.
SignatureValid(t) ==
    t.sig = AuthSignature(t.sender,
                compute_header_hmac(key, dmode, key.session, Me), plain)

SenderExpected(t) == expected_sender \in {None, t.sender}

TrailerVerdict(t) ==
    IF t.type # "trailer" THEN WireCorruption
    ELSE IF ~SignatureValid(t) THEN AuthFailure
    ELSE IF expected_sender = Garbled THEN UsageError
    ELSE IF ~SenderExpected(t) THEN AuthFailure
    ELSE Success

ReadTrailer(t) ==
    /\ dpc = "trailer"
    /\ IF TrailerVerdict(t) = Success
       THEN /\ dpc' = "end"
            /\ UNCHANGED <<optVars, dmode, key, dcounter, plain, streamed,
                           dexit, spoolVars>>
       ELSE Leave(TrailerVerdict(t))

-----------------------------------------------------------------------------
(* The end of the stream, and the release.                                 *)

NothingFollows(it) == it.type = "eof"

ReadEnd(it) ==
    /\ dpc = "end"
    /\ CASE ~NothingFollows(it) -> Leave(WireCorruption)
         [] NothingFollows(it) /\ allow_unverified_stream -> Leave(Success)
         [] OTHER -> /\ Spooler!Commit
                     /\ dpc' = "release"
                     /\ UNCHANGED <<optVars, dmode, key, dcounter, plain,
                                    streamed, dexit>>

ReadEndFails == LOCAL_ERRORS /\ dpc = "end" /\ Leave(IoError)

ReleaseSome == /\ dpc = "release"
               /\ Spooler!Emit
               /\ UNCHANGED <<optVars, dmode, key, dcounter, plain, streamed,
                              dpc, dexit>>

ReleaseDone == /\ dpc = "release"
               /\ Spooler!Finish
               /\ DExit(Success)
               /\ UNCHANGED <<optVars, dmode, key, dcounter, plain, streamed>>

\* A fault of stdout or of the temporary file.
ReleaseFails == /\ LOCAL_ERRORS
                /\ dpc = "release"
                /\ Spooler!Fail
                /\ DExit(IoError)
                /\ UNCHANGED <<optVars, dmode, key, dcounter, plain, streamed>>

Receive(it) == \/ ReadHeader(it)
               \/ ReadChunk(it)
               \/ ReadTrailer(it)
               \/ ReadEnd(it)

\* The steps that read nothing.
Local == LoadKey \/ ReleaseSome \/ ReleaseDone

LocalFails == LoadKeyFails \/ ReadEndFails \/ ReleaseFails

\* The type of every variable of run_decrypt, the counter's width included.
DecTypeOK ==
    /\ dmode \in {0, Authenticated, Anonymous}
    /\ dcounter \in 0..COUNTER_MAX
    /\ plain \in Seq(RunSet)
    /\ streamed \in Nat
    /\ dpc \in {"start", "header", "chunks", "trailer", "end", "release", "exit"}
    /\ dexit \in {Running, Success, WireCorruption, UsageError}
    /\ offered \in Nat /\ emitted \in Nat
    /\ st \in {"open", "releasing", "done", "failed", "erased"}
=============================================================================
