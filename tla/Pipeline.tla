------------------------------ MODULE Pipeline ------------------------------
(***************************************************************************)
(* encrypt and decrypt, and what lies between them: a pipe, which holds at *)
(* most PIPE_CAP items, blocks a writer that finds it full and breaks when *)
(* the reader is gone; a file, read when encrypt has ended; or then a      *)
(* faulty medium that delivers anything, in any order and any number of    *)
(* times: what encrypt wrote, the items of other streams, altered items,   *)
(* cut items, or the end of the stream.                                    *)
(***************************************************************************)
EXTENDS Encrypt, Decrypt, SequencesExt

CONSTANTS Media,       \* what may lie between: "pipe", "file", "faulty"
          PIPE_CAP,    \* items that a pipe holds
          Foreign,     \* other streams whose items the medium may deliver
          Stranger     \* a key whose owner signs what passes by

ASSUME PipelineAssumption ==
    Media \subseteq {"pipe", "file", "faulty"} /\ PIPE_CAP \in Nat \ {0}

\* Every run of encrypt draws an ephemeral key of its own; an anonymous stream has
\* no signer.
ASSUME ForeignAssumption ==
    /\ \A f \in Foreign : /\ f.session # Session
                          /\ f.n \in Nat
                          /\ f.mode = Anonymous => f.sender = None
    /\ \A f, g \in Foreign : f.session = g.session => f = g

\* No input fills all the chunks that a u64 can count: that would take 2^80 bytes.
ASSUME CounterAssumption ==
    /\ MAX_INPUT <= (COUNTER_MAX + 1) * CHUNK_SIZE
    /\ \A f \in Foreign : ChunkCount(f.n) <= COUNTER_MAX + 1

ASSUME OptionsAssumption == /\ MaxSizes \subseteq Nat \cup {None}
                            /\ Stranger # Sender /\ Garbled # Sender
                            /\ None \notin {Sender, Stranger, Garbled}

VARIABLES medium,      \* what lies between the two
          taken,       \* how many items decrypt took from pipe or file
          failed       \* something local has failed decrypt

pipeVars == <<encVars, decVars, medium, taken, failed>>

PipeInit == /\ EncInit
            /\ DecInit
            /\ medium \in Media
            /\ taken = 0
            /\ failed = FALSE

-----------------------------------------------------------------------------
(* The faulty medium.                                                      *)

StreamOf(f) == CanonicalStream(f.session, f.mode, f.recip, f.sender, f.n)

ForeignItems == UNION {Range(StreamOf(f)) : f \in Foreign}

Sessions == {Session} \cup {f.session : f \in Foreign}

\* What one change makes of an item.
Altered(it) ==
    CASE it.type = "header" ->
           {[it EXCEPT !.known = FALSE], [it EXCEPT !.recip = Me]}
           \cup {[it EXCEPT !.mode = m] : m \in 1..3}
           \cup {[it EXCEPT !.session = s] : s \in Sessions}
      [] it.type = "chunk" ->
           {[it EXCEPT !.box = [@ EXCEPT !.intact = FALSE]]}
           \cup {[it EXCEPT !.term_tag = t] : t \in 0..2}
           \cup {[it EXCEPT !.len = l] : l \in 0 .. CHUNK_SIZE + 1}
      [] it.type = "trailer" ->
           {[it EXCEPT !.sender = Stranger],
            Trailer(Stranger, it.sig.hmac, it.sig.digest)}
      [] OTHER -> {}

WithAltered(items) == items \cup UNION {Altered(it) : it \in items}

OfType(items, type) == {it \in items : it.type = type}

\* The type of the item that decrypt reads next.
ReadsNext == CASE dpc = "header" -> "header" [] dpc = "chunks" -> "chunk"
               [] dpc = "trailer" -> "trailer" [] OTHER -> "eof"

\* Any item of that type; one of another type is refused just as a cut one is.
Anything == WithAltered(OfType(Range(wire) \cup ForeignItems, ReadsNext)) \cup {Cut, Eof}

-----------------------------------------------------------------------------
(* Pipe and file.                                                          *)

\* What a read returns; no item: the reader waits.
NextItem == IF taken < Len(wire) THEN {wire[taken + 1]}
            ELSE IF epc = "exit" THEN {Eof} ELSE {}

\* Writing fails once the reader is gone, and waits while the pipe is full.
BrokenPipe == medium = "pipe" /\ dpc = "exit"
Room == medium = "pipe" => dpc # "exit" /\ Len(wire) - taken < PIPE_CAP

-----------------------------------------------------------------------------
\* Who feeds encrypt's input, as long as there is someone to read it.
FeedWith(A) == epc # "exit" /\ A /\ UNCHANGED <<decVars, medium, taken, failed>>
Feed == FeedWith(Produce \/ CloseInput)

Encryptor == /\ \/ Reads
                \/ Room /\ Writes
                \/ BrokenPipe /\ WriteFails
             /\ UNCHANGED <<decVars, medium, taken, failed>>

\* The two ends of a pipe run at once; otherwise decrypt is started when encrypt has
\* ended, which it may do, failing, after any beginning of its stream.
Started == medium = "pipe" \/ epc = "exit"

\* What the medium may deliver now.
Deliverable == IF medium = "faulty" THEN Anything ELSE NextItem

TakenWith(it) == IF medium = "faulty" \/ it = Eof THEN taken ELSE taken + 1

ReceiveItem == /\ \E it \in Deliverable : Receive(it) /\ taken' = TakenWith(it)
               /\ UNCHANGED <<encVars, medium, failed>>

Decryptor == /\ Started
             /\ \/ Local /\ UNCHANGED <<encVars, medium, taken, failed>>
                \/ ReceiveItem

DecryptorFails ==
    /\ Started
    /\ \/ LocalFails /\ UNCHANGED taken
       \/ \E it \in Deliverable : ReadChunkFails(it) /\ taken' = TakenWith(it)
    /\ failed' = TRUE
    /\ UNCHANGED <<encVars, medium>>

Failures == \/ Fails /\ UNCHANGED <<decVars, medium, taken, failed>>
            \/ DecryptorFails

PipeNext == Feed \/ Encryptor \/ Decryptor \/ Failures

PipeSpec == PipeInit /\ [][PipeNext]_pipeVars

\* Over a pipe or a file both processes are scheduled, and the input ends some
\* day; failures other than those one process causes the other are not owed.
Owed(A) == medium # "faulty" /\ A

PipeFairSpec == /\ PipeSpec
                /\ WF_pipeVars(Owed(Encryptor))
                /\ WF_pipeVars(Owed(Decryptor))
                /\ WF_pipeVars(Owed(FeedWith(CloseInput)))

-----------------------------------------------------------------------------
(* Properties.                                                             *)

\* The runs that encrypt sealed so far, and whether the last is terminal.
\* The header comes first: the i-th chunk is item i + 1.
SealedRuns == [i \in {j - 1 : j \in {p \in DOMAIN wire : IsChunk(p)}} |->
                   wire[i + 1].box.data]
StreamEnded == \E i \in DOMAIN wire : IsChunk(i) /\ wire[i].term_tag = 1

\* All the plaintext of a session, as far as its owner has encrypted it.
RunsOf(s) == IF s = Session THEN SealedRuns
             ELSE Slices((CHOOSE f \in Foreign : f.session = s).n)

Ended(s) == s = Session => StreamEnded

\* Who vouches for a session: the signer of its trailer, in mode 1.
SignerOf(s) == IF s = Session
               THEN (IF mode = Authenticated THEN Sender ELSE None)
               ELSE (CHOOSE f \in Foreign : f.session = s).sender

Released == emitted > 0 \/ dexit = Success

\* The type of every variable.
PipeTypeOK == EncTypeOK /\ DecTypeOK /\ taken \in 0..Len(wire)

\* Whatever the medium does, the chunks that decrypt accepts are the first
\* chunks of one session, in order: never a gap, a repetition or a splice of
\* two streams.  So holds for all that --allow-unverified-stream lets out.
AcceptedIsPrefix == plain # << >> => IsPrefix(plain, RunsOf(key.session))

\* Zero release of unverified plaintext: not one byte leaves the spooler, and
\* decrypt does not succeed, unless the stream was received to its very end.
ReleaseOnlyComplete ==
    Released => plain = RunsOf(key.session) /\ Ended(key.session)

\* With --sender naming an honest sender, one who signs only its own streams,
\* plaintext is released only from a stream that it signed for this recipient;
\* without --sender and --allow-untrusted-sender, only from an anonymous one.
SenderAuthenticated ==
    Released =>
        /\ expected_sender = Sender => SignerOf(key.session) = Sender
        /\ expected_sender = None /\ ~allow_untrusted_sender =>
               SignerOf(key.session) = None

\* The spooler's ceiling holds against any stream: what is released never
\* exceeds --max-size.
CeilingRespected == max_size # None => emitted <= max_size

\* Options under which this stream must be accepted.
OptionsFit == /\ expected_sender \in IF mode = Authenticated
                                     THEN {Sender, None} ELSE {None}
              /\ mode = Authenticated /\ expected_sender = None =>
                     allow_untrusted_sender
              /\ max_size # None => src_len <= max_size

\* Through a pipe or a file, what encrypt turned into a stream decrypt turns back
\* into the same bytes, all of them, if its options allow the stream at all and
\* nothing local fails it.
RoundTrip ==
    medium # "faulty" /\ eexit = Success /\ dpc = "exit" /\ OptionsFit /\ ~failed =>
        /\ dexit = Success
        /\ EndOf(plain) = src_len
        /\ Contiguous(plain)
        /\ ~allow_unverified_stream => emitted = src_len

\* Over a pipe or a file, neither process waits for the other forever, whichever
\* gives up first.
BothExit == <>(medium = "faulty" \/ (epc = "exit" /\ dpc = "exit"))
=============================================================================
