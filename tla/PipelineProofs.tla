--------------------------- MODULE PipelineProofs ---------------------------
(***************************************************************************)
(* Proofs about encrypt and decrypt together, for every medium, chunk      *)
(* size, input and set of other streams.                                   *)
(*                                                                         *)
(* Whatever the medium delivers, its MACs, boxes and signatures are those  *)
(* of items that some run of encrypt issued (DeliverablePlausible).  The   *)
(* header that decrypt accepts so fixes a session and its mode; a chunk    *)
(* that opens is the next chunk of that session, with its own terminal     *)
(* tag; and the invariant follows the plaintext along the runs of that     *)
(* session.                                                                *)
(***************************************************************************)
EXTENDS Pipeline, EncryptProofs

\* The other stream of a session, and the parameters of any session.
OtherStream(s) == CHOOSE f \in Foreign : f.session = s
ModeOf(s) == IF s = Session THEN mode ELSE OtherStream(s).mode
RecipOf(s) == IF s = Session THEN Recipient ELSE OtherStream(s).recip
HmacOf(s) == Header(s, ModeOf(s), RecipOf(s)).hmac

\* The terminal tag of the i-th chunk of a session.
TagOf(s, i) == IF i = Len(RunsOf(s)) /\ Ended(s) THEN 1 ELSE 0

\* What the owner of a session has put on some wire.
IssuedHeader(s, it) == it = Header(s, ModeOf(s), RecipOf(s))
IssuedChunk(s, it) ==
    \E i \in 1..Len(RunsOf(s)) :
        it = Chunk(s, ModeOf(s), RecipOf(s), i - 1, TagOf(s, i), RunsOf(s)[i])
IssuedTrailer(s, it) == it = Trailer(SignerOf(s), HmacOf(s), RunsOf(s))
                        /\ ModeOf(s) = Authenticated

Issued(it) == \/ it = Cut
              \/ \E s \in Sessions : \/ IssuedHeader(s, it)
                                     \/ IssuedChunk(s, it)
                                     \/ IssuedTrailer(s, it)

-----------------------------------------------------------------------------
(* The invariant of decrypt.                                               *)

\* Before the header is accepted.
Blank == /\ dpc \in {"start", "header"} => plain = << >> /\ dcounter = 0 /\ dmode = 0
         /\ dpc = "chunks" => dmode # 0
         /\ dmode = 0 => plain = << >> /\ ~Released
                         /\ dpc \in {"start", "header", "exit"}

\* The accepted header: a session, in its mode, that the options allow.
Keyed ==
    dmode # 0 =>
        /\ key.session \in Sessions
        /\ key = derive_keys(key.session, Me)
        /\ dmode = ModeOf(key.session)
        /\ expected_sender # None => dmode # Anonymous
        /\ expected_sender = None /\ ~allow_untrusted_sender => dmode # Authenticated

\* The accepted chunks.  In the loop all of them are full.
Accepted ==
    /\ \A i \in 1..Len(plain) : /\ i <= Len(RunsOf(key.session))
                                /\ plain[i] = RunsOf(key.session)[i]
    /\ dpc = "chunks" => /\ Len(plain) = dcounter
                         /\ EndOf(plain) = dcounter * CHUNK_SIZE

\* The stream has been received to its end.
Complete ==
    dpc \in {"trailer", "end", "release"} \/ Released =>
        plain = RunsOf(key.session) /\ Ended(key.session)

\* The trailer is read in mode 1 only, and then by everyone who gets past it.
Vouched ==
    /\ dpc = "trailer" => dmode = Authenticated
    /\ (dpc \in {"end", "release"} \/ Released) /\ dmode = Authenticated
       /\ expected_sender = Sender => SignerOf(key.session) = Sender

\* The spooler.
Spooled ==
    /\ max_size \in Nat \cup {None}
    /\ emitted <= offered
    /\ dpc \in {"start", "header", "chunks", "trailer", "end"} =>
           st = "open" /\ emitted = 0
    /\ st \in {"open", "releasing"} => Spooler!Within(offered)
    /\ st \in {"open", "erased"} => emitted = 0
    /\ dpc = "release" <=> st = "releasing"
    /\ dpc # "exit" => dexit = Running

DInv == /\ DecTypeOK /\ taken \in 0..Len(wire)
        /\ Blank /\ Keyed /\ Accepted /\ Complete /\ Vouched
        /\ Spooled /\ CeilingRespected

PInv == SInv /\ DInv

-----------------------------------------------------------------------------
(* The streams.                                                            *)

\* More blocks are at least as long.
LEMMA MoreBlocksEq ==
    ASSUME NEW p \in Nat, NEW q \in Nat, NEW c \in Nat, p <= q
    PROVE  p * c <= q * c
<1>1. p * c \in Int /\ q * c \in Int
  OBVIOUS
<1>2. p = q \/ p * c + c <= q * c
  BY MoreBlocks
<1>3. QED
  BY <1>1, <1>2

\* A stream has at least one chunk.
LEMMA ChunkCountPositive ==
    ASSUME NEW len \in Nat
    PROVE  ChunkCount(len) \in Nat \ {0}
<1> DEFINE a == len + CHUNK_SIZE - 1
           d == a \div CHUNK_SIZE
<1>0. CHUNK_SIZE \in Nat \ {0}
  BY WireAssumption
<1>1. CASE len = 0
  BY <1>1 DEF ChunkCount
<1>2. CASE len # 0
  <2>1. a \in Nat /\ CHUNK_SIZE <= a
    BY <1>0, <1>2
  <2> HIDE DEF a
  <2>2. d \in Int /\ a < d * CHUNK_SIZE + CHUNK_SIZE
    BY <1>0, <2>1
  <2> HIDE DEF d
  <2>3. ~(d < 1)
    <3>1. d * CHUNK_SIZE \in Int
      BY <1>0, <2>2
    <3>2. d < 1 => d * CHUNK_SIZE + CHUNK_SIZE <= 1 * CHUNK_SIZE
      BY <1>0, <2>2, MoreBlocks
    <3>3. 1 * CHUNK_SIZE = CHUNK_SIZE
      BY <1>0
    <3>4. QED
      BY <1>0, <2>1, <2>2, <3>1, <3>2, <3>3
  <2>4. ChunkCount(len) = d
    BY <1>2 DEF ChunkCount, a, d
  <2>5. QED
    BY <2>2, <2>3, <2>4
<1>3. QED
  BY <1>1, <1>2

\* The last slice does not start after the end of the input.
LEMMA LastSlice ==
    ASSUME NEW len \in Nat
    PROVE  (ChunkCount(len) - 1) * CHUNK_SIZE <= len
<1> DEFINE a == len + CHUNK_SIZE - 1
           d == a \div CHUNK_SIZE
<1>0. CHUNK_SIZE \in Nat \ {0}
  BY WireAssumption
<1>1. CASE len = 0
  <2>1. ChunkCount(len) - 1 = 0
    BY <1>1 DEF ChunkCount
  <2>2. 0 * CHUNK_SIZE = 0
    BY <1>0
  <2>3. QED
    BY <2>1, <2>2
<1>2. CASE len # 0
  <2>1. a \in Nat
    BY <1>0
  <2>2. ChunkCount(len) = d
    BY <1>2 DEF ChunkCount
  <2> HIDE DEF d
  <2>3. d \in Nat \ {0}
    BY <2>2, ChunkCountPositive
  <2>4. d * CHUNK_SIZE <= a
    BY <1>0, <2>1 DEF d
  <2>5. (d - 1) * CHUNK_SIZE + CHUNK_SIZE = d * CHUNK_SIZE
        /\ (d - 1) * CHUNK_SIZE \in Int /\ d * CHUNK_SIZE \in Int
    BY <1>0, <2>3
  <2> DEFINE x == (d - 1) * CHUNK_SIZE
             y == d * CHUNK_SIZE
  <2>6. x + CHUNK_SIZE = y /\ y <= len + CHUNK_SIZE - 1 /\ x \in Int /\ y \in Int
    BY <2>4, <2>5
  <2> HIDE DEF x, y
  <2>7. x <= len
    BY <1>0, <2>6
  <2>8. QED
    BY <2>2, <2>7 DEF x
<1>3. QED
  BY <1>1, <1>2

\* Sequences with equal elements are equal.
LEMMA SameSequence ==
    ASSUME NEW T, NEW a \in Seq(T), NEW b \in Seq(T), Len(a) = Len(b),
           \A i \in 1..Len(a) : a[i] = b[i]
    PROVE  a = b
  OBVIOUS

\* The slices of an input, as a sequence of runs.
LEMMA SlicesSeq ==
    ASSUME NEW len \in Nat
    PROVE  /\ Slices(len) \in Seq(RunSet)
           /\ Len(Slices(len)) = ChunkCount(len)
<1> DEFINE n == ChunkCount(len)
           R(i) == Run((i - 1) * CHUNK_SIZE, IF i = n THEN len ELSE i * CHUNK_SIZE)
<1>1. n \in Nat
  BY ChunkCountPositive
<1>2. Slices(len) = [i \in 1..n |-> R(i)]
  BY DEF Slices
<1> HIDE DEF n
<1>3. ASSUME NEW i \in 1..n PROVE R(i) \in RunSet
  <2>1. (i - 1) * CHUNK_SIZE \in Nat /\ i * CHUNK_SIZE \in Nat
    BY <1>1, WireAssumption
  <2>2. QED
    BY <2>1 DEF Run, RunSet
<1> HIDE DEF R
<1>4. QED
  BY <1>1, <1>2, <1>3 DEF n

\* The other stream of its session.
LEMMA OtherStreamIs ==
    ASSUME NEW f \in Foreign
    PROVE  /\ OtherStream(f.session) = f
           /\ f.session # Session /\ f.session \in Sessions
<1>1. OtherStream(f.session) \in Foreign /\ OtherStream(f.session).session = f.session
  BY DEF OtherStream
<1>2. QED
  BY <1>1, ForeignAssumption DEF Sessions

\* A session is this one or that of another stream.
LEMMA SessionCases ==
    ASSUME NEW s \in Sessions, s # Session
    PROVE  OtherStream(s) \in Foreign /\ OtherStream(s).session = s
<1>1. PICK f \in Foreign : s = f.session
  BY DEF Sessions
<1>2. QED
  BY <1>1, OtherStreamIs

\* The runs of another stream.
LEMMA OtherRuns ==
    ASSUME NEW s \in Sessions, s # Session
    PROVE  /\ RunsOf(s) = Slices(OtherStream(s).n) /\ Ended(s)
           /\ RunsOf(s) \in Seq(RunSet)
           /\ Len(RunsOf(s)) = ChunkCount(OtherStream(s).n)
           /\ OtherStream(s).n \in Nat
           /\ SignerOf(s) = OtherStream(s).sender
<1>1. OtherStream(s).n \in Nat
  BY SessionCases, ForeignAssumption
<1>2. RunsOf(s) = Slices(OtherStream(s).n) /\ Ended(s)
      /\ SignerOf(s) = OtherStream(s).sender
  BY DEF RunsOf, Ended, OtherStream, SignerOf
<1>3. QED
  BY <1>1, <1>2, SlicesSeq

\* Every item of another stream is one that its owner issued.
LEMMA ForeignIssued ==
    ASSUME NEW it \in ForeignItems
    PROVE  Issued(it)
<1>1. PICK f \in Foreign : it \in Range(StreamOf(f))
  BY DEF ForeignItems
<1> DEFINE s == f.session
           n == ChunkCount(f.n)
<1>2. PICK p \in DOMAIN StreamOf(f) : it = StreamOf(f)[p]
  BY <1>1 DEF Range
<1>3. n \in Nat /\ f.n \in Nat
  BY ForeignAssumption, ChunkCountPositive
<1>4. OtherStream(s) = f /\ s # Session /\ s \in Sessions
  BY OtherStreamIs
<1>5. /\ ModeOf(s) = f.mode /\ RecipOf(s) = f.recip
      /\ HmacOf(s) = Header(s, f.mode, f.recip).hmac
  BY <1>4 DEF ModeOf, RecipOf, HmacOf
<1>6. /\ RunsOf(s) = Slices(f.n) /\ Len(RunsOf(s)) = n /\ Ended(s)
      /\ SignerOf(s) = f.sender
  BY <1>4, OtherRuns
<1> HIDE DEF n
<1>7. Canonical(StreamOf(f), n, s, f.mode, f.recip, f.sender, f.n)
  BY <1>3, CanonicalPlaces DEF StreamOf, n
<1> HIDE DEF s
<1>8. CASE p = 1
  BY <1>2, <1>4, <1>5, <1>7, <1>8 DEF Issued, IssuedHeader, Canonical
<1>9. CASE p \in 2 .. n + 1
  <2> DEFINE i == p - 1
  <2>1. i \in 1..n /\ p = i + 1
    BY <1>3, <1>9
  <2> HIDE DEF i
  <2>2. TagOf(s, i) = IF i = n THEN 1 ELSE 0
    BY <1>6 DEF TagOf
  <2>3. it = Chunk(s, ModeOf(s), RecipOf(s), i - 1, TagOf(s, i), RunsOf(s)[i])
    BY <1>2, <1>5, <1>6, <1>7, <2>1, <2>2 DEF Canonical
  <2>4. IssuedChunk(s, it)
    BY <1>6, <2>1, <2>3 DEF IssuedChunk
  <2>5. QED
    BY <1>4, <2>4 DEF Issued
<1>10. CASE p = n + 2 /\ f.mode = Authenticated
  BY <1>2, <1>4, <1>5, <1>6, <1>7, <1>10
  DEF Issued, IssuedTrailer, Canonical
<1>11. QED
  BY <1>2, <1>3, <1>7, <1>8, <1>9, <1>10 DEF Canonical

\* Where the chunks are on the wire of encrypt.
LEMMA ChunkPlaces ==
    ASSUME NEW n \in Nat, WireShape(n), wire \in Seq(Items)
    PROVE  {p \in DOMAIN wire : IsChunk(p)} = 2 .. n + 1
<1>0. DOMAIN wire = 1..Len(wire) /\ Len(wire) \in Nat
  OBVIOUS
<1>1. \A p \in 2 .. n + 1 : p \in DOMAIN wire /\ IsChunk(p)
  <2> SUFFICES ASSUME NEW p \in 2 .. n + 1 PROVE p \in DOMAIN wire /\ IsChunk(p)
    OBVIOUS
  <2>1. Body(n) /\ p - 1 \in 1..n /\ (p - 1) + 1 = p
    BY DEF WireShape
  <2>2. wire[p] = Chunk(Session, mode, Recipient, (p - 1) - 1, Tag(p - 1), Data(p - 1))
    BY <2>1 DEF Body, ChunkAt
  <2>3. wire[p].type = "chunk"
    BY <2>2, ChunkFields
  <2>4. QED
    BY <1>0, <2>1, <2>3 DEF IsChunk, Body
<1>2. \A p \in DOMAIN wire : IsChunk(p) => p \in 2 .. n + 1
  <2> SUFFICES ASSUME NEW p \in DOMAIN wire, IsChunk(p) PROVE p \in 2 .. n + 1
    OBVIOUS
  <2>1. TheHeader.type # "chunk" /\ TheTrailer.type # "chunk" /\ Cut.type # "chunk"
    BY OtherItems DEF TheHeader, TheTrailer
  <2>2. wire[p] \notin {TheHeader, TheTrailer, Cut}
    BY <2>1 DEF IsChunk
  <2>3. p \in 1..Len(wire)
    BY <1>0
  <2>4. CASE Body(n) /\ Len(wire) = n + 1
    BY <2>2, <2>3, <2>4 DEF Body
  <2>5. CASE Body(n) /\ Len(wire) = n + 2 /\ wire[n + 2] \in {Cut, TheTrailer}
    BY <2>2, <2>3, <2>5 DEF Body
  <2>6. CASE wire = << >>
    BY <2>3, <2>6
  <2>7. CASE Len(wire) = 1 /\ wire[1] = Cut
    BY <2>2, <2>3, <2>7
  <2>8. QED
    BY <2>4, <2>5, <2>6, <2>7 DEF WireShape
<1>3. QED
  BY <1>1, <1>2

\* The runs that encrypt has sealed.
LEMMA SealedIs ==
    ASSUME NEW n \in Nat, WireShape(n), wire \in Seq(Items)
    PROVE  /\ SealedRuns = [i \in 1..n |-> Data(i)]
           /\ SealedRuns \in Seq(RunSet) /\ Len(SealedRuns) = n
           /\ StreamEnded <=> Terminal(n)
<1>1. {p \in DOMAIN wire : IsChunk(p)} = 2 .. n + 1
  BY ChunkPlaces
<1>2. {j - 1 : j \in 2 .. n + 1} = 1..n
  <2>1. \A i \in 1..n : i + 1 \in 2 .. n + 1 /\ i = (i + 1) - 1
    OBVIOUS
  <2>2. QED
    BY <2>1
<1>3. SealedRuns = [i \in 1..n |-> Data(i)]
  BY <1>1, <1>2 DEF SealedRuns, Data
<1>4. \A i \in 1..n : Data(i) \in RunSet /\ (Tag(i) = 1 => i = n)
  <2>1. CASE n = 0
    BY <2>1
  <2>2. CASE n # 0
    <3>1. Body(n)
      BY <2>2 DEF WireShape
    <3>2. QED
      BY <3>1 DEF Body, ChunkAt
  <2>3. QED
    BY <2>1, <2>2
<1>5. SealedRuns \in Seq(RunSet) /\ Len(SealedRuns) = n
  BY <1>3, <1>4
<1>6. StreamEnded <=> \E p \in 2 .. n + 1 : wire[p].term_tag = 1
  BY <1>1 DEF StreamEnded
<1>7. (\E p \in 2 .. n + 1 : wire[p].term_tag = 1) <=> \E i \in 1..n : Tag(i) = 1
  <2>1. \A p \in 2 .. n + 1 : p - 1 \in 1..n /\ (p - 1) + 1 = p
    OBVIOUS
  <2>2. \A i \in 1..n : i + 1 \in 2 .. n + 1
    OBVIOUS
  <2>3. QED
    BY <2>1, <2>2 DEF Tag
<1>8. (\E i \in 1..n : Tag(i) = 1) <=> Terminal(n)
  BY <1>4 DEF Terminal
<1>9. QED
  BY <1>3, <1>5, <1>6, <1>7, <1>8

\* Every item on the wire of encrypt is one that it issued.
LEMMA WireIssued ==
    ASSUME SInv, NEW p \in 1..Len(wire)
    PROVE  Issued(wire[p])
<1>1. PICK n \in Nat : Stream(n)
  BY DEF SInv
<1>2. wire \in Seq(Items)
  BY DEF SInv, EInv, WireOK
<1>3. /\ SealedRuns = [i \in 1..n |-> Data(i)] /\ Len(SealedRuns) = n
      /\ StreamEnded <=> Terminal(n)
  BY <1>1, <1>2, SealedIs DEF Stream
<1>4. /\ Session \in Sessions /\ RunsOf(Session) = SealedRuns
      /\ Ended(Session) <=> Terminal(n)
      /\ ModeOf(Session) = mode /\ RecipOf(Session) = Recipient
      /\ HmacOf(Session) = TheHeader.hmac
  BY <1>3 DEF Sessions, RunsOf, Ended, ModeOf, RecipOf, HmacOf, TheHeader
<1>5. CASE wire[p] = Cut
  BY <1>5 DEF Issued
<1>6. CASE wire[p] = TheHeader
  BY <1>4, <1>6 DEF Issued, IssuedHeader, TheHeader
<1>7. CASE Body(n) /\ p \in 2 .. n + 1
  <2> DEFINE i == p - 1
  <2>1. i \in 1..n /\ p = i + 1
    BY <1>7
  <2> HIDE DEF i
  <2>2. /\ wire[p] = Chunk(Session, mode, Recipient, i - 1, Tag(i), Data(i))
        /\ Tag(i) \in {0, 1} /\ (i < n => Tag(i) = 0)
    BY <1>7, <2>1 DEF Body, ChunkAt
  <2>3. TagOf(Session, i) = Tag(i) /\ RunsOf(Session)[i] = Data(i)
    BY <1>3, <1>4, <2>1, <2>2 DEF TagOf, Terminal
  <2>4. IssuedChunk(Session, wire[p])
    BY <1>3, <1>4, <2>1, <2>2, <2>3 DEF IssuedChunk
  <2>5. QED
    BY <1>4, <2>4 DEF Issued
<1>8. CASE wire[p] = TheTrailer /\ mode = Authenticated
  <2>1. hashed = SealedRuns
    BY <1>1, <1>3, <1>8 DEF Stream, HashedAll
  <2>2. SignerOf(Session) = Sender
    BY <1>8 DEF SignerOf
  <2>3. QED
    BY <1>4, <1>8, <2>1, <2>2 DEF Issued, IssuedTrailer, TheTrailer
<1>9. QED
  <2>1. CASE wire = << >>
    BY <2>1
  <2>2. CASE Body(n)
    <3>1. p = 1 \/ p \in 2 .. n + 1 \/ p = n + 2
      <4> DEFINE l == Len(wire)
      <4>1. wire = << >> => l = 0
        OBVIOUS
      <4>2. l \in Nat /\ p \in Int /\ 1 <= p /\ p <= l
        BY <1>2
      <4>3. l = 0 \/ l = 1 \/ l = n + 1 \/ l = n + 2
        BY <1>1, <4>1 DEF Stream, WireShape
      <4> HIDE DEF l
      <4>4. p <= n + 2
        BY <4>2, <4>3
      <4>5. QED
        BY <4>2, <4>4
    <3>2. p = 1 => wire[p] = TheHeader
      BY <2>2 DEF Body
    <3>3. CASE p = n + 2
      <4>1. ~(Len(wire) = n + 1)
        BY <3>3
      <4>2. wire # << >> /\ ~(n = 0 /\ Len(wire) = 1)
        BY <3>3
      <4>3. wire[p] = Cut \/ (wire[p] = TheTrailer /\ mode = Authenticated)
        BY <1>1, <3>3, <4>1, <4>2 DEF Stream, WireShape
      <4>4. QED
        BY <1>5, <1>8, <4>3
    <3>4. QED
      BY <1>6, <1>7, <2>2, <3>1, <3>2, <3>3
  <2>3. QED
    BY <1>1, <1>5, <2>1, <2>2 DEF Stream, WireShape

\* The MAC, the box and the signature that an item carries are those of an issued
\* one, the stranger's signature and boxes that do not open apart.
MacIssued(it) == \E s \in Sessions : it.hmac = HmacOf(s)
BoxIssued(it) ==
    it.box.intact => \E s \in Sessions : \E c : IssuedChunk(s, c) /\ it.box = c.box
SigIssued(it) ==
    \E s \in Sessions :
        /\ it.sig.hmac = HmacOf(s) /\ it.sig.digest = RunsOf(s)
        /\ it.sig.signer \in {SignerOf(s), Stranger}

Plausible(it) == /\ it.type = "header" => MacIssued(it)
                 /\ it.type = "chunk" => BoxIssued(it)
                 /\ it.type = "trailer" => SigIssued(it)

\* An issued item is plausible.
LEMMA IssuedPlausible ==
    ASSUME NEW it, Issued(it)
    PROVE  Plausible(it)
<1>1. CASE it = Cut
  BY <1>1 DEF Cut, Plausible
<1>2. CASE \E s \in Sessions : IssuedHeader(s, it)
  <2>1. PICK s \in Sessions : it = Header(s, ModeOf(s), RecipOf(s))
    BY <1>2 DEF IssuedHeader
  <2>2. it.type = "header" /\ it.hmac = HmacOf(s)
    BY <2>1 DEF Header, HmacOf
  <2>3. QED
    BY <2>2 DEF Plausible, MacIssued
<1>3. CASE \E s \in Sessions : IssuedChunk(s, it)
  <2>1. PICK s \in Sessions : IssuedChunk(s, it)
    BY <1>3
  <2>2. it.type = "chunk"
    BY <2>1 DEF IssuedChunk, Chunk
  <2>3. QED
    BY <2>1, <2>2 DEF Plausible, BoxIssued
<1>4. CASE \E s \in Sessions : IssuedTrailer(s, it)
  <2>1. PICK s \in Sessions : it = Trailer(SignerOf(s), HmacOf(s), RunsOf(s))
    BY <1>4 DEF IssuedTrailer
  <2>2. /\ it.type = "trailer" /\ it.sig.hmac = HmacOf(s)
        /\ it.sig.digest = RunsOf(s) /\ it.sig.signer = SignerOf(s)
    BY <2>1 DEF Trailer, AuthSignature
  <2>3. QED
    BY <2>2 DEF Plausible, SigIssued
<1>5. QED
  BY <1>1, <1>2, <1>3, <1>4 DEF Issued

\* One change of an issued item leaves it plausible.
LEMMA AlteredPlausible ==
    ASSUME NEW it, Issued(it), NEW alt \in Altered(it)
    PROVE  Plausible(alt)
<1>1. CASE it = Cut
  BY <1>1 DEF Cut, Altered
<1>2. CASE \E s \in Sessions : IssuedHeader(s, it)
  <2>1. PICK s \in Sessions : it = Header(s, ModeOf(s), RecipOf(s))
    BY <1>2 DEF IssuedHeader
  <2>2. it.type = "header" /\ it.hmac = HmacOf(s)
    BY <2>1 DEF Header, HmacOf
  <2>3. \/ alt = [it EXCEPT !.known = FALSE] \/ alt = [it EXCEPT !.recip = Me]
        \/ \E m \in 1..3 : alt = [it EXCEPT !.mode = m]
        \/ \E t \in Sessions : alt = [it EXCEPT !.session = t]
    BY <2>2 DEF Altered
  <2>4. alt.type = "header" /\ alt.hmac = HmacOf(s)
    BY <2>1, <2>2, <2>3 DEF Header
  <2>5. QED
    BY <2>4 DEF Plausible, MacIssued
<1>3. CASE \E s \in Sessions : IssuedChunk(s, it)
  <2>1. PICK s \in Sessions : IssuedChunk(s, it)
    BY <1>3
  <2>2. PICK c, t, d : it = Chunk(s, ModeOf(s), RecipOf(s), c, t, d)
    BY <2>1 DEF IssuedChunk
  <2>3. it.type = "chunk"
    BY <2>2 DEF Chunk
  <2>4. \/ alt = [it EXCEPT !.box = [@ EXCEPT !.intact = FALSE]]
        \/ \E u \in 0..2 : alt = [it EXCEPT !.term_tag = u]
        \/ \E l \in 0 .. CHUNK_SIZE + 1 : alt = [it EXCEPT !.len = l]
    BY <2>3 DEF Altered
  <2>5. alt.type = "chunk" /\ (alt.box.intact => alt.box = it.box)
    BY <2>2, <2>4 DEF Chunk, Seal
  <2>6. QED
    BY <2>1, <2>5 DEF Plausible, BoxIssued
<1>4. CASE \E s \in Sessions : IssuedTrailer(s, it)
  <2>1. PICK s \in Sessions : it = Trailer(SignerOf(s), HmacOf(s), RunsOf(s))
    BY <1>4 DEF IssuedTrailer
  <2>2. /\ it.type = "trailer" /\ it.sig.hmac = HmacOf(s)
        /\ it.sig.digest = RunsOf(s) /\ it.sig.signer = SignerOf(s)
    BY <2>1 DEF Trailer, AuthSignature
  <2>3. \/ alt = [it EXCEPT !.sender = Stranger]
        \/ alt = Trailer(Stranger, it.sig.hmac, it.sig.digest)
    BY <2>2 DEF Altered
  <2>4. /\ alt.type = "trailer" /\ alt.sig.hmac = HmacOf(s)
        /\ alt.sig.digest = RunsOf(s) /\ alt.sig.signer \in {SignerOf(s), Stranger}
    BY <2>1, <2>2, <2>3 DEF Trailer, AuthSignature
  <2>5. QED
    BY <2>4 DEF Plausible, SigIssued
<1>5. QED
  BY <1>1, <1>2, <1>3, <1>4 DEF Issued

\* Whatever the medium delivers is plausible.
LEMMA DeliverablePlausible ==
    ASSUME SInv, taken \in 0..Len(wire), NEW it \in Deliverable
    PROVE  Plausible(it)
<1>0. wire \in Seq(Items) /\ Len(wire) \in Nat
  BY DEF SInv, EInv, WireOK
<1>1. CASE it \in {Cut, Eof}
  BY <1>1 DEF Cut, Eof, Plausible
<1>2. CASE it \in NextItem /\ it # Eof
  <2>1. taken + 1 \in 1..Len(wire) /\ it = wire[taken + 1]
    BY <1>0, <1>2 DEF NextItem
  <2>2. QED
    BY <2>1, WireIssued, IssuedPlausible
<1>3. CASE it \in WithAltered(OfType(Range(wire) \cup ForeignItems, ReadsNext))
  <2>1. PICK o \in Range(wire) \cup ForeignItems : it = o \/ it \in Altered(o)
    BY <1>3 DEF WithAltered, OfType
  <2>2. Issued(o)
    <3>1. CASE o \in Range(wire)
      <4>1. PICK p \in 1..Len(wire) : o = wire[p]
        BY <1>0, <3>1 DEF Range
      <4>2. QED
        BY <4>1, WireIssued
    <3>2. QED
      BY <3>1, ForeignIssued
  <2>3. QED
    BY <2>1, <2>2, IssuedPlausible, AlteredPlausible
<1>4. QED
  BY <1>1, <1>2, <1>3 DEF Deliverable, Anything

-----------------------------------------------------------------------------
(* What a step of encrypt leaves as it was.                                *)

\* The wire only grows.
LEMMA WireGrows ==
    ASSUME SInv, [EncNext \/ WriteFails]_encVars
    PROVE  /\ mode' = mode
           /\ Len(wire) \in Nat /\ Len(wire') \in Nat /\ Len(wire) <= Len(wire')
           /\ \A i \in 1..Len(wire) : wire'[i] = wire[i]
<1>0. wire \in Seq(Items) /\ (epc = "setup" => wire = << >>)
  BY DEF SInv, EInv, WireOK, Stream, PlaceShape
<1>1. /\ mode' = mode
      /\ wire' = wire \/ wire = << >> \/ \E it : wire' = Append(wire, it)
  BY <1>0 DEF EncNext, run_encrypt, Writes, Reads, Fails, Produce, CloseInput,
     WriteHeader, EmitChunk, Finish, ReadCur, CurFilled, ReadNext, NextFilled,
     SetupFails, ReadFails, WriteFails, encVars
<1>2. wire' \in Seq(Items)
  BY SInvStep DEF SInv, EInv, WireOK
<1>3. CASE \E it : wire' = Append(wire, it)
  <2>1. PICK it : wire' = Append(wire, it)
    BY <1>3
  <2>2. QED
    BY <1>0, <1>1, <1>2, <2>1
<1>4. CASE wire = << >>
  BY <1>1, <1>2, <1>4
<1>5. QED
  BY <1>0, <1>1, <1>3, <1>4

\* The runs of a session only grow, and not past the terminal chunk.
Grows(s) ==
    /\ ModeOf(s)' = ModeOf(s) /\ SignerOf(s)' = SignerOf(s)
    /\ \A i \in 1..Len(RunsOf(s)) : /\ i <= Len(RunsOf(s)')
                                    /\ RunsOf(s)'[i] = RunsOf(s)[i]
    /\ Ended(s) => RunsOf(s)' = RunsOf(s) /\ Ended(s)'

\* All that is known of the n chunks that encrypt has sealed.
Sealed(n) ==
    /\ Stream(n)
    /\ wire \in Seq(Items)
    /\ {p \in DOMAIN wire : IsChunk(p)} = 2 .. n + 1
    /\ SealedRuns = [i \in 1..n |-> Data(i)] /\ Len(SealedRuns) = n
    /\ StreamEnded <=> Terminal(n)

SomeSealed == \E n \in Nat : Sealed(n)

LEMMA SealedAlways == SInv => SomeSealed
<1> SUFFICES ASSUME SInv PROVE \E n \in Nat : Sealed(n)
  BY DEF SomeSealed
<1>1. PICK n \in Nat : Stream(n)
  BY DEF SInv
<1>2. wire \in Seq(Items)
  BY DEF SInv, EInv, WireOK
<1>3. QED
  BY <1>1, <1>2, ChunkPlaces, SealedIs DEF Sealed, Stream

LEMMA SealedGrow ==
    ASSUME SInv, SInv', [EncNext \/ WriteFails]_encVars
    PROVE  Grows(Session)
<1>1. PICK n \in Nat : Sealed(n)
  BY SealedAlways DEF SomeSealed
<1>2. PICK m \in Nat : Sealed(m)'
  <2>1. SomeSealed'
    BY SealedAlways, PTL
  <2>2. QED
    BY <2>1 DEF SomeSealed
<1>3. /\ mode' = mode
      /\ Len(wire) \in Nat /\ Len(wire') \in Nat /\ Len(wire) <= Len(wire')
      /\ \A i \in 1..Len(wire) : wire'[i] = wire[i]
  BY WireGrows
<1>4. wire \in Seq(Items) /\ wire' \in Seq(Items)
  BY <1>1, <1>2 DEF Sealed
<1>5. {p \in DOMAIN wire : IsChunk(p)} = 2 .. n + 1
  BY <1>1 DEF Sealed
<1>6. {p \in DOMAIN wire' : IsChunk(p)'} = 2 .. m + 1
  BY <1>2 DEF Sealed
<1>7. /\ SealedRuns = [i \in 1..n |-> Data(i)] /\ Len(SealedRuns) = n
      /\ StreamEnded <=> Terminal(n)
  BY <1>1 DEF Sealed
<1>8. /\ SealedRuns' = [i \in 1..m |-> Data(i)'] /\ Len(SealedRuns') = m
      /\ StreamEnded' <=> Terminal(m)'
  BY <1>2 DEF Sealed
<1>9. \A p \in 2 .. n + 1 : p \in 1..Len(wire) /\ wire'[p] = wire[p]
                            /\ p \in 2 .. m + 1
  <2> SUFFICES ASSUME NEW p \in 2 .. n + 1
               PROVE  p \in 1..Len(wire) /\ wire'[p] = wire[p] /\ p \in 2 .. m + 1
    OBVIOUS
  <2>0. DOMAIN wire = 1..Len(wire)
    BY <1>4
  <2>1. p \in 1..Len(wire) /\ IsChunk(p)
    BY <1>5, <2>0
  <2>2. wire'[p] = wire[p] /\ p \in 1..Len(wire')
    BY <1>3, <2>1
  <2>3. IsChunk(p)'
    BY <2>1, <2>2 DEF IsChunk
  <2>4. p \in DOMAIN wire'
    BY <1>4, <2>2
  <2>5. QED
    BY <1>6, <2>1, <2>2, <2>3, <2>4
<1>10. n <= m
  <2>1. CASE n = 0
    BY <2>1
  <2>2. CASE n # 0
    <3>1. n + 1 \in 2 .. n + 1
      BY <2>2
    <3>2. n + 1 \in 2 .. m + 1
      BY <1>9, <3>1
    <3>3. QED
      BY <3>2
  <2>3. QED
    BY <2>1, <2>2
<1>11. \A i \in 1..n : Data(i)' = Data(i) /\ Tag(i)' = Tag(i)
  <2>1. \A i \in 1..n : i + 1 \in 2 .. n + 1
    OBVIOUS
  <2>2. QED
    BY <1>9, <2>1 DEF Data, Tag
<1>12. \A i \in 1..n : i <= m /\ SealedRuns'[i] = SealedRuns[i]
  BY <1>7, <1>8, <1>10, <1>11
<1>13. StreamEnded => SealedRuns' = SealedRuns /\ StreamEnded'
  <2> SUFFICES ASSUME Terminal(n) PROVE SealedRuns' = SealedRuns /\ StreamEnded'
    BY <1>7
  <2>1. n \in 1..n /\ Tag(n)' = 1
    BY <1>11 DEF Terminal
  <2>2. m > 0
    BY <1>10, <2>1
  <2>3. Body(m)'
    BY <1>2, <2>2 DEF Sealed, Stream, WireShape
  <2>4. m = n
    BY <1>10, <2>1, <2>3 DEF Body
  <2>5. QED
    BY <1>7, <1>8, <1>11, <2>1, <2>2, <2>4 DEF Terminal
<1>14. /\ RunsOf(Session) = SealedRuns /\ RunsOf(Session)' = SealedRuns'
       /\ Ended(Session) <=> StreamEnded /\ (Ended(Session)' <=> StreamEnded')
  BY DEF RunsOf, Ended
<1>15. ModeOf(Session)' = ModeOf(Session) /\ SignerOf(Session)' = SignerOf(Session)
  BY <1>3 DEF ModeOf, SignerOf
<1>16. QED
  BY <1>7, <1>8, <1>12, <1>13, <1>14, <1>15 DEF Grows

LEMMA SessionGrows ==
    ASSUME SInv, SInv', [EncNext \/ WriteFails]_encVars, NEW s \in Sessions
    PROVE  Grows(s)
<1>1. CASE s = Session
  BY <1>1, SealedGrow
<1>2. CASE s # Session
  <2>1. /\ RunsOf(s)' = RunsOf(s) /\ ModeOf(s)' = ModeOf(s)
        /\ SignerOf(s)' = SignerOf(s) /\ Ended(s)'
    BY <1>2 DEF RunsOf, ModeOf, SignerOf, Ended, OtherStream
  <2>2. RunsOf(s) \in Seq(RunSet)
    BY <1>2, OtherRuns
  <2>3. QED
    BY <2>1, <2>2 DEF Grows
<1>3. QED
  BY <1>1, <1>2

\* The runs of a session are a sequence of runs.
LEMMA RunsLen ==
    ASSUME SInv, NEW s \in Sessions
    PROVE  RunsOf(s) \in Seq(RunSet) /\ Len(RunsOf(s)) \in Nat
<1>1. CASE s = Session
  <2>1. PICK n \in Nat : Sealed(n)
    BY SealedAlways DEF SomeSealed
  <2>2. SealedRuns \in Seq(RunSet)
    BY <2>1, SealedIs DEF Sealed, Stream
  <2>3. QED
    BY <1>1, <2>2 DEF RunsOf
<1>2. CASE s # Session
  BY <1>2, OtherRuns
<1>3. QED
  BY <1>1, <1>2

\* No run ends before it starts.
LEMMA RunsForward ==
    ASSUME SInv, NEW s \in Sessions, NEW i \in 1..Len(RunsOf(s))
    PROVE  RunsOf(s)[i].lo <= RunsOf(s)[i].hi
<1>1. CASE s = Session
  <2>1. PICK n \in Nat : Sealed(n)
    BY SealedAlways DEF SomeSealed
  <2>2. RunsOf(s) = [k \in 1..n |-> Data(k)] /\ i \in 1..n
    BY <1>1, <2>1 DEF Sealed, RunsOf
  <2>3. Data(i).lo <= Data(i).hi
    BY <2>1, <2>2 DEF Sealed, Stream, Bytes
  <2>4. QED
    BY <2>2, <2>3
<1>2. CASE s # Session
  <2> DEFINE len == OtherStream(s).n
             n == ChunkCount(len)
  <2>1. RunsOf(s) = Slices(len) /\ Len(RunsOf(s)) = n /\ len \in Nat
    BY <1>2, OtherRuns
  <2>2. RunsOf(s)[i] = Run((i - 1) * CHUNK_SIZE, IF i = n THEN len ELSE i * CHUNK_SIZE)
    BY <2>1 DEF Slices
  <2>3. (i - 1) * CHUNK_SIZE <= i * CHUNK_SIZE
    <3>1. i - 1 \in Nat /\ i \in Nat /\ i - 1 <= i
      BY <1>2, OtherRuns, ChunkCountPositive
    <3>2. QED
      BY <3>1, MoreBlocksEq, WireAssumption
  <2>4. i = n => (i - 1) * CHUNK_SIZE <= len
    BY <2>1, LastSlice
  <2> HIDE DEF n, len
  <2>5. QED
    BY <2>2, <2>3, <2>4 DEF Run
<1>3. QED
  BY <1>1, <1>2

-----------------------------------------------------------------------------
(* The invariant of decrypt is preserved.                                  *)

\* Before anything happens.
LEMMA InitDInv == PipeInit => DInv
<1> SUFFICES ASSUME PipeInit PROVE DInv
  OBVIOUS
<1> USE DEF PipeInit, DecInit, Spooler!Init
<1>1. wire = << >> /\ taken = 0
  BY DEF EncInit
<1>2. DecTypeOK
  BY WireAssumption DEF DecTypeOK, Running
<1>3. Blank /\ Keyed /\ Accepted /\ Complete /\ Vouched
  BY DEF Blank, Keyed, Accepted, Complete, Vouched, Released, Running, Success
<1>4. Spooled /\ CeilingRespected
  BY OptionsAssumption DEF Spooled, CeilingRespected, Spooler!Within
<1>5. taken \in 0..Len(wire)
  BY <1>1
<1>6. QED
  BY <1>2, <1>3, <1>4, <1>5 DEF DInv

\* While encrypt goes on, or someone feeds it.
LEMMA EncryptorDInv ==
    ASSUME PInv, SInv', [EncNext \/ WriteFails]_encVars,
           UNCHANGED <<decVars, medium, taken, failed>>
    PROVE  DInv'
<1> USE DEF decVars
<1>1. DecTypeOK' /\ Blank' /\ Spooled' /\ CeilingRespected'
  BY DEF PInv, DInv, DecTypeOK, Blank, Spooled, CeilingRespected, Released,
     Spooler!Within
<1>2. taken' \in 0..Len(wire')
  BY WireGrows DEF PInv, DInv
<1>3. CASE dmode = 0
  <2>1. plain = << >> /\ ~Released /\ dpc \in {"start", "header", "exit"}
    BY <1>3 DEF PInv, DInv, Blank
  <2>2. Keyed' /\ Accepted' /\ Complete' /\ Vouched'
    BY <1>3, <2>1 DEF Keyed, Accepted, Complete, Vouched, Released
  <2>3. QED
    BY <1>1, <1>2, <2>2 DEF DInv
<1>4. CASE dmode # 0
  <2>1. PICK s \in Sessions : s = key.session
    BY <1>4 DEF PInv, DInv, Keyed
  <2>2. Grows(s) /\ key'.session = s
    BY <2>1, SessionGrows DEF PInv
  <2>3. Keyed'
    BY <1>4, <2>1, <2>2 DEF PInv, DInv, Keyed, Grows
  <2>4. plain' = plain /\ Len(plain) \in Nat
    BY DEF PInv, DInv, DecTypeOK
  <2>5. Accepted'
    <3>1. ASSUME NEW i \in 1..Len(plain')
          PROVE  i <= Len(RunsOf(s)') /\ plain'[i] = RunsOf(s)'[i]
      <4>1. i \in 1..Len(RunsOf(s)) /\ plain[i] = RunsOf(s)[i]
        <5>1. i <= Len(RunsOf(s)) /\ plain[i] = RunsOf(s)[i]
          BY <2>1, <2>4 DEF PInv, DInv, Accepted
        <5>2. Len(RunsOf(s)) \in Nat
          BY <2>1, RunsLen DEF PInv
        <5>3. QED
          BY <2>4, <5>1, <5>2
      <4>2. QED
        BY <2>2, <2>4, <4>1 DEF Grows
    <3>2. QED
      BY <2>1, <2>2, <3>1 DEF PInv, DInv, Accepted
  <2>6. Complete'
    BY <2>1, <2>2 DEF PInv, DInv, Complete, Grows, Released
  <2>7. Vouched'
    BY <2>1, <2>2 DEF PInv, DInv, Vouched, Grows, Released
  <2>8. QED
    BY <1>1, <1>2, <2>3, <2>5, <2>6, <2>7 DEF DInv
<1>5. QED
  BY <1>3, <1>4

\* A step of decrypt leaves every session as it was.
LEMMA SessionSame ==
    ASSUME UNCHANGED encVars, NEW s
    PROVE  /\ RunsOf(s)' = RunsOf(s) /\ (Ended(s)' <=> Ended(s))
           /\ ModeOf(s)' = ModeOf(s) /\ SignerOf(s)' = SignerOf(s)
<1>1. wire' = wire /\ mode' = mode
  BY DEF encVars
<1>2. SealedRuns' = SealedRuns /\ (StreamEnded' <=> StreamEnded)
  BY <1>1 DEF SealedRuns, StreamEnded, IsChunk
<1>3. QED
  BY <1>1, <1>2 DEF RunsOf, Ended, ModeOf, SignerOf, OtherStream

\* What decrypt has accepted stands as long as neither it nor the session changes.
LEMMA AcceptedSame ==
    ASSUME PInv, UNCHANGED encVars, UNCHANGED <<optVars, dmode, key, plain>>
    PROVE  /\ Keyed'
           /\ \A i \in 1..Len(plain') : /\ i <= Len(RunsOf(key.session)')
                                        /\ plain'[i] = RunsOf(key.session)'[i]
           /\ plain = RunsOf(key.session) /\ Ended(key.session) =>
                  (plain = RunsOf(key.session) /\ Ended(key.session))'
           /\ SignerOf(key.session)' = SignerOf(key.session)
<1>1. PICK s : s = key.session
  OBVIOUS
<1>2. key' = key /\ plain' = plain /\ dmode' = dmode
      /\ UNCHANGED <<expected_sender, allow_untrusted_sender>>
  BY DEF optVars
<1>3. /\ RunsOf(s)' = RunsOf(s) /\ (Ended(s)' <=> Ended(s))
      /\ ModeOf(s)' = ModeOf(s) /\ SignerOf(s)' = SignerOf(s)
  BY SessionSame
<1>4. Keyed'
  BY <1>1, <1>2, <1>3 DEF PInv, DInv, Keyed
<1>5. QED
  BY <1>1, <1>2, <1>3, <1>4 DEF PInv, DInv, Accepted

\* A decrypt that gives up has released nothing.
LEMMA LeaveDInv ==
    ASSUME PInv, UNCHANGED encVars, taken' \in 0..Len(wire), NEW code \in {1, 2},
           dpc \in {"start", "header", "chunks", "trailer", "end"}, Leave(code)
    PROVE  DInv'
<1>1. /\ dpc' = "exit" /\ dexit' = code /\ st' = "erased"
      /\ UNCHANGED <<optVars, dmode, key, dcounter, plain, streamed, max_size,
                     offered, emitted>>
  BY DEF Leave, DExit
<1>2. emitted = 0 /\ ~Released' /\ wire' = wire
  BY <1>1 DEF PInv, DInv, Spooled, Released, Success, encVars
<1>3. DecTypeOK' /\ Blank'
  BY <1>1, <1>2 DEF PInv, DInv, DecTypeOK, Blank, WireCorruption, UsageError, optVars
<1>4. Keyed' /\ Accepted'
  BY <1>1, AcceptedSame DEF Accepted
<1>5. Complete' /\ Vouched'
  BY <1>1, <1>2 DEF Complete, Vouched
<1>6. Spooled' /\ CeilingRespected'
  BY <1>1, <1>2 DEF PInv, DInv, Spooled, CeilingRespected, Spooler!Within, DecTypeOK
<1>7. QED
  BY <1>2, <1>3, <1>4, <1>5, <1>6 DEF DInv

\* The key is read.
LEMMA LoadKeyDInv ==
    ASSUME PInv, UNCHANGED encVars, taken' = taken, LoadKey
    PROVE  DInv'
<1>1. /\ dpc = "start" /\ dpc' = "header"
      /\ UNCHANGED <<optVars, dmode, key, dcounter, plain, streamed, dexit, spoolVars>>
  BY DEF LoadKey
<1>2. dmode = 0 /\ plain = << >> /\ ~Released /\ wire' = wire /\ ~Released'
  BY <1>1 DEF PInv, DInv, Blank, Spooled, Released, encVars, spoolVars
<1>3. DecTypeOK' /\ Blank' /\ Spooled' /\ CeilingRespected' /\ taken' \in 0..Len(wire')
  BY <1>1, <1>2 DEF PInv, DInv, DecTypeOK, Blank, Spooled, CeilingRespected,
     Spooler!Within, optVars, spoolVars
<1>4. Keyed' /\ Accepted'
  BY <1>1, AcceptedSame DEF Accepted
<1>5. Complete' /\ Vouched'
  BY <1>1, <1>2 DEF Complete, Vouched
<1>6. QED
  BY <1>3, <1>4, <1>5 DEF DInv

\* The release, from start to end.
LEMMA ReleaseDInv ==
    ASSUME PInv, UNCHANGED encVars, taken' = taken,
           ReleaseSome \/ ReleaseDone \/ ReleaseFails
    PROVE  DInv'
<1>1. /\ dpc = "release" /\ st = "releasing"
      /\ UNCHANGED <<optVars, dmode, key, dcounter, plain, streamed, offered, max_size>>
  BY DEF ReleaseSome, ReleaseDone, ReleaseFails, Spooler!Emit, Spooler!Finish,
     Spooler!Fail, PInv, DInv, Spooled
<1>2. /\ dmode # 0 /\ Spooler!Within(offered) /\ wire' = wire
      /\ plain = RunsOf(key.session) /\ Ended(key.session)
  BY <1>1 DEF PInv, DInv, Blank, Spooled, Complete, encVars
<1>3. \/ dpc' = "release" /\ dexit' = dexit /\ st' = "releasing"
      \/ dpc' = "exit" /\ dexit' \in {Success, IoError} /\ st' \in {"done", "failed"}
  BY <1>1 DEF ReleaseSome, ReleaseDone, ReleaseFails, Spooler!Emit, Spooler!Finish,
     Spooler!Fail, DExit
<1>4. emitted' \in Nat /\ emitted' <= offered /\ offered \in Nat
  BY <1>1 DEF ReleaseSome, ReleaseDone, ReleaseFails, Spooler!Emit, Spooler!Finish,
     Spooler!Fail, PInv, DInv, DecTypeOK, Spooled
<1>5. DecTypeOK' /\ Blank'
  BY <1>1, <1>2, <1>3, <1>4 DEF PInv, DInv, DecTypeOK, Blank, WireCorruption, IoError
<1>6. Keyed' /\ Accepted' /\ Complete'
  BY <1>1, <1>2, <1>3, AcceptedSame DEF Accepted, Complete
<1>7. Vouched'
  BY <1>1, <1>3, AcceptedSame DEF Vouched, PInv, DInv, optVars
<1>8. Spooled' /\ CeilingRespected'
  BY <1>1, <1>2, <1>3, <1>4 DEF PInv, DInv, Spooled, CeilingRespected, Spooler!Within
<1>9. taken' \in 0..Len(wire')
  BY <1>2 DEF PInv, DInv
<1>10. QED
  BY <1>5, <1>6, <1>7, <1>8, <1>9 DEF DInv

\* The end of the stream: into the release, or with all streamed, out.
LEMMA ReadEndDInv ==
    ASSUME PInv, UNCHANGED encVars, taken' \in 0..Len(wire), NEW it, ReadEnd(it)
    PROVE  DInv'
<1>1. dpc = "end"
  BY DEF ReadEnd
<1>2. CASE Leave(WireCorruption)
  BY <1>1, <1>2, LeaveDInv DEF WireCorruption
<1>3. CASE ~Leave(WireCorruption)
  <2>1. /\ dpc' \in {"release", "exit"}
        /\ UNCHANGED <<optVars, dmode, key, dcounter, plain, streamed, offered,
                       max_size, emitted>>
        /\ dpc' = "release" => st' = "releasing" /\ dexit' = dexit
        /\ dpc' = "exit" => st' = "erased" /\ dexit' = Success
    BY <1>3 DEF ReadEnd, Leave, DExit, Spooler!Commit
  <2>2. /\ dmode # 0 /\ Spooler!Within(offered) /\ wire' = wire /\ emitted = 0
        /\ plain = RunsOf(key.session) /\ Ended(key.session)
        /\ dexit = Running
    BY <1>1 DEF PInv, DInv, Blank, Spooled, Complete, encVars
  <2>3. DecTypeOK' /\ Blank'
    BY <2>1, <2>2 DEF PInv, DInv, DecTypeOK, Blank, Running, Success
  <2>4. Keyed' /\ Accepted' /\ Complete'
    BY <2>1, <2>2, AcceptedSame DEF Accepted, Complete
  <2>5. Vouched'
    BY <1>1, <2>1, AcceptedSame DEF Vouched, PInv, DInv, optVars
  <2>6. Spooled' /\ CeilingRespected'
    BY <2>1, <2>2 DEF PInv, DInv, Spooled, CeilingRespected, Spooler!Within, DecTypeOK
  <2>7. taken' \in 0..Len(wire')
    BY <2>2
  <2>8. QED
    BY <2>3, <2>4, <2>5, <2>6, <2>7 DEF DInv
<1>4. QED
  BY <1>2, <1>3

\* The MAC of a header that is accepted names its session and its mode.
LEMMA HeaderKnown ==
    ASSUME NEW h, Plausible(h), HeaderVerdict(h) = Success
    PROVE  /\ h.session \in Sessions /\ h.mode = ModeOf(h.session)
           /\ h.mode \in {Authenticated, Anonymous} /\ ~BypassesSender(h)
           /\ ~(h.mode = Authenticated /\ expected_sender = None
                /\ ~allow_untrusted_sender)
<1>1. /\ h.type = "header" /\ h.mode \in {Authenticated, Anonymous}
      /\ ~BypassesSender(h) /\ HmacMatches(h)
      /\ ~(h.mode = Authenticated /\ expected_sender = None
           /\ ~allow_untrusted_sender)
  BY DEF HeaderVerdict, Success, WireCorruption, UsageError
<1>2. PICK s \in Sessions : h.hmac = HmacOf(s)
  BY <1>1 DEF Plausible, MacIssued
<1>3. /\ h.hmac.session = h.session /\ h.hmac.mode = h.mode
  BY <1>1 DEF HmacMatches, compute_header_hmac
<1>4. HmacOf(s).session = s /\ HmacOf(s).mode = ModeOf(s)
  BY DEF HmacOf, Header, compute_header_hmac
<1>5. QED
  BY <1>1, <1>2, <1>3, <1>4

LEMMA ReadHeaderDInv ==
    ASSUME PInv, UNCHANGED encVars, taken' \in 0..Len(wire),
           NEW h, Plausible(h), ReadHeader(h)
    PROVE  DInv'
<1>1. dpc = "header"
  BY DEF ReadHeader
<1>2. CASE HeaderVerdict(h) # Success
  <2>1. HeaderVerdict(h) \in {1, 2}
    BY <1>2 DEF HeaderVerdict, Success, WireCorruption, UsageError
  <2>2. Leave(HeaderVerdict(h))
    BY <1>2 DEF ReadHeader
  <2>3. PICK code \in {1, 2} : Leave(code)
    BY <2>1, <2>2
  <2>4. QED
    BY <1>1, <2>3, LeaveDInv
<1>3. CASE HeaderVerdict(h) = Success
  <2>1. /\ dmode' = h.mode /\ key' = derive_keys(h.session, Me) /\ dpc' = "chunks"
        /\ UNCHANGED <<optVars, dcounter, plain, streamed, dexit, spoolVars>>
    BY <1>3 DEF ReadHeader
  <2>2. /\ plain = << >> /\ dcounter = 0 /\ ~Released /\ ~Released' /\ wire' = wire
    BY <1>1, <2>1 DEF PInv, DInv, Blank, Released, encVars, spoolVars
  <2>3. /\ h.session \in Sessions /\ h.mode = ModeOf(h.session)
        /\ h.mode \in {Authenticated, Anonymous} /\ ~BypassesSender(h)
        /\ ~(h.mode = Authenticated /\ expected_sender = None
             /\ ~allow_untrusted_sender)
    BY <1>3, HeaderKnown
  <2>4. ModeOf(h.session)' = ModeOf(h.session)
    BY SessionSame
  <2>5. Keyed'
    <3>1. key'.session = h.session
      BY <2>1 DEF derive_keys
    <3>2. ModeOf(key.session)' = dmode'
      BY <2>1, <2>3, <2>4, <3>1
    <3>3. QED
      BY <2>1, <2>3, <3>1, <3>2 DEF Keyed, BypassesSender, optVars
  <2>6. DecTypeOK' /\ Blank'
    BY <2>1, <2>2, <2>3 DEF PInv, DInv, DecTypeOK, Blank, Authenticated, Anonymous,
       spoolVars
  <2>7. Accepted' /\ Complete' /\ Vouched'
    <3>1. Len(plain') = 0 /\ dcounter' * CHUNK_SIZE = 0
      BY <2>1, <2>2, WireAssumption
    <3>2. QED
      BY <2>1, <2>2, <3>1 DEF Accepted, Complete, Vouched, EndOf
  <2>8. Spooled' /\ CeilingRespected' /\ taken' \in 0..Len(wire')
    BY <1>1, <2>1, <2>2 DEF PInv, DInv, Spooled, CeilingRespected, Spooler!Within,
       spoolVars
  <2>9. QED
    BY <2>5, <2>6, <2>7, <2>8 DEF DInv
<1>4. QED
  BY <1>2, <1>3

\* A valid trailer that names the sender is one that the sender signed.
LEMMA TrailerKnown ==
    ASSUME NEW t, Plausible(t), TrailerVerdict(t) = Success, expected_sender = Sender
    PROVE  SignerOf(key.session) = Sender
<1>1. t.type = "trailer" /\ SignatureValid(t) /\ SenderExpected(t)
  BY DEF TrailerVerdict, Success, WireCorruption, UsageError, AuthFailure
<1>2. PICK s \in Sessions : /\ t.sig.hmac = HmacOf(s)
                            /\ t.sig.signer \in {SignerOf(s), Stranger}
  BY <1>1 DEF Plausible, SigIssued
<1>3. t.sig.hmac.session = key.session /\ t.sig.signer = t.sender
  BY <1>1 DEF SignatureValid, AuthSignature, compute_header_hmac
<1>4. HmacOf(s).session = s
  BY DEF HmacOf, Header, compute_header_hmac
<1>5. t.sender = Sender
  BY <1>1, OptionsAssumption DEF SenderExpected
<1>6. QED
  BY <1>2, <1>3, <1>4, <1>5, OptionsAssumption

LEMMA ReadTrailerDInv ==
    ASSUME PInv, UNCHANGED encVars, taken' \in 0..Len(wire),
           NEW t, Plausible(t), ReadTrailer(t)
    PROVE  DInv'
<1>1. dpc = "trailer"
  BY DEF ReadTrailer
<1>2. CASE TrailerVerdict(t) # Success
  <2>1. TrailerVerdict(t) \in {1, 2}
    BY <1>2 DEF TrailerVerdict, Success, WireCorruption, UsageError, AuthFailure
  <2>2. Leave(TrailerVerdict(t))
    BY <1>2 DEF ReadTrailer
  <2>3. PICK code \in {1, 2} : Leave(code)
    BY <2>1, <2>2
  <2>4. QED
    BY <1>1, <2>3, LeaveDInv
<1>3. CASE TrailerVerdict(t) = Success
  <2>1. /\ dpc' = "end"
        /\ UNCHANGED <<optVars, dmode, key, dcounter, plain, streamed, dexit, spoolVars>>
    BY <1>3 DEF ReadTrailer
  <2>2. /\ dmode # 0 /\ wire' = wire
        /\ plain = RunsOf(key.session) /\ Ended(key.session)
    BY <1>1 DEF PInv, DInv, Blank, Complete, encVars
  <2>3. DecTypeOK' /\ Blank'
    BY <2>1, <2>2 DEF PInv, DInv, DecTypeOK, Blank, spoolVars
  <2>4. Keyed' /\ Accepted' /\ Complete'
    BY <2>1, <2>2, AcceptedSame DEF Accepted, Complete
  <2>5. Vouched'
    <3>1. expected_sender = Sender => SignerOf(key.session)' = Sender
      BY <1>3, <2>1, TrailerKnown, AcceptedSame
    <3>2. QED
      BY <2>1, <3>1 DEF Vouched, optVars
  <2>6. Spooled' /\ CeilingRespected' /\ taken' \in 0..Len(wire')
    BY <1>1, <2>1, <2>2 DEF PInv, DInv, Spooled, CeilingRespected, Spooler!Within,
       spoolVars
  <2>7. QED
    BY <2>3, <2>4, <2>5, <2>6 DEF DInv
<1>4. QED
  BY <1>2, <1>3

\* A chunk that opens is the next one of the session, with its own terminal tag.
NextOf(s, c) == LET j == dcounter + 1
                IN  /\ j \in 1..Len(RunsOf(s))
                    /\ c.box.data = RunsOf(s)[j]
                    /\ c.len = RunLen(RunsOf(s)[j])
                    /\ c.term_tag = TagOf(s, j)

LEMMA ChunkKnown ==
    ASSUME PInv, NEW c, Plausible(c), dpc = "chunks", WellFramed(c), ChunkOpens(c),
           NEW s, s = key.session
    PROVE  s \in Sessions /\ NextOf(s, c)
<1>1. key = derive_keys(s, Me) /\ s \in Sessions /\ dcounter \in Nat
  BY WireAssumption DEF PInv, DInv, Keyed, Blank, DecTypeOK
<1>2. c.type = "chunk" /\ c.box.intact
  BY DEF WellFramed, ChunkOpens, SealOpens
<1>2b. PICK r \in Sessions : \E d : IssuedChunk(r, d) /\ c.box = d.box
  BY <1>2 DEF Plausible, BoxIssued
<1>3. PICK d : IssuedChunk(r, d) /\ c.box = d.box
  BY <1>2b
<1>4. PICK i \in 1..Len(RunsOf(r)) :
          d = Chunk(r, ModeOf(r), RecipOf(r), i - 1, TagOf(r, i), RunsOf(r)[i])
  BY <1>3 DEF IssuedChunk
<1>5. /\ d.box.key = derive_keys(r, RecipOf(r))
      /\ d.box.nonce = <<i - 1, TagOf(r, i)>>
      /\ d.box.aad = <<ModeOf(r), RecipOf(r), RunLen(RunsOf(r)[i]), i - 1, TagOf(r, i)>>
      /\ d.box.data = RunsOf(r)[i]
  BY <1>4 DEF Chunk, Seal, build_nonce, build_aad
<1>6. /\ c.box.key = key /\ c.box.nonce = <<dcounter, c.term_tag>>
      /\ c.box.aad = <<dmode, Me, c.len, dcounter, c.term_tag>>
  BY DEF ChunkOpens, SealOpens, build_nonce, build_aad
<1>7. r = s
  BY <1>1, <1>3, <1>5, <1>6 DEF derive_keys
<1>8. i - 1 = dcounter /\ TagOf(r, i) = c.term_tag /\ c.len = RunLen(RunsOf(r)[i])
  BY <1>3, <1>5, <1>6
<1>9. i = dcounter + 1
  BY <1>1, <1>8
<1>10. QED
  BY <1>1, <1>3, <1>5, <1>7, <1>8, <1>9 DEF NextOf

\* After an intermediate chunk decrypt has read that many full chunks, and so it
\* can still count the next.
LEMMA Intermediate ==
    ASSUME PInv, NEW c, dpc = "chunks", WellFramed(c), c.term_tag = 0,
           NEW s \in Sessions, s = key.session, NextOf(s, c)
    PROVE  /\ c.box.data.hi = (dcounter + 1) * CHUNK_SIZE
           /\ dcounter < COUNTER_MAX
<1> DEFINE j == dcounter + 1
<1>0. /\ CHUNK_SIZE \in Nat \ {0} /\ COUNTER_MAX \in Nat /\ dcounter \in Nat
      /\ MAX_INPUT \in Nat /\ j \in Nat
  BY WireAssumption, EncryptAssumption DEF PInv, DInv, DecTypeOK
<1>1. /\ j \in 1..Len(RunsOf(s)) /\ c.box.data = RunsOf(s)[j]
      /\ RunLen(RunsOf(s)[j]) = CHUNK_SIZE /\ TagOf(s, j) = 0
  BY DEF NextOf, WellFramed
<1>2. /\ Len(plain) = dcounter /\ EndOf(plain) = dcounter * CHUNK_SIZE
      /\ \A i \in 1..Len(plain) : plain[i] = RunsOf(s)[i]
  BY DEF PInv, DInv, Accepted
<1>3. dcounter * CHUNK_SIZE \in Nat /\ dcounter * CHUNK_SIZE + CHUNK_SIZE = j * CHUNK_SIZE
  BY <1>0, NextStart
<1>4. RunsOf(s) \in Seq(RunSet) /\ Len(RunsOf(s)) \in Nat /\ RunsOf(s)[j] \in RunSet
  BY <1>1, RunsLen DEF PInv
<1>5. CASE s = Session
  <2>1. PICK n \in Nat : Sealed(n)
    BY SealedAlways DEF PInv, SomeSealed
  <2>2. RunsOf(s) = [i \in 1..n |-> Data(i)] /\ Len(RunsOf(s)) = n
    BY <1>5, <2>1 DEF Sealed, RunsOf
  <2>3. Data(j) = RunsOf(s)[j] /\ j \in 1..n
    BY <1>1, <2>2
  <2>4. Body(n)
    BY <2>1, <2>3 DEF Sealed, Stream, WireShape
  <2>5. Tag(j) = 0
    <3>1. Tag(j) \in {0, 1} /\ (j < n => Tag(j) = 0)
      BY <2>3, <2>4 DEF Body, ChunkAt
    <3>2. Ended(s) <=> Terminal(n)
      BY <1>5, <2>1 DEF Ended, Sealed
    <3>3. QED
      BY <1>0, <1>1, <2>2, <2>3, <3>1, <3>2 DEF TagOf, Terminal
  <2>6. /\ Data(j).lo = (IF j = 1 THEN 0 ELSE Data(j - 1).hi)
        /\ Data(j).hi < src_len
    BY <2>1, <2>3, <2>5 DEF Sealed, Stream, Bytes
  <2>7. src_len <= MAX_INPUT /\ src_len \in Nat
    BY DEF PInv, SInv, Buffers, EInv, EncTypeOK
  <2>8. Data(j).lo = dcounter * CHUNK_SIZE
    <3>1. CASE dcounter = 0
      <4>1. 0 * CHUNK_SIZE = 0
        BY <1>0
      <4>2. QED
        BY <2>6, <3>1, <4>1
    <3>2. CASE dcounter # 0
      <4>1. dcounter \in 1..Len(plain) /\ dcounter \in 1..n /\ j # 1 /\ j - 1 = dcounter
        BY <1>0, <1>2, <2>3, <3>2
      <4>2. EndOf(plain) = plain[dcounter].hi
        BY <1>2, <3>2 DEF EndOf
      <4>3. plain[dcounter] = Data(dcounter)
        BY <1>2, <2>2, <4>1
      <4>4. QED
        BY <1>2, <2>6, <4>1, <4>2, <4>3
    <3>3. QED
      BY <3>1, <3>2
  <2>9. Data(j).hi = j * CHUNK_SIZE
    <3>1. Data(j).hi - Data(j).lo = CHUNK_SIZE /\ Data(j).hi \in Nat /\ Data(j).lo \in Nat
      BY <1>1, <1>4, <2>3 DEF RunLen, RunSet
    <3> HIDE DEF j
    <3>2. QED
      BY <1>0, <1>3, <2>8, <3>1
  <2>10. j * CHUNK_SIZE < (COUNTER_MAX + 1) * CHUNK_SIZE
    <3>1. j * CHUNK_SIZE \in Nat /\ (COUNTER_MAX + 1) * CHUNK_SIZE \in Nat
      BY <1>0
    <3>2. QED
      BY <1>0, <2>6, <2>7, <2>9, <3>1, CounterAssumption
  <2>11. ~(COUNTER_MAX + 1 <= j)
    BY <1>0, <2>10, MoreBlocksEq
  <2>12. QED
    BY <1>0, <1>1, <2>3, <2>9, <2>11
<1>6. CASE s # Session
  <2> DEFINE n == ChunkCount(OtherStream(s).n)
  <2>1. /\ RunsOf(s) = Slices(OtherStream(s).n) /\ Ended(s) /\ Len(RunsOf(s)) = n
    BY <1>6, OtherRuns
  <2>2. OtherStream(s) \in Foreign
    BY <1>6, SessionCases
  <2>3. n <= COUNTER_MAX + 1
    BY <2>2, CounterAssumption
  <2>4. j # n /\ j \in 1..n
    BY <1>1, <2>1 DEF TagOf
  <2>5. RunsOf(s)[j] = Run((j - 1) * CHUNK_SIZE, j * CHUNK_SIZE)
    BY <2>1, <2>4 DEF Slices
  <2>6. n \in Nat
    BY <1>4, <2>1
  <2> HIDE DEF n
  <2>7. QED
    BY <1>0, <1>1, <2>3, <2>4, <2>5, <2>6 DEF Run
<1>7. QED
  BY <1>5, <1>6

\* chunk_counter fits its width, and does not wrap before its last value.
LEMMA CounterFits ==
    ASSUME NEW c \in 0..COUNTER_MAX
    PROVE  /\ NextCounter(c) \in 0..COUNTER_MAX
           /\ c < COUNTER_MAX => NextCounter(c) = c + 1
<1>1. COUNTER_MAX \in Nat
  BY WireAssumption
<1>2. c = COUNTER_MAX => (c + 1) % (COUNTER_MAX + 1) = 0
  BY <1>1
<1>3. c < COUNTER_MAX => (c + 1) % (COUNTER_MAX + 1) = c + 1
  BY <1>1
<1>4. QED
  BY <1>1, <1>2, <1>3 DEF NextCounter

\* A chunk is accepted; decrypt goes on, or leaves with it.
LEMMA OpenedDInv ==
    ASSUME PInv, UNCHANGED encVars, taken' \in 0..Len(wire), dpc = "chunks",
           NEW c, Plausible(c), WellFramed(c), ChunkOpens(c),
           plain' = Append(plain, c.box.data),
           UNCHANGED <<optVars, dmode, key, max_size, emitted>>,
           streamed' \in Nat, dcounter' \in 0..COUNTER_MAX,
           \/ dpc' = "exit" /\ dexit' \in {1, 2} /\ st' = "erased"
           \/ /\ dpc' = AfterChunk(c) /\ dexit' = dexit /\ st' = st
              /\ dcounter' = NextCounter(dcounter)
              /\ offered' = offered \/ Spooler!Within(offered'),
           offered' = offered \/ offered' = offered + c.len
    PROVE  DInv'
<1>1. PICK s : s = key.session
  OBVIOUS
<1>2. s \in Sessions /\ NextOf(s, c)
  BY <1>1, ChunkKnown
<1>3. /\ RunsOf(s)' = RunsOf(s) /\ (Ended(s)' <=> Ended(s))
      /\ ModeOf(s)' = ModeOf(s) /\ SignerOf(s)' = SignerOf(s)
  BY SessionSame
<1>4. key' = key /\ dmode' = dmode /\ wire' = wire
      /\ UNCHANGED <<expected_sender, allow_untrusted_sender>>
  BY DEF optVars, encVars
<1>5. /\ dmode \in {Authenticated, Anonymous} /\ dmode # 0
      /\ emitted = 0 /\ st = "open" /\ dexit = Running
      /\ dcounter \in 0..COUNTER_MAX /\ dcounter \in Nat /\ plain \in Seq(RunSet)
      /\ offered \in Nat /\ Spooler!Within(offered) /\ max_size \in Nat \cup {None}
      /\ Len(plain) = dcounter
  BY WireAssumption DEF PInv, DInv, Blank, DecTypeOK, Spooled, Accepted
<1>6. /\ c.term_tag \in {0, 1}
      /\ dpc' \in {"chunks", "trailer", "end", "exit"}
      /\ dpc' = "chunks" => c.term_tag = 0
      /\ dpc' \in {"trailer", "end"} => c.term_tag = 1
      /\ dpc' = "trailer" => dmode = Authenticated
      /\ dpc' = "end" => dmode # Authenticated
      /\ dpc' # "exit" => dexit' = Running
      /\ dpc' = "chunks" => dcounter' = NextCounter(dcounter)
  BY <1>5 DEF WellFramed, AfterChunk
<1>7. ~Released'
  BY <1>5 DEF Released, Running, Success
<1>8. /\ RunsOf(s) \in Seq(RunSet) /\ Len(RunsOf(s)) \in Nat
      /\ dcounter + 1 \in 1..Len(RunsOf(s)) /\ c.box.data = RunsOf(s)[dcounter + 1]
      /\ c.box.data \in RunSet /\ c.term_tag = TagOf(s, dcounter + 1)
      /\ c.len = RunLen(c.box.data)
  BY <1>2, RunsLen DEF PInv, NextOf
<1>9. /\ plain' \in Seq(RunSet) /\ Len(plain') = dcounter + 1
      /\ \A i \in 1..Len(plain) : plain'[i] = plain[i]
      /\ plain'[dcounter + 1] = c.box.data
  BY <1>5, <1>8
<1>10. \A i \in 1..Len(plain') : i <= Len(RunsOf(s)) /\ plain'[i] = RunsOf(s)[i]
  <2> SUFFICES ASSUME NEW i \in 1 .. dcounter + 1
               PROVE  i <= Len(RunsOf(s)) /\ plain'[i] = RunsOf(s)[i]
    BY <1>9
  <2>1. CASE i = dcounter + 1
    BY <1>8, <1>9, <2>1
  <2>2. CASE i # dcounter + 1
    <3>1. i \in 1..Len(plain)
      BY <1>5, <2>2
    <3>2. plain[i] = RunsOf(s)[i] /\ i <= Len(RunsOf(s))
      BY <1>1, <3>1 DEF PInv, DInv, Accepted
    <3>3. QED
      BY <1>9, <3>1, <3>2
  <2>3. QED
    BY <2>1, <2>2
<1>11. Accepted'
  <2>1. CASE dpc' = "chunks"
    <3>1. c.box.data.hi = (dcounter + 1) * CHUNK_SIZE /\ dcounter < COUNTER_MAX
      BY <1>1, <1>2, <1>6, <2>1, Intermediate
    <3>2. dcounter' = dcounter + 1
      BY <1>5, <1>6, <2>1, <3>1, CounterFits
    <3>3. EndOf(plain') = (dcounter + 1) * CHUNK_SIZE
      BY <1>5, <1>9, <3>1 DEF EndOf
    <3>4. QED
      BY <1>1, <1>3, <1>4, <1>9, <1>10, <3>2, <3>3 DEF Accepted
  <2>2. CASE dpc' # "chunks"
    BY <1>1, <1>3, <1>4, <1>10, <2>2 DEF Accepted
  <2>3. QED
    BY <2>1, <2>2
<1>12. Complete'
  <2> SUFFICES ASSUME c.term_tag = 1
               PROVE  plain' = RunsOf(s)' /\ Ended(s)'
    BY <1>1, <1>4, <1>6, <1>7 DEF Complete
  <2>1. dcounter + 1 = Len(RunsOf(s)) /\ Ended(s)
    BY <1>8 DEF TagOf
  <2>2. plain' = RunsOf(s)
    BY <1>8, <1>9, <1>10, <2>1, SameSequence
  <2>3. QED
    BY <1>3, <2>1, <2>2
<1>13. Keyed'
  BY <1>1, <1>3, <1>4 DEF PInv, DInv, Keyed
<1>14. Vouched'
  BY <1>4, <1>6, <1>7 DEF Vouched
<1>15. Blank'
  BY <1>4, <1>5, <1>6 DEF Blank
<1>16. offered' \in Nat /\ 0 <= offered'
  <2>1. c.len \in Nat
    <3>1. RunsOf(s)[dcounter + 1].lo <= RunsOf(s)[dcounter + 1].hi
      BY <1>2, <1>8, RunsForward DEF PInv
    <3>2. QED
      BY <1>8, <3>1 DEF RunLen, RunSet
  <2>2. QED
    BY <1>5, <2>1
<1>17. DecTypeOK'
  BY <1>4, <1>5, <1>6, <1>9, <1>16
  DEF DecTypeOK, WireCorruption, UsageError
<1>18. Spooled' /\ CeilingRespected'
  BY <1>5, <1>6, <1>16 DEF Spooled, CeilingRespected, Spooler!Within
<1>19. QED
  BY <1>4, <1>11, <1>12, <1>13, <1>14, <1>15, <1>17, <1>18 DEF DInv

LEMMA ReadChunkDInv ==
    ASSUME PInv, UNCHANGED encVars, taken' \in 0..Len(wire),
           NEW c, Plausible(c), ReadChunk(c) \/ ReadChunkFails(c)
    PROVE  DInv'
<1>1. dpc = "chunks"
  BY DEF ReadChunk, ReadChunkFails
<1>2. streamed \in Nat /\ dcounter \in 0..COUNTER_MAX
  BY DEF PInv, DInv, DecTypeOK
<1>3. CASE ReadChunk(c) /\ ~(WellFramed(c) /\ ChunkOpens(c))
  <2>1. Leave(1)
    BY <1>3 DEF ReadChunk, WireCorruption
  <2>2. QED
    BY <1>1, <2>1, LeaveDInv
<1>4. CASE ReadChunk(c) /\ WellFramed(c) /\ ChunkOpens(c)
  <2>1. /\ plain' = Append(plain, c.box.data) /\ dcounter' = NextCounter(dcounter)
        /\ UNCHANGED <<optVars, dmode, key>> /\ (StreamChunk(c) \/ SpoolChunk(c))
    BY <1>4 DEF ReadChunk
  <2>2. dcounter' \in 0..COUNTER_MAX
    BY <1>2, <2>1, CounterFits
  <2>3. UNCHANGED <<max_size, emitted>> /\ streamed' \in Nat
    BY <1>2, <2>1 DEF StreamChunk, SpoolChunk, spoolVars
  <2>4. \/ dpc' = "exit" /\ dexit' \in {1, 2} /\ st' = "erased"
        \/ /\ dpc' = AfterChunk(c) /\ dexit' = dexit /\ st' = st
           /\ dcounter' = NextCounter(dcounter)
           /\ offered' = offered \/ Spooler!Within(offered')
    BY <2>1 DEF StreamChunk, SpoolChunk, DExit, UsageError, spoolVars
  <2>5. offered' = offered \/ offered' = offered + c.len
    BY <2>1 DEF StreamChunk, SpoolChunk, spoolVars
  <2>6. QED
    BY <1>1, <1>4, <2>1, <2>2, <2>3, <2>4, <2>5, OpenedDInv
<1>5. CASE ReadChunkFails(c)
  <2>1. /\ WellFramed(c) /\ ChunkOpens(c) /\ plain' = Append(plain, c.box.data)
        /\ UNCHANGED <<optVars, dmode, key, max_size, emitted>>
        /\ streamed' \in Nat /\ dcounter' \in 0..COUNTER_MAX
        /\ dpc' = "exit" /\ dexit' \in {1, 2} /\ st' = "erased"
        /\ offered' = offered \/ offered' = offered + c.len
    BY <1>2, <1>5 DEF ReadChunkFails, DExit, UsageError, IoError
  <2>2. QED
    BY <1>1, <2>1, OpenedDInv
<1>6. QED
  BY <1>3, <1>4, <1>5

-----------------------------------------------------------------------------
(* The theorems.                                                           *)

\* Taking an item never takes more than is on the wire.
LEMMA TakenWithin ==
    ASSUME PInv, NEW it \in Deliverable
    PROVE  TakenWith(it) \in 0..Len(wire)
<1>1. taken \in 0..Len(wire) /\ wire \in Seq(Items) /\ Len(wire) \in Nat
  BY DEF PInv, DInv, SInv, EInv, WireOK
<1>2. CASE medium = "faulty" \/ it = Eof
  BY <1>1, <1>2 DEF TakenWith
<1>3. CASE medium # "faulty" /\ it # Eof
  <2>1. taken < Len(wire)
    BY <1>3 DEF Deliverable, NextItem
  <2>2. QED
    BY <1>1, <1>3, <2>1 DEF TakenWith
<1>4. QED
  BY <1>2, <1>3

\* Every step preserves the invariant.
LEMMA PInvStep == PInv /\ [PipeNext]_pipeVars => PInv'
<1> SUFFICES ASSUME PInv, [PipeNext]_pipeVars PROVE PInv'
  OBVIOUS
<1>1. [EncNext \/ WriteFails]_encVars
  BY DEF PipeNext, Feed, FeedWith, Encryptor, Decryptor, ReceiveItem, Failures,
     DecryptorFails, EncNext, run_encrypt, pipeVars
<1>2. SInv'
  BY <1>1, SInvStep DEF PInv
<1>3. SInv /\ taken \in 0..Len(wire)
  BY DEF PInv, DInv
<1>4. CASE UNCHANGED <<decVars, medium, taken, failed>>
  BY <1>1, <1>2, <1>4, EncryptorDInv DEF PInv
<1>5. CASE Local /\ UNCHANGED <<encVars, medium, taken, failed>>
  BY <1>2, <1>5, LoadKeyDInv, ReleaseDInv DEF PInv, Local
<1>6. CASE LocalFails /\ UNCHANGED <<encVars, medium, taken>>
  <2>1. CASE ReleaseFails
    BY <1>2, <1>6, <2>1, ReleaseDInv DEF PInv
  <2>2. CASE LoadKeyFails \/ ReadEndFails
    <3>1. PICK code \in {1, 2} : Leave(code)
      BY <2>2 DEF LoadKeyFails, ReadEndFails, IoError, UsageError
    <3>2. dpc \in {"start", "end"}
      BY <2>2 DEF LoadKeyFails, ReadEndFails
    <3>3. QED
      BY <1>2, <1>3, <1>6, <3>1, <3>2, LeaveDInv DEF PInv
  <2>3. QED
    BY <1>6, <2>1, <2>2 DEF LocalFails
<1>7. CASE /\ \E it \in Deliverable : /\ Receive(it) \/ ReadChunkFails(it)
                                      /\ taken' = TakenWith(it)
           /\ UNCHANGED encVars
  <2>1. PICK it \in Deliverable : /\ Receive(it) \/ ReadChunkFails(it)
                                  /\ taken' = TakenWith(it)
    BY <1>7
  <2>2. Plausible(it) /\ taken' \in 0..Len(wire)
    BY <1>3, <2>1, DeliverablePlausible, TakenWithin
  <2>3. QED
    BY <1>2, <1>7, <2>1, <2>2, ReadHeaderDInv, ReadChunkDInv, ReadTrailerDInv,
       ReadEndDInv DEF PInv, Receive
<1>8. CASE UNCHANGED pipeVars
  BY <1>4, <1>8 DEF pipeVars
<1>9. QED
  BY <1>4, <1>5, <1>6, <1>7, <1>8
  DEF PipeNext, Feed, FeedWith, Encryptor, Decryptor, ReceiveItem, Failures,
      DecryptorFails

LEMMA PipeInvariant == PipeSpec => []PInv
<1>1. PipeInit => PInv
  BY InitSInv, InitDInv DEF PInv, PipeInit
<1>2. QED
  BY <1>1, PInvStep, PTL DEF PipeSpec

\* Both processes keep their types, decrypt's counter within its eight bytes,
\* whatever the medium delivers.
THEOREM PipeTypeCorrect == PipeSpec => []PipeTypeOK
<1>1. PInv => PipeTypeOK
  BY DEF PInv, SInv, EInv, DInv, PipeTypeOK
<1>2. QED
  BY <1>1, PipeInvariant, PTL

\* The chunks that decrypt accepts are the first chunks of one session, in order,
\* whatever the medium delivers: no gap, no repetition, no splice of two streams.
THEOREM PrefixCorrect == PipeSpec => []AcceptedIsPrefix
<1>1. PInv => AcceptedIsPrefix
  <2> SUFFICES ASSUME PInv, plain # << >>
               PROVE  IsPrefix(plain, RunsOf(key.session))
    BY DEF AcceptedIsPrefix
  <2>1. PICK s : s = key.session
    OBVIOUS
  <2>2. s \in Sessions /\ plain \in Seq(RunSet)
    BY <2>1 DEF PInv, DInv, Blank, Keyed, DecTypeOK
  <2>3. RunsOf(s) \in Seq(RunSet) /\ Len(RunsOf(s)) \in Nat
    BY <2>2, RunsLen DEF PInv
  <2>4. \A i \in 1..Len(plain) : i <= Len(RunsOf(s)) /\ plain[i] = RunsOf(s)[i]
    BY <2>1 DEF PInv, DInv, Accepted
  <2>5. Len(plain) \in 1..Len(plain) /\ Len(plain) <= Len(RunsOf(s))
    <3>1. Len(plain) \in Nat /\ Len(plain) # 0
      BY <2>2
    <3>2. QED
      BY <2>4, <3>1
  <2>6. SubSeq(plain, 1, Len(plain)) = SubSeq(RunsOf(s), 1, Len(plain))
    BY <2>2, <2>3, <2>4, <2>5
  <2>7. QED
    BY <2>1, <2>5, <2>6 DEF IsPrefix
<1>2. QED
  BY <1>1, PipeInvariant, PTL

\* Not one byte leaves the spooler, and decrypt does not succeed, unless the stream
\* was received to its very end, with every chunk its owner sealed.
THEOREM ReleaseCorrect == PipeSpec => []ReleaseOnlyComplete
<1>1. PInv => ReleaseOnlyComplete
  BY DEF PInv, DInv, Complete, ReleaseOnlyComplete
<1>2. QED
  BY <1>1, PipeInvariant, PTL

\* With --sender naming an honest sender plaintext is released only from a stream
\* that it signed; without it, and without --allow-untrusted-sender, only from an
\* anonymous one.
THEOREM SenderCorrect == PipeSpec => []SenderAuthenticated
<1>1. PInv => SenderAuthenticated
  <2> SUFFICES ASSUME PInv, Released
               PROVE  /\ expected_sender = Sender => SignerOf(key.session) = Sender
                      /\ expected_sender = None /\ ~allow_untrusted_sender =>
                             SignerOf(key.session) = None
    BY DEF SenderAuthenticated
  <2>1. dmode # 0 /\ dmode \in {Authenticated, Anonymous}
    BY DEF PInv, DInv, Blank, DecTypeOK
  <2>2. PICK s \in Sessions : s = key.session
    BY <2>1 DEF PInv, DInv, Keyed
  <2>3. expected_sender = Sender => SignerOf(key.session) = Sender
    BY <2>1, OptionsAssumption DEF PInv, DInv, Keyed, Vouched
  <2>4. CASE expected_sender = None /\ ~allow_untrusted_sender
    <3>1. ModeOf(s) = Anonymous
      BY <2>1, <2>2, <2>4 DEF PInv, DInv, Keyed
    <3>2. CASE s = Session
      BY <2>2, <2>3, <3>1, <3>2 DEF ModeOf, SignerOf, Authenticated, Anonymous
    <3>3. CASE s # Session
      <4>1. OtherStream(s) \in Foreign
        BY <3>3, SessionCases
      <4>2. SignerOf(s) = OtherStream(s).sender
        BY <3>3, OtherRuns
      <4>3. QED
        BY <2>2, <2>3, <3>1, <3>3, <4>1, <4>2, ForeignAssumption DEF ModeOf
    <3>4. QED
      BY <2>2, <2>3, <3>2, <3>3
  <2>5. QED
    BY <2>3, <2>4
<1>2. QED
  BY <1>1, PipeInvariant, PTL

\* What is released never exceeds --max-size.
THEOREM CeilingCorrect == PipeSpec => []CeilingRespected
<1>1. PInv => CeilingRespected
  BY DEF PInv, DInv
<1>2. QED
  BY <1>1, PipeInvariant, PTL

-----------------------------------------------------------------------------
(* The round trip over a pipe or a file.  The invariant keeps the reader   *)
(* in step with the writer, and finds an excuse whenever decrypt gives up: *)
(* encrypt has failed, or the options do not allow the stream.             *)

\* Which item decrypt takes next, and that it has not met the terminal chunk early.
InStep ==
    /\ dpc \in {"start", "header"} => taken = 0
    /\ dmode # 0 => key.session = Session
    /\ dpc = "chunks" => taken = dcounter + 1 /\ (dcounter > 0 => Tag(dcounter) = 0)
    /\ dpc = "trailer" => taken = Len(plain) + 1
    /\ dpc = "end" => taken = Len(plain) + (IF mode = Authenticated THEN 2 ELSE 1)

\* Why decrypt may fail though nothing local has failed it.
Excused == (epc = "exit" /\ eexit # Success) \/ ~OptionsFit

Excuse == dpc = "exit" /\ dexit # Success /\ ~failed => Excused

\* The spooler was offered the accepted bytes, and emits all of them.
AllOffered ==
    ~allow_unverified_stream /\ (dpc # "exit" \/ dexit = Success) =>
        /\ offered = EndOf(plain)
        /\ dexit = Success => emitted = offered

RInv == PInv /\ (medium # "faulty" => InStep /\ Excuse /\ AllOffered)

\* The two ends agree on the recipient's key, encrypt was given a mode that exists,
\* and stdin, once at its end, stays there.
Setting == /\ STICKY_EOF
           /\ Me = Recipient
           /\ Modes \subseteq {Authenticated, Anonymous}

-----------------------------------------------------------------------------
(* The wire.                                                               *)

\* What is at each place.
LEMMA WirePlaces ==
    ASSUME NEW n \in Nat, Sealed(n), NEW p \in 1..Len(wire)
    PROVE  \/ wire[p] = Cut
           \/ p = 1 /\ wire[p] = TheHeader
           \/ p \in 2 .. n + 1 /\ Body(n) /\ ChunkAt(p - 1)
           \/ p = n + 2 /\ wire[p] = TheTrailer /\ mode = Authenticated /\ Terminal(n)
<1> DEFINE l == Len(wire)
<1>1. WireShape(n) /\ l \in Nat /\ p \in Int /\ 1 <= p /\ p <= l
  BY DEF Sealed, Stream
<1>2. wire # << >>
  OBVIOUS
<1>3. CASE n = 0 /\ l = 1 /\ wire[1] = Cut
  BY <1>1, <1>3
<1>4. CASE Body(n) /\ (l = n + 1 \/ l = n + 2)
  <2>1. wire[1] = TheHeader /\ \A i \in 1..n : ChunkAt(i)
    BY <1>4 DEF Body
  <2>2. l = n + 2 => \/ wire[n + 2] = Cut
                     \/ wire[n + 2] = TheTrailer /\ mode = Authenticated /\ Terminal(n)
    BY <1>1, <1>2 DEF WireShape
  <2> HIDE DEF l
  <2>3. p = 1 \/ p \in 2 .. n + 1 \/ (p = n + 2 /\ l = n + 2)
    BY <1>1, <1>4
  <2>4. p \in 2 .. n + 1 => p - 1 \in 1..n
    OBVIOUS
  <2>5. QED
    BY <1>4, <2>1, <2>2, <2>3, <2>4
<1>5. QED
  BY <1>1, <1>2, <1>3, <1>4 DEF WireShape

\* A cut item is what a failed encrypt leaves.
LEMMA CutExcused ==
    ASSUME SInv, NEW p \in 1..Len(wire), wire[p] = Cut
    PROVE  epc = "exit" /\ eexit # Success
<1>1. PICK n \in Nat : Sealed(n)
  BY SealedAlways DEF SomeSealed
<1>2. PlaceShape(n)
  BY <1>1 DEF Sealed, Stream
<1>3. TheHeader # Cut /\ TheTrailer # Cut
  BY DEF TheHeader, TheTrailer, Header, Trailer, Cut
<1>4. \A i \in 1..n : Body(n) => wire[i + 1] # Cut
  <2> SUFFICES ASSUME NEW i \in 1..n, Body(n) PROVE wire[i + 1] # Cut
    OBVIOUS
  <2>1. wire[i + 1] = Chunk(Session, mode, Recipient, i - 1, Tag(i), Data(i))
    BY DEF Body, ChunkAt
  <2>2. wire[i + 1].type = "chunk"
    BY <2>1, ChunkFields
  <2>3. QED
    BY <2>2, OtherItems
<1>5. Body(n) => Len(wire) # n + 1
  <2> SUFFICES ASSUME Body(n), Len(wire) = n + 1 PROVE FALSE
    OBVIOUS
  <2>1. p # 1
    BY <1>3 DEF Body
  <2>2. p - 1 \in 1..n /\ (p - 1) + 1 = p
    BY <2>1
  <2>3. QED
    BY <1>4, <2>2
<1>6. epc \in {"setup", "fill_cur", "fill_next", "emit", "finish", "exit"}
  BY DEF SInv, EInv, EncTypeOK
<1>7. epc = "exit"
  <2>1. wire # << >>
    OBVIOUS
  <2>2. QED
    BY <1>2, <1>5, <1>6, <2>1 DEF PlaceShape
<1>8. eexit # Success
  <2> SUFFICES ASSUME eexit = Success PROVE FALSE
    OBVIOUS
  <2>1. Body(n) /\ mode = Authenticated /\ Len(wire) = n + 2 /\ wire[n + 2] = TheTrailer
    BY <1>2, <1>5 DEF PlaceShape
  <2>2. p # 1 /\ p # n + 2
    BY <1>3, <2>1 DEF Body
  <2>3. p - 1 \in 1..n /\ (p - 1) + 1 = p
    BY <2>1, <2>2
  <2>4. QED
    BY <1>4, <2>1, <2>3
<1>9. QED
  BY <1>7, <1>8

\* What decrypt reads from a pipe or a file.
LEMMA NextItemIs ==
    ASSUME PInv, NEW it \in NextItem
    PROVE  \/ it = Eof /\ epc = "exit" /\ taken = Len(wire)
           \/ taken + 1 \in 1..Len(wire) /\ it = wire[taken + 1] /\ it # Eof
              /\ taken \in Nat
<1>1. taken \in 0..Len(wire) /\ wire \in Seq(Items) /\ Len(wire) \in Nat
  BY DEF PInv, DInv, SInv, EInv, WireOK
<1>2. CASE taken < Len(wire)
  <2>1. taken + 1 \in 1..Len(wire) /\ it = wire[taken + 1]
    BY <1>1, <1>2 DEF NextItem
  <2>2. it \in Items
    BY <1>1, <2>1
  <2>3. it # Eof
    BY <2>2 DEF Items, Header, Chunk, Trailer, Cut, Eof
  <2>4. QED
    BY <1>1, <2>1, <2>3
<1>3. CASE ~(taken < Len(wire))
  BY <1>1, <1>3 DEF NextItem
<1>4. QED
  BY <1>2, <1>3

\* The stream of an encrypt that succeeded.
LEMMA SuccessLen ==
    ASSUME NEW n \in Nat, Sealed(n), eexit = Success
    PROVE  /\ Terminal(n) /\ Body(n)
           /\ Len(wire) = IF mode = Authenticated THEN n + 2 ELSE n + 1
           /\ mode = Authenticated => wire[n + 2] = TheTrailer
  BY DEF Sealed, Stream, PlaceShape

-----------------------------------------------------------------------------
(* The invariant is preserved.                                             *)

InTouch == InStep /\ Excuse /\ AllOffered

\* Encrypt goes on, or someone feeds it: what is on the wire stays, and so does an
\* excuse.
LEMMA EncryptorInTouch ==
    ASSUME PInv, PInv', InTouch, [EncNext \/ WriteFails]_encVars,
           UNCHANGED <<decVars, medium, taken, failed>>
    PROVE  InTouch'
<1>1. /\ mode' = mode
      /\ Len(wire) \in Nat /\ \A i \in 1..Len(wire) : wire'[i] = wire[i]
  BY WireGrows DEF PInv
<1>2. /\ UNCHANGED <<expected_sender, allow_untrusted_sender, allow_unverified_stream>>
      /\ UNCHANGED <<dmode, key, dcounter, plain, dpc, dexit>>
      /\ UNCHANGED <<max_size, offered, emitted, taken, failed>>
  BY DEF decVars
<1>3. dpc = "chunks" /\ dcounter > 0 => Tag(dcounter)' = Tag(dcounter)
  <2> SUFFICES ASSUME dpc = "chunks", dcounter > 0
               PROVE  Tag(dcounter)' = Tag(dcounter)
    OBVIOUS
  <2>1. taken = dcounter + 1 /\ taken \in 0..Len(wire) /\ dcounter \in Nat
    BY WireAssumption DEF InTouch, InStep, PInv, DInv, DecTypeOK
  <2>2. dcounter + 1 \in 1..Len(wire)
    BY <1>1, <2>1
  <2>3. QED
    BY <1>1, <1>2, <2>2 DEF Tag
<1>4. InStep'
  BY <1>1, <1>2, <1>3 DEF InTouch, InStep
<1>5. epc = "exit" => epc' = "exit" /\ eexit' = eexit
  BY DEF EncNext, run_encrypt, Writes, Reads, Fails, Produce, CloseInput,
     WriteHeader, EmitChunk, Finish, ReadCur, CurFilled, ReadNext, NextFilled,
     SetupFails, KeyIntake, ReadFails, WriteFails, encVars
<1>6. src_len \in Nat /\ src_len' \in {src_len, src_len + 1}
  BY DEF EncNext, run_encrypt, Writes, Reads, Fails, Produce, CloseInput,
     WriteHeader, EmitChunk, Finish, ReadCur, CurFilled, ReadNext, NextFilled,
     SetupFails, ReadFails, WriteFails, encVars, PInv, SInv, EInv, EncTypeOK
<1>7. Excused => Excused'
  <2>1. max_size \in Nat \cup {None} /\ (max_size # None => max_size \in Nat)
    BY DEF PInv, DInv, Spooled
  <2>2. max_size # None /\ ~(src_len <= max_size) => ~(src_len' <= max_size)
    BY <1>6, <2>1
  <2>3. QED
    BY <1>1, <1>2, <1>5, <2>2 DEF Excused, OptionsFit
<1>8. Excuse' /\ AllOffered'
  BY <1>2, <1>7 DEF InTouch, Excuse, AllOffered
<1>9. QED
  BY <1>4, <1>8 DEF InTouch

\* A step of decrypt leaves encrypt's part of it as it was.
LEMMA ExcusedSame ==
    ASSUME UNCHANGED encVars, UNCHANGED optVars, max_size' = max_size
    PROVE  (Excused' <=> Excused) /\ \A i : Tag(i)' = Tag(i)
  BY DEF Excused, OptionsFit, encVars, optVars, Tag

\* Decrypt gives up, with an excuse or for a local reason.
LEMMA LeaveInTouch ==
    ASSUME InTouch, UNCHANGED encVars, NEW code \in {1, 2}, Leave(code),
           Excused \/ failed'
    PROVE  InTouch'
<1>1. /\ dpc' = "exit" /\ dexit' = code /\ UNCHANGED <<optVars, dmode, key, max_size>>
  BY DEF Leave, DExit
<1>2. Excused' \/ failed'
  BY <1>1, ExcusedSame
<1>3. QED
  BY <1>1, <1>2 DEF InTouch, InStep, Excuse, AllOffered, Success

\* The key is read, bytes are released.
LEMMA LocalInTouch ==
    ASSUME PInv, InTouch, UNCHANGED <<encVars, taken, failed>>, Local
    PROVE  InTouch'
<1>1. CASE LoadKey
  BY <1>1 DEF LoadKey, InTouch, InStep, Excuse, AllOffered, spoolVars, optVars
<1>2. CASE ReleaseSome
  <2>1. dpc = "release" /\ dexit = Running
    BY <1>2 DEF ReleaseSome, PInv, DInv, Spooled
  <2>2. QED
    BY <1>2, <2>1 DEF ReleaseSome, Spooler!Emit, InTouch, InStep, Excuse, AllOffered,
       optVars, Running, Success
<1>3. CASE ReleaseDone
  BY <1>3 DEF ReleaseDone, Spooler!Finish, DExit, InTouch, InStep, Excuse, AllOffered,
     optVars, Success
<1>4. QED
  BY <1>1, <1>2, <1>3 DEF Local

\* Something local fails decrypt.
LEMMA FailsInTouch ==
    ASSUME InTouch, UNCHANGED encVars, failed',
           LocalFails \/ \E it \in Deliverable : ReadChunkFails(it)
    PROVE  InTouch'
<1>1. dpc' = "exit" /\ dexit' \in {1, 2} /\ UNCHANGED <<dmode, key>>
  BY DEF LocalFails, LoadKeyFails, ReadEndFails, ReleaseFails, ReadChunkFails, Leave,
     DExit, IoError, UsageError
<1>2. QED
  BY <1>1 DEF InTouch, InStep, Excuse, AllOffered, Success

\* The header.  It is accepted if the options fit.
LEMMA HeaderInTouch ==
    ASSUME Setting, PInv, InTouch, UNCHANGED <<encVars, medium, failed>>,
           NEW it \in NextItem, ReadHeader(it), medium # "faulty",
           taken' = TakenWith(it)
    PROVE  InTouch'
<1>1. PICK n \in Nat : Sealed(n)
  BY SealedAlways DEF PInv, SomeSealed
<1>2. /\ dpc = "header" /\ taken = 0 /\ dcounter = 0
  BY DEF ReadHeader, InTouch, InStep, PInv, DInv, Blank
<1>3. HeaderVerdict(it) # Success => Excused
  <2> SUFFICES ASSUME ~Excused PROVE HeaderVerdict(it) = Success
    OBVIOUS
  <2>1. it # Eof
    <3> SUFFICES ASSUME it = Eof PROVE FALSE
      OBVIOUS
    <3>1. epc = "exit" /\ Len(wire) = 0
      BY <1>2, NextItemIs
    <3>2. eexit = Success
      BY <3>1 DEF Excused
    <3>3. QED
      BY <1>1, <3>1, <3>2, SuccessLen
  <2>2. 1 \in 1..Len(wire) /\ it = wire[1]
    BY <1>2, <2>1, NextItemIs
  <2>3. it # Cut
    BY <2>2, CutExcused DEF PInv, Excused
  <2>4. it = TheHeader
    BY <1>1, <2>2, <2>3, WirePlaces
  <2>5. /\ it.type = "header" /\ it.known /\ it.mode = mode /\ it.recip = Recipient
        /\ HmacMatches(it)
    BY <2>4 DEF TheHeader, Header, HmacMatches, Setting
  <2>6. mode \in {Authenticated, Anonymous} /\ OptionsFit
    BY DEF PInv, SInv, EInv, EncTypeOK, Setting, Excused
  <2>7. /\ ~BypassesSender(it)
        /\ ~(mode = Authenticated /\ expected_sender = None /\ ~allow_untrusted_sender)
    BY <2>5, <2>6 DEF OptionsFit, BypassesSender, Authenticated, Anonymous
  <2>8. QED
    BY <2>5, <2>6, <2>7 DEF HeaderVerdict, Setting
<1>4. CASE HeaderVerdict(it) # Success
  <2>1. HeaderVerdict(it) \in {1, 2} /\ Leave(HeaderVerdict(it))
    BY <1>4 DEF ReadHeader, HeaderVerdict, WireCorruption, UsageError, Success
  <2>2. PICK code \in {1, 2} : Leave(code)
    BY <2>1
  <2>3. QED
    BY <1>3, <1>4, <2>2, LeaveInTouch
<1>5. CASE HeaderVerdict(it) = Success
  <2>1. /\ dmode' = it.mode /\ key' = derive_keys(it.session, Me) /\ dpc' = "chunks"
        /\ UNCHANGED <<optVars, dcounter, plain, streamed, dexit, spoolVars>>
    BY <1>5 DEF ReadHeader
  <2>2. it.type = "header"
    BY <1>5 DEF HeaderVerdict, WireCorruption, Success
  <2>3. it # Eof /\ it # Cut
    BY <2>2 DEF Eof, Cut
  <2>4. 1 \in 1..Len(wire) /\ it = wire[1]
    BY <1>2, <2>3, NextItemIs
  <2>5. it.session = Session
    BY <1>1, <2>3, <2>4, WirePlaces DEF TheHeader, Header
  <2>6. taken' = 1
    BY <1>2, <2>3 DEF TakenWith
  <2>7. InStep'
    BY <1>2, <2>1, <2>5, <2>6 DEF InStep, derive_keys
  <2>8. Excuse' /\ AllOffered'
    BY <1>2, <2>1 DEF InTouch, Excuse, AllOffered, optVars, spoolVars
  <2>9. QED
    BY <2>7, <2>8 DEF InTouch
<1>6. QED
  BY <1>4, <1>5

\* A chunk on the wire opens in its turn.
LEMMA ChunkFits ==
    ASSUME Setting, PInv, NEW n \in Nat, Sealed(n), Body(n), dpc = "chunks",
           key.session = Session, NEW j \in 1..n, j = dcounter + 1
    PROVE  /\ WellFramed(wire[j + 1]) /\ ChunkOpens(wire[j + 1])
           /\ wire[j + 1].len = RunLen(Data(j))
<1>1. /\ wire[j + 1] = Chunk(Session, mode, Recipient, j - 1, Tag(j), Data(j))
      /\ Tag(j) \in {0, 1} /\ Data(j) \in RunSet
  BY DEF Body, ChunkAt
<1>2. RunLen(Data(j)) <= CHUNK_SIZE /\ (Tag(j) = 0 => RunLen(Data(j)) = CHUNK_SIZE)
  BY DEF Sealed, Stream, Bytes, Setting
<1>3. /\ wire[j + 1].type = "chunk" /\ wire[j + 1].len = RunLen(Data(j))
      /\ wire[j + 1].term_tag = Tag(j)
  BY <1>1, ChunkFields
<1>4. WellFramed(wire[j + 1])
  BY <1>1, <1>2, <1>3 DEF WellFramed
<1>5. dmode = mode /\ key = derive_keys(Session, Recipient) /\ dcounter = j - 1
  BY WireAssumption DEF PInv, DInv, Keyed, Blank, DecTypeOK, ModeOf, Setting
<1>6. wire[j + 1].box = Seal(derive_keys(Session, Recipient), build_nonce(j - 1, Tag(j)),
                             build_aad(mode, Recipient, RunLen(Data(j)), j - 1, Tag(j)),
                             Data(j))
  BY <1>1 DEF Chunk
<1>7. ChunkOpens(wire[j + 1])
  BY <1>3, <1>5, <1>6 DEF ChunkOpens, SealOpens, Seal, Setting
<1>8. QED
  BY <1>3, <1>4, <1>7

\* Decrypt is never past the terminal chunk in its loop, so the next item is a chunk
\* or encrypt has failed.
LEMMA ChunkInTurn ==
    ASSUME Setting, PInv, InTouch, NEW n \in Nat, Sealed(n), dpc = "chunks",
           NEW it \in NextItem, ~(epc = "exit" /\ eexit # Success)
    PROVE  /\ dcounter + 1 \in 1..n /\ Body(n) /\ it = wire[dcounter + 2] /\ it # Eof
<1>1. /\ taken = dcounter + 1 /\ dcounter \in Nat /\ key.session = Session
      /\ dcounter > 0 => Tag(dcounter) = 0
      /\ Len(plain) = dcounter /\ Len(wire) \in Nat
  BY WireAssumption DEF InTouch, InStep, PInv, DInv, Blank, Accepted, DecTypeOK, Sealed
<1>2. dcounter <= n
  <2>1. CASE dcounter = 0
    BY <2>1
  <2>2. CASE dcounter # 0
    <3>1. dcounter \in 1..Len(plain)
      BY <1>1, <2>2
    <3>2. dcounter <= Len(RunsOf(Session))
      BY <1>1, <3>1 DEF PInv, DInv, Accepted
    <3>3. QED
      BY <3>2 DEF RunsOf, Sealed
  <2>3. QED
    BY <2>1, <2>2
<1>3. ~(dcounter = n /\ Terminal(n))
  BY <1>1 DEF Terminal
<1>4. it # Eof
  <2> SUFFICES ASSUME it = Eof PROVE FALSE
    OBVIOUS
  <2>1. it = Eof /\ epc = "exit" /\ dcounter + 1 = Len(wire)
    BY <1>1, NextItemIs
  <2>2. eexit = Success
    BY <2>1
  <2>3. Terminal(n) /\ (Len(wire) = n + 1 \/ Len(wire) = n + 2)
    BY <2>2, SuccessLen
  <2>4. QED
    BY <1>1, <1>2, <1>3, <2>1, <2>3
<1>5. (dcounter + 1) + 1 \in 1..Len(wire) /\ it = wire[(dcounter + 1) + 1]
  BY <1>1, <1>4, NextItemIs
<1>6. (dcounter + 1) + 1 = dcounter + 2
  BY <1>1
<1>7. it # Cut
  BY <1>5, CutExcused DEF PInv
<1>8. \/ dcounter + 2 \in 2 .. n + 1 /\ Body(n)
      \/ dcounter + 2 = n + 2 /\ Terminal(n)
  BY <1>1, <1>5, <1>6, <1>7, WirePlaces
<1>9. QED
  BY <1>1, <1>3, <1>4, <1>5, <1>6, <1>8

\* Where the accepted bytes end once the j-th chunk is accepted.
LEMMA NextEnd ==
    ASSUME PInv, PInv', NEW n \in Nat, Sealed(n), key.session = Session,
           dpc = "chunks", NEW j \in 1..n, j = dcounter + 1,
           plain' = Append(plain, Data(j))
    PROVE  /\ EndOf(plain') = EndOf(plain) + RunLen(Data(j))
           /\ EndOf(plain') <= src_len /\ Len(plain') = j
<1>1. Len(plain) = dcounter /\ dcounter \in Nat /\ plain \in Seq(RunSet)
      /\ plain' \in Seq(RunSet)
  BY WireAssumption DEF PInv, DInv, Accepted, DecTypeOK
<1>2. Len(plain') = j /\ plain'[j] = Data(j)
  BY <1>1
<1>3. EndOf(plain') = Data(j).hi /\ Data(j) \in RunSet
  BY <1>1, <1>2 DEF EndOf
<1>4. /\ Data(j).lo = (IF j = 1 THEN 0 ELSE Data(j - 1).hi)
      /\ Data(j).hi <= src_len
  BY DEF Sealed, Stream, Bytes
<1>5. EndOf(plain) = Data(j).lo
  <2>1. CASE dcounter = 0
    BY <1>1, <1>4, <2>1 DEF EndOf
  <2>2. CASE dcounter # 0
    <3>1. dcounter \in 1..Len(plain) /\ j # 1 /\ j - 1 = dcounter /\ dcounter \in 1..n
      BY <1>1, <2>2
    <3>2. plain[dcounter] = RunsOf(Session)[dcounter]
      BY <3>1 DEF PInv, DInv, Accepted
    <3>3. RunsOf(Session)[dcounter] = Data(dcounter)
      BY <3>1 DEF RunsOf, Sealed
    <3>4. EndOf(plain) = plain[dcounter].hi
      BY <1>1, <3>1 DEF EndOf
    <3>5. QED
      BY <1>4, <3>1, <3>2, <3>3, <3>4
  <2>3. QED
    BY <2>1, <2>2
<1>6. QED
  BY <1>2, <1>3, <1>4, <1>5 DEF RunLen, RunSet

\* A chunk.
LEMMA ChunkInTouch ==
    ASSUME Setting, PInv, PInv', InTouch, UNCHANGED <<encVars, medium, failed>>,
           NEW it \in NextItem, ReadChunk(it), medium # "faulty",
           taken' = TakenWith(it)
    PROVE  InTouch'
<1>1. PICK n \in Nat : Sealed(n)
  BY SealedAlways DEF PInv, SomeSealed
<1>2. /\ dpc = "chunks" /\ taken = dcounter + 1 /\ key.session = Session
      /\ dcounter \in Nat /\ dmode = mode /\ dexit = Running
  BY WireAssumption
  DEF ReadChunk, InTouch, InStep, PInv, DInv, Blank, Keyed, DecTypeOK, ModeOf, Spooled
<1>3. CASE epc = "exit" /\ eexit # Success /\ ~(WellFramed(it) /\ ChunkOpens(it))
  <2>1. Leave(1) /\ Excused
    BY <1>3 DEF ReadChunk, WireCorruption, Excused
  <2>2. QED
    BY <2>1, LeaveInTouch
<1>4. CASE (WellFramed(it) /\ ChunkOpens(it)) \/ ~(epc = "exit" /\ eexit # Success)
  <2>0. dcounter + 1 \in 1..n /\ Body(n) /\ it = wire[dcounter + 2] /\ it # Eof
    <3>1. CASE ~(epc = "exit" /\ eexit # Success)
      BY <1>1, <1>2, <3>1, ChunkInTurn
    <3>2. CASE WellFramed(it)
      <4>1. it.type = "chunk"
        BY <3>2 DEF WellFramed
      <4>2. it # Eof /\ it # Cut /\ it # TheHeader /\ it # TheTrailer
        BY <4>1, OtherItems DEF Eof, TheHeader, TheTrailer
      <4>3. dcounter + 2 \in 1..Len(wire) /\ it = wire[dcounter + 2]
        BY <1>2, <4>2, NextItemIs
      <4>4. dcounter + 2 \in 2 .. n + 1 /\ Body(n)
        BY <1>1, <4>2, <4>3, WirePlaces
      <4>5. QED
        BY <1>2, <4>2, <4>3, <4>4
    <3>3. QED
      BY <1>4, <3>1, <3>2
  <2>1. PICK j \in 1..n : j = dcounter + 1 /\ it = wire[j + 1]
    BY <1>2, <2>0
  <2>2. /\ WellFramed(it) /\ ChunkOpens(it) /\ it.len = RunLen(Data(j))
    BY <1>1, <1>2, <2>0, <2>1, ChunkFits
  <2>3. it.box.data = Data(j) /\ it.term_tag = Tag(j) /\ Tag(j) \in {0, 1}
    BY <2>0, <2>1 DEF Data, Tag, Body, ChunkAt
  <2>4. /\ plain' = Append(plain, Data(j)) /\ UNCHANGED <<optVars, dmode, key>>
        /\ StreamChunk(it) \/ SpoolChunk(it)
    BY <2>2, <2>3 DEF ReadChunk
  <2>5. taken' = j + 1
    BY <1>2, <2>0, <2>1 DEF TakenWith
  <2>6. /\ EndOf(plain') = EndOf(plain) + RunLen(Data(j))
        /\ EndOf(plain') <= src_len /\ Len(plain') = j
    BY <1>1, <1>2, <2>1, <2>4, NextEnd
  <2>7. Tag(j)' = Tag(j) /\ mode' = mode /\ src_len' = src_len
    BY DEF Tag, encVars
  <2>8. dpc' = "chunks" => dcounter' = j
    BY <2>6 DEF PInv, DInv, Accepted
  <2>9. dpc' = "exit" \/ dpc' = AfterChunk(it)
    BY <2>4 DEF StreamChunk, SpoolChunk, DExit
  <2>10. InStep'
    <3>1. dpc' = "chunks" => Tag(dcounter)' = 0
      <4>1. dpc' = "chunks" => Tag(j) = 0
        BY <2>3, <2>9 DEF AfterChunk
      <4>2. QED
        BY <2>7, <2>8, <4>1 DEF Tag
    <3>2. /\ dpc' \in {"chunks", "trailer", "end", "exit"}
          /\ dpc' = "end" => mode # Authenticated
      BY <1>2, <2>9 DEF AfterChunk
    <3>3. key'.session = Session
      BY <1>2, <2>4
    <3>4. QED
      BY <2>5, <2>6, <2>7, <2>8, <3>1, <3>2, <3>3 DEF InStep
  <2>11. allow_unverified_stream' = allow_unverified_stream
    BY <2>4 DEF optVars
  <2>12. CASE StreamChunk(it)
    <3>1. dpc' # "exit" /\ allow_unverified_stream
      BY <2>12 DEF StreamChunk, AfterChunk
    <3>2. QED
      BY <2>10, <2>11, <3>1 DEF InTouch, Excuse, AllOffered
  <2>13. CASE SpoolChunk(it)
    <3>1. /\ offered' = offered + RunLen(Data(j)) /\ ~allow_unverified_stream
          /\ max_size' = max_size
      BY <2>2, <2>13 DEF SpoolChunk
    <3>2. offered' = EndOf(plain')
      BY <1>2, <2>6, <3>1 DEF InTouch, AllOffered
    <3>3. CASE Spooler!Within(offered')
      <4>1. dpc' = AfterChunk(it) /\ dexit' = dexit
        BY <2>2, <2>13, <3>1, <3>3 DEF SpoolChunk
      <4>2. dpc' # "exit" /\ dexit' # Success
        BY <1>2, <4>1 DEF AfterChunk, Running, Success
      <4>3. QED
        BY <2>10, <3>2, <4>2 DEF InTouch, Excuse, AllOffered
    <3>4. CASE ~Spooler!Within(offered')
      <4>1. dpc' = "exit" /\ dexit' = UsageError
        BY <2>2, <2>13, <3>1, <3>4 DEF SpoolChunk, DExit
      <4>2. max_size # None /\ max_size \in Nat /\ ~(offered' <= max_size)
        BY <3>4 DEF Spooler!Within, PInv, DInv, Spooled
      <4>3. src_len \in Nat /\ offered' \in Nat
        BY DEF PInv, SInv, EInv, EncTypeOK, DInv, DecTypeOK
      <4>4. ~(src_len <= max_size)
        BY <2>6, <3>2, <4>2, <4>3
      <4>5. Excused'
        BY <2>4, <3>1, <4>2, <4>4, ExcusedSame DEF Excused, OptionsFit
      <4>6. QED
        BY <2>10, <4>1, <4>5 DEF InTouch, Excuse, AllOffered, Success, UsageError
    <3>5. QED
      BY <3>3, <3>4
  <2>14. QED
    BY <2>4, <2>12, <2>13
<1>5. QED
  BY <1>3, <1>4

\* The trailer.  The sender's own is valid, and accepted if the options fit.
LEMMA TrailerInTouch ==
    ASSUME Setting, PInv, InTouch, UNCHANGED <<encVars, medium, failed>>,
           NEW it \in NextItem, ReadTrailer(it), medium # "faulty",
           taken' = TakenWith(it)
    PROVE  InTouch'
<1>1. PICK n \in Nat : Sealed(n)
  BY SealedAlways DEF PInv, SomeSealed
<1>2. /\ dpc = "trailer" /\ taken = Len(plain) + 1 /\ dmode = Authenticated
      /\ dmode # 0 /\ key.session = Session
  BY DEF ReadTrailer, InTouch, InStep, PInv, DInv, Vouched, Authenticated
<1>3. mode = Authenticated /\ key = derive_keys(Session, Recipient)
  BY <1>2 DEF PInv, DInv, Keyed, ModeOf, Setting
<1>4. plain = SealedRuns /\ Len(plain) = n
  BY <1>1, <1>2 DEF PInv, DInv, Complete, RunsOf, Sealed
<1>5. taken = n + 1
  BY <1>2, <1>4
<1>6. TrailerVerdict(it) # Success => Excused
  <2> SUFFICES ASSUME ~Excused PROVE TrailerVerdict(it) = Success
    OBVIOUS
  <2>1. it # Eof
    <3> SUFFICES ASSUME it = Eof PROVE FALSE
      OBVIOUS
    <3>1. epc = "exit" /\ Len(wire) = n + 1
      BY <1>5, NextItemIs
    <3>2. eexit = Success
      BY <3>1 DEF Excused
    <3>3. QED
      BY <1>1, <1>3, <3>1, <3>2, SuccessLen
  <2>2. n + 2 \in 1..Len(wire) /\ it = wire[n + 2]
    BY <1>5, <2>1, NextItemIs
  <2>3. it # Cut
    BY <2>2, CutExcused DEF PInv, Excused
  <2>4. it = TheTrailer
    BY <1>1, <2>2, <2>3, WirePlaces
  <2>5. hashed = plain
    BY <1>1, <1>3, <1>4 DEF Sealed, Stream, HashedAll
  <2>6. it.type = "trailer" /\ it.sender = Sender
    BY <2>4 DEF TheTrailer, Trailer
  <2>7. SignatureValid(it)
    BY <1>2, <1>3, <2>4, <2>5, <2>6
    DEF SignatureValid, TheTrailer, Trailer, TheHeader, Header, Setting
  <2>8. expected_sender \in {Sender, None}
    BY <1>3 DEF Excused, OptionsFit
  <2>9. expected_sender # Garbled /\ SenderExpected(it)
    BY <2>6, <2>8, OptionsAssumption DEF SenderExpected
  <2>10. QED
    BY <2>6, <2>7, <2>9 DEF TrailerVerdict
<1>7. CASE TrailerVerdict(it) # Success
  <2>1. TrailerVerdict(it) \in {1, 2} /\ Leave(TrailerVerdict(it))
    BY <1>7 DEF ReadTrailer, TrailerVerdict, WireCorruption, AuthFailure, UsageError,
       Success
  <2>2. PICK code \in {1, 2} : Leave(code)
    BY <2>1
  <2>3. QED
    BY <1>6, <1>7, <2>2, LeaveInTouch
<1>8. CASE TrailerVerdict(it) = Success
  <2>1. /\ dpc' = "end"
        /\ UNCHANGED <<optVars, dmode, key, dcounter, plain, streamed, dexit, spoolVars>>
    BY <1>8 DEF ReadTrailer
  <2>2. it # Eof
    BY <1>8 DEF TrailerVerdict, WireCorruption, Success, Eof
  <2>3. taken' = Len(plain') + 2 /\ mode' = Authenticated
    BY <1>3, <1>4, <1>5, <2>1, <2>2 DEF TakenWith, encVars
  <2>4. InStep'
    BY <1>2, <2>1, <2>3 DEF InStep
  <2>5. Excuse' /\ AllOffered'
    BY <1>2, <2>1 DEF InTouch, Excuse, AllOffered, optVars, spoolVars
  <2>6. QED
    BY <2>4, <2>5 DEF InTouch
<1>9. QED
  BY <1>7, <1>8

\* The end.  Nothing follows that encrypt wrote before it failed.
LEMMA EndInTouch ==
    ASSUME Setting, PInv, InTouch, UNCHANGED <<encVars, medium, failed>>,
           NEW it \in NextItem, ReadEnd(it), medium # "faulty",
           taken' = TakenWith(it)
    PROVE  InTouch'
<1>1. PICK n \in Nat : Sealed(n)
  BY SealedAlways DEF PInv, SomeSealed
<1>2. /\ dpc = "end" /\ taken = Len(plain) + (IF mode = Authenticated THEN 2 ELSE 1)
      /\ dmode # 0 /\ key.session = Session /\ dexit = Running
  BY DEF ReadEnd, InTouch, InStep, PInv, DInv, Blank, Spooled
<1>3. Len(plain) = n
  BY <1>1, <1>2 DEF PInv, DInv, Complete, RunsOf, Sealed
<1>4. it # Eof => Excused
  <2> SUFFICES ASSUME it # Eof PROVE Excused
    OBVIOUS
  <2>1. taken + 1 \in 1..Len(wire) /\ it = wire[taken + 1]
    BY NextItemIs
  <2>2. taken + 1 = n + 3 \/ (taken + 1 = n + 2 /\ mode # Authenticated)
    BY <1>2, <1>3
  <2>3. taken + 1 # 1 /\ taken + 1 \notin 2 .. n + 1
    BY <2>2
  <2>4. it = Cut
    BY <1>1, <2>1, <2>2, <2>3, WirePlaces
  <2>5. QED
    BY <2>1, <2>4, CutExcused DEF PInv, Excused
<1>5. CASE Leave(WireCorruption) /\ it # Eof
  BY <1>4, <1>5, LeaveInTouch DEF WireCorruption
<1>6. CASE it = Eof
  <2>1. NothingFollows(it)
    BY <1>6 DEF NothingFollows, Eof
  <2>2. /\ UNCHANGED <<optVars, dmode, key, plain, offered, emitted, max_size>>
        /\ \/ dpc' = "release" /\ dexit' = dexit
           \/ dpc' = "exit" /\ dexit' = Success /\ allow_unverified_stream
    BY <2>1 DEF ReadEnd, Leave, DExit, Spooler!Commit
  <2>3. InStep'
    BY <1>2, <2>2 DEF InStep
  <2>4. Excuse' /\ AllOffered'
    BY <1>2, <2>2 DEF InTouch, Excuse, AllOffered, optVars, Running, Success
  <2>5. QED
    BY <2>3, <2>4 DEF InTouch
<1>7. it # Eof => ~NothingFollows(it)
  <2> SUFFICES ASSUME it # Eof PROVE it.type # "eof"
    BY DEF NothingFollows
  <2>1. taken + 1 \in 1..Len(wire) /\ it = wire[taken + 1]
    BY NextItemIs
  <2>2. it \in Items
    BY <1>1, <2>1 DEF Sealed
  <2>3. QED
    BY <2>2 DEF Items, Header, Chunk, Trailer, Cut
<1>8. it # Eof => Leave(WireCorruption)
  BY <1>7 DEF ReadEnd
<1>9. QED
  BY <1>5, <1>6, <1>8

-----------------------------------------------------------------------------
(* The theorem.                                                            *)

LEMMA RInvStep ==
    ASSUME Setting
    PROVE  RInv /\ [PipeNext]_pipeVars => RInv'
<1> SUFFICES ASSUME RInv, [PipeNext]_pipeVars, medium # "faulty" PROVE InTouch'
  <2>1. RInv /\ [PipeNext]_pipeVars => PInv' /\ medium' = medium
    BY PInvStep DEF RInv, PipeNext, Feed, FeedWith, Encryptor, Decryptor, ReceiveItem,
       Failures, DecryptorFails, pipeVars
  <2>2. QED
    BY <2>1 DEF RInv, InTouch
<1>1. PInv /\ PInv' /\ InTouch
  BY PInvStep DEF RInv, InTouch
<1>2. CASE UNCHANGED <<decVars, medium, taken, failed>>
  <2>1. [EncNext \/ WriteFails]_encVars
    BY DEF PipeNext, Feed, FeedWith, Encryptor, Decryptor, ReceiveItem, Failures,
       DecryptorFails, EncNext, run_encrypt, pipeVars
  <2>2. QED
    BY <1>1, <1>2, <2>1, EncryptorInTouch
<1>3. CASE Local /\ UNCHANGED <<encVars, medium, taken, failed>>
  BY <1>1, <1>3, LocalInTouch
<1>4. CASE ReceiveItem
  <2>1. PICK it \in Deliverable : Receive(it) /\ taken' = TakenWith(it)
    BY <1>4 DEF ReceiveItem
  <2>2. it \in NextItem /\ UNCHANGED <<encVars, medium, failed>>
    BY <1>4, <2>1 DEF Deliverable, ReceiveItem
  <2>3. QED
    BY <1>1, <2>1, <2>2, HeaderInTouch, ChunkInTouch, TrailerInTouch, EndInTouch
    DEF Receive
<1>5. CASE DecryptorFails
  BY <1>1, <1>5, FailsInTouch DEF DecryptorFails
<1>6. CASE UNCHANGED pipeVars
  BY <1>2, <1>6 DEF pipeVars
<1>7. QED
  BY <1>2, <1>3, <1>4, <1>5, <1>6
  DEF PipeNext, Feed, FeedWith, Encryptor, Decryptor, Failures

\* Over a pipe or a file, what a successful encrypt read decrypt turns out again, all
\* of it and nothing else, if its options allow the stream and nothing local fails it.
THEOREM RoundTripCorrect ==
    ASSUME Setting
    PROVE  PipeSpec => []RoundTrip
<1>1. PipeInit => RInv
  <2> SUFFICES ASSUME PipeInit PROVE InTouch
    BY InitSInv, InitDInv DEF RInv, PInv, InTouch, PipeInit
  <2>1. QED
    BY DEF PipeInit, DecInit, Spooler!Init, InTouch, InStep, Excuse, AllOffered, EndOf,
       Running, Success
<1>2. RInv => RoundTrip
  <2> SUFFICES ASSUME RInv, medium # "faulty", eexit = Success, dpc = "exit",
                      OptionsFit, ~failed
               PROVE  /\ dexit = Success /\ EndOf(plain) = src_len /\ Contiguous(plain)
                      /\ ~allow_unverified_stream => emitted = src_len
    BY DEF RoundTrip
  <2>1. dexit = Success
    BY DEF RInv, Excuse, Excused
  <2>2. PICK n \in Nat : Sealed(n)
    BY SealedAlways DEF RInv, PInv, SomeSealed
  <2>3. dmode # 0 /\ key.session = Session /\ Released
    BY <2>1 DEF RInv, PInv, DInv, Blank, InStep, Released
  <2>4. plain = [i \in 1..n |-> Data(i)] /\ Len(plain) = n
    BY <2>2, <2>3 DEF RInv, PInv, DInv, Complete, RunsOf, Sealed
  <2>5. n > 0 /\ Body(n)
    BY <2>2, SuccessLen DEF Terminal
  <2>6. ChunkCount(src_len) = n /\ Data(n) = Slices(src_len)[n]
    <3>1. n \in 1..n
      BY <2>5
    <3>2. QED
      BY <2>2, <3>1, SuccessChunks DEF RInv, PInv, Sealed, Setting
  <2>7. Data(n).hi = src_len
    BY <2>5, <2>6 DEF Slices, Run
  <2>8. EndOf(plain) = src_len
    BY <2>4, <2>5, <2>7 DEF EndOf
  <2>9. Contiguous(plain)
    <3>1. \A i \in 1..n : /\ Data(i).lo = (IF i = 1 THEN 0 ELSE Data(i - 1).hi)
                          /\ Data(i).lo <= Data(i).hi
      BY <2>2 DEF Sealed, Stream, Bytes
    <3>2. QED
      BY <2>4, <3>1 DEF Contiguous
  <2>10. ~allow_unverified_stream => emitted = src_len
    BY <2>1, <2>8 DEF RInv, AllOffered
  <2>11. QED
    BY <2>1, <2>8, <2>9, <2>10
<1>3. QED
  BY <1>1, <1>2, RInvStep, PTL DEF PipeSpec

-----------------------------------------------------------------------------
(* decrypt uses its spooler as SpoolAbs allows.                            *)

\* The spooler as its last call left it; run_decrypt drops it when it returns.
LastSt == IF st = "erased" THEN (IF Spooler!Within(offered) THEN "open" ELSE "failed")
          ELSE st

Used == INSTANCE SpoolAbs WITH ChunkSizes <- 0..CHUNK_SIZE, st <- LastSt

LEMMA OpenedLen ==
    ASSUME PInv, dpc = "chunks", NEW c, Plausible(c), WellFramed(c), ChunkOpens(c)
    PROVE  c.len \in 0..CHUNK_SIZE
<1>1. PICK s : s = key.session
  OBVIOUS
<1>2. s \in Sessions /\ NextOf(s, c)
  BY <1>1, ChunkKnown
<1>3. c.len = RunLen(RunsOf(s)[dcounter + 1]) /\ RunsOf(s)[dcounter + 1] \in RunSet
  BY <1>2, RunsLen DEF PInv, NextOf
<1>4. c.len \in Nat
  <2>1. RunsOf(s)[dcounter + 1].lo <= RunsOf(s)[dcounter + 1].hi
    BY <1>2, RunsForward DEF PInv, NextOf
  <2>2. QED
    BY <1>3, <2>1 DEF RunSet, RunLen
<1>5. c.len <= CHUNK_SIZE
  BY DEF WellFramed
<1>6. QED
  BY <1>4, <1>5, WireAssumption

\* A return drops the spooler unreleased, or it has been released.
LEMMA LeaveUses ==
    ASSUME PInv, dpc \in {"start", "header", "chunks", "trailer", "end"}, NEW code, Leave(code)
    PROVE  UNCHANGED Used!absVars
<1>1. st = "open" /\ Spooler!Within(offered)
  BY DEF PInv, DInv, Spooled
<1>2. st' = "erased" /\ UNCHANGED <<max_size, offered, emitted>>
  BY DEF Leave
<1>3. LastSt = "open" /\ LastSt' = "open"
  BY <1>1, <1>2 DEF LastSt, Spooler!Within
<1>4. QED
  BY <1>2, <1>3 DEF Used!absVars

\* A chunk is offered, and taken or refused; one that was streamed is not.
LEMMA ChunkUses ==
    ASSUME PInv, NEW c, Plausible(c), ReadChunk(c) \/ ReadChunkFails(c)
    PROVE  [Used!Next]_(Used!absVars)
<1>1. dpc = "chunks" /\ st = "open" /\ Spooler!Within(offered)
  BY DEF ReadChunk, ReadChunkFails, PInv, DInv, Spooled
<1>2. LastSt = "open"
  BY <1>1 DEF LastSt
<1>3. CASE ReadChunk(c) /\ ~(WellFramed(c) /\ ChunkOpens(c))
  BY <1>1, <1>3, LeaveUses DEF ReadChunk
<1>4. CASE /\ WellFramed(c) /\ ChunkOpens(c)
           /\ offered' = offered + c.len /\ UNCHANGED <<max_size, emitted>>
           /\ \/ st' = "erased"
              \/ Spooler!Within(offered') /\ st' = st
  <2>1. c.len \in 0..CHUNK_SIZE
    BY <1>1, <1>4, OpenedLen
  <2>2. LastSt' = IF Used!Within(offered + c.len) THEN "open" ELSE "failed"
    BY <1>1, <1>4 DEF LastSt, Spooler!Within, Used!Within
  <2>3. Used!Offer(c.len)
    BY <1>2, <1>4, <2>2 DEF Used!Offer
  <2>4. QED
    BY <2>1, <2>3 DEF Used!Next
<1>5. CASE UNCHANGED <<max_size, offered, emitted>> /\ st' \in {st, "erased"}
  <2>1. LastSt' = "open"
    BY <1>1, <1>5 DEF LastSt, Spooler!Within
  <2>2. QED
    BY <1>2, <1>5, <2>1 DEF Used!absVars
<1>6. QED
  BY <1>3, <1>4, <1>5 DEF ReadChunk, StreamChunk, SpoolChunk, ReadChunkFails, spoolVars,
     Spooler!Within

LEMMA ReleaseUses ==
    ASSUME Spooler!Emit \/ Spooler!Finish \/ Spooler!Fail \/ Spooler!Commit
    PROVE  Used!Next
<1>1. st \in {"open", "releasing"} /\ st' \in {"releasing", "done", "failed"}
  BY DEF Spooler!Emit, Spooler!Finish, Spooler!Fail, Spooler!Commit
<1>2. LastSt = st /\ LastSt' = st'
  BY <1>1 DEF LastSt
<1>3. QED
  BY <1>2 DEF Spooler!Emit, Spooler!Finish, Spooler!Fail, Spooler!Commit, Used!Next,
     Used!Emit, Used!Finish, Used!Fail, Used!Commit

LEMMA StepUses == PInv /\ [PipeNext]_pipeVars => [Used!Next]_(Used!absVars)
<1> SUFFICES ASSUME PInv, [PipeNext]_pipeVars PROVE [Used!Next]_(Used!absVars)
  OBVIOUS
<1>1. CASE UNCHANGED spoolVars
  BY <1>1 DEF spoolVars, LastSt, Spooler!Within, Used!absVars
<1>2. CASE ReleaseSome \/ ReleaseDone \/ ReleaseFails
  BY <1>2, ReleaseUses DEF ReleaseSome, ReleaseDone, ReleaseFails
<1>3. CASE LoadKeyFails \/ ReadEndFails
  BY <1>3, LeaveUses DEF LoadKeyFails, ReadEndFails
<1>4. ASSUME NEW it \in Deliverable, Receive(it) \/ ReadChunkFails(it)
      PROVE  [Used!Next]_(Used!absVars)
  <2>1. Plausible(it)
    BY DeliverablePlausible DEF PInv, DInv
  <2>2. CASE ReadHeader(it)
    BY <1>1, <2>2, LeaveUses DEF ReadHeader
  <2>3. CASE ReadChunk(it) \/ ReadChunkFails(it)
    BY <2>1, <2>3, ChunkUses
  <2>4. CASE ReadTrailer(it)
    BY <1>1, <2>4, LeaveUses DEF ReadTrailer
  <2>5. CASE ReadEnd(it)
    BY <2>5, LeaveUses, ReleaseUses DEF ReadEnd
  <2>6. QED
    BY <1>4, <2>2, <2>3, <2>4, <2>5 DEF Receive
<1>5. CASE LoadKey \/ UNCHANGED decVars
  BY <1>1, <1>5 DEF LoadKey, decVars, spoolVars
<1>6. QED
  BY <1>2, <1>3, <1>4, <1>5
  DEF PipeNext, Feed, FeedWith, Encryptor, Decryptor, ReceiveItem, Failures,
      DecryptorFails, Local, LocalFails, pipeVars

\* Every call that run_decrypt makes on its spooler is one that SpoolAbs allows, with
\* any medium and through any failure: it offers no more than a chunk at a time, none
\* after it has committed, and commits once, on a spooler that has refused nothing.
THEOREM DecryptUsesSpooler == PipeSpec => Used!Spec
<1>1. PipeInit => Used!Init
  BY DEF PipeInit, DecInit, Spooler!Init, Used!Init, LastSt
<1>2. QED
  BY <1>1, StepUses, PipeInvariant, PTL DEF PipeSpec, Used!Spec
=============================================================================
