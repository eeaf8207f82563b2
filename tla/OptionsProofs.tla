--------------------------- MODULE OptionsProofs ----------------------------
(***************************************************************************)
(* Proof that the loops over the arguments read a line of any length as it *)
(* was written, item by item, wherever no loop takes a value of the other  *)
(* loop for an option of its own; and that one which does fills no field   *)
(* but its own.                                                            *)
(*                                                                         *)
(* The invariant is about one loop at a time.  An undisturbed loop stands  *)
(* at the beginning of an item, or within one that it has no arm for, and  *)
(* the sound options are what the items mean that it and the loops before  *)
(* it have read.  A disturbed one may stand anywhere; the sound options,   *)
(* none of which it fills, are still what the loops before it have read.   *)
(***************************************************************************)
EXTENDS Options, TLAPS

\* The items its lie in av one after the other, the k-th from pos[k] on.
Lays(pos, its, av) ==
    /\ pos \in [1 .. Len(its) + 1 -> Nat]
    /\ pos[1] \in {1, 2}
    /\ pos[Len(its) + 1] = Len(av) + 1
    /\ \A k \in 1 .. Len(its) :
           /\ pos[k + 1] = pos[k] + 1 + Len(its[k].values)
           /\ av[pos[k]] = its[k].opt
           /\ \A m \in 1 .. Len(its[k].values) : av[pos[k] + m] = its[k].values[m]
    /\ \A k, l \in 1 .. Len(its) + 1 : k < l => pos[k] < pos[l]

\* After the name of the command, which the git shim may be called without.
Layout(pos) == /\ Lays(pos, items, argv)
               /\ \/ pos[1] = 1 /\ cmd = "git-shim"
                  \/ pos[1] = 2 /\ argv # << >> /\ argv[1] = cmd

Tokens == STRING \cup Commands

Line == /\ cmd \in DOMAIN Items
        /\ exe = "pipe-k1" \/ cmd = "git-shim"
        /\ items \in Seq(Items[cmd]) /\ argv \in Seq(Tokens)
        /\ \E pos : Layout(pos)
        /\ \A k \in 1 .. Len(items) : k < Len(items) => ~items[k].dangling

\* The loops that are left when d of them have ended.
LoopsAfter(d) == LET all == LoopsOf(cmd)
                 IN  \/ d = 0 /\ loops = all
                     \/ d = 1 /\ Len(all) = 2 /\ loops = <<all[2]>>

\* The loop has read k items.
AtItem(pos, k) ==
    /\ k \in 0 .. Len(items)
    /\ \/ i = pos[k + 1]
       \/ /\ k < Len(items) /\ pos[k + 1] < i /\ i < pos[k + 2]
          /\ ~Knows(Head(loops), items[k + 1].opt)

\* The items that d loops, and the next up to the k-th, had an arm for.
ReadBy(d, k) ==
    {j \in 1 .. Len(items) :
        \/ d = 1 /\ Knows(LoopsOf(cmd)[1], items[j].opt)
        \/ j <= k /\ Knows(LoopsOf(cmd)[d + 1], items[j].opt)}

\* The last of the items P that is about the field.
About(f, P) == {k \in P : f \in DOMAIN items[k].means}
LastOf(f, A) ==
    IF A = {} THEN Defaults[f]
    ELSE items[CHOOSE k \in A : \A l \in A : l <= k].means[f]
LastAbout(f, P) == LastOf(f, About(f, P))

ReadSoFar(d, k) ==
    \A f \in Fields : Sound(f) => opts[f] = LastAbout(f, ReadBy(d, k))

Reading ==
    \E d, pos :
        /\ LoopsAfter(d) /\ Layout(pos)
        /\ \/ Disturbed(Head(loops)) /\ ReadSoFar(d, 0)
           \/ /\ ~Disturbed(Head(loops))
              /\ \E k : AtItem(pos, k) /\ ReadSoFar(d, k)

OInv == /\ Line
        /\ i \in Nat
        /\ i = 0 => opts = Defaults /\ loops = << >> /\ oexit = Running
        /\ Parsing => Reading
        /\ LastOccurrenceWins

-----------------------------------------------------------------------------
(* The tables.                                                             *)

LEMMA CommandsAre ==
    /\ Commands = {"encrypt", "decrypt", "pubkey", "sign", "verify", "git-shim"}
    /\ \A c \in Commands : LoopsOf(c) \in {<<"shim">>, <<"verify">>, <<"sign", "key">>,
           <<"key", "encrypt">>, <<"key", "decrypt">>, <<"key", "pubkey">>}
BY DEF Commands, CommandOpts, LoopsOf

Loops == {"key", "shim"} \cup DOMAIN CommandOpts

LEMMA LoopsAre ==
    ASSUME NEW c \in Commands, NEW l \in 1 .. Len(LoopsOf(c))
    PROVE  LoopsOf(c)[l] \in Loops
BY CommandsAre DEF Loops, CommandOpts

\* A token fills fields of the loop that takes it.
LEMMA Arms ==
    ASSUME NEW loop \in Loops, NEW tok
    PROVE  /\ \A m \in 1 .. Len(Takes(loop, tok)) : Takes(loop, tok)[m] \in FieldsOf(loop)
           /\ Sets(loop, tok) # << >> => Sets(loop, tok)[1] \in FieldsOf(loop)
<1>1. \A x : Len(<<x>>) = 1 /\ <<x>>[1] = x
  OBVIOUS
<1>2. \A x, y : Len(<<x, y>>) = 2 /\ <<x, y>>[1] = x /\ <<x, y>>[2] = y
  OBVIOUS
<1>3. CASE loop = "key"
  <2>1. /\ FieldsOf(loop) = KeyOpts /\ Sets(loop, tok) = << >>
        /\ Takes(loop, tok) = IF tok \in KeyOpts THEN <<tok>> ELSE << >>
    BY <1>3 DEF FieldsOf, Sets, Takes, CommandFlags
  <2>2. QED
    BY <1>1, <2>1
<1>4. CASE loop = "shim"
  <2>1. FieldsOf(loop) = {"sig", "data", "key_id", "status_fd", "is_verify"}
    BY <1>4 DEF FieldsOf
  <2>2. Takes(loop, tok) \in {<<"sig", "data">>, <<"key_id">>, <<"status_fd">>, << >>}
    BY <1>4 DEF Takes
  <2>3. Sets(loop, tok) \in {<<"is_verify", TRUE>>, <<"key_id", "K">>,
                             <<"status_fd", "2">>, << >>}
    BY <1>4 DEF Sets, Joined, CommandFlags
  <2>4. \A m \in 1 .. 1 : m = 1
    OBVIOUS
  <2>5. \A m \in 1 .. 2 : m = 1 \/ m = 2
    OBVIOUS
  <2>6. \A m \in 1 .. Len(Takes(loop, tok)) : Takes(loop, tok)[m] \in FieldsOf(loop)
    BY <1>1, <1>2, <2>1, <2>2, <2>4, <2>5
  <2>7. Sets(loop, tok) # << >> =>
            Sets(loop, tok)[1] \in {"is_verify", "key_id", "status_fd"}
    BY <1>2, <2>3
  <2>8. QED
    BY <2>1, <2>6, <2>7
<1>5. CASE loop \in DOMAIN CommandOpts
  <2>1. loop # "key" /\ loop # "shim" /\ loop \in DOMAIN CommandFlags
    BY <1>5 DEF CommandOpts, CommandFlags
  <2>2. FieldsOf(loop) = CommandOpts[loop] \cup CommandFlags[loop]
    BY <2>1, Zenon DEF FieldsOf
  <2>3. Takes(loop, tok) = IF tok \in CommandOpts[loop] THEN <<tok>> ELSE << >>
    BY <2>1, Zenon DEF Takes
  <2>4. \/ Sets(loop, tok) = << >>
        \/ /\ tok \in CommandFlags[loop]
           /\ Sets(loop, tok) = <<IF tok = "-a" THEN "--armor" ELSE tok, TRUE>>
    <3>1. CASE tok \in CommandFlags[loop]
      BY <2>1, <3>1, Zenon DEF Sets
    <3>2. CASE tok \notin CommandFlags[loop]
      BY <2>1, <3>2, Zenon DEF Sets
    <3>3. QED
      BY <3>1, <3>2
  <2>5. (IF tok = "-a" THEN "--armor" ELSE tok) \in CommandFlags[loop]
            \/ tok \notin CommandFlags[loop]
    <3>1. "-a" \in CommandFlags[loop] => "--armor" \in CommandFlags[loop]
      BY <1>5 DEF CommandOpts, CommandFlags
    <3>2. QED
      BY <3>1
  <2>6. Sets(loop, tok) # << >> => Sets(loop, tok)[1] \in FieldsOf(loop)
    <3>1. SUFFICES ASSUME Sets(loop, tok) # << >>
                   PROVE  Sets(loop, tok)[1] \in CommandFlags[loop]
      BY <2>2
    <3>2. PICK x : x = (IF tok = "-a" THEN "--armor" ELSE tok)
      OBVIOUS
    <3>3. Sets(loop, tok) = <<x, TRUE>> /\ x \in CommandFlags[loop]
      BY <2>4, <2>5, <3>1, <3>2, Zenon
    <3>4. QED
      BY <1>2, <3>3, Zenon
  <2>7. QED
    BY <1>1, <2>2, <2>3, <2>6
<1>6. QED
  BY <1>3, <1>4, <1>5 DEF Loops

LEMMA TakesAtMostTwo == ASSUME NEW loop, NEW tok PROVE Len(Takes(loop, tok)) \in 0 .. 2
BY DEF Takes

LEMMA TakesSeq == ASSUME NEW loop, NEW tok PROVE \E T : Takes(loop, tok) \in Seq(T)
<1> DEFINE T == {tok, "sig", "data", "key_id", "status_fd"}
<1>1. /\ << >> \in Seq(T) /\ <<tok>> \in Seq(T) /\ <<"sig", "data">> \in Seq(T)
      /\ <<"key_id">> \in Seq(T) /\ <<"status_fd">> \in Seq(T)
  OBVIOUS
<1> HIDE DEF T
<1>2. Takes(loop, tok) \in Seq(T)
  BY <1>1 DEF Takes
<1>3. QED
  BY <1>2

LEMMA LenNat == ASSUME NEW T, NEW x \in Seq(T) PROVE Len(x) \in Nat
OBVIOUS

LEMMA MeansOfItsLoop ==
    ASSUME NEW loop \in Loops, NEW it, MeansByItself(loop, it), it.values \in Seq(STRING)
    PROVE  DOMAIN it.means \subseteq FieldsOf(loop)
<1> DEFINE fs == Takes(loop, it.opt)
           set == Sets(loop, it.opt)
           sound == {m \in DOMAIN it.values : Parses(fs[m], it.values[m])}
<1>1. DOMAIN it.means = {fs[m] : m \in sound} \cup (IF set = << >> THEN {} ELSE {set[1]})
  BY DEF MeansByItself
<1>2. Len(fs) \in 0 .. 2 /\ Len(it.values) \in Nat /\ Len(it.values) <= Len(fs)
  <2>1. Len(fs) \in 0 .. 2
    BY TakesAtMostTwo
  <2>2. Len(it.values) < Len(fs) \/ Len(it.values) = Len(fs)
    BY DEF MeansByItself
  <2>3. QED
    BY <2>1, <2>2, LenNat
<1>3. \A m \in sound : m \in 1 .. Len(fs)
  <2>1. \A m \in sound : m \in 1 .. Len(it.values)
    OBVIOUS
  <2> HIDE DEF fs, sound
  <2>2. QED
    BY <1>2, <2>1
<1>4. /\ \A m \in 1 .. Len(fs) : fs[m] \in FieldsOf(loop)
      /\ set # << >> => set[1] \in FieldsOf(loop)
  BY Arms
<1> HIDE DEF fs, set, sound
<1>5. QED
  BY <1>1, <1>3, <1>4

\* No field is filled by both loops of a command.
LEMMA OneLoopEach ==
    ASSUME NEW c \in Commands, Len(LoopsOf(c)) = 2, NEW f
    PROVE  f \notin FieldsOf(LoopsOf(c)[1]) \/ f \notin FieldsOf(LoopsOf(c)[2])
<1>1. \E d \in {"encrypt", "decrypt", "pubkey", "sign"} :
          \/ LoopsOf(c)[1] = "key" /\ LoopsOf(c)[2] = d
          \/ LoopsOf(c)[1] = d /\ LoopsOf(c)[2] = "key"
  BY CommandsAre
<1>2. ASSUME NEW d \in {"encrypt", "decrypt", "pubkey", "sign"}
      PROVE  FieldsOf("key") \cap FieldsOf(d) = {}
  <2>1. FieldsOf("key") = KeyOpts
    BY DEF FieldsOf
  <2>2. FieldsOf(d) = CommandOpts[d] \cup CommandFlags[d]
    BY DEF FieldsOf
  <2>3. \A t \in CommandOpts[d] : t \notin KeyOpts
    BY DEF CommandOpts, KeyOpts
  <2>4. \A t \in CommandFlags[d] : t \notin KeyOpts
    BY DEF CommandFlags, KeyOpts
  <2>5. QED
    BY <2>1, <2>2, <2>3, <2>4
<1>3. QED
  BY <1>1, <1>2

\* What ItemsAssumption says of an item, loop by loop.
ItemFits(it, c) ==
    /\ it.opt \in STRING \ Commands /\ it.values \in Seq(STRING)
    /\ \A l \in 1 .. Len(LoopsOf(c)) :
           Knows(LoopsOf(c)[l], it.opt) => MeansByItself(LoopsOf(c)[l], it)
    /\ (\A l \in 1 .. Len(LoopsOf(c)) : ~Knows(LoopsOf(c)[l], it.opt)) =>
           DOMAIN it.means = {} /\ ~it.dangling

LEMMA ItemsFit ==
    ASSUME NEW c \in DOMAIN Items, NEW it \in Items[c]
    PROVE  ItemFits(it, c)
<1>1. DOMAIN LoopsOf(c) = 1 .. Len(LoopsOf(c))
  <2>1. c \in Commands
    BY ItemsAssumption
  <2>2. QED
    BY <2>1, CommandsAre
<1>2. QED
  BY <1>1, ItemsAssumption, Zenon DEF ItemFits

-----------------------------------------------------------------------------
(* Composing a line.                                                       *)

LEMMA Wider == ASSUME NEW T, NEW U, T \subseteq U, NEW x \in Seq(T) PROVE x \in Seq(U)
OBVIOUS

LEMMA Concatenation ==
    ASSUME NEW T, NEW a \in Seq(T), NEW e \in T, NEW b \in Seq(T),
           NEW c, c = a \o <<e>> \o b
    PROVE  /\ c \in Seq(T) /\ Len(c) = Len(a) + 1 + Len(b)
           /\ \A k \in 1 .. Len(a) : c[k] = a[k]
           /\ c[Len(a) + 1] = e
           /\ \A m \in 1 .. Len(b) : c[Len(a) + 1 + m] = b[m]
<1> DEFINE d == a \o <<e>>
<1>0. c = d \o b
  OBVIOUS
<1>1. d \in Seq(T) /\ Len(d) = Len(a) + 1 /\ d[Len(a) + 1] = e
      /\ \A k \in 1 .. Len(a) : d[k] = a[k]
  OBVIOUS
<1> HIDE DEF d
<1>2. /\ c \in Seq(T) /\ Len(c) = Len(d) + Len(b)
      /\ \A k \in 1 .. Len(d) + Len(b) : c[k] = IF k <= Len(d) THEN d[k] ELSE b[k - Len(d)]
  BY <1>0, <1>1
<1>3. \A k \in 1 .. Len(a) : k \in 1 .. Len(d) + Len(b) /\ k <= Len(d)
  BY <1>1
<1>4. \A m \in 1 .. Len(b) : /\ Len(a) + 1 + m \in 1 .. Len(d) + Len(b)
                             /\ ~(Len(a) + 1 + m <= Len(d))
                             /\ Len(a) + 1 + m - Len(d) = m
  BY <1>1
<1>5. Len(a) + 1 \in 1 .. Len(d) + Len(b) /\ Len(a) + 1 <= Len(d)
  BY <1>1
<1>6. QED
  BY <1>1, <1>2, <1>3, <1>4, <1>5 DEF d

\* No item, and one more item at the end of the line.
LEMMA LaysNone ==
    ASSUME NEW its, Len(its) = 0, NEW av, NEW p \in {1, 2}, Len(av) + 1 = p
    PROVE  Lays([x \in 1 .. 1 |-> p], its, av)
BY DEF Lays

OneMore(S, T, its, av, it, its2, av2) ==
    /\ \A x \in S : x.opt \in T /\ x.values \in Seq(T)
    /\ its \in Seq(S) /\ av \in Seq(T) /\ it \in S
    /\ its2 = Append(its, it) /\ av2 = av \o <<it.opt>> \o it.values

LEMMA LaysMore ==
    ASSUME NEW S, NEW T, NEW its, NEW av, NEW it, NEW its2, NEW av2, NEW pos,
           OneMore(S, T, its, av, it, its2, av2), Lays(pos, its, av)
    PROVE  /\ av2 \in Seq(T) /\ Len(av2) # 0 /\ \A k \in 1 .. Len(av) : av2[k] = av[k]
           /\ \E q : Lays(q, its2, av2) /\ q[1] = pos[1]
<1>1. PICK n \in Nat, a \in Nat, v \in Nat : n = Len(its) /\ a = Len(av) /\ v = Len(it.values)
  BY LenNat DEF OneMore
<1>2. /\ Len(its2) = n + 1 /\ its2[n + 1] = it
      /\ \A k \in 1 .. n : its2[k] = its[k] /\ its[k] \in S
  <2>1. its \in Seq(S) /\ it \in S /\ its2 = Append(its, it)
    BY DEF OneMore
  <2>2. QED
    BY <1>1, <2>1
<1>3. /\ av2 \in Seq(T) /\ Len(av2) = a + 1 + v
      /\ \A k \in 1 .. a : av2[k] = av[k]
      /\ av2[a + 1] = it.opt
      /\ \A m \in 1 .. v : av2[a + 1 + m] = it.values[m]
  <2>1. it.opt \in T /\ it.values \in Seq(T) /\ av \in Seq(T)
        /\ av2 = av \o <<it.opt>> \o it.values
    BY DEF OneMore
  <2>2. /\ av2 \in Seq(T) /\ Len(av2) = Len(av) + 1 + Len(it.values)
        /\ \A k \in 1 .. Len(av) : av2[k] = av[k]
        /\ av2[Len(av) + 1] = it.opt
        /\ \A m \in 1 .. Len(it.values) : av2[Len(av) + 1 + m] = it.values[m]
    <3>1. PICK e \in T, b \in Seq(T) : e = it.opt /\ b = it.values
      BY <2>1, Zenon
    <3>2. av2 = av \o <<e>> \o b
      BY <2>1, <3>1, Zenon
    <3>3. /\ av2 \in Seq(T) /\ Len(av2) = Len(av) + 1 + Len(b)
          /\ \A k \in 1 .. Len(av) : av2[k] = av[k]
          /\ av2[Len(av) + 1] = e
          /\ \A m \in 1 .. Len(b) : av2[Len(av) + 1 + m] = b[m]
      <4>1. av \in Seq(T)
        BY <2>1
      <4>2. QED
        BY <3>2, <4>1, Concatenation
    <3>4. QED
      BY <3>1, <3>3, Zenon
  <2>3. QED
    BY <1>1, <2>2, Zenon
<1>4. /\ pos \in [1 .. n + 1 -> Nat] /\ pos[n + 1] = a + 1 /\ pos[1] \in {1, 2}
      /\ \A k, l \in 1 .. n + 1 : k < l => pos[k] < pos[l]
  BY <1>1 DEF Lays
<1>5. \A k \in 1 .. n :
          /\ pos[k + 1] = pos[k] + 1 + Len(its[k].values)
          /\ av[pos[k]] = its[k].opt
          /\ \A m \in 1 .. Len(its[k].values) : av[pos[k] + m] = its[k].values[m]
  BY <1>1 DEF Lays
<1> DEFINE q == [k \in 1 .. n + 2 |-> IF k = n + 2 THEN a + v + 2 ELSE pos[k]]
<1>6. /\ q \in [1 .. n + 2 -> Nat] /\ q[n + 2] = a + v + 2
      /\ \A k \in 1 .. n + 1 : q[k] = pos[k]
  <2>1. \A k \in 1 .. n + 1 : k \in 1 .. n + 2 /\ k # n + 2
    OBVIOUS
  <2>2. \A k \in 1 .. n + 2 : k = n + 2 \/ k \in 1 .. n + 1
    OBVIOUS
  <2>3. n + 2 \in 1 .. n + 2 /\ a + v + 2 \in Nat
    OBVIOUS
  <2>4. QED
    BY <1>4, <2>1, <2>2, <2>3
<1> HIDE DEF q
<1>7. ASSUME NEW k \in 1 .. n + 1
      PROVE  /\ q[k + 1] = q[k] + 1 + Len(its2[k].values)
             /\ av2[q[k]] = its2[k].opt
             /\ \A m \in 1 .. Len(its2[k].values) : av2[q[k] + m] = its2[k].values[m]
  <2>1. CASE k = n + 1
    <3>1. q[k] = a + 1 /\ q[k + 1] = a + v + 2
      <4>1. n + 1 \in 1 .. n + 1 /\ k + 1 = n + 2
        BY <2>1
      <4>2. QED
        BY <1>4, <1>6, <2>1, <4>1
    <3>2. its2[k] = it
      BY <1>2, <2>1
    <3>3. a + v + 2 = a + 1 + 1 + v
      OBVIOUS
    <3>4. QED
      BY <1>1, <1>3, <3>1, <3>2, <3>3
  <2>2. CASE k \in 1 .. n
    <3>1. q[k] = pos[k] /\ q[k + 1] = pos[k + 1] /\ its2[k] = its[k]
      <4>1. k + 1 \in 1 .. n + 1
        BY <2>2
      <4>2. QED
        BY <1>2, <1>6, <2>2, <4>1
    <3>2. PICK L \in Nat : L = Len(its[k].values)
      <4>1. its[k] \in S
        BY <1>2, <2>2
      <4>2. its[k].values \in Seq(T)
        BY <4>1 DEF OneMore
      <4>3. QED
        BY <4>2, LenNat, Zenon
    <3>3. pos[k] \in 1 .. a /\ \A m \in 1 .. L : pos[k] + m \in 1 .. a
      <4>1. k + 1 \in 1 .. n + 1 /\ (k + 1 < n + 1 \/ k + 1 = n + 1) /\ (1 < k \/ 1 = k)
            /\ 1 \in 1 .. n + 1 /\ n + 1 \in 1 .. n + 1
        BY <2>2
      <4>2. pos[k + 1] \in Nat /\ pos[k] \in Nat /\ pos[1] \in {1, 2} /\ pos[n + 1] \in Nat
        BY <1>4, <4>1
      <4>3. pos[1] <= pos[k] /\ pos[k + 1] <= pos[n + 1]
        BY <1>4, <4>1, <4>2
      <4>4. pos[k + 1] = pos[k] + 1 + L /\ pos[n + 1] = a + 1
        BY <1>4, <1>5, <2>2, <3>2
      <4>5. QED
        BY <4>2, <4>3, <4>4
    <3>4. av2[q[k]] = its2[k].opt
      BY <1>3, <1>5, <2>2, <3>1, <3>3
    <3>5. \A m \in 1 .. L : av2[pos[k] + m] = its[k].values[m]
      BY <1>3, <1>5, <2>2, <3>2, <3>3
    <3>6. QED
      BY <1>5, <2>2, <3>1, <3>2, <3>4, <3>5
  <2>3. QED
    BY <2>1, <2>2
<1>8. ASSUME NEW k \in 1 .. n + 2, NEW l \in 1 .. n + 2, k < l PROVE q[k] < q[l]
  <2>1. k \in 1 .. n + 1 /\ (k < n + 1 \/ k = n + 1) /\ n + 1 \in 1 .. n + 1
    BY <1>8
  <2>2. CASE l \in 1 .. n + 1
    BY <1>4, <1>6, <1>8, <2>1, <2>2
  <2>3. CASE l = n + 2
    <3>1. pos[k] \in Nat /\ pos[n + 1] \in Nat
      BY <1>4, <2>1
    <3>2. pos[k] <= pos[n + 1]
      BY <1>4, <2>1, <3>1
    <3>3. QED
      BY <1>4, <1>6, <2>1, <2>3, <3>1, <3>2
  <2>4. QED
    BY <2>2, <2>3
<1>9. Lays(q, its2, av2) /\ q[1] = pos[1]
  <2>1. 1 \in 1 .. n + 1 /\ n + 1 + 1 = n + 2 /\ a + v + 2 = a + 1 + v + 1
    OBVIOUS
  <2>2. q[1] = pos[1]
    BY <1>6, <2>1
  <2>3. Len(its2) + 1 = n + 2 /\ Len(av2) + 1 = a + v + 2
    BY <1>2, <1>3
  <2>4. QED
    BY <1>2, <1>4, <1>6, <1>7, <1>8, <2>2, <2>3 DEF Lays
<1>10. a + 1 + v # 0
  OBVIOUS
<1>11. QED
  BY <1>1, <1>3, <1>9, <1>10, Zenon

LEMMA InitOInv == OptionInit => OInv
<1> SUFFICES ASSUME OptionInit PROVE OInv
  OBVIOUS
<1>1. cmd \in DOMAIN Items /\ cmd \in Commands
  BY ItemsAssumption DEF OptionInit
<1>2. items = << >> /\ Len(items) = 0
  BY DEF OptionInit
<1>3. cmd \in Tokens
  BY <1>1 DEF Tokens
<1>4. argv = <<cmd>> \/ (argv = << >> /\ cmd = "git-shim")
  BY DEF OptionInit
<1>5. argv \in Seq(Tokens) /\ \E pos : Layout(pos)
  <2>1. CASE argv = <<cmd>>
    <3>1. argv \in Seq(Tokens) /\ Len(argv) = 1 /\ argv[1] = cmd /\ argv # << >>
      BY <1>3, <2>1
    <3>2. Lays([x \in 1 .. 1 |-> 2], items, argv)
      <4>1. Len(argv) + 1 = 2 /\ 2 \in {1, 2}
        BY <3>1
      <4>2. QED
        BY <1>2, <4>1, LaysNone, Zenon
    <3>3. [x \in 1 .. 1 |-> 2][1] = 2
      OBVIOUS
    <3>4. QED
      BY <3>1, <3>2, <3>3, Zenon DEF Layout
  <2>2. CASE argv = << >> /\ cmd = "git-shim"
    <3>1. argv \in Seq(Tokens) /\ Len(argv) = 0
      BY <2>2
    <3>2. Lays([x \in 1 .. 1 |-> 1], items, argv)
      BY <1>2, <3>1, LaysNone
    <3>3. [x \in 1 .. 1 |-> 1][1] = 1
      OBVIOUS
    <3>4. QED
      BY <2>2, <3>1, <3>2, <3>3, Zenon DEF Layout
  <2>3. QED
    BY <1>4, <2>1, <2>2, Zenon
<1>6. exe = "pipe-k1" \/ cmd = "git-shim"
  BY DEF OptionInit
<1>7. Line
  BY <1>1, <1>2, <1>5, <1>6 DEF Line
<1>8. QED
  BY <1>7 DEF OInv, OptionInit, Parsing, LastOccurrenceWins, Running, Success

LEMMA WriteItemLine == Line /\ WriteItem => Line'
<1> SUFFICES ASSUME Line, WriteItem PROVE Line'
  OBVIOUS
<1>1. PICK it \in Items[cmd] : items' = Append(items, it)
                               /\ argv' = argv \o <<it.opt>> \o it.values
  BY DEF WriteItem
<1>2. cmd' = cmd /\ exe' = exe /\ cmd \in DOMAIN Items /\ items \in Seq(Items[cmd])
      /\ argv \in Seq(Tokens) /\ (exe = "pipe-k1" \/ cmd = "git-shim")
  BY DEF WriteItem, Line
<1>3. \A x \in Items[cmd] : x.opt \in Tokens /\ x.values \in Seq(Tokens)
  <2>1. \A x \in Items[cmd] : x.opt \in STRING /\ x.values \in Seq(STRING)
    BY <1>2, ItemsFit DEF ItemFits
  <2>2. STRING \subseteq Tokens
    BY DEF Tokens
  <2>3. QED
    BY <2>1, <2>2, Wider, Zenon
<1>4. PICK pos : Layout(pos)
  BY DEF Line
<1>5. Lays(pos, items, argv)
  BY <1>4 DEF Layout
<1>6. PICK its2, av2 : its2 = items' /\ av2 = argv'
  OBVIOUS
<1>7. its2 = Append(items, it) /\ av2 = argv \o <<it.opt>> \o it.values
  BY <1>1, <1>6
<1>8. /\ av2 \in Seq(Tokens) /\ Len(av2) # 0 /\ \A k \in 1 .. Len(argv) : av2[k] = argv[k]
      /\ \E q : Lays(q, its2, av2) /\ q[1] = pos[1]
  <2>1. OneMore(Items[cmd], Tokens, items, argv, it, its2, av2)
    BY <1>2, <1>3, <1>7, Zenon DEF OneMore
  <2>2. QED
    BY <1>5, <2>1, LaysMore
<1>9. PICK q : Lays(q, its2, av2) /\ q[1] = pos[1]
  BY <1>8
<1>10. argv # << >> => 1 \in 1 .. Len(argv)
  BY <1>2
<1>11. Layout(q)'
  <2>1. av2 # << >>
    BY <1>8
  <2>2. \/ q[1] = 1 /\ cmd = "git-shim"
        \/ q[1] = 2 /\ argv # << >> /\ argv[1] = cmd
    BY <1>4, <1>9 DEF Layout
  <2>3. QED
    BY <1>2, <1>6, <1>8, <1>9, <1>10, <2>1, <2>2, Zenon DEF Layout
<1>12. ASSUME NEW k \in 1 .. Len(its2), k < Len(its2) PROVE ~its2[k].dangling
  <2>1. PICK n \in Nat : n = Len(items)
    BY <1>2
  <2>2. Len(its2) = n + 1 /\ \A j \in 1 .. n : its2[j] = items[j]
    BY <1>2, <1>7, <2>1
  <2>3. k \in 1 .. n /\ (k < n \/ k = n) /\ n # 0
    BY <1>12, <2>1, <2>2
  <2>4. items # << >> /\ items[n] = Last(items)
    BY <1>2, <2>1, <2>3 DEF Last
  <2>5. ~items[n].dangling
    BY <2>4 DEF WriteItem
  <2>6. \A j \in 1 .. n : j < n => ~items[j].dangling
    BY <2>1 DEF Line
  <2>7. QED
    BY <2>2, <2>3, <2>5, <2>6
<1>13. items' \in Seq(Items[cmd])
  BY <1>1, <1>2
<1>14. QED
  BY <1>2, <1>6, <1>8, <1>11, <1>12, <1>13 DEF Line
-----------------------------------------------------------------------------
(* The places of the items.                                                *)

\* The line is left alone by everything but WriteItem.
LEMMA SameLine ==
    ASSUME UNCHANGED <<cmd, exe, items, argv>>
    PROVE  /\ Line => Line'
           /\ \A pos : Layout(pos) => Layout(pos)'
           /\ \A d, k : ReadBy(d, k)' = ReadBy(d, k)
           /\ \A f, P : LastAbout(f, P)' = LastAbout(f, P)
           /\ \A f : Sound(f)' = Sound(f)
<1>1. \A pos : Layout(pos) => Layout(pos)'
  BY DEF Layout, Lays
<1>2. Line => Line'
  BY <1>1, Zenon DEF Line
<1>3. \A d, k : ReadBy(d, k)' = ReadBy(d, k)
  BY DEF ReadBy
<1>4. \A f, P : LastAbout(f, P)' = LastAbout(f, P)
  BY DEF LastAbout, LastOf, About
<1>5. \A f : Sound(f)' = Sound(f)
  BY DEF Sound, Broken, Disturbed
<1>6. QED
  BY <1>1, <1>2, <1>3, <1>4, <1>5

\* pos grows from its first value to its last.
LEMMA Between ==
    ASSUME NEW pos, Layout(pos), items \in Seq(Items[cmd]), argv \in Seq(Tokens),
           NEW k \in 1 .. Len(items) + 1
    PROVE  /\ pos[k] \in Nat /\ 1 <= pos[k] /\ pos[k] <= Len(argv) + 1
           /\ k <= Len(items) => pos[k] <= Len(argv)
<1>1. PICK n \in Nat, a \in Nat : n = Len(items) /\ a = Len(argv)
  BY LenNat
<1>2. /\ pos \in [1 .. n + 1 -> Nat] /\ pos[n + 1] = a + 1 /\ pos[1] \in {1, 2}
      /\ \A x, y \in 1 .. n + 1 : x < y => pos[x] < pos[y]
  BY <1>1 DEF Layout, Lays
<1>3. k \in 1 .. n + 1
  BY <1>1
<1>4. /\ 1 \in 1 .. n + 1 /\ n + 1 \in 1 .. n + 1
      /\ (1 < k \/ 1 = k) /\ (k < n + 1 \/ k = n + 1)
  BY <1>3
<1>5. pos[k] \in Nat /\ pos[1] \in Nat /\ pos[n + 1] \in Nat
  BY <1>2, <1>3, <1>4
<1>6. pos[1] <= pos[k] /\ pos[k] <= pos[n + 1] /\ (k < n + 1 => pos[k] < pos[n + 1])
  BY <1>2, <1>3, <1>4, <1>5
<1>7. k <= n => k < n + 1
  BY <1>3
<1>8. /\ 1 <= pos[k] /\ pos[k] <= a + 1 /\ (k <= n => pos[k] <= a)
  BY <1>2, <1>5, <1>6, <1>7
<1>9. QED
  BY <1>1, <1>5, <1>8

\* What lies at an item's place, and where the next one begins.
AtPlace(pos, k, it) ==
    /\ ItemFits(it, cmd)
    /\ Len(it.values) \in Nat /\ pos[k + 1] \in Nat
    /\ pos[k + 2] = pos[k + 1] + 1 + Len(it.values) /\ pos[k + 2] <= Len(argv) + 1
    /\ it.dangling => pos[k + 2] = Len(argv) + 1
    /\ argv[pos[k + 1]] = it.opt
    /\ \A m \in 1 .. Len(it.values) : argv[pos[k + 1] + m] = it.values[m]

LEMMA Placed ==
    ASSUME Line, NEW pos, Layout(pos), NEW k \in 0 .. Len(items), k < Len(items)
    PROVE  AtPlace(pos, k, items[k + 1])
<1>0. PICK it : it = items[k + 1]
  OBVIOUS
<1>1. cmd \in DOMAIN Items /\ items \in Seq(Items[cmd]) /\ argv \in Seq(Tokens)
  BY DEF Line
<1>2. PICK n \in Nat : n = Len(items)
  BY <1>1
<1>3. /\ k + 1 \in 1 .. n /\ k + 1 \in 1 .. n + 1 /\ k + 2 \in 1 .. n + 1
      /\ k + 1 + 1 = k + 2 /\ (k + 1 < n \/ k + 2 = n + 1)
  BY <1>2
<1>4. it \in Items[cmd]
  BY <1>0, <1>1, <1>2, <1>3
<1>5. ItemFits(it, cmd)
  BY <1>1, <1>4, ItemsFit
<1>6. Len(it.values) \in Nat
  BY <1>5 DEF ItemFits
<1>7. pos[k + 1] \in Nat /\ pos[k + 2] <= Len(argv) + 1
  BY <1>1, <1>2, <1>3, Between
<1>8. /\ pos[k + 2] = pos[k + 1] + 1 + Len(it.values)
      /\ argv[pos[k + 1]] = it.opt
      /\ \A m \in 1 .. Len(it.values) : argv[pos[k + 1] + m] = it.values[m]
  BY <1>0, <1>2, <1>3 DEF Layout, Lays
<1>9. it.dangling => pos[k + 2] = Len(argv) + 1
  <2>1. pos[n + 1] = Len(argv) + 1
    BY <1>2 DEF Layout, Lays
  <2>2. k + 1 < n => ~it.dangling
    BY <1>0, <1>2, <1>3 DEF Line
  <2>3. QED
    BY <1>3, <2>1, <2>2
<1>10. QED
  BY <1>0, <1>5, <1>6, <1>7, <1>8, <1>9 DEF AtPlace

\* One more item that has been read.
LEMMA LastNew ==
    ASSUME NEW f, NEW P \in SUBSET Nat, NEW q \in Nat,
           f \in DOMAIN items[q].means => \A j \in About(f, P) : j < q
    PROVE  LastAbout(f, P \cup {q}) = IF f \in DOMAIN items[q].means
                                      THEN items[q].means[f] ELSE LastAbout(f, P)
<1>1. CASE f \in DOMAIN items[q].means
  <2> DEFINE A == About(f, P \cup {q})
  <2>1. q \in A /\ \A j \in A : j \in Nat /\ (j < q \/ j = q)
    BY <1>1 DEF About
  <2>2. \A k \in A : (\A l \in A : l <= k) => k = q
    BY <2>1
  <2>3. \A l \in A : l <= q
    BY <2>1
  <2>4. (CHOOSE k \in A : \A l \in A : l <= k) = q
    BY <2>1, <2>2, <2>3
  <2>5. A # {}
    BY <2>1
  <2>6. LastAbout(f, P \cup {q}) = items[CHOOSE k \in A : \A l \in A : l <= k].means[f]
    BY <2>5 DEF LastAbout, LastOf
  <2>7. QED
    BY <1>1, <2>4, <2>6
<1>2. CASE f \notin DOMAIN items[q].means
  <2>1. About(f, P \cup {q}) = About(f, P)
    BY <1>2 DEF About
  <2>2. LastAbout(f, P \cup {q}) = LastAbout(f, P)
    BY <2>1, Zenon DEF LastAbout
  <2>3. QED
    BY <1>2, <2>2
<1>3. QED
  BY <1>1, <1>2

\* An undisturbed loop stands in the line, a disturbed one somewhere.
LEMMA ReadsOn ==
    ASSUME UNCHANGED <<cmd, exe, items, argv>>, NEW d, NEW pos, NEW k,
           Layout(pos), LoopsAfter(d)', ~Disturbed(Head(loops))' => AtItem(pos, k)',
           Disturbed(Head(loops))' => k = 0,
           \A f \in Fields : Sound(f) => opts'[f] = LastAbout(f, ReadBy(d, k))
    PROVE  Reading'
<1>1. /\ Layout(pos)' /\ ReadBy(d, k)' = ReadBy(d, k)
      /\ \A f, P : LastAbout(f, P)' = LastAbout(f, P)
      /\ \A f : Sound(f)' = Sound(f)
  BY SameLine
<1>2. ReadSoFar(d, k)'
  BY <1>1 DEF ReadSoFar
<1>3. QED
  BY <1>1, <1>2, Zenon DEF Reading

-----------------------------------------------------------------------------
(* Picking the command.                                                    *)

LEMMA GitTokens ==
    ASSUME NEW c \in Commands,
           c \in {"git-shim", "-bsau", "--status-fd=2", "--status-fd",
                  "--keyid-format=long", "--verify"}
    PROVE  c = "git-shim"
BY CommandsAre

\* real_main takes the caller's command, and starts behind its name.
LEMMA Picked ==
    ASSUME Line, NEW pos, Layout(pos), argv # << >>
    PROVE  /\ IsGitInvocation =>
                  cmd = "git-shim" /\ pos[1] = IF argv[1] = "git-shim" THEN 2 ELSE 1
           /\ ~IsGitInvocation /\ argv[1] \in DOMAIN CommandOpts => argv[1] = cmd /\ pos[1] = 2
<1>1. cmd \in Commands
  BY ItemsAssumption DEF Line
<1>2. pos[1] = 1 => argv[1] \notin Commands
  <2>1. SUFFICES ASSUME pos[1] = 1 PROVE argv[1] \notin Commands
    OBVIOUS
  <2>2. items \in Seq(Items[cmd]) /\ argv \in Seq(Tokens)
    BY DEF Line
  <2>3. PICK n \in Nat, a \in Nat : n = Len(items) /\ a = Len(argv)
    BY <2>2, LenNat
  <2>4. a # 0
    BY <2>2, <2>3
  <2>5. pos[n + 1] = a + 1
    BY <2>3 DEF Layout, Lays
  <2>6. n # 0
    BY <2>1, <2>4, <2>5
  <2>7. 0 \in 0 .. n /\ 0 < n /\ 0 + 1 = 1
    BY <2>6
  <2>8. ItemFits(items[1], cmd) /\ argv[1] = items[1].opt
    <3>1. AtPlace(pos, 0, items[0 + 1])
      BY <2>3, <2>7, Placed
    <3>2. QED
      BY <2>1, <2>7, <3>1 DEF AtPlace
  <2>9. QED
    BY <2>8 DEF ItemFits
<1>3. (pos[1] = 1 /\ cmd = "git-shim") \/ (pos[1] = 2 /\ argv[1] = cmd)
  BY DEF Layout
<1>4. exe = "pipe-k1" \/ cmd = "git-shim"
  BY DEF Line
<1>5. exe # "pipe-k1-git-shim" \/ cmd = "git-shim"
  BY <1>4
<1>6. IsGitInvocation => cmd = "git-shim"
  BY <1>1, <1>3, <1>5, GitTokens DEF IsGitInvocation
<1>7. "git-shim" \in Commands /\ DOMAIN CommandOpts \subseteq Commands
  BY DEF Commands
<1>8. QED
  BY <1>2, <1>3, <1>6, <1>7

LEMMA DispatchOInv == OInv /\ Dispatch => OInv'
<1> SUFFICES ASSUME OInv, Dispatch PROVE OInv'
  OBVIOUS
<1>1. UNCHANGED <<cmd, exe, items, argv>> /\ opts' = opts
  BY DEF Dispatch
<1>2. Line /\ opts = Defaults /\ loops = << >> /\ oexit = Running
  BY DEF OInv, Dispatch
<1>3. Line'
  BY <1>1, <1>2, SameLine
<1>4. i' \in {1, 2}
  BY DEF Dispatch
<1>5. CASE oexit' = UsageError
  BY <1>3, <1>4, <1>5 DEF OInv, Parsing, LastOccurrenceWins, UsageError, Running, Success
<1>6. CASE oexit' # UsageError
  <2>1. oexit' = Running /\ argv # << >>
    BY <1>2, <1>6 DEF Dispatch
  <2>2. PICK pos : Layout(pos)
    BY <1>2 DEF Line
  <2>3. loops' = LoopsOf(cmd) /\ i' = pos[1]
    <3>1. \/ /\ IsGitInvocation /\ loops' = LoopsOf("git-shim")
             /\ i' = IF argv[1] = "git-shim" THEN 2 ELSE 1
          \/ /\ ~IsGitInvocation /\ argv[1] \in DOMAIN CommandOpts
             /\ loops' = LoopsOf(argv[1]) /\ i' = 2
      BY <1>6, <2>1 DEF Dispatch
    <3>2. QED
      BY <1>2, <2>1, <2>2, <3>1, Picked
  <2>4. LoopsAfter(0)'
    BY <1>1, <2>3 DEF LoopsAfter
  <2>5. AtItem(pos, 0)'
    <3>1. 0 \in 0 .. Len(items) /\ 0 + 1 = 1
      BY <1>2, LenNat DEF Line
    <3>2. QED
      BY <1>1, <2>3, <3>1 DEF AtItem
  <2>6. ReadBy(0, 0) = {}
    BY DEF ReadBy
  <2>7. \A f \in Fields : opts'[f] = LastAbout(f, ReadBy(0, 0))
    BY <1>1, <1>2, <2>6 DEF LastAbout, LastOf, About
  <2>8. Reading'
    BY <1>1, <2>2, <2>4, <2>5, <2>7, ReadsOn
  <2>9. QED
    BY <1>3, <1>4, <2>1, <2>8 DEF OInv, LastOccurrenceWins, Running, Success
<1>7. QED
  BY <1>5, <1>6

LEMMA WriteItemOInv == OInv /\ WriteItem => OInv'
<1> SUFFICES ASSUME OInv, WriteItem PROVE OInv'
  OBVIOUS
<1>1. Line'
  BY WriteItemLine DEF OInv
<1>2. i' = 0 /\ opts' = Defaults /\ loops' = << >> /\ oexit' = Running
  BY DEF OInv, WriteItem
<1>3. QED
  BY <1>1, <1>2 DEF OInv, Parsing, LastOccurrenceWins, Running, Success
-----------------------------------------------------------------------------
(* A round of a loop.                                                      *)

LEMMA TheLoop ==
    ASSUME Line, NEW d, LoopsAfter(d)
    PROVE  /\ d \in {0, 1} /\ d + 1 \in 1 .. Len(LoopsOf(cmd)) /\ cmd \in Commands
           /\ Head(loops) = LoopsOf(cmd)[d + 1]
<1>1. cmd \in Commands
  BY ItemsAssumption DEF Line
<1>2. QED
  BY <1>1, CommandsAre DEF LoopsAfter

\* A disturbed loop fills no sound field, and the items that it has an arm for are
\* about none.
LEMMA OwnLoop ==
    ASSUME cmd \in Commands, NEW l \in 1 .. Len(LoopsOf(cmd)), Disturbed(LoopsOf(cmd)[l]),
           NEW f, Sound(f)
    PROVE  f \notin FieldsOf(LoopsOf(cmd)[l])
<1>1. DOMAIN LoopsOf(cmd) = 1 .. Len(LoopsOf(cmd))
  BY CommandsAre
<1>2. QED
  BY <1>1 DEF Sound

LEMMA Outside ==
    ASSUME Line, NEW d, LoopsAfter(d), Disturbed(Head(loops)), NEW f, Sound(f), NEW k
    PROVE  LastAbout(f, ReadBy(d, k)) = LastAbout(f, ReadBy(d, 0))
<1>1. /\ d \in {0, 1} /\ d + 1 \in 1 .. Len(LoopsOf(cmd)) /\ cmd \in Commands
      /\ Head(loops) = LoopsOf(cmd)[d + 1]
  BY TheLoop
<1>2. f \notin FieldsOf(LoopsOf(cmd)[d + 1]) /\ LoopsOf(cmd)[d + 1] \in Loops
  BY <1>1, OwnLoop, LoopsAre
<1>3. ASSUME NEW j \in 1 .. Len(items), Knows(LoopsOf(cmd)[d + 1], items[j].opt)
      PROVE  f \notin DOMAIN items[j].means
  <2>1. cmd \in DOMAIN Items /\ items[j] \in Items[cmd]
    BY DEF Line
  <2>2. ItemFits(items[j], cmd)
    BY <2>1, ItemsFit
  <2>3. MeansByItself(LoopsOf(cmd)[d + 1], items[j]) /\ items[j].values \in Seq(STRING)
    BY <1>1, <1>3, <2>2 DEF ItemFits
  <2>4. QED
    BY <1>2, <2>3, MeansOfItsLoop
<1>4. About(f, ReadBy(d, k)) = About(f, ReadBy(d, 0))
  BY <1>3 DEF About, ReadBy
<1>5. QED
  BY <1>4, Zenon DEF LastAbout

\* A token that the loop has no arm for.
LEMMA PassOver ==
    ASSUME Round, i \in Nat, Len(argv) \in Nat, ~Knows(Head(loops), argv[i])
    PROVE  i' = i + 1 /\ \A f \in Fields : opts'[f] = opts[f]
<1>1. Takes(Head(loops), argv[i]) = << >> /\ Sets(Head(loops), argv[i]) = << >>
  BY DEF Knows
<1>2. Taken(<< >>) = 0
  <2>1. i <= Len(argv) /\ Len(<< >>) = 0
    BY DEF Round
  <2>2. 0 <= Len(argv) - i
    BY <2>1
  <2>3. QED
    BY <2>1, <2>2 DEF Taken
<1>3. i' = i + 1
  <2>1. i' = NextIndex(<< >>)
    BY <1>1 DEF Round
  <2>2. QED
    BY <1>2, <2>1 DEF NextIndex
<1>4. ASSUME NEW f \in Fields PROVE opts'[f] = opts[f]
  <2>1. ~ \E k \in 1 .. Taken(<< >>) : << >>[k] = f
    BY <1>2
  <2>2. QED
    BY <1>1, <2>1 DEF Round
<1>5. QED
  BY <1>3, <1>4

\* The beginning of an item of the loop's own.
LEMMA TakeOwn ==
    ASSUME Round, i \in Nat, Len(argv) \in Nat, NEW it, MeansByItself(Head(loops), it),
           argv[i] = it.opt, NEW v \in Nat, v = Len(it.values), i + v <= Len(argv),
           it.dangling => i + v = Len(argv),
           \A m \in 1 .. v : argv[i + m] = it.values[m]
    PROVE  /\ i' = i + 1 + v
           /\ \A f \in Fields \ it.broken :
                  opts'[f] = IF f \in DOMAIN it.means THEN it.means[f] ELSE opts[f]
<1> DEFINE fs == Takes(Head(loops), it.opt)
           set == Sets(Head(loops), it.opt)
<1>1. Taken(fs) = v
  <2>1. PICK L \in Nat : L = Len(fs)
    <3>1. Len(fs) \in 0 .. 2
      BY TakesAtMostTwo
    <3>2. 0 .. 2 \subseteq Nat
      OBVIOUS
    <3>3. QED
      BY <3>1, <3>2, Zenon
  <2>2. IF it.dangling THEN v < L ELSE v = L
    BY <2>1 DEF MeansByItself
  <2>3. Taken(fs) = IF L <= Len(argv) - i THEN L ELSE Len(argv) - i
    BY <2>1 DEF Taken
  <2>4. QED
    BY <2>2, <2>3
<1> DEFINE sound == {m \in DOMAIN it.values : Parses(fs[m], it.values[m])}
<1>2. /\ DOMAIN it.means = {fs[m] : m \in sound} \cup (IF set = << >> THEN {} ELSE {set[1]})
      /\ \A m \in sound : it.means[fs[m]] = it.values[m]
      /\ set # << >> => it.means[set[1]] = set[2]
      /\ it.broken = {fs[m] : m \in DOMAIN fs \ sound}
  BY DEF MeansByItself
<1>3. i' = NextIndex(fs)
  BY DEF Round
<1>4. i' = i + 1 + v
  BY <1>1, <1>3 DEF NextIndex
<1>5. /\ DOMAIN it.values = 1 .. v
      /\ \A m \in 1 .. v : m \in DOMAIN fs
  <2>1. v <= Len(fs) /\ Len(fs) \in 0 .. 2
    <3>1. Len(it.values) < Len(fs) \/ Len(it.values) = Len(fs)
      BY DEF MeansByItself
    <3>2. Len(fs) \in 0 .. 2
      BY TakesAtMostTwo
    <3>3. QED
      BY <3>1, <3>2
  <2>2. DOMAIN fs = 1 .. Len(fs)
    <3>1. \E T : fs \in Seq(T)
      BY TakesSeq
    <3> HIDE DEF fs
    <3>2. QED
      BY <3>1
  <2> HIDE DEF fs
  <2>3. QED
    BY <2>1, <2>2
<1>6. ASSUME NEW f \in Fields \ it.broken
      PROVE  opts'[f] = IF f \in DOMAIN it.means THEN it.means[f] ELSE opts[f]
  <2>1. opts'[f] = IF \E k \in 1 .. v : fs[k] = f
                   THEN Parse(f, argv[i + CHOOSE k \in 1 .. v : fs[k] = f])
                   ELSE IF set # << >> /\ set[1] = f THEN set[2]
                   ELSE opts[f]
    BY <1>1 DEF Round
  <2>2. \A m \in 1 .. v : fs[m] = f => m \in sound
    <3> HIDE DEF fs
    <3>1. QED
      BY <1>2, <1>5
  <2>3. \A m \in sound : m \in 1 .. v /\ Parses(fs[m], it.values[m])
    BY <1>5
  <2> HIDE DEF fs, set, sound
  <2>4. CASE \E k \in 1 .. v : fs[k] = f
    <3>1. PICK m \in 1 .. v : m = (CHOOSE k \in 1 .. v : fs[k] = f) /\ fs[m] = f
      BY <2>4
    <3>2. m \in sound /\ Parses(f, it.values[m])
      BY <2>2, <2>3, <3>1
    <3>3. opts'[f] = Parse(f, it.values[m])
      BY <2>1, <2>4, <3>1
    <3>4. Parse(f, it.values[m]) = it.values[m]
      BY <3>2 DEF Parse, Parses
    <3>5. QED
      BY <1>2, <3>1, <3>2, <3>3, <3>4
  <2>5. CASE ~ \E k \in 1 .. v : fs[k] = f
    <3>1. f \in DOMAIN it.means <=> set # << >> /\ set[1] = f
      BY <1>2, <2>3, <2>5
    <3>2. QED
      BY <1>2, <2>1, <2>5, <3>1
  <2>6. QED
    BY <2>4, <2>5
<1>7. QED
  BY <1>4, <1>6

\* The loop is at a token of an item that it has no arm for.
LEMMA RoundForeign ==
    ASSUME Line, i \in Nat, Round, NEW d, LoopsAfter(d), NEW pos, Layout(pos), NEW k,
           AtItem(pos, k), k < Len(items), ~Knows(Head(loops), items[k + 1].opt),
           ~Disturbed(Head(loops)), ReadSoFar(d, k)
    PROVE  Reading'
<1>0. PICK it : it = items[k + 1]
  OBVIOUS
<1>1. k \in 0 .. Len(items) /\ Len(items) \in Nat /\ Len(argv) \in Nat /\ k \in Nat
  BY LenNat DEF AtItem, Line
<1>2. /\ ItemFits(it, cmd) /\ Len(it.values) \in Nat /\ pos[k + 1] \in Nat
      /\ pos[k + 2] = pos[k + 1] + 1 + Len(it.values)
      /\ argv[pos[k + 1]] = it.opt
      /\ \A m \in 1 .. Len(it.values) : argv[pos[k + 1] + m] = it.values[m]
  <2>1. AtPlace(pos, k, it)
    BY <1>0, <1>1, Placed
  <2>2. QED
    BY <2>1, Zenon DEF AtPlace
<1>3. /\ d \in {0, 1} /\ d + 1 \in 1 .. Len(LoopsOf(cmd))
      /\ Head(loops) = LoopsOf(cmd)[d + 1]
  BY TheLoop
<1>4. /\ DOMAIN it.values = 1 .. Len(it.values)
      /\ \A m \in DOMAIN it.values : ~Knows(Head(loops), it.values[m])
  <2>1. DOMAIN it.values = 1 .. Len(it.values)
    BY <1>2 DEF ItemFits
  <2>2. k + 1 \in DOMAIN items
    <3>1. DOMAIN items = 1 .. Len(items)
      BY DEF Line
    <3>2. QED
      BY <1>1, <3>1
  <2>3. QED
    BY <1>0, <2>1, <2>2 DEF Disturbed
<1>5. PICK p1 \in Nat, v \in Nat : p1 = pos[k + 1] /\ v = Len(it.values)
  BY <1>2
<1>6. p1 <= i /\ i < p1 + 1 + v /\ pos[k + 2] = p1 + 1 + v
  BY <1>2, <1>5 DEF AtItem
<1>7. ~Knows(Head(loops), argv[i])
  <2>1. CASE i = p1
    BY <1>0, <1>2, <1>5, <2>1
  <2>2. CASE i # p1
    <3>1. i - p1 \in 1 .. v /\ p1 + (i - p1) = i
      BY <1>6, <2>2
    <3>2. argv[i] = it.values[i - p1]
      BY <1>2, <1>5, <3>1
    <3>3. QED
      BY <1>4, <1>5, <3>1, <3>2
  <2>3. QED
    BY <2>1, <2>2
<1>8. i' = i + 1 /\ \A f \in Fields : opts'[f] = opts[f]
  BY <1>1, <1>7, PassOver
<1>9. UNCHANGED <<cmd, exe, items, argv, loops>>
  BY DEF Round
<1>10. LoopsAfter(d)' /\ ~Disturbed(Head(loops))'
  BY <1>9 DEF LoopsAfter, Disturbed
<1>11. CASE i + 1 < pos[k + 2]
  <2>1. AtItem(pos, k)'
    <3>1. pos[k + 1] < i + 1
      BY <1>5, <1>6
    <3>2. QED
      BY <1>1, <1>8, <1>9, <1>11, <3>1 DEF AtItem
  <2>2. QED
    BY <1>8, <1>9, <1>10, <2>1, ReadsOn DEF ReadSoFar
<1>12. CASE ~(i + 1 < pos[k + 2])
  <2>1. k + 1 \in 0 .. Len(items) /\ k + 1 + 1 = k + 2 /\ i + 1 = pos[k + 2]
    BY <1>1, <1>6, <1>12
  <2>2. AtItem(pos, k + 1)'
    BY <1>8, <1>9, <2>1 DEF AtItem
  <2>3. ReadBy(d, k + 1) = ReadBy(d, k)
    <3>1. ~Knows(LoopsOf(cmd)[d + 1], items[k + 1].opt)
      BY <1>3
    <3>2. \A j \in 1 .. Len(items) : j <= k + 1 <=> (j <= k \/ j = k + 1)
      BY <1>1
    <3>3. QED
      BY <3>1, <3>2 DEF ReadBy
  <2>4. \A f \in Fields : Sound(f) => opts'[f] = LastAbout(f, ReadBy(d, k + 1))
    BY <1>8, <2>3 DEF ReadSoFar
  <2>5. QED
    BY <1>9, <1>10, <2>2, <2>4, ReadsOn
<1>13. QED
  BY <1>11, <1>12

\* What the loop before has read says nothing of the fields of this loop.
LEMMA EarlierItems ==
    ASSUME Line, NEW d, LoopsAfter(d), NEW k \in 0 .. Len(items), k < Len(items),
           MeansByItself(Head(loops), items[k + 1]),
           NEW f \in DOMAIN items[k + 1].means, NEW j \in About(f, ReadBy(d, k))
    PROVE  j < k + 1
<1>1. k \in Nat /\ j \in Nat /\ j \in 1 .. Len(items) /\ f \in DOMAIN items[j].means
  BY LenNat DEF Line, About, ReadBy
<1>2. CASE j <= k
  BY <1>1, <1>2
<1>3. CASE ~(j <= k)
  <2>1. d = 1 /\ Knows(LoopsOf(cmd)[1], items[j].opt)
    BY <1>3 DEF About, ReadBy
  <2>2. Len(LoopsOf(cmd)) = 2 /\ Head(loops) = LoopsOf(cmd)[2] /\ cmd \in Commands
    BY <2>1, TheLoop DEF LoopsAfter
  <2>3. cmd \in DOMAIN Items /\ items[j] \in Items[cmd]
    BY <1>1 DEF Line
  <2>4. ItemFits(items[j], cmd)
    BY <2>3, ItemsFit
  <2>5. 1 \in 1 .. Len(LoopsOf(cmd))
    BY <2>2
  <2>6. MeansByItself(LoopsOf(cmd)[1], items[j])
    BY <2>1, <2>4, <2>5 DEF ItemFits
  <2>7. f \in FieldsOf(LoopsOf(cmd)[1])
    <3>1. LoopsOf(cmd)[1] \in Loops
      BY <2>2, <2>5, LoopsAre
    <3>2. items[j].values \in Seq(STRING)
      BY <2>4 DEF ItemFits
    <3>3. QED
      BY <1>1, <2>6, <3>1, <3>2, MeansOfItsLoop
  <2>8. f \in FieldsOf(LoopsOf(cmd)[2])
    <3>1. LoopsOf(cmd)[2] \in Loops
      <4>1. 2 \in 1 .. Len(LoopsOf(cmd))
        BY <2>2
      <4>2. QED
        BY <2>2, <4>1, LoopsAre
    <3>2. items[k + 1].values \in Seq(STRING)
      <4>1. k + 1 \in 1 .. Len(items)
        BY <1>1
      <4>2. items[k + 1] \in Items[cmd]
        BY <4>1 DEF Line
      <4>3. QED
        BY <2>3, <4>2, ItemsFit DEF ItemFits
    <3>3. QED
      BY <2>2, <3>1, <3>2, MeansOfItsLoop
  <2>9. QED
    BY <2>2, <2>7, <2>8, OneLoopEach
<1>4. QED
  BY <1>2, <1>3

\* The loop is at an item of its own.
LEMMA RoundOwn ==
    ASSUME Line, i \in Nat, Round, NEW d, LoopsAfter(d), NEW pos, Layout(pos), NEW k,
           AtItem(pos, k), k < Len(items), Knows(Head(loops), items[k + 1].opt),
           ~Disturbed(Head(loops)), ReadSoFar(d, k)
    PROVE  Reading'
<1>1. k \in 0 .. Len(items) /\ Len(items) \in Nat /\ Len(argv) \in Nat /\ k \in Nat
  BY LenNat DEF AtItem, Line
<1>2. PICK it : it = items[k + 1]
  OBVIOUS
<1>3. /\ ItemFits(it, cmd) /\ Len(it.values) \in Nat /\ pos[k + 1] \in Nat
      /\ pos[k + 2] = pos[k + 1] + 1 + Len(it.values) /\ pos[k + 2] <= Len(argv) + 1
      /\ it.dangling => pos[k + 2] = Len(argv) + 1
      /\ argv[pos[k + 1]] = it.opt
      /\ \A m \in 1 .. Len(it.values) : argv[pos[k + 1] + m] = it.values[m]
  <2>1. AtPlace(pos, k, it)
    BY <1>1, <1>2, Placed
  <2>2. QED
    BY <2>1, Zenon DEF AtPlace
<1>4. /\ d \in {0, 1} /\ d + 1 \in 1 .. Len(LoopsOf(cmd))
      /\ Head(loops) = LoopsOf(cmd)[d + 1]
  BY TheLoop
<1>5. MeansByItself(Head(loops), it)
  BY <1>2, <1>3, <1>4 DEF ItemFits
<1>6. PICK v \in Nat : v = Len(it.values)
  BY <1>3
<1>7. i = pos[k + 1]
  BY DEF AtItem
<1>8. i + v <= Len(argv) /\ (it.dangling => i + v = Len(argv)) /\ pos[k + 2] = i + 1 + v
  <2>1. PICK p2 : p2 = pos[k + 2]
    OBVIOUS
  <2>2. p2 = i + 1 + v /\ p2 <= Len(argv) + 1 /\ (it.dangling => p2 = Len(argv) + 1)
    BY <1>3, <1>6, <1>7, <2>1
  <2>3. i + v <= Len(argv) /\ (p2 = Len(argv) + 1 => i + v = Len(argv))
    BY <1>1, <2>2
  <2>4. QED
    BY <2>1, <2>2, <2>3
<1>9. /\ i' = pos[k + 2]
      /\ \A f \in Fields \ it.broken :
             opts'[f] = IF f \in DOMAIN it.means THEN it.means[f] ELSE opts[f]
  <2>1. argv[i] = it.opt /\ \A m \in 1 .. v : argv[i + m] = it.values[m]
    BY <1>3, <1>6, <1>7
  <2>2. QED
    BY <1>1, <1>5, <1>6, <1>8, <2>1, TakeOwn
<1>10. UNCHANGED <<cmd, exe, items, argv, loops>>
  BY DEF Round
<1>11. LoopsAfter(d)' /\ ~Disturbed(Head(loops))'
  BY <1>10 DEF LoopsAfter, Disturbed
<1>12. AtItem(pos, k + 1)'
  <2>1. k + 1 \in 0 .. Len(items) /\ k + 1 + 1 = k + 2
    BY <1>1
  <2>2. QED
    BY <1>9, <1>10, <2>1 DEF AtItem
<1>13. ReadBy(d, k + 1) = ReadBy(d, k) \cup {k + 1}
  <2>1. \A j \in 1 .. Len(items) : j <= k + 1 <=> (j <= k \/ j = k + 1)
    BY <1>1
  <2>2. k + 1 \in 1 .. Len(items) /\ k + 1 <= k + 1
    BY <1>1
  <2>3. QED
    BY <1>4, <2>1, <2>2 DEF ReadBy
<1>14. ASSUME NEW f \in Fields, Sound(f) PROVE opts'[f] = LastAbout(f, ReadBy(d, k + 1))
  <2>1. ReadBy(d, k) \in SUBSET Nat /\ k + 1 \in Nat
    BY <1>1 DEF ReadBy
  <2>2. f \in DOMAIN items[k + 1].means => \A j \in About(f, ReadBy(d, k)) : j < k + 1
    BY <1>1, <1>2, <1>5, EarlierItems
  <2>3. LastAbout(f, ReadBy(d, k + 1)) = IF f \in DOMAIN items[k + 1].means
                                         THEN items[k + 1].means[f]
                                         ELSE LastAbout(f, ReadBy(d, k))
    BY <1>13, <2>1, <2>2, LastNew
  <2>4. f \notin it.broken
    <3>1. k + 1 \in DOMAIN items
      <4>1. DOMAIN items = 1 .. Len(items)
        BY DEF Line
      <4>2. QED
        BY <1>1, <4>1
    <3>2. QED
      BY <1>2, <1>14, <3>1 DEF Sound, Broken
  <2>5. opts[f] = LastAbout(f, ReadBy(d, k))
    BY <1>14 DEF ReadSoFar
  <2>6. QED
    BY <1>2, <1>9, <2>3, <2>4, <2>5
<1>15. QED
  BY <1>10, <1>11, <1>12, <1>14, ReadsOn

\* Whatever a disturbed loop takes, it fills none of the sound fields.
LEMMA RoundDisturbed ==
    ASSUME Line, Round, NEW d, LoopsAfter(d), NEW pos, Layout(pos),
           Disturbed(Head(loops)), ReadSoFar(d, 0), i \in Nat
    PROVE  Reading'
<1>1. /\ d \in {0, 1} /\ d + 1 \in 1 .. Len(LoopsOf(cmd)) /\ cmd \in Commands
      /\ Head(loops) = LoopsOf(cmd)[d + 1]
  BY TheLoop
<1>2. Head(loops) \in Loops
  BY <1>1, LoopsAre
<1>3. UNCHANGED <<cmd, exe, items, argv, loops>>
  BY DEF Round
<1>4. ASSUME NEW f \in Fields, Sound(f) PROVE opts'[f] = opts[f]
  <2> DEFINE fs == Takes(Head(loops), argv[i])
             set == Sets(Head(loops), argv[i])
  <2>1. f \notin FieldsOf(Head(loops))
    BY <1>1, <1>4, OwnLoop
  <2>2. /\ \A m \in 1 .. Len(fs) : fs[m] # f
        /\ set # << >> => set[1] # f
    BY <1>2, <2>1, Arms
  <2>3. \A m \in 1 .. Taken(fs) : m \in 1 .. Len(fs)
    <3>1. PICK L \in Nat : L = Len(fs)
      <4>1. Len(fs) \in 0 .. 2
        BY TakesAtMostTwo
      <4>2. 0 .. 2 \subseteq Nat
        OBVIOUS
      <4>3. QED
        BY <4>1, <4>2, Zenon
    <3>2. PICK a \in Nat : a = Len(argv)
      BY LenNat DEF Line
    <3>3. Taken(fs) = IF L <= a - i THEN L ELSE a - i
      BY <3>1, <3>2 DEF Taken
    <3> HIDE DEF fs
    <3>4. QED
      BY <3>1, <3>2, <3>3
  <2>4. opts'[f] = IF \E m \in 1 .. Taken(fs) : fs[m] = f
                   THEN Parse(f, argv[i + CHOOSE m \in 1 .. Taken(fs) : fs[m] = f])
                   ELSE IF set # << >> /\ set[1] = f THEN set[2]
                   ELSE opts[f]
    BY DEF Round
  <2> HIDE DEF fs, set
  <2>5. QED
    BY <2>2, <2>3, <2>4
<1>5. LoopsAfter(d)' /\ Disturbed(Head(loops))'
  BY <1>3 DEF LoopsAfter, Disturbed
<1>6. \A f \in Fields : Sound(f) => opts'[f] = LastAbout(f, ReadBy(d, 0))
  BY <1>4 DEF ReadSoFar
<1>7. QED
  BY <1>3, <1>5, <1>6, ReadsOn

LEMMA RoundOInv == OInv /\ Round => OInv'
<1> SUFFICES ASSUME OInv, Round PROVE OInv'
  OBVIOUS
<1>1. Line /\ i \in Nat /\ Reading /\ i <= Len(argv) /\ oexit = Running /\ i > 0
  BY DEF OInv, Round, Parsing
<1>2. UNCHANGED <<cmd, exe, items, argv, loops, oexit>>
  BY DEF Round
<1>3. PICK d, pos : /\ LoopsAfter(d) /\ Layout(pos)
                    /\ \/ Disturbed(Head(loops)) /\ ReadSoFar(d, 0)
                       \/ /\ ~Disturbed(Head(loops))
                          /\ \E k : AtItem(pos, k) /\ ReadSoFar(d, k)
  BY <1>1, Zenon DEF Reading
<1>4. ASSUME Disturbed(Head(loops)) PROVE Reading'
  BY <1>1, <1>3, <1>4, RoundDisturbed, Zenon
<1>5. ASSUME ~Disturbed(Head(loops)) PROVE Reading'
  <2>1. PICK k : AtItem(pos, k) /\ ReadSoFar(d, k)
    BY <1>3, <1>5
  <2>2. k < Len(items)
    <3>1. k \in 0 .. Len(items) /\ Len(items) \in Nat /\ Len(argv) \in Nat
      BY <1>1, <2>1, LenNat DEF AtItem, Line
    <3>2. CASE k = Len(items)
      <4>1. i = pos[Len(items) + 1]
        BY <2>1, <3>2 DEF AtItem
      <4>2. pos[Len(items) + 1] = Len(argv) + 1
        BY <1>3 DEF Layout, Lays
      <4>3. QED
        BY <1>1, <3>1, <4>1, <4>2
    <3>3. QED
      BY <3>1, <3>2
  <2>3. QED
    BY <1>1, <1>3, <1>5, <2>1, <2>2, RoundForeign, RoundOwn, Zenon
<1>6. i' \in Nat /\ i' # 0
  <2>1. PICK L \in Nat : L = Len(Takes(Head(loops), argv[i]))
    <3>1. Len(Takes(Head(loops), argv[i])) \in 0 .. 2
      BY TakesAtMostTwo
    <3>2. 0 .. 2 \subseteq Nat
      OBVIOUS
    <3>3. QED
      BY <3>1, <3>2, Zenon
  <2>2. i' = i + 1 + IF L <= Len(argv) - i THEN L ELSE Len(argv) - i
    BY <2>1 DEF Round, NextIndex, Taken
  <2>3. PICK a \in Nat : a = Len(argv)
    BY <1>1, LenNat DEF Line
  <2>4. i \in Nat /\ i <= a /\ i > 0
    BY <1>1, <2>3
  <2>5. i' = i + 1 + L \/ i' = i + 1 + (a - i)
    BY <2>2, <2>3
  <2>6. QED
    BY <2>4, <2>5
<1>7. Line'
  BY <1>1, <1>2, SameLine
<1>8. QED
  BY <1>1, <1>2, <1>4, <1>5, <1>6, <1>7 DEF OInv, LastOccurrenceWins, Running, Success

-----------------------------------------------------------------------------
(* The end of a loop.                                                      *)

\* A loop that has gone through the tokens has read every item.
LEMMA AllRead ==
    ASSUME Line, i \in Nat, i > Len(argv), NEW pos, Layout(pos), NEW k, AtItem(pos, k)
    PROVE  k = Len(items)
<1>1. k \in 0 .. Len(items) /\ Len(items) \in Nat /\ Len(argv) \in Nat /\ k \in Nat
  BY LenNat DEF AtItem, Line
<1>2. CASE k < Len(items)
  <2>1. k + 1 \in 1 .. Len(items) + 1 /\ k + 1 <= Len(items) /\ k + 2 \in 1 .. Len(items) + 1
    BY <1>1, <1>2
  <2>2. items \in Seq(Items[cmd]) /\ argv \in Seq(Tokens)
    BY DEF Line
  <2>3. pos[k + 1] <= Len(argv) /\ pos[k + 2] <= Len(argv) + 1 /\ pos[k + 2] \in Nat
    BY <2>1, <2>2, Between
  <2>4. i = pos[k + 1] \/ i < pos[k + 2]
    BY DEF AtItem
  <2>5. QED
    BY <1>1, <2>3, <2>4
<1>3. QED
  BY <1>1, <1>2

\* The items that are left out mean nothing.
LEMMA ReadByAll ==
    ASSUME Line, NEW d, LoopsAfter(d), Len(loops) <= 1, NEW f
    PROVE  LastAbout(f, ReadBy(d, Len(items))) = Meant(f)
<1>1. /\ d \in {0, 1} /\ d + 1 \in 1 .. Len(LoopsOf(cmd)) /\ cmd \in Commands
      /\ Head(loops) = LoopsOf(cmd)[d + 1]
  BY TheLoop
<1>2. Len(LoopsOf(cmd)) = d + 1
  <2>1. PICK m \in {1, 2} : m = Len(LoopsOf(cmd))
    BY <1>1, CommandsAre
  <2>2. (d = 0 /\ m <= 1) \/ (d = 1 /\ m = 2)
    BY <2>1 DEF LoopsAfter
  <2>3. QED
    BY <2>1, <2>2
<1>3. /\ items \in Seq(Items[cmd]) /\ cmd \in DOMAIN Items /\ Len(items) \in Nat
      /\ DOMAIN items = 1 .. Len(items)
  BY DEF Line
<1>4. ASSUME NEW j \in 1 .. Len(items), f \in DOMAIN items[j].means
      PROVE  j \in ReadBy(d, Len(items))
  <2>1. ItemFits(items[j], cmd)
    <3>1. items[j] \in Items[cmd]
      BY <1>3
    <3>2. QED
      BY <1>3, <3>1, ItemsFit
  <2>2. PICK l \in 1 .. Len(LoopsOf(cmd)) : Knows(LoopsOf(cmd)[l], items[j].opt)
    <3>1. DOMAIN items[j].means # {}
      BY <1>4
    <3>2. QED
      BY <2>1, <3>1, Zenon DEF ItemFits
  <2>3. l = d + 1 \/ (d = 1 /\ l = 1)
    BY <1>1, <1>2
  <2>4. j <= Len(items)
    BY <1>3
  <2>5. QED
    BY <2>2, <2>3, <2>4 DEF ReadBy
<1>5. About(f, ReadBy(d, Len(items))) = {k \in DOMAIN items : f \in DOMAIN items[k].means}
  <2>1. ReadBy(d, Len(items)) \subseteq 1 .. Len(items)
    BY DEF ReadBy
  <2>2. QED
    BY <1>3, <1>4, <2>1 DEF About
<1>6. Meant(f) = LastOf(f, {k \in DOMAIN items : f \in DOMAIN items[k].means})
  BY Zenon DEF Meant, LastOf
<1>7. QED
  BY <1>5, <1>6, Zenon DEF LastAbout

LEMMA LoopEndsOInv == OInv /\ LoopEnds => OInv'
<1> SUFFICES ASSUME OInv, LoopEnds PROVE OInv'
  OBVIOUS
<1>1. Line /\ i \in Nat /\ Reading /\ i > Len(argv) /\ oexit = Running /\ i > 0
  BY DEF OInv, LoopEnds, Parsing
<1>2. UNCHANGED <<cmd, exe, items, argv, opts>> /\ loops' = Tail(loops)
  BY DEF LoopEnds
<1>3. PICK d, pos : /\ LoopsAfter(d) /\ Layout(pos)
                    /\ \/ Disturbed(Head(loops)) /\ ReadSoFar(d, 0)
                       \/ /\ ~Disturbed(Head(loops))
                          /\ \E k : AtItem(pos, k) /\ ReadSoFar(d, k)
  BY <1>1, Zenon DEF Reading
<1>4. Len(items) \in Nat /\ ReadSoFar(d, Len(items))
  <2>1. Len(items) \in Nat
    BY <1>1, LenNat DEF Line
  <2>2. CASE Disturbed(Head(loops))
    BY <1>1, <1>3, <2>2, Outside DEF ReadSoFar
  <2>3. CASE ~Disturbed(Head(loops))
    BY <1>1, <1>3, <2>3, AllRead
  <2>4. QED
    BY <2>1, <2>2, <2>3
<1>5. Line'
  BY <1>1, <1>2, SameLine
<1>6. CASE Len(loops) > 1
  <2>1. i' = 2 /\ oexit' = Running
    BY <1>1, <1>6 DEF LoopEnds
  <2>2. cmd \in Commands
    BY <1>1, <1>3, TheLoop
  <2>3. d = 0 /\ loops = LoopsOf(cmd) /\ Len(LoopsOf(cmd)) = 2 /\ cmd # "git-shim"
    <3>1. d = 0 /\ loops = LoopsOf(cmd)
      BY <1>3, <1>6 DEF LoopsAfter
    <3>2. PICK m \in {1, 2} : m = Len(LoopsOf(cmd))
      BY <2>2, CommandsAre
    <3>3. Len(LoopsOf(cmd)) = 2
      <4>1. m > 1
        BY <1>6, <3>1, <3>2
      <4>2. QED
        BY <3>2, <4>1
    <3>4. LoopsOf("git-shim") = <<"shim">>
      BY DEF LoopsOf
    <3>5. QED
      BY <3>1, <3>3, <3>4
  <2>4. loops' = <<LoopsOf(cmd)[2]>>
    <3>1. \A a : Len(<<a>>) = 1
      OBVIOUS
    <3>2. \E a, b : LoopsOf(cmd) = <<a, b>>
      BY <2>2, <2>3, <3>1, CommandsAre
    <3>3. \A a, b : Tail(<<a, b>>) = <<b>> /\ <<a, b>>[2] = b
      OBVIOUS
    <3>4. QED
      BY <1>2, <2>3, <3>2, <3>3
  <2>5. LoopsAfter(1)'
    BY <1>2, <2>3, <2>4 DEF LoopsAfter
  <2>6. AtItem(pos, 0)'
    <3>1. pos[1] = 2
      BY <1>3, <2>3 DEF Layout
    <3>2. 0 \in 0 .. Len(items) /\ 0 + 1 = 1
      BY <1>4
    <3>3. QED
      BY <1>2, <2>1, <3>1, <3>2 DEF AtItem
  <2>7. ReadBy(1, 0) = ReadBy(0, Len(items))
    <3>1. \A j \in 1 .. Len(items) : j <= Len(items) /\ ~(j <= 0)
      BY <1>4
    <3>2. 0 # 1 /\ 0 + 1 = 1
      OBVIOUS
    <3>3. QED
      BY <3>1, <3>2 DEF ReadBy
  <2>8. \A f \in Fields : Sound(f) => opts'[f] = LastAbout(f, ReadBy(1, 0))
    BY <1>2, <1>4, <2>3, <2>7 DEF ReadSoFar
  <2>9. Reading'
    BY <1>2, <1>3, <2>5, <2>6, <2>8, ReadsOn
  <2>10. QED
    BY <1>5, <2>1, <2>9 DEF OInv, LastOccurrenceWins, Running, Success
<1>7. CASE ~(Len(loops) > 1)
  <2>1. oexit' \in {UsageError, Success} /\ i' = i
    BY <1>7 DEF LoopEnds
  <2>2. Len(loops) <= 1
    <3>1. cmd \in Commands
      BY <1>1, <1>3, TheLoop
    <3>2. Len(loops) \in {1, 2}
      BY <1>3, <3>1, CommandsAre DEF LoopsAfter
    <3>3. QED
      BY <1>7, <3>2
  <2>3. \A f \in Fields : Sound(f) => opts[f] = Meant(f)
    BY <1>1, <1>3, <1>4, <2>2, ReadByAll DEF ReadSoFar
  <2>4. \A f \in Fields : Meant(f)' = Meant(f) /\ Sound(f)' = Sound(f)
    BY <1>2, SameLine DEF Meant
  <2>5. LastOccurrenceWins'
    BY <1>2, <2>3, <2>4 DEF LastOccurrenceWins
  <2>6. QED
    BY <1>1, <1>5, <2>1, <2>5 DEF OInv, Parsing, Running, UsageError, Success
<1>8. QED
  BY <1>6, <1>7

-----------------------------------------------------------------------------

LEMMA StutterOInv == OInv /\ UNCHANGED optionVars => OInv'
<1> SUFFICES ASSUME OInv, UNCHANGED optionVars PROVE OInv'
  OBVIOUS
<1>1. UNCHANGED <<cmd, exe, items, argv, loops, i, opts, oexit>>
  BY DEF optionVars
<1>2. Line'
  BY <1>1, SameLine DEF OInv
<1>3. ASSUME Parsing PROVE Reading'
  <2>1. PICK d, pos : /\ LoopsAfter(d) /\ Layout(pos)
                      /\ \/ Disturbed(Head(loops)) /\ ReadSoFar(d, 0)
                         \/ /\ ~Disturbed(Head(loops))
                            /\ \E k : AtItem(pos, k) /\ ReadSoFar(d, k)
    BY <1>3, Zenon DEF OInv, Reading
  <2>2. LoopsAfter(d)' /\ (\A k : AtItem(pos, k)' = AtItem(pos, k))
        /\ Disturbed(Head(loops))' = Disturbed(Head(loops))
    BY <1>1, <2>1 DEF LoopsAfter, AtItem, Disturbed
  <2>3. \A k : ReadSoFar(d, k) => \A f \in Fields : Sound(f) => opts'[f] = LastAbout(f, ReadBy(d, k))
    BY <1>1 DEF ReadSoFar
  <2>4. QED
    BY <1>1, <2>1, <2>2, <2>3, ReadsOn
<1>4. Parsing' = Parsing
  BY <1>1 DEF Parsing
<1>5. LastOccurrenceWins'
  <2>1. \A f : Sound(f)' = Sound(f) /\ Meant(f)' = Meant(f)
    BY <1>1, SameLine DEF Meant
  <2>2. QED
    BY <1>1, <2>1 DEF OInv, LastOccurrenceWins
<1>6. QED
  BY <1>1, <1>2, <1>3, <1>4, <1>5 DEF OInv

\* On a line of any number of items, a command goes on with the options that a
\* reading of the line item by item gives, the last occurrence of each: for every
\* option that is given validly and whose loop finds no option of its own among the
\* values of the other loop's options.  What an option gets that is not so given is
\* AsWritten's and InvalidRefused's question, and the code's answer is no.
THEOREM LastOccurrenceCorrect == OptionSpec => []LastOccurrenceWins
<1>1. OInv /\ [OptionNext]_optionVars => OInv'
  BY WriteItemOInv, DispatchOInv, RoundOInv, LoopEndsOInv, StutterOInv DEF OptionNext
<1>2. OInv => LastOccurrenceWins
  BY DEF OInv
<1>3. QED
  BY InitOInv, <1>1, <1>2, PTL DEF OptionSpec
=============================================================================
