-------------------------- MODULE SignatureProofs --------------------------
(***************************************************************************)
(* Lemmas about Signature: what the loops over the lines of an armored     *)
(* file compute.  The state of a loop is a recursive function of the line  *)
(* number; that such a function exists is shown by induction, from the     *)
(* well-foundedness of < on the naturals.                                  *)
(***************************************************************************)
EXTENDS Signature, WellFoundedInduction, TLAPS

\* A set of naturals that is not empty has a least element.
LEMMA MinExists ==
    ASSUME NEW T, T \subseteq Nat, T # {}
    PROVE  \E x \in T : \A y \in T : x <= y
<1> DEFINE R == OpToRel(<, Nat)
<1>1. IsWellFoundedOn(R, Nat)
  BY NatLessThanWellFounded
<1>2. \A x, y \in Nat : y < x => <<y, x>> \in R
  BY DEF OpToRel
<1> HIDE DEF R
<1>3. PICK x \in T : \A y \in T : ~(<<y, x>> \in R)
  BY <1>1, WFMin
<1>4. \A y \in T : y \in Nat /\ x \in Nat /\ ~(y < x)
  BY <1>2, <1>3
<1>5. \A y \in T : x <= y
  BY <1>4
<1>6. QED
  BY <1>3, <1>5

\* Induction, for a property that is given as a set.
LEMMA SetInduction ==
    ASSUME NEW S, 0 \in S, \A n \in Nat : n \in S => n + 1 \in S
    PROVE  \A n \in Nat : n \in S
<1> DEFINE T == {n \in Nat : n \notin S}
<1> SUFFICES ASSUME T # {} PROVE FALSE
  OBVIOUS
<1>1. PICK x \in T : \A y \in T : x <= y
  BY MinExists
<1>2. x # 0 /\ x - 1 \in Nat
  OBVIOUS
<1>3. x - 1 \notin T
  BY <1>1
<1>4. x - 1 \in S
  BY <1>2, <1>3
<1>5. (x - 1) + 1 \in S
  BY <1>2, <1>4
<1>6. QED
  BY <1>5

-----------------------------------------------------------------------------

DetachStart == [capture |-> FALSE, done |-> FALSE, b64 |-> << >>]

\* f is what the loop computes on the first n lines.
IsDetach(f, lines, n) ==
    f = [i \in 0 .. n |-> IF i = 0 THEN DetachStart
                          ELSE DetachLine(f[i - 1], lines[i])]

LEMMA DetachStepsDef ==
    ASSUME NEW lines, Len(lines) \in Nat
    PROVE  IsDetach(DetachSteps(lines), lines, Len(lines))
<1> DEFINE S == {n \in Nat : \E f : IsDetach(f, lines, n)}
<1>1. 0 \in S
  <2> DEFINE f == [i \in 0 .. 0 |-> DetachStart]
  <2>1. IsDetach(f, lines, 0)
    BY DEF IsDetach
  <2>2. QED
    BY <2>1
<1>2. ASSUME NEW n \in Nat, n \in S PROVE n + 1 \in S
  <2>1. PICK f : IsDetach(f, lines, n)
    BY <1>2
  <2> DEFINE g == [i \in 0 .. n + 1 |->
                       IF i = n + 1 THEN DetachLine(f[n], lines[n + 1]) ELSE f[i]]
  <2>2. \A i \in 0 .. n + 1 :
            g[i] = IF i = 0 THEN DetachStart ELSE DetachLine(g[i - 1], lines[i])
    BY <2>1 DEF IsDetach
  <2>3. IsDetach(g, lines, n + 1)
    BY <2>2 DEF IsDetach
  <2>4. QED
    BY <2>3
<1>3. Len(lines) \in S
  <2> HIDE DEF S
  <2>1. QED
    BY <1>1, <1>2, SetInduction
<1>4. PICK f : IsDetach(f, lines, Len(lines))
  BY <1>3
<1>5. QED
  BY <1>4 DEF IsDetach, DetachSteps, DetachStart

-----------------------------------------------------------------------------

\* The numbers of the lines that were collected of the first n.
Numbers(at, b64, lines, n) ==
    /\ at \in [1 .. Len(b64) -> 1 .. n]
    /\ \A j, k \in 1 .. Len(b64) : j < k => at[j] < at[k]
    /\ \A i \in 1 .. n : InArmor(lines, i) <=> \E k \in 1 .. Len(b64) : at[k] = i
    /\ \A k \in 1 .. Len(b64) : b64[k] = lines[at[k]]

\* The loop after n lines.
LoopInv(s, lines, n) ==
    /\ s \in [capture : BOOLEAN, done : BOOLEAN,
               b64 : Seq({lines[i] : i \in 1 .. Len(lines)})]
    /\ s.done <=> \E e \in 1 .. n : lines[e] = End
    /\ ~s.done => (s.capture <=> \E b \in 1 .. n : lines[b] = Begin)
    /\ \E at : Numbers(at, s.b64, lines, n)

LEMMA Kinds ==
    ASSUME NEW line, IsLine(line)
    PROVE  /\ line # Begin /\ line # End =>
                  (line.kind \notin {"blank", "colon"} <=> line.kind \in {"base64", "junk"})
           /\ line \in {Begin, End} => line.kind \notin {"base64", "junk"}
           /\ Begin # End
  BY DEF IsLine, Begin, End, Blank, Colon, Junk, Base64, Line

LEMMA LoopStep ==
    ASSUME NEW lines, IsText(lines), NEW n \in Nat, n + 1 <= Len(lines),
           NEW s, LoopInv(s, lines, n)
    PROVE  LoopInv(DetachLine(s, lines[n + 1]), lines, n + 1)
<1> DEFINE L == {lines[i] : i \in 1 .. Len(lines)}
           line == lines[n + 1]
           t == DetachLine(s, line)
<1>1. Len(lines) \in Nat /\ n + 1 \in 1 .. Len(lines) /\ line \in L /\ IsLine(line)
  BY DEF IsText
<1>2. s \in [capture : BOOLEAN, done : BOOLEAN, b64 : Seq(L)]
  BY DEF LoopInv
<1>3. PICK at : Numbers(at, s.b64, lines, n)
  BY DEF LoopInv
<1>4. Len(s.b64) \in Nat
  BY <1>2
<1> DEFINE Kept == \E f : Numbers(f, s.b64, lines, n + 1)
<1>5. ASSUME ~InArmor(lines, n + 1) PROVE Kept
  <2>1. at \in [1 .. Len(s.b64) -> 1 .. n + 1]
    BY <1>3, <1>4 DEF Numbers
  <2>2. \A k \in 1 .. Len(s.b64) : at[k] \in 1 .. n
    BY <1>3 DEF Numbers
  <2>3. \A i \in 1 .. n + 1 : InArmor(lines, i) <=> \E k \in 1 .. Len(s.b64) : at[k] = i
    <3> SUFFICES ASSUME NEW i \in 1 .. n + 1
                 PROVE  InArmor(lines, i) <=> \E k \in 1 .. Len(s.b64) : at[k] = i
      OBVIOUS
    <3>1. CASE i = n + 1
      BY <3>1, <2>2, <1>5
    <3>2. CASE i # n + 1
      BY <3>2, <1>3 DEF Numbers
    <3>3. QED
      BY <3>1, <3>2
  <2>4. Numbers(at, s.b64, lines, n + 1)
    BY <2>1, <2>3, <1>3 DEF Numbers
  <2>5. QED
    BY <2>4
<1> HIDE DEF L
<1>6. CASE s.done
  <2>1. t = s
    BY <1>6 DEF DetachLine
  <2>2. \E e \in 1 .. n : lines[e] = End
    BY <1>6 DEF LoopInv
  <2>3. ~InArmor(lines, n + 1)
    BY <2>2 DEF InArmor
  <2>4. \E e \in 1 .. n + 1 : lines[e] = End
    BY <2>2
  <2>5. QED
    BY <2>1, <2>3, <2>4, <1>2, <1>5, <1>6 DEF LoopInv, L
<1>7. CASE ~s.done
  <2>1. ~ \E e \in 1 .. n : lines[e] = End
    BY <1>7 DEF LoopInv
  <2>2. s.capture <=> \E b \in 1 .. n : lines[b] = Begin
    BY <1>7 DEF LoopInv
  <2>3. InArmor(lines, n + 1) <=> s.capture /\ line.kind \in {"base64", "junk"}
    BY <2>1, <2>2 DEF InArmor
  <2>4. (\E e \in 1 .. n + 1 : lines[e] = End) <=> line = End
    BY <2>1
  <2>5. (\E b \in 1 .. n + 1 : lines[b] = Begin) <=> s.capture \/ line = Begin
    BY <2>2
  <2>6. CASE line = Begin
    <3>1. t = [s EXCEPT !.capture = TRUE]
      BY <2>6, <1>7 DEF DetachLine
    <3>2. Kept
      BY <1>5, <2>3, <2>6, <1>1, Kinds
    <3>3. line # End
      BY <2>6, <1>1, Kinds
    <3>4. /\ t \in [capture : BOOLEAN, done : BOOLEAN, b64 : Seq(L)]
          /\ t.capture = TRUE /\ t.done = s.done /\ t.b64 = s.b64
      BY <3>1, <1>2
    <3>5. QED
      BY <3>2, <3>3, <3>4, <2>4, <2>5, <2>6, <1>7 DEF LoopInv, L
  <2>7. CASE line = End
    <3>1. t = [s EXCEPT !.done = TRUE]
      BY <2>7, <1>7, <1>1, Kinds DEF DetachLine
    <3>2. Kept
      BY <1>5, <2>3, <2>7, <1>1, Kinds
    <3>4. /\ t \in [capture : BOOLEAN, done : BOOLEAN, b64 : Seq(L)]
          /\ t.done = TRUE /\ t.b64 = s.b64
      BY <3>1, <1>2
    <3>5. QED
      BY <3>2, <3>4, <2>4, <2>7 DEF LoopInv, L
  <2>8. CASE line # Begin /\ line # End /\ InArmor(lines, n + 1)
    <3>1. t = [s EXCEPT !.b64 = Append(s.b64, line)]
      BY <2>8, <2>3, <1>7, <1>1, Kinds DEF DetachLine
    <3>2. /\ t \in [capture : BOOLEAN, done : BOOLEAN, b64 : Seq(L)]
          /\ t.done = s.done /\ t.capture = s.capture /\ t.b64 = Append(s.b64, line)
      BY <3>1, <1>1, <1>2
    <3> DEFINE l == Len(s.b64)
               b == t.b64
               f == [k \in 1 .. l + 1 |-> IF k = l + 1 THEN n + 1 ELSE at[k]]
    <3>3. /\ Len(b) = l + 1 /\ b[l + 1] = line
          /\ \A k \in 1 .. l : b[k] = s.b64[k]
      BY <3>2, <1>1, <1>2
    <3>4. /\ at \in [1 .. l -> 1 .. n]
          /\ \A j, k \in 1 .. l : j < k => at[j] < at[k]
          /\ \A i \in 1 .. n : InArmor(lines, i) <=> \E k \in 1 .. l : at[k] = i
          /\ \A k \in 1 .. l : s.b64[k] = lines[at[k]]
      BY <1>3 DEF Numbers
    <3>5. l \in Nat
      BY <1>4
    <3> HIDE DEF l, b
    <3>6. f \in [1 .. l + 1 -> 1 .. n + 1]
      BY <3>4, <3>5
    <3>7. \A k \in 1 .. l : f[k] = at[k] /\ f[k] \in 1 .. n
      BY <3>4, <3>5
    <3>8. f[l + 1] = n + 1 /\ \A k \in 1 .. l + 1 : k \in 1 .. l \/ k = l + 1
      BY <3>5
    <3> HIDE DEF f
    <3>9. \A j, k \in 1 .. l + 1 : j < k => f[j] < f[k]
      <4> SUFFICES ASSUME NEW j \in 1 .. l + 1, NEW k \in 1 .. l + 1, j < k
                   PROVE  f[j] < f[k]
        OBVIOUS
      <4>1. j \in 1 .. l
        BY <3>5
      <4>2. CASE k = l + 1
        BY <4>1, <4>2, <3>7, <3>8
      <4>3. CASE k \in 1 .. l
        BY <4>1, <4>3, <3>4, <3>7
      <4>4. QED
        BY <4>2, <4>3, <3>8
    <3>10. \A i \in 1 .. n + 1 : InArmor(lines, i) <=> \E k \in 1 .. l + 1 : f[k] = i
      <4> SUFFICES ASSUME NEW i \in 1 .. n + 1
                   PROVE  InArmor(lines, i) <=> \E k \in 1 .. l + 1 : f[k] = i
        OBVIOUS
      <4>1. CASE i = n + 1
        BY <4>1, <3>5, <3>8, <2>8
      <4>2. CASE i # n + 1
        BY <4>2, <3>4, <3>5, <3>7, <3>8
      <4>3. QED
        BY <4>1, <4>2
    <3>11. \A k \in 1 .. l + 1 : b[k] = lines[f[k]]
      BY <3>3, <3>4, <3>7, <3>8
    <3>12. Numbers(f, b, lines, n + 1)
      BY <3>3, <3>6, <3>9, <3>10, <3>11 DEF Numbers
    <3>13. QED
      BY <3>12, <3>2, <2>4, <2>5, <2>8, <1>7 DEF LoopInv, L, b
  <2>9. CASE line # Begin /\ line # End /\ ~InArmor(lines, n + 1)
    <3>1. t = s
      BY <2>9, <2>3, <1>7, <1>1, Kinds DEF DetachLine
    <3>2. QED
      BY <3>1, <1>2, <1>5, <1>7, <2>4, <2>5, <2>9 DEF LoopInv, L
  <2>10. QED
    BY <2>6, <2>7, <2>8, <2>9
<1>8. QED
  BY <1>6, <1>7

LEMMA LoopInvariance ==
    ASSUME NEW lines, IsText(lines)
    PROVE  LoopInv(DetachSteps(lines)[Len(lines)], lines, Len(lines))
<1> DEFINE St == DetachSteps(lines)
           S == {n \in Nat : n <= Len(lines) => LoopInv(St[n], lines, n)}
<1>1. Len(lines) \in Nat
  BY DEF IsText
<1>2. IsDetach(St, lines, Len(lines))
  BY <1>1, DetachStepsDef
<1> HIDE DEF St
<1>3. St[0] = DetachStart
  BY <1>1, <1>2 DEF IsDetach
<1>4. \A n \in Nat : n + 1 <= Len(lines) => St[n + 1] = DetachLine(St[n], lines[n + 1])
  BY <1>1, <1>2 DEF IsDetach
<1>5. 0 \in S
  <2>1. DetachStart \in [capture : BOOLEAN, done : BOOLEAN,
                         b64 : Seq({lines[i] : i \in 1 .. Len(lines)})]
    BY DEF DetachStart
  <2>2. DetachStart.done = FALSE /\ DetachStart.capture = FALSE /\ DetachStart.b64 = << >>
    BY DEF DetachStart
  <2>3. Numbers(<< >>, << >>, lines, 0)
    BY DEF Numbers
  <2>4. QED
    BY <1>3, <2>1, <2>2, <2>3 DEF LoopInv
<1>6. ASSUME NEW n \in Nat, n \in S PROVE n + 1 \in S
  <2> SUFFICES ASSUME n + 1 <= Len(lines) PROVE LoopInv(St[n + 1], lines, n + 1)
    OBVIOUS
  <2>1. LoopInv(St[n], lines, n)
    BY <1>1, <1>6
  <2>2. QED
    BY <2>1, <1>4, LoopStep
<1>7. Len(lines) \in S
  <2> HIDE DEF S
  <2>1. QED
    BY <1>1, <1>5, <1>6, SetInduction
<1>8. QED
  BY <1>7 DEF St

\* The data lines come out of the loop, in their order, and no other lines.
LEMMA CapturedCorrect ==
    ASSUME NEW lines, IsText(lines)
    PROVE  /\ Captured(lines) \in Seq({lines[i] : i \in 1 .. Len(lines)})
           /\ \E at \in [1 .. Len(Captured(lines)) -> 1 .. Len(lines)] :
                  AreArmored(Captured(lines), at, lines)
<1> DEFINE s == DetachSteps(lines)[Len(lines)]
           c == Captured(lines)
<1>1. LoopInv(s, lines, Len(lines))
  BY LoopInvariance
<1>2. c = s.b64
  BY DEF Captured
<1> HIDE DEF s, c
<1>3. PICK at : Numbers(at, c, lines, Len(lines))
  BY <1>1, <1>2 DEF LoopInv
<1>4. c \in Seq({lines[i] : i \in 1 .. Len(lines)})
  BY <1>1, <1>2 DEF LoopInv
<1>5. at \in [1 .. Len(c) -> 1 .. Len(lines)] /\ DOMAIN at = 1 .. Len(c)
  BY <1>3 DEF Numbers
<1>6. {at[k] : k \in DOMAIN at} = {i \in 1 .. Len(lines) : InArmor(lines, i)}
  BY <1>3, <1>5 DEF Numbers
<1>7. AreArmored(c, at, lines)
  BY <1>3, <1>5, <1>6 DEF Numbers, AreArmored
<1>8. QED
  BY <1>4, <1>5, <1>7 DEF c

\* One data line, or two: what is collected.
LEMMA OneCaptured ==
    ASSUME NEW lines, IsText(lines), NEW d \in 1 .. Len(lines),
           \A i \in 1 .. Len(lines) : InArmor(lines, i) <=> i = d
    PROVE  Captured(lines) = <<lines[d]>>
<1> DEFINE c == Captured(lines)
           l == Len(c)
<1>1. PICK at \in [1 .. l -> 1 .. Len(lines)] : AreArmored(c, at, lines)
  BY CapturedCorrect
<1>2. c \in Seq({lines[i] : i \in 1 .. Len(lines)})
  BY CapturedCorrect
<1> HIDE DEF c
<1>3. l \in Nat
  BY <1>2
<1>4. \A k \in 1 .. l : at[k] = d
  BY <1>1 DEF AreArmored
<1>5. \E k \in 1 .. l : at[k] = d
  BY <1>1 DEF AreArmored
<1> HIDE DEF l
<1>6. ~(l >= 2)
  <2> SUFFICES ASSUME l >= 2 PROVE FALSE
    OBVIOUS
  <2>1. 1 \in 1 .. l /\ 2 \in 1 .. l
    BY <1>3
  <2>2. at[1] < at[2]
    BY <2>1, <1>1 DEF AreArmored
  <2>3. QED
    BY <2>1, <2>2, <1>4
<1>7. l = 1
  BY <1>3, <1>5, <1>6
<1>8. c[1] = lines[d]
  BY <1>1, <1>4, <1>7 DEF AreArmored
<1>9. QED
  BY <1>2, <1>7, <1>8 DEF c, l

LEMMA TwoCaptured ==
    ASSUME NEW lines, IsText(lines), NEW d \in 1 .. Len(lines),
           NEW e \in 1 .. Len(lines), d < e,
           \A i \in 1 .. Len(lines) : InArmor(lines, i) <=> i \in {d, e}
    PROVE  Captured(lines) = <<lines[d], lines[e]>>
<1> DEFINE c == Captured(lines)
           l == Len(c)
<1>1. PICK at \in [1 .. l -> 1 .. Len(lines)] : AreArmored(c, at, lines)
  BY CapturedCorrect
<1>2. c \in Seq({lines[i] : i \in 1 .. Len(lines)})
  BY CapturedCorrect
<1> HIDE DEF c
<1>3. l \in Nat
  BY <1>2
<1>4. \A k \in 1 .. l : at[k] \in {d, e}
  BY <1>1 DEF AreArmored
<1>5. (\E k \in 1 .. l : at[k] = d) /\ (\E k \in 1 .. l : at[k] = e)
  BY <1>1 DEF AreArmored
<1>6. \A j, k \in 1 .. l : j < k => at[j] < at[k]
  BY <1>1 DEF AreArmored
<1> HIDE DEF l
<1>7. ~(l >= 3)
  <2> SUFFICES ASSUME l >= 3 PROVE FALSE
    OBVIOUS
  <2>1. 1 \in 1 .. l /\ 2 \in 1 .. l /\ 3 \in 1 .. l
    BY <1>3
  <2>2. at[1] < at[2] /\ at[2] < at[3]
    BY <2>1, <1>6
  <2>3. QED
    BY <2>1, <2>2, <1>4
<1>8. l >= 2
  <2>1. PICK j \in 1 .. l : at[j] = d
    BY <1>5
  <2>2. PICK k \in 1 .. l : at[k] = e
    BY <1>5
  <2>3. j # k
    BY <2>1, <2>2
  <2>4. QED
    BY <2>3, <1>3
<1>9. l = 2
  BY <1>3, <1>7, <1>8
<1>10. at[1] < at[2] /\ at[1] \in {d, e} /\ at[2] \in {d, e}
  BY <1>4, <1>6, <1>9
<1>11. at[1] = d /\ at[2] = e
  BY <1>10
<1>12. c[1] = lines[d] /\ c[2] = lines[e]
  BY <1>1, <1>9, <1>11 DEF AreArmored
<1>13. QED
  BY <1>2, <1>9, <1>12 DEF c, l

-----------------------------------------------------------------------------

JoinLine(bytes, line) == bytes \o line.bytes

IsJoin(f, b64, n) ==
    f = [i \in 0 .. n |-> IF i = 0 THEN << >> ELSE JoinLine(f[i - 1], b64[i])]

LEMMA JoinStepsDef ==
    ASSUME NEW b64, Len(b64) \in Nat
    PROVE  IsJoin(JoinSteps(b64), b64, Len(b64))
<1> DEFINE S == {n \in Nat : \E f : IsJoin(f, b64, n)}
<1>1. 0 \in S
  <2> DEFINE f == [i \in 0 .. 0 |-> << >>]
  <2>1. IsJoin(f, b64, 0)
    BY DEF IsJoin
  <2>2. QED
    BY <2>1
<1>2. ASSUME NEW n \in Nat, n \in S PROVE n + 1 \in S
  <2>1. PICK f : IsJoin(f, b64, n)
    BY <1>2
  <2> DEFINE g == [i \in 0 .. n + 1 |->
                       IF i = n + 1 THEN JoinLine(f[n], b64[n + 1]) ELSE f[i]]
  <2>2. \A i \in 0 .. n + 1 :
            g[i] = IF i = 0 THEN << >> ELSE JoinLine(g[i - 1], b64[i])
    BY <2>1 DEF IsJoin
  <2>3. IsJoin(g, b64, n + 1)
    BY <2>2 DEF IsJoin
  <2>4. QED
    BY <2>3
<1>3. Len(b64) \in S
  <2> HIDE DEF S
  <2>1. QED
    BY <1>1, <1>2, SetInduction
<1>4. PICK f : IsJoin(f, b64, Len(b64))
  BY <1>3
<1>5. QED
  BY <1>4 DEF IsJoin, JoinSteps, JoinLine

\* Decoding one or two lines of base64 gives their bytes.
LEMMA DecodeOne ==
    ASSUME NEW X, NEW b \in Seq(X)
    PROVE  Decode(<<Base64(b)>>) = [ok |-> TRUE, bytes |-> b]
<1> DEFINE s == <<Base64(b)>>
           J == JoinSteps(s)
<1>1. Len(s) = 1 /\ s[1] = Base64(b) /\ DOMAIN s = 1 .. 1
  OBVIOUS
<1>2. Base64(b).kind = "base64" /\ Base64(b).bytes = b
  BY DEF Base64
<1> HIDE DEF s
<1>3. IsJoin(J, s, 1)
  <2>1. Len(s) \in Nat
    BY <1>1
  <2>2. QED
    BY <1>1, <2>1, JoinStepsDef
<1> HIDE DEF J
<1>4. J[0] = << >> /\ J[1] = JoinLine(J[0], s[1])
  BY <1>3 DEF IsJoin
<1>5. J[1] = b
  BY <1>1, <1>2, <1>4 DEF JoinLine
<1>6. Decode(s) = [ok |-> TRUE, bytes |-> J[Len(s)]]
  BY <1>1, <1>2 DEF Decode, J
<1>7. QED
  BY <1>1, <1>5, <1>6 DEF s

LEMMA DecodeTwo ==
    ASSUME NEW X, NEW b \in Seq(X), NEW c \in Seq(X)
    PROVE  Decode(<<Base64(b), Base64(c)>>) = [ok |-> TRUE, bytes |-> b \o c]
<1> DEFINE s == <<Base64(b), Base64(c)>>
           J == JoinSteps(s)
<1>1. Len(s) = 2 /\ s[1] = Base64(b) /\ s[2] = Base64(c) /\ DOMAIN s = 1 .. 2
  OBVIOUS
<1>2. /\ Base64(b).kind = "base64" /\ Base64(b).bytes = b
      /\ Base64(c).kind = "base64" /\ Base64(c).bytes = c
  BY DEF Base64
<1> HIDE DEF s
<1>3. IsJoin(J, s, 2)
  <2>1. Len(s) \in Nat
    BY <1>1
  <2>2. QED
    BY <1>1, <2>1, JoinStepsDef
<1> HIDE DEF J
<1>4. J[0] = << >> /\ J[1] = JoinLine(J[0], s[1]) /\ J[2] = JoinLine(J[1], s[2])
  BY <1>3 DEF IsJoin
<1>5. J[2] = b \o c
  <2>1. J[1] = b
    BY <1>1, <1>2, <1>4 DEF JoinLine
  <2>2. QED
    BY <2>1, <1>1, <1>2, <1>4 DEF JoinLine
<1>6. \A i \in DOMAIN s : s[i].kind = "base64"
  BY <1>1, <1>2
<1>7. Decode(s) = [ok |-> TRUE, bytes |-> J[Len(s)]]
  BY <1>6 DEF Decode, J
<1>8. QED
  BY <1>1, <1>5, <1>7 DEF s

-----------------------------------------------------------------------------

LEMMA LineKinds ==
    /\ Begin.kind = "begin" /\ End.kind = "end" /\ Blank.kind = "blank"
    /\ Colon.kind = "colon" /\ Junk.kind = "junk"
    /\ \A x : Base64(x).kind = "base64" /\ Base64(x).bytes = x
  BY DEF Begin, End, Blank, Colon, Junk, Base64, Line

LEMMA DetachOne ==
    ASSUME NEW lines, IsText(lines), NEW X, NEW x \in Seq(X), ArmorOf(x, lines)
    PROVE  Detach(TextFile(lines)) = [ok |-> TRUE, bytes |-> x]
<1>1. PICK b \in 1 .. Len(lines), d \in 1 .. Len(lines), e \in 1 .. Len(lines) :
          /\ b < d /\ d < e
          /\ lines[b] = Begin /\ lines[d] = Base64(x) /\ lines[e] = End
          /\ \A i \in 1 .. e - 1 : i \in {b, d} \/ lines[i] \in {Blank, Colon}
  BY DEF ArmorOf
<1>2. Len(lines) \in Nat
  BY DEF IsText
<1>3. \A i \in 1 .. Len(lines) : InArmor(lines, i) <=> i = d
  <2> SUFFICES ASSUME NEW i \in 1 .. Len(lines) PROVE InArmor(lines, i) <=> i = d
    OBVIOUS
  <2>1. CASE i = d
    <3>1. b \in 1 .. i - 1 /\ lines[b] = Begin
      BY <2>1, <1>1, <1>2
    <3>2. \A j \in 1 .. i - 1 : j \in 1 .. e - 1 /\ j # d
      BY <2>1, <1>1, <1>2
    <3>3. \A j \in 1 .. i - 1 : lines[j].kind # "end"
      BY <3>2, <1>1, LineKinds
    <3>4. QED
      BY <3>1, <3>3, <2>1, <1>1, LineKinds DEF InArmor
  <2>2. CASE i # d /\ i < e
    <3>1. lines[i] \in {Begin, Blank, Colon}
      BY <2>2, <1>1, <1>2
    <3>2. QED
      BY <3>1, <2>2, LineKinds DEF InArmor
  <2>3. CASE i = e
    BY <2>3, <1>1, LineKinds DEF InArmor
  <2>4. CASE i > e
    <3>1. e \in 1 .. i - 1
      BY <2>4, <1>2
    <3>2. QED
      BY <3>1, <2>4, <1>1 DEF InArmor
  <2>5. QED
    BY <2>1, <2>2, <2>3, <2>4, <1>2
<1>4. Captured(lines) = <<Base64(x)>>
  BY <1>1, <1>3, OneCaptured
<1>5. Contains(lines, Begin)
  BY <1>1 DEF Contains
<1>6. Decode(<<Base64(x)>>) = [ok |-> TRUE, bytes |-> x]
  BY DecodeOne
<1>7. TextFile(lines).text = TRUE /\ TextFile(lines).lines = lines
  BY DEF TextFile
<1>8. QED
  BY <1>4, <1>5, <1>6, <1>7 DEF Detach

LEMMA DetachTwo ==
    ASSUME NEW lines, IsText(lines), NEW X, NEW x \in Seq(X), NEW y \in Seq(X),
           ArmorOfTwo(x, y, lines)
    PROVE  Detach(TextFile(lines)) = [ok |-> TRUE, bytes |-> x \o y]
<1>1. PICK b \in 1 .. Len(lines), c \in 1 .. Len(lines), d \in 1 .. Len(lines),
           e \in 1 .. Len(lines) :
          /\ b < c /\ c < d /\ d < e
          /\ lines[b] = Begin /\ lines[c] = Base64(x) /\ lines[d] = Base64(y)
          /\ lines[e] = End
          /\ \A i \in 1 .. e - 1 : i \in {b, c, d} \/ lines[i] \in {Blank, Colon}
  BY DEF ArmorOfTwo
<1>2. Len(lines) \in Nat
  BY DEF IsText
<1>3. \A i \in 1 .. Len(lines) : InArmor(lines, i) <=> i \in {c, d}
  <2> SUFFICES ASSUME NEW i \in 1 .. Len(lines) PROVE InArmor(lines, i) <=> i \in {c, d}
    OBVIOUS
  <2>1. CASE i \in {c, d}
    <3>1. b \in 1 .. i - 1 /\ lines[b] = Begin
      BY <2>1, <1>1, <1>2
    <3>2. \A j \in 1 .. i - 1 : j \in 1 .. e - 1
      BY <2>1, <1>1, <1>2
    <3>3. \A j \in 1 .. i - 1 : lines[j].kind # "end"
      BY <3>2, <1>1, LineKinds
    <3>4. QED
      BY <3>1, <3>3, <2>1, <1>1, LineKinds DEF InArmor
  <2>2. CASE i \notin {c, d} /\ i < e
    <3>1. lines[i] \in {Begin, Blank, Colon}
      BY <2>2, <1>1, <1>2
    <3>2. QED
      BY <3>1, <2>2, LineKinds DEF InArmor
  <2>3. CASE i = e
    BY <2>3, <1>1, LineKinds DEF InArmor
  <2>4. CASE i > e
    <3>1. e \in 1 .. i - 1
      BY <2>4, <1>2
    <3>2. i \notin {c, d}
      BY <2>4, <1>1, <1>2
    <3>3. QED
      BY <3>1, <3>2, <1>1 DEF InArmor
  <2>5. QED
    BY <2>1, <2>2, <2>3, <2>4, <1>2
<1>4. Captured(lines) = <<Base64(x), Base64(y)>>
  BY <1>1, <1>3, TwoCaptured
<1>5. Contains(lines, Begin)
  BY <1>1 DEF Contains
<1>6. Decode(<<Base64(x), Base64(y)>>) = [ok |-> TRUE, bytes |-> x \o y]
  BY DecodeTwo
<1>7. TextFile(lines).text = TRUE /\ TextFile(lines).lines = lines
  BY DEF TextFile
<1>8. QED
  BY <1>4, <1>5, <1>6, <1>7 DEF Detach

-----------------------------------------------------------------------------
(* The files that are made of payloads.                                    *)

LEMMA Appended ==
    ASSUME NEW T, NEW a \in Seq(T), NEW e \in T
    PROVE  /\ Append(a, e) \in Seq(T) /\ Len(Append(a, e)) = Len(a) + 1
           /\ \A i \in 1 .. Len(a) : Append(a, e)[i] = a[i]
           /\ Append(a, e)[Len(a) + 1] = e
<1>1. Append(a, e) \in Seq(T) /\ Len(Append(a, e)) = Len(a) + 1
  OBVIOUS
<1>2. Append(a, e)[Len(a) + 1] = e
  OBVIOUS
<1>3. QED
  BY <1>1, <1>2

LEMMA Concatenated ==
    ASSUME NEW T, NEW a \in Seq(T), NEW b \in Seq(T)
    PROVE  /\ a \o b \in Seq(T) /\ Len(a \o b) = Len(a) + Len(b)
           /\ \A i \in 1 .. Len(a) + Len(b) :
                  (a \o b)[i] = IF i <= Len(a) THEN a[i] ELSE b[i - Len(a)]
  OBVIOUS

LEMMA Joined ==
    ASSUME NEW T, NEW a \in Seq(T), NEW b \in Seq(T), NEW e \in T,
           Len(a) = 1, Len(b) = 1
    PROVE  a \o b = <<a[1], b[1]>> /\ Append(a, e) = <<a[1], e>>
<1>1. \A u \in Seq(T) : Len(u) = 2 => u = <<u[1], u[2]>>
  OBVIOUS
<1>2. a \o b \in Seq(T) /\ Len(a \o b) = 2
  OBVIOUS
<1>3. (a \o b)[1] = a[1] /\ (a \o b)[2] = b[1]
  OBVIOUS
<1>4. /\ Append(a, e) \in Seq(T) /\ Len(Append(a, e)) = Len(a) + 1
      /\ \A i \in 1 .. Len(a) : Append(a, e)[i] = a[i]
      /\ Append(a, e)[Len(a) + 1] = e
  BY Appended
<1>5. PICK u \in Seq(T) : u = Append(a, e)
  BY <1>4
<1>6. Len(u) = 2 /\ u[1] = a[1] /\ u[2] = e
  BY <1>4, <1>5
<1>7. u = <<a[1], e>>
  BY <1>1, <1>6
<1>8. QED
  BY <1>1, <1>2, <1>3, <1>5, <1>7

LEMMA Cut2 ==
    ASSUME NEW T, NEW s \in Seq(T), Len(s) = 2
    PROVE  /\ SubSeq(s, 1, 0) = << >> /\ SubSeq(s, 1, 1) = <<s[1]>>
           /\ SubSeq(s, 1, 2) = s /\ SubSeq(s, 2, 2) = <<s[2]>>
           /\ SubSeq(s, 3, 2) = << >>
<1>1. \A u \in Seq(T) : Len(u) = 1 => u = <<u[1]>>
  OBVIOUS
<1>2. SubSeq(s, 1, 0) = << >> /\ SubSeq(s, 3, 2) = << >> /\ SubSeq(s, 1, 2) = s
  OBVIOUS
<1>3. /\ SubSeq(s, 1, 1) \in Seq(T) /\ Len(SubSeq(s, 1, 1)) = 1
      /\ SubSeq(s, 1, 1)[1] = s[1]
  OBVIOUS
<1>4. /\ SubSeq(s, 2, 2) \in Seq(T) /\ Len(SubSeq(s, 2, 2)) = 1
      /\ SubSeq(s, 2, 2)[1] = s[2]
  OBVIOUS
<1>5. QED
  BY <1>1, <1>2, <1>3, <1>4

LEMMA BytesType ==
    ASSUME NEW p
    PROVE  /\ Bytes(p) \in Seq({Bytes(p)[1], Bytes(p)[2]}) /\ Len(Bytes(p)) = 2
           /\ Bytes(p)[1].of = p
           /\ Bytes(p) = <<Bytes(p)[1], Bytes(p)[2]>>
  BY DEF Bytes

\* A payload cut into halves and put together again.
LEMMA Halves ==
    ASSUME NEW p
    PROVE  LET b == Bytes(p)
           IN  /\ SubSeq(b, 1, 0) = << >> /\ SubSeq(b, 1, 1) = <<b[1]>>
               /\ SubSeq(b, 1, 2) = b /\ SubSeq(b, 2, 2) = <<b[2]>>
               /\ SubSeq(b, 3, 2) = << >>
               /\ <<b[1]>> \o <<b[2]>> = b /\ Append(<<b[1]>>, b[2]) = b
               /\ << >> \o b = b /\ b \o << >> = b
<1> DEFINE b == Bytes(p)
           T == {b[1], b[2]}
<1>1. b \in Seq(T) /\ Len(b) = 2 /\ b = <<b[1], b[2]>>
  BY BytesType
<1>2. b[1] \in T /\ b[2] \in T
  OBVIOUS
<1> HIDE DEF b, T
<1>3. /\ <<b[1]>> \in Seq(T) /\ Len(<<b[1]>>) = 1 /\ <<b[1]>>[1] = b[1]
      /\ <<b[2]>> \in Seq(T) /\ Len(<<b[2]>>) = 1 /\ <<b[2]>>[1] = b[2]
  BY <1>2
<1>4. <<b[1]>> \o <<b[2]>> = b /\ Append(<<b[1]>>, b[2]) = b
  <2>1. PICK x \in Seq(T) : x = <<b[1]>>
    BY <1>3
  <2>2. PICK y \in Seq(T) : y = <<b[2]>>
    BY <1>3
  <2>3. Len(x) = 1 /\ Len(y) = 1 /\ x[1] = b[1] /\ y[1] = b[2]
    BY <1>3, <2>1, <2>2
  <2>4. x \o y = <<b[1], b[2]>> /\ Append(x, b[2]) = <<b[1], b[2]>>
    BY <1>2, <2>3, Joined
  <2>5. QED
    BY <2>1, <2>2, <2>4, <1>1
<1>5. << >> \o b = b /\ b \o << >> = b
  BY <1>1
<1>6. /\ SubSeq(b, 1, 0) = << >> /\ SubSeq(b, 1, 1) = <<b[1]>>
      /\ SubSeq(b, 1, 2) = b /\ SubSeq(b, 2, 2) = <<b[2]>> /\ SubSeq(b, 3, 2) = << >>
  BY <1>1, Cut2
<1>7. QED
  BY <1>4, <1>5, <1>6 DEF b

LEMMA BytesInjective ==
    ASSUME NEW p, NEW q, Bytes(p)[2] = Bytes(q)[2]
    PROVE  p = q
<1>1. Bytes(p)[2].of = p /\ Bytes(q)[2].of = q
  BY DEF Bytes
<1>2. QED
  BY <1>1

LEMMA PayloadOfBytes ==
    ASSUME NEW p
    PROVE  Payload(Bytes(p)) = p
<1>1. Bytes(p)[1].of = p
  BY BytesType
<1>2. Bytes(p) = Bytes(Bytes(p)[1].of)
  BY <1>1
<1>3. QED
  BY <1>1, <1>2 DEF Payload

LEMMA DetachBinary ==
    ASSUME NEW b
    PROVE  Detach(BinaryFile(b)) = [ok |-> TRUE, bytes |-> b]
  BY DEF Detach, BinaryFile

LEMMA ArmorIsText ==
    ASSUME NEW p
    PROVE  IsText(ArmorLines(p))
<1> DEFINE lines == ArmorLines(p)
<1>1. /\ Len(lines) = 4 /\ lines[1] = Begin /\ lines[2] = Blank
      /\ lines[3] = Base64(Bytes(p)) /\ lines[4] = End
      /\ lines \in Seq({Begin, Blank, Base64(Bytes(p)), End})
  BY DEF ArmorLines
<1>2. IsLine(Base64(Bytes(p)))
  BY LineKinds DEF IsLine
<1> HIDE DEF lines
<1>3. {lines[i] : i \in 1 .. Len(lines)} = {Begin, Blank, Base64(Bytes(p)), End}
  <2>1. 1 .. Len(lines) = {1, 2, 3, 4}
    BY <1>1
  <2>2. {lines[i] : i \in {1, 2, 3, 4}} = {lines[1], lines[2], lines[3], lines[4]}
    OBVIOUS
  <2>3. QED
    BY <2>1, <2>2, <1>1
<1>4. IsText(lines)
  BY <1>1, <1>2, <1>3 DEF IsText, IsLine
<1>5. QED
  BY <1>4 DEF lines

LEMMA DetachArmor ==
    ASSUME NEW p
    PROVE  Detach(TextFile(ArmorLines(p))) = [ok |-> TRUE, bytes |-> Bytes(p)]
<1> DEFINE lines == ArmorLines(p)
<1>1. /\ Len(lines) = 4 /\ lines[1] = Begin /\ lines[2] = Blank
      /\ lines[3] = Base64(Bytes(p)) /\ lines[4] = End
  BY DEF ArmorLines
<1>4. IsText(lines)
  BY ArmorIsText
<1> HIDE DEF lines
<1>5. ArmorOf(Bytes(p), lines)
  <2>1. 1 \in 1 .. Len(lines) /\ 3 \in 1 .. Len(lines) /\ 4 \in 1 .. Len(lines)
    BY <1>1
  <2>2. \A i \in 1 .. 4 - 1 : i \in {1, 3} \/ lines[i] \in {Blank, Colon}
    BY <1>1
  <2>3. QED
    BY <2>1, <2>2, <1>1 DEF ArmorOf
<1>6. Bytes(p) \in Seq({Bytes(p)[1], Bytes(p)[2]})
  BY BytesType
<1>7. Detach(TextFile(lines)) = [ok |-> TRUE, bytes |-> Bytes(p)]
  BY <1>4, <1>5, <1>6, DetachOne
<1>8. QED
  BY <1>7 DEF lines

\* A text without BEGIN, and one that is not base64.
LEMMA DetachBare ==
    ASSUME NEW x
    PROVE  Detach(TextFile(<<Base64(x)>>)) = [ok |-> TRUE, bytes |-> << >>]
<1>1. Base64(x) # Begin
  BY LineKinds
<1>2. ~Contains(<<Base64(x)>>, Begin)
  <2>1. Len(<<Base64(x)>>) = 1 /\ <<Base64(x)>>[1] = Base64(x)
    OBVIOUS
  <2>2. QED
    BY <2>1, <1>1 DEF Contains
<1>3. QED
  BY <1>2 DEF Detach, TextFile

LEMMA DetachJunk == Detach(TextFile(<<Begin, Junk, End>>)).ok = FALSE
<1> DEFINE lines == <<Begin, Junk, End>>
<1>1. /\ Len(lines) = 3 /\ lines[1] = Begin /\ lines[2] = Junk /\ lines[3] = End
      /\ lines \in Seq({Begin, Junk, End})
  OBVIOUS
<1> HIDE DEF lines
<1>2. {lines[i] : i \in 1 .. Len(lines)} = {Begin, Junk, End}
  BY <1>1
<1>3. IsText(lines)
  BY <1>1, <1>2 DEF IsText, IsLine
<1>4. \A i \in 1 .. Len(lines) : InArmor(lines, i) <=> i = 2
  <2>1. InArmor(lines, 2)
    BY <1>1, LineKinds DEF InArmor
  <2>2. ~InArmor(lines, 1) /\ ~InArmor(lines, 3)
    BY <1>1, LineKinds DEF InArmor
  <2>3. QED
    BY <2>1, <2>2, <1>1
<1>5. Captured(lines) = <<Junk>>
  <2>1. 2 \in 1 .. Len(lines)
    BY <1>1
  <2>2. QED
    BY <2>1, <1>1, <1>3, <1>4, OneCaptured
<1>6. Contains(lines, Begin)
  BY <1>1 DEF Contains
<1>7. Decode(<<Junk>>).ok = FALSE
  BY LineKinds DEF Decode
<1>8. QED
  BY <1>5, <1>6, <1>7 DEF Detach, TextFile, lines

-----------------------------------------------------------------------------
(* Who made a signature.                                                   *)

\* If verify takes a signature of this kind, it was issued, among the facts.
SigIssued(sig, facts) ==
    sig.hash.tag \in AcceptedTags =>
        [pk |-> sig.signer, ts |-> sig.hash.msg[1], digest |-> sig.hash.msg[2]] \in facts

\* The same of what verify would read out of a file.
FileIssued(file, facts) ==
    \/ file = None
    \/ Detach(file).ok /\ Len(Detach(file).bytes) = SIGNATURE_PAYLOAD_SIZE =>
           SigIssued(Payload(Detach(file).bytes).sig, facts)

LEMMA VerifyGives ==
    ASSUME NEW p, NEW digest, verify_stream_payload(p, digest) # None
    PROVE  /\ verify_stream_payload(p, digest) = p.pk
           /\ \E tag \in AcceptedTags :
                  p.sig = sign_raw(p.pk, tagged_hash(tag, <<p.ts, digest>>))
  BY DEF verify_stream_payload

LEMMA IssuedFact ==
    ASSUME NEW p, NEW digest, NEW facts, SigIssued(p.sig, facts),
           verify_stream_payload(p, digest) # None
    PROVE  Fact(p, digest) \in facts
<1>1. PICK tag \in AcceptedTags :
          p.sig = sign_raw(p.pk, tagged_hash(tag, <<p.ts, digest>>))
  BY VerifyGives
<1>2. /\ p.sig.signer = p.pk /\ p.sig.hash.tag = tag
      /\ p.sig.hash.msg[1] = p.ts /\ p.sig.hash.msg[2] = digest
  BY <1>1 DEF sign_raw, tagged_hash
<1>3. QED
  BY <1>2 DEF SigIssued, Fact

\* What sign makes, verify takes.
LEMMA SignedIsValid ==
    ASSUME NEW k, NEW digest, NEW t
    PROVE  LET p == SignedPayload(TAG_SIGN, k, digest, t)
           IN  verify_stream_payload(p, digest) = k /\ p.pk = k /\ p.ts = t
  BY DEF SignedPayload, verify_stream_payload, AcceptedTags

LEMMA SignedSig ==
    ASSUME NEW tag, NEW k, NEW digest, NEW t, NEW facts
    PROVE  LET p == SignedPayload(tag, k, digest, t)
           IN  /\ Fact(p, digest) \in facts => SigIssued(p.sig, facts)
               /\ p.sig.hash.tag = tag /\ p.sig.hash.msg[2] = digest
<1> DEFINE p == SignedPayload(tag, k, digest, t)
<1>1. /\ p.sig.signer = k /\ p.sig.hash.tag = tag /\ p.pk = k /\ p.ts = t
      /\ p.sig.hash.msg[1] = t /\ p.sig.hash.msg[2] = digest
  BY DEF SignedPayload, sign_raw, tagged_hash
<1> HIDE DEF p
<1>2. Fact(p, digest) = [pk |-> k, ts |-> t, digest |-> digest]
  BY <1>1 DEF Fact
<1>3. Fact(p, digest) \in facts => SigIssued(p.sig, facts)
  BY <1>1, <1>2 DEF SigIssued
<1>4. QED
  BY <1>1, <1>3 DEF p

LEMMA MoreIssued ==
    ASSUME NEW sig, NEW facts, NEW more, SigIssued(sig, facts), facts \subseteq more
    PROVE  SigIssued(sig, more)
  BY DEF SigIssued

LEMMA ArmorGrows ==
    ASSUME NEW p, NEW o, Len(o) \in 0 .. 3, o = SubSeq(ArmorLines(p), 1, Len(o))
    PROVE  LET x == Append(o, ArmorLines(p)[Len(o) + 1])
           IN  /\ Len(ArmorLines(p)) = 4
               /\ Len(x) \in 1 .. 4 /\ x = SubSeq(ArmorLines(p), 1, Len(x))
               /\ Len(x) = 4 => x = ArmorLines(p)
<1> DEFINE A == ArmorLines(p)
           T == {A[1], A[2], A[3], A[4]}
           l == Len(o)
           x == Append(o, A[l + 1])
<1>1. A \in Seq(T) /\ Len(A) = 4
  BY DEF ArmorLines
<1> HIDE DEF A
<1>2. l \in 0 .. 3 /\ l + 1 \in 1 .. 4
  OBVIOUS
<1>3. A[l + 1] \in T
  BY <1>2
<1>4. o \in Seq(T) /\ \A i \in 1 .. l : o[i] = A[i]
  BY <1>1, <1>2 DEF A
<1> HIDE DEF T, l
<1>5. x \in Seq(T) /\ Len(x) = l + 1 /\ \A i \in 1 .. l + 1 : x[i] = A[i]
  BY <1>2, <1>3, <1>4 DEF l
<1> HIDE DEF x
<1>6. x = SubSeq(A, 1, l + 1)
  BY <1>1, <1>2, <1>5
<1>7. l + 1 = 4 => x = A
  BY <1>1, <1>5
<1>8. QED
  BY <1>1, <1>2, <1>5, <1>6, <1>7 DEF x, l, A
=============================================================================
