----------------------------- MODULE DataLemmas -----------------------------
(***************************************************************************)
(* Induction over numbers, and with it what the operators on sequences and *)
(* functions give that the models are built from: the first of several     *)
(* places, pieces of sequences, lines, sequences of sequences laid end to  *)
(* end, and sums.                                                          *)
(*                                                                         *)
(* The library's induction theorems take an operator; that the order of    *)
(* the numbers is well founded is a fact about two sets, and as good.      *)
(***************************************************************************)
EXTENDS Lines, FiniteSets, FiniteSetTheorems, SequencesExt, SequenceTheorems, Functions,
        WellFoundedInduction, TLAPS

-----------------------------------------------------------------------------
(* The least number, and induction *)

\* A nonempty set of numbers has a least one.
LEMMA LeastNumber ==
  ASSUME NEW T \in SUBSET Nat, T # {}
  PROVE  \E x \in T : \A y \in T : x <= y
<1> DEFINE R == {ss \in Nat \X Nat : ss[1] < ss[2]}
<1>1. IsWellFoundedOn(R, Nat)
  BY NatLessThanWellFounded DEF OpToRel
<1>2. \A x, y \in Nat : <<y, x>> \notin R => x <= y
  OBVIOUS
<1> HIDE DEF R
<1>3. \E x \in T : \A y \in T : <<y, x>> \notin R
  BY <1>1, WFMin
<1> QED
  BY <1>2, <1>3

\* A set that has 0, and with each number the next one, has all of them.
LEMMA Induction ==
  ASSUME NEW S, 0 \in S, \A n \in Nat : n \in S => n + 1 \in S
  PROVE  Nat \subseteq S
<1> DEFINE T == Nat \ S
<1> SUFFICES ASSUME T # {} PROVE FALSE
  OBVIOUS
<1>1. PICK x \in T : \A y \in T : x <= y
  <2> HIDE DEF T
  <2>1. T \in SUBSET Nat
    BY DEF T
  <2> QED
    BY <2>1, LeastNumber
<1>2. x # 0 /\ x \in Nat /\ x \notin S
  BY <1>1
<1>3. x - 1 \in Nat /\ x - 1 \in S
  BY <1>1, <1>2
<1>4. (x - 1) + 1 \in S
  BY <1>3
<1> QED
  BY <1>2, <1>4

\* The choice of the first of several places finds it.
LEMMA FirstPlace ==
  ASSUME NEW T \in SUBSET Nat, T # {}
  PROVE  LET m == CHOOSE i \in T : \A j \in T : i <= j
         IN  m \in T /\ \A j \in T : m <= j
BY LeastNumber

-----------------------------------------------------------------------------
(* Pieces of sequences *)

\* Sequences of the same length with the same elements.
LEMMA SameSequence ==
  ASSUME NEW S, NEW s \in Seq(S), NEW t \in Seq(S), Len(s) = Len(t),
         \A i \in 1..Len(s) : s[i] = t[i]
  PROVE  s = t
OBVIOUS

\* What is left of a sequence without the first n.
LEMMA Erased ==
  ASSUME NEW S, NEW s \in Seq(S), NEW n \in 0..Len(s)
  PROVE  /\ Erase(s, n) \in Seq(S) /\ Len(Erase(s, n)) = Len(s) - n
         /\ \A i \in 1..(Len(s) - n) : Erase(s, n)[i] = s[i + n]
         /\ SubSeq(s, 1, n) \in Seq(S) /\ Len(SubSeq(s, 1, n)) = n
         /\ \A i \in 1..n : SubSeq(s, 1, n)[i] = s[i]
BY DEF Erase

\* That r is this rest.
IsErased(S, s, n, r) ==
  /\ r \in Seq(S) /\ Len(r) = Len(s) - n
  /\ \A i \in 1..(Len(s) - n) : r[i] = s[i + n]

LEMMA ErasedIs ==
  ASSUME NEW S, NEW s \in Seq(S), NEW n \in 0..Len(s)
  PROVE  IsErased(S, s, n, Erase(s, n))
BY Erased DEF IsErased

\* What was cut can be put together.
LEMMA CutAndJoined ==
  ASSUME NEW S, NEW s \in Seq(S), NEW n \in 0..Len(s)
  PROVE  SubSeq(s, 1, n) \o Erase(s, n) = s
<1> DEFINE a == SubSeq(s, 1, n)
           b == Erase(s, n)
<1>1. /\ b \in Seq(S) /\ Len(b) = Len(s) - n
      /\ \A i \in 1..(Len(s) - n) : b[i] = s[i + n]
      /\ a \in Seq(S) /\ Len(a) = n
      /\ \A i \in 1..n : a[i] = s[i]
  BY Erased
<1> HIDE DEF a, b
<1>2. a \o b \in Seq(S) /\ Len(a \o b) = Len(s)
  BY <1>1
<1>3. ASSUME NEW i \in 1..Len(s) PROVE (a \o b)[i] = s[i]
  <2>1. CASE i <= n
    BY <1>1, <2>1
  <2>2. CASE i > n
    <3>1. i - n \in 1..(Len(s) - n) /\ (i - n) + n = i
      BY <2>2
    <3>2. b[i - n] = s[i]
      BY <1>1, <3>1
    <3> QED
      BY <1>1, <2>2, <3>2
  <2>3. i <= n \/ i > n
    OBVIOUS
  <2> QED
    BY <2>1, <2>2, <2>3, Zenon
<1>4. a \o b = s
  BY <1>2, <1>3, SameSequence
<1> QED
  BY <1>4 DEF a, b

\* s is the beginning of u.
Begins(s, u) == Len(s) <= Len(u) /\ \A i \in 1..Len(s) : s[i] = u[i]

\* What is known of u, which is s and t put together: its elements, and its cuts
\* that are within s.
IsJoined(S, s, t, u) ==
  /\ u \in Seq(S) /\ Len(u) = Len(s) + Len(t)
  /\ \A i \in 1..Len(s) : u[i] = s[i]
  /\ \A i \in 1..Len(t) : u[Len(s) + i] = t[i]
  /\ SubSeq(u, 1, Len(s)) = s /\ Erase(u, Len(s)) = t /\ Begins(s, u)
  /\ \A n \in 0..Len(s) : SubSeq(u, 1, n) = SubSeq(s, 1, n) /\ Erase(u, n) = Erase(s, n) \o t

\* Concatenation is all this.
LEMMA CutsOfJoined ==
  ASSUME NEW S, NEW s \in Seq(S), NEW t \in Seq(S), NEW u, u = s \o t
  PROVE  IsJoined(S, s, t, u)
<1>1. u \in Seq(S) /\ Len(u) = Len(s) + Len(t)
  OBVIOUS
<1>2. \A i \in 1..Len(s) : u[i] = s[i]
  OBVIOUS
<1>3. ASSUME NEW i \in 1..Len(t) PROVE u[Len(s) + i] = t[i]
  OBVIOUS
<1>4. ASSUME NEW n \in 0..Len(s)
      PROVE  /\ SubSeq(u, 1, n) = SubSeq(s, 1, n)
             /\ Erase(u, n) = Erase(s, n) \o t
  <2>1. n \in 0..Len(u)
    BY <1>1
  <2>2. SubSeq(u, 1, n) = SubSeq(s, 1, n)
    <3>1. /\ SubSeq(s, 1, n) \in Seq(S) /\ Len(SubSeq(s, 1, n)) = n
          /\ \A i \in 1..n : SubSeq(s, 1, n)[i] = s[i]
      BY Erased
    <3>2. /\ SubSeq(u, 1, n) \in Seq(S) /\ Len(SubSeq(u, 1, n)) = n
          /\ \A i \in 1..n : SubSeq(u, 1, n)[i] = u[i]
      BY <1>1, <2>1, Erased
    <3> DEFINE a == SubSeq(s, 1, n)
               b == SubSeq(u, 1, n)
    <3> HIDE DEF a, b
    <3>3. a \in Seq(S) /\ Len(a) = n /\ \A i \in 1..n : a[i] = s[i]
      BY <3>1 DEF a
    <3>4. b \in Seq(S) /\ Len(b) = n /\ \A i \in 1..n : b[i] = u[i]
      BY <3>2 DEF b
    <3>5. b = a
      BY <1>2, <3>3, <3>4, SameSequence
    <3> QED
      BY <3>5 DEF a, b
  <2>3. Erase(u, n) = Erase(s, n) \o t
    <3> DEFINE e == Erase(s, n)
               w == Erase(u, n)
    <3>1. /\ e \in Seq(S) /\ Len(e) = Len(s) - n
          /\ \A i \in 1..(Len(s) - n) : e[i] = s[i + n]
      <4>1. IsErased(S, s, n, e)
        BY ErasedIs, Zenon
      <4> QED
        BY <4>1, Zenon DEF IsErased
    <3>2. /\ w \in Seq(S) /\ Len(w) = Len(u) - n
          /\ \A i \in 1..(Len(u) - n) : w[i] = u[i + n]
      <4>1. u \in Seq(S)
        BY <1>1, Zenon
      <4>2. IsErased(S, u, n, w)
        BY <2>1, <4>1, ErasedIs, Zenon
      <4> QED
        BY <4>2, Zenon DEF IsErased
    <3> HIDE DEF e, w
    <3>3. e \o t \in Seq(S) /\ Len(e \o t) = Len(w)
      <4>1. Len(s) \in Nat /\ Len(t) \in Nat
        OBVIOUS
      <4>2. e \o t \in Seq(S) /\ Len(e \o t) = Len(e) + Len(t)
        BY <3>1, ConcatProperties, Zenon
      <4>3. Len(e) = Len(s) - n /\ Len(w) = (Len(s) + Len(t)) - n
        BY <1>1, <3>1, <3>2, Zenon
      <4>4. (Len(s) - n) + Len(t) = (Len(s) + Len(t)) - n
        BY <4>1
      <4> QED
        BY <4>2, <4>3, <4>4, Zenon
    <3>4. ASSUME NEW i \in 1..Len(w) PROVE (e \o t)[i] = w[i]
      <4>1. w[i] = u[i + n]
        BY <3>2
      <4>2. CASE i <= Len(s) - n
        <5>1. i + n \in 1..Len(s) /\ e[i] = s[i + n]
          BY <3>1, <4>2
        <5>2. w[i] = e[i]
          BY <1>2, <4>1, <5>1, Zenon
        <5>3. i \in 1..Len(e)
          BY <3>1, <4>2
        <5>4. (e \o t)[i] = e[i]
          BY <3>1, <5>3, ConcatProperties
        <5> QED
          BY <5>2, <5>4, Zenon
      <4>3. CASE i > Len(s) - n
        <5> DEFINE j == i - (Len(s) - n)
        <5>1. j \in 1..Len(t) /\ i + n = Len(s) + j
          BY <1>1, <3>2, <4>3
        <5>2. (e \o t)[i] = t[j]
          BY <3>1, <3>3, <4>3
        <5> HIDE DEF j
        <5> QED
          BY <1>3, <4>1, <5>1, <5>2
      <4>4. i <= Len(s) - n \/ i > Len(s) - n
        OBVIOUS
      <4> QED
        BY <4>2, <4>3, <4>4, Zenon
    <3>5. e \o t = w
      BY <3>2, <3>3, <3>4, SameSequence
    <3> QED
      BY <3>5 DEF e, w
  <2> QED
    BY <2>2, <2>3
<1>5. SubSeq(u, 1, Len(s)) = s
  BY <1>4
<1>6. Erase(u, Len(s)) = t
  <2>1. Erase(s, Len(s)) = <<>>
    BY DEF Erase
  <2>2. Erase(u, Len(s)) = Erase(s, Len(s)) \o t
    BY <1>4
  <2> QED
    BY <2>1, <2>2, ConcatEmptySeq
<1>7. Begins(s, u)
  <2>1. Len(s) <= Len(u)
    BY <1>1
  <2> QED
    BY <1>2, <2>1 DEF Begins
<1> QED
  BY <1>1, <1>2, <1>3, <1>4, <1>5, <1>6, <1>7 DEF IsJoined

\* Concatenation is associative.
Associate(s, t, u) == (s \o t) \o u = s \o (t \o u)

LEMMA Joined ==
  ASSUME NEW S, NEW s \in Seq(S), NEW t \in Seq(S), NEW u \in Seq(S)
  PROVE  Associate(s, t, u)
<1>1. (s \o t) \o u = s \o (t \o u)
  OBVIOUS
<1> QED
  BY <1>1, Zenon DEF Associate

\* u is c elements, then r: what is left of u after the first c + j is what is left of
\* r after the first j.
EndsIn(u, c, r) == Len(u) = c + Len(r) /\ \A i \in 1..Len(r) : u[c + i] = r[i]
RestsOf(u, c, r) == \A j \in 0..Len(r) : Erase(u, c + j) = Erase(r, j)

LEMMA RestOfRest ==
  ASSUME NEW S, NEW u \in Seq(S), NEW r \in Seq(S), NEW c \in Nat, EndsIn(u, c, r)
  PROVE  RestsOf(u, c, r)
<1> SUFFICES ASSUME NEW j \in 0..Len(r) PROVE Erase(u, c + j) = Erase(r, j)
  BY DEF RestsOf
<1> DEFINE e == c + j
           a == Erase(u, e)
           b == Erase(r, j)
           R == Len(r)
           U == Len(u)
<1>1. R \in Nat /\ U = c + R /\ j \in 0..R /\ e = c + j
  BY LenProperties, Zenon DEF EndsIn
<1> HIDE DEF e, R, U
<1>2. /\ e \in 0..U /\ U - e = R - j
      /\ \A i \in 1..(R - j) : i + j \in 1..R /\ i + e = c + (i + j)
  BY <1>1
<1>3. a \in Seq(S) /\ Len(a) = U - e /\ \A i \in 1..(U - e) : a[i] = u[i + e]
  BY <1>2, Erased DEF U
<1>4. b \in Seq(S) /\ Len(b) = R - j /\ \A i \in 1..(R - j) : b[i] = r[i + j]
  BY Erased DEF R
<1> HIDE DEF a, b
<1>5. \A i \in 1..(R - j) : u[c + (i + j)] = r[i + j]
  BY <1>2, Zenon DEF R, EndsIn
<1>6. \A i \in 1..Len(a) : a[i] = b[i]
  <2>1. Len(a) = R - j
    BY <1>2, <1>3, Zenon
  <2> SUFFICES ASSUME NEW i \in 1..(R - j) PROVE a[i] = b[i]
    BY <2>1, Zenon
  <2>2. a[i] = u[c + (i + j)] /\ b[i] = r[i + j]
    BY <1>2, <1>3, <1>4, Zenon
  <2> QED
    BY <1>5, <2>2, Zenon
<1>7. a = b
  BY <1>2, <1>3, <1>4, <1>6, SameSequence, Zenon
<1> QED
  BY <1>7, Zenon DEF a, b, e

\* Four pieces put together are the first and the rest.
LEMMA FourJoined ==
  ASSUME NEW S, NEW h \in Seq(S), NEW d \in Seq(S), NEW c \in Seq(S), NEW r \in Seq(S)
  PROVE  IsJoined(S, h, (d \o c) \o r, ((h \o d) \o c) \o r)
<1> DEFINE dc == d \o c
           v == dc \o r
           hd == (h \o d) \o c
           u == hd \o r
<1>1. dc \in Seq(S)
  BY ConcatProperties
<1>2. hd = h \o dc
  <2>1. Associate(h, d, c)
    BY Joined, Zenon
  <2> QED
    BY <2>1 DEF Associate
<1> HIDE DEF dc, hd
<1>3. v \in Seq(S)
  BY <1>1, ConcatProperties
<1>4. (h \o dc) \o r = h \o v
  <2> HIDE DEF u, v
  <2>1. (h \o dc) \o r = h \o (dc \o r)
    <3> SUFFICES ASSUME NEW x \in Seq(S)
                 PROVE  (h \o x) \o r = h \o (x \o r)
      BY <1>1
    <3>1. Associate(h, x, r)
      BY Joined, Zenon
    <3> QED
      BY <3>1 DEF Associate
  <2> QED
    BY <2>1 DEF v
<1>5. u = h \o v
  BY <1>2, <1>4, Zenon
<1> HIDE DEF u, v
<1>6. IsJoined(S, h, v, u)
  BY <1>3, <1>5, CutsOfJoined, Zenon
<1> QED
  BY <1>6, Zenon DEF u, v, dc, hd

-----------------------------------------------------------------------------
(* Lines *)

\* A line end by its two bytes.
EndsLine(s, i) == s[i] = "CR" /\ s[i + 1] = "LF"

\* Where lines end.
LEMMA LineEndsAt ==
  ASSUME NEW S, NEW s \in Seq(S)
  PROVE  LineEnds(s) = {i \in 1..(Len(s) - 1) : EndsLine(s, i)}
<1>1. ASSUME NEW i \in 1..(Len(s) - 1)
      PROVE  SubSeq(s, i, i + 1) = CRLF <=> s[i] = "CR" /\ s[i + 1] = "LF"
  <2> DEFINE t == SubSeq(s, i, i + 1)
  <2>0. \A j \in i..(i + 1) : s[j] \in S
    OBVIOUS
  <2>1. t \in Seq(S) /\ Len(t) = 2 /\ t[1] = s[i] /\ t[2] = s[i + 1]
    <3>1. /\ t \in Seq(S) /\ Len(t) = (IF i <= i + 1 THEN (i + 1) - i + 1 ELSE 0)
          /\ \A j \in 1..((i + 1) - i + 1) : t[j] = s[i + j - 1]
      BY <2>0, SubSeqProperties
    <3> HIDE DEF t
    <3>2. (i + 1) - i + 1 = 2 /\ i <= i + 1 /\ i + 1 - 1 = i /\ i + 2 - 1 = i + 1
      OBVIOUS
    <3> QED
      BY <3>1, <3>2
  <2> HIDE DEF t
  <2>2. t = CRLF => t[1] = "CR" /\ t[2] = "LF"
    BY DEF CRLF
  <2>3. ASSUME t[1] = "CR", t[2] = "LF" PROVE t = CRLF
    <3>1. "CR" \in S /\ "LF" \in S
      <4>1. s[i] \in S /\ s[i + 1] \in S
        OBVIOUS
      <4> HIDE DEF t
      <4> QED
        BY <2>1, <2>3, <4>1
    <3>2. CRLF \in Seq(S) /\ Len(CRLF) = 2 /\ CRLF[1] = "CR" /\ CRLF[2] = "LF"
      BY <3>1 DEF CRLF
    <3> QED
      BY <2>1, <2>3, <3>2, SameSequence
  <2> QED
    BY <2>1, <2>2, <2>3 DEF t
<1> QED
  BY <1>1 DEF LineEnds, EndsLine

\* The line that begins after the first off bytes of u has n bytes.
HasLineOf(u, off, n) ==
  /\ off + n + 2 <= Len(u)
  /\ EndsLine(u, off + n + 1)
  /\ \A i \in 1..n : ~EndsLine(u, off + i)

\* A parser that has the beginning of a text finds its lines, as far as they are
\* complete.
LEMMA LineThere ==
  ASSUME NEW S, NEW s \in Seq(S), NEW u \in Seq(S), Begins(s, u),
         NEW off \in 0..Len(s), NEW n \in Nat, HasLineOf(u, off, n)
  PROVE  LET r == Erase(s, off)
         IN  /\ HasLine(r) <=> off + n + 2 <= Len(s)
             /\ HasLine(r) => /\ LineOf(r) \in Seq(S) /\ Len(LineOf(r)) = n
                              /\ \A i \in 1..n : LineOf(r)[i] = u[off + i]
<1> DEFINE r == Erase(s, off)
           T == LineEnds(r)
           m == CHOOSE i \in T : \A j \in T : i <= j
<1>1. r \in Seq(S) /\ Len(r) = Len(s) - off /\ \A i \in 1..Len(r) : r[i] = u[off + i]
  <2>1. \A i \in 1..(Len(s) - off) : i + off = off + i /\ i + off \in 1..Len(s)
    OBVIOUS
  <2>2. /\ r \in Seq(S) /\ Len(r) = Len(s) - off
        /\ \A i \in 1..(Len(s) - off) : r[i] = s[i + off]
    <3>1. IsErased(S, s, off, r)
      BY ErasedIs, Zenon
    <3> QED
      BY <3>1, Zenon DEF IsErased
  <2> HIDE DEF r
  <2> QED
    BY <2>1, <2>2 DEF Begins
<1>2. LineOf(r) = SubSeq(r, 1, m - 1)
  BY Zenon DEF LineOf
<1>3. HasLine(r) <=> T # {}
  BY DEF HasLine
<1> HIDE DEF r
<1>4. T = {i \in 1..(Len(r) - 1) : EndsLine(r, i)}
  BY <1>1, LineEndsAt
<1>5. \A i \in 1..(Len(r) - 1) : EndsLine(r, i) <=> EndsLine(u, off + i)
  <2> SUFFICES ASSUME NEW i \in 1..(Len(r) - 1) PROVE EndsLine(r, i) <=> EndsLine(u, off + i)
    OBVIOUS
  <2>1. i \in 1..Len(r) /\ i + 1 \in 1..Len(r) /\ off + (i + 1) = (off + i) + 1
    BY <1>1
  <2> QED
    BY <1>1, <2>1 DEF EndsLine
<1>6. /\ off + n + 2 <= Len(u) /\ EndsLine(u, off + (n + 1))
      /\ \A i \in 1..n : ~EndsLine(u, off + i)
  <2>1. off + (n + 1) = off + n + 1
    OBVIOUS
  <2> QED
    BY <2>1 DEF HasLineOf
<1>7. \A i \in T : n + 1 <= i
  <2> SUFFICES ASSUME NEW i \in T, ~(n + 1 <= i) PROVE FALSE
    OBVIOUS
  <2>1. i \in 1..(Len(r) - 1) /\ EndsLine(u, off + i)
    BY <1>4, <1>5
  <2>2. i \in 1..n
    BY <2>1
  <2> QED
    BY <1>6, <2>1, <2>2
<1>8. T # {} => off + n + 2 <= Len(s)
  BY <1>1, <1>4, <1>7
<1>9. ASSUME off + n + 2 <= Len(s) PROVE n + 1 \in T
  <2>1. n + 1 \in 1..(Len(r) - 1)
    BY <1>1, <1>9
  <2> QED
    BY <1>4, <1>5, <1>6, <2>1
<1>10. ASSUME T # {}
       PROVE  /\ LineOf(r) \in Seq(S) /\ Len(LineOf(r)) = n
              /\ \A i \in 1..n : LineOf(r)[i] = u[off + i]
  <2>1. T \in SUBSET Nat
    BY <1>4
  <2>2. m \in T /\ \A j \in T : m <= j
    <3> HIDE DEF T
    <3> QED
      BY <1>10, <2>1, FirstPlace
  <2>3. m = n + 1
    <3>1. n + 1 \in T
      BY <1>8, <1>9, <1>10
    <3>2. m <= n + 1 /\ n + 1 <= m /\ m \in Nat
      BY <1>7, <2>1, <2>2, <3>1
    <3> HIDE DEF m
    <3> QED
      BY <3>2
  <2>4. LineOf(r) = SubSeq(r, 1, n)
    <3>1. m - 1 = n
      <4> HIDE DEF m
      <4> QED
        BY <2>3
    <3> QED
      BY <1>2, <3>1
  <2>5. n \in 0..Len(r)
    BY <1>1, <1>8, <1>10
  <2>6. /\ SubSeq(r, 1, n) \in Seq(S) /\ Len(SubSeq(r, 1, n)) = n
        /\ \A i \in 1..n : SubSeq(r, 1, n)[i] = r[i]
    BY <1>1, <2>5, Erased
  <2>7. \A i \in 1..n : r[i] = u[off + i]
    BY <1>1, <2>5
  <2> QED
    BY <2>4, <2>6, <2>7
<1> HIDE DEF T
<1>11. /\ HasLine(r) <=> off + n + 2 <= Len(s)
       /\ HasLine(r) => /\ LineOf(r) \in Seq(S) /\ Len(LineOf(r)) = n
                        /\ \A i \in 1..n : LineOf(r)[i] = u[off + i]
  BY <1>3, <1>8, <1>9, <1>10
<1> QED
  BY <1>11 DEF r

\* A sequence has the lines that it has.
LEMMA OwnLine ==
  ASSUME NEW S, NEW s \in Seq(S), NEW off \in 0..Len(s), NEW n \in Nat, HasLineOf(s, off, n)
  PROVE  /\ HasLine(Erase(s, off))
         /\ LineOf(Erase(s, off)) \in Seq(S) /\ Len(LineOf(Erase(s, off))) = n
         /\ \A i \in 1..n : LineOf(Erase(s, off))[i] = s[off + i]
<1>1. Begins(s, s)
  BY DEF Begins
<1>2. off + n + 2 <= Len(s)
  BY DEF HasLineOf
<1> QED
  BY <1>1, <1>2, LineThere

\* A sequence that has a line has a first one.
LEMMA FirstLine ==
  ASSUME NEW S, NEW s \in Seq(S), HasLine(s)
  PROVE  \E n \in Nat : HasLineOf(s, 0, n)
<1>1. LineEnds(s) = {i \in 1..(Len(s) - 1) : EndsLine(s, i)} /\ LineEnds(s) # {}
  BY LineEndsAt DEF HasLine
<1> DEFINE T == LineEnds(s)
<1> HIDE DEF T
<1>2. T \in SUBSET Nat /\ T # {}
  BY <1>1 DEF T
<1>3. PICK m \in T : \A j \in T : m <= j
  BY <1>2, LeastNumber
<1>4. m \in 1..(Len(s) - 1) /\ EndsLine(s, m)
  BY <1>1, <1>3 DEF T
<1> DEFINE n == m - 1
<1>5. n \in Nat /\ 0 + n + 2 <= Len(s) /\ 0 + n + 1 = m
  BY <1>4
<1>6. ASSUME NEW i \in 1..n PROVE ~EndsLine(s, 0 + i)
  <2>1. i \in 1..(Len(s) - 1) /\ i < m /\ 0 + i = i
    BY <1>4
  <2>2. i \notin T
    BY <1>2, <1>3, <2>1
  <2> QED
    BY <1>1, <2>1, <2>2 DEF T
<1>7. HasLineOf(s, 0, n)
  <2> HIDE DEF n
  <2> QED
    BY <1>4, <1>5, <1>6 DEF HasLineOf
<1> QED
  BY <1>5, <1>7

-----------------------------------------------------------------------------
(* Sequences of sequences, end to end *)

\* The function inside FlattenSeq().
IsFlatten(f, seqs) ==
  f = [i \in 1..Len(seqs) |-> IF i = 1 THEN seqs[i] ELSE f[i - 1] \o seqs[i]]

\* The recursion has a solution, so the choice inside FlattenSeq() finds one.
LEMMA FlattenExists ==
  ASSUME NEW seqs, Len(seqs) \in Nat
  PROVE  \E f : IsFlatten(f, seqs)
<1> DEFINE Def(g, i) == IF i = 1 THEN seqs[i] ELSE g[i - 1] \o seqs[i]
           S == {n \in Nat : \E g : DOMAIN g = 1..n /\ \A i \in 1..n : g[i] = Def(g, i)}
<1>1. 0 \in S
  <2>1. DOMAIN [i \in 1..0 |-> i] = 1..0 /\ \A i \in 1..0 : FALSE
    OBVIOUS
  <2> QED
    BY <2>1
<1>2. ASSUME NEW n \in Nat, n \in S PROVE n + 1 \in S
  <2>1. PICK g : DOMAIN g = 1..n /\ \A i \in 1..n : g[i] = Def(g, i)
    BY <1>2
  <2> DEFINE h == [i \in 1..(n + 1) |-> IF i = n + 1 THEN Def(g, i) ELSE g[i]]
  <2>2. ASSUME NEW i \in 1..(n + 1) PROVE h[i] = Def(h, i)
    <3>1. i # 1 => i - 1 \in 1..n /\ h[i - 1] = g[i - 1]
      OBVIOUS
    <3>2. CASE i = n + 1
      BY <3>1, <3>2
    <3>3. CASE i \in 1..n
      BY <2>1, <3>1, <3>3
    <3> QED
      BY <3>2, <3>3
  <2>3. DOMAIN h = 1..(n + 1)
    OBVIOUS
  <2> HIDE DEF h
  <2>4. \E f : DOMAIN f = 1..(n + 1) /\ \A i \in 1..(n + 1) : f[i] = Def(f, i)
    BY <2>2, <2>3
  <2>5. n + 1 \in Nat
    OBVIOUS
  <2> QED
    BY <2>4, <2>5
<1>3. Len(seqs) \in S
  <2> HIDE DEF S
  <2> QED
    BY <1>1, <1>2, Induction
<1>4. PICK g : DOMAIN g = 1..Len(seqs) /\ \A i \in 1..Len(seqs) : g[i] = Def(g, i)
  BY <1>3
<1> DEFINE h == [i \in 1..Len(seqs) |-> g[i]]
<1>5. ASSUME NEW i \in 1..Len(seqs) PROVE h[i] = Def(h, i)
  <2>1. h[i] = g[i] /\ g[i] = Def(g, i)
    BY <1>4
  <2>2. i # 1 => i - 1 \in 1..Len(seqs) /\ h[i - 1] = g[i - 1]
    OBVIOUS
  <2> QED
    BY <2>1, <2>2
<1>6. h = [i \in 1..Len(seqs) |-> IF i = 1 THEN seqs[i] ELSE h[i - 1] \o seqs[i]]
  <2> SUFFICES \A i \in 1..Len(seqs) : h[i] = IF i = 1 THEN seqs[i] ELSE h[i - 1] \o seqs[i]
    OBVIOUS
  <2> QED
    BY <1>5
<1> HIDE DEF h
<1> QED
  BY <1>6 DEF IsFlatten

\* What FlattenSeq() gives, by the sequences before the last.
LEMMA FlattenDef ==
  ASSUME NEW seqs, Len(seqs) \in Nat \ {0}
  PROVE  \E f : IsFlatten(f, seqs) /\ FlattenSeq(seqs) = f[Len(seqs)]
<1>1. \E f : f = [i \in 1..Len(seqs) |-> IF i = 1 THEN seqs[i] ELSE f[i - 1] \o seqs[i]]
  BY FlattenExists DEF IsFlatten
<1> DEFINE f == CHOOSE f : f = [i \in 1..Len(seqs) |-> IF i = 1 THEN seqs[i] ELSE f[i - 1] \o seqs[i]]
<1>2. f = [i \in 1..Len(seqs) |-> IF i = 1 THEN seqs[i] ELSE f[i - 1] \o seqs[i]]
  BY <1>1
<1>3. FlattenSeq(seqs) = f[Len(seqs)]
  BY Zenon DEF FlattenSeq
<1> HIDE DEF f
<1> QED
  BY <1>2, <1>3 DEF IsFlatten

\* One sequence is the concatenation of itself.
LEMMA FlattenOne ==
  ASSUME NEW seqs, Len(seqs) = 1
  PROVE  FlattenSeq(seqs) = seqs[1]
<1>n. Len(seqs) \in Nat \ {0}
  OBVIOUS
<1>1. PICK f : IsFlatten(f, seqs) /\ FlattenSeq(seqs) = f[Len(seqs)]
  BY <1>n, FlattenDef, Zenon
<1>2. f[1] = seqs[1]
  BY <1>1 DEF IsFlatten
<1> QED
  BY <1>1, <1>2

\* The concatenation of a pair.
LEMMA FlattenTwo ==
  ASSUME NEW seqs, Len(seqs) = 2
  PROVE  FlattenSeq(seqs) = seqs[1] \o seqs[2]
<1>n. Len(seqs) \in Nat \ {0}
  OBVIOUS
<1>1. PICK f : IsFlatten(f, seqs) /\ FlattenSeq(seqs) = f[Len(seqs)]
  BY <1>n, FlattenDef, Zenon
<1>2. f[1] = seqs[1] /\ f[2] = f[1] \o seqs[2]
  BY <1>1 DEF IsFlatten
<1> QED
  BY <1>1, <1>2

\* Of nothing, nothing.
LEMMA FlattenEmpty == FlattenSeq(<<>>) = <<>>
BY DEF FlattenSeq

\* Sequences over a set, end to end, are one over the set.
LEMMA FlattenType ==
  ASSUME NEW X, NEW seqs \in Seq(Seq(X))
  PROVE  FlattenSeq(seqs) \in Seq(X)
<1>1. CASE Len(seqs) = 0
  <2>1. seqs = <<>>
    BY <1>1
  <2>2. FlattenSeq(seqs) = <<>>
    BY <2>1, FlattenEmpty
  <2> QED
    BY <2>2
<1>2. CASE Len(seqs) # 0
  <2>1. PICK f : IsFlatten(f, seqs) /\ FlattenSeq(seqs) = f[Len(seqs)]
    BY <1>2, FlattenDef
  <2> DEFINE S == {n \in Nat : n \in 1..Len(seqs) => f[n] \in Seq(X)}
  <2>2. 0 \in S
    OBVIOUS
  <2>3. ASSUME NEW n \in Nat, n \in S, n + 1 \in 1..Len(seqs)
        PROVE  f[n + 1] \in Seq(X)
    <3>1. f[n + 1] = IF n + 1 = 1 THEN seqs[n + 1] ELSE f[(n + 1) - 1] \o seqs[n + 1]
      BY <2>1, <2>3 DEF IsFlatten
    <3>2. seqs[n + 1] \in Seq(X)
      BY <2>3
    <3>3. CASE n = 0
      BY <3>1, <3>2, <3>3
    <3>4. CASE n # 0
      <4>1. f[n] \in Seq(X) /\ (n + 1) - 1 = n /\ n + 1 # 1
        BY <2>3, <3>4
      <4> QED
        BY <3>1, <3>2, <4>1
    <3> QED
      BY <3>3, <3>4
  <2>4. Len(seqs) \in S
    <3>1. ASSUME NEW n \in Nat, n \in S PROVE n + 1 \in S
      <4>1. n + 1 \in 1..Len(seqs) => f[n + 1] \in Seq(X)
        BY <2>3, <3>1
      <4> QED
        BY <4>1
    <3>2. Len(seqs) \in Nat
      BY LenProperties, Zenon
    <3> HIDE DEF S
    <3>3. \A n \in Nat : n \in S => n + 1 \in S
      BY <3>1, Zenon
    <3>4. Nat \subseteq S
      BY <2>2, <3>3, Induction
    <3> QED
      BY <3>2, <3>4, Zenon
  <2> QED
    BY <1>2, <2>1, <2>4
<1> QED
  BY <1>1, <1>2

-----------------------------------------------------------------------------
(* Sums *)

\* The sets of places are finite, and no larger than the interval.
LEMMA Intervals ==
  ASSUME NEW n \in Nat
  PROVE  \A s \in SUBSET (1..n) :
           IsFiniteSet(s) /\ Cardinality(s) \in Nat /\ Cardinality(s) <= n
<1>1. IsFiniteSet(1..n) /\ Cardinality(1..n) = n
  BY FS_Interval
<1> QED
  BY <1>1, FS_Subset, FS_CardinalityType

\* The function inside FoldFunction(+, 0, f).
IsSum(iter, n, f) ==
  iter = [s \in SUBSET (1..n) |->
            IF s = {} THEN 0
            ELSE f[CHOOSE x \in s : TRUE] + iter[s \ {CHOOSE x \in s : TRUE}]]

\* The recursion over the set of places that are left has a solution, too.
LEMMA SumExists ==
  ASSUME NEW n \in Nat, NEW f
  PROVE  \E iter : IsSum(iter, n, f)
<1> DEFINE First(s) == CHOOSE x \in s : TRUE
           Def(g, s) == IF s = {} THEN 0 ELSE f[First(s)] + g[s \ {First(s)}]
           D(k) == {s \in SUBSET (1..n) : Cardinality(s) <= k}
           S == {k \in Nat : \E g : \A s \in D(k) : g[s] = Def(g, s)}
<1>1. \A s \in SUBSET (1..n) : IsFiniteSet(s) /\ Cardinality(s) \in Nat /\ Cardinality(s) <= n
  BY Intervals
<1>2. 0 \in S
  <2> DEFINE g == [s \in {{}} |-> 0]
  <2>1. \A s \in D(0) : s = {}
    BY <1>1, FS_EmptySet
  <2>2. \A s \in D(0) : g[s] = Def(g, s)
    BY <2>1
  <2> QED
    BY <2>2
<1>3. ASSUME NEW k \in Nat, k \in S PROVE k + 1 \in S
  <2>1. PICK g : \A s \in D(k) : g[s] = Def(g, s)
    BY <1>3
  <2> DEFINE h == [s \in D(k + 1) |-> Def(g, s)]
  <2>2. ASSUME NEW s \in D(k + 1) PROVE h[s] = Def(h, s)
    <3>1. CASE s = {}
      BY <3>1
    <3>2. CASE s # {}
      <4> DEFINE r == s \ {First(s)}
      <4>1. First(s) \in s
        BY <3>2
      <4>2. r \in SUBSET (1..n) /\ Cardinality(r) = Cardinality(s) - 1
        BY <1>1, <4>1, FS_RemoveElement
      <4>3. r \in D(k) /\ r \in D(k + 1)
        BY <1>1, <4>2
      <4>4. g[r] = Def(g, r) /\ h[r] = Def(g, r)
        BY <2>1, <4>3
      <4>5. h[s] = f[First(s)] + g[r]
        BY <3>2
      <4> QED
        BY <3>2, <4>4, <4>5
    <3> QED
      BY <3>1, <3>2
  <2> HIDE DEF h, Def
  <2>3. \E w : \A s \in D(k + 1) : w[s] = Def(w, s)
    BY <2>2
  <2>4. k + 1 \in Nat
    OBVIOUS
  <2> QED
    BY <2>3, <2>4
<1>4. n \in S
  <2> HIDE DEF S
  <2> QED
    BY <1>2, <1>3, Induction
<1>5. PICK g : \A s \in D(n) : g[s] = Def(g, s)
  BY <1>4
<1> DEFINE h == [s \in SUBSET (1..n) |-> g[s]]
<1>6. ASSUME NEW s \in SUBSET (1..n) PROVE h[s] = Def(h, s)
  <2>1. h[s] = g[s] /\ g[s] = Def(g, s)
    BY <1>1, <1>5
  <2>2. s \ {First(s)} \in SUBSET (1..n)
    OBVIOUS
  <2>3. h[s \ {First(s)}] = g[s \ {First(s)}]
    BY <2>2
  <2> QED
    BY <2>1, <2>3
<1>7. h = [s \in SUBSET (1..n) |-> Def(h, s)]
  BY <1>6
<1> HIDE DEF h
<1> QED
  BY <1>7 DEF IsSum

Adds(iter, f, s, y) == iter[s] = f[y] + iter[s \ {y}]

\* A number is taken off the sum wherever it is.
LEMMA SumAny ==
  ASSUME NEW n \in Nat, NEW f \in [1..n -> Nat], NEW iter, IsSum(iter, n, f)
  PROVE  /\ iter[{}] = 0
         /\ \A s \in SUBSET (1..n) : iter[s] \in Nat
         /\ \A s \in SUBSET (1..n) : \A y \in s : Adds(iter, f, s, y)
<1> DEFINE First(s) == CHOOSE x \in s : TRUE
           Good(s) == iter[s] \in Nat /\ \A y \in s : iter[s] = f[y] + iter[s \ {y}]
           D(k) == {s \in SUBSET (1..n) : Cardinality(s) <= k}
           S == {k \in Nat : \A s \in D(k) : Good(s)}
<1>1. \A s \in SUBSET (1..n) : IsFiniteSet(s) /\ Cardinality(s) \in Nat /\ Cardinality(s) <= n
  BY Intervals
<1>2. \A s \in SUBSET (1..n) :
        iter[s] = IF s = {} THEN 0 ELSE f[First(s)] + iter[s \ {First(s)}]
  BY DEF IsSum
<1>3. iter[{}] = 0
  BY <1>2
<1>4. \A s \in D(0) : s = {}
  BY <1>1, FS_EmptySet
<1>5. 0 \in S
  <2>1. Good({})
    BY <1>3
  <2> HIDE DEF Good
  <2> QED
    BY <1>4, <2>1
<1>6. ASSUME NEW k \in Nat, k \in S PROVE k + 1 \in S
  <2>1. \A s \in D(k) : Good(s)
    BY <1>6
  <2>2. ASSUME NEW s \in D(k + 1), s # {} PROVE Good(s)
    <3> DEFINE x == First(s)
    <3>1. x \in s
      BY <2>2
    <3> HIDE DEF x
    <3>2. ASSUME NEW z \in s
          PROVE  s \ {z} \in D(k) /\ f[z] \in Nat /\ iter[s \ {z}] \in Nat
      <4>1. s \ {z} \in SUBSET (1..n) /\ Cardinality(s \ {z}) = Cardinality(s) - 1
        BY <1>1, FS_RemoveElement
      <4>2. s \ {z} \in D(k)
        BY <1>1, <4>1
      <4> QED
        BY <2>1, <4>2
    <3>3. iter[s] = f[x] + iter[s \ {x}]
      BY <1>2, <2>2 DEF x
    <3>4. ASSUME NEW y \in s, y # x PROVE iter[s] = f[y] + iter[s \ {y}]
      <4> DEFINE sx == s \ {x}
                 sy == s \ {y}
                 sxy == (s \ {x}) \ {y}
      <4>1. iter[s \ {x}] = f[y] + iter[(s \ {x}) \ {y}]
        BY <2>1, <3>1, <3>2, <3>4
      <4>2. iter[s \ {y}] = f[x] + iter[(s \ {y}) \ {x}]
        BY <2>1, <3>1, <3>2, <3>4
      <4>3. (s \ {x}) \ {y} = (s \ {y}) \ {x}
        OBVIOUS
      <4>4. iter[(s \ {x}) \ {y}] \in Nat
        <5>1. (s \ {x}) \ {y} \in SUBSET (1..n)
          OBVIOUS
        <5>2. Cardinality((s \ {x}) \ {y}) <= k
          <6>1. s \ {x} \in SUBSET (1..n) /\ Cardinality(s \ {x}) <= k
            BY <3>1, <3>2
          <6>2. Cardinality((s \ {x}) \ {y}) <= Cardinality(s \ {x})
            BY <1>1, <6>1, FS_Subset
          <6> QED
            BY <1>1, <5>1, <6>1, <6>2
        <5> QED
          BY <2>1, <5>1, <5>2
      <4>5. /\ iter[s] = f[x] + iter[sx] /\ iter[sx] = f[y] + iter[sxy]
            /\ iter[sy] = f[x] + iter[sxy] /\ iter[sxy] \in Nat
            /\ f[x] \in Nat /\ f[y] \in Nat
        BY <3>1, <3>2, <3>3, <4>1, <4>2, <4>3, <4>4
      <4> HIDE DEF sx, sy, sxy
      <4>6. iter[s] = f[y] + iter[sy]
        BY <4>5
      <4> QED
        BY <4>6 DEF sy
    <3>5. iter[s] \in Nat
      <4> DEFINE b == iter[s \ {x}]
      <4>1. f[x] \in Nat /\ b \in Nat /\ iter[s] = f[x] + b
        BY <3>1, <3>2, <3>3
      <4> HIDE DEF b
      <4> QED
        BY <4>1
    <3>6. \A y \in s : iter[s] = f[y] + iter[s \ {y}]
      BY <3>3, <3>4
    <3> QED
      BY <3>5, <3>6
  <2>e. Good({})
    BY <1>3
  <2>3. ASSUME NEW s \in D(k + 1) PROVE Good(s)
    <3> HIDE DEF Good
    <3> QED
      BY <2>e, <2>2
  <2>4. k + 1 \in Nat
    OBVIOUS
  <2> HIDE DEF Good
  <2> QED
    BY <2>3, <2>4
<1>7. n \in S
  <2> HIDE DEF S
  <2> QED
    BY <1>5, <1>6, Induction
<1> QED
  BY <1>1, <1>3, <1>7 DEF Adds

\* The sum of numbers is what adding them from the first to the last gives.
LEMMA SumOfPrefixes ==
  ASSUME NEW n \in Nat, NEW f \in [1..n -> Nat]
  PROVE  \E total \in [0..n -> Nat] :
           /\ total[0] = 0
           /\ \A k \in 1..n : total[k] = total[k - 1] + f[k]
           /\ FoldFunction(+, 0, f) = total[n]
<1>1. \E iter : IsSum(iter, n, f) /\ FoldFunction(+, 0, f) = iter[1..n]
  <2>1. \E iter : iter = [s \in SUBSET (1..n) |->
              IF s = {} THEN 0
              ELSE f[CHOOSE x \in s : TRUE] + iter[s \ {CHOOSE x \in s : TRUE}]]
    <3>1. \E iter : IsSum(iter, n, f)
      BY SumExists
    <3> QED
      BY <3>1, Zenon DEF IsSum
  <2> DEFINE iter == CHOOSE iter : iter = [s \in SUBSET (1..n) |->
              IF s = {} THEN 0
              ELSE f[CHOOSE x \in s : TRUE] + iter[s \ {CHOOSE x \in s : TRUE}]]
  <2>2. IsSum(iter, n, f)
    BY <2>1 DEF IsSum
  <2>3. DOMAIN f = 1..n
    OBVIOUS
  <2>4. FoldFunction(+, 0, f) = iter[1..n]
    BY <2>3, Zenon DEF FoldFunction, FoldFunctionOnSet, MapThenFoldSet
  <2> HIDE DEF iter
  <2> QED
    BY <2>2, <2>4
<1>2. PICK iter : IsSum(iter, n, f) /\ FoldFunction(+, 0, f) = iter[1..n]
  BY <1>1
<1>3. IsSum(iter, n, f)
  BY <1>2
<1>4. FoldFunction(+, 0, f) = iter[1..n]
  BY <1>2
<1>5. iter[{}] = 0
  BY <1>3, SumAny
<1>6. \A s \in SUBSET (1..n) : iter[s] \in Nat
  BY <1>3, SumAny
<1>7. ASSUME NEW k \in 1..n
      PROVE  iter[1..k] = iter[1..(k - 1)] + f[k] /\ iter[1..(k - 1)] \in Nat
  <2>1. (1..k) \ {k} = 1..(k - 1) /\ k \in 1..k /\ 1..k \in SUBSET (1..n)
    OBVIOUS
  <2>2. iter[1..k] = f[k] + iter[(1..k) \ {k}]
    <3>1. Adds(iter, f, 1..k, k)
      BY <1>3, <2>1, SumAny
    <3> QED
      BY <3>1 DEF Adds
  <2>3. 1..(k - 1) \in SUBSET (1..n) /\ f[k] \in Nat
    OBVIOUS
  <2>4. iter[1..(k - 1)] \in Nat
    BY <1>6, <2>3
  <2> DEFINE a == iter[1..k]
             b == iter[1..(k - 1)]
  <2>5. a = f[k] + b /\ b \in Nat /\ f[k] \in Nat
    BY <2>1, <2>2, <2>3, <2>4
  <2> HIDE DEF a, b
  <2>6. a = b + f[k] /\ b \in Nat
    BY <2>5
  <2> QED
    BY <2>6 DEF a, b
<1> DEFINE total == [k \in 0..n |-> iter[1..k]]
<1>8. total \in [0..n -> Nat]
  <2>1. \A k \in 0..n : 1..k \in SUBSET (1..n)
    OBVIOUS
  <2> QED
    BY <1>6, <2>1
<1>9. total[0] = 0
  <2>1. 1..0 = {}
    OBVIOUS
  <2> QED
    BY <1>5, <2>1
<1>10. \A k \in 1..n : total[k] = total[k - 1] + f[k]
  BY <1>7
<1>11. total[n] = iter[1..n]
  OBVIOUS
<1> HIDE DEF total
<1> QED
  BY <1>4, <1>8, <1>9, <1>10, <1>11

=============================================================================
