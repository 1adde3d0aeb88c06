------------------------------ MODULE Descent ------------------------------
(***************************************************************************)
(* How the proofs say that a run comes to an end: they give it a rank, a    *)
(* tuple of naturals, and show that whatever changes the run lowers it.     *)
(* Nothing can be lowered without end.                                      *)
(***************************************************************************)
EXTENDS Naturals, FiniteSetTheorems, WellFoundedInduction, TLAPS

Less == OpToRel(<, Nat)

(* The lexicographic order of n-tuples of naturals, as pairs <<low, high>>. *)
Lower(n) == LexProductOrdering(Less, Nat, n)

(* A rank that every change of a run lowers can change finitely often:      *)
(* there is no infinite sequence of n-tuples, each lower than the last.     *)
THEOREM LowerIsWellFounded == \A n \in Nat : IsWellFoundedOn(Lower(n), [1 .. n -> Nat])
BY NatLessThanWellFounded, WFLexProductOrdering DEF Lower, Less

LEMMA LessThan == ASSUME NEW m \in Nat, NEW n \in Nat, m < n PROVE <<m, n>> \in Less
BY DEF Less, OpToRel

(* The first place where two tuples differ decides.                         *)
LEMMA LowerAt ==
  ASSUME NEW n \in Nat, NEW x \in [1 .. n -> Nat], NEW y \in [1 .. n -> Nat],
         NEW j \in 1 .. n, \A i \in 1 .. (j - 1) : x[i] = y[i], x[j] < y[j]
  PROVE  <<x, y>> \in Lower(n)
<1>1. <<x[j], y[j]>> \in Less
  BY LessThan
<1>2. <<x, y>>[1] = x /\ <<x, y>>[2] = y
  OBVIOUS
<1>3. QED
  BY <1>1, <1>2 DEF Lower, LexProductOrdering

(* What takes an element out of a finite set lowers its size.               *)
LEMMA OneLess ==
  ASSUME NEW S, IsFiniteSet(S), NEW x \in S
  PROVE  /\ Cardinality(S) \in Nat /\ Cardinality(S \ {x}) \in Nat
         /\ Cardinality(S) = Cardinality(S \ {x}) + 1
<1>1. IsFiniteSet(S \ {x}) /\ Cardinality(S \ {x}) = Cardinality(S) - 1
  BY FS_RemoveElement
<1>2. Cardinality(S) \in Nat /\ Cardinality(S \ {x}) \in Nat
  BY <1>1, FS_CardinalityType
<1>3. QED
  BY <1>1, <1>2

(* Among naturals there is a least.                                         *)
LEMMA Least ==
  ASSUME NEW S, S \subseteq Nat, S # {}
  PROVE  \E x \in S : \A y \in S : x <= y
<1>1. PICK x \in S : \A y \in S : <<y, x>> \notin Less
  BY NatLessThanWellFounded, WFMin DEF Less
<1>2. \A y \in S : ~(y < x)
  BY <1>1, LessThan
<1>3. QED
  BY <1>2

(* For two to four places.                                                  *)
LEMMA Lower2 ==
  ASSUME NEW a \in Nat, NEW b \in Nat,
         NEW u \in Nat, NEW v \in Nat,
         a < u \/ (a = u /\ b < v)
  PROVE  << <<a, b>>, <<u, v>> >> \in Lower(2)
<1> DEFINE low == <<a, b>>
           high == <<u, v>>
<1>1. low \in [1 .. 2 -> Nat] /\ high \in [1 .. 2 -> Nat]
  OBVIOUS
<1>2. low[1] = a /\ low[2] = b
      /\ high[1] = u /\ high[2] = v
  OBVIOUS
<1> SUFFICES <<low, high>> \in Lower(2)
  OBVIOUS
<1> HIDE DEF low, high
<1>3. 2 \in Nat /\ 1 \in 1 .. 2 /\ 2 \in 1 .. 2
  OBVIOUS
<1>4. CASE a < u
  <2>1. \A i \in 1 .. (1 - 1) : low[i] = high[i]
    OBVIOUS
  <2>2. low[1] < high[1]
    BY <1>2, <1>4
  <2>3. QED
    BY <1>1, <1>3, <2>1, <2>2, LowerAt
<1>5. CASE a = u /\ b < v
  <2>1. \A i \in 1 .. (2 - 1) : low[i] = high[i]
    <3>1. \A i \in 1 .. (2 - 1) : i = 1
      OBVIOUS
    <3>2. QED
      BY <1>2, <1>5, <3>1
  <2>2. low[2] < high[2]
    BY <1>2, <1>5
  <2>3. QED
    BY <1>1, <1>3, <2>1, <2>2, LowerAt
<1>6. QED
  BY <1>4, <1>5

LEMMA Lower3 ==
  ASSUME NEW a \in Nat, NEW b \in Nat, NEW c \in Nat,
         NEW u \in Nat, NEW v \in Nat, NEW w \in Nat,
         a < u \/ (a = u /\ (b < v \/ (b = v /\ c < w)))
  PROVE  << <<a, b, c>>, <<u, v, w>> >> \in Lower(3)
<1> DEFINE low == <<a, b, c>>
           high == <<u, v, w>>
<1>1. low \in [1 .. 3 -> Nat] /\ high \in [1 .. 3 -> Nat]
  OBVIOUS
<1>2. low[1] = a /\ low[2] = b /\ low[3] = c
      /\ high[1] = u /\ high[2] = v /\ high[3] = w
  OBVIOUS
<1> SUFFICES <<low, high>> \in Lower(3)
  OBVIOUS
<1> HIDE DEF low, high
<1>3. 3 \in Nat /\ 1 \in 1 .. 3 /\ 2 \in 1 .. 3 /\ 3 \in 1 .. 3
  OBVIOUS
<1>4. CASE a < u
  <2>1. \A i \in 1 .. (1 - 1) : low[i] = high[i]
    OBVIOUS
  <2>2. low[1] < high[1]
    BY <1>2, <1>4
  <2>3. QED
    BY <1>1, <1>3, <2>1, <2>2, LowerAt
<1>5. CASE a = u /\ b < v
  <2>1. \A i \in 1 .. (2 - 1) : low[i] = high[i]
    <3>1. \A i \in 1 .. (2 - 1) : i = 1
      OBVIOUS
    <3>2. QED
      BY <1>2, <1>5, <3>1
  <2>2. low[2] < high[2]
    BY <1>2, <1>5
  <2>3. QED
    BY <1>1, <1>3, <2>1, <2>2, LowerAt
<1>6. CASE a = u /\ b = v /\ c < w
  <2>1. \A i \in 1 .. (3 - 1) : low[i] = high[i]
    <3>1. \A i \in 1 .. (3 - 1) : i = 1 \/ i = 2
      OBVIOUS
    <3>2. QED
      BY <1>2, <1>6, <3>1
  <2>2. low[3] < high[3]
    BY <1>2, <1>6
  <2>3. QED
    BY <1>1, <1>3, <2>1, <2>2, LowerAt
<1>7. QED
  BY <1>4, <1>5, <1>6

LEMMA Lower4 ==
  ASSUME NEW a \in Nat, NEW b \in Nat, NEW c \in Nat, NEW d \in Nat,
         NEW u \in Nat, NEW v \in Nat, NEW w \in Nat, NEW x \in Nat,
         a < u \/ (a = u /\ (b < v \/ (b = v /\ (c < w \/ (c = w /\ d < x)))))
  PROVE  << <<a, b, c, d>>, <<u, v, w, x>> >> \in Lower(4)
<1> DEFINE low == <<a, b, c, d>>
           high == <<u, v, w, x>>
<1>1. low \in [1 .. 4 -> Nat] /\ high \in [1 .. 4 -> Nat]
  OBVIOUS
<1>2. low[1] = a /\ low[2] = b /\ low[3] = c /\ low[4] = d
      /\ high[1] = u /\ high[2] = v /\ high[3] = w /\ high[4] = x
  OBVIOUS
<1> SUFFICES <<low, high>> \in Lower(4)
  OBVIOUS
<1> HIDE DEF low, high
<1>3. 4 \in Nat /\ 1 \in 1 .. 4 /\ 2 \in 1 .. 4 /\ 3 \in 1 .. 4 /\ 4 \in 1 .. 4
  OBVIOUS
<1>4. CASE a < u
  <2>1. \A i \in 1 .. (1 - 1) : low[i] = high[i]
    OBVIOUS
  <2>2. low[1] < high[1]
    BY <1>2, <1>4
  <2>3. QED
    BY <1>1, <1>3, <2>1, <2>2, LowerAt
<1>5. CASE a = u /\ b < v
  <2>1. \A i \in 1 .. (2 - 1) : low[i] = high[i]
    <3>1. \A i \in 1 .. (2 - 1) : i = 1
      OBVIOUS
    <3>2. QED
      BY <1>2, <1>5, <3>1
  <2>2. low[2] < high[2]
    BY <1>2, <1>5
  <2>3. QED
    BY <1>1, <1>3, <2>1, <2>2, LowerAt
<1>6. CASE a = u /\ b = v /\ c < w
  <2>1. \A i \in 1 .. (3 - 1) : low[i] = high[i]
    <3>1. \A i \in 1 .. (3 - 1) : i = 1 \/ i = 2
      OBVIOUS
    <3>2. QED
      BY <1>2, <1>6, <3>1
  <2>2. low[3] < high[3]
    BY <1>2, <1>6
  <2>3. QED
    BY <1>1, <1>3, <2>1, <2>2, LowerAt
<1>7. CASE a = u /\ b = v /\ c = w /\ d < x
  <2>1. \A i \in 1 .. (4 - 1) : low[i] = high[i]
    <3>1. \A i \in 1 .. (4 - 1) : i = 1 \/ i = 2 \/ i = 3
      OBVIOUS
    <3>2. QED
      BY <1>2, <1>7, <3>1
  <2>2. low[4] < high[4]
    BY <1>2, <1>7
  <2>3. QED
    BY <1>1, <1>3, <2>1, <2>2, LowerAt
<1>8. QED
  BY <1>4, <1>5, <1>6, <1>7
=============================================================================
