----------------------------- MODULE SelectionProof -----------------------------
(***************************************************************************)
(* What Selected returns, for every sequence and every set.                *)
(*                                                                         *)
(* The recursive function it is defined by exists, and has values of the   *)
(* right type, by induction over the length.  The induction is on a set of *)
(* natural numbers, which needs no predicate as a parameter, and rests on  *)
(* there being no infinite descent among them.                             *)
(***************************************************************************)
EXTENDS Selection, SequenceTheorems, WellFoundedInduction, TLAPS

\* A set of natural numbers with 0, and with the successor of each of its elements, has
\* them all.
THEOREM SetInduction ==
  ASSUME NEW T \in SUBSET Nat, 0 \in T, \A n \in T : n + 1 \in T
  PROVE  T = Nat
<1> DEFINE R == {ss \in Nat \X Nat : ss[1] < ss[2]}
<1>1. IsWellFoundedOn(R, Nat)
  BY NatLessThanWellFounded DEF OpToRel
<1>2. SUFFICES ASSUME Nat \ T # {} PROVE FALSE
  OBVIOUS
<1>3. \A x, y \in Nat : x < y => <<x, y>> \in R
  OBVIOUS
<1> HIDE DEF R
<1>4. PICK x \in Nat \ T : \A y \in Nat \ T : ~(<<y, x>> \in R)
  BY <1>1, <1>2, WFMin
<1>5. x # 0 /\ x - 1 \in Nat
  BY <1>4
<1>6. x - 1 \notin T
  BY <1>4, <1>5
<1>7. <<x - 1, x>> \in R
  BY <1>3, <1>4, <1>5
<1>8. QED
  BY <1>4, <1>5, <1>6, <1>7

\* What is selected is a sequence over every set that has the elements of seq that are in
\* `set`: it has nothing else.
THEOREM SelectedType ==
  ASSUME NEW X, NEW seq \in Seq(X), NEW set, NEW Y,
         \A n \in 1 .. Len(seq) : seq[n] \in set => seq[n] \in Y
  PROVE  Selected(seq, set) \in Seq(Y)
<1> DEFINE After(g, n) == IF n = 0 THEN <<>>
                          ELSE IF seq[n] \in set THEN Append(g[n - 1], seq[n])
                          ELSE g[n - 1]
<1> DEFINE UpTo(k, g) == \A n \in 0 .. k : g[n] = After(g, n)
<1> DEFINE Exists(k) == k <= Len(seq) => \E g \in [0 .. k -> Seq(Y)] : UpTo(k, g)
<1> DEFINE T == {k \in Nat : Exists(k)}
<1>1. 0 \in T
  <2> DEFINE g == [n \in 0 .. 0 |-> <<>>]
  <2>1. <<>> \in Seq(Y)
    OBVIOUS
  <2>2. UpTo(0, g)
    BY <2>1
  <2>3. g \in [0 .. 0 -> Seq(Y)]
    BY <2>1
  <2>4. QED
    BY <2>2, <2>3
<1>2. ASSUME NEW k \in Nat, Exists(k)
      PROVE  Exists(k + 1)
  <2>1. SUFFICES ASSUME k + 1 <= Len(seq)
                 PROVE  \E g \in [0 .. k + 1 -> Seq(Y)] : UpTo(k + 1, g)
    OBVIOUS
  <2>2. PICK g \in [0 .. k -> Seq(Y)] : UpTo(k, g)
    <3>1. k <= Len(seq)
      BY <1>2, <2>1
    <3> HIDE DEF UpTo
    <3>2. QED
      BY <1>2, <3>1
  <2> DEFINE h == [n \in 0 .. k + 1 |-> IF n = k + 1 THEN After(g, n) ELSE g[n]]
  <2>3. /\ k + 1 \in 1 .. Len(seq)
        /\ seq[k + 1] \in set => seq[k + 1] \in Y
        /\ g[k] \in Seq(Y)
    BY <2>1, <2>2
  <2>4. After(g, k + 1) \in Seq(Y)
    BY <2>3
  <2>5. h \in [0 .. k + 1 -> Seq(Y)]
    <3>1. \A n \in 0 .. k + 1 : n # k + 1 => n \in 0 .. k
      OBVIOUS
    <3> HIDE DEF After
    <3>2. QED
      BY <2>2, <2>4, <3>1
  <2>6. ASSUME NEW n \in 0 .. k + 1
        PROVE  h[n] = After(h, n)
    <3>1. CASE n = 0
      BY <2>2, <3>1
    <3>2. CASE n # 0
      <4>1. n - 1 \in 0 .. k /\ n - 1 # k + 1 /\ h[n - 1] = g[n - 1]
        BY <3>2
      <4>2. After(h, n) = After(g, n)
        BY <3>2, <4>1
      <4>3. CASE n = k + 1
        BY <4>2, <4>3
      <4>4. CASE n # k + 1
        <5>1. n \in 0 .. k
          BY <4>4
        <5> HIDE DEF After
        <5>2. QED
          BY <2>2, <4>2, <4>4, <5>1
      <4>5. QED
        BY <4>3, <4>4
    <3>3. QED
      BY <3>1, <3>2
  <2> HIDE DEF h, After
  <2>7. QED
    BY <2>5, <2>6
<1>3. T = Nat
  <2>1. \A n \in T : n + 1 \in T
    <3> HIDE DEF Exists
    <3>1. QED
      BY <1>2
  <2>2. T \subseteq Nat
    OBVIOUS
  <2> HIDE DEF T
  <2>3. QED
    BY <1>1, <2>1, <2>2, SetInduction
<1>4. PICK g \in [0 .. Len(seq) -> Seq(Y)] : UpTo(Len(seq), g)
  <2>1. Len(seq) \in T
    BY <1>3
  <2>2. Exists(Len(seq))
    BY <2>1
  <2> HIDE DEF After
  <2>3. QED
    BY <2>2
<1> DEFINE Defined(f) == f = [n \in 0 .. Len(seq) |-> After(f, n)]
<1> DEFINE upTo == CHOOSE f : Defined(f)
<1>5. Defined(upTo)
  <2>1. Defined(g)
    BY <1>4
  <2> HIDE DEF Defined
  <2>2. QED
    BY <2>1
<1>6. Selected(seq, set) = upTo[Len(seq)]
  BY DEF Selected
<1>7. \A n \in 0 .. Len(seq) : upTo[n] = After(upTo, n)
  <2> HIDE DEF After, upTo
  <2>1. QED
    BY <1>5
<1> HIDE DEF upTo
<1> DEFINE U == {k \in Nat : k <= Len(seq) => upTo[k] \in Seq(Y)}
<1>8. 0 \in U
  <2>1. upTo[0] = <<>>
    BY <1>7
  <2>2. <<>> \in Seq(Y)
    OBVIOUS
  <2>3. QED
    BY <2>1, <2>2
<1>9. ASSUME NEW k \in U
      PROVE  k + 1 \in U
  <2>1. SUFFICES ASSUME k + 1 <= Len(seq)
                 PROVE  upTo[k + 1] \in Seq(Y)
    BY <1>9
  <2>2. /\ k + 1 \in 0 .. Len(seq) /\ k + 1 # 0 /\ (k + 1) - 1 = k
        /\ seq[k + 1] \in set => seq[k + 1] \in Y
        /\ upTo[k] \in Seq(Y)
    BY <1>9, <2>1
  <2>3. upTo[k + 1] = IF seq[k + 1] \in set THEN Append(upTo[k], seq[k + 1]) ELSE upTo[k]
    BY <1>7, <2>2
  <2>4. QED
    BY <2>2, <2>3
<1>10. U = Nat
  <2>1. \A n \in U : n + 1 \in U
    BY <1>9
  <2>2. U \subseteq Nat
    OBVIOUS
  <2> HIDE DEF U
  <2>3. QED
    BY <1>8, <2>1, <2>2, SetInduction
<1>11. QED
  BY <1>6, <1>10

=============================================================================
