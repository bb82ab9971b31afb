----------------------------- MODULE SumProofs -----------------------------
(***************************************************************************)
(* Sums over the subsets of a finite set, as MapThenSumSet forms them: it   *)
(* takes out the element that CHOOSE gives for what is left.  A sum exists  *)
(* and has the value it should have by induction over the number of the    *)
(* elements; every induction is by a least counterexample (WFMin).          *)
(***************************************************************************)
EXTENDS Integers, FiniteSets, FiniteSetTheorems, WellFoundedInduction, TLAPS

-----------------------------------------------------------------------------
(* Induction. *)

(* A set that has 0, and the next number with every number, has them all. *)
LEMMA Induction ==
  ASSUME NEW T, 0 \in T, \A n \in Nat : n \in T => n + 1 \in T
  PROVE  Nat \subseteq T
<1> SUFFICES ASSUME Nat \ T # {}
             PROVE  FALSE
  OBVIOUS
<1>1. PICK x \in Nat \ T : \A y \in Nat \ T : <<y, x>> \notin OpToRel(<, Nat)
  BY WFMin, NatLessThanWellFounded
<1>2. \A y \in Nat \ T : ~(y < x)
  BY <1>1 DEF OpToRel
<1>3. x # 0
  OBVIOUS
<1>4. x - 1 \in Nat /\ x - 1 < x /\ (x - 1) + 1 = x
  BY <1>3
<1>5. x - 1 \in T
  BY <1>2, <1>4
<1> QED BY <1>4, <1>5

-----------------------------------------------------------------------------
(* Sums. *)

(* The element a sum takes out of s. *)
Pick(s) == CHOOSE x \in s : TRUE

(* What is left without the element is smaller by one. *)
LEMMA PickFacts ==
  ASSUME NEW S, IsFiniteSet(S), NEW s \in SUBSET S
  PROVE  /\ Cardinality(s) \in Nat /\ (Cardinality(s) = 0 <=> s = {})
         /\ s # {} => /\ Pick(s) \in s /\ s \ {Pick(s)} \in SUBSET S
                      /\ Cardinality(s \ {Pick(s)}) = Cardinality(s) - 1
<1>1. IsFiniteSet(s)
  BY FS_Subset
<1>2. Cardinality(s) \in Nat /\ (Cardinality(s) = 0 <=> s = {})
  BY <1>1, FS_CardinalityType, FS_EmptySet
<1>3. s # {} => Pick(s) \in s
  BY DEF Pick
<1>4. s # {} => Cardinality(s \ {Pick(s)}) = Cardinality(s) - 1
  BY <1>1, <1>3, FS_RemoveElement
<1> QED BY <1>2, <1>3, <1>4

(* Induction over the subsets of a finite set. *)
LEMMA SubsetInduction ==
  ASSUME NEW S, IsFiniteSet(S), NEW T, {} \in T,
         \A s \in SUBSET S : s # {} /\ s \ {Pick(s)} \in T => s \in T
  PROVE  SUBSET S \subseteq T
<1> DEFINE K == {n \in Nat : \A s \in SUBSET S : Cardinality(s) = n => s \in T}
<1>1. 0 \in K
  BY PickFacts
<1>2. ASSUME NEW n \in Nat, n \in K
      PROVE  n + 1 \in K
  <2> SUFFICES ASSUME NEW s \in SUBSET S, Cardinality(s) = n + 1
               PROVE  s \in T
    OBVIOUS
  <2>1. s # {}
    BY PickFacts
  <2>2. s \ {Pick(s)} \in SUBSET S /\ Cardinality(s \ {Pick(s)}) = (n + 1) - 1
    BY <2>1, PickFacts
  <2>3. s \ {Pick(s)} \in T
    BY <1>2, <2>2
  <2> QED BY <2>1, <2>3
<1>3. Nat \subseteq K
  <2> HIDE DEF K
  <2> QED BY <1>1, <1>2, Induction
<1>4. ASSUME NEW s \in SUBSET S
      PROVE  s \in T
  BY <1>3, PickFacts
<1> QED BY <1>4

(* The solutions of the recursion of a sum over the subsets of at most n     *)
(* elements.                                                                 *)
Small(S, n) == {s \in SUBSET S : Cardinality(s) <= n}
SumSolutions(S, n, o) ==
  {g \in [Small(S, n) -> Nat] : \A s \in Small(S, n) :
     g[s] = IF s = {} THEN 0 ELSE o[Pick(s)] + g[s \ {Pick(s)}]}

(* The recursion has a solution. *)
LEMMA SumExists ==
  ASSUME NEW S, IsFiniteSet(S), NEW o \in [S -> Nat], NEW n \in Nat
  PROVE  SumSolutions(S, n, o) # {}
<1> DEFINE K == {k \in Nat : SumSolutions(S, k, o) # {}}
<1>1. 0 \in K
  <2> DEFINE g == [s \in Small(S, 0) |-> 0]
  <2>1. \A s \in Small(S, 0) : s = {}
    <3> SUFFICES ASSUME NEW s \in SUBSET S, Cardinality(s) <= 0
                 PROVE  s = {}
      BY DEF Small
    <3>1. Cardinality(s) \in Nat /\ (Cardinality(s) = 0 <=> s = {})
      BY PickFacts
    <3> QED BY <3>1
  <2>2. g \in SumSolutions(S, 0, o)
    BY <2>1 DEF SumSolutions
  <2> QED BY <2>2
<1>2. ASSUME NEW k \in Nat, k \in K
      PROVE  k + 1 \in K
  <2>1. PICK g : g \in SumSolutions(S, k, o)
    BY <1>2
  <2>2. /\ g \in [Small(S, k) -> Nat]
        /\ \A s \in Small(S, k) : g[s] = IF s = {} THEN 0 ELSE o[Pick(s)] + g[s \ {Pick(s)}]
    BY <2>1 DEF SumSolutions
  <2> DEFINE h == [s \in Small(S, k + 1) |->
                     IF s \in Small(S, k) THEN g[s] ELSE o[Pick(s)] + g[s \ {Pick(s)}]]
  <2>3. \A s \in Small(S, k + 1) : s \in SUBSET S /\ Cardinality(s) \in Nat
        /\ Cardinality(s) <= k + 1
    BY PickFacts DEF Small
  <2>4. ASSUME NEW s \in Small(S, k + 1), s # {}
        PROVE  /\ Pick(s) \in S /\ s \ {Pick(s)} \in Small(S, k)
               /\ s \ {Pick(s)} \in Small(S, k + 1)
    <3>1. /\ Pick(s) \in s /\ s \ {Pick(s)} \in SUBSET S
          /\ Cardinality(s \ {Pick(s)}) = Cardinality(s) - 1
      BY <2>3, <2>4, PickFacts
    <3>2. Cardinality(s \ {Pick(s)}) <= k /\ Cardinality(s \ {Pick(s)}) <= k + 1
      BY <2>3, <3>1
    <3> QED BY <2>3, <3>1, <3>2 DEF Small
  <2>5. {} \in Small(S, k)
    BY FS_EmptySet DEF Small
  <2>6. ASSUME NEW s \in Small(S, k + 1)
        PROVE  h[s] \in Nat /\ h[s] = IF s = {} THEN 0 ELSE o[Pick(s)] + h[s \ {Pick(s)}]
    <3>1. CASE s = {}
      <4>1. h[s] = g[s]
        BY <2>5, <3>1
      <4> QED BY <2>2, <2>5, <3>1, <4>1
    <3>2. CASE s # {}
      <4>1. o[Pick(s)] \in Nat /\ g[s \ {Pick(s)}] \in Nat /\ h[s \ {Pick(s)}] = g[s \ {Pick(s)}]
        BY <2>2, <2>4, <3>2
      <4>2. h[s] = o[Pick(s)] + g[s \ {Pick(s)}]
        BY <2>2, <3>2
      <4> HIDE DEF h
      <4> QED BY <3>2, <4>1, <4>2
    <3> QED BY <3>1, <3>2
  <2>7. h \in [Small(S, k + 1) -> Nat]
    <3>1. \A s \in Small(S, k + 1) : h[s] \in Nat
      <4> HIDE DEF h
      <4> QED BY <2>6
    <3> QED BY <3>1
  <2> HIDE DEF h
  <2>8. h \in SumSolutions(S, k + 1, o)
    BY <2>6, <2>7 DEF SumSolutions
  <2> QED BY <2>8
<1>3. Nat \subseteq K
  <2> HIDE DEF K
  <2> QED BY <1>1, <1>2, Induction
<1> QED BY <1>3

(* The recursion of MapThenSumSet, as it defines it. *)
SumIter(S, o) ==
  CHOOSE g : g = [s \in SUBSET S |-> IF s = {} THEN 0 ELSE o[Pick(s)] + g[s \ {Pick(s)}]]

(* g has the sums of o over all subsets of S. *)
IsSum(S, o, g) ==
  /\ DOMAIN g = SUBSET S
  /\ \A s \in SUBSET S : g[s] = IF s = {} THEN 0 ELSE o[Pick(s)] + g[s \ {Pick(s)}]

(* The recursion has its solution. *)
LEMMA SumIterIsSum ==
  ASSUME NEW S, IsFiniteSet(S), NEW o \in [S -> Nat]
  PROVE  IsSum(S, o, SumIter(S, o))
<1> DEFINE n == Cardinality(S)
<1>1. n \in Nat
  BY FS_CardinalityType
<1>2. Small(S, n) = SUBSET S
  BY FS_Subset DEF Small
<1>3. PICK h : h \in SumSolutions(S, n, o)
  BY <1>1, SumExists
<1>4. h = [s \in SUBSET S |-> IF s = {} THEN 0 ELSE o[Pick(s)] + h[s \ {Pick(s)}]]
  BY <1>2, <1>3 DEF SumSolutions
<1> DEFINE g == SumIter(S, o)
<1>5. g = [s \in SUBSET S |-> IF s = {} THEN 0 ELSE o[Pick(s)] + g[s \ {Pick(s)}]]
  BY <1>4 DEF SumIter
<1> HIDE DEF g
<1>6. IsSum(S, o, g)
  BY <1>5 DEF IsSum
<1> QED BY <1>6 DEF g

(* A sum is a number, and no less than what it adds. *)
LEMMA SumType ==
  ASSUME NEW S, IsFiniteSet(S), NEW o \in [S -> Nat], NEW g, IsSum(S, o, g), NEW s \in SUBSET S
  PROVE  g[s] \in Nat /\ \A x \in s : o[x] <= g[s]
<1> DEFINE T == {t \in SUBSET S : g[t] \in Nat /\ \A x \in t : o[x] <= g[t]}
<1>0. g[{}] = 0
  BY DEF IsSum
<1>1. {} \in T
  BY <1>0
<1>2. ASSUME NEW t \in SUBSET S, t # {}, t \ {Pick(t)} \in T
      PROVE  t \in T
  <2>1. g[t] = o[Pick(t)] + g[t \ {Pick(t)}]
    BY <1>2 DEF IsSum
  <2>2. Pick(t) \in t
    BY <1>2 DEF Pick
  <2>3. o[Pick(t)] \in Nat /\ g[t \ {Pick(t)}] \in Nat /\ \A x \in t : o[x] \in Nat
    BY <1>2, <2>2
  <2>4. \A x \in t : o[x] <= g[t]
    <3> SUFFICES ASSUME NEW x \in t
                 PROVE  o[x] <= g[t]
      OBVIOUS
    <3>1. CASE x = Pick(t)
      BY <2>1, <2>3, <3>1
    <3>2. CASE x # Pick(t)
      <4>1. o[x] <= g[t \ {Pick(t)}]
        BY <1>2, <3>2
      <4> QED BY <2>1, <2>3, <4>1
    <3> QED BY <3>1, <3>2
  <2>5. g[t] \in Nat
    BY <2>1, <2>3
  <2> QED BY <2>4, <2>5
<1>3. SUBSET S \subseteq T
  <2> HIDE DEF T
  <2> QED BY <1>1, <1>2, SubsetInduction
<1> QED BY <1>3

(* One more at one place makes the sum one more. *)
LEMMA SumAdd ==
  ASSUME NEW S, IsFiniteSet(S), NEW o \in [S -> Nat], NEW g, IsSum(S, o, g), NEW x \in S,
         NEW r \in [S -> Nat], NEW h, IsSum(S, r, h),
         r[x] = o[x] + 1, \A y \in S : y # x => r[y] = o[y]
  PROVE  h[S] = g[S] + 1
<1> DEFINE T == {t \in SUBSET S : h[t] = IF x \in t THEN g[t] + 1 ELSE g[t]}
<1>1. {} \in T
  BY DEF IsSum
<1>2. ASSUME NEW t \in SUBSET S, t # {}, t \ {Pick(t)} \in T
      PROVE  t \in T
  <2>1. g[t] = o[Pick(t)] + g[t \ {Pick(t)}] /\ h[t] = r[Pick(t)] + h[t \ {Pick(t)}]
    BY <1>2 DEF IsSum
  <2>2. Pick(t) \in t
    BY <1>2 DEF Pick
  <2>3. o[Pick(t)] \in Nat /\ r[Pick(t)] \in Nat
    BY <2>2
  <2>4. g[t \ {Pick(t)}] \in Nat
    BY SumType
  <2>5. h[t \ {Pick(t)}] = IF x \in t \ {Pick(t)} THEN g[t \ {Pick(t)}] + 1 ELSE g[t \ {Pick(t)}]
    BY <1>2
  <2>6. CASE x = Pick(t)
    BY <2>1, <2>2, <2>3, <2>4, <2>5, <2>6
  <2>7. CASE x # Pick(t)
    <3>1. r[Pick(t)] = o[Pick(t)] /\ (x \in t <=> x \in t \ {Pick(t)})
      BY <2>2, <2>7
    <3> QED BY <2>1, <2>3, <2>4, <2>5, <3>1
  <2> QED BY <2>6, <2>7
<1>3. SUBSET S \subseteq T
  <2> HIDE DEF T
  <2> QED BY <1>1, <1>2, SubsetInduction
<1>4. S \in T
  BY <1>3
<1> QED BY <1>4

(* Less at every place makes no larger sum. *)
LEMMA SumLess ==
  ASSUME NEW S, IsFiniteSet(S), NEW o \in [S -> Nat], NEW g, IsSum(S, o, g),
         NEW r \in [S -> Nat], NEW h, IsSum(S, r, h),
         \A y \in S : r[y] <= o[y]
  PROVE  h[S] <= g[S]
<1> DEFINE T == {t \in SUBSET S : h[t] <= g[t]}
<1>0. g[{}] = 0 /\ h[{}] = 0
  BY DEF IsSum
<1>1. {} \in T
  BY <1>0
<1>2. ASSUME NEW t \in SUBSET S, t # {}, t \ {Pick(t)} \in T
      PROVE  t \in T
  <2>1. g[t] = o[Pick(t)] + g[t \ {Pick(t)}] /\ h[t] = r[Pick(t)] + h[t \ {Pick(t)}]
    BY <1>2 DEF IsSum
  <2>2. Pick(t) \in S
    BY <1>2 DEF Pick
  <2>3. o[Pick(t)] \in Nat /\ r[Pick(t)] \in Nat /\ r[Pick(t)] <= o[Pick(t)]
    BY <2>2
  <2>4. g[t \ {Pick(t)}] \in Nat /\ h[t \ {Pick(t)}] \in Nat
    BY SumType
  <2>5. h[t \ {Pick(t)}] <= g[t \ {Pick(t)}]
    BY <1>2
  <2> QED BY <2>1, <2>3, <2>4, <2>5
<1>3. SUBSET S \subseteq T
  <2> HIDE DEF T
  <2> QED BY <1>1, <1>2, SubsetInduction
<1>4. S \in T
  BY <1>3
<1> QED BY <1>4

(* Nothing sums to nothing. *)
LEMMA SumNone ==
  ASSUME NEW S, IsFiniteSet(S), NEW o \in [S -> Nat], NEW g, IsSum(S, o, g), \A y \in S : o[y] = 0
  PROVE  g[S] = 0
<1> DEFINE T == {t \in SUBSET S : g[t] = 0}
<1>1. {} \in T
  BY DEF IsSum
<1>2. ASSUME NEW t \in SUBSET S, t # {}, t \ {Pick(t)} \in T
      PROVE  t \in T
  <2>1. g[t] = o[Pick(t)] + g[t \ {Pick(t)}]
    BY <1>2 DEF IsSum
  <2>2. o[Pick(t)] = 0
    BY <1>2 DEF Pick
  <2> QED BY <1>2, <2>1, <2>2
<1>3. SUBSET S \subseteq T
  <2> HIDE DEF T
  <2> QED BY <1>1, <1>2, SubsetInduction
<1> QED BY <1>3

(* It does not matter which element is taken out. *)
LEMMA SumWithout ==
  ASSUME NEW S, IsFiniteSet(S), NEW o \in [S -> Nat], NEW g, IsSum(S, o, g),
         NEW s \in SUBSET S, NEW x \in s
  PROVE  g[s] = o[x] + g[s \ {x}]
<1> DEFINE K == {n \in Nat : \A t \in SUBSET S :
                   Cardinality(t) = n => \A y \in t : g[t] = o[y] + g[t \ {y}]}
<1>0. \A t \in SUBSET S : \A y \in t : Cardinality(t) \in Nat
      /\ Cardinality(t \ {y}) = Cardinality(t) - 1
  BY FS_Subset, FS_CardinalityType, FS_RemoveElement
<1>1. 0 \in K
  BY PickFacts
<1>2. ASSUME NEW n \in Nat, n \in K
      PROVE  n + 1 \in K
  <2> SUFFICES ASSUME NEW t \in SUBSET S, Cardinality(t) = n + 1, NEW y \in t
               PROVE  g[t] = o[y] + g[t \ {y}]
    OBVIOUS
  <2> DEFINE p == Pick(t)
  <2>1. p \in t
    BY DEF Pick
  <2>2. g[t] = o[p] + g[t \ {p}]
    BY DEF IsSum
  <2> HIDE DEF p
  <2>3. CASE y = p
    BY <2>2, <2>3
  <2>4. CASE y # p
    <3>1. Cardinality(t \ {p}) = n /\ Cardinality(t \ {y}) = n
      BY <1>0, <2>1
    <3>2. t \ {p} \in SUBSET S /\ t \ {y} \in SUBSET S /\ y \in t \ {p} /\ p \in t \ {y}
      BY <2>1, <2>4
    <3>3. g[t \ {p}] = o[y] + g[(t \ {p}) \ {y}] /\ g[t \ {y}] = o[p] + g[(t \ {y}) \ {p}]
      BY <1>2, <3>1, <3>2
    <3>4. (t \ {p}) \ {y} = (t \ {y}) \ {p} /\ (t \ {y}) \ {p} \in SUBSET S
      OBVIOUS
    <3>5. g[(t \ {y}) \ {p}] \in Nat
      BY <3>4, SumType
    <3>6. o[y] \in Nat /\ o[p] \in Nat
      BY <2>1
    <3> DEFINE r == g[(t \ {y}) \ {p}]
    <3>7. g[t] = o[p] + (o[y] + r) /\ g[t \ {y}] = o[p] + r /\ r \in Nat
      BY <2>2, <3>3, <3>4, <3>5
    <3> HIDE DEF r
    <3>8. o[p] + (o[y] + r) = o[y] + (o[p] + r)
      BY <3>6, <3>7
    <3> QED BY <3>7, <3>8
  <2> QED BY <2>3, <2>4
<1>3. Nat \subseteq K
  <2> HIDE DEF K
  <2> QED BY <1>1, <1>2, Induction
<1>4. Cardinality(s) \in Nat
  BY <1>0
<1> QED BY <1>3, <1>4
============================================================================
