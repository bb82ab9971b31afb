--------------------------- MODULE SnooperProofs ---------------------------
(***************************************************************************)
(* What the generation of snooper objects can and cannot produce. It is     *)
(* made of folds and limited by a sum; a fold is a recursive function,      *)
(* which exists and has the values it should have by induction over the     *)
(* length of what is folded.                                                *)
(***************************************************************************)
EXTENDS Snooper, SumProofs, SequenceTheorems

-----------------------------------------------------------------------------
(* Folds. *)

(* A bounded set of numbers has its maximum. *)
LEMMA MaxOf ==
  ASSUME NEW n \in Nat, NEW s, s \subseteq 1 .. n, s # {}
  PROVE  Max(s) \in s /\ \A y \in s : y <= Max(s)
<1> DEFINE T == {m \in Nat : \A y \in s : y <= m}
<1>1. n \in T
  OBVIOUS
<1>2. PICK x \in T : \A y \in T : <<y, x>> \notin OpToRel(<, Nat)
  BY <1>1, WFMin, NatLessThanWellFounded
<1>3. \A y \in T : ~(y < x)
  BY <1>2 DEF OpToRel
<1>4. x \in s
  <2> SUFFICES ASSUME x \notin s PROVE FALSE
    OBVIOUS
  <2>1. x \in Nat /\ \A y \in s : y \in Nat /\ y >= 1 /\ y <= x /\ y # x
    OBVIOUS
  <2>2. \A y \in s : y <= x - 1
    BY <2>1
  <2>3. x - 1 \in Nat
    <3>1. PICK y \in s : TRUE
      OBVIOUS
    <3> QED BY <2>1, <3>1
  <2>4. x - 1 \in T
    BY <2>2, <2>3
  <2> QED BY <1>3, <2>1, <2>4
<1>5. \A y \in s : x >= y
  OBVIOUS
<1> QED BY <1>4, <1>5 DEF Max

(* The maximum of a set that has the top. *)
LEMMA MaxTop ==
  ASSUME NEW k \in Nat, NEW s, s \subseteq 1 .. k + 1, k + 1 \in s
  PROVE  Max(s) = k + 1 /\ s \ {k + 1} \subseteq 1 .. k
<1>1. k + 1 \in Nat /\ s # {}
  OBVIOUS
<1>2. Max(s) \in s /\ \A y \in s : y <= Max(s)
  BY <1>1, MaxOf
<1>3. Max(s) \in 1 .. k + 1 /\ k + 1 <= Max(s)
  BY <1>2
<1>4. Max(s) = k + 1
  BY <1>3
<1> QED BY <1>4

(* The steps of a fold over n things, and the solutions of its recursion    *)
(* over the subsets of 1 .. n.                                              *)
Steps(n, T) == [1 .. n -> [T -> T]]
FoldSolutions(n, T, b, F) ==
  {g \in [SUBSET (1 .. n) -> T] : \A s \in SUBSET (1 .. n) :
     g[s] = IF s = {} THEN b ELSE F[Max(s)][g[s \ {Max(s)}]]}

(* The recursion of FoldLeft over the subsets of 1 .. n has a solution. *)
LEMMA FoldExists ==
  ASSUME NEW n \in Nat, NEW T, NEW b \in T, NEW F \in Steps(n, T)
  PROVE  FoldSolutions(n, T, b, F) # {}
<1> USE DEF Steps
<1> DEFINE Solutions(k) == FoldSolutions(k, T, b, F)
           K == {k \in Nat : k <= n => Solutions(k) # {}}
<1>1. Solutions(0) # {}
  <2> DEFINE g0 == [s \in SUBSET (1 .. 0) |-> b]
  <2>1. 1 .. 0 = {}
    OBVIOUS
  <2>2. g0 \in Solutions(0)
    BY <2>1 DEF FoldSolutions
  <2> QED BY <2>2
<1>2. ASSUME NEW k \in Nat, k + 1 <= n, NEW g \in Solutions(k)
      PROVE  Solutions(k + 1) # {}
  <2> DEFINE h == [s \in SUBSET (1 .. k + 1) |->
                     IF k + 1 \in s THEN F[k + 1][g[s \ {k + 1}]] ELSE g[s]]
  <2>1. /\ g \in [SUBSET (1 .. k) -> T]
        /\ \A s \in SUBSET (1 .. k) : g[s] = IF s = {} THEN b ELSE F[Max(s)][g[s \ {Max(s)}]]
    BY DEF FoldSolutions
  <2> HIDE DEF Solutions
  <2>2. k + 1 \in 1 .. n
    BY <1>2
  <2>3. ASSUME NEW s \in SUBSET (1 .. k + 1), k + 1 \in s
        PROVE  h[s] \in T /\ h[s] = F[Max(s)][h[s \ {Max(s)}]]
    <3>1. Max(s) = k + 1 /\ s \ {k + 1} \in SUBSET (1 .. k)
      BY <2>3, MaxTop
    <3>2. g[s \ {k + 1}] \in T /\ h[s] = F[k + 1][g[s \ {k + 1}]]
      BY <2>1, <2>3, <3>1
    <3>3. h[s] \in T
      BY <2>2, <3>2
    <3>4. s \ {k + 1} \in SUBSET (1 .. k + 1) /\ k + 1 \notin s \ {k + 1}
      OBVIOUS
    <3>5. h[s \ {k + 1}] = g[s \ {k + 1}]
      BY <3>4
    <3> HIDE DEF h
    <3> QED BY <3>1, <3>2, <3>3, <3>5
  <2>4. ASSUME NEW s \in SUBSET (1 .. k + 1), k + 1 \notin s
        PROVE  h[s] \in T /\ h[s] = IF s = {} THEN b ELSE F[Max(s)][h[s \ {Max(s)}]]
    <3>1. s \in SUBSET (1 .. k)
      BY <2>4
    <3>2. h[s] = g[s] /\ g[s] \in T
      BY <2>1, <2>4, <3>1
    <3>3. s \ {Max(s)} \in SUBSET (1 .. k + 1) /\ k + 1 \notin s \ {Max(s)}
      BY <2>4
    <3>4. h[s \ {Max(s)}] = g[s \ {Max(s)}]
      BY <3>3
    <3>5. g[s] = IF s = {} THEN b ELSE F[Max(s)][g[s \ {Max(s)}]]
      BY <2>1, <3>1
    <3> HIDE DEF h
    <3> QED BY <3>2, <3>4, <3>5
  <2>5. h \in [SUBSET (1 .. k + 1) -> T]
    <3>1. \A s \in SUBSET (1 .. k + 1) : h[s] \in T
      <4> HIDE DEF h
      <4> QED BY <2>3, <2>4
    <3> QED BY <3>1
  <2> HIDE DEF h
  <2>6. \A s \in SUBSET (1 .. k + 1) : h[s] = IF s = {} THEN b ELSE F[Max(s)][h[s \ {Max(s)}]]
    BY <2>3, <2>4
  <2>7. h \in Solutions(k + 1)
    BY <2>5, <2>6 DEF Solutions, FoldSolutions
  <2> QED BY <2>7
<1> HIDE DEF Solutions
<1>3. 0 \in K
  BY <1>1
<1>4. ASSUME NEW k \in Nat, k \in K
      PROVE  k + 1 \in K
  <2> SUFFICES ASSUME k + 1 <= n
               PROVE  Solutions(k + 1) # {}
    OBVIOUS
  <2>1. Solutions(k) # {}
    BY <1>4
  <2> QED BY <1>2, <2>1
<1>5. n \in K
  <2> HIDE DEF K
  <2>1. Nat \subseteq K
    BY <1>3, <1>4, Induction
  <2> QED BY <2>1
<1>6. Solutions(n) # {}
  BY <1>5
<1> QED BY <1>6 DEF Solutions

(* What holds at the start of a fold and is kept by its steps holds at its   *)
(* end.                                                                      *)
LEMMA FoldKeeps ==
  ASSUME NEW n \in Nat, NEW T, NEW g, g[{}] \in T,
         \A s \in SUBSET (1 .. n) : s # {} => (g[s \ {Max(s)}] \in T => g[s] \in T)
  PROVE  g[1 .. n] \in T
<1> DEFINE K == {k \in Nat : k <= n => \A s \in SUBSET (1 .. k) : g[s] \in T}
<1>1. 0 \in K
  <2>1. \A s \in SUBSET (1 .. 0) : s = {}
    OBVIOUS
  <2>2. \A s \in SUBSET (1 .. 0) : g[s] \in T
    BY <2>1
  <2> QED BY <2>2
<1>2. ASSUME NEW k \in Nat, k \in K
      PROVE  k + 1 \in K
  <2> SUFFICES ASSUME k + 1 <= n, NEW s \in SUBSET (1 .. k + 1)
               PROVE  g[s] \in T
    OBVIOUS
  <2>1. CASE k + 1 \notin s
    <3>1. s \in SUBSET (1 .. k) /\ k <= n
      BY <2>1
    <3> QED BY <1>2, <3>1
  <2>2. CASE k + 1 \in s
    <3>2. Max(s) = k + 1
      BY <2>2, MaxTop
    <3>3. s \ {k + 1} \in SUBSET (1 .. k) /\ k <= n /\ s \in SUBSET (1 .. n) /\ s # {}
      BY <2>2
    <3>4. g[s \ {Max(s)}] \in T
      BY <1>2, <3>2, <3>3
    <3> QED BY <3>3, <3>4
  <2> QED BY <2>1, <2>2
<1>3. n \in K
  <2> HIDE DEF K
  <2>1. Nat \subseteq K
    BY <1>1, <1>2, Induction
  <2> QED BY <2>1
<1>4. 1 .. n \in SUBSET (1 .. n)
  OBVIOUS
<1> QED BY <1>3, <1>4

(* The first k + 1 numbers are the first k and the next. *)
LEMMA Segment ==
  ASSUME NEW k \in Nat
  PROVE  /\ Max(1 .. k + 1) = k + 1 /\ (1 .. k + 1) \ {k + 1} = 1 .. k
         /\ 1 .. k + 1 # {} /\ 1 .. 0 = {}
<1>1. k + 1 \in 1 .. k + 1 /\ (1 .. k + 1) \ {k + 1} = 1 .. k /\ 1 .. 0 = {}
  OBVIOUS
<1> QED BY <1>1, MaxTop

(* The same for what depends on how many steps were taken. *)
LEMMA FoldChain ==
  ASSUME NEW n \in Nat, NEW T, NEW g, <<0, g[{}]>> \in T,
         \A k \in Nat : k < n /\ <<k, g[1 .. k]>> \in T => <<k + 1, g[1 .. k + 1]>> \in T
  PROVE  <<n, g[1 .. n]>> \in T
<1> DEFINE K == {k \in Nat : k <= n => <<k, g[1 .. k]>> \in T}
<1>1. 0 \in K
  BY Segment
<1>2. ASSUME NEW k \in Nat, k \in K
      PROVE  k + 1 \in K
  <2> SUFFICES ASSUME k + 1 <= n
               PROVE  <<k + 1, g[1 .. k + 1]>> \in T
    OBVIOUS
  <2>1. k < n /\ k <= n
    OBVIOUS
  <2>2. <<k, g[1 .. k]>> \in T
    BY <1>2, <2>1
  <2> QED BY <2>1, <2>2
<1>3. n \in K
  <2> HIDE DEF K
  <2>1. Nat \subseteq K
    BY <1>1, <1>2, Induction
  <2> QED BY <2>1
<1> QED BY <1>3

-----------------------------------------------------------------------------
(* How many objects there are. *)

(* There are finitely many objects. *)
LEMMA ObjFinite == IsFiniteSet(Obj)
<1> DEFINE P == {ProcObj(p) : p \in Procs}
           C == {ConObj(c) : c \in Containers}
<1>1. IsFiniteSet(P)
  <2> DEFINE f == [p \in Procs |-> ProcObj(p)]
  <2>1. f \in Surjection(Procs, P)
    BY DEF Surjection
  <2> QED BY <2>1, FS_Surjection, MachineAssumption
<1>2. IsFiniteSet(C)
  <2> DEFINE f == [c \in Containers |-> ConObj(c)]
  <2>1. f \in Surjection(Containers, C)
    BY DEF Surjection
  <2> QED BY <2>1, FS_Surjection, MachineAssumption
<1>3. Obj = P \cup C
  BY DEF Obj, ProcObj, ConObj
<1> QED BY <1>1, <1>2, <1>3, FS_Union

(* ObjNum is the sum that MapThenSumSet forms. *)
LEMMA ObjNumIs ==
  ASSUME NEW o
  PROVE  ObjNum(o) = SumIter(Obj, o)[Obj]
BY DEF ObjNum, MapThenSumSet, MapThenFoldSet, SumIter, Pick

(* What the proofs need of ObjNum. *)
LEMMA ObjNumFacts ==
  /\ ObjNum(NoObjs) = 0
  /\ \A o \in [Obj -> Nat] : ObjNum(o) \in Nat /\ \A x \in Obj : o[x] <= ObjNum(o)
  /\ \A o, r \in [Obj -> Nat] : \A x \in Obj :
       r[x] = o[x] + 1 /\ (\A y \in Obj : y # x => r[y] = o[y]) => ObjNum(r) = ObjNum(o) + 1
  /\ \A o, r \in [Obj -> Nat] : (\A y \in Obj : r[y] <= o[y]) => ObjNum(r) <= ObjNum(o)
<1>1. \A o \in [Obj -> Nat] : IsSum(Obj, o, SumIter(Obj, o)) /\ ObjNum(o) = SumIter(Obj, o)[Obj]
  BY ObjFinite, SumIterIsSum, ObjNumIs
<1>2. NoObjs \in [Obj -> Nat]
  BY DEF NoObjs
<1>3. ObjNum(NoObjs) = 0
  BY <1>1, <1>2, ObjFinite, SumNone DEF NoObjs
<1>4. ASSUME NEW o \in [Obj -> Nat]
      PROVE  ObjNum(o) \in Nat /\ \A x \in Obj : o[x] <= ObjNum(o)
  BY <1>1, ObjFinite, SumType
<1>5. ASSUME NEW o \in [Obj -> Nat], NEW r \in [Obj -> Nat], NEW x \in Obj,
             r[x] = o[x] + 1, \A y \in Obj : y # x => r[y] = o[y]
      PROVE  ObjNum(r) = ObjNum(o) + 1
  BY <1>1, <1>5, ObjFinite, SumAdd
<1>6. ASSUME NEW o \in [Obj -> Nat], NEW r \in [Obj -> Nat], \A y \in Obj : r[y] <= o[y]
      PROVE  ObjNum(r) <= ObjNum(o)
  BY <1>1, <1>6, ObjFinite, SumLess
<1> QED BY <1>3, <1>4, <1>5, <1>6

-----------------------------------------------------------------------------
(* Objects are added one by one. *)

(* Lists of objects that hold nothing but some of A. *)
Within(A) == {o \in [Obj -> Nat] : \A x \in Obj \ A : o[x] = 0}

AddIter(o, q) ==
  CHOOSE g : g = [s \in SUBSET DOMAIN q |->
                    IF s = {} THEN o ELSE AddObj(g[s \ {Max(s)}], q[Max(s)])]

(* One object of A more is within A. *)
LEMMA AddObjWithin ==
  ASSUME NEW A, NEW o \in Within(A), NEW x \in A
  PROVE  AddObj(o, x) \in Within(A)
<1>1. AddObj(o, x) = o \/ AddObj(o, x) = [o EXCEPT ![x] = @ + 1]
  BY DEF AddObj
<1>2. [o EXCEPT ![x] = @ + 1] \in Within(A)
  <2>1. o \in [Obj -> Nat] /\ \A y \in Obj \ A : o[y] = 0
    BY DEF Within
  <2>2. [o EXCEPT ![x] = @ + 1] \in [Obj -> Nat]
    <3>1. CASE x \in Obj
      BY <2>1, <3>1
    <3>2. CASE x \notin Obj
      BY <2>1, <3>2
    <3> QED BY <3>1, <3>2
  <2>3. \A y \in Obj \ A : [o EXCEPT ![x] = @ + 1][y] = 0
    BY <2>1
  <2> QED BY <2>2, <2>3 DEF Within
<1> QED BY <1>1, <1>2

(* AddObjs is a fold. *)
LEMMA AddObjsIs ==
  ASSUME NEW o, NEW q
  PROVE  AddObjs(o, q) = AddIter(o, q)[DOMAIN q]
BY DEF AddObjs, FoldLeft, MapThenFoldSet, AddIter

(* The recursion of AddObjs has its solution. *)
LEMMA AddIterSolves ==
  ASSUME NEW A, NEW o \in Within(A), NEW q \in Seq(A)
  PROVE  /\ AddIter(o, q)[{}] = o
         /\ \A s \in SUBSET (1 .. Len(q)) : s # {} =>
              AddIter(o, q)[s] = AddObj(AddIter(o, q)[s \ {Max(s)}], q[Max(s)])
<1> DEFINE n == Len(q)
           T == Within(A)
           F == [i \in 1 .. n |-> [r \in T |-> AddObj(r, q[i])]]
<1>1. n \in Nat /\ DOMAIN q = 1 .. n /\ \A i \in 1 .. n : q[i] \in A
  OBVIOUS
<1>2. F \in Steps(n, T) /\ o \in T
  BY <1>1, AddObjWithin DEF Steps
<1> HIDE DEF n, T, F
<1>3. PICK h : h \in FoldSolutions(n, T, o, F)
  BY <1>1, <1>2, FoldExists
<1>4. h = [s \in SUBSET (1 .. n) |-> IF s = {} THEN o ELSE AddObj(h[s \ {Max(s)}], q[Max(s)])]
  <2>1. ASSUME NEW s \in SUBSET (1 .. n), s # {}
        PROVE  h[s] = AddObj(h[s \ {Max(s)}], q[Max(s)])
    <3>1. Max(s) \in 1 .. n
      BY <1>1, <2>1, MaxOf
    <3>2. h[s \ {Max(s)}] \in T /\ h[s] = F[Max(s)][h[s \ {Max(s)}]]
      BY <1>3, <2>1 DEF FoldSolutions
    <3> QED BY <3>1, <3>2 DEF F
  <2> QED BY <1>3, <2>1 DEF FoldSolutions
<1> DEFINE g == AddIter(o, q)
<1>5. g = [s \in SUBSET (1 .. n) |-> IF s = {} THEN o ELSE AddObj(g[s \ {Max(s)}], q[Max(s)])]
  BY <1>1, <1>4 DEF AddIter
<1> HIDE DEF g, F
<1>6. g[{}] = o /\ \A s \in SUBSET (1 .. n) : s # {} => g[s] = AddObj(g[s \ {Max(s)}], q[Max(s)])
  BY <1>5
<1> QED BY <1>6 DEF g, n

(* Adding objects of A adds no others. *)
LEMMA AddObjsWithin ==
  ASSUME NEW A, NEW o \in Within(A), NEW q \in Seq(A)
  PROVE  AddObjs(o, q) \in Within(A) /\ (q = <<>> => AddObjs(o, q) = o)
<1> DEFINE n == Len(q)
           g == AddIter(o, q)
<1>1. n \in Nat /\ DOMAIN q = 1 .. n /\ \A i \in 1 .. n : q[i] \in A
  OBVIOUS
<1>2. g[{}] = o /\ \A s \in SUBSET (1 .. n) : s # {} => g[s] = AddObj(g[s \ {Max(s)}], q[Max(s)])
  BY AddIterSolves
<1> HIDE DEF g, n
<1>3. ASSUME NEW s \in SUBSET (1 .. n), s # {}, g[s \ {Max(s)}] \in Within(A)
      PROVE  g[s] \in Within(A)
  <2>1. Max(s) \in 1 .. n
    BY <1>1, <1>3, MaxOf
  <2> QED BY <1>1, <1>2, <1>3, <2>1, AddObjWithin
<1>4. g[1 .. n] \in Within(A)
  BY <1>1, <1>2, <1>3, FoldKeeps
<1>5. q = <<>> => 1 .. n = {}
  BY DEF n
<1> QED BY <1>1, <1>2, <1>4, <1>5, AddObjsIs DEF g

(* Nothing is added without room, nothing is lost, and all is added if there *)
(* is room for all.                                                          *)
Filled(o, q, k, r) ==
  /\ r \in [Obj -> Nat] /\ ObjNum(r) <= SnooperMax
  /\ \A y \in Obj : o[y] <= r[y]
  /\ ObjNum(o) + Len(q) <= SnooperMax =>
       ObjNum(r) = ObjNum(o) + k /\ \A i \in 1 .. k : r[q[i]] > 0

(* One object more. *)
LEMMA AddObjFills ==
  ASSUME NEW o \in [Obj -> Nat], NEW q \in Seq(Obj), NEW k \in Nat, k < Len(q), NEW r,
         Filled(o, q, k, r)
  PROVE  Filled(o, q, k + 1, AddObj(r, q[k + 1]))
<1> PICK x : x = q[k + 1]
  OBVIOUS
<1>1. Len(q) \in Nat /\ x \in Obj /\ SnooperMax \in Nat /\ \A i \in 1 .. k : q[i] \in Obj
  BY LenProperties, ElementOfSeq, ConfAssumption
<1>2. /\ r \in [Obj -> Nat] /\ ObjNum(r) \in Nat /\ ObjNum(r) <= SnooperMax /\ ObjNum(o) \in Nat
      /\ \A y \in Obj : o[y] \in Nat /\ r[y] \in Nat /\ o[y] <= r[y]
  BY ObjNumFacts DEF Filled
<1>3. CASE ObjNum(r) < SnooperMax
  <2> DEFINE t == [r EXCEPT ![x] = @ + 1]
  <2>1. t \in [Obj -> Nat] /\ t[x] = r[x] + 1 /\ \A y \in Obj : y # x => t[y] = r[y]
    BY <1>1, <1>2
  <2>2. AddObj(r, x) = t
    BY <1>3 DEF AddObj
  <2> HIDE DEF t
  <2>3. ObjNum(t) = ObjNum(r) + 1
    BY <1>1, <1>2, <2>1, ObjNumFacts
  <2>4. \A y \in Obj : r[y] <= t[y] /\ o[y] <= t[y] /\ t[y] \in Nat
    <3> SUFFICES ASSUME NEW y \in Obj PROVE r[y] <= t[y] /\ o[y] <= t[y] /\ t[y] \in Nat
      OBVIOUS
    <3>1. o[y] \in Nat /\ r[y] \in Nat /\ o[y] <= r[y]
      BY <1>2
    <3>2. t[y] = r[y] + 1 \/ t[y] = r[y]
      BY <2>1
    <3> QED BY <3>1, <3>2
  <2>5. ASSUME ObjNum(o) + Len(q) <= SnooperMax
        PROVE  ObjNum(t) = ObjNum(o) + (k + 1) /\ \A i \in 1 .. k + 1 : t[q[i]] > 0
    <3>1. ObjNum(r) = ObjNum(o) + k /\ \A i \in 1 .. k : r[q[i]] > 0
      BY <2>5 DEF Filled
    <3>2. t[x] > 0
      BY <1>1, <1>2, <2>1
    <3>3. ASSUME NEW i \in 1 .. k
          PROVE  t[q[i]] > 0
      <4>1. q[i] \in Obj /\ r[q[i]] > 0
        BY <1>1, <3>1
      <4>2. r[q[i]] <= t[q[i]] /\ r[q[i]] \in Nat /\ t[q[i]] \in Nat
        BY <1>2, <2>4, <4>1
      <4> QED BY <4>1, <4>2
    <3>4. \A i \in 1 .. k + 1 : i \in 1 .. k \/ i = k + 1
      OBVIOUS
    <3>5. ObjNum(t) = ObjNum(o) + (k + 1)
      BY <1>2, <2>3, <3>1
    <3>6. \A i \in 1 .. k + 1 : t[q[i]] > 0
      BY <3>2, <3>3, <3>4
    <3> QED BY <3>5, <3>6
  <2>6. ObjNum(t) <= SnooperMax
    BY <1>1, <1>2, <1>3, <2>3
  <2> QED BY <2>1, <2>2, <2>4, <2>5, <2>6 DEF Filled
<1>4. CASE ~(ObjNum(r) < SnooperMax)
  <2>1. AddObj(r, x) = r
    BY <1>4 DEF AddObj
  <2>2. ~(ObjNum(o) + Len(q) <= SnooperMax)
    <3> SUFFICES ASSUME ObjNum(o) + Len(q) <= SnooperMax PROVE FALSE
      OBVIOUS
    <3>1. ObjNum(r) = ObjNum(o) + k
      BY DEF Filled
    <3> QED BY <1>1, <1>2, <1>4, <3>1
  <2> QED BY <1>2, <2>1, <2>2 DEF Filled
<1> QED BY <1>3, <1>4

(* AddObjs adds all, or as many as there is room for. *)
LEMMA AddObjsFill ==
  ASSUME NEW o \in [Obj -> Nat], ObjNum(o) <= SnooperMax, NEW q \in Seq(Obj)
  PROVE  Filled(o, q, Len(q), AddObjs(o, q))
<1> DEFINE n == Len(q)
           g == AddIter(o, q)
           T == {z \in Nat \X [Obj -> Nat] : Filled(o, q, z[1], z[2])}
<1>1. n \in Nat /\ DOMAIN q = 1 .. n
  OBVIOUS
<1>2. o \in Within(Obj)
  BY DEF Within
<1>3. g[{}] = o /\ \A s \in SUBSET (1 .. n) : s # {} => g[s] = AddObj(g[s \ {Max(s)}], q[Max(s)])
  <2> PICK A : A = Obj
    OBVIOUS
  <2>1. o \in Within(A) /\ q \in Seq(A)
    BY <1>2
  <2> HIDE DEF T
  <2> QED BY ONLY <2>1, AddIterSolves
<1> HIDE DEF g, n
<1>4. <<0, g[{}]>> \in T
  <2>1. ObjNum(o) \in Nat /\ \A y \in Obj : o[y] \in Nat
    BY ObjNumFacts
  <2>2. \A i \in 1 .. 0 : FALSE
    OBVIOUS
  <2>3. Filled(o, q, 0, o)
    BY <2>1, <2>2 DEF Filled
  <2> QED BY <1>3, <2>3
<1>5. ASSUME NEW k \in Nat, k < n, <<k, g[1 .. k]>> \in T
      PROVE  <<k + 1, g[1 .. k + 1]>> \in T
  <2>1. g[1 .. k + 1] = AddObj(g[1 .. k], q[k + 1])
    <3>1. 1 .. k + 1 \in SUBSET (1 .. n)
      BY <1>1, <1>5
    <3>2. /\ Max(1 .. k + 1) = k + 1 /\ (1 .. k + 1) \ {k + 1} = 1 .. k
          /\ 1 .. k + 1 # {}
      BY Segment
    <3>3. g[1 .. k + 1] = AddObj(g[(1 .. k + 1) \ {Max(1 .. k + 1)}], q[Max(1 .. k + 1)])
      BY <1>3, <3>1, <3>2
    <3> QED BY <3>2, <3>3
  <2>2. Filled(o, q, k, g[1 .. k])
    BY <1>5
  <2>3. Filled(o, q, k + 1, g[1 .. k + 1])
    BY <1>5, <2>1, <2>2, AddObjFills DEF n
  <2>4. g[1 .. k + 1] \in [Obj -> Nat]
    BY <2>3 DEF Filled
  <2> QED BY <2>3, <2>4
<1>6. <<n, g[1 .. n]>> \in T
  <2> HIDE DEF T
  <2> QED BY <1>1, <1>4, <1>5, FoldChain
<1>7. Filled(o, q, n, g[1 .. n])
  BY <1>6
<1> QED BY <1>1, <1>7, AddObjsIs DEF g, n

-----------------------------------------------------------------------------
(* The objects of a configuration. *)

FlattenIter(q) ==
  CHOOSE f : f = [i \in 1 .. Len(q) |-> IF i = 1 THEN q[i] ELSE f[i - 1] \o q[i]]

(* FlattenSeq of sequences over S is one. *)
LEMMA FlattenType ==
  ASSUME NEW S, NEW q \in Seq(Seq(S))
  PROVE  FlattenSeq(q) \in Seq(S)
<1> DEFINE n == Len(q)
<1>1. n \in Nat /\ \A i \in 1 .. n : q[i] \in Seq(S)
  OBVIOUS
<1>2. CASE n = 0
  <2>1. FlattenSeq(q) = q /\ q = <<>>
    BY <1>2 DEF FlattenSeq
  <2> QED BY <2>1
<1>3. CASE n # 0
  <2> DEFINE Solutions(k) == {f \in [1 .. k -> Seq(S)] : \A i \in 1 .. k :
                                f[i] = IF i = 1 THEN q[i] ELSE f[i - 1] \o q[i]}
             K == {k \in Nat : k <= n => Solutions(k) # {}}
  <2> HIDE DEF n
  <2>1. Solutions(0) # {}
    <3> DEFINE f0 == [i \in 1 .. 0 |-> q]
    <3>1. \A i \in 1 .. 0 : FALSE
      OBVIOUS
    <3>2. f0 \in Solutions(0)
      BY <3>1
    <3> QED BY <3>2
  <2>2. ASSUME NEW k \in Nat, k + 1 <= n, NEW f \in Solutions(k)
        PROVE  Solutions(k + 1) # {}
    <3>1. f \in [1 .. k -> Seq(S)] /\ \A i \in 1 .. k : f[i] = IF i = 1 THEN q[i] ELSE f[i - 1] \o q[i]
      OBVIOUS
    <3> DEFINE e == IF k + 1 = 1 THEN q[k + 1] ELSE f[k] \o q[k + 1]
               h == [i \in 1 .. k + 1 |-> IF i = k + 1 THEN e ELSE f[i]]
    <3>2. e \in Seq(S)
      <4>1. q[k + 1] \in Seq(S)
        BY <1>1, <2>2
      <4>2. k + 1 # 1 => f[k] \in Seq(S)
        BY <3>1
      <4> QED BY <4>1, <4>2, ConcatProperties
    <3>3. \A i \in 1 .. k + 1 : i = k + 1 \/ i \in 1 .. k
      OBVIOUS
    <3>4. h \in [1 .. k + 1 -> Seq(S)]
      <4> HIDE DEF e
      <4> QED BY <3>1, <3>2, <3>3
    <3>5. ASSUME NEW i \in 1 .. k + 1
          PROVE  h[i] = IF i = 1 THEN q[i] ELSE h[i - 1] \o q[i]
      <4>1. CASE i = k + 1
        <5>1. i # 1 => i - 1 \in 1 .. k + 1 /\ i - 1 # k + 1 /\ i - 1 = k
          BY <4>1
        <5>2. i # 1 => h[i - 1] = f[k]
          BY <5>1
        <5>3. h[i] = e
          BY <4>1
        <5> QED BY <4>1, <5>2, <5>3
      <4>2. CASE i \in 1 .. k
        <5>1. i # k + 1 /\ (i # 1 => i - 1 \in 1 .. k /\ i - 1 # k + 1)
          BY <4>2
        <5>2. h[i] = f[i] /\ (i # 1 => h[i - 1] = f[i - 1])
          BY <3>3, <5>1
        <5> QED BY <3>1, <4>2, <5>2
      <4> QED BY <3>3, <4>1, <4>2
    <3> HIDE DEF h
    <3>6. h \in Solutions(k + 1)
      BY <3>4, <3>5
    <3> QED BY <3>6
  <2> HIDE DEF Solutions
  <2>3. 0 \in K
    BY <2>1
  <2>4. ASSUME NEW k \in Nat, k \in K
        PROVE  k + 1 \in K
    <3> SUFFICES ASSUME k + 1 <= n
                 PROVE  Solutions(k + 1) # {}
      OBVIOUS
    <3>1. Solutions(k) # {}
      BY <1>1, <2>4
    <3> QED BY <2>2, <3>1
  <2>5. n \in K
    <3> HIDE DEF K
    <3>1. Nat \subseteq K
      BY <2>3, <2>4, Induction
    <3> QED BY <1>1, <3>1
  <2>6. PICK h : h \in Solutions(n)
    BY <2>5
  <2>7. h = [i \in 1 .. n |-> IF i = 1 THEN q[i] ELSE h[i - 1] \o q[i]]
    BY <2>6 DEF Solutions
  <2> DEFINE f == FlattenIter(q)
  <2>8. f = [i \in 1 .. n |-> IF i = 1 THEN q[i] ELSE f[i - 1] \o q[i]]
    BY <2>7 DEF FlattenIter, n
  <2> HIDE DEF f
  <2> DEFINE M == {k \in Nat : k \in 1 .. n => f[k] \in Seq(S)}
  <2>9. ASSUME NEW k \in Nat, k \in M
        PROVE  k + 1 \in M
    <3> SUFFICES ASSUME k + 1 \in 1 .. n
                 PROVE  f[k + 1] \in Seq(S)
      OBVIOUS
    <3>1. q[k + 1] \in Seq(S)
      BY <1>1
    <3>2. f[k + 1] = IF k + 1 = 1 THEN q[k + 1] ELSE f[(k + 1) - 1] \o q[k + 1]
      BY <2>8
    <3>3. CASE k = 0
      BY <3>1, <3>2, <3>3
    <3>4. CASE k # 0
      <4>1. k \in 1 .. n /\ (k + 1) - 1 = k /\ k + 1 # 1
        BY <1>1, <3>4
      <4>2. f[k] \in Seq(S)
        BY <2>9, <4>1
      <4> QED BY <3>1, <3>2, <4>1, <4>2, ConcatProperties
    <3> QED BY <3>3, <3>4
  <2>10. 0 \in M
    OBVIOUS
  <2>11. n \in M
    <3> HIDE DEF M
    <3>1. Nat \subseteq M
      BY <2>9, <2>10, Induction
    <3> QED BY <1>1, <3>1
  <2>12. f[n] \in Seq(S)
    BY <1>1, <1>3, <2>11
  <2>13. FlattenSeq(q) = f[n]
    BY <1>3 DEF FlattenSeq, f, FlattenIter, n
  <2> QED BY <2>12, <2>13
<1> QED BY <1>2, <1>3

(* A finite set of pids can be listed in their order. *)
LEMMA ByPidType ==
  ASSUME NEW ps, ps \subseteq Nat, IsFiniteSet(ps)
  PROVE  /\ Cardinality(ps) \in Nat /\ ByPid(ps) \in [1 .. Cardinality(ps) -> ps]
         /\ \A i, j \in 1 .. Cardinality(ps) : i < j => ByPid(ps)[i] < ByPid(ps)[j]
<1> DEFINE Sorted(n, p) == {s \in [1 .. n -> p] : \A i, j \in 1 .. n : i < j => s[i] < s[j]}
           K == {n \in Nat : \A p \in SUBSET Nat :
                               IsFiniteSet(p) /\ Cardinality(p) = n => Sorted(n, p) # {}}
<1>1. 0 \in K
  <2> SUFFICES ASSUME NEW p \in SUBSET Nat
               PROVE  Sorted(0, p) # {}
    OBVIOUS
  <2>1. \A i \in 1 .. 0 : FALSE
    OBVIOUS
  <2>2. [i \in 1 .. 0 |-> 0] \in Sorted(0, p)
    BY <2>1
  <2> QED BY <2>2
<1>2. ASSUME NEW n \in Nat, n \in K
      PROVE  n + 1 \in K
  <2> SUFFICES ASSUME NEW p \in SUBSET Nat, IsFiniteSet(p), Cardinality(p) = n + 1
               PROVE  Sorted(n + 1, p) # {}
    OBVIOUS
  <2>1. p # {}
    BY FS_EmptySet
  <2>2. PICK x \in p : \A y \in p : <<y, x>> \notin OpToRel(<, Nat)
    BY <2>1, WFMin, NatLessThanWellFounded
  <2>3. \A y \in p \ {x} : x < y
    <3>1. \A y \in p : ~(y < x)
      BY <2>2 DEF OpToRel
    <3> QED BY <3>1
  <2>4. /\ IsFiniteSet(p \ {x}) /\ Cardinality(p \ {x}) = n /\ p \ {x} \in SUBSET Nat
    BY FS_RemoveElement
  <2>5. Sorted(n, p \ {x}) # {}
    <3> HIDE DEF Sorted
    <3> QED BY <1>2, <2>4
  <2>6. PICK s : s \in Sorted(n, p \ {x})
    BY <2>5
  <2>7. s \in [1 .. n -> p \ {x}] /\ \A i, j \in 1 .. n : i < j => s[i] < s[j]
    BY <2>6
  <2> DEFINE t == [i \in 1 .. n + 1 |-> IF i = 1 THEN x ELSE s[i - 1]]
  <2>8. ASSUME NEW i \in 1 .. n + 1
        PROVE  i = 1 \/ (i - 1 \in 1 .. n /\ t[i] = s[i - 1] /\ i # 1)
    OBVIOUS
  <2>9. t[1] = x
    OBVIOUS
  <2>10. t \in [1 .. n + 1 -> p]
    <3>1. \A i \in 1 .. n + 1 : t[i] \in p
      <4> HIDE DEF t
      <4> QED BY <2>7, <2>8, <2>9
    <3> QED BY <3>1
  <2> HIDE DEF t
  <2>11. ASSUME NEW i \in 1 .. n + 1, NEW j \in 1 .. n + 1, i < j
         PROVE  t[i] < t[j]
    <3>1. j # 1 /\ j - 1 \in 1 .. n /\ t[j] = s[j - 1]
      BY <2>8, <2>11
    <3>2. CASE i = 1
      BY <2>3, <2>7, <2>9, <3>1, <3>2
    <3>3. CASE i # 1
      <4>1. i - 1 \in 1 .. n /\ t[i] = s[i - 1] /\ i - 1 < j - 1
        BY <2>8, <2>11, <3>3
      <4> QED BY <2>7, <3>1, <4>1
    <3> QED BY <3>2, <3>3
  <2>12. t \in Sorted(n + 1, p)
    BY <2>10, <2>11
  <2> QED BY <2>12
<1>3. Cardinality(ps) \in Nat
  BY FS_CardinalityType
<1>4. Cardinality(ps) \in K
  <2> HIDE DEF K
  <2>1. Nat \subseteq K
    BY <1>1, <1>2, Induction
  <2> QED BY <1>3, <2>1
<1>5. Sorted(Cardinality(ps), ps) # {}
  BY <1>4
<1> QED BY <1>3, <1>5 DEF ByPid

(* The objects that the configurations of a list may make: the processes     *)
(* that are in /proc or named, and containers.                               *)
NamedIn(list) == {list[i].id : i \in {j \in 1 .. Len(list) : list[j].type = "procid"}}
Possible(list) == {ProcObj(p) : p \in InProc \cup NamedIn(list)} \cup {ConObj(c) : c \in Containers}

(* Maps of pods to the counts of their entries. *)
Maps == UNION {[D -> [Containers -> Nat]] : D \in SUBSET (Pods \cup {FakePod})}

(* The objects of processes in /proc. *)
LEMMA ProcObjsType ==
  ASSUME InProc \subseteq Procs, NEW list, NEW ps, ps \subseteq InProc
  PROVE  ProcObjs(ps) \in Seq(Possible(list))
<1>1. ps \subseteq Nat /\ IsFiniteSet(ps)
  BY FS_Subset, MachineAssumption
<1>2. Cardinality(ps) \in Nat /\ ByPid(ps) \in [1 .. Cardinality(ps) -> ps]
  BY <1>1, ByPidType
<1>3. \A i \in 1 .. Cardinality(ps) : ProcObj(ByPid(ps)[i]) \in Possible(list)
  BY <1>2 DEF Possible
<1>4. ProcObjs(ps) \in [1 .. Cardinality(ps) -> Possible(list)]
  BY <1>3 DEF ProcObjs
<1> QED BY <1>2, <1>4, SeqDef

(* Every process of ps has an object in q. *)
Covers(q, ps) == \A p \in ps : \E i \in 1 .. Len(q) : q[i] = ProcObj(p)

(* Every one of the processes gets its object. *)
LEMMA ProcObjsCover ==
  ASSUME InProc \subseteq Procs, NEW ps, ps \subseteq InProc
  PROVE  Covers(ProcObjs(ps), ps)
<1> DEFINE n == Cardinality(ps)
<1>1. ps \subseteq Nat /\ IsFiniteSet(ps)
  BY FS_Subset, MachineAssumption
<1>2. n \in Nat /\ ByPid(ps) \in [1 .. n -> ps]
      /\ \A i, j \in 1 .. n : i < j => ByPid(ps)[i] < ByPid(ps)[j]
  BY <1>1, ByPidType
<1> PICK f \in [1 .. n -> ps] : f = ByPid(ps)
  BY <1>2
<1> HIDE DEF n
<1>3. ASSUME NEW i \in 1 .. n, NEW j \in 1 .. n, f[i] = f[j]
      PROVE  i = j
  <2>1. f[i] \in Nat /\ f[j] \in Nat
    BY <1>1
  <2>2. i < j \/ j < i \/ i = j
    BY <1>2
  <2> QED BY <1>2, <1>3, <2>1, <2>2
<1>4. f \in Injection(1 .. n, ps)
  BY <1>3 DEF Injection, IsInjective
<1>5. Cardinality(1 .. n) = n
  BY <1>2, FS_Interval
<1>6. f \in Surjection(1 .. n, ps)
  BY <1>1, <1>4, <1>5, FS_Injection DEF n
<1>7. Len(ProcObjs(ps)) = n /\ \A i \in 1 .. n : ProcObjs(ps)[i] = ProcObj(f[i])
  BY <1>2 DEF ProcObjs, n
<1> QED BY <1>6, <1>7 DEF Surjection, Covers

(* The objects of a container and of its processes. *)
LEMMA WithContainer ==
  ASSUME InProc \subseteq Procs, NEW list, NEW c \in Containers
  PROVE  ProcObjs(InContainer(c)) \o <<ConObj(c)>> \in Seq(Possible(list))
<1>1. InContainer(c) \subseteq InProc
  BY DEF InContainer
<1>2. ConObj(c) \in Possible(list)
  BY DEF Possible
<1>3. <<ConObj(c)>> \in Seq(Possible(list))
  BY <1>2
<1> QED BY <1>1, <1>3, ProcObjsType, ConcatProperties

(* The objects of a pod that is known. *)
LEMMA PodObjsType ==
  ASSUME InProc \subseteq Procs, NEW list, NEW map \in Maps, NEW pod \in DOMAIN map
  PROVE  PodObjs(map, pod) \in Seq(Possible(list))
<1> DEFINE n == Cardinality(Containers)
           P == Possible(list)
           one(c) == ProcObjs(InContainer(c)) \o <<ConObj(c)>>
           con(i) == SetToSeq(Containers)[i]
           each(c) == FlattenSeq([j \in 1 .. map[pod][c] |-> one(c)])
<1>1. n \in Nat /\ \A i \in 1 .. n : con(i) \in Containers
  <2>1. n \in Nat
    BY FS_CardinalityType, MachineAssumption
  <2>2. PICK f \in [1 .. n -> Containers] : IsInjective(f)
    <3>1. ExistsBijection(1 .. n, Containers)
      BY FS_CardinalityType, MachineAssumption
    <3> QED BY <3>1 DEF ExistsBijection, Bijection, Injection, IsInjective
  <2>3. SetToSeq(Containers) \in [1 .. n -> Containers]
    BY <2>2 DEF SetToSeq
  <2> QED BY <2>1, <2>3
<1>2. ASSUME NEW c \in Containers
      PROVE  each(c) \in Seq(P)
  <2>1. one(c) \in Seq(P)
    BY WithContainer
  <2>2. map[pod][c] \in Nat
    BY DEF Maps
  <2> DEFINE q == [j \in 1 .. map[pod][c] |-> one(c)]
  <2> HIDE DEF one, P
  <2>3. q \in [1 .. map[pod][c] -> Seq(P)]
    BY <2>1
  <2>4. q \in Seq(Seq(P))
    BY <2>2, <2>3, SeqDef
  <2> HIDE DEF q
  <2>5. FlattenSeq(q) \in Seq(P)
    BY <2>4, FlattenType
  <2> QED BY <2>5 DEF q
<1> DEFINE all == [i \in 1 .. n |-> each(con(i))]
<1>3. PodObjs(map, pod) = FlattenSeq(all)
  BY DEF PodObjs
<1> HIDE DEF n, P, con, each
<1>4. all \in [1 .. n -> Seq(P)]
  BY <1>1, <1>2
<1>5. all \in Seq(Seq(P))
  BY <1>1, <1>4, SeqDef
<1> HIDE DEF all
<1> QED BY <1>3, <1>5, FlattenType DEF P

(* The pod and container map stays one. *)
LEMMA MapExtended ==
  ASSUME NEW map \in Maps, NEW pod \in Pods \cup {FakePod}, NEW e \in [Containers -> Nat]
  PROVE  AddPod(map, pod, e) \in Maps
<1>1. PICK D \in SUBSET (Pods \cup {FakePod}) : map \in [D -> [Containers -> Nat]]
  BY DEF Maps
<1>2. AddPod(map, pod, e) \in [D \cup {pod} -> [Containers -> Nat]]
  BY <1>1 DEF AddPod
<1>3. D \cup {pod} \in SUBSET (Pods \cup {FakePod})
  OBVIOUS
<1> QED BY <1>2, <1>3 DEF Maps

(* A count of the map is changed. *)
LEMMA MapCount ==
  ASSUME NEW map \in Maps, NEW pod \in DOMAIN map, NEW con \in Containers, NEW n \in Nat
  PROVE  [map EXCEPT ![pod][con] = n] \in Maps
<1>1. PICK D \in SUBSET (Pods \cup {FakePod}) : map \in [D -> [Containers -> Nat]]
  BY DEF Maps
<1>2. [map[pod] EXCEPT ![con] = n] \in [Containers -> Nat]
  BY <1>1
<1>3. [map EXCEPT ![pod] = [map[pod] EXCEPT ![con] = n]] \in [D -> [Containers -> Nat]]
  BY <1>1, <1>2
<1> QED BY <1>3 DEF Maps

(* add_pod_con_map keeps the map well formed. *)
LEMMA AddPodConMapType ==
  ASSUME NEW map \in Maps, NEW pod \in Pods \cup {FakePod}, NEW con \in Containers \cup {NoCon}
  PROVE  AddPodConMap(map, pod, con) \in Maps
<1> DEFINE m == WithPod(map, pod)
<1>1. NoEntries \in [Containers -> Nat]
  BY DEF NoEntries
<1>2. m \in Maps
  BY <1>1, MapExtended DEF WithPod
<1>3. pod \in DOMAIN m
  <2>1. CASE PodKnown(map, pod)
    BY <2>1 DEF WithPod, PodKnown
  <2>2. CASE ~PodKnown(map, pod)
    BY <2>2 DEF WithPod, AddPod
  <2> QED BY <2>1, <2>2
<1>4. AddPodConMap(map, pod, con) = IF con = NoCon THEN m ELSE [m EXCEPT ![pod][con] = m[pod][con] + 1]
  BY DEF AddPodConMap
<1> HIDE DEF m
<1>5. con \in Containers => m[pod][con] + 1 \in Nat
  BY <1>2, <1>3 DEF Maps
<1> QED BY <1>2, <1>3, <1>4, <1>5, MapCount

(* del_pod_con_map keeps the map well formed. *)
LEMMA DelPodConMapType ==
  ASSUME NEW map \in Maps, NEW pod \in Pods \cup {FakePod}, NEW con \in Containers \cup {NoCon}
  PROVE  DelPodConMap(map, pod, con) \in Maps
<1>1. CASE con = NoCon
  <2>1. PICK D \in SUBSET (Pods \cup {FakePod}) : map \in [D -> [Containers -> Nat]]
    BY DEF Maps
  <2>2. [p \in DOMAIN map \ {pod} |-> map[p]] \in [D \ {pod} -> [Containers -> Nat]]
    BY <2>1
  <2>3. D \ {pod} \in SUBSET (Pods \cup {FakePod})
    OBVIOUS
  <2> QED BY <1>1, <2>2, <2>3 DEF DelPodConMap, Maps
<1>2. CASE con # NoCon /\ ConKnown(map, pod, con)
  <2>1. pod \in DOMAIN map /\ con \in Containers /\ map[pod][con] > 0
    BY <1>2 DEF ConKnown, PodKnown
  <2>2. map[pod][con] \in Nat
    BY <2>1 DEF Maps
  <2>3. map[pod][con] - 1 \in Nat
    BY <2>1, <2>2
  <2> QED BY <1>2, <2>1, <2>3, MapCount DEF DelPodConMap
<1>3. CASE con # NoCon /\ ~ConKnown(map, pod, con)
  BY <1>3 DEF DelPodConMap
<1> QED BY <1>1, <1>2, <1>3

(* A container has at most two entries, in its own pod and while the reader  *)
(* of the events has it created (seen), and one otherwise.                   *)
Entries(map, seen) ==
  \A pod \in DOMAIN map : \A c \in Containers :
    map[pod][c] <= IF pod = PodOf[c] /\ c \in seen THEN 2 ELSE 1

(* A pod that is added has at most one entry for each container. *)
LEMMA EntriesExtended ==
  ASSUME NEW map \in Maps, NEW seen, Entries(map, seen), NEW pod, NEW e \in [Containers -> {0, 1}]
  PROVE  Entries(AddPod(map, pod, e), seen)
<1>1. \A c \in Containers : e[c] <= 1 /\ e[c] <= 2
  <2>1. \A c \in Containers : e[c] = 0 \/ e[c] = 1
    OBVIOUS
  <2> QED BY <2>1
<1>2. DOMAIN AddPod(map, pod, e) = DOMAIN map \cup {pod}
  BY DEF AddPod
<1>3. ASSUME NEW p \in DOMAIN map \cup {pod}, NEW c \in Containers
      PROVE  AddPod(map, pod, e)[p][c] <= IF p = PodOf[c] /\ c \in seen THEN 2 ELSE 1
  <2>1. CASE p = pod
    <3>1. AddPod(map, pod, e)[p] = e
      BY <2>1 DEF AddPod
    <3> QED BY <1>1, <3>1
  <2>2. CASE p # pod
    <3>1. AddPod(map, pod, e)[p] = map[p] /\ p \in DOMAIN map
      BY <2>2 DEF AddPod
    <3> QED BY <3>1 DEF Entries
  <2> QED BY <2>1, <2>2
<1> QED BY <1>2, <1>3 DEF Entries

(* The count of a container may be set to what it may have. *)
LEMMA EntriesCount ==
  ASSUME NEW map \in Maps, NEW seen, Entries(map, seen), NEW pod \in DOMAIN map,
         NEW con \in Containers,
         NEW n \in Nat, n <= IF pod = PodOf[con] /\ con \in seen THEN 2 ELSE 1
  PROVE  Entries([map EXCEPT ![pod][con] = n], seen)
<1> DEFINE m == [map EXCEPT ![pod][con] = n]
<1>1. PICK D \in SUBSET (Pods \cup {FakePod}) : map \in [D -> [Containers -> Nat]]
  BY DEF Maps
<1>2. DOMAIN m = DOMAIN map /\ m[pod][con] = n
  BY <1>1
<1>3. \A p \in DOMAIN map : \A c \in Containers : p # pod \/ c # con => m[p][c] = map[p][c]
  BY <1>1
<1> HIDE DEF m
<1>4. ASSUME NEW p \in DOMAIN map, NEW c \in Containers
      PROVE  m[p][c] <= IF p = PodOf[c] /\ c \in seen THEN 2 ELSE 1
  <2>1. CASE p = pod /\ c = con
    BY <1>2, <2>1
  <2>2. CASE ~(p = pod /\ c = con)
    BY <1>3, <2>2 DEF Entries
  <2> QED BY <2>1, <2>2
<1>5. Entries(m, seen)
  BY <1>2, <1>4 DEF Entries
<1> QED BY <1>5 DEF m

(* A pod that is looked up is known afterwards. *)
LEMMA WithPodEntries ==
  ASSUME NEW map \in Maps, NEW seen, Entries(map, seen), NEW pod \in Pods \cup {FakePod}
  PROVE  /\ WithPod(map, pod) \in Maps /\ Entries(WithPod(map, pod), seen)
         /\ pod \in DOMAIN WithPod(map, pod)
         /\ ~PodKnown(map, pod) => WithPod(map, pod)[pod] = NoEntries
         /\ PodKnown(map, pod) => WithPod(map, pod) = map
<1>1. NoEntries \in [Containers -> Nat] /\ NoEntries \in [Containers -> {0, 1}]
  BY DEF NoEntries
<1>2. CASE PodKnown(map, pod)
  BY <1>2 DEF WithPod, PodKnown
<1>3. CASE ~PodKnown(map, pod)
  <2>1. WithPod(map, pod) = AddPod(map, pod, NoEntries)
    BY <1>3 DEF WithPod
  <2>2. AddPod(map, pod, NoEntries) \in Maps /\ Entries(AddPod(map, pod, NoEntries), seen)
    BY <1>1, MapExtended, EntriesExtended
  <2>3. pod \in DOMAIN AddPod(map, pod, NoEntries) /\ AddPod(map, pod, NoEntries)[pod] = NoEntries
    BY DEF AddPod
  <2> QED BY <1>3, <2>1, <2>2, <2>3
<1> QED BY <1>2, <1>3

(* The map as a generator leaves it. *)
LEMMA GeneratorEntries ==
  ASSUME NEW map \in Maps, NEW seen, Entries(map, seen), NEW conf \in Conf
  PROVE  Entries(GeneratorMap(map, conf), seen)
<1>1. CASE conf.type = "pod"
  <2> DEFINE e == [c \in Containers |-> IF c \in ListContainers(conf.id) THEN 1 ELSE 0]
  <2>1. e \in [Containers -> {0, 1}]
    OBVIOUS
  <2>2. GeneratorMap(map, conf) \in {map, AddPod(map, conf.id, e)}
    BY <1>1 DEF GeneratorMap, GetAndAddPodInfo
  <2> HIDE DEF e
  <2> QED BY <2>1, <2>2, EntriesExtended
<1>2. CASE conf.type = "container"
  <2> PICK con \in Containers : con = conf.id
    BY <1>2 DEF Conf
  <2>1. GeneratorMap(map, conf) = GetAndAddConInfo(map, con)
    BY <1>2 DEF GeneratorMap
  <2>2. CASE ConKnown(map, FakePod, con)
    BY <2>1, <2>2 DEF GetAndAddConInfo
  <2>3. CASE ~ConKnown(map, FakePod, con)
    <3> PICK m : m = WithPod(map, FakePod)
      OBVIOUS
    <3>1. /\ m \in Maps /\ Entries(m, seen) /\ FakePod \in DOMAIN m
          /\ ~PodKnown(map, FakePod) => m[FakePod] = NoEntries
          /\ PodKnown(map, FakePod) => m = map
      BY WithPodEntries
    <3>2. m[FakePod][con] = 0
      <4>1. m[FakePod][con] \in Nat
        BY <3>1 DEF Maps
      <4>2. CASE PodKnown(map, FakePod)
        BY <2>3, <3>1, <4>1, <4>2 DEF ConKnown
      <4>3. CASE ~PodKnown(map, FakePod)
        BY <3>1, <4>3 DEF NoEntries
      <4> QED BY <4>2, <4>3
    <3>3. con # NoCon
      BY MachineAssumption
    <3>4. GetAndAddConInfo(map, con) = [m EXCEPT ![FakePod][con] = m[FakePod][con] + 1]
      BY <2>3, <3>3 DEF GetAndAddConInfo, AddPodConMap
    <3>5. GetAndAddConInfo(map, con) = [m EXCEPT ![FakePod][con] = 1]
      BY <3>2, <3>4
    <3>6. Entries([m EXCEPT ![FakePod][con] = 1], seen)
      BY <3>1, EntriesCount
    <3> QED BY <2>1, <3>5, <3>6
  <2> QED BY <2>2, <2>3
<1>3. CASE conf.type \notin {"pod", "container"}
  BY <1>3 DEF GeneratorMap
<1> QED BY <1>1, <1>2, <1>3

(* What __gen_snooper_by_* adds for one configuration of a list. *)
LEMMA GeneratedType ==
  ASSUME InProc \subseteq Procs, NEW list \in Seq(Conf), NEW i \in 1 .. Len(list), NEW map \in Maps
  PROVE  /\ GeneratorMap(map, list[i]) \in Maps
         /\ Generated(map, list[i]) \in Seq(Possible(list))
<1> PICK conf \in Conf : conf = list[i]
  OBVIOUS
<1>1. \/ conf.type = "procid" /\ conf.id \in Procs
      \/ conf.type = "app" /\ conf.id \in Comms
      \/ conf.type = "pod" /\ conf.id \in Pods
      \/ conf.type = "container" /\ conf.id \in Containers
  BY DEF Conf
<1>2. CASE conf.type = "procid"
  <2>1. ProcObj(conf.id) \in Possible(list)
    BY <1>2 DEF Possible, NamedIn
  <2>2. <<ProcObj(conf.id)>> \in Seq(Possible(list))
    BY <2>1
  <2> QED BY <1>2, <2>2 DEF GeneratorMap, Generated
<1>3. CASE conf.type = "app"
  <2>1. ProcObjs({p \in InProc : CommOf[p] = conf.id}) \in Seq(Possible(list))
    BY ProcObjsType
  <2> QED BY <1>3, <2>1 DEF GeneratorMap, Generated
<1>4. CASE conf.type = "pod"
  <2>1. conf.id \in Pods \cup {FakePod}
    BY <1>1, <1>4
  <2>2. [c \in Containers |-> IF c \in ListContainers(conf.id) THEN 1 ELSE 0] \in [Containers -> Nat]
    OBVIOUS
  <2>3. GetAndAddPodInfo(map, conf.id) \in Maps
    BY <2>1, <2>2, MapExtended DEF GetAndAddPodInfo
  <2>4. <<>> \in Seq(Possible(list))
    BY EmptySeq
  <2>5. PodKnown(map, conf.id) => PodObjs(map, conf.id) \in Seq(Possible(list))
    BY PodObjsType DEF PodKnown
  <2> QED BY <1>4, <2>3, <2>4, <2>5 DEF GeneratorMap, Generated
<1>5. CASE conf.type = "container"
  <2>1. conf.id \in Containers \cup {NoCon} /\ conf.id \in Containers
    BY <1>1, <1>5
  <2>2. GetAndAddConInfo(map, conf.id) \in Maps
    BY <2>1, AddPodConMapType DEF GetAndAddConInfo
  <2>3. ProcObjs(InContainer(conf.id)) \o <<ConObj(conf.id)>> \in Seq(Possible(list))
    BY <2>1, WithContainer
  <2> QED BY <1>5, <2>2, <2>3 DEF GeneratorMap, Generated
<1> QED BY <1>1, <1>2, <1>3, <1>4, <1>5

(* The processes in /proc that an app or container configuration asks for. *)
Ask(conf) ==
  {p \in InProc : \/ conf.type = "app" /\ conf.id = CommOf[p]
                  \/ conf.type = "container" /\ conf.id = ConOf[p]}

(* A configuration makes an object of every process it asks for. *)
LEMMA GeneratedCovers ==
  ASSUME InProc \subseteq Procs, NEW conf \in Conf, NEW map
  PROVE  Covers(Generated(map, conf), Ask(conf))
<1>1. CASE conf.type = "app"
  <2>1. Ask(conf) = {p \in InProc : CommOf[p] = conf.id}
    BY <1>1 DEF Ask
  <2> QED BY <1>1, <2>1, ProcObjsCover DEF Generated
<1>2. CASE conf.type = "container"
  <2> DEFINE q == ProcObjs(InContainer(conf.id))
             r == <<ConObj(conf.id)>>
  <2>1. Ask(conf) = InContainer(conf.id) /\ InContainer(conf.id) \subseteq InProc
    BY <1>2 DEF Ask, InContainer
  <2>2. Covers(q, Ask(conf))
    BY <2>1, ProcObjsCover
  <2>3. PICK S : q \in Seq(S) /\ r \in Seq(S)
    <3> PICK list : list = <<>>
      OBVIOUS
    <3>1. q \in Seq(Possible(list))
      BY <2>1, ProcObjsType
    <3>2. q \in Seq(Possible(list) \cup {ConObj(conf.id)})
          /\ r \in Seq(Possible(list) \cup {ConObj(conf.id)})
      BY <3>1, SeqDef
    <3> QED BY <3>2
  <2>4. Generated(map, conf) = q \o r
    BY <1>2 DEF Generated
  <2> HIDE DEF q, r
  <2>5. Len(q) \in Nat /\ Len(r) \in Nat /\ Len(q \o r) = Len(q) + Len(r)
        /\ \A i \in 1 .. Len(q) : (q \o r)[i] = q[i]
    BY <2>3, ConcatProperties, LenProperties
  <2>6. \A i \in 1 .. Len(q) : i \in 1 .. Len(q \o r)
    BY <2>5
  <2> QED BY <2>2, <2>4, <2>5, <2>6 DEF Covers
<1>3. CASE conf.type \notin {"app", "container"}
  BY <1>3 DEF Ask, Covers
<1> QED BY <1>1, <1>2, <1>3

-----------------------------------------------------------------------------
(* The refresh. *)

(* What a refresh of the list has made so far. *)
Refreshing(list) ==
  [objs : Within(Possible(list)), map : Maps, ended : BOOLEAN, cut : BOOLEAN]

RefreshIter(list) ==
  CHOOSE g : g = [s \in SUBSET DOMAIN list |->
                    IF s = {} THEN [objs |-> NoObjs, map |-> podMap, ended |-> FALSE, cut |-> FALSE]
                    ELSE Generate(g[s \ {Max(s)}], list[Max(s)])]

(* The refresh is a fold. *)
LEMMA RefreshIs ==
  ASSUME NEW list
  PROVE  RefreshSnooperObj(list) = RefreshIter(list)[DOMAIN list]
BY DEF RefreshSnooperObj, FoldLeft, MapThenFoldSet, RefreshIter

(* One configuration after the other keeps the refresh well formed. *)
LEMMA GenerateType ==
  ASSUME InProc \subseteq Procs, NEW list \in Seq(Conf), NEW i \in 1 .. Len(list),
         NEW g \in Refreshing(list)
  PROVE  Generate(g, list[i]) \in Refreshing(list)
<1>1. CASE g.ended
  BY <1>1 DEF Generate
<1>2. CASE ~g.ended
  <2> DEFINE map == GeneratorMap(g.map, list[i])
             new == Generated(map, list[i])
             fails == GeneratorFails(g, map, list[i])
             short == g.cut \/ fails \/ ObjNum(g.objs) + Len(new) > SnooperMax
  <2>1. g.map \in Maps /\ g.objs \in Within(Possible(list))
    BY DEF Refreshing
  <2>2. map \in Maps
    BY <2>1, GeneratedType
  <2>3. new \in Seq(Possible(list))
    BY <2>2, GeneratedType
  <2>4. AddObjs(g.objs, new) \in Within(Possible(list))
    BY <2>1, <2>3, AddObjsWithin
  <2>5. fails \in BOOLEAN /\ short \in BOOLEAN
    BY DEF GeneratorFails
  <2>6. Generate(g, list[i]) = [objs |-> AddObjs(g.objs, new), map |-> map, ended |-> fails, cut |-> short]
    BY <1>2 DEF Generate
  <2> HIDE DEF map, new, fails, short
  <2> QED BY <2>2, <2>4, <2>5, <2>6 DEF Refreshing
<1> QED BY <1>1, <1>2

(* The recursion of the refresh has its solution. *)
LEMMA RefreshIterSolves ==
  ASSUME InProc \subseteq Procs, podMap \in Maps, NEW list \in Seq(Conf)
  PROVE  /\ RefreshIter(list)[{}] = [objs |-> NoObjs, map |-> podMap, ended |-> FALSE, cut |-> FALSE]
         /\ \A s \in SUBSET (1 .. Len(list)) : s # {} =>
              RefreshIter(list)[s] = Generate(RefreshIter(list)[s \ {Max(s)}], list[Max(s)])
<1> DEFINE n == Len(list)
           T == Refreshing(list)
           b == [objs |-> NoObjs, map |-> podMap, ended |-> FALSE, cut |-> FALSE]
           F == [i \in 1 .. n |-> [r \in T |-> Generate(r, list[i])]]
<1>1. n \in Nat /\ DOMAIN list = 1 .. n
  OBVIOUS
<1>2. b \in T
  BY DEF Refreshing, Within, NoObjs
<1>3. F \in Steps(n, T)
  BY GenerateType DEF Steps
<1> HIDE DEF n, T, F, b
<1>4. PICK h : h \in FoldSolutions(n, T, b, F)
  BY <1>1, <1>2, <1>3, FoldExists
<1>5. h = [s \in SUBSET (1 .. n) |-> IF s = {} THEN b ELSE Generate(h[s \ {Max(s)}], list[Max(s)])]
  <2>1. ASSUME NEW s \in SUBSET (1 .. n), s # {}
        PROVE  h[s] = Generate(h[s \ {Max(s)}], list[Max(s)])
    <3>1. Max(s) \in 1 .. n
      BY <1>1, <2>1, MaxOf
    <3>2. h[s \ {Max(s)}] \in T /\ h[s] = F[Max(s)][h[s \ {Max(s)}]]
      BY <1>4, <2>1 DEF FoldSolutions
    <3> QED BY <3>1, <3>2 DEF F
  <2> QED BY <1>4, <2>1 DEF FoldSolutions
<1> DEFINE g == RefreshIter(list)
<1>6. g = [s \in SUBSET (1 .. n) |-> IF s = {} THEN b ELSE Generate(g[s \ {Max(s)}], list[Max(s)])]
  BY <1>1, <1>5 DEF RefreshIter, b
<1> HIDE DEF g
<1>7. g[{}] = b /\ \A s \in SUBSET (1 .. n) : s # {} => g[s] = Generate(g[s \ {Max(s)}], list[Max(s)])
  BY <1>6
<1> QED BY <1>7 DEF g, b, n

(* What a refresh has made after k configurations: no objects but those of   *)
(* the processes in /proc and named and of containers, no more than there is *)
(* room for, and if none was left out all that the configurations ask for.   *)
Made(list, seen, k, g) ==
  /\ g \in Refreshing(list) /\ ObjNum(g.objs) <= SnooperMax /\ Entries(g.map, seen)
  /\ ~g.cut => ~g.ended /\ \A i \in 1 .. k : \A p \in Ask(list[i]) : g.objs[ProcObj(p)] > 0

(* One configuration more. *)
LEMMA GenerateMakes ==
  ASSUME InProc \subseteq Procs, NEW list \in Seq(Conf), NEW seen, NEW k \in Nat, k < Len(list),
         NEW g, Made(list, seen, k, g)
  PROVE  Made(list, seen, k + 1, Generate(g, list[k + 1]))
<1> PICK conf \in Conf : conf = list[k + 1]
  BY ElementOfSeq, LenProperties
<1>1. Len(list) \in Nat /\ k + 1 \in 1 .. Len(list)
  BY LenProperties
<1>2. g \in Refreshing(list) /\ g.map \in Maps /\ g.objs \in [Obj -> Nat] /\ g.cut \in BOOLEAN
      /\ ObjNum(g.objs) <= SnooperMax /\ Entries(g.map, seen)
  BY DEF Made, Refreshing, Within
<1>3. Generate(g, conf) \in Refreshing(list)
  BY <1>1, <1>2, GenerateType
<1>4. CASE g.ended
  <2>1. Generate(g, conf) = g /\ g.cut
    BY <1>4 DEF Generate, Made
  <2> QED BY <1>2, <2>1 DEF Made
<1>5. CASE ~g.ended
  <2> DEFINE map == GeneratorMap(g.map, conf)
             new == Generated(map, conf)
             fails == GeneratorFails(g, map, conf)
             short == g.cut \/ fails \/ ObjNum(g.objs) + Len(new) > SnooperMax
             res == Generate(g, conf)
  <2>1. res.objs = AddObjs(g.objs, new) /\ res.map = map /\ res.ended = fails /\ res.cut = short
    BY <1>5 DEF Generate
  <2>2. map \in Maps /\ Entries(map, seen)
    BY <1>1, <1>2, GeneratedType, GeneratorEntries
  <2>3. new \in Seq(Obj)
    <3>1. new \in Seq(Possible(list))
      BY <1>1, <2>2, GeneratedType
    <3>2. Possible(list) \subseteq Obj
      <4>1. \A p \in Procs : ProcObj(p) \in Obj
        BY DEF ProcObj, Obj
      <4>2. \A c \in Containers : ConObj(c) \in Obj
        BY DEF ConObj, Obj
      <4>3. NamedIn(list) \subseteq Procs
        BY DEF NamedIn, Conf
      <4> QED BY <4>1, <4>2, <4>3 DEF Possible
    <3> QED BY <3>1, <3>2, SeqDef
  <2>4. Covers(new, Ask(conf))
    BY GeneratedCovers
  <2> HIDE DEF map, new, fails, res
  <2>5. Filled(g.objs, new, Len(new), res.objs)
    BY <1>2, <2>1, <2>3, AddObjsFill
  <2>6. ASSUME ~res.cut
        PROVE  ~res.ended /\ \A i \in 1 .. k + 1 : \A p \in Ask(list[i]) : res.objs[ProcObj(p)] > 0
    <3>1. ~g.cut /\ ~fails /\ ~(ObjNum(g.objs) + Len(new) > SnooperMax)
      BY <2>1, <2>6
    <3>2. ObjNum(g.objs) + Len(new) <= SnooperMax
      <4>1. ObjNum(g.objs) \in Nat /\ Len(new) \in Nat /\ SnooperMax \in Nat
        BY <1>2, <2>3, ObjNumFacts, LenProperties, ConfAssumption
      <4> QED BY <3>1, <4>1
    <3>3. /\ \A i \in 1 .. Len(new) : res.objs[new[i]] > 0
          /\ \A y \in Obj : g.objs[y] <= res.objs[y] /\ res.objs[y] \in Nat /\ g.objs[y] \in Nat
      BY <1>2, <2>5, <3>2 DEF Filled
    <3>4. ASSUME NEW p \in Ask(conf)
          PROVE  res.objs[ProcObj(p)] > 0
      BY <2>4, <3>3 DEF Covers
    <3>5. ASSUME NEW i \in 1 .. k, NEW p \in Ask(list[i])
          PROVE  res.objs[ProcObj(p)] > 0
      <4>1. g.objs[ProcObj(p)] > 0
        BY <3>1 DEF Made
      <4>2. ProcObj(p) \in Obj
        BY DEF ProcObj, Obj, Ask
      <4>3. g.objs[ProcObj(p)] <= res.objs[ProcObj(p)] /\ res.objs[ProcObj(p)] \in Nat
            /\ g.objs[ProcObj(p)] \in Nat
        BY <3>3, <4>2
      <4> QED BY <4>1, <4>3
    <3>6. \A i \in 1 .. k + 1 : i \in 1 .. k \/ i = k + 1
      OBVIOUS
    <3>7. ~res.ended
      BY <2>1, <3>1
    <3> QED BY <3>4, <3>5, <3>6, <3>7
  <2>7. ObjNum(res.objs) <= SnooperMax /\ Entries(res.map, seen)
    BY <2>1, <2>2, <2>5 DEF Filled
  <2>8. Made(list, seen, k + 1, res)
    BY <1>3, <2>6, <2>7 DEF Made, res
  <2> QED BY <2>8 DEF res
<1> QED BY <1>4, <1>5

(* What refresh_snooper_obj makes of a list of configurations. *)
LEMMA RefreshMakes ==
  ASSUME InProc \subseteq Procs, podMap \in Maps, NEW list \in Seq(Conf), NEW seen,
         Entries(podMap, seen)
  PROVE  /\ Made(list, seen, Len(list), RefreshSnooperObj(list))
         /\ list = <<>> => RefreshSnooperObj(list).objs = NoObjs
<1> DEFINE n == Len(list)
           g == RefreshIter(list)
           b == [objs |-> NoObjs, map |-> podMap, ended |-> FALSE, cut |-> FALSE]
           T == {z \in Nat \X Refreshing(list) : Made(list, seen, z[1], z[2])}
<1>1. n \in Nat /\ DOMAIN list = 1 .. n
  OBVIOUS
<1>2. /\ g[{}] = b
      /\ \A s \in SUBSET (1 .. n) : s # {} => g[s] = Generate(g[s \ {Max(s)}], list[Max(s)])
  BY RefreshIterSolves
<1> HIDE DEF g, n
<1>3. <<0, g[{}]>> \in T
  <2>1. b \in Refreshing(list) /\ b.objs = NoObjs /\ b.map = podMap /\ b.ended = FALSE
    BY DEF Refreshing, Within, NoObjs
  <2>2. ObjNum(NoObjs) <= SnooperMax
    BY ObjNumFacts, ConfAssumption
  <2> HIDE DEF b
  <2>3. \A i \in 1 .. 0 : FALSE
    OBVIOUS
  <2>4. Made(list, seen, 0, b)
    BY <2>1, <2>2, <2>3 DEF Made
  <2> QED BY <1>2, <2>1, <2>4
<1>4. ASSUME NEW k \in Nat, k < n, <<k, g[1 .. k]>> \in T
      PROVE  <<k + 1, g[1 .. k + 1]>> \in T
  <2>1. g[1 .. k + 1] = Generate(g[1 .. k], list[k + 1])
    <3>1. 1 .. k + 1 \in SUBSET (1 .. n)
      BY <1>1, <1>4
    <3>2. /\ Max(1 .. k + 1) = k + 1 /\ (1 .. k + 1) \ {k + 1} = 1 .. k
          /\ 1 .. k + 1 # {}
      BY Segment
    <3>3. g[1 .. k + 1] = Generate(g[(1 .. k + 1) \ {Max(1 .. k + 1)}], list[Max(1 .. k + 1)])
      BY <1>2, <3>1, <3>2
    <3> QED BY <3>2, <3>3
  <2>2. Made(list, seen, k, g[1 .. k])
    BY <1>4
  <2>3. Made(list, seen, k + 1, g[1 .. k + 1])
    BY <1>4, <2>1, <2>2, GenerateMakes DEF n
  <2>4. g[1 .. k + 1] \in Refreshing(list)
    BY <2>3 DEF Made
  <2> QED BY <2>3, <2>4
<1>5. <<n, g[1 .. n]>> \in T
  <2> HIDE DEF T
  <2> QED BY <1>1, <1>3, <1>4, FoldChain
<1>6. Made(list, seen, n, g[1 .. n])
  BY <1>5
<1>7. list = <<>> => 1 .. n = {}
  BY DEF n
<1>8. b.objs = NoObjs
  OBVIOUS
<1> QED BY <1>1, <1>2, <1>6, <1>7, <1>8, RefreshIs DEF g, n
=============================================================================
