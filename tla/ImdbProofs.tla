---------------------------- MODULE ImdbProofs ----------------------------
(***************************************************************************)
(* For every set of tables, capacity, period, timeout and size of the       *)
(* buffer: the tables hold one record per key in the order of their ages    *)
(* and never more than their capacity, and what is printed stays inside the *)
(* buffer. If the buffer holds what the tables can print in one round, the  *)
(* thread goes on, and a record is dropped unprinted only behind one        *)
(* without lines.                                                           *)
(*                                                                          *)
(* The argument for the buffer: a line is printed only if a byte more than  *)
(* its length is left, so there is one for the newline of the table; and a  *)
(* table after which no byte is left ends the thread, so that the next one  *)
(* begins with at least one. Hence room - total is never negative and       *)
(* curMaxLen never wraps.                                                   *)
(*                                                                          *)
(* The arguments for large buffers (RoomInv) and for the records (PaceInv)  *)
(* stand before their proofs.                                               *)
(***************************************************************************)
EXTENDS Imdb, SumProofs

-----------------------------------------------------------------------------
(* Tables as sequences of records. *)

Sorted(s) ==
  \A i, j \in 1 .. Len(s) : i < j => s[i].key # s[j].key /\ s[i].age >= s[j].age

TableOK(s) == s \in Seq(Record) /\ Len(s) <= RecCap /\ Sorted(s)

(* Deleting a key keeps the order and leaves no record with the key. *)
LEMMA WithoutKey ==
  ASSUME NEW s \in Seq(Record), Sorted(s), NEW k \in Keys
  PROVE  /\ Without(s, k) \in Seq(Record) /\ Sorted(Without(s, k))
         /\ Len(Without(s, k)) <= Len(s)
         /\ \A i \in 1 .. Len(Without(s, k)) : Without(s, k)[i].key # k
<1>1. CASE k \notin KeysOf(s)
  BY <1>1 DEF Without, KeysOf
<1>2. CASE k \in KeysOf(s)
  <2> DEFINE at == CHOOSE i \in 1 .. Len(s) : s[i].key = k
             w == [i \in 1 .. Len(s) - 1 |-> IF i < at THEN s[i] ELSE s[i + 1]]
  <2>1. at \in 1 .. Len(s) /\ s[at].key = k
    BY <1>2 DEF KeysOf
  <2>2. Without(s, k) = w
    BY <1>2 DEF Without
  <2> HIDE DEF at
  <2>3. Len(s) - 1 \in Nat
    BY <2>1
  <2>4. \A i \in 1 .. Len(s) - 1 : w[i] \in Record
    BY <2>1
  <2>5. w \in Seq(Record) /\ Len(w) = Len(s) - 1
    BY <2>3, <2>4
  <2>6. \A i \in 1 .. Len(s) : i # at => s[i].key # k
    BY <2>1 DEF Sorted
  <2>7. \A i \in 1 .. Len(s) - 1 : w[i].key # k
    BY <2>1, <2>6
  <2>8. Sorted(w)
    <3> SUFFICES ASSUME NEW i \in 1 .. Len(s) - 1, NEW j \in 1 .. Len(s) - 1, i < j
                 PROVE  w[i].key # w[j].key /\ w[i].age >= w[j].age
      BY <2>5 DEF Sorted
    <3> DEFINE a == IF i < at THEN i ELSE i + 1
               b == IF j < at THEN j ELSE j + 1
    <3>1. a \in 1 .. Len(s) /\ b \in 1 .. Len(s) /\ a < b
      BY <2>1
    <3>2. w[i] = s[a] /\ w[j] = s[b]
      OBVIOUS
    <3> QED
      BY <3>1, <3>2 DEF Sorted
  <2>9. \A i \in 1 .. Len(w) : w[i].key # k
    BY <2>5, <2>7
  <2>10. Len(w) <= Len(s)
    BY <2>3, <2>5
  <2> HIDE DEF w
  <2> QED
    BY <2>2, <2>5, <2>8, <2>9, <2>10
<1> QED
  BY <1>1, <1>2

(* A record of age 0 goes to the end, if there is room. *)
LEMMA AddKeepsTable ==
  ASSUME NEW s, TableOK(s), NEW r \in Record, r.age = 0
  PROVE  TableOK(TableAddRecord(s, r))
<1> DEFINE o == Without(s, r.key)
           n == Append(o, r)
<1>1. r.key \in Keys
  BY DEF Record
<1>2. /\ o \in Seq(Record) /\ Sorted(o) /\ Len(o) <= Len(s)
      /\ \A i \in 1 .. Len(o) : o[i].key # r.key
  BY <1>1, WithoutKey DEF TableOK
<1>3. TableAddRecord(s, r) = IF Len(o) >= RecCap THEN o ELSE n
  BY DEF TableAddRecord
<1> HIDE DEF o
<1>4. Len(s) \in Nat /\ Len(o) \in Nat /\ RecCap \in Nat /\ Len(s) <= RecCap
  BY <1>2, TableAssumption DEF TableOK
<1>5. TableOK(o)
  BY <1>2, <1>4 DEF TableOK
<1>6. ASSUME Len(o) < RecCap
      PROVE  TableOK(n)
  <2>1. n \in Seq(Record) /\ Len(n) = Len(o) + 1
    BY <1>2
  <2>2. \A i \in 1 .. Len(o) : n[i] = o[i] /\ o[i] \in Record
    BY <1>2
  <2>3. n[Len(o) + 1] = r
    BY <1>2
  <2>4. ASSUME NEW i \in 1 .. Len(n), NEW j \in 1 .. Len(n), i < j
        PROVE  n[i].key # n[j].key /\ n[i].age >= n[j].age
    <3>1. i \in 1 .. Len(o)
      BY <2>1, <2>4, <1>4
    <3>2. CASE j = Len(o) + 1
      <4>1. n[i].age \in Nat
        BY <2>2, <3>1, TableAssumption DEF Record
      <4> QED
        BY <1>2, <2>2, <2>3, <3>1, <3>2, <4>1
    <3>3. CASE j \in 1 .. Len(o)
      BY <1>2, <2>2, <2>4, <3>1, <3>3 DEF Sorted
    <3> QED
      BY <2>1, <3>2, <3>3, <1>4
  <2>5. Sorted(n)
    BY <2>4 DEF Sorted
  <2> QED
    BY <1>4, <1>6, <2>1, <2>5 DEF TableOK
<1> QED
  BY <1>3, <1>4, <1>5, <1>6

(* The METRICLOG thread removes the first record. *)
LEMMA TailKeepsTable ==
  ASSUME NEW s, TableOK(s), s # <<>>
  PROVE  TableOK(Tail(s))
<1>1. s \in Seq(Record) /\ Len(s) \in Nat \ {0} /\ RecCap \in Nat
  BY TableAssumption DEF TableOK
<1>2. Tail(s) \in Seq(Record) /\ Len(Tail(s)) = Len(s) - 1
  BY <1>1
<1>3. \A i \in 1 .. Len(s) - 1 : Tail(s)[i] = s[i + 1]
  BY <1>1
<1>4. Sorted(Tail(s))
  <2> SUFFICES ASSUME NEW i \in 1 .. Len(s) - 1, NEW j \in 1 .. Len(s) - 1, i < j
               PROVE  s[i + 1].key # s[j + 1].key /\ s[i + 1].age >= s[j + 1].age
    BY <1>2, <1>3 DEF Sorted
  <2>1. i + 1 \in 1 .. Len(s) /\ j + 1 \in 1 .. Len(s) /\ i + 1 < j + 1
    BY <1>1
  <2> QED
    BY <2>1 DEF TableOK, Sorted
<1> QED
  BY <1>1, <1>2, <1>4 DEF TableOK

Aged(s) ==
  [i \in 1 .. Len(s) |-> [s[i] EXCEPT !.age = IF @ > Timeout THEN @ ELSE @ + 1]]

(* All records of a table age together. *)
LEMMA AgeKeepsTable ==
  ASSUME NEW s, TableOK(s)
  PROVE  TableOK(Aged(s))
<1>1. s \in Seq(Record) /\ Len(s) \in Nat /\ Timeout \in Nat
  BY TableAssumption DEF TableOK
<1>2. \A i \in 1 .. Len(s) :
        /\ Aged(s)[i] \in Record /\ Aged(s)[i].key = s[i].key
        /\ Aged(s)[i].age = IF s[i].age > Timeout THEN s[i].age ELSE s[i].age + 1
        /\ s[i].age \in 0 .. Timeout + 1
  <2> SUFFICES ASSUME NEW i \in 1 .. Len(s)
               PROVE  /\ Aged(s)[i] \in Record /\ Aged(s)[i].key = s[i].key
                      /\ Aged(s)[i].age = IF s[i].age > Timeout THEN s[i].age ELSE s[i].age + 1
                      /\ s[i].age \in 0 .. Timeout + 1
    OBVIOUS
  <2>1. s[i] \in Record
    BY <1>1
  <2> DEFINE a == IF s[i].age > Timeout THEN s[i].age ELSE s[i].age + 1
  <2>2. Aged(s)[i] = [s[i] EXCEPT !.age = a]
    BY DEF Aged
  <2>3. s[i].key \in Keys /\ s[i].lines \in LineCounts /\ s[i].age \in 0 .. Timeout + 1
    BY <2>1 DEF Record
  <2>4. a \in 0 .. Timeout + 1
    BY <1>1, <2>3
  <2> HIDE DEF a
  <2>5. Aged(s)[i].key = s[i].key /\ Aged(s)[i].age = a /\ Aged(s)[i] \in Record
    BY <2>1, <2>2, <2>3, <2>4 DEF Record
  <2> QED
    BY <2>3, <2>5 DEF a
<1>3. Aged(s) \in Seq(Record) /\ Len(Aged(s)) = Len(s)
  BY <1>1, <1>2 DEF Aged
<1>4. Sorted(Aged(s))
  <2> SUFFICES ASSUME NEW i \in 1 .. Len(s), NEW j \in 1 .. Len(s), i < j
               PROVE  Aged(s)[i].key # Aged(s)[j].key /\ Aged(s)[i].age >= Aged(s)[j].age
    BY <1>3 DEF Sorted
  <2>1. s[i].key # s[j].key /\ s[i].age >= s[j].age
    BY DEF TableOK, Sorted
  <2> QED
    BY <1>1, <1>2, <2>1
<1> QED
  BY <1>3, <1>4 DEF TableOK

-----------------------------------------------------------------------------
(* Room in the buffer. *)

(* Division with remainder. *)
LEMMA DivMod ==
  ASSUME NEW a \in Nat, NEW s \in Nat \ {0}
  PROVE  /\ a = s * (a \div s) + (a % s)
         /\ a % s \in 0 .. s - 1 /\ a \div s \in Nat
OBVIOUS

(* A small number is its own remainder. *)
LEMMA ModSmall ==
  ASSUME NEW m \in Nat \ {0}, NEW a \in 0 .. m - 1
  PROVE  a % m = a
OBVIOUS

(* The lines that fit leave a byte. *)
LEMMA FitsLeavesByte ==
  ASSUME NEW left \in Nat \ {0}, NEW n \in Nat, NEW len \in Nat \ {0},
         NEW f, f = IF n <= (left - 1) \div len THEN n ELSE (left - 1) \div len
  PROVE  f \in Nat /\ f * len \in Nat /\ f * len < left
<1> DEFINE q == (left - 1) \div len
<1>0. left - 1 \in Nat
  OBVIOUS
<1>1. left - 1 = len * q + ((left - 1) % len) /\ (left - 1) % len \in 0 .. len - 1 /\ q \in Nat
  BY <1>0, DivMod
<1> HIDE DEF q
<1>2. f \in Nat /\ f <= q
  BY <1>1 DEF q
<1>3. f * len <= q * len /\ f * len \in Nat /\ q * len \in Nat
  BY <1>1, <1>2
<1>4. (left - 1) % len >= 0 /\ len * q = q * len
  BY <1>1
<1> QED
  BY <1>1, <1>2, <1>3, <1>4

-----------------------------------------------------------------------------
(* The order of the tables. *)

(* There is a table. *)
LEMMA TablesNumPositive == TablesNum \in Nat \ {0}
BY FS_CardinalityType, FS_EmptySet, TableAssumption DEF TablesNum

(* A set of natural numbers has its minimum. *)
LEMMA MinOfNat ==
  ASSUME NEW T, T \subseteq Nat, T # {}
  PROVE  Min(T) \in T /\ \A y \in T : Min(T) <= y
<1>1. PICK x \in T : \A y \in T : <<y, x>> \notin OpToRel(<, Nat)
  BY WFMin, NatLessThanWellFounded
<1>2. \A y \in T : ~(y < x)
  BY <1>1 DEF OpToRel
<1>3. \A y \in T : x <= y
  BY <1>2
<1> QED
  BY <1>3 DEF Min

(* How many tables are moved, and that the one behind them has weighting 0. *)
LEMMA RequeuedValue ==
  ASSUME TypeOK
  PROVE  /\ Requeued \in 0 .. TablesNum
         /\ Requeued < TablesNum => weighting[order[Requeued + 1]] = 0
<1>1. TablesNum \in Nat \ {0}
  BY TablesNumPositive
<1> DEFINE zero == {n \in 1 .. TablesNum - 1 : weighting[order[n + 1]] = 0}
           m == Min(zero \cup {TablesNum})
<1>2. zero \cup {TablesNum} \subseteq Nat /\ zero \cup {TablesNum} # {}
  BY <1>1
<1>3. m \in zero \cup {TablesNum}
  BY <1>2, MinOfNat
<1>4. Requeued = IF weighting[order[1]] = 0 THEN 0 ELSE m
  BY DEF Requeued
<1> HIDE DEF m
<1> QED
  BY <1>1, <1>3, <1>4

(* Moving first tables to the end is a rotation. *)
LEMMA RotationOnto ==
  ASSUME NEW n \in Nat \ {0}, NEW r \in 0 .. n, NEW i \in 1 .. n
  PROVE  /\ ((i + r - 1) % n) + 1 \in 1 .. n
         /\ \E j \in 1 .. n : ((j + r - 1) % n) + 1 = i
<1>1. \A a \in 0 .. 2 * n - 1 : a % n = IF a < n THEN a ELSE a - n
  OBVIOUS
<1>2. ((i + r - 1) % n) + 1 \in 1 .. n
  BY <1>1
<1> DEFINE j == IF i > r THEN i - r ELSE i - r + n
<1>3. j \in 1 .. n
  OBVIOUS
<1>4. ((j + r - 1) % n) = i - 1
  <2>1. j + r - 1 \in 0 .. 2 * n - 1
    BY <1>3
  <2> QED
    BY <1>1, <2>1
<1>5. ((j + r - 1) % n) + 1 = i
  BY <1>4
<1> QED
  BY <1>2, <1>3, <1>5

OrderOK == \A t \in Tables : \E i \in 1 .. TablesNum : order[i] = t

(* IMDB_AdjustTblPrio loses no table and makes one of weighting 0 the first. *)
LEMMA AdjustKeepsOrder ==
  ASSUME TypeOK, OrderOK, AdjustTblPrio
  PROVE  /\ order' \in [1 .. TablesNum -> Tables] /\ OrderOK'
         /\ weighting' \in [Tables -> 0 .. CharMod - 1]
         /\ weighting'[order'[1]] = 0
<1> DEFINE r == Requeued
           at(i) == ((i + r - 1) % TablesNum) + 1
<1>1. TablesNum \in Nat \ {0} /\ r \in 0 .. TablesNum
  BY TablesNumPositive, RequeuedValue
<1>2. \A i \in 1 .. TablesNum : at(i) \in 1 .. TablesNum
  BY <1>1, RotationOnto
<1>3. order' = [i \in 1 .. TablesNum |-> order[at(i)]]
  BY DEF AdjustTblPrio, Rotated
<1>4. weighting' = [t \in Tables |-> IF \E i \in 1 .. r : order[i] = t THEN 0 ELSE weighting[t]]
  BY DEF AdjustTblPrio, Moved
<1>5. r < TablesNum => weighting[order[r + 1]] = 0
  BY RequeuedValue
<1>6. \A i \in 1 .. TablesNum : \E j \in 1 .. TablesNum : at(j) = i
  BY <1>1, RotationOnto
<1>7. at(1) = IF r < TablesNum THEN r + 1 ELSE 1
  BY <1>1
<1> HIDE DEF r, at
<1>8. order' \in [1 .. TablesNum -> Tables]
  BY <1>2, <1>3 DEF TypeOK
<1>9. weighting' \in [Tables -> 0 .. CharMod - 1]
  BY <1>4, BufferAssumption DEF TypeOK
<1>10. OrderOK'
  <2> SUFFICES ASSUME NEW t \in Tables
               PROVE  \E i \in 1 .. TablesNum : order'[i] = t
    BY DEF OrderOK, TablesNum
  <2>1. PICK i \in 1 .. TablesNum : order[i] = t
    BY DEF OrderOK
  <2>2. PICK j \in 1 .. TablesNum : at(j) = i
    BY <1>6
  <2> QED
    BY <1>3, <2>1, <2>2
<1>11. weighting'[order'[1]] = 0
  <2>1. 1 \in 1 .. TablesNum /\ order'[1] = order[at(1)] /\ order'[1] \in Tables
    BY <1>1, <1>3, <1>8
  <2>2. CASE r < TablesNum
    BY <1>4, <1>5, <1>7, <2>1, <2>2
  <2>3. CASE r = TablesNum
    BY <1>1, <1>4, <1>7, <2>1, <2>3
  <2> QED
    BY <1>1, <2>2, <2>3
<1> QED
  BY <1>8, <1>9, <1>10, <1>11

-----------------------------------------------------------------------------
(***************************************************************************)
(* The inductive invariant: the checked ones together, that a walk has a    *)
(* table in hand, begins with nothing printed, and a round with the whole   *)
(* buffer.                                                                  *)
(***************************************************************************)
WalkOK ==
  /\ wpc = "record" => ti <= TablesNum
  /\ wpc \in {"sleep", "table"} => total = 0
  /\ wpc = "sleep" => room = bufMax

(* No table is lost, and a round begins with a table of weighting 0. *)
PriorityOK ==
  /\ \A t \in Tables : \E i \in 1 .. TablesNum : order[i] = t
  /\ wpc \in {"sleep", "refused"} => weighting[order[1]] = 0

Inv == TypeOK /\ NeverOverrun /\ TableInv /\ PriorityOK /\ WalkOK

(* The invariant of the tables, one by one. *)
LEMMA TablesAreOK ==
  ASSUME TypeOK
  PROVE  TableInv <=> \A t \in Tables : TableOK(records[t])
BY DEF TypeOK, TableInv, TableOK, Sorted

(* The same after a step. *)
LEMMA TablesStayOK ==
  ASSUME records' \in [Tables -> Seq(Record)], \A t \in Tables : TableOK(records'[t])
  PROVE  TableInv'
BY DEF TableInv, TableOK, Sorted

(* What the assumptions say about the numbers. *)
LEMMA TypesPositive ==
  /\ U32 \in Nat /\ RecCap \in Nat \ {0} /\ Period \in Nat \ {0} /\ Timeout \in Nat
  /\ \A b \in Buffers : b \in 1 .. U32 - 1
  /\ TablesNum \in Nat \ {0}
BY TableAssumption, BufferAssumption, TablesNumPositive

(* The invariant holds at the start. *)
LEMMA InitInv == Init => Inv
<1> SUFFICES ASSUME Init PROVE Inv
  OBVIOUS
<1>1. order \in [1 .. TablesNum -> Tables]
      /\ \A i, j \in 1 .. TablesNum : order[i] = order[j] => i = j
  BY DEF Init
<1>2. TypeOK
  BY <1>1, TypesPositive, BufferAssumption DEF Init, TypeOK
<1>3. PriorityOK
  <2>1. order \in Injection(1 .. TablesNum, Tables)
    BY <1>1 DEF Injection, IsInjective
  <2>2. Cardinality(1 .. TablesNum) = Cardinality(Tables)
    BY FS_Interval, TypesPositive DEF TablesNum
  <2>3. order \in Surjection(1 .. TablesNum, Tables)
    BY <2>1, <2>2, FS_Injection, TableAssumption
  <2>4. \A t \in Tables : \E i \in 1 .. TablesNum : order[i] = t
    BY <2>3 DEF Surjection
  <2> QED
    BY <1>1, <2>4, TypesPositive DEF Init, PriorityOK
<1>4. NeverOverrun /\ WalkOK
  BY TypesPositive DEF Init, NeverOverrun, WalkOK
<1>5. TableInv
  BY TypesPositive DEF Init, TableInv
<1> QED
  BY <1>2, <1>3, <1>4, <1>5 DEF Inv

(* Ingress adds a record. *)
LEMMA AddRecordInv ==
  ASSUME Inv, NEW t \in Tables, NEW k \in Keys, NEW n \in LineCounts, AddRecord(t, k, n)
  PROVE  Inv'
<1> DEFINE r == [key |-> k, lines |-> n, age |-> 0]
<1>1. r \in Record /\ r.age = 0
  BY TypesPositive DEF Record
<1>2. records' = [records EXCEPT ![t] = TableAddRecord(@, r)]
  BY DEF AddRecord
<1> HIDE DEF r
<1>3. \A u \in Tables : TableOK(records[u])
  BY TablesAreOK DEF Inv
<1>4. TableOK(TableAddRecord(records[t], r))
  BY <1>1, <1>3, AddKeepsTable
<1>5. records' \in [Tables -> Seq(Record)] /\ \A u \in Tables : TableOK(records'[u])
  BY <1>2, <1>3, <1>4 DEF Inv, TypeOK, TableOK
<1>6. TypeOK'
  BY <1>5 DEF Inv, TypeOK, AddRecord, walkVars, TablesNum
<1>7. TableInv'
  BY <1>5, TablesStayOK
<1> QED
  BY <1>6, <1>7 DEF Inv, NeverOverrun, PriorityOK, WalkOK, AddRecord, walkVars, TablesNum

(* A second passes. *)
LEMMA TickInv ==
  ASSUME Inv, Tick
  PROVE  Inv'
<1>1. \A u \in Tables : TableOK(records[u])
  BY TablesAreOK DEF Inv
<1>2. records' = [u \in Tables |-> Aged(records[u])]
  BY DEF Tick, Aged
<1>3. records' \in [Tables -> Seq(Record)] /\ \A u \in Tables : TableOK(records'[u])
  BY <1>1, <1>2, AgeKeepsTable DEF TableOK
<1>4. TypeOK'
  BY <1>3 DEF Inv, TypeOK, Tick, walkVars, TablesNum
<1>5. TableInv'
  BY <1>3, TablesStayOK
<1> QED
  BY <1>4, <1>5 DEF Inv, NeverOverrun, PriorityOK, WalkOK, Tick, walkVars, TablesNum

(* A round begins. *)
LEMMA WriteBeginInv ==
  ASSUME Inv, WriteBegin
  PROVE  Inv'
<1>1. wpc = "sleep" /\ wpc' = "table" /\ due' = FALSE
      /\ UNCHANGED <<bufMax, records, order, weighting, ti, room, total, index, blocked, turn>>
  BY DEF WriteBegin, walkVars
<1>2. TypeOK'
  BY <1>1 DEF Inv, TypeOK, TablesNum
<1>3. NeverOverrun'
  BY <1>1, TypesPositive DEF Inv, TypeOK, NeverOverrun, WalkOK
<1>4. TableInv' /\ PriorityOK'
  BY <1>1 DEF Inv, TableInv, PriorityOK, TablesNum
<1>5. WalkOK'
  BY <1>1 DEF Inv, WalkOK
<1> QED
  BY <1>2, <1>3, <1>4, <1>5 DEF Inv

(* The walk comes to a table. *)
LEMMA TableBeginInv ==
  ASSUME Inv, TableBegin
  PROVE  Inv'
<1>1. /\ wpc = "table" /\ ti <= TablesNum
      /\ \/ ti' = ti + 1 /\ wpc' = wpc
         \/ wpc' = "record" /\ ti' = ti
      /\ UNCHANGED <<bufMax, records, order, weighting, room, total, index, due, blocked, turn>>
  BY DEF TableBegin
<1>2. TypeOK'
  <2>1. ti' \in 1 .. TablesNum + 1
    BY <1>1, TypesPositive DEF Inv, TypeOK
  <2> QED
    BY <1>1, <2>1 DEF Inv, TypeOK, TablesNum
<1>3. NeverOverrun'
  BY <1>1, TypesPositive DEF Inv, TypeOK, NeverOverrun, WalkOK
<1>4. TableInv' /\ PriorityOK'
  BY <1>1 DEF Inv, TableInv, PriorityOK, TablesNum
<1>5. WalkOK'
  BY <1>1 DEF Inv, WalkOK, TablesNum
<1> QED
  BY <1>2, <1>3, <1>4, <1>5 DEF Inv

(* A walk removes the first record of its table. *)
LEMMA DropFirstTables ==
  ASSUME Inv, wpc = "record", records[Table] # <<>>, DropFirst
  PROVE  /\ Table \in Tables /\ First \in Record
         /\ records' \in [Tables -> Seq(Record)] /\ TableInv'
<1>1. Table \in Tables
  BY TypesPositive DEF Inv, TypeOK, WalkOK, Table
<1>2. \A u \in Tables : TableOK(records[u])
  BY TablesAreOK DEF Inv
<1>3. TableOK(Tail(records[Table]))
  BY <1>1, <1>2, TailKeepsTable
<1>4. records' = [records EXCEPT ![Table] = Tail(@)]
  BY DEF DropFirst
<1>5. records[Table] \in Seq(Record)
  BY <1>1 DEF Inv, TypeOK
<1>6. First \in Record
  BY <1>5 DEF First
<1> HIDE DEF Table
<1>7. records' \in [Tables -> Seq(Record)] /\ \A u \in Tables : TableOK(records'[u])
  BY <1>1, <1>2, <1>3, <1>4 DEF Inv, TypeOK, TableOK
<1> QED
  BY <1>1, <1>6, <1>7, TablesStayOK

(* A record is too old. *)
LEMMA ExpireInv ==
  ASSUME Inv, Expire
  PROVE  Inv'
<1>1. Table \in Tables /\ records' \in [Tables -> Seq(Record)] /\ TableInv'
  BY DropFirstTables DEF Expire, Walking
<1>2. blocked' \in [Tables -> SUBSET Keys]
  BY DEF Inv, TypeOK, Expire
<1>3. TypeOK'
  BY <1>1, <1>2 DEF Inv, TypeOK, Expire, walkVars, TablesNum
<1> QED
  BY <1>1, <1>3 DEF Inv, NeverOverrun, PriorityOK, WalkOK, Expire, walkVars, TablesNum

(* A record is printed. *)
LEMMA EmitRecordInv ==
  ASSUME Inv, EmitRecord
  PROVE  Inv'
<1>1. Table \in Tables /\ First \in Record /\ records' \in [Tables -> Seq(Record)] /\ TableInv'
  BY DropFirstTables DEF EmitRecord, Walking
<1>2. wpc = "record" /\ total \in Nat /\ room \in Nat /\ total < room /\ room \in 0 .. U32 - 1
      /\ index < Period /\ index \in Nat
  BY TypesPositive DEF Inv, TypeOK, NeverOverrun, EmitRecord, Walking
<1>3. Left = room - total /\ Left \in Nat \ {0}
  <2>1. room - total \in 0 .. U32 - 1 /\ U32 \in Nat \ {0}
    BY <1>2, TypesPositive
  <2> QED
    BY <1>2, <2>1, ModSmall DEF Left
<1>4. First.lines \in Nat /\ LineLen[Table] \in Nat \ {0}
  BY <1>1, TableAssumption DEF Record
<1> DEFINE f == Fits(Table, First)
           l == f * LineLen[Table]
<1>5. f = IF First.lines <= (Left - 1) \div LineLen[Table] THEN First.lines
          ELSE (Left - 1) \div LineLen[Table]
  BY DEF Fits
<1>6. total' = total + l /\ index' = index + 1
  BY DEF EmitRecord
<1> HIDE DEF f
<1>7. l \in Nat /\ l < Left
  BY <1>3, <1>4, <1>5, FitsLeavesByte
<1> HIDE DEF l
<1>8. total' \in Nat /\ total' < room /\ index' \in 0 .. Period
  BY <1>2, <1>3, <1>6, <1>7, TypesPositive
<1>9. blocked' \in [Tables -> SUBSET Keys]
  BY DEF Inv, TypeOK, EmitRecord
<1>10. TypeOK'
  BY <1>1, <1>8, <1>9 DEF Inv, TypeOK, EmitRecord, TablesNum
<1> QED
  BY <1>1, <1>2, <1>8, <1>10 DEF Inv, NeverOverrun, PriorityOK, WalkOK, EmitRecord, TablesNum

(* The walk leaves a table. *)
LEMMA TableEndInv ==
  ASSUME Inv, TableEnd
  PROVE  Inv'
<1>1. wpc = "record" /\ total \in Nat /\ room \in 0 .. U32 - 1 /\ total < room
      /\ ti \in 1 .. TablesNum /\ room <= bufMax /\ bufMax \in Buffers
  BY TypesPositive DEF Inv, TypeOK, NeverOverrun, WalkOK, TableEnd
<1>2. Table \in Tables
  BY <1>1 DEF Inv, TypeOK, Table
<1>3. KeysOf(records[Table]) \subseteq Keys
  <2>1. records[Table] \in Seq(Record)
    BY <1>2 DEF Inv, TypeOK
  <2>2. \A i \in 1 .. Len(records[Table]) : records[Table][i] \in Record
    BY <2>1
  <2>3. \A i \in 1 .. Len(records[Table]) : records[Table][i].key \in Keys
    BY <2>2 DEF Record
  <2> QED
    BY <2>3 DEF KeysOf
<1>4. blocked' \in [Tables -> SUBSET Keys]
  BY <1>2, <1>3 DEF Inv, TypeOK, TableEnd
<1>5. CASE TooLong
  <2>1. wpc' = "ended" /\ total' = 0 /\ index' = 0
        /\ UNCHANGED <<bufMax, records, order, weighting, turn, ti, room, due>>
    BY <1>5 DEF TableEnd
  <2>2. TypeOK'
    BY <1>4, <2>1, TypesPositive DEF Inv, TypeOK, TablesNum
  <2> QED
    BY <2>1, <2>2 DEF Inv, NeverOverrun, TableInv, PriorityOK, WalkOK, TablesNum
<1>6. CASE ~TooLong
  <2>1. room - Printed \in 0 .. U32 - 1 /\ room - Printed >= 1 /\ room - Printed <= bufMax
    BY <1>1, <1>6, TypesPositive DEF TooLong, Printed
  <2>2. room' = room - Printed
    BY <1>1, <1>6, <2>1, ModSmall, TypesPositive DEF TableEnd
  <2>3. (weighting[Table] + 1) % CharMod \in 0 .. CharMod - 1
    BY <1>2, BufferAssumption DEF Inv, TypeOK
  <2>4. weighting' \in [Tables -> 0 .. CharMod - 1]
    BY <1>2, <1>6, <2>3 DEF Inv, TypeOK, TableEnd
  <2>5. wpc' = "table" /\ ti' = ti + 1 /\ total' = 0 /\ index' = 0
        /\ UNCHANGED <<bufMax, records, order, due>>
        /\ turn' = [turn EXCEPT ![Table] = "now"]
    BY <1>6 DEF TableEnd
  <2>6. ti' \in 1 .. TablesNum + 1
    BY <1>1, <2>5, TypesPositive
  <2>7. TypeOK'
    <3>1. turn' \in [Tables -> {"silent", "now", "before"}]
      BY <1>2, <2>5 DEF Inv, TypeOK
    <3> QED BY <1>4, <2>1, <2>2, <2>4, <2>5, <2>6, <3>1, TypesPositive DEF Inv, TypeOK, TablesNum
  <2> QED
    BY <2>1, <2>2, <2>5, <2>7 DEF Inv, NeverOverrun, TableInv, PriorityOK, WalkOK, TablesNum
<1> QED
  BY <1>5, <1>6

(* A round ends. *)
LEMMA WriteEndInv ==
  ASSUME Inv, WriteEnd
  PROVE  Inv'
<1>1. OrderOK /\ TypeOK /\ AdjustTblPrio
  BY DEF Inv, PriorityOK, OrderOK, WriteEnd
<1>2. /\ order' \in [1 .. TablesNum -> Tables] /\ OrderOK'
      /\ weighting' \in [Tables -> 0 .. CharMod - 1]
      /\ weighting'[order'[1]] = 0
  BY <1>1, AdjustKeepsOrder
<1>3. /\ wpc' \in {"sleep", "refused"} /\ ti' = 1 /\ room' = bufMax /\ total' = 0 /\ index' = 0
      /\ UNCHANGED <<bufMax, records, due, blocked>>
  BY DEF WriteEnd
<1>4. bufMax \in 1 .. U32 - 1
  BY TypesPositive DEF Inv, TypeOK
<1>5. TypeOK'
  <2>1. turn' \in [Tables -> {"silent", "now", "before"}]
    BY <1>1 DEF AdjustTblPrio, NextTurn, TypeOK
  <2> QED BY <1>2, <1>3, <1>4, <2>1, TypesPositive DEF Inv, TypeOK, TablesNum
<1>6. TableInv'
  BY <1>3 DEF Inv, TableInv
<1>7. PriorityOK'
  BY <1>2 DEF PriorityOK, OrderOK, TablesNum
<1> QED
  BY <1>3, <1>4, <1>5, <1>6, <1>7 DEF Inv, NeverOverrun, WalkOK, TablesNum

(* Every step keeps the invariant. *)
LEMMA NextInv == Inv /\ [Next]_vars => Inv'
<1> SUFFICES ASSUME Inv, [Next]_vars PROVE Inv'
  OBVIOUS
<1>1. CASE UNCHANGED vars
  BY <1>1 DEF Inv, TypeOK, NeverOverrun, TableInv, PriorityOK, WalkOK, vars, walkVars,
     TablesNum
<1>2. CASE Next
  BY <1>2, AddRecordInv, TickInv, WriteBeginInv, TableBeginInv, ExpireInv, EmitRecordInv,
     TableEndInv, WriteEndInv DEF Next, WriteMetricsLogs
<1> QED
  BY <1>1, <1>2

(* The state of the database and of the walk keeps its types, for every     *)
(* set of tables, buffer size, capacity, period and timeout.                *)
THEOREM ImdbTypeCorrect == Spec => []TypeOK
<1>1. Inv => TypeOK
  BY DEF Inv
<1> QED
  BY <1>1, InitInv, NextInv, PTL DEF Spec

(* IMDB_DataBase2Prometheus never writes past the buffer, and curMaxLen     *)
(* never wraps below zero.                                                  *)
THEOREM BufferNeverOverrun == Spec => []NeverOverrun
<1>1. Inv => NeverOverrun
  BY DEF Inv
<1> QED
  BY <1>1, InitInv, NextInv, PTL DEF Spec

(* IMDB_TableAddRecord and the walk keep one record per key, the oldest     *)
(* first, within the capacity.                                              *)
THEOREM TablesCorrect == Spec => []TableInv
<1>1. Inv => TableInv
  BY DEF Inv
<1> QED
  BY <1>1, InitInv, NextInv, PTL DEF Spec

-----------------------------------------------------------------------------
(* The order of the tables. *)

(* An order of the tables has each at one place. *)
LEMMA OnePlace ==
  ASSUME NEW o \in [1 .. TablesNum -> Tables], \A t \in Tables : \E i \in 1 .. TablesNum : o[i] = t
  PROVE  \A i, j \in 1 .. TablesNum : o[i] = o[j] => i = j
<1>1. TablesNum \in Nat \ {0} /\ IsFiniteSet(Tables)
  BY TypesPositive, TableAssumption
<1>2. o \in Surjection(1 .. TablesNum, Tables)
  BY DEF Surjection
<1>3. Cardinality(1 .. TablesNum) = Cardinality(Tables) /\ IsFiniteSet(1 .. TablesNum)
  BY <1>1, FS_Interval DEF TablesNum
<1>4. o \in Injection(1 .. TablesNum, Tables)
  BY <1>2, <1>3, FS_Surjection
<1> QED BY <1>4 DEF Injection, IsInjective

(***************************************************************************)
(* A silent table has weighting 0, and a first table that had its turn in   *)
(* this round has weighting 1: it began the round with 0, and weighting, a  *)
(* char, does not wrap from there.                                          *)
(***************************************************************************)
TurnInv ==
  /\ \A t \in Tables : turn[t] = "silent" => weighting[t] = 0
  /\ wpc \in {"sleep", "refused"} => ti = 1 /\ \A t \in Tables : turn[t] # "now"
  /\ wpc \in {"table", "record"} /\ ti = 1 => weighting[order[1]] = 0 /\ turn[order[1]] # "now"
  /\ wpc \in {"table", "record"} /\ turn[order[1]] = "now" => weighting[order[1]] = 1

(* Turns are kept by the steps that leave the order and the turns alone. *)
LEMMA TurnKept ==
  ASSUME TurnInv, UNCHANGED <<turn, weighting, order, ti, wpc>>
  PROVE  TurnInv'
BY DEF TurnInv

(* A walk over a table with records is its turn. *)
LEMMA TableEndTurn ==
  ASSUME Inv, TurnInv, TableEnd
  PROVE  TurnInv'
<1>1. /\ wpc = "record" /\ ti \in 1 .. TablesNum /\ order \in [1 .. TablesNum -> Tables]
      /\ 1 \in 1 .. TablesNum /\ order' = order
      /\ weighting \in [Tables -> 0 .. CharMod - 1]
      /\ turn \in [Tables -> {"silent", "now", "before"}]
  BY TypesPositive DEF Inv, TypeOK, WalkOK, TableEnd
<1>2. CASE TooLong
  BY <1>2 DEF TableEnd, TurnInv
<1>3. CASE ~TooLong
  <2> PICK u \in Tables : u = order[ti]
    BY <1>1
  <2> PICK f \in Tables : f = order[1]
    BY <1>1
  <2>1. /\ weighting' = [weighting EXCEPT ![u] = (@ + 1) % CharMod]
        /\ turn' = [turn EXCEPT ![u] = "now"] /\ wpc' = "table" /\ ti' = ti + 1
    BY <1>3 DEF TableEnd, Table
  <2>2. u = f => ti = 1
    BY <1>1, OnePlace DEF Inv, PriorityOK
  <2>3. \A t \in Tables : turn'[t] = "silent" => weighting'[t] = 0
    BY <1>1, <2>1 DEF TurnInv
  <2>4. turn'[f] = "now" => weighting'[f] = 1
    <3>1. CASE u = f
      <4>1. weighting[f] = 0
        BY <1>1, <2>2, <3>1 DEF TurnInv
      <4> QED BY <1>1, <2>1, <3>1, <4>1, BufferAssumption
    <3>2. CASE u # f
      BY <1>1, <2>1, <3>2 DEF TurnInv
    <3> QED BY <3>1, <3>2
  <2>5. ti' # 1
    BY <1>1, <2>1
  <2> QED BY <1>1, <2>1, <2>3, <2>4, <2>5 DEF TurnInv
<1> QED BY <1>2, <1>3

(* A round ends: what was moved starts afresh. *)
LEMMA WriteEndTurn ==
  ASSUME Inv, TurnInv, WriteEnd
  PROVE  TurnInv'
<1>1. /\ \A t \in Tables : weighting'[t] = IF Moved(t) THEN 0 ELSE weighting[t]
      /\ \A t \in Tables : turn'[t] = IF Moved(t) THEN "silent"
                                     ELSE IF turn[t] = "now" THEN "before" ELSE turn[t]
      /\ wpc' \in {"sleep", "refused"} /\ ti' = 1
  BY DEF WriteEnd, AdjustTblPrio, NextTurn
<1>2. \A t \in Tables : turn'[t] = "silent" => weighting'[t] = 0
  BY <1>1 DEF TurnInv
<1>3. \A t \in Tables : turn'[t] # "now"
  BY <1>1
<1> QED BY <1>1, <1>2, <1>3 DEF TurnInv

(* Every step keeps the turns. *)
LEMMA NextTurnInv ==
  ASSUME Inv, TurnInv, [Next]_vars
  PROVE  TurnInv'
<1>1. CASE UNCHANGED vars
  BY <1>1, TurnKept DEF vars, walkVars
<1>2. ASSUME NEW t \in Tables, NEW k \in Keys, NEW n \in LineCounts, AddRecord(t, k, n)
      PROVE  TurnInv'
  BY <1>2, TurnKept DEF AddRecord, walkVars
<1>3. CASE Tick
  BY <1>3, TurnKept DEF Tick, walkVars
<1>4. CASE WriteBegin
  <2>1. order[1] \in Tables
    BY TypesPositive DEF Inv, TypeOK
  <2> QED BY <1>4, <2>1 DEF WriteBegin, walkVars, TurnInv, Inv, PriorityOK
<1>5. CASE TableBegin
  <2>1. ti \in Nat \ {0}
    BY DEF Inv, TypeOK
  <2> QED BY <1>5, <2>1 DEF TableBegin, TurnInv
<1>6. CASE Expire
  BY <1>6, TurnKept DEF Expire, walkVars
<1>7. CASE EmitRecord
  BY <1>7, TurnKept DEF EmitRecord
<1> QED
  BY <1>1, <1>2, <1>3, <1>4, <1>5, <1>6, <1>7, TableEndTurn, WriteEndTurn
  DEF Next, WriteMetricsLogs

(* A first table of weighting 1 and another of weighting 0: some are moved,  *)
(* and not all.                                                              *)
LEMMA SomeAreMoved ==
  ASSUME TypeOK, weighting[order[1]] # 0, NEW k \in 2 .. TablesNum, weighting[order[k]] = 0
  PROVE  Requeued \in 1 .. TablesNum - 1
<1>1. TablesNum \in Nat \ {0}
  BY TablesNumPositive
<1> DEFINE zero == {n \in 1 .. TablesNum - 1 : weighting[order[n + 1]] = 0}
           m == Min(zero \cup {TablesNum})
<1>2. zero \cup {TablesNum} \subseteq Nat /\ k - 1 \in zero
  BY <1>1
<1>3. m \in zero \cup {TablesNum} /\ m <= k - 1
  BY <1>2, MinOfNat
<1>4. Requeued = m
  BY DEF Requeued
<1> HIDE DEF m
<1> QED BY <1>1, <1>3, <1>4

(* IMDB_AdjustTblPrio loses no table, and a first table that had its turn    *)
(* gives way while another has had none since it was moved to the end.       *)
THEOREM TakesTurns == Spec => FirstGivesWay
<1> DEFINE Gives ==
      wpc = "table" /\ wpc' \in {"sleep", "refused"} =>
        /\ turn[order[1]] = "now" /\ (\E t \in Tables : turn[t] = "silent") => order'[1] # order[1]
        /\ \A t \in Tables : \E i \in 1 .. TablesNum : order'[i] = t
<1>1. ASSUME Inv, TurnInv, [Next]_vars
      PROVE  [Gives]_vars
  <2>1. CASE WriteEnd
    <3>1. OrderOK /\ TypeOK /\ AdjustTblPrio
      BY <1>1, <2>1 DEF Inv, PriorityOK, OrderOK, WriteEnd
    <3>2. \A t \in Tables : \E i \in 1 .. TablesNum : order'[i] = t
      BY <3>1, AdjustKeepsOrder DEF OrderOK, TablesNum
    <3>3. ASSUME turn[order[1]] = "now", NEW t \in Tables, turn[t] = "silent"
          PROVE  order'[1] # order[1]
      <4>1. TablesNum \in Nat \ {0} /\ order \in [1 .. TablesNum -> Tables]
        BY <3>1, TypesPositive DEF TypeOK
      <4>2. weighting[order[1]] # 0 /\ weighting[t] = 0
        BY <1>1, <2>1, <3>3 DEF TurnInv, WriteEnd
      <4>3. PICK k \in 1 .. TablesNum : order[k] = t
        BY <3>1 DEF OrderOK
      <4>4. k \in 2 .. TablesNum
        BY <4>1, <4>2, <4>3
      <4>5. Requeued \in 1 .. TablesNum - 1
        BY <3>1, <4>2, <4>3, <4>4, SomeAreMoved
      <4>6. order'[1] = order[((1 + Requeued - 1) % TablesNum) + 1]
        BY <3>1, <4>1 DEF AdjustTblPrio, Rotated
      <4>7. ((1 + Requeued - 1) % TablesNum) + 1 = Requeued + 1
        BY <4>1, <4>5
      <4>8. \A i, j \in 1 .. TablesNum : order[i] = order[j] => i = j
        BY <3>1, <4>1, OnePlace DEF OrderOK
      <4> QED BY <4>1, <4>5, <4>6, <4>7, <4>8
    <3> QED BY <3>2, <3>3
  <2>2. CASE UNCHANGED vars
    BY <2>2
  <2>3. ASSUME Next, ~WriteEnd
        PROVE  Gives
    BY <2>3 DEF Next, WriteMetricsLogs, AddRecord, Tick, WriteBegin, TableBegin, Expire,
       EmitRecord, TableEnd, Walking, LockFree
  <2> QED BY <1>1, <2>1, <2>2, <2>3
<1>2. Init => TurnInv
  BY TypesPositive DEF Init, TurnInv
<1>3. Inv /\ TurnInv /\ [Next]_vars => TurnInv'
  BY NextTurnInv
<1>4. Inv /\ TurnInv /\ [Next]_vars => [Gives]_vars
  BY <1>1
<1> QED
  BY <1>2, <1>3, <1>4, InitInv, NextInv, PTL DEF Spec, FirstGivesWay

-----------------------------------------------------------------------------
(* What ingress never does: make a table forget a key. *)

(* Deleting a key that is there makes room for it. *)
LEMMA WithoutLength ==
  ASSUME NEW s \in Seq(Record), NEW k \in KeysOf(s)
  PROVE  /\ Len(Without(s, k)) = Len(s) - 1
         /\ \A i \in 1 .. Len(s) : s[i].key # k => s[i].key \in KeysOf(Without(s, k))
<1> DEFINE at == CHOOSE i \in 1 .. Len(s) : s[i].key = k
           w == [i \in 1 .. Len(s) - 1 |-> IF i < at THEN s[i] ELSE s[i + 1]]
<1>1. at \in 1 .. Len(s) /\ s[at].key = k
  BY DEF KeysOf
<1>2. Without(s, k) = w
  BY DEF Without
<1> HIDE DEF at
<1>3. Len(s) - 1 \in Nat
  BY <1>1
<1>4. w \in Seq(Record) /\ Len(w) = Len(s) - 1
  <2>1. \A i \in 1 .. Len(s) - 1 : w[i] \in Record
    BY <1>1
  <2> QED
    BY <1>3, <2>1
<1>5. ASSUME NEW i \in 1 .. Len(s), s[i].key # k
      PROVE  s[i].key \in KeysOf(w)
  <2>1. i # at
    BY <1>1, <1>5
  <2> DEFINE j == IF i < at THEN i ELSE i - 1
  <2>2. j \in 1 .. Len(w) /\ w[j] = s[i]
    BY <1>1, <1>4, <2>1
  <2> QED
    BY <2>2 DEF KeysOf
<1> HIDE DEF w
<1> QED
  BY <1>2, <1>4, <1>5

(* A record that is added replaces the one with its key. *)
LEMMA AddKeepsKeys ==
  ASSUME NEW s, TableOK(s), NEW r \in Record
  PROVE  KeysOf(s) \subseteq KeysOf(TableAddRecord(s, r))
<1> DEFINE o == Without(s, r.key)
           n == Append(o, r)
<1>1. s \in Seq(Record) /\ Len(s) \in Nat /\ Len(s) <= RecCap /\ RecCap \in Nat /\ r.key \in Keys
  BY TableAssumption DEF TableOK, Record
<1>2. o \in Seq(Record)
  BY <1>1, WithoutKey DEF TableOK
<1>3. TableAddRecord(s, r) = IF Len(o) >= RecCap THEN o ELSE n
  BY DEF TableAddRecord
<1>4. KeysOf(o) \subseteq KeysOf(n) /\ r.key \in KeysOf(n)
  <2>1. Len(n) = Len(o) + 1 /\ n[Len(o) + 1] = r /\ \A i \in 1 .. Len(o) : n[i] = o[i]
    BY <1>2
  <2>2. Len(o) \in Nat
    BY <1>2
  <2> HIDE DEF n
  <2> QED
    BY <2>1, <2>2 DEF KeysOf
<1>5. CASE r.key \notin KeysOf(s)
  BY <1>3, <1>4, <1>5 DEF Without
<1>6. CASE r.key \in KeysOf(s)
  <2>1. /\ Len(o) = Len(s) - 1
        /\ \A i \in 1 .. Len(s) : s[i].key # r.key => s[i].key \in KeysOf(o)
    BY <1>1, <1>6, WithoutLength
  <2>2. TableAddRecord(s, r) = n
    BY <1>1, <1>3, <2>1
  <2> HIDE DEF o, n
  <2> QED
    BY <1>4, <2>1, <2>2 DEF KeysOf
<1> QED
  BY <1>5, <1>6

(* IMDB_TableAddRecord loses no key, a full table included: the old record  *)
(* is deleted before the records are counted.                               *)
THEOREM IngressLosesNothing == Spec => AddLosesNothing
<1> DEFINE Keeps == LockFree => \A t \in Tables : KeysOf(records[t]) \subseteq KeysOf(records'[t])
<1>1. ASSUME Inv, [Next]_vars PROVE [Keeps]_vars
  <2>1. CASE UNCHANGED vars
    BY <2>1
  <2>2. ASSUME NEW t \in Tables, NEW k \in Keys, NEW n \in LineCounts, AddRecord(t, k, n)
        PROVE  Keeps
    <3> DEFINE r == [key |-> k, lines |-> n, age |-> 0]
    <3>1. r \in Record
      BY TypesPositive DEF Record
    <3>2. records' = [records EXCEPT ![t] = TableAddRecord(@, r)]
      BY <2>2 DEF AddRecord
    <3> HIDE DEF r
    <3>3. TableOK(records[t])
      BY <1>1, TablesAreOK DEF Inv
    <3>4. KeysOf(records[t]) \subseteq KeysOf(TableAddRecord(records[t], r))
      BY <3>1, <3>3, AddKeepsKeys
    <3> QED
      BY <1>1, <3>2, <3>4 DEF Inv, TypeOK
  <2>3. CASE Tick
    <3>1. records' = [u \in Tables |-> Aged(records[u])]
      BY <2>3 DEF Tick, Aged
    <3> SUFFICES ASSUME NEW u \in Tables PROVE KeysOf(records[u]) \subseteq KeysOf(Aged(records[u]))
      BY <3>1
    <3>2. records[u] \in Seq(Record)
      BY <1>1 DEF Inv, TypeOK
    <3>3. \A i \in 1 .. Len(records[u]) : Aged(records[u])[i].key = records[u][i].key
      <4> SUFFICES ASSUME NEW i \in 1 .. Len(records[u])
                   PROVE  Aged(records[u])[i].key = records[u][i].key
        OBVIOUS
      <4>1. records[u][i] \in Record
        BY <3>2
      <4> QED
        BY <4>1 DEF Aged, Record
    <3>4. Len(Aged(records[u])) = Len(records[u])
      BY <3>2 DEF Aged
    <3> QED
      BY <3>3, <3>4 DEF KeysOf
  <2>4. CASE WriteBegin
    BY <2>4 DEF WriteBegin
  <2>5. CASE TableBegin \/ Expire \/ EmitRecord \/ TableEnd \/ WriteEnd
    BY <2>5 DEF LockFree, TableBegin, Expire, EmitRecord, TableEnd, WriteEnd, Walking
  <2> QED
    BY <1>1, <2>1, <2>2, <2>3, <2>4, <2>5 DEF Next, WriteMetricsLogs
<1> QED
  BY <1>1, InitInv, NextInv, PTL DEF Spec, AddLosesNothing

-----------------------------------------------------------------------------
(***************************************************************************)
(* A buffer that holds all that the tables can print in one round.  While   *)
(* a round lasts, what is left of the buffer holds all that the tables      *)
(* still to come can print.                                                 *)
(***************************************************************************)

MaxLines == Max(LineCounts)
MaxRecords == Min({Period, RecCap})

(* What a table prints at most, its newline included, and the sums of it. *)
Cost == [t \in Tables |-> LineLen[t] * MaxLines * MaxRecords + 1]
CostSum ==
  CHOOSE g : g = [s \in SUBSET Tables |->
    IF s = {} THEN 0
    ELSE (LineLen[Pick(s)] * MaxLines * MaxRecords + 1) + g[s \ {Pick(s)}]]

(* The counts of lines have their maximum. *)
LEMMA MaxLinesIs == MaxLines \in Nat /\ \A n \in LineCounts : n <= MaxLines
<1> DEFINE Bounds(s) == {m \in Nat : \A y \in s : y <= m}
           T == {s \in SUBSET LineCounts : Bounds(s) # {}}
<1>1. {} \in T
  <2>1. 0 \in Bounds({})
    OBVIOUS
  <2> QED BY <2>1
<1>2. ASSUME NEW s \in SUBSET LineCounts, s # {}, s \ {Pick(s)} \in T
      PROVE  s \in T
  <2>1. PICK m : m \in Bounds(s \ {Pick(s)})
    BY <1>2
  <2>2. Pick(s) \in s /\ (\A y \in s : y \in Nat) /\ m \in Nat
    BY <1>2, <2>1, TableAssumption DEF Pick
  <2> DEFINE p == Pick(s)
  <2>3. m + p \in Bounds(s)
    <3>1. m + p \in Nat
      BY <2>2
    <3>2. ASSUME NEW y \in s PROVE y <= m + p
      <4>1. y = p \/ y <= m
        BY <2>1
      <4>2. y \in Nat /\ p \in Nat /\ m \in Nat
        BY <2>2
      <4> HIDE DEF p
      <4> QED BY <4>1, <4>2
    <3> HIDE DEF p
    <3> QED BY <3>1, <3>2
  <2> HIDE DEF Bounds
  <2> QED BY <2>3
<1>3. LineCounts \in T
  <2> HIDE DEF T
  <2>1. SUBSET LineCounts \subseteq T
    BY <1>1, <1>2, SubsetInduction, TableAssumption
  <2> QED BY <2>1
<1>4. Bounds(LineCounts) # {} /\ Bounds(LineCounts) \subseteq Nat
  BY <1>3
<1>5. PICK x \in Bounds(LineCounts) : \A y \in Bounds(LineCounts) : x <= y
  <2> HIDE DEF Bounds
  <2> QED BY <1>4, MinOfNat
<1>6. x \in LineCounts
  <2> SUFFICES ASSUME x \notin LineCounts PROVE FALSE
    OBVIOUS
  <2>1. \A y \in LineCounts : y \in Nat /\ y <= x /\ y # x
    BY TableAssumption
  <2>2. PICK y : y \in LineCounts
    BY TableAssumption
  <2>3. x - 1 \in Nat /\ \A n \in LineCounts : n <= x - 1
    BY <2>1, <2>2
  <2> QED BY <1>5, <2>3
<1>7. \A y \in LineCounts : x >= y
  OBVIOUS
<1>8. MaxLines \in LineCounts /\ \A y \in LineCounts : MaxLines >= y
  BY <1>6, <1>7 DEF MaxLines, Max
<1> QED BY <1>8, TableAssumption

(* How many records a walk prints at most. *)
LEMMA MaxRecordsIs ==
  /\ MaxRecords \in Nat \ {0} /\ MaxRecords <= Period /\ MaxRecords <= RecCap
  /\ MaxRecords = Period \/ MaxRecords = RecCap
<1>1. {Period, RecCap} \subseteq Nat /\ {Period, RecCap} # {}
  BY TableAssumption
<1> QED BY <1>1, MinOfNat, TableAssumption DEF MaxRecords

(* A table costs at least its newline. *)
LEMMA CostType == Cost \in [Tables -> Nat \ {0}]
<1> SUFFICES ASSUME NEW t \in Tables PROVE LineLen[t] * MaxLines * MaxRecords + 1 \in Nat \ {0}
  BY DEF Cost
<1>1. LineLen[t] \in Nat /\ MaxLines \in Nat /\ MaxRecords \in Nat
  BY TableAssumption, MaxLinesIs, MaxRecordsIs
<1>2. LineLen[t] * MaxLines \in Nat
  BY <1>1
<1>3. LineLen[t] * MaxLines * MaxRecords \in Nat
  BY <1>1, <1>2
<1> QED BY <1>3

(* The recursion of the sum has its solution. *)
LEMMA CostSumIsSum == IsSum(Tables, Cost, CostSum)
<1> DEFINE n == Cardinality(Tables)
<1>1. n \in Nat /\ Small(Tables, n) = SUBSET Tables
  BY TableAssumption, FS_CardinalityType, FS_Subset DEF Small
<1>2. Cost \in [Tables -> Nat]
  BY CostType
<1>3. PICK h : h \in SumSolutions(Tables, n, Cost)
  BY <1>1, <1>2, TableAssumption, SumExists
<1>4. \A s \in SUBSET Tables : s # {} => Pick(s) \in Tables
  BY DEF Pick
<1>5. \A s \in SUBSET Tables : s # {} => Cost[Pick(s)] = LineLen[Pick(s)] * MaxLines * MaxRecords + 1
  BY <1>4 DEF Cost
<1>6. h = [s \in SUBSET Tables |->
             IF s = {} THEN 0
             ELSE (LineLen[Pick(s)] * MaxLines * MaxRecords + 1) + h[s \ {Pick(s)}]]
  BY <1>1, <1>3, <1>5 DEF SumSolutions
<1> DEFINE g == CostSum
<1>7. g = [s \in SUBSET Tables |->
             IF s = {} THEN 0
             ELSE (LineLen[Pick(s)] * MaxLines * MaxRecords + 1) + g[s \ {Pick(s)}]]
  BY <1>6 DEF CostSum
<1> HIDE DEF g
<1>8. IsSum(Tables, Cost, g)
  BY <1>5, <1>7 DEF IsSum
<1> QED BY <1>8 DEF g

(* The sum of the costs is the one the size of the buffer is compared with. *)
LEMMA RoomyIs == Roomy <=> bufMax > CostSum[Tables]
BY DEF Roomy, MapThenSumSet, MapThenFoldSet, CostSum, Pick, MaxLines, MaxRecords

(* The sums of the costs, table by table. *)
LEMMA CostSums ==
  /\ \A s \in SUBSET Tables : CostSum[s] \in Nat
  /\ \A s \in SUBSET Tables : \A t \in s : CostSum[s] = Cost[t] + CostSum[s \ {t}]
<1>1. IsFiniteSet(Tables) /\ Cost \in [Tables -> Nat] /\ IsSum(Tables, Cost, CostSum)
  BY TableAssumption, CostType, CostSumIsSum
<1>2. ASSUME NEW s \in SUBSET Tables
      PROVE  CostSum[s] \in Nat
  BY <1>1, SumType
<1>3. ASSUME NEW s \in SUBSET Tables, NEW t \in s
      PROVE  CostSum[s] = Cost[t] + CostSum[s \ {t}]
  BY <1>1, SumWithout
<1> QED BY <1>2, <1>3

(* The tables from the i-th on. *)
From(o, i) == {o[j] : j \in i .. TablesNum}
Rest == From(order, ti)

(* The tables from the i-th on, of which each is there once. *)
LEMMA FromFacts ==
  ASSUME NEW o \in [1 .. TablesNum -> Tables], \A t \in Tables : \E i \in 1 .. TablesNum : o[i] = t
  PROVE  /\ From(o, 1) = Tables
         /\ \A i \in 1 .. TablesNum + 1 : From(o, i) \in SUBSET Tables
         /\ \A i \in 1 .. TablesNum : o[i] \in From(o, i) /\ From(o, i + 1) = From(o, i) \ {o[i]}
         /\ From(o, TablesNum + 1) = {}
<1>1. TablesNum \in Nat \ {0} /\ IsFiniteSet(Tables)
  BY TypesPositive, TableAssumption
<1>2. o \in Surjection(1 .. TablesNum, Tables)
  BY DEF Surjection
<1>3. Cardinality(1 .. TablesNum) = Cardinality(Tables) /\ IsFiniteSet(1 .. TablesNum)
  BY <1>1, FS_Interval DEF TablesNum
<1>4. o \in Injection(1 .. TablesNum, Tables)
  BY <1>2, <1>3, FS_Surjection
<1>5. \A i, j \in 1 .. TablesNum : o[i] = o[j] => i = j
  BY <1>4 DEF Injection, IsInjective
<1>6. \A i \in 1 .. TablesNum + 1 : From(o, i) \in SUBSET Tables
  BY <1>1 DEF From
<1>7. From(o, 1) = Tables /\ From(o, TablesNum + 1) = {}
  BY <1>1, <1>6 DEF From
<1>8. ASSUME NEW i \in 1 .. TablesNum
      PROVE  o[i] \in From(o, i) /\ From(o, i + 1) = From(o, i) \ {o[i]}
  <2>1. i \in i .. TablesNum /\ \A j \in i .. TablesNum : j \in 1 .. TablesNum
        /\ (j # i <=> j \in i + 1 .. TablesNum)
    BY <1>1
  <2>2. \A j \in i + 1 .. TablesNum : j \in i .. TablesNum
    BY <1>1
  <2> QED BY <1>5, <2>1, <2>2 DEF From
<1> QED BY <1>6, <1>7, <1>8

(* How many lines of the first record fit. *)
LEMMA FitsNow ==
  ASSUME Inv, wpc = "record", records[Table] # <<>>
  PROVE  /\ Left = room - total /\ Left \in Nat \ {0}
         /\ Table \in Tables /\ First \in Record
         /\ LineLen[Table] \in Nat \ {0} /\ First.lines \in Nat
         /\ Fits(Table, First) \in Nat /\ Fits(Table, First) <= First.lines
<1>1. Table \in Tables
  BY TypesPositive DEF Inv, TypeOK, WalkOK, Table
<1>2. records[Table] \in Seq(Record)
  BY <1>1 DEF Inv, TypeOK
<1>3. First \in Record
  BY <1>2 DEF First
<1>4. total \in Nat /\ room \in 0 .. U32 - 1 /\ total < room
  BY TypesPositive DEF Inv, TypeOK, NeverOverrun
<1>5. Left = room - total /\ Left \in Nat \ {0}
  <2>1. room - total \in 0 .. U32 - 1 /\ U32 \in Nat \ {0}
    BY <1>4, TypesPositive
  <2> QED BY <1>4, <2>1, ModSmall DEF Left
<1>6. First.lines \in Nat /\ LineLen[Table] \in Nat \ {0}
  BY <1>1, <1>3, TableAssumption DEF Record
<1> DEFINE q == (Left - 1) \div LineLen[Table]
<1>7. q \in Nat
  <2>1. Left - 1 \in Nat
    BY <1>5
  <2> QED BY <1>6, <2>1, DivMod
<1>8. Fits(Table, First) = IF First.lines <= q THEN First.lines ELSE q
  BY DEF Fits
<1> HIDE DEF q
<1>9. Fits(Table, First) \in Nat /\ Fits(Table, First) <= First.lines
  BY <1>6, <1>7, <1>8
<1> QED BY <1>1, <1>3, <1>5, <1>6, <1>9

BigBuffer == bufMax > CostSum[Tables]

(***************************************************************************)
(* The inductive invariant, on top of Inv: a walk has printed at most       *)
(* MaxLines lines for each of its records, of which there were no more than *)
(* the table can hold, and the rest of a big buffer holds the tables left.  *)
(***************************************************************************)
RoomInv ==
  /\ wpc = "sleep" => ti = 1
  /\ wpc \in {"sleep", "table"} => index = 0
  /\ wpc \in {"table", "record"} => ~due
  /\ wpc = "record" => /\ index + Len(records[Table]) <= RecCap
                       /\ total <= (LineLen[Table] * MaxLines) * index
  /\ BigBuffer => /\ wpc # "ended"
                  /\ wpc \in {"table", "record"} => room > CostSum[Rest]

(* No round has begun. *)
LEMMA InitRoom == Init => RoomInv
BY DEF Init, RoomInv

(* Steps outside a walk. *)
LEMMA LockFreeRoom ==
  ASSUME RoomInv, LockFree, UNCHANGED <<bufMax, wpc, ti, index>>
  PROVE  RoomInv'
BY DEF RoomInv, LockFree, BigBuffer

(* A round begins with the whole buffer. *)
LEMMA WriteBeginRoom ==
  ASSUME Inv, RoomInv, WriteBegin
  PROVE  RoomInv'
<1>1. /\ wpc = "sleep" /\ wpc' = "table" /\ due' = FALSE
      /\ UNCHANGED <<bufMax, order, ti, room, index>>
  BY DEF WriteBegin, walkVars
<1>2. ti = 1 /\ index = 0 /\ room = bufMax
  BY <1>1 DEF Inv, WalkOK, RoomInv
<1>3. Rest' = Tables
  BY <1>1, <1>2, FromFacts DEF Rest, Inv, TypeOK, PriorityOK, From, TablesNum
<1> QED BY <1>1, <1>2, <1>3 DEF RoomInv, BigBuffer

(* The tables left while one is in hand. *)
LEMMA RestFacts ==
  ASSUME Inv, ti \in 1 .. TablesNum
  PROVE  /\ Table \in Tables
         /\ Rest \in SUBSET Tables /\ Table \in Rest /\ Rest \ {Table} = From(order, ti + 1)
         /\ CostSum[Rest] = Cost[Table] + CostSum[From(order, ti + 1)]
         /\ CostSum[Rest] \in Nat /\ CostSum[From(order, ti + 1)] \in Nat /\ Cost[Table] \in Nat
<1>1. /\ order \in [1 .. TablesNum -> Tables]
      /\ \A t \in Tables : \E i \in 1 .. TablesNum : order[i] = t
  BY DEF Inv, TypeOK, PriorityOK
<1>2. /\ Table \in Tables /\ Rest \in SUBSET Tables /\ Table \in Rest
      /\ From(order, ti + 1) = Rest \ {Table}
  <2>1. ti \in 1 .. TablesNum + 1
    BY TypesPositive
  <2> QED BY <1>1, <2>1, FromFacts DEF Rest, Table
<1>3. From(order, ti + 1) \in SUBSET Tables
  BY <1>2
<1> QED BY <1>2, <1>3, CostSums, CostType

(* A table that is empty leaves its share to the others. *)
LEMMA TableBeginRoom ==
  ASSUME Inv, RoomInv, TableBegin
  PROVE  RoomInv'
<1>1. /\ wpc = "table" /\ ti \in 1 .. TablesNum /\ index = 0 /\ total = 0 /\ room \in Nat
      /\ UNCHANGED <<bufMax, records, order, room, total, index, due>>
  BY TypesPositive DEF TableBegin, Inv, TypeOK, WalkOK, RoomInv
<1>2. CASE ti' = ti + 1 /\ wpc' = "table"
  <2>1. Rest' = From(order, ti + 1)
    BY <1>1, <1>2 DEF Rest, From, TablesNum
  <2>2. BigBuffer => room > CostSum[From(order, ti + 1)]
    BY <1>1, RestFacts DEF RoomInv
  <2> QED BY <1>1, <1>2, <2>1, <2>2 DEF RoomInv, BigBuffer
<1>3. CASE ti' = ti /\ wpc' = "record"
  <2>1. Table' = Table /\ Rest' = Rest
    BY <1>1, <1>3 DEF Table, Rest, From, TablesNum
  <2>2. Table \in Tables /\ records[Table] \in Seq(Record) /\ Len(records[Table]) <= RecCap
    BY <1>1, RestFacts DEF Inv, TypeOK, TableInv
  <2>3. index + Len(records[Table]) <= RecCap
    BY <1>1, <2>2
  <2>4. total <= (LineLen[Table] * MaxLines) * index
    <3>1. LineLen[Table] \in Nat /\ MaxLines \in Nat
      BY <2>2, MaxLinesIs, TableAssumption
    <3>2. LineLen[Table] * MaxLines \in Nat
      BY <3>1
    <3> QED BY <1>1, <3>2
  <2> QED BY <1>1, <1>3, <2>1, <2>3, <2>4 DEF RoomInv, BigBuffer
<1> QED BY <1>1, <1>2, <1>3 DEF TableBegin

(* The table loses its first record. *)
LEMMA DropLength ==
  ASSUME Inv, wpc = "record", records[Table] # <<>>, DropFirst, UNCHANGED <<order, ti>>
  PROVE  /\ Len(records'[Table]) = Len(records[Table]) - 1 /\ Len(records[Table]) \in Nat \ {0}
         /\ Table' = Table /\ Rest' = Rest /\ Table \in Tables /\ First \in Record
<1>1. Table \in Tables /\ First \in Record
  BY DropFirstTables
<1>2. records[Table] \in Seq(Record) /\ records'[Table] = Tail(records[Table])
  BY <1>1 DEF Inv, TypeOK, DropFirst
<1>3. Len(records'[Table]) = Len(records[Table]) - 1 /\ Len(records[Table]) \in Nat \ {0}
  BY <1>2
<1>4. Table' = Table /\ Rest' = Rest
  BY DEF Table, Rest, From, TablesNum
<1> QED BY <1>1, <1>3, <1>4

(* What is not printed takes no room. *)
LEMMA ExpireRoom ==
  ASSUME Inv, RoomInv, Expire
  PROVE  RoomInv'
<1>1. /\ wpc = "record" /\ records[Table] # <<>> /\ DropFirst
      /\ UNCHANGED <<bufMax, order, wpc, ti, room, total, index, due>>
  BY DEF Expire, Walking, walkVars
<1>2. Len(records'[Table]) = Len(records[Table]) - 1 /\ Len(records[Table]) \in Nat \ {0}
      /\ Table' = Table /\ Rest' = Rest
  BY <1>1, DropLength
<1>3. index + Len(records'[Table]) <= RecCap
  BY <1>1, <1>2, TypesPositive DEF RoomInv, Inv, TypeOK
<1> QED BY <1>1, <1>2, <1>3 DEF RoomInv, BigBuffer

(* What one record more may print. *)
LEMMA OneMoreRecord ==
  ASSUME NEW len \in Nat, NEW max \in Nat, NEW n \in Nat, NEW f \in Nat, f <= max,
         NEW tot \in Nat, tot <= (len * max) * n
  PROVE  tot + f * len <= (len * max) * (n + 1)
<1> DEFINE w == len * max
<1>1. w \in Nat /\ f * len \in Nat /\ f * len <= w
  <2>1. f * len <= max * len
    OBVIOUS
  <2> QED BY <2>1
<1> HIDE DEF w
<1>2. w * (n + 1) = w * n + w
  BY <1>1
<1>3. w * n \in Nat /\ tot <= w * n
  BY <1>1 DEF w
<1>4. tot + f * len <= w * (n + 1)
  BY <1>1, <1>2, <1>3
<1> QED BY <1>4 DEF w

(* A record takes no more than its share. *)
LEMMA EmitRecordRoom ==
  ASSUME Inv, RoomInv, EmitRecord
  PROVE  RoomInv'
<1>1. /\ wpc = "record" /\ records[Table] # <<>> /\ DropFirst
      /\ total' = total + Fits(Table, First) * LineLen[Table] /\ index' = index + 1
      /\ UNCHANGED <<bufMax, order, wpc, ti, room, due>>
  BY DEF EmitRecord, Walking
<1>2. /\ Len(records'[Table]) = Len(records[Table]) - 1 /\ Len(records[Table]) \in Nat \ {0}
      /\ Table' = Table /\ Rest' = Rest /\ Table \in Tables /\ First \in Record
  BY <1>1, DropLength
<1>3. index \in Nat /\ total \in Nat /\ RecCap \in Nat
  BY TypesPositive DEF Inv, TypeOK
<1>4. index' + Len(records'[Table]) <= RecCap
  BY <1>1, <1>2, <1>3 DEF RoomInv
<1>5. LineLen[Table] \in Nat /\ MaxLines \in Nat /\ First.lines \in Nat /\ First.lines <= MaxLines
  BY <1>2, MaxLinesIs, TableAssumption DEF Record
<1>6. Fits(Table, First) \in Nat /\ Fits(Table, First) <= First.lines
  BY <1>1, FitsNow
<1>7. total' <= (LineLen[Table] * MaxLines) * index'
  <2>1. Fits(Table, First) <= MaxLines
    BY <1>5, <1>6
  <2>2. total <= (LineLen[Table] * MaxLines) * index
    BY <1>1 DEF RoomInv
  <2> QED BY <1>1, <1>3, <1>5, <1>6, <2>1, <2>2, OneMoreRecord
<1> QED BY <1>1, <1>2, <1>4, <1>7 DEF RoomInv, BigBuffer

(* Arithmetic. *)
LEMMA Monotone ==
  ASSUME NEW w \in Nat, NEW n \in Nat, NEW m \in Nat, n <= m
  PROVE  w * n <= w * m /\ w * n \in Nat /\ w * m \in Nat
OBVIOUS

(* A table prints no more than its cost. *)
LEMMA PrintedCost ==
  ASSUME Inv, RoomInv, wpc = "record"
  PROVE  /\ Printed \in Nat /\ Printed <= Cost[Table]
         /\ index < MaxRecords => Printed + LineLen[Table] * MaxLines <= Cost[Table]
<1> DEFINE w == LineLen[Table] * MaxLines
<1>1. /\ Table \in Tables /\ records[Table] \in Seq(Record) /\ total \in Nat /\ index \in Nat
      /\ index <= Period
  BY TypesPositive DEF Inv, TypeOK, WalkOK, Table
<1>2. LineLen[Table] \in Nat /\ MaxLines \in Nat /\ MaxRecords \in Nat
  BY <1>1, MaxLinesIs, MaxRecordsIs, TableAssumption
<1>3. w \in Nat
  BY <1>2
<1>4. index + Len(records[Table]) <= RecCap /\ total <= w * index
  BY DEF RoomInv
<1>5. Cost[Table] = w * MaxRecords + 1
  BY <1>1 DEF Cost
<1> HIDE DEF w
<1>6. index <= MaxRecords
  <2>1. Len(records[Table]) \in Nat /\ RecCap \in Nat
    BY <1>1, TypesPositive
  <2>2. index <= RecCap
    BY <1>1, <1>4, <2>1
  <2> QED BY <1>1, <2>2, MaxRecordsIs
<1>7. w * index <= w * MaxRecords /\ w * index \in Nat /\ w * MaxRecords \in Nat
  BY <1>1, <1>2, <1>3, <1>6, Monotone
<1>8. Printed \in Nat /\ Printed <= Cost[Table]
  BY <1>1, <1>4, <1>5, <1>7 DEF Printed
<1>9. ASSUME index < MaxRecords
      PROVE  Printed + w <= Cost[Table]
  <2>1. index + 1 <= MaxRecords /\ index + 1 \in Nat
    BY <1>1, <1>2, <1>9
  <2>2. w * (index + 1) <= w * MaxRecords
    BY <1>2, <1>3, <2>1, Monotone
  <2>3. w * (index + 1) = w * index + w
    BY <1>1, <1>3
  <2> QED BY <1>1, <1>3, <1>4, <1>5, <1>7, <2>2, <2>3 DEF Printed
<1> QED BY <1>8, <1>9 DEF w

(* A table leaves the others their share. *)
LEMMA TableEndRoom ==
  ASSUME Inv, RoomInv, TableEnd
  PROVE  RoomInv'
<1>1. /\ wpc = "record" /\ ti \in 1 .. TablesNum /\ room \in 0 .. U32 - 1 /\ ~due
      /\ index' = 0 /\ UNCHANGED <<bufMax, order, due>>
  BY TypesPositive DEF Inv, TypeOK, WalkOK, TableEnd, RoomInv
<1>2. Printed \in Nat /\ Printed <= Cost[Table]
  BY <1>1, PrintedCost
<1>3. /\ CostSum[Rest] = Cost[Table] + CostSum[From(order, ti + 1)]
      /\ CostSum[Rest] \in Nat /\ CostSum[From(order, ti + 1)] \in Nat /\ Cost[Table] \in Nat
  BY <1>1, RestFacts
<1>4. CASE TooLong
  <2>1. wpc' = "ended"
    BY <1>4 DEF TableEnd
  <2>2. ~BigBuffer
    <3> SUFFICES ASSUME BigBuffer PROVE FALSE
      OBVIOUS
    <3>1. room > CostSum[Rest]
      BY <1>1 DEF RoomInv
    <3> QED BY <1>1, <1>2, <1>3, <1>4, <3>1 DEF TooLong
  <2> QED BY <1>1, <2>1, <2>2 DEF RoomInv, BigBuffer
<1>5. CASE ~TooLong
  <2>1. wpc' = "table" /\ ti' = ti + 1 /\ room' = (room - Printed) % U32
    BY <1>5 DEF TableEnd
  <2>2. room - Printed \in 0 .. U32 - 1
    BY <1>1, <1>2, <1>5, TypesPositive DEF TooLong
  <2>3. room' = room - Printed
    BY <2>1, <2>2, ModSmall, TypesPositive
  <2>4. Rest' = From(order, ti + 1)
    BY <1>1, <2>1 DEF Rest, From, TablesNum
  <2>5. BigBuffer => room' > CostSum[From(order, ti + 1)]
    <3> SUFFICES ASSUME BigBuffer PROVE room' > CostSum[From(order, ti + 1)]
      OBVIOUS
    <3>1. room > CostSum[Rest]
      BY <1>1 DEF RoomInv
    <3> QED BY <1>1, <1>2, <1>3, <2>3, <3>1
  <2> QED BY <1>1, <2>1, <2>4, <2>5 DEF RoomInv, BigBuffer
<1> QED BY <1>4, <1>5

(* Every step keeps the rest of the buffer large enough. *)
LEMMA NextRoom ==
  ASSUME Inv, RoomInv, [Next]_vars
  PROVE  RoomInv'
<1>1. CASE UNCHANGED vars
  <2>1. Table' = Table /\ Rest' = Rest
    BY <1>1 DEF vars, walkVars, Table, Rest, From, TablesNum
  <2> QED BY <1>1, <2>1 DEF RoomInv, BigBuffer, vars, walkVars
<1>2. ASSUME NEW t \in Tables, NEW k \in Keys, NEW n \in LineCounts, AddRecord(t, k, n)
      PROVE  RoomInv'
  BY <1>2, LockFreeRoom DEF AddRecord, walkVars
<1>3. CASE Tick
  BY <1>3, LockFreeRoom DEF Tick, LockFree, walkVars
<1>4. CASE WriteEnd
  BY <1>4 DEF WriteEnd, RoomInv, BigBuffer
<1> QED
  BY <1>1, <1>2, <1>3, <1>4, WriteBeginRoom, TableBeginRoom, ExpireRoom, EmitRecordRoom,
     TableEndRoom
  DEF Next, WriteMetricsLogs

(* With a buffer that holds what the tables can print in one round,         *)
(* IMDB_DataBase2Prometheus never gives up and the METRICLOG thread goes on, *)
(* for every set of tables and whatever their lines, period and capacity.   *)
THEOREM RoomyBufferSuffices == Spec => []RoomyNeverEnds
<1>1. RoomInv => RoomyNeverEnds
  BY RoomyIs DEF RoomInv, RoomyNeverEnds, BigBuffer
<1> QED
  BY <1>1, InitInv, NextInv, InitRoom, NextRoom, PTL DEF Spec

-----------------------------------------------------------------------------
(***************************************************************************)
(* The pace of the records.  A record that is not kept behind one without   *)
(* lines comes nearer to the front of its table by Period places in every   *)
(* round, and grows older by one.  So its place and Period times its age    *)
(* stay within the capacity, which a table holds that can be printed within *)
(* the timeout; when a record is too old no place is left for it.           *)
(***************************************************************************)

(* Whether the walk of this second has left the table behind. *)
Served(t) == IF wpc = "sleep" THEN ~due ELSE t \notin Rest

(* How many rounds a record of age n has seen to their end in its table, and *)
(* how many records before it were printed in the one that is going on.      *)
Rounds(t, n) == IF Served(t) \/ n = 0 THEN n ELSE n - 1
Emitted(t) == IF wpc = "record" /\ t = Table THEN index ELSE 0

Pace(i, e, d) == i + e + Period * d <= RecCap

PaceInv ==
  BigBuffer /\ wpc \in {"sleep", "table", "record"} =>
    \A t \in Tables : \A i \in 1 .. Len(records[t]) :
      records[t][i].key \notin blocked[t] => Pace(i, Emitted(t), Rounds(t, records[t][i].age))

(* A place nearer to the front, or fewer rounds. *)
LEMMA PaceKept ==
  ASSUME NEW i \in Nat, NEW e \in Nat, NEW d \in Nat, Pace(i, e, d),
         NEW j \in Nat, NEW f \in Nat, NEW c \in Nat, j + f <= i + e, c <= d
  PROVE  Pace(j, f, c)
<1>1. Period \in Nat /\ RecCap \in Nat
  BY TypesPositive
<1>2. Period * c <= Period * d /\ Period * c \in Nat /\ Period * d \in Nat
  BY <1>1, Monotone
<1> QED BY <1>1, <1>2 DEF Pace

(* A record of a table. *)
LEMMA RecordAt ==
  ASSUME Inv, NEW t \in Tables, NEW i \in 1 .. Len(records[t])
  PROVE  /\ i \in Nat /\ records[t][i] \in Record /\ records[t][i].age \in Nat
         /\ Emitted(t) \in Nat /\ Rounds(t, records[t][i].age) \in Nat
<1>1. records[t] \in Seq(Record) /\ index \in Nat
  BY TypesPositive DEF Inv, TypeOK
<1>2. i \in Nat /\ records[t][i] \in Record
  BY <1>1
<1>3. records[t][i].age \in Nat
  BY <1>2, TypesPositive DEF Record
<1>4. Rounds(t, records[t][i].age) \in Nat
  BY <1>3 DEF Rounds
<1> QED BY <1>1, <1>2, <1>3, <1>4 DEF Emitted

(* A new record goes to the end; the others keep their place or come nearer. *)
LEMMA AddPlaces ==
  ASSUME NEW s \in Seq(Record), Sorted(s), NEW r \in Record,
         NEW i \in 1 .. Len(TableAddRecord(s, r))
  PROVE  \/ TableAddRecord(s, r)[i] = r
         \/ \E j \in 1 .. Len(s) : i <= j /\ TableAddRecord(s, r)[i] = s[j] /\ s[j].key # r.key
<1> DEFINE w == Without(s, r.key)
<1>1. r.key \in Keys
  BY DEF Record
<1>2. w \in Seq(Record) /\ Len(w) <= Len(s) /\ \A j \in 1 .. Len(w) : w[j].key # r.key
  BY <1>1, WithoutKey
<1>3. ASSUME NEW j \in 1 .. Len(w)
      PROVE  \E k \in 1 .. Len(s) : j <= k /\ w[j] = s[k]
  <2>1. CASE r.key \notin KeysOf(s)
    <3>1. w = s
      BY <2>1 DEF Without
    <3> QED BY <3>1
  <2>2. CASE r.key \in KeysOf(s)
    <3> DEFINE at == CHOOSE k \in 1 .. Len(s) : s[k].key = r.key
    <3>1. at \in 1 .. Len(s)
      BY <2>2 DEF KeysOf
    <3>2. w = [k \in 1 .. Len(s) - 1 |-> IF k < at THEN s[k] ELSE s[k + 1]]
      BY <2>2 DEF Without
    <3> HIDE DEF at, w
    <3>3. Len(s) - 1 \in Nat
      BY <3>1
    <3>4. Len(w) = Len(s) - 1
      BY <1>2, <3>2, <3>3
    <3>5. j \in 1 .. Len(s) - 1 /\ j \in 1 .. Len(s) /\ j + 1 \in 1 .. Len(s)
      BY <1>2, <3>3, <3>4
    <3>6. w[j] = IF j < at THEN s[j] ELSE s[j + 1]
      BY <3>2, <3>5
    <3> QED BY <3>5, <3>6
  <2> QED BY <2>1, <2>2
<1>4. TableAddRecord(s, r) = IF Len(w) >= RecCap THEN w ELSE Append(w, r)
  BY DEF TableAddRecord
<1> HIDE DEF w
<1>5. CASE TableAddRecord(s, r) = w
  BY <1>2, <1>3, <1>5
<1>6. CASE TableAddRecord(s, r) = Append(w, r)
  <2>1. CASE i = Len(w) + 1
    BY <1>2, <1>6, <2>1
  <2>2. CASE i \in 1 .. Len(w)
    <3>1. Append(w, r)[i] = w[i]
      BY <1>2, <2>2
    <3> QED BY <1>2, <1>3, <1>6, <2>2, <3>1
  <2> QED BY <1>2, <1>6, <2>1, <2>2
<1> QED BY <1>4, <1>5, <1>6

(* There are no records at the start. *)
LEMMA InitPace == Init => PaceInv
BY DEF Init, PaceInv

(* A new record is at the end, within the capacity. *)
LEMMA AddRecordPace ==
  ASSUME Inv, Inv', PaceInv, NEW t \in Tables, NEW k \in Keys, NEW n \in LineCounts,
         AddRecord(t, k, n)
  PROVE  PaceInv'
<1> DEFINE r == [key |-> k, lines |-> n, age |-> 0]
<1>1. /\ records' = [records EXCEPT ![t] = TableAddRecord(@, r)]
      /\ blocked' = [blocked EXCEPT ![t] = @ \ {k}]
      /\ LockFree /\ UNCHANGED <<bufMax, order, wpc, ti, index, due>>
  BY DEF AddRecord, walkVars
<1>2. r \in Record /\ r.key = k /\ r.age = 0
  BY TypesPositive DEF Record
<1> HIDE DEF r
<1> SUFFICES ASSUME BigBuffer, wpc = "sleep", NEW u \in Tables, NEW i \in 1 .. Len(records'[u]),
                    records'[u][i].key \notin blocked'[u]
             PROVE  Pace(i, Emitted(u)', Rounds(u, records[u][i].age)')
  BY <1>1 DEF PaceInv, LockFree, BigBuffer
<1>3. i \in Nat /\ records'[u] \in Seq(Record) /\ Len(records'[u]) <= RecCap /\ i <= RecCap
  <2>1. records'[u] \in Seq(Record) /\ Len(records'[u]) <= RecCap
    BY DEF Inv, TypeOK, TableInv
  <2>2. Len(records'[u]) \in Nat /\ RecCap \in Nat
    BY <2>1, TypesPositive
  <2> QED BY <2>1, <2>2
<1>4. Emitted(u) = 0 /\ Emitted(u)' = 0 /\ \A a \in Nat : Rounds(u, a)' = Rounds(u, a)
  BY <1>1 DEF Emitted, Rounds, Served
<1>5. \/ records'[u][i] = r
      \/ \E j \in 1 .. Len(records[u]) :
           i <= j /\ records'[u][i] = records[u][j] /\ records[u][j].key \notin blocked[u]
  <2>1. records[u] \in Seq(Record) /\ Sorted(records[u])
    BY DEF Inv, TypeOK, TableInv, Sorted
  <2>2. CASE u # t
    BY <1>1, <1>3, <2>1, <2>2 DEF Inv, TypeOK
  <2>3. CASE u = t
    <3>1. records'[u] = TableAddRecord(records[u], r) /\ blocked'[u] = blocked[u] \ {k}
      BY <1>1, <2>3 DEF Inv, TypeOK
    <3>2. \/ records'[u][i] = r
          \/ \E j \in 1 .. Len(records[u]) :
               i <= j /\ records'[u][i] = records[u][j] /\ records[u][j].key # k
      BY <1>2, <2>1, <3>1, AddPlaces
    <3> QED BY <3>1, <3>2
  <2> QED BY <2>2, <2>3
<1>6. CASE records'[u][i] = r
  <2>1. Rounds(u, records[u][i].age)' = 0
    BY <1>2, <1>6 DEF Rounds
  <2>2. Period * 0 = 0 /\ i + 0 = i
    BY <1>3, TypesPositive
  <2> QED BY <1>3, <1>4, <2>1, <2>2 DEF Pace
<1>7. ASSUME NEW j \in 1 .. Len(records[u]), i <= j, records'[u][i] = records[u][j],
             records[u][j].key \notin blocked[u]
      PROVE  Pace(i, Emitted(u)', Rounds(u, records[u][i].age)')
  <2>1. Pace(j, Emitted(u), Rounds(u, records[u][j].age))
    BY <1>7 DEF PaceInv
  <2>2. /\ j \in Nat /\ records[u][j].age \in Nat /\ Rounds(u, records[u][j].age) \in Nat
    BY RecordAt
  <2>3. Rounds(u, records[u][i].age)' = Rounds(u, records[u][j].age)
    BY <1>4, <1>7, <2>2 DEF Rounds, Served
  <2> QED BY <1>3, <1>4, <1>7, <2>1, <2>2, <2>3, PaceKept
<1> QED BY <1>5, <1>6, <1>7

(* A second passes between two rounds. *)
LEMMA TickPace ==
  ASSUME Inv, PaceInv, Tick
  PROVE  PaceInv'
<1>1. /\ records' = [u \in Tables |-> Aged(records[u])]
      /\ LockFree /\ ~due /\ due' = TRUE
      /\ UNCHANGED <<bufMax, wpc, blocked, index, order, ti>>
  BY DEF Tick, Aged, LockFree, walkVars
<1> SUFFICES ASSUME BigBuffer, wpc = "sleep", NEW u \in Tables, NEW i \in 1 .. Len(records'[u]),
                    records'[u][i].key \notin blocked[u]
             PROVE  Pace(i, Emitted(u)', Rounds(u, records[u][i].age)')
  BY <1>1 DEF PaceInv, LockFree, BigBuffer
<1>2. records[u] \in Seq(Record) /\ records'[u] = Aged(records[u]) /\ i \in 1 .. Len(records[u])
  BY <1>1 DEF Inv, TypeOK, Aged
<1>3. /\ i \in Nat /\ records[u][i] \in Record /\ records[u][i].age \in Nat
      /\ Emitted(u) = 0 /\ Rounds(u, records[u][i].age) = records[u][i].age
  BY <1>1, <1>2, RecordAt DEF Emitted, Rounds, Served
<1>4. /\ records'[u][i].key = records[u][i].key
      /\ records'[u][i].age \in {records[u][i].age, records[u][i].age + 1}
  <2>1. records'[u][i] = [records[u][i] EXCEPT !.age = IF @ > Timeout THEN @ ELSE @ + 1]
    BY <1>2 DEF Aged
  <2> QED BY <1>3, <2>1 DEF Record
<1>5. Pace(i, 0, records[u][i].age)
  BY <1>2, <1>3, <1>4 DEF PaceInv
<1>6. /\ Rounds(u, records[u][i].age)' \in Nat /\ Rounds(u, records[u][i].age)' <= records[u][i].age
      /\ Emitted(u)' = 0
  BY <1>1, <1>3, <1>4 DEF Rounds, Served, Emitted
<1> QED BY <1>3, <1>5, <1>6, PaceKept

(* The beginning of a round moves no record. *)
LEMMA WriteBeginPace ==
  ASSUME Inv, RoomInv, PaceInv, WriteBegin
  PROVE  PaceInv'
<1>1. /\ wpc = "sleep" /\ due /\ wpc' = "table"
      /\ UNCHANGED <<bufMax, records, order, blocked, ti, index>>
  BY DEF WriteBegin, walkVars
<1>2. Rest' = Tables
  BY <1>1, FromFacts DEF Rest, Inv, TypeOK, PriorityOK, From, TablesNum, RoomInv
<1>3. \A t \in Tables : Emitted(t)' = Emitted(t) /\ \A n \in Nat : Rounds(t, n)' = Rounds(t, n)
  BY <1>1, <1>2 DEF Emitted, Rounds, Served
<1> SUFFICES ASSUME BigBuffer, NEW t \in Tables, NEW i \in 1 .. Len(records[t]),
                    records[t][i].key \notin blocked[t]
             PROVE  Pace(i, Emitted(t)', Rounds(t, records[t][i].age)')
  BY <1>1 DEF PaceInv, BigBuffer
<1>4. Pace(i, Emitted(t), Rounds(t, records[t][i].age)) /\ records[t][i].age \in Nat
  BY <1>1, RecordAt DEF PaceInv
<1>5. Rounds(t, records[t][i].age)' = Rounds(t, records[t][i].age)
  BY <1>1, <1>3, <1>4 DEF Rounds, Served
<1> QED BY <1>3, <1>4, <1>5

(* The beginning of a walk moves no record. *)
LEMMA TableBeginPace ==
  ASSUME Inv, RoomInv, PaceInv, TableBegin
  PROVE  PaceInv'
<1>1. /\ wpc = "table" /\ ti \in 1 .. TablesNum /\ index = 0
      /\ \/ records[Table] = <<>> /\ ti' = ti + 1 /\ wpc' = "table"
         \/ wpc' = "record" /\ ti' = ti
      /\ UNCHANGED <<bufMax, records, order, blocked, index, due>>
  BY TypesPositive DEF TableBegin, Inv, TypeOK, RoomInv
<1> SUFFICES ASSUME BigBuffer, NEW t \in Tables, NEW i \in 1 .. Len(records[t]),
                    records[t][i].key \notin blocked[t]
             PROVE  Pace(i, Emitted(t)', Rounds(t, records[t][i].age)')
  BY <1>1 DEF PaceInv, BigBuffer
<1>2. Pace(i, Emitted(t), Rounds(t, records[t][i].age)) /\ records[t][i].age \in Nat
  BY <1>1, RecordAt DEF PaceInv
<1>3. Emitted(t) = 0 /\ Emitted(t)' = 0
  BY <1>1 DEF Emitted
<1>4. t \in Rest' <=> t \in Rest
  <2>1. CASE ti' = ti
    BY <1>1, <2>1 DEF Rest, From, TablesNum
  <2>2. CASE records[Table] = <<>> /\ ti' = ti + 1
    <3>1. t # Table
      BY <2>2
    <3>2. Rest' = Rest \ {Table}
      BY <1>1, <2>2, RestFacts DEF Rest, From, TablesNum
    <3> QED BY <3>1, <3>2
  <2> QED BY <1>1, <2>1, <2>2
<1>5. Rounds(t, records[t][i].age)' = Rounds(t, records[t][i].age)
  BY <1>1, <1>4 DEF Rounds, Served
<1> QED BY <1>2, <1>3, <1>5

(* Without its first record every other one of the table is a place nearer. *)
LEMMA DropPlaces ==
  ASSUME Inv, wpc = "record", records[Table] # <<>>, DropFirst,
         blocked' = [blocked EXCEPT ![Table] = @ \ {First.key}],
         NEW u \in Tables, NEW i \in 1 .. Len(records'[u]), records'[u][i].key \notin blocked'[u]
  PROVE  \E j \in 1 .. Len(records[u]) :
           /\ records'[u][i] = records[u][j] /\ records[u][j].key \notin blocked[u]
           /\ j = IF u = Table THEN i + 1 ELSE i
<1>1. Table \in Tables
  BY DropFirstTables
<1>2. records[u] \in Seq(Record) /\ Sorted(records[u])
  BY DEF Inv, TypeOK, TableInv, Sorted
<1>3. CASE u # Table
  BY <1>3 DEF DropFirst, Inv, TypeOK
<1>4. CASE u = Table
  <2>1. records'[u] = Tail(records[u]) /\ blocked'[u] = blocked[u] \ {First.key}
        /\ First = records[u][1]
    BY <1>1, <1>2, <1>4 DEF DropFirst, Inv, TypeOK, First
  <2>2. Len(records[u]) \in Nat \ {0} /\ Len(Tail(records[u])) = Len(records[u]) - 1
    BY <1>2, <1>4
  <2>3. i \in Nat /\ i + 1 \in 1 .. Len(records[u]) /\ 1 \in 1 .. Len(records[u]) /\ 1 < i + 1
    BY <2>1, <2>2
  <2>4. records'[u][i] = records[u][i + 1]
    BY <1>2, <2>1, <2>2
  <2>5. records[u][i + 1].key # First.key
    BY <1>2, <2>1, <2>3 DEF Sorted
  <2> QED BY <1>4, <2>1, <2>3, <2>4, <2>5
<1> QED BY <1>3, <1>4

(* What the walk removes makes room for the others. *)
LEMMA DropPace ==
  ASSUME Inv, PaceInv, wpc = "record", records[Table] # <<>>, DropFirst,
         blocked' = [blocked EXCEPT ![Table] = @ \ {First.key}],
         index' \in {index, index + 1}, UNCHANGED <<bufMax, order, wpc, ti>>
  PROVE  PaceInv'
<1> SUFFICES ASSUME BigBuffer, NEW u \in Tables, NEW i \in 1 .. Len(records'[u]),
                    records'[u][i].key \notin blocked'[u]
             PROVE  Pace(i, Emitted(u)', Rounds(u, records[u][i].age)')
  BY DEF PaceInv, BigBuffer
<1>1. PICK j \in 1 .. Len(records[u]) :
        /\ records'[u][i] = records[u][j] /\ records[u][j].key \notin blocked[u]
        /\ j = IF u = Table THEN i + 1 ELSE i
  BY DropPlaces
<1>2. Pace(j, Emitted(u), Rounds(u, records[u][j].age))
  BY <1>1 DEF PaceInv
<1>3. j \in Nat /\ Emitted(u) \in Nat /\ Rounds(u, records[u][j].age) \in Nat /\ index \in Nat
  BY RecordAt, TypesPositive DEF Inv, TypeOK
<1>4. Table' = Table /\ Rest' = Rest
  BY DEF Table, Rest, From, TablesNum
<1>5. Rounds(u, records[u][i].age)' = Rounds(u, records[u][j].age)
  BY <1>1, <1>4 DEF Rounds, Served
<1>6. i \in Nat /\ Emitted(u)' \in Nat /\ i + Emitted(u)' <= j + Emitted(u)
  <2>1. i \in Nat
    BY <1>1, <1>3
  <2>2. CASE u = Table
    <3>1. Emitted(u) = index /\ Emitted(u)' = index' /\ j = i + 1
      BY <1>1, <1>4, <2>2 DEF Emitted
    <3>2. index' = index \/ index' = index + 1
      OBVIOUS
    <3>3. index' \in Nat /\ i + index' <= (i + 1) + index
      BY ONLY <1>3, <2>1, <3>2
    <3> QED BY ONLY <2>1, <3>1, <3>3
  <2>3. CASE u # Table
    <3>1. Emitted(u) = 0 /\ Emitted(u)' = 0 /\ j = i
      BY <1>1, <1>4, <2>3 DEF Emitted
    <3> QED BY <2>1, <3>1
  <2> QED BY <2>2, <2>3
<1> QED BY <1>2, <1>3, <1>5, <1>6, PaceKept

(* A record that has lines finds room for them in a big buffer. *)
LEMMA BigBufferFits ==
  ASSUME Inv, RoomInv, BigBuffer, Walking, First.lines > 0
  PROVE  Fits(Table, First) > 0
<1>1. /\ wpc = "record" /\ records[Table] # <<>> /\ index < Period /\ ti \in 1 .. TablesNum
      /\ index \in Nat /\ room \in Nat /\ total \in Nat
  BY TypesPositive DEF Walking, Inv, TypeOK, WalkOK
<1>2. /\ Left = room - total /\ Left \in Nat \ {0} /\ Table \in Tables /\ First \in Record
      /\ LineLen[Table] \in Nat \ {0} /\ First.lines \in Nat
  BY <1>1, FitsNow
<1>3. index < MaxRecords
  <2>1. records[Table] \in Seq(Record)
    BY <1>2 DEF Inv, TypeOK
  <2>2. Len(records[Table]) \in Nat \ {0} /\ RecCap \in Nat /\ index + Len(records[Table]) <= RecCap
    BY <1>1, <2>1, TypesPositive DEF RoomInv
  <2>3. index < RecCap
    BY <1>1, <2>2
  <2> QED BY <1>1, <2>3, MaxRecordsIs
<1>4. Printed + LineLen[Table] * MaxLines <= Cost[Table]
  BY <1>1, <1>3, PrintedCost
<1>5. room > CostSum[Rest] /\ CostSum[Rest] \in Nat /\ Cost[Table] \in Nat
      /\ Cost[Table] <= CostSum[Rest]
  <2>1. room > CostSum[Rest]
    BY <1>1 DEF RoomInv
  <2> QED BY <1>1, <2>1, RestFacts
<1>6. LineLen[Table] <= LineLen[Table] * MaxLines /\ LineLen[Table] * MaxLines \in Nat
  <2>1. MaxLines \in Nat /\ 1 <= MaxLines
    <3>1. First.lines \in LineCounts
      BY <1>2 DEF Record
    <3> QED BY <1>2, <3>1, MaxLinesIs
  <2>2. LineLen[Table] * 1 <= LineLen[Table] * MaxLines
    BY <1>2, <2>1, Monotone
  <2> QED BY <1>2, <2>1, <2>2
<1>7. LineLen[Table] <= Left - 1 /\ Left - 1 \in Nat
  <2> DEFINE w == LineLen[Table] * MaxLines
  <2>1. w \in Nat /\ LineLen[Table] <= w /\ total + 1 + w <= Cost[Table]
    BY <1>4, <1>6 DEF Printed
  <2> HIDE DEF w
  <2>2. Left - 1 \in Nat
    BY <1>2
  <2> QED BY <1>1, <1>2, <1>5, <2>1, <2>2
<1> DEFINE q == (Left - 1) \div LineLen[Table]
<1>8. q \in Nat /\ q # 0
  <2>1. /\ Left - 1 = LineLen[Table] * q + ((Left - 1) % LineLen[Table]) /\ q \in Nat
        /\ (Left - 1) % LineLen[Table] \in 0 .. LineLen[Table] - 1
    BY <1>2, <1>7, DivMod
  <2> HIDE DEF q
  <2>2. q = 0 => LineLen[Table] * q = 0
    BY <1>2
  <2> QED BY <1>2, <1>7, <2>1, <2>2
<1>9. Fits(Table, First) = IF First.lines <= q THEN First.lines ELSE q
  BY DEF Fits
<1> HIDE DEF q
<1> QED BY <1>2, <1>8, <1>9

(* A walk that is over has printed Period records, left none, or was stopped *)
(* by a record without lines.                                                *)
LEMMA TableEndPace ==
  ASSUME Inv, RoomInv, PaceInv, TableEnd
  PROVE  PaceInv'
<1>1. /\ wpc = "record" /\ ti \in 1 .. TablesNum /\ index \in Nat /\ index <= Period
      /\ index' = 0 /\ UNCHANGED <<bufMax, records, order, due>>
  BY TypesPositive DEF Inv, TypeOK, WalkOK, TableEnd
<1>2. /\ Table \in Tables /\ Table \in Rest /\ Rest \ {Table} = From(order, ti + 1)
  BY <1>1, RestFacts
<1> SUFFICES ASSUME BigBuffer, wpc' \in {"sleep", "table", "record"},
                    NEW t \in Tables, NEW i \in 1 .. Len(records[t]),
                    records[t][i].key \notin blocked'[t]
             PROVE  Pace(i, Emitted(t)', Rounds(t, records[t][i].age)')
  BY <1>1 DEF PaceInv, BigBuffer
<1>3. wpc' = "table" /\ ti' = ti + 1
  BY DEF TableEnd
<1>4. Rest' = Rest \ {Table} /\ Emitted(t)' = 0
  BY <1>1, <1>2, <1>3 DEF Rest, From, TablesNum, Emitted
<1>5. /\ i \in Nat /\ records[t][i].age \in Nat
      /\ Emitted(t) \in Nat /\ Rounds(t, records[t][i].age) \in Nat
  BY RecordAt
<1>6. CASE t # Table
  <2>1. blocked'[t] = blocked[t]
    BY <1>2, <1>6 DEF TableEnd, Inv, TypeOK
  <2>2. Pace(i, Emitted(t), Rounds(t, records[t][i].age)) /\ Emitted(t) = 0
    BY <1>1, <1>6, <2>1 DEF PaceInv, Emitted
  <2>3. Rounds(t, records[t][i].age)' = Rounds(t, records[t][i].age)
    BY <1>1, <1>3, <1>4, <1>6 DEF Rounds, Served
  <2> QED BY <1>4, <2>2, <2>3
<1>7. CASE t = Table
  <2>1. records[Table] # <<>>
    BY <1>7
  <2>2. ~Walking
    <3> SUFFICES ASSUME Walking PROVE FALSE
      OBVIOUS
    <3>1. Fits(Table, First) = 0
      BY DEF TableEnd
    <3>2. ~(First.lines > 0)
      BY <3>1, BigBufferFits
    <3>3. First.lines = 0
      BY <1>1, <2>1, <3>2, FitsNow
    <3>4. blocked'[t] = KeysOf(records[t])
      BY <1>2, <1>7, <3>3 DEF TableEnd, Inv, TypeOK
    <3> QED BY <3>4 DEF KeysOf
  <2>3. index = Period
    BY <1>1, <2>1, <2>2, TypesPositive DEF Walking
  <2>4. blocked'[t] = blocked[t]
    BY <2>2 DEF TableEnd
  <2> DEFINE n == records[t][i].age
  <2>5. Pace(i, Period, IF n = 0 THEN 0 ELSE n - 1)
    <3>1. Emitted(t) = Period /\ Rounds(t, n) = IF n = 0 THEN 0 ELSE n - 1
      BY <1>1, <1>2, <1>7, <2>3 DEF Emitted, Rounds, Served
    <3> QED BY <1>1, <2>4, <3>1 DEF PaceInv
  <2>6. Rounds(t, records[t][i].age)' = n
    BY <1>1, <1>3, <1>4, <1>7 DEF Rounds, Served
  <2>7. n \in Nat
    BY <1>5
  <2> HIDE DEF n
  <2>8. Pace(i, 0, n)
    <3>1. CASE n = 0
      BY <1>5, <2>5, <3>1, TypesPositive DEF Pace
    <3>2. CASE n # 0
      <4>1. n - 1 \in Nat /\ Period \in Nat /\ RecCap \in Nat
        BY <2>7, <3>2, TypesPositive
      <4>2. Period * n = Period * (n - 1) + Period /\ Period * (n - 1) \in Nat
        BY <2>7, <4>1
      <4> QED BY <1>5, <2>5, <3>2, <4>1, <4>2 DEF Pace
    <3> QED BY <3>1, <3>2
  <2> QED BY <1>4, <2>6, <2>8
<1> QED BY <1>6, <1>7

(* At the end of a round every table has been served. *)
LEMMA WriteEndPace ==
  ASSUME Inv, RoomInv, PaceInv, WriteEnd
  PROVE  PaceInv'
<1>1. /\ wpc = "table" /\ ti = TablesNum + 1 /\ wpc' \in {"sleep", "refused"} /\ ~due
      /\ UNCHANGED <<bufMax, records, blocked, due>>
  BY TypesPositive DEF WriteEnd, Inv, TypeOK, RoomInv
<1>2. Rest = {}
  BY <1>1, FromFacts DEF Rest, Inv, TypeOK, PriorityOK
<1> SUFFICES ASSUME BigBuffer, wpc' = "sleep", NEW t \in Tables, NEW i \in 1 .. Len(records[t]),
                    records[t][i].key \notin blocked[t]
             PROVE  Pace(i, Emitted(t)', Rounds(t, records[t][i].age)')
  BY <1>1 DEF PaceInv, BigBuffer
<1>3. Pace(i, Emitted(t), Rounds(t, records[t][i].age))
  BY <1>1 DEF PaceInv
<1>4. Emitted(t)' = Emitted(t) /\ Rounds(t, records[t][i].age)' = Rounds(t, records[t][i].age)
  BY <1>1, <1>2 DEF Emitted, Rounds, Served
<1> QED BY <1>3, <1>4

(* Every step keeps the pace. *)
LEMMA NextPace ==
  ASSUME Inv, Inv', RoomInv, PaceInv, [Next]_vars
  PROVE  PaceInv'
<1>1. CASE UNCHANGED vars
  <2>1. Table' = Table /\ Rest' = Rest
    BY <1>1 DEF vars, walkVars, Table, Rest, From, TablesNum
  <2> QED BY <1>1, <2>1 DEF PaceInv, BigBuffer, Emitted, Rounds, Served, vars, walkVars
<1>2. CASE Expire
  BY <1>2, DropPace DEF Expire, Walking, walkVars
<1>3. CASE EmitRecord
  BY <1>3, DropPace DEF EmitRecord, Walking
<1> QED
  BY <1>1, <1>2, <1>3, AddRecordPace, TickPace, WriteBeginPace, TableBeginPace, TableEndPace,
     WriteEndPace
  DEF Next, WriteMetricsLogs

(* A record that is too old and not blocked has no place left. *)
LEMMA TooOldIsBlocked ==
  ASSUME Inv, PaceInv, BigBuffer, RecCap <= Period * Timeout, Walking, Expired(First)
  PROVE  First.key \in blocked[Table]
<1> SUFFICES ASSUME First.key \notin blocked[Table] PROVE FALSE
  OBVIOUS
<1>1. wpc = "record" /\ records[Table] # <<>>
  BY DEF Walking
<1>2. Table \in Tables /\ First \in Record
  BY <1>1, FitsNow
<1>3. records[Table] \in Seq(Record)
  BY <1>2 DEF Inv, TypeOK
<1>4. First = records[Table][1] /\ 1 \in 1 .. Len(records[Table])
  BY <1>1, <1>3 DEF First
<1>5. Pace(1, Emitted(Table), Rounds(Table, First.age))
  BY <1>1, <1>2, <1>4 DEF PaceInv
<1>6. /\ Emitted(Table) \in Nat /\ First.age \in Nat /\ Rounds(Table, First.age) \in Nat
  BY <1>2, <1>4, RecordAt
<1>7. Timeout <= Rounds(Table, First.age) /\ Timeout \in Nat /\ Period \in Nat /\ RecCap \in Nat
  BY <1>6, TypesPositive DEF Expired, Rounds
<1>8. Pace(1, 0, Timeout)
  BY <1>5, <1>6, <1>7, PaceKept
<1>9. Period * Timeout \in Nat
  BY <1>7
<1> QED BY <1>7, <1>8, <1>9 DEF Pace

(* IMDB_Tbl2Prometheus drops a record with lines unprinted only if a record *)
(* without lines kept it waiting, for every buffer and every table that the *)
(* period and the timeout allow to be printed.                              *)
THEOREM ExpiredWereBlocked == Spec => ExpiresOnlyBlocked
<1> DEFINE Act ==
      \A t \in Tables :
        Roomy /\ RecCap <= Period * Timeout /\ Walking /\ t = Table
          /\ First.lines > 0 /\ total' = total /\ records'[t] # records[t]
        => First.key \in blocked[t]
<1>1. ASSUME Inv, PaceInv, [Next]_vars PROVE [Act]_vars
  <2> SUFFICES ASSUME Next, NEW t \in Tables,
                      Roomy, RecCap <= Period * Timeout, Walking, t = Table,
                      total' = total, records'[t] # records[t]
               PROVE  First.key \in blocked[t]
    BY <1>1
  <2>1. BigBuffer
    BY RoomyIs DEF BigBuffer
  <2>2. wpc = "record" /\ records[Table] # <<>>
    BY DEF Walking
  <2>3. ~EmitRecord
    <3> SUFFICES ASSUME EmitRecord PROVE FALSE
      OBVIOUS
    <3>1. /\ Fits(Table, First) \in Nat /\ Fits(Table, First) > 0 /\ LineLen[Table] \in Nat \ {0}
          /\ total \in Nat /\ total' = total + Fits(Table, First) * LineLen[Table]
      BY <1>1, <2>2, FitsNow DEF EmitRecord, Inv, TypeOK
    <3>2. Fits(Table, First) * LineLen[Table] > 0
      BY <3>1
    <3> QED BY <3>1, <3>2
  <2>4. Expire
    BY <2>2, <2>3 DEF Next, WriteMetricsLogs, AddRecord, Tick, LockFree, WriteBegin, TableBegin,
       TableEnd, WriteEnd
  <2> QED BY <1>1, <2>1, <2>4, TooOldIsBlocked DEF Expire
<1> QED
  BY <1>1, InitInv, NextInv, InitRoom, NextRoom, InitPace, NextPace, PTL
     DEF Spec, ExpiresOnlyBlocked
===========================================================================
