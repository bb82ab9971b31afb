----------------------------- MODULE FifoProofs -----------------------------
(***************************************************************************)
(* For every size, index width and set of elements, the ring of Fifo.tla    *)
(* keeps its type, never overfills, never has both threads on one slot, and *)
(* implements the bounded queue.                                            *)
(*                                                                          *)
(* The argument: between its barriers each thread relies on what it read    *)
(* before them.  The producer's plen = 1 stays justified because only the   *)
(* consumer moves out, and that only makes room; dually for clen = 1.  So   *)
(* RingInv is inductive, and the slot the producer writes, that of          *)
(* out + Count, differs from the slots of the Count queued elements because *)
(* Count < Size.                                                            *)
(***************************************************************************)
EXTENDS Fifo, SequenceTheorems, TLAPS

-----------------------------------------------------------------------------
(* Arithmetic of unsigned indices. *)

(* Division with remainder. *)
LEMMA DivMod ==
  ASSUME NEW a \in Nat, NEW s \in Nat \ {0}
  PROVE  /\ a = s * (a \div s) + (a % s)
         /\ a % s \in 0 .. s - 1
         /\ a \div s \in Nat
OBVIOUS

(* The remainder is determined by the range it lies in. *)
LEMMA ModUnique ==
  ASSUME NEW s \in Nat \ {0}, NEW q \in Int, NEW r \in 0 .. s - 1
  PROVE  (s * q + r) % s = r
OBVIOUS

(* What one wrap of an index does. *)
LEMMA ModOnce ==
  ASSUME NEW m \in Nat \ {0}, NEW a \in Int, -m <= a, a < 2 * m
  PROVE  a % m = IF a < 0 THEN a + m ELSE IF a < m THEN a ELSE a - m
OBVIOUS

(* Two indices with the same slot are a whole ring apart. *)
LEMMA SameSlotFarApart ==
  ASSUME NEW s \in Nat \ {0}, NEW a \in Nat, NEW b \in Nat,
         a % s = b % s, a < b
  PROVE  b - a >= s
OBVIOUS

(* Two indices less than a whole ring apart have different slots. *)
LEMMA DifferentSlots ==
  ASSUME NEW s \in Nat \ {0}, NEW a \in Nat, NEW b \in Nat,
         a < b, b - a < s
  PROVE  a % s # b % s
<1>1. a % s = b % s => b - a >= s
  BY SameSlotFarApart
<1> QED BY <1>1

(* The index space holds the ring at least twice. *)
LEMMA IndexRoom == IndexMod >= 2 * Size
<1>1. PICK k \in 2 .. IndexMod : IndexMod = Size * k
  BY IndexAssumption
<1>2. Size * k >= Size * 2
  BY <1>1, SizeAssumption, IndexAssumption
<1> QED BY <1>1, <1>2, SizeAssumption

(* Wrapping an index does not change its slot: the size divides 2^32. *)
LEMMA SlotOfWrap ==
  ASSUME NEW o \in Index, NEW j \in 0 .. Size
  PROVE  SlotOf((o + j) % IndexMod) = SlotOf(o + j)
<1> DEFINE a == o + j
<1>1. a \in Nat /\ a < 2 * IndexMod /\ IndexMod \in Nat \ {0} /\ Size \in Nat \ {0}
  BY IndexRoom, SizeAssumption, IndexAssumption DEF Index
<1>2. CASE a < IndexMod
  <2>1. a % IndexMod = a
    BY <1>1, <1>2, ModOnce
  <2> QED BY <2>1 DEF SlotOf
<1>3. CASE a >= IndexMod
  <2>1. a % IndexMod = a - IndexMod
    BY <1>1, <1>3, ModOnce
  <2>2. PICK k \in Nat : IndexMod = Size * k
    BY IndexAssumption, SMT
  <2>3. DEFINE b == a - IndexMod
  <2>4. b \in Nat
    BY <1>1, <1>3
  <2>5. /\ b = Size * (b \div Size) + (b % Size)
        /\ b % Size \in 0 .. Size - 1
        /\ b \div Size \in Nat
    BY <1>1, <2>4, DivMod
  <2>6. DEFINE q == (b \div Size) + k
  <2>7. a = Size * q + (b % Size)
    <3>1. Size * q = Size * (b \div Size) + Size * k
      BY <1>1, <2>2, <2>5
    <3>2. a = b + Size * k
      BY <1>1, <2>2, <1>3
    <3> HIDE DEF a, b, q
    <3> QED BY <3>1, <3>2, <2>4, <2>5, <1>1, <2>2 DEF q
  <2>8. a % Size = b % Size
    <3>1. q \in Int
      BY <2>2, <2>5
    <3> HIDE DEF a, b, q
    <3> QED BY <2>7, <2>5, <3>1, <1>1, ModUnique
  <2> QED BY <2>8, <2>1 DEF SlotOf
<1> QED BY <1>1, <1>2, <1>3

(* fifo->in - fifo->out in uint32_t counts the elements put and not got. *)
LEMMA UsedSlotsValue ==
  ASSUME NEW i \in Index, NEW o \in Index
  PROVE  /\ UsedSlots(i, o) = IF i >= o THEN i - o ELSE i - o + IndexMod
         /\ UsedSlots(i, o) \in Index
<1>1. IndexMod \in Nat \ {0}
  BY IndexAssumption
<1>2. i - o \in Int /\ -IndexMod <= i - o /\ i - o < 2 * IndexMod
  BY <1>1 DEF Index
<1>3. (i - o) % IndexMod = IF i - o < 0 THEN (i - o) + IndexMod
                           ELSE IF i - o < IndexMod THEN i - o ELSE (i - o) - IndexMod
  BY <1>1, <1>2, ModOnce
<1> QED BY <1>1, <1>3 DEF UsedSlots, Index

(* fifo->size - fifo->in + fifo->out in uint32_t counts the free slots. *)
LEMMA FreeSlotsValue ==
  ASSUME NEW i \in Index, NEW o \in Index, UsedSlots(i, o) <= Size
  PROVE  FreeSlots(i, o) = Size - UsedSlots(i, o)
<1> DEFINE a == Size - i + o
<1>1. IndexMod \in Nat \ {0} /\ Size \in Nat \ {0} /\ IndexMod >= 2 * Size
  BY IndexAssumption, SizeAssumption, IndexRoom
<1>2. UsedSlots(i, o) = IF i >= o THEN i - o ELSE i - o + IndexMod
  BY UsedSlotsValue
<1>3. a \in Int /\ -IndexMod <= a /\ a < 2 * IndexMod
  BY <1>1, <1>2 DEF Index
<1>4. a % IndexMod = IF a < 0 THEN a + IndexMod
                     ELSE IF a < IndexMod THEN a ELSE a - IndexMod
  <2> HIDE DEF a
  <2> QED BY <1>1, <1>3, ModOnce
<1> QED BY <1>1, <1>2, <1>4 DEF FreeSlots, Index

(* The index after i. *)
LEMMA WrapNext ==
  ASSUME NEW i \in Index
  PROVE  (i + 1) % IndexMod = IF i + 1 < IndexMod THEN i + 1 ELSE i + 1 - IndexMod
<1> DEFINE a == i + 1
<1>1. IndexMod \in Nat \ {0} /\ a \in Int /\ -IndexMod <= a /\ a < 2 * IndexMod /\ ~(a < 0)
  BY IndexAssumption DEF Index
<1>2. a % IndexMod = IF a < IndexMod THEN a ELSE a - IndexMod
  <2> HIDE DEF a
  <2> QED BY <1>1, ModOnce
<1> QED BY <1>1, <1>2 DEF Index

(* Moving in by one adds an element. *)
LEMMA AdvanceIn ==
  ASSUME NEW i \in Index, NEW o \in Index, UsedSlots(i, o) < Size
  PROVE  /\ (i + 1) % IndexMod \in Index
         /\ UsedSlots((i + 1) % IndexMod, o) = UsedSlots(i, o) + 1
<1> DEFINE n == (i + 1) % IndexMod
<1>1. IndexMod \in Nat \ {0} /\ Size \in Nat \ {0} /\ IndexMod >= 2 * Size
  BY IndexAssumption, SizeAssumption, IndexRoom
<1>2. n = IF i + 1 < IndexMod THEN i + 1 ELSE i + 1 - IndexMod
  BY WrapNext
<1>3. n \in Index
  BY <1>1, <1>2 DEF Index
<1>4. UsedSlots(n, o) = IF n >= o THEN n - o ELSE n - o + IndexMod
  <2> HIDE DEF n
  <2> QED BY <1>3, UsedSlotsValue DEF n
<1>5. UsedSlots(i, o) = IF i >= o THEN i - o ELSE i - o + IndexMod
  BY UsedSlotsValue
<1>6. UsedSlots(n, o) = UsedSlots(i, o) + 1
  <2> HIDE DEF n
  <2> QED BY <1>1, <1>2, <1>4, <1>5 DEF Index
<1> QED BY <1>3, <1>6

(* Moving out by one removes an element. *)
LEMMA AdvanceOut ==
  ASSUME NEW i \in Index, NEW o \in Index, UsedSlots(i, o) > 0
  PROVE  /\ (o + 1) % IndexMod \in Index
         /\ UsedSlots(i, (o + 1) % IndexMod) = UsedSlots(i, o) - 1
<1> DEFINE n == (o + 1) % IndexMod
<1>1. IndexMod \in Nat \ {0} /\ Size \in Nat \ {0} /\ IndexMod >= 2 * Size
  BY IndexAssumption, SizeAssumption, IndexRoom
<1>2. n = IF o + 1 < IndexMod THEN o + 1 ELSE o + 1 - IndexMod
  BY WrapNext
<1>3. n \in Index
  BY <1>1, <1>2 DEF Index
<1>4. UsedSlots(i, n) = IF i >= n THEN i - n ELSE i - n + IndexMod
  <2> HIDE DEF n
  <2> QED BY <1>3, UsedSlotsValue DEF n
<1>5. UsedSlots(i, o) = IF i >= o THEN i - o ELSE i - o + IndexMod
  BY UsedSlotsValue
<1>6. UsedSlots(i, n) = UsedSlots(i, o) - 1
  <2> HIDE DEF n
  <2> QED BY <1>1, <1>2, <1>4, <1>5 DEF Index
<1> QED BY <1>3, <1>6

-----------------------------------------------------------------------------
(***************************************************************************)
(* Types.  PutBegin is only called with a pointer of the caller, so pelem   *)
(* is a real element from the moment a put has begun.                       *)
(***************************************************************************)
PutHasElement == ppc # "idle" => pelem \in Elements

(* What the constants give: wrapping keeps an index, and an index has a slot. *)
LEMMA Bounds ==
  /\ Size \in Nat \ {0}
  /\ IndexMod \in Nat \ {0}
  /\ \A i \in Int : i % IndexMod \in Index
  /\ \A i \in Nat : SlotOf(i) \in Slots
BY SizeAssumption, IndexAssumption DEF Index, Slots, SlotOf

(* len is 1 exactly when there is room, respectively an element. *)
LEMMA FifoMinOne ==
  ASSUME NEW x \in Nat
  PROVE  FifoMin(1, x) \in {0, 1} /\ (FifoMin(1, x) = 1 <=> x > 0)
BY DEF FifoMin

(* len2 is len: a slot has at least itself before the end of the buffer. *)
LEMMA Len2IsLen ==
  ASSUME NEW l \in {0, 1}, NEW x \in Slots
  PROVE  FifoMin(l, Size - x) = l
<1>1. Size - x \in Int /\ Size - x >= 1
  BY Bounds DEF Slots
<1> QED BY <1>1 DEF FifoMin

(* An index plus len = 0 is the same index. *)
LEMMA IndexPlusZero ==
  ASSUME NEW i \in Index
  PROVE  (i + 0) % IndexMod = i
<1>1. i + 0 = i /\ i \in Int /\ -IndexMod <= i /\ i < 2 * IndexMod /\ i < IndexMod /\ ~(i < 0)
  BY Bounds DEF Index
<1>2. i % IndexMod = i
  BY <1>1, Bounds, ModOnce
<1> QED BY <1>1, <1>2

(* The counts that put and get compute from the indices are natural numbers. *)
LEMMA CountsAreNat ==
  ASSUME NEW i \in Index, NEW o \in Index
  PROVE  UsedSlots(i, o) \in Nat /\ FreeSlots(i, o) \in Nat
<1>1. i - o \in Int /\ Size - i + o \in Int
  BY Bounds DEF Index
<1>2. (i - o) % IndexMod \in Index /\ (Size - i + o) % IndexMod \in Index
  BY <1>1, Bounds
<1> QED BY <1>2, Bounds DEF UsedSlots, FreeSlots, Index

(* FifoPut and FifoGet keep every field of the ring within its C type: the  *)
(* indices stay in the 32-bit range and the lengths are 0 or 1.             *)
LEMMA TypeStep == TypeOK /\ [Next]_vars => TypeOK'
<1> SUFFICES ASSUME TypeOK, [Next]_vars PROVE TypeOK'
  OBVIOUS
<1> USE Bounds DEF TypeOK, shared, putVars, getVars
<1>1. ASSUME NEW e \in Elements, PutBegin(e) PROVE TypeOK'
  <2>1. FifoMin(1, FreeSlots(in, out)) \in {0, 1}
    BY CountsAreNat, FifoMinOne
  <2> QED BY <1>1, <2>1 DEF PutBegin
<1>2. CASE PutCopy
  <2>1. buffer' \in [Slots -> Elements \cup {NoElem}]
    BY <1>2 DEF PutCopy
  <2> QED BY <1>2, <2>1 DEF PutCopy
<1>3. CASE PutPublish
  <2>1. in + plen \in Int
    BY DEF Index
  <2> QED BY <1>3, <2>1 DEF PutPublish
<1>4. CASE GetBegin
  <2>1. FifoMin(1, UsedSlots(in, out)) \in {0, 1}
    BY CountsAreNat, FifoMinOne
  <2> QED BY <1>4, <2>1 DEF GetBegin
<1>5. CASE GetCopy
  <2>1. 0 \in Slots /\ out \in Nat
    BY DEF Slots, Index
  <2>2. SlotOf(out) \in Slots
    BY <2>1
  <2> QED BY <1>5, <2>1, <2>2 DEF GetCopy
<1>6. CASE GetPublish
  <2>1. out + clen \in Int
    BY DEF Index
  <2> QED BY <1>6, <2>1 DEF GetPublish
<1>7. CASE UNCHANGED vars
  BY <1>7 DEF vars
<1> QED BY <1>1, <1>2, <1>3, <1>4, <1>5, <1>6, <1>7 DEF Next, FifoPut, FifoGet

(* FifoCreate sets every field within its type. *)
LEMMA TypeInit == Init => TypeOK
BY Bounds DEF Init, TypeOK, Index, Slots

(* Type correctness of the ring: whatever the interleaving of one FifoPut   *)
(* and one FifoGet, every field stays within its C type.                    *)
THEOREM TypeCorrect == Spec => []TypeOK
BY TypeInit, TypeStep, PTL DEF Spec

-----------------------------------------------------------------------------
(***************************************************************************)
(* Slots of the queued elements.                                            *)
(***************************************************************************)

(* in is Count elements after out. *)
LEMMA InIsOutPlusCount ==
  ASSUME TypeOK
  PROVE  (out + Count) % IndexMod = in
<1> DEFINE a == out + Count
<1>1. Count = IF in >= out THEN in - out ELSE in - out + IndexMod
  BY UsedSlotsValue DEF Count, TypeOK
<1>2. IndexMod \in Nat \ {0} /\ a \in Int /\ -IndexMod <= a /\ a < 2 * IndexMod
  BY <1>1, Bounds DEF TypeOK, Index
<1>3. a % IndexMod = IF a < 0 THEN a + IndexMod
                     ELSE IF a < IndexMod THEN a ELSE a - IndexMod
  <2> HIDE DEF a
  <2> QED BY <1>2, ModOnce
<1> QED BY <1>1, <1>2, <1>3 DEF TypeOK, Index

(* The slot FifoPut writes holds none of the queued elements. *)
LEMMA PutSlotIsFree ==
  ASSUME TypeOK, Count < Size, NEW j \in 0 .. Count - 1
  PROVE  SlotOf(in) # SlotOf((out + j) % IndexMod)
<1>0. in \in Index /\ out \in Index
  BY DEF TypeOK
<1>1. Count \in Nat /\ out \in Nat /\ out \in Index /\ Size \in Nat \ {0}
  <2>1. Count \in Nat
    BY <1>0, CountsAreNat DEF Count
  <2>2. out \in Nat
    BY <1>0, Bounds DEF Index
  <2> QED BY <1>0, <2>1, <2>2, Bounds
<1>2. SlotOf((out + j) % IndexMod) = SlotOf(out + j)
  BY <1>1, SlotOfWrap
<1>3. SlotOf(in) = SlotOf(out + Count)
  BY <1>1, SlotOfWrap, InIsOutPlusCount
<1>4. SlotOf(out + j) # SlotOf(out + Count)
  <2> DEFINE a == out + j
             b == out + Count
  <2>1. a \in Nat /\ b \in Nat /\ a < b /\ b - a < Size
    BY <1>1
  <2> HIDE DEF a, b
  <2>2. a % Size # b % Size
    BY <1>1, <2>1, DifferentSlots
  <2> QED BY <2>2 DEF SlotOf, a, b
<1> QED BY <1>2, <1>3, <1>4

(***************************************************************************)
(* The inductive invariant.                                                 *)
(***************************************************************************)
IInv == TypeOK /\ RingInv /\ PutHasElement

(* The ring begins empty and with both threads idle. *)
LEMMA InvInit == Init => IInv
<1> SUFFICES ASSUME Init PROVE IInv
  OBVIOUS
<1>1. TypeOK
  BY TypeInit
<1>2. Count = 0
  BY <1>1, UsedSlotsValue DEF Count, Init, TypeOK
<1> QED BY <1>1, <1>2, Bounds DEF IInv, RingInv, PutHasElement, NeverOverfull,
          PutReserved, GetReserved, PutCopied, GetCopied, Init

(* Every step of put and get keeps the inductive invariant. *)
LEMMA InvStep == IInv /\ [Next]_vars => IInv'
<1> SUFFICES ASSUME IInv, [Next]_vars PROVE IInv'
  OBVIOUS
<1>1. TypeOK /\ TypeOK' /\ Count \in Nat /\ Count' \in Nat
  BY TypeStep, CountsAreNat DEF IInv, TypeOK, Count
<1>2. in \in Nat /\ out \in Nat /\ SlotOf(in) \in Slots /\ SlotOf(out) \in Slots
  BY <1>1, Bounds DEF TypeOK, Index
<1> USE DEF IInv, RingInv, PutHasElement, NeverOverfull, PutReserved,
            GetReserved, PutCopied, GetCopied
<1>3. ASSUME NEW e \in Elements, PutBegin(e) PROVE IInv'
  <2>1. Count' = Count
    BY <1>3 DEF PutBegin, Count, shared
  <2>2. plen' = 1 => Count < Size
    <3>1. FreeSlots(in, out) = Size - Count
      BY <1>1, FreeSlotsValue DEF TypeOK, Count
    <3>2. FreeSlots(in, out) \in Nat
      BY <1>1, CountsAreNat DEF TypeOK
    <3> QED BY <1>1, <1>3, <3>1, <3>2, FifoMinOne, Bounds DEF PutBegin
  <2> QED BY <1>1, <1>3, <2>1, <2>2 DEF PutBegin, shared, getVars
<1>4. CASE PutCopy
  <2>1. Count' = Count
    BY <1>4 DEF PutCopy, Count
  <2>2. plen = 1 => buffer'[SlotOf(in)] = pelem
    <3>1. plen = 1 => FifoMin(plen, Size - SlotOf(in)) = 1
      BY <1>2, Len2IsLen
    <3> QED BY <1>2, <1>4, <3>1 DEF PutCopy
  <2>3. cpc = "publish" /\ clen = 1 => buffer'[SlotOf(out)] = buffer[SlotOf(out)]
    <3> SUFFICES ASSUME cpc = "publish", clen = 1
                 PROVE  buffer'[SlotOf(out)] = buffer[SlotOf(out)]
      OBVIOUS
    <3>1. CASE plen = 0
      <4>1. FifoMin(plen, Size - SlotOf(in)) = 0
        BY <3>1, <1>2, Len2IsLen
      <4> QED BY <1>2, <1>4, <3>1, <4>1 DEF PutCopy
    <3>2. CASE plen = 1
      <4>1. Count < Size /\ 0 \in 0 .. Count - 1
        BY <1>1, <1>4, <3>2 DEF PutCopy
      <4>2. SlotOf(in) # SlotOf((out + 0) % IndexMod)
        BY <1>1, <4>1, PutSlotIsFree
      <4>3. (out + 0) % IndexMod = out
        BY <1>1, IndexPlusZero DEF TypeOK
      <4>4. FifoMin(plen, Size - SlotOf(in)) = 1
        BY <3>2, <1>2, Len2IsLen
      <4> QED BY <1>2, <1>4, <3>2, <4>2, <4>3, <4>4 DEF PutCopy
    <3> QED BY <3>1, <3>2, <1>1 DEF TypeOK
  <2> QED BY <1>1, <1>4, <2>1, <2>2, <2>3 DEF PutCopy, getVars
<1>5. CASE PutPublish
  <2>1. CASE plen = 0
    <3>1. in' = in
      BY <1>5, <1>1, <2>1, IndexPlusZero DEF PutPublish, TypeOK
    <3>2. Count' = Count
      BY <1>5, <3>1 DEF PutPublish, Count
    <3> QED BY <1>1, <1>5, <2>1, <3>1, <3>2 DEF PutPublish, getVars
  <2>2. CASE plen = 1
    <3>1. Count < Size
      BY <1>5, <2>2 DEF PutPublish
    <3>2. Count' = Count + 1
      BY <1>1, <1>5, <2>2, <3>1, AdvanceIn DEF PutPublish, Count, TypeOK
    <3> QED BY <1>1, <1>5, <2>2, <3>1, <3>2, Bounds DEF PutPublish, getVars
  <2> QED BY <2>1, <2>2, <1>1 DEF TypeOK
<1>6. CASE GetBegin
  <2>1. Count' = Count
    BY <1>6 DEF GetBegin, Count, shared
  <2>2. clen' = 1 => Count > 0
    BY <1>1, <1>6, FifoMinOne DEF GetBegin, Count
  <2> QED BY <1>1, <1>6, <2>1, <2>2 DEF GetBegin, shared, putVars
<1>7. CASE GetCopy
  <2>1. Count' = Count
    BY <1>7 DEF GetCopy, Count, shared
  <2>2. clen = 1 => celem' = buffer[SlotOf(out)]
    <3>1. clen = 1 => FifoMin(clen, Size - SlotOf(out)) = 1
      BY <1>2, Len2IsLen
    <3> QED BY <1>7, <3>1 DEF GetCopy
  <2> QED BY <1>1, <1>7, <2>1, <2>2 DEF GetCopy, shared, putVars
<1>8. CASE GetPublish
  <2>1. CASE clen = 0
    <3>1. out' = out
      BY <1>8, <1>1, <2>1, IndexPlusZero DEF GetPublish, TypeOK
    <3>2. Count' = Count
      BY <1>8, <3>1 DEF GetPublish, Count
    <3> QED BY <1>1, <1>8, <2>1, <3>1, <3>2 DEF GetPublish, putVars
  <2>2. CASE clen = 1
    <3>1. Count > 0
      BY <1>8, <2>2 DEF GetPublish
    <3>2. Count' = Count - 1
      BY <1>1, <1>8, <2>2, <3>1, AdvanceOut DEF GetPublish, Count, TypeOK
    <3> QED BY <1>1, <1>8, <2>2, <3>1, <3>2, Bounds DEF GetPublish, putVars
  <2> QED BY <2>1, <2>2, <1>1 DEF TypeOK
<1>9. CASE UNCHANGED vars
  BY <1>1, <1>9 DEF vars, Count
<1> QED BY <1>3, <1>4, <1>5, <1>6, <1>7, <1>8, <1>9 DEF Next, FifoPut, FifoGet

(* The inductive invariant holds in every reachable state. *)
LEMMA InvHolds == Spec => []IInv
BY InvInit, InvStep, PTL DEF Spec

(* Across every wrap of the indices the ring never overfills, and what      *)
(* FifoPut and FifoGet saw before their first barrier still holds when they *)
(* move their index.                                                        *)
THEOREM RingCorrect == Spec => []RingInv
<1>1. IInv => RingInv
  BY DEF IInv
<1> QED BY <1>1, InvHolds, PTL

(* FifoPut never copies into the slot FifoGet is copying from, although     *)
(* neither takes a lock.                                                    *)
THEOREM SlotsNeverConflict == Spec => []NoSlotConflict
<1>1. IInv => NoSlotConflict
  <2> SUFFICES ASSUME IInv, ppc = "copy", plen = 1, cpc = "copy", clen = 1
               PROVE  SlotOf(in) # SlotOf(out)
    BY DEF NoSlotConflict
  <2>1. TypeOK /\ Count < Size /\ Count > 0
    BY DEF IInv, RingInv, PutReserved, GetReserved
  <2>2. Count \in Nat
    BY <2>1, CountsAreNat DEF Count, TypeOK
  <2>3. SlotOf(in) # SlotOf((out + 0) % IndexMod)
    BY <2>1, <2>2, PutSlotIsFree
  <2>4. (out + 0) % IndexMod = out
    BY <2>1, IndexPlusZero DEF TypeOK
  <2> QED BY <2>3, <2>4
<1> QED BY <1>1, InvHolds, PTL

-----------------------------------------------------------------------------
(***************************************************************************)
(* Refinement.                                                              *)
(***************************************************************************)

(* The i-th queued element. *)
QueueAt(i) == buffer[SlotOf((out + (i - 1)) % IndexMod)]

(* The queue that the ring stands for: the slots from out to in. *)
LEMMA AbsQueueFacts ==
  ASSUME IInv
  PROVE  /\ Count \in Nat
         /\ AbsQueue = [i \in 1 .. Count |-> QueueAt(i)]
         /\ \A i \in 1 .. Count : QueueAt(i) \in Elements \cup {NoElem}
         /\ AbsQueue \in Seq(Elements \cup {NoElem})
         /\ Len(AbsQueue) = Count
<1>1. in \in Index /\ out \in Index /\ buffer \in [Slots -> Elements \cup {NoElem}]
  BY DEF IInv, TypeOK
<1>2. Count \in Nat
  BY <1>1, CountsAreNat DEF Count
<1>3. ASSUME NEW i \in 1 .. Count PROVE QueueAt(i) \in Elements \cup {NoElem}
  <2> DEFINE a == out + (i - 1)
  <2>1. a \in Int
    BY <1>1, <1>2, Bounds DEF Index
  <2>2. a % IndexMod \in Index /\ a % IndexMod \in Nat
    <3> HIDE DEF a
    <3>1. a % IndexMod \in Index
      BY <2>1, Bounds
    <3> QED BY <3>1, Bounds DEF Index
  <2>3. SlotOf(a % IndexMod) \in Slots
    <3> HIDE DEF a
    <3> QED BY <2>2, Bounds
  <2> QED BY <1>1, <2>3 DEF QueueAt
<1>4. AbsQueue = [i \in 1 .. Count |-> QueueAt(i)]
  BY DEF AbsQueue, QueueAt
<1> HIDE DEF QueueAt
<1> QED BY <1>2, <1>3, <1>4

(* The initial ring is the empty queue. *)
LEMMA RefInit == Init => Abs!Init
<1> SUFFICES ASSUME Init PROVE Abs!Init
  OBVIOUS
<1>1. IInv
  BY InvInit
<1>2. Count = 0
  BY <1>1, UsedSlotsValue DEF Count, Init, IInv, TypeOK
<1>3. AbsQueue = <<>>
  BY <1>1, <1>2, AbsQueueFacts
<1> QED BY <1>3 DEF Init, Abs!Init, Abs!OK

(* A step that moves neither index nor a queued element keeps the queue. *)
LEMMA QueueKept ==
  ASSUME in' = in, out' = out,
         \A i \in 1 .. Count : (QueueAt(i))' = QueueAt(i)
  PROVE  AbsQueue' = AbsQueue
<1>1. Count' = Count
  BY DEF Count
<1>2. AbsQueue = [i \in 1 .. Count |-> QueueAt(i)]
  BY DEF AbsQueue, QueueAt
<1>3. AbsQueue' = [i \in 1 .. Count' |-> (QueueAt(i))']
  BY DEF AbsQueue, QueueAt
<1> HIDE DEF QueueAt
<1> QED BY <1>1, <1>2, <1>3

(* Every step of the ring is a step of the abstract queue or leaves it as   *)
(* it is.                                                                   *)
LEMMA RefStep == IInv /\ IInv' /\ [Next]_vars => [Abs!Next]_(Abs!abstractVars)
<1> SUFFICES ASSUME IInv, IInv', [Next]_vars
             PROVE  [Abs!Next]_(Abs!abstractVars)
  OBVIOUS
<1>1. /\ TypeOK
      /\ Count \in Nat /\ Count <= Size
      /\ Len(AbsQueue) = Count /\ AbsQueue \in Seq(Elements \cup {NoElem})
      /\ in \in Index /\ out \in Index /\ Size \in Nat \ {0}
  BY AbsQueueFacts, Bounds DEF IInv, TypeOK, RingInv, NeverOverfull
<1> USE DEF Abs!abstractVars, Abs!Next, Abs!Put, Abs!PutFull, Abs!Get,
            Abs!GetEmpty, Abs!OK, Abs!FAIL
<1>2. ASSUME NEW e \in Elements, PutBegin(e)
      PROVE  [Abs!Next]_(Abs!abstractVars)
  <2>1. AbsQueue' = AbsQueue
    BY <1>2, QueueKept DEF PutBegin, shared, QueueAt
  <2>2. FreeSlots(in, out) = Size - Count
    BY <1>1, FreeSlotsValue DEF Count
  <2>3. FreeSlots(in, out) \in Nat
    BY <1>1, CountsAreNat
  <2>4. CASE plen' = 0
    <3>1. Count = Size
      BY <1>1, <1>2, <2>2, <2>3, <2>4, FifoMinOne DEF PutBegin
    <3>2. Abs!PutFull
      BY <1>1, <1>2, <2>1, <2>4, <3>1 DEF PutBegin, shared, getVars
    <3> QED BY <3>2
  <2>5. CASE plen' = 1
    BY <1>2, <2>1, <2>5 DEF PutBegin, shared, getVars
  <2> QED BY <2>4, <2>5 DEF IInv, TypeOK
<1>3. CASE PutCopy
  <2>1. AbsQueue' = AbsQueue
    <3>1. in' = in /\ out' = out
      BY <1>3 DEF PutCopy
    <3>2. ASSUME NEW i \in 1 .. Count PROVE (QueueAt(i))' = QueueAt(i)
      <4> DEFINE x == SlotOf((out + (i - 1)) % IndexMod)
      <4>1. x \in Slots /\ SlotOf(in) \in Slots
        <5>1. out + (i - 1) \in Int /\ in \in Nat
          BY <1>1, <3>2, Bounds DEF Index
        <5>2. (out + (i - 1)) % IndexMod \in Index
          BY <5>1, Bounds
        <5>3. (out + (i - 1)) % IndexMod \in Nat
          BY <5>2, Bounds DEF Index
        <5> QED BY <5>1, <5>3, Bounds
      <4>2. FifoMin(plen, Size - SlotOf(in)) = plen
        BY <1>1, <4>1, Len2IsLen DEF TypeOK
      <4>3. plen = 1 => x # SlotOf(in)
        <5> SUFFICES ASSUME plen = 1 PROVE x # SlotOf(in)
          OBVIOUS
        <5>1. Count < Size
          BY <1>3 DEF PutCopy, IInv, RingInv, PutReserved
        <5>2. i - 1 \in 0 .. Count - 1
          BY <1>1, <3>2
        <5> QED BY <1>1, <5>1, <5>2, PutSlotIsFree
      <4>4. buffer'[x] = buffer[x]
        <5> HIDE DEF x
        <5> QED BY <1>1, <1>3, <4>1, <4>2, <4>3 DEF PutCopy, TypeOK
      <4> QED BY <3>1, <4>4 DEF QueueAt
    <3> QED BY <3>1, <3>2, QueueKept
  <2> QED BY <1>3, <2>1 DEF PutCopy, getVars
<1>4. CASE PutPublish
  <2>1. CASE plen = 0
    <3>1. in' = in /\ out' = out /\ buffer' = buffer
      BY <1>1, <1>4, <2>1, IndexPlusZero DEF PutPublish
    <3>2. AbsQueue' = AbsQueue
      BY <3>1, QueueKept DEF QueueAt
    <3> QED BY <1>4, <2>1, <3>2 DEF PutPublish, getVars
  <2>2. CASE plen = 1
    <3>1. Count < Size /\ pelem \in Elements /\ buffer[SlotOf(in)] = pelem
      BY <1>4, <2>2 DEF PutPublish, IInv, RingInv, PutReserved, PutCopied, PutHasElement
    <3>2. Count' = Count + 1
      BY <1>1, <1>4, <2>2, <3>1, AdvanceIn DEF PutPublish, Count
    <3>3. out' = out /\ buffer' = buffer
      BY <1>4 DEF PutPublish
    <3>4. QueueAt(Count + 1) = pelem
      <4>1. (Count + 1) - 1 = Count
        BY <1>1
      <4> QED BY <1>1, <3>1, <4>1, InIsOutPlusCount DEF QueueAt
    <3>5. AbsQueue' = [i \in 1 .. Count + 1 |-> QueueAt(i)]
      BY <3>2, <3>3 DEF AbsQueue, QueueAt
    <3>6. AbsQueue = [i \in 1 .. Count |-> QueueAt(i)]
      BY DEF AbsQueue, QueueAt
    <3>7. AbsQueue' = Append(AbsQueue, pelem)
      <4> HIDE DEF QueueAt
      <4> QED BY <1>1, <3>1, <3>4, <3>5, <3>6
    <3>8. Abs!Put(pelem)
      BY <1>1, <1>4, <2>2, <3>1, <3>7 DEF PutPublish, getVars
    <3> QED BY <3>1, <3>8
  <2> QED BY <2>1, <2>2, <1>1 DEF TypeOK
<1>5. CASE GetBegin
  <2>1. AbsQueue' = AbsQueue
    BY <1>5, QueueKept DEF GetBegin, shared, QueueAt
  <2>2. CASE clen' = 0
    <3>1. Count = 0
      BY <1>1, <1>5, <2>2, FifoMinOne DEF GetBegin, Count
    <3>2. AbsQueue = <<>>
      BY <1>1, <3>1
    <3>3. Abs!GetEmpty
      BY <1>5, <2>1, <2>2, <3>2 DEF GetBegin, shared, putVars
    <3> QED BY <3>3
  <2>3. CASE clen' = 1
    BY <1>5, <2>1, <2>3 DEF GetBegin, shared, putVars
  <2> QED BY <2>2, <2>3 DEF IInv, TypeOK
<1>6. CASE GetCopy
  <2>1. AbsQueue' = AbsQueue
    BY <1>6, QueueKept DEF GetCopy, shared, QueueAt
  <2> QED BY <1>6, <2>1 DEF GetCopy, shared, putVars
<1>7. CASE GetPublish
  <2>1. CASE clen = 0
    <3>1. in' = in /\ out' = out /\ buffer' = buffer
      BY <1>1, <1>7, <2>1, IndexPlusZero DEF GetPublish
    <3>2. AbsQueue' = AbsQueue
      BY <3>1, QueueKept DEF QueueAt
    <3> QED BY <1>7, <2>1, <3>2 DEF GetPublish, putVars
  <2>2. CASE clen = 1
    <3>1. Count > 0 /\ celem = buffer[SlotOf(out)]
      BY <1>7, <2>2 DEF GetPublish, IInv, RingInv, GetReserved, GetCopied
    <3>2. Count' = Count - 1 /\ out' = (out + 1) % IndexMod /\ out' \in Index
      BY <1>1, <1>7, <2>2, <3>1, AdvanceOut DEF GetPublish, Count
    <3>3. in' = in /\ buffer' = buffer
      BY <1>7 DEF GetPublish
    <3>4. QueueAt(1) = celem
      <4>1. out + (1 - 1) = out + 0
        OBVIOUS
      <4>2. (out + (1 - 1)) % IndexMod = out
        BY <1>1, <4>1, IndexPlusZero
      <4> QED BY <3>1, <4>2 DEF QueueAt
    <3>5. ASSUME NEW i \in 1 .. Count - 1
          PROVE  (QueueAt(i))' = QueueAt(i + 1)
      <4>1. i - 1 \in 0 .. Size /\ (i + 1) - 1 \in 0 .. Size /\ 1 \in 0 .. Size
        BY <1>1, <3>5
      <4>2. SlotOf((out' + (i - 1)) % IndexMod) = SlotOf(out' + (i - 1))
        BY <3>2, <4>1, SlotOfWrap
      <4>3. SlotOf((out + ((i + 1) - 1)) % IndexMod) = SlotOf(out + ((i + 1) - 1))
        BY <1>1, <4>1, SlotOfWrap
      <4>4. SlotOf(out' + (i - 1)) = SlotOf(out + ((i + 1) - 1))
        <5>1. out' = IF out + 1 < IndexMod THEN out + 1 ELSE out + 1 - IndexMod
          BY <1>1, <3>2, WrapNext
        <5>2. CASE out + 1 < IndexMod
          <6>1. out' + (i - 1) = out + ((i + 1) - 1)
            BY <1>1, <3>5, <5>1, <5>2 DEF Index
          <6> QED BY <6>1
        <5>3. CASE out + 1 >= IndexMod
          <6>1. out' = 0 /\ out + 1 = IndexMod
            BY <1>1, <5>1, <5>3, Bounds DEF Index
          <6>2. out + ((i + 1) - 1) = IndexMod + (i - 1)
            BY <1>1, <3>5, <6>1, Bounds DEF Index
          <6>3. (out + ((i + 1) - 1)) % IndexMod = i - 1
            <7> DEFINE a == IndexMod + (i - 1)
            <7>1. a \in Int /\ -IndexMod <= a /\ a < 2 * IndexMod /\ ~(a < 0) /\ ~(a < IndexMod)
              BY <1>1, <3>5, Bounds, IndexRoom
            <7>2. a % IndexMod = a - IndexMod
              <8> HIDE DEF a
              <8> QED BY <7>1, Bounds, ModOnce
            <7>3. a - IndexMod = i - 1
              BY <3>5, Bounds
            <7> QED BY <6>2, <7>2, <7>3
          <6>4. out' + (i - 1) = i - 1
            BY <6>1, <3>5
          <6> QED BY <6>3, <6>4, <4>3
        <5> QED BY <1>1, <5>2, <5>3, Bounds DEF Index
      <4> QED BY <3>3, <4>2, <4>3, <4>4 DEF QueueAt
    <3>6. AbsQueue = [i \in 1 .. Count |-> QueueAt(i)]
      BY DEF AbsQueue, QueueAt
    <3>7. AbsQueue' = [i \in 1 .. Count - 1 |-> (QueueAt(i))']
      BY <3>2 DEF AbsQueue, QueueAt
    <3>8. AbsQueue' = [i \in 1 .. Count - 1 |-> QueueAt(i + 1)]
      <4> HIDE DEF QueueAt
      <4> QED BY <3>5, <3>7
    <3>9. AbsQueue # <<>> /\ Head(AbsQueue) = celem /\ Tail(AbsQueue) = AbsQueue'
      <4> HIDE DEF QueueAt
      <4>1. Len(AbsQueue) > 0
        BY <1>1, <3>1
      <4>2. Head(AbsQueue) = AbsQueue[1]
        BY <1>1, <4>1
      <4>3. /\ Tail(AbsQueue) \in Seq(Elements \cup {NoElem})
            /\ Len(Tail(AbsQueue)) = Count - 1
            /\ \A i \in 1 .. Count - 1 : Tail(AbsQueue)[i] = AbsQueue[i + 1]
        BY <1>1, <4>1, HeadTailProperties
      <4>4. AbsQueue[1] = celem
        BY <1>1, <3>1, <3>4, <3>6
      <4>5. \A i \in 1 .. Count - 1 : AbsQueue[i + 1] = QueueAt(i + 1)
        BY <1>1, <3>6
      <4>6. /\ AbsQueue' \in Seq(Elements \cup {NoElem})
            /\ Len(AbsQueue') = Count - 1
        <5>1. \A i \in 1 .. Count - 1 : QueueAt(i + 1) \in Elements \cup {NoElem}
          BY <1>1, AbsQueueFacts
        <5> QED BY <1>1, <3>1, <3>8, <5>1
      <4>7. \A i \in 1 .. Count - 1 : AbsQueue'[i] = Tail(AbsQueue)[i]
        BY <3>8, <4>3, <4>5
      <4>8. Tail(AbsQueue) = AbsQueue'
        BY <4>3, <4>6, <4>7, SeqEqual
      <4> QED BY <4>1, <4>2, <4>4, <4>8
    <3>10. Abs!Get
      BY <1>7, <2>2, <3>9 DEF GetPublish, putVars
    <3> QED BY <3>10
  <2> QED BY <2>1, <2>2, <1>1 DEF TypeOK
<1>8. CASE UNCHANGED vars
  <2>1. AbsQueue' = AbsQueue
    BY <1>8, QueueKept DEF vars, QueueAt
  <2> QED BY <1>8, <2>1 DEF vars
<1> QED BY <1>2, <1>3, <1>4, <1>5, <1>6, <1>7, <1>8 DEF Next, FifoPut, FifoGet

(* The lock-free ring of fifo.c implements the bounded first-in first-out   *)
(* queue for every size and index width: no element is lost, duplicated,    *)
(* reordered or delivered before it is written, across every wrap.          *)
THEOREM FifoImplementsQueue == Spec => ImplementsQueue
<1>1. Init => Abs!Init
  BY RefInit
<1>2. IInv /\ IInv' /\ [Next]_vars => [Abs!Next]_(Abs!abstractVars)
  BY RefStep
<1>3. Spec => []IInv
  BY InvHolds
<1> QED BY <1>1, <1>2, <1>3, PTL DEF Spec, ImplementsQueue, Abs!Spec
===========================================================================
