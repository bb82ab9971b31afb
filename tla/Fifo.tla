------------------------------- MODULE Fifo -------------------------------
(***************************************************************************)
(* The lock-free ring of src/lib/fifo/fifo.c that every probe thread uses   *)
(* to hand lines to the ingress thread, and the ingress thread to hand      *)
(* messages to the egress thread.  One thread puts, one thread gets.  Each  *)
(* call is split at its two memory barriers (__sync_synchronize): the read  *)
(* of both indices, the copy of the element, and the update of the call's   *)
(* own index are three steps that interleave with the other thread's.       *)
(*                                                                          *)
(* The indices are uint32_t and are never reduced to a slot number: they    *)
(* run through 0 .. IndexMod-1 (2^32 in the code) and wrap around.          *)
(***************************************************************************)
EXTENDS Integers, Sequences

CONSTANTS
  Size,       \* fifo->size
  IndexMod,   \* the number of values of the type of fifo->in and fifo->out
  Elements,   \* the pointers callers put
  NoElem      \* what the zeroed buffer holds

(***************************************************************************)
(* FifoCreate refuses a size that is not a power of two, so the size        *)
(* divides 2^32 and `index & (size - 1)' is the index modulo the size.  The *)
(* proofs need only the divisibility.                                       *)
(***************************************************************************)
ASSUME SizeAssumption == Size \in Nat \ {0}
ASSUME IndexAssumption ==
  /\ IndexMod \in Nat \ {0}
  /\ \E k \in 2 .. IndexMod : IndexMod = Size * k
ASSUME ElementsAssumption == NoElem \notin Elements

VARIABLES
  in, out, buffer,        \* the shared struct
  ppc, plen, pelem, pret, \* FifoPut: where it is, len, element, last return
  cpc, clen, celem, cret, \* FifoGet: where it is, len, *elements, last return
  got                     \* what the caller of FifoGet received last

shared == <<in, out, buffer>>
putVars == <<ppc, plen, pelem, pret>>
getVars == <<cpc, clen, celem, cret, got>>
vars == <<in, out, buffer, ppc, plen, pelem, pret, cpc, clen, celem, cret, got>>

Slots == 0 .. Size - 1
Index == 0 .. IndexMod - 1

(* `index & (size - 1)' *)
SlotOf(i) == i % Size

(* uint32_t FifoMin(uint32_t x1, uint32_t x2) *)
FifoMin(x1, x2) == IF x1 < x2 THEN x1 ELSE x2

(* fifo->size - fifo->in + fifo->out and fifo->in - fifo->out, in uint32_t *)
\* An off-by-one in the free count, and a used count that forgets the wrap.
MutFreeSlots(i, o) == (Size + 1 - i + o) % IndexMod
FreeSlots(i, o) == (Size - i + o) % IndexMod
MutUsedSlots(i, o) == IF i < o THEN 0 ELSE i - o
UsedSlots(i, o) == (i - o) % IndexMod

-----------------------------------------------------------------------------
(* FifoCreate: everything zeroed. *)
Init ==
  /\ in = 0 /\ out = 0
  /\ buffer = [s \in Slots |-> NoElem]
  /\ ppc = "idle" /\ plen = 0 /\ pelem = NoElem /\ pret = 0
  /\ cpc = "idle" /\ clen = 0 /\ celem = NoElem /\ cret = 0
  /\ got = NoElem

(* FifoPut up to the first barrier. *)
PutBegin(e) ==
  /\ ppc = "idle"
  /\ plen' = FifoMin(1, FreeSlots(in, out))
  /\ pelem' = e
  /\ ppc' = "copy"
  /\ UNCHANGED <<pret, shared, getVars>>

(* FifoPut whose copy does not depend on len. *)
MutPutCopy ==
  /\ ppc = "copy"
  /\ buffer' = [buffer EXCEPT ![SlotOf(in)] = pelem]
  /\ ppc' = "publish"
  /\ UNCHANGED <<plen, pelem, pret, in, out, getVars>>

(* The two memcpy of FifoPut: len2 elements at the slot of in, the rest of  *)
(* the len elements at the start of the buffer.                             *)
PutCopy ==
  /\ ppc = "copy"
  /\ LET len2 == FifoMin(plen, Size - SlotOf(in))
         written == { s \in Slots : \/ s = SlotOf(in) /\ len2 = 1
                                    \/ s = 0 /\ plen - len2 = 1 }
     IN buffer' = [s \in Slots |-> IF s \in written THEN pelem ELSE buffer[s]]
  /\ ppc' = "publish"
  /\ UNCHANGED <<plen, pelem, pret, in, out, getVars>>

(* An index that is not cut to its width. *)
MutPutPublish ==
  /\ ppc = "publish"
  /\ in' = in + plen
  /\ pret' = (IF plen = 0 THEN -1 ELSE 0)
  /\ ppc' = "idle"
  /\ UNCHANGED <<plen, pelem, out, buffer, getVars>>

(* After the second barrier: in += len, and the return. *)
PutPublish ==
  /\ ppc = "publish"
  /\ in' = (in + plen) % IndexMod
  /\ pret' = (IF plen = 0 THEN -1 ELSE 0)
  /\ ppc' = "idle"
  /\ UNCHANGED <<plen, pelem, out, buffer, getVars>>

(* FifoGet up to the first barrier. *)
GetBegin ==
  /\ cpc = "idle"
  /\ clen' = FifoMin(1, UsedSlots(in, out))
  /\ cpc' = "copy"
  /\ UNCHANGED <<celem, cret, got, shared, putVars>>

(* The two memcpy of FifoGet: *elements keeps its value when len is 0. *)
GetCopy ==
  /\ cpc = "copy"
  /\ LET len2 == FifoMin(clen, Size - SlotOf(out))
     IN celem' = IF clen - len2 = 1 THEN buffer[0]
                 ELSE IF len2 = 1 THEN buffer[SlotOf(out)]
                 ELSE celem
  /\ cpc' = "publish"
  /\ UNCHANGED <<clen, cret, got, shared, putVars>>

(* out += len, and the return: the caller looks at *elements only after 0. *)
GetPublish ==
  /\ cpc = "publish"
  /\ out' = (out + clen) % IndexMod
  /\ cret' = (IF clen = 0 THEN -1 ELSE 0)
  /\ got' = (IF clen = 0 THEN got ELSE celem)
  /\ cpc' = "idle"
  /\ UNCHANGED <<clen, celem, in, buffer, putVars>>

FifoPut == (\E e \in Elements : PutBegin(e)) \/ PutCopy \/ PutPublish
FifoGet == GetBegin \/ GetCopy \/ GetPublish

Next == FifoPut \/ FifoGet

Spec == Init /\ [][Next]_vars

(***************************************************************************)
(* The thread that gets keeps running; the thread that puts may stop for    *)
(* good between two calls, and while it is inside a call it is scheduled.   *)
(***************************************************************************)
Fairness ==
  /\ WF_vars(GetBegin) /\ WF_vars(GetCopy) /\ WF_vars(GetPublish)
  /\ WF_vars(PutCopy) /\ WF_vars(PutPublish)

FairSpec == Spec /\ Fairness

-----------------------------------------------------------------------------
(* Every variable has the type of its C counterpart. *)
TypeOK ==
  /\ in \in Index /\ out \in Index
  /\ buffer \in [Slots -> Elements \cup {NoElem}]
  /\ ppc \in {"idle", "copy", "publish"} /\ cpc \in {"idle", "copy", "publish"}
  /\ plen \in {0, 1} /\ clen \in {0, 1}
  /\ pelem \in Elements \cup {NoElem} /\ celem \in Elements \cup {NoElem}
  /\ got \in Elements \cup {NoElem}
  /\ pret \in {0, -1} /\ cret \in {0, -1}

(* The number of elements in the ring, whatever the indices have wrapped to. *)
Count == UsedSlots(in, out)

(* Across every wrap of the 32-bit indices the ring never holds more than   *)
(* fifo->size elements, so FifoPut's unsigned `size - in + out' never       *)
(* passes below zero.                                                       *)
NeverOverfull == Count <= Size

(***************************************************************************)
(* The two threads never touch the same slot at the same time: while        *)
(* FifoPut is about to copy into a slot, FifoGet is not about to read it.   *)
(* The code has no lock to ensure it, only the index arithmetic.            *)
(***************************************************************************)
NoSlotConflict ==
  (ppc = "copy" /\ plen = 1 /\ cpc = "copy" /\ clen = 1) => SlotOf(in) # SlotOf(out)

(* What each thread relies on between its barriers: the other thread's      *)
(* steps cannot take away the room, or the element, it has seen.            *)
PutReserved == (ppc # "idle" /\ plen = 1) => Count < Size
GetReserved == (cpc # "idle" /\ clen = 1) => Count > 0
PutCopied == (ppc = "publish" /\ plen = 1) => buffer[SlotOf(in)] = pelem
GetCopied == (cpc = "publish" /\ clen = 1) => celem = buffer[SlotOf(out)]

RingInv == NeverOverfull /\ PutReserved /\ GetReserved /\ PutCopied /\ GetCopied

(***************************************************************************)
(* The abstract queue the ring implements.  A failing call takes effect     *)
(* when it compares the indices, a successful one when it moves its index.  *)
(***************************************************************************)
AbsQueue == [i \in 1 .. Count |-> buffer[SlotOf((out + (i - 1)) % IndexMod)]]

Abs == INSTANCE BoundedQueue WITH
  Capacity <- Size,
  queue <- AbsQueue,
  putRet <- IF ppc # "idle" /\ plen = 0 THEN -1 ELSE pret,
  getRet <- IF cpc # "idle" /\ clen = 0 THEN -1 ELSE cret,
  got <- got

(* The ring implements the bounded first-in first-out queue: no element is  *)
(* lost, duplicated, reordered or read before it is written.                *)
ImplementsQueue == Abs!Spec

(* A non-empty ring does not stay as it is: the thread that drains it in a  *)
(* FifoGet loop moves out, whatever the producer does.                      *)
DrainProgress == \A i \in Index : (Count > 0 /\ out = i) ~> (out # i)
===========================================================================
