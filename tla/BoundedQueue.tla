--------------------------- MODULE BoundedQueue ---------------------------
(***************************************************************************)
(* What src/lib/fifo promises its callers: a first-in first-out queue of at *)
(* most Capacity elements between one thread that puts and one thread that  *)
(* gets.  A put or a get takes effect at one instant: it either succeeds    *)
(* (return value 0) or finds the queue full, respectively empty (-1), and   *)
(* then changes nothing but the return value.                               *)
(***************************************************************************)
EXTENDS Integers, Sequences

CONSTANTS Capacity, Elements, NoElem

VARIABLES
  queue,     \* the elements between the two threads, oldest first
  putRet,    \* what the last FifoPut returned
  getRet,    \* what the last FifoGet returned
  got        \* what the last successful FifoGet delivered

abstractVars == <<queue, putRet, getRet, got>>

OK == 0
FAIL == -1

Init ==
  /\ queue = <<>>
  /\ putRet = OK
  /\ getRet = OK
  /\ got = NoElem

Put(e) ==
  /\ Len(queue) < Capacity
  /\ queue' = Append(queue, e)
  /\ putRet' = OK
  /\ UNCHANGED <<getRet, got>>

PutFull ==
  /\ Len(queue) = Capacity
  /\ putRet' = FAIL
  /\ UNCHANGED <<queue, getRet, got>>

Get ==
  /\ queue # <<>>
  /\ got' = Head(queue)
  /\ queue' = Tail(queue)
  /\ getRet' = OK
  /\ UNCHANGED putRet

GetEmpty ==
  /\ queue = <<>>
  /\ getRet' = FAIL
  /\ UNCHANGED <<queue, putRet, got>>

Next ==
  \/ \E e \in Elements : Put(e)
  \/ PutFull
  \/ Get
  \/ GetEmpty

Spec == Init /\ [][Next]_abstractVars
===========================================================================
