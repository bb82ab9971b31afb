------------------------- MODULE ProbeConfigProofs -------------------------
(***************************************************************************)
(* For every machine, lists of configurations, parameters, limit of objects *)
(* and number of steps: a refused request changes nothing, no process that  *)
(* ended stays observed, what is asked for is observed, and the process of  *)
(* a careful user has the configuration of the daemon.                      *)
(*                                                                          *)
(* The argument has four invariants. RollbackInv: while a request is in     *)
(* progress, every part of the configuration is what the request found, or  *)
(* its item is parsed and the backup is. ObservedInv, with MapInv: a        *)
(* process that is observed is alive, or its exit is among the events to    *)
(* come, or it is a zombie that a refresh found after its exit was handled, *)
(* and the map of pods and containers follows from the containers there     *)
(* were and the events to come. SeenInv: a process that is alive and asked  *)
(* for is observed, or its exec is among the events to come, or it was      *)
(* forked since the refresh, or objects were left out for want of room; the *)
(* same holds of what a rollback would restore. CarefulInv: unless a        *)
(* message was lost, the queue holds plain messages only, and the process   *)
(* has the configuration or the last of them will give it.                  *)
(***************************************************************************)
EXTENDS ProbeConfig, SnooperProofs

(* What a rollback would restore now. *)
RolledBack ==
  [cmd |-> Restored("cmd", backup.cmd, cmd),
   confs |-> Restored("snoopers", backup.confs, confs),
   objs |-> Restored("snoopers", backup.objs, objs),
   params |-> Restored("params", backup.params, params)]

BackupType ==
  backup = [cmd |-> backup.cmd, confs |-> backup.confs, objs |-> backup.objs,
            params |-> backup.params, cut |-> backup.cut, ghosts |-> backup.ghosts,
            quiet |-> backup.quiet]

(* No item is parsed twice: its bit is clear until its turn. *)
NotYetParsed ==
  /\ mpc = "cmd" => parsed = {}
  /\ mpc = "snoopers" => parsed \subseteq {"cmd"}
  /\ mpc = "params" => parsed \subseteq {"cmd", "snoopers"}

(* The inductive strengthening: during a request a rollback would restore   *)
(* what the request found.                                                  *)
RollbackInv ==
  /\ mpc \in {"idle", "cmd", "snoopers", "params", "state", "join", "modify", "rollback"}
  /\ BackupType
  /\ mpc # "idle" => before = RolledBack /\ NotYetParsed

(* No request is in progress at the start. *)
LEMMA InitRollbackInv == Init => RollbackInv
  BY DEF Init, RollbackInv, BackupType, ZeroBackup

(* Steps that leave the request and the configuration alone. *)
LEMMA KeepsRollbackInv ==
  ASSUME RollbackInv, UNCHANGED <<parseVars, cmd, params, confs, objs>>
  PROVE  RollbackInv'
  BY DEF RollbackInv, BackupType, NotYetParsed, RolledBack, Restored, parseVars

(* Outside a request the configuration is free to change. *)
LEMMA IdleRollbackInv ==
  ASSUME RollbackInv, mpc = "idle", UNCHANGED parseVars
  PROVE  RollbackInv'
  BY DEF RollbackInv, BackupType, parseVars

(* Every step keeps what a rollback restores. *)
LEMMA NextRollbackInv ==
  ASSUME RollbackInv, [Next]_vars
  PROVE  RollbackInv'
<1> USE DEF RollbackInv
<1>1. CASE RequestBegin
  <2>1. mpc' = "cmd" /\ parsed' = {} /\ backup' = ZeroBackup /\ before' = Config
    BY <1>1 DEF RequestBegin
  <2>2. UNCHANGED <<cmd, params, confs, objs>>
    BY <1>1 DEF RequestBegin, snooperVars
  <2> QED
    BY <2>1, <2>2 DEF BackupType, ZeroBackup, Config, RolledBack, Restored, NotYetParsed
<1>2. CASE ItemAbsent
  <2>1. UNCHANGED <<backup, parsed, before, cmd, params, confs, objs>>
    BY <1>2 DEF ItemAbsent, snooperVars
  <2>2. mpc \in {"cmd", "snoopers", "params", "state"} /\ mpc' = NextItem[mpc]
    BY <1>2 DEF ItemAbsent
  <2>3. before = RolledBack /\ NotYetParsed
    BY <2>2
  <2>4. NotYetParsed' /\ mpc' \in {"snoopers", "params", "state", "modify"}
    BY <2>1, <2>2, <2>3 DEF NotYetParsed, NextItem
  <2> QED
    BY <2>1, <2>3, <2>4 DEF BackupType, RolledBack, Restored
<1>3. ASSUME NEW r \in Ranges, NEW ok \in BOOLEAN, ParseCmd(r, ok)
      PROVE RollbackInv'
  <2>1. mpc = "cmd" /\ parsed' = parsed \cup {"cmd"} /\ mpc' \in {"snoopers", "rollback"}
    BY <1>3 DEF ParseCmd, ItemParsed, NextItem
  <2>2. backup' = [backup EXCEPT !.cmd = cmd] /\ UNCHANGED <<before, params, confs, objs>>
    BY <1>3 DEF ParseCmd, ItemParsed, snooperVars
  <2> QED
    BY <2>1, <2>2 DEF BackupType, RolledBack, Restored, NotYetParsed
<1>4. ASSUME NEW l \in ConfLists, ParseSnoopers(l)
      PROVE RollbackInv'
  <2>1. mpc = "snoopers" /\ parsed' = parsed \cup {"snoopers"} /\ mpc' \in {"params", "rollback"}
    BY <1>4 DEF ParseSnoopers, ItemParsed, NextItem
  <2>2. backup' = [backup EXCEPT !.confs = confs, !.objs = objs,
                                  !.cut = cut, !.ghosts = ghosts, !.quiet = quiet]
          /\ UNCHANGED <<before, cmd, params>>
    BY <1>4 DEF ParseSnoopers, ItemParsed
  <2> QED
    BY <2>1, <2>2 DEF BackupType, RolledBack, Restored, NotYetParsed
<1>5. ASSUME NEW p \in Params, NEW ok \in BOOLEAN, ParseParams(p, ok)
      PROVE RollbackInv'
  <2>1. mpc = "params" /\ parsed' = parsed \cup {"params"} /\ mpc' \in {"state", "rollback"}
    BY <1>5 DEF ParseParams, ItemParsed, NextItem
  <2>2. backup' = [backup EXCEPT !.params = params] /\ UNCHANGED <<before, cmd, confs, objs>>
    BY <1>5 DEF ParseParams, ItemParsed, snooperVars
  <2> QED
    BY <2>1, <2>2 DEF BackupType, RolledBack, Restored, NotYetParsed
<1>6. CASE (\E ready \in BOOLEAN : StartProbe(ready)) \/ StopIdle \/ StopProbe \/ StopHangs
           \/ StopFails \/ BadState \/ StopJoined
  <2>1. /\ mpc \in {"state", "join"} /\ parsed' \in {parsed \cup {"state"}, parsed}
        /\ mpc' \in {"join", "modify", "rollback"}
    BY <1>6 DEF StartProbe, StopIdle, StopProbe, StopHangs, StopFails, BadState, StopJoined,
                ItemParsed, NextItem
  <2>2. UNCHANGED <<backup, before, cmd, params, confs, objs>>
    BY <1>6 DEF StartProbe, StopIdle, StopProbe, StopHangs, StopFails, BadState, StopJoined,
                ItemParsed, snooperVars
  <2> QED
    BY <2>1, <2>2 DEF BackupType, RolledBack, Restored, NotYetParsed
<1>7. CASE RollbackProbe \/ RequestEnd
  BY <1>7 DEF RollbackProbe, RequestEnd, RequestDone, BackupType, ZeroBackup
<1>8. CASE RcvProcEvt \/ RcvCgrpEvtLocked \/ KeepliveProbe \/ Machine
  <2>1. mpc = "idle" /\ UNCHANGED parseVars
    BY <1>8 DEF RcvProcEvt, RcvCgrpEvtLocked, KeepliveProbe, Machine
  <2> QED
    BY <2>1, IdleRollbackInv
<1>9. CASE RcvCgrpEvtUnlocked \/ RecvIpcMsg \/ Death \/ UNCHANGED vars
  <2>1. UNCHANGED <<parseVars, cmd, params, confs, objs>>
    BY <1>9 DEF RcvCgrpEvtUnlocked, RcvCgrpEvt, RecvIpcMsg, Death, vars, snooperVars
  <2> QED
    BY <2>1, KeepsRollbackInv
<1> QED
  BY <1>1, <1>2, <1>3, <1>4, <1>5, <1>6, <1>7, <1>8, <1>9 DEF Next

(* What is rolled back is what the request found. *)
LEMMA RollbackRestores ==
  ASSUME RollbackInv, [Next]_vars
  PROVE  mpc = "rollback" /\ mpc' = "idle" => Config' = before
<1> SUFFICES ASSUME mpc = "rollback", mpc' = "idle"
             PROVE  Config' = before
  OBVIOUS
<1>1. RollbackProbe
  BY DEF Next, vars, parseVars, RequestBegin, ItemAbsent, ParseCmd, ParseSnoopers, ParseParams,
     ItemParsed, StartProbe, StopIdle, StopProbe, StopHangs, StopJoined, StopFails, BadState,
     RequestEnd, RcvProcEvt, RcvCgrpEvtLocked, RcvCgrpEvtUnlocked, KeepliveProbe, RecvIpcMsg,
     Death, Machine
<1> QED
  BY <1>1 DEF RollbackInv, RolledBack, RollbackProbe, Config

(* A refused request leaves cmd, snoopers, objects and params as it found   *)
(* them (parse_probe_json with rollback_probe, probe_mng.c:775-792,         *)
(* 948-1017).                                                               *)
THEOREM RollbackExact == Spec => RollbackIsExact
<1>1. Spec => []RollbackInv
  BY InitRollbackInv, NextRollbackInv, PTL DEF Spec
<1> QED
  BY <1>1, RollbackRestores, PTL DEF Spec, RollbackIsExact

-----------------------------------------------------------------------------
(* Which processes are observed. *)

ExecOf(p) == [event |-> "EXEC", pid |-> p]
ExitOf(p) == [event |-> "EXIT", pid |-> p]

(* An event a is still to be handled, and no event b after it. *)
Pending(evts, a, b) ==
  \E k \in 1 .. Len(evts) : evts[k] = a /\ \A j \in k .. Len(evts) : evts[j] # b
Leaving(evts, p) == Pending(evts, ExitOf(p), ExecOf(p))
Entering(evts, p) == Pending(evts, ExecOf(p), ExitOf(p))

(* A dead process is observed only if it is named, a ghost or about to be    *)
(* removed.                                                                  *)
ObjsOK(cf, o, g) ==
  /\ cf \in Seq(Conf) /\ o \in [Obj -> Nat]
  /\ \A p \in Procs : o[ProcObj(p)] > 0 => p \in live \cup NamedIn(cf) \cup g \/ Leaving(procEvts, p)
  /\ cf = <<>> => ProcsOf(o) = {}

EventsOK ==
  \A p \in Procs : \A k \in 1 .. Len(procEvts) :
    procEvts[k] = ExecOf(p) /\ p \notin live => Leaving(procEvts, p)

(* What is missing in the objects that a rollback would restore. *)
RolledCut == Restored("snoopers", backup.cut, cut)
RolledGhosts == Restored("snoopers", backup.ghosts, ghosts)
RolledQuiet == Restored("snoopers", backup.quiet, quiet)

(* The types that the proofs need. *)
WeakTypes ==
  /\ live \subseteq Procs /\ zombies \subseteq Procs /\ podMap \in Maps
  /\ procEvts \in Seq(ProcEvent) /\ cgrpEvts \in Seq(CgrpEvent)
  /\ mapped # NoEvent => mapped \in CgrpEvent /\ mapped.con \in Containers
  /\ cmd \in Ranges \cup {NoCmd} /\ params \in Params

(* The strengthening: events on their way account for every dead process,    *)
(* for the objects in use and for those a rollback would restore.            *)
ObservedInv ==
  /\ WeakTypes
  /\ ObjsOK(confs, objs, ghosts)
  /\ mpc # "idle" => /\ ObjsOK(before.confs, before.objs, RolledGhosts)
                     /\ before.cmd \in Ranges \cup {NoCmd} /\ before.params \in Params
  /\ EventsOK

(* A request keeps what its rollback would restore. *)
LEMMA RolledKept ==
  ASSUME RollbackInv, [Next]_vars, mpc # "idle", mpc' # "idle"
  PROVE  UNCHANGED <<RolledCut, RolledGhosts, RolledQuiet>>
<1>1. ASSUME UNCHANGED <<cut, ghosts, quiet>>, "snoopers" \in parsed' <=> "snoopers" \in parsed,
             backup'.cut = backup.cut, backup'.ghosts = backup.ghosts, backup'.quiet = backup.quiet
      PROVE  UNCHANGED <<RolledCut, RolledGhosts, RolledQuiet>>
  BY <1>1 DEF RolledCut, RolledGhosts, RolledQuiet, Restored
<1>2. CASE (\E r \in Ranges, ok \in BOOLEAN : ParseCmd(r, ok))
           \/ (\E p \in Params, ok \in BOOLEAN : ParseParams(p, ok))
  <2>1. /\ UNCHANGED <<cut, ghosts, quiet>> /\ ("snoopers" \in parsed' <=> "snoopers" \in parsed)
        /\ (backup' = [backup EXCEPT !.cmd = cmd] \/ backup' = [backup EXCEPT !.params = params])
    BY <1>2 DEF ParseCmd, ParseParams, ItemParsed, snooperVars, gapVars
  <2> QED BY <1>1, <2>1 DEF RollbackInv, BackupType
<1>3. ASSUME NEW list \in ConfLists, ParseSnoopers(list)
      PROVE  UNCHANGED <<RolledCut, RolledGhosts, RolledQuiet>>
  <2>1. /\ mpc = "snoopers" /\ "snoopers" \in parsed'
        /\ backup' = [backup EXCEPT !.confs = confs, !.objs = objs,
                                    !.cut = cut, !.ghosts = ghosts, !.quiet = quiet]
    BY <1>3 DEF ParseSnoopers, ItemParsed
  <2>2. "snoopers" \notin parsed
    BY <2>1 DEF RollbackInv, NotYetParsed
  <2>3. backup'.cut = cut /\ backup'.ghosts = ghosts /\ backup'.quiet = quiet
    BY <2>1 DEF RollbackInv, BackupType
  <2> QED BY <2>1, <2>2, <2>3 DEF RolledCut, RolledGhosts, RolledQuiet, Restored
<1>4. CASE ItemAbsent \/ StopIdle \/ StopProbe \/ StopHangs \/ StopJoined \/ StopFails \/ BadState
           \/ (\E ready \in BOOLEAN : StartProbe(ready))
  <2>1. UNCHANGED <<cut, ghosts, quiet, backup>> /\ ("snoopers" \in parsed' <=> "snoopers" \in parsed)
    BY <1>4 DEF ItemAbsent, StopIdle, StopProbe, StopHangs, StopJoined, StopFails, BadState,
                StartProbe, ItemParsed, snooperVars, gapVars
  <2> QED BY <1>1, <2>1
<1>5. CASE RcvCgrpEvtUnlocked \/ RecvIpcMsg \/ Death \/ UNCHANGED vars
  <2>1. UNCHANGED <<cut, ghosts, quiet, backup, parsed>>
    BY <1>5 DEF RcvCgrpEvtUnlocked, RcvCgrpEvt, RecvIpcMsg, Death, vars, snooperVars, gapVars,
                parseVars
  <2> QED BY <1>1, <2>1
<1>6. ~(RequestBegin \/ RollbackProbe \/ RequestEnd \/ RcvProcEvt \/ RcvCgrpEvtLocked
        \/ KeepliveProbe \/ Machine)
  BY DEF RequestBegin, RollbackProbe, RequestEnd, RequestDone, RcvProcEvt, RcvCgrpEvtLocked,
         KeepliveProbe, Machine
<1> QED BY <1>2, <1>3, <1>4, <1>5, <1>6 DEF Next

(* Objects of processes. *)
LEMMA ProcObjFacts ==
  /\ \A p \in Procs : ProcObj(p) \in Obj
  /\ \A p, q : ProcObj(p) = ProcObj(q) => p = q
  /\ \A p, c : ProcObj(p) # ConObj(c)
BY DEF ProcObj, ConObj, Obj

(* Events of processes. *)
LEMMA EventFacts ==
  /\ \A p, q : (ExecOf(p) = ExecOf(q) \/ ExitOf(p) = ExitOf(q)) => p = q
  /\ \A p, q : ExecOf(p) # ExitOf(q)
  /\ \A e \in ProcEvent : /\ e.pid \in Procs
                          /\ e.event = "EXEC" => e = ExecOf(e.pid)
                          /\ e.event # "EXEC" => e = ExitOf(e.pid)
  /\ \A p \in Procs : ExecOf(p) \in ProcEvent /\ ExitOf(p) \in ProcEvent
BY DEF ExecOf, ExitOf, ProcEvent

(* A new event is pending, and others still are. *)
LEMMA PendingAppend ==
  ASSUME NEW evts \in Seq(ProcEvent), NEW e \in ProcEvent, NEW a, NEW b,
         Pending(evts, a, b) \/ e = a, e # b
  PROVE  Pending(Append(evts, e), a, b)
<1> DEFINE s == Append(evts, e)
<1>1. /\ Len(s) = Len(evts) + 1 /\ s[Len(evts) + 1] = e /\ Len(evts) \in Nat
      /\ \A i \in 1 .. Len(evts) : s[i] = evts[i]
  BY AppendProperties, LenProperties
<1> HIDE DEF s
<1>2. CASE e = a
  <2>1. Len(s) \in 1 .. Len(s) /\ \A j \in Len(s) .. Len(s) : j = Len(s)
    BY <1>1
  <2> QED BY <1>1, <1>2, <2>1 DEF Pending, s
<1>3. CASE Pending(evts, a, b)
  <2>1. PICK k \in 1 .. Len(evts) : evts[k] = a /\ \A j \in k .. Len(evts) : evts[j] # b
    BY <1>3 DEF Pending
  <2>2. k \in 1 .. Len(s) /\ s[k] = a
    BY <1>1, <2>1
  <2>3. \A j \in k .. Len(s) : (j \in k .. Len(evts) /\ j \in 1 .. Len(evts)) \/ j = Len(evts) + 1
    BY <1>1
  <2>4. \A j \in k .. Len(s) : s[j] # b
    BY <1>1, <2>1, <2>3
  <2>5. Pending(s, a, b)
    BY <2>2, <2>4 DEF Pending
  <2> QED BY <2>5 DEF s
<1> QED BY <1>2, <1>3

(* The first event is handled: what lies behind it is still pending. *)
LEMMA PendingTail ==
  ASSUME NEW evts \in Seq(ProcEvent), evts # <<>>, NEW a, NEW b, Pending(evts, a, b),
         Head(evts) = a => \E j \in 2 .. Len(evts) : evts[j] = b
  PROVE  Pending(Tail(evts), a, b)
<1>1. PICK k \in 1 .. Len(evts) : evts[k] = a /\ \A j \in k .. Len(evts) : evts[j] # b
  BY DEF Pending
<1> DEFINE t == Tail(evts)
<1>2. /\ Len(t) = Len(evts) - 1 /\ Head(evts) = evts[1] /\ Len(evts) \in Nat
      /\ \A i \in 1 .. Len(t) : t[i] = evts[i + 1]
  BY HeadTailProperties, LenProperties
<1> HIDE DEF t
<1>3. k # 1
  <2> SUFFICES ASSUME k = 1 PROVE FALSE
    OBVIOUS
  <2>1. PICK j \in 2 .. Len(evts) : evts[j] = b
    BY <1>1, <1>2
  <2>2. j \in k .. Len(evts)
    OBVIOUS
  <2> QED BY <1>1, <2>1, <2>2
<1>4. k - 1 \in 1 .. Len(t) /\ (k - 1) + 1 = k
  BY <1>2, <1>3
<1>5. t[k - 1] = a
  BY <1>1, <1>2, <1>4
<1>6. ASSUME NEW j \in k - 1 .. Len(t)
      PROVE  t[j] # b
  <2>1. j \in 1 .. Len(t) /\ j + 1 \in k .. Len(evts)
    BY <1>2, <1>4
  <2> QED BY <1>1, <1>2, <2>1
<1>7. Pending(t, a, b)
  BY <1>4, <1>5, <1>6 DEF Pending
<1> QED BY <1>7 DEF t

(* Removing an object removes all of its copies and nothing else. *)
LEMMA RemoveFacts ==
  ASSUME NEW o \in [Obj -> Nat], NEW x
  PROVE  /\ RemoveObj(o, x) \in [Obj -> Nat] /\ (x \in Obj => RemoveObj(o, x)[x] = 0)
         /\ \A y \in Obj : y # x => RemoveObj(o, x)[y] = o[y]
         /\ ~(o[x] > 0) /\ x \in Obj => RemoveObj(o, x) = o
<1>1. RemoveObj(o, x) = [y \in Obj |-> IF y = x THEN 0 ELSE o[y]]
  BY DEF RemoveObj
<1>2. o = [y \in Obj |-> o[y]]
  OBVIOUS
<1>3. \A y \in Obj : o[y] \in Nat
  OBVIOUS
<1>4. RemoveObj(o, x) \in [Obj -> Nat]
  BY <1>1, <1>3
<1>5. ~(o[x] > 0) /\ x \in Obj => o[x] = 0
  BY <1>3
<1> QED BY <1>1, <1>2, <1>4, <1>5

Copies(x, n) == [i \in 1 .. n |-> x]
(* Of all objects only x may be new in r. *)
OnlyAdds(o, x, r) == r \in [Obj -> Nat] /\ \A y \in Obj : y # x /\ r[y] > 0 => o[y] > 0

(* An event adds the same object several times, or not at all. *)
LEMMA AddsOne ==
  ASSUME NEW o \in [Obj -> Nat], NEW x, NEW n \in Nat
  PROVE  OnlyAdds(o, x, AddObjs(o, Copies(x, n))) /\ (n = 0 => AddObjs(o, Copies(x, n)) = o)
<1> DEFINE q == Copies(x, n)
           A == {y \in Obj : o[y] > 0} \cup {x}
<1>1. q \in [1 .. n -> A]
  BY DEF Copies
<1>2. q \in Seq(A) /\ (n = 0 => q = <<>>)
  BY <1>1, SeqDef
<1>3. o \in Within(A)
  <2>1. \A y \in Obj : o[y] \in Nat
    OBVIOUS
  <2>2. \A y \in Obj \ A : o[y] = 0
    BY <2>1
  <2> QED BY <2>2 DEF Within
<1> HIDE DEF q, A
<1>4. AddObjs(o, q) \in Within(A) /\ (q = <<>> => AddObjs(o, q) = o)
  BY <1>2, <1>3, AddObjsWithin
<1>5. /\ AddObjs(o, q) \in [Obj -> Nat]
      /\ \A y \in Obj : y # x /\ AddObjs(o, q)[y] > 0 => o[y] > 0
  BY <1>4 DEF Within, A
<1> QED BY <1>2, <1>4, <1>5 DEF q, OnlyAdds

(* How many configurations ask for a process. *)
LEMMA HitsCount ==
  ASSUME NEW n \in Nat, NEW hits, hits \subseteq 1 .. n
  PROVE  Cardinality(hits) \in Nat /\ (hits = {} => Cardinality(hits) = 0)
<1>1. IsFiniteSet(1 .. n)
  BY FS_Interval
<1>2. IsFiniteSet(hits)
  BY <1>1, FS_Subset
<1> QED BY <1>2, FS_CardinalityType, FS_EmptySet

(* Handling an event of p leaves the objects of other processes alone. *)
LEMMA HandleProc ==
  ASSUME confs \in Seq(Conf), objs \in [Obj -> Nat], NEW e \in ProcEvent, HandleProcEvt(e)
  PROVE  /\ objs' \in [Obj -> Nat]
         /\ \A q \in Procs : objs'[ProcObj(q)] > 0 =>
              (objs[ProcObj(q)] > 0 /\ e # ExitOf(q)) \/ e = ExecOf(q)
         /\ ~ProcEvtNotifies(e) => objs' = objs
         /\ confs = <<>> => ProcsOf(objs') \subseteq ProcsOf(objs)
         /\ \A q \in ghosts : e # ExitOf(q) => q \in ghosts'
<1> PICK p \in Procs : p = e.pid
  BY EventFacts
<1> DEFINE hits == {k \in 1 .. Len(confs) : ExecMatches(p, confs[k])}
<1>1. CASE e.event = "EXEC"
  <2>1. objs' = AddObjs(objs, [i \in 1 .. Cardinality(hits) |-> ProcObj(p)]) /\ ghosts' = ghosts
    BY <1>1 DEF HandleProcEvt, ProcExec
  <2>2. hits \subseteq 1 .. Len(confs) /\ (~ProcEvtNotifies(e) => hits = {})
        /\ (confs = <<>> => hits = {})
    BY <1>1 DEF ProcEvtNotifies
  <2>3. e = ExecOf(p) /\ \A q : e # ExitOf(q)
    BY <1>1, EventFacts
  <2> HIDE DEF hits
  <2>4. /\ objs' \in [Obj -> Nat] /\ (hits = {} => objs' = objs)
        /\ \A y \in Obj : y # ProcObj(p) /\ objs'[y] > 0 => objs[y] > 0
    <3>1. Len(confs) \in Nat
      BY LenProperties
    <3>2. Cardinality(hits) \in Nat /\ (hits = {} => Cardinality(hits) = 0)
      BY <2>2, <3>1, HitsCount
    <3>3. PICK n \in Nat, o \in [Obj -> Nat], r \in {objs'} : n = Cardinality(hits) /\ o = objs /\ r = objs'
      BY <3>2
    <3>4. r = AddObjs(o, Copies(ProcObj(p), n))
      BY <2>1, <3>3 DEF Copies
    <3>5. OnlyAdds(o, ProcObj(p), r) /\ (n = 0 => r = o)
      BY <3>4, AddsOne
    <3> QED BY <3>2, <3>3, <3>5 DEF OnlyAdds
  <2> QED BY <2>1, <2>2, <2>3, <2>4, ProcObjFacts
<1>2. CASE e.event # "EXEC"
  <2>1. objs' = RemoveObj(objs, ProcObj(p)) /\ e = ExitOf(p) /\ ghosts' = ghosts \ {p}
    BY <1>2, EventFacts DEF HandleProcEvt, ProcExit
  <2>2. /\ objs' \in [Obj -> Nat] /\ objs'[ProcObj(p)] = 0
        /\ \A y \in Obj : y # ProcObj(p) => objs'[y] = objs[y]
        /\ ~(objs[ProcObj(p)] > 0) => objs' = objs
    BY <2>1, RemoveFacts, ProcObjFacts
  <2>3. ASSUME NEW q \in Procs, objs'[ProcObj(q)] > 0
        PROVE  objs[ProcObj(q)] > 0 /\ e # ExitOf(q)
    <3>1. q # p
      BY <2>2, <2>3
    <3> QED BY <2>1, <2>2, <2>3, <3>1, ProcObjFacts, EventFacts
  <2> QED BY <1>2, <2>1, <2>2, <2>3 DEF ProcEvtNotifies, ProcsOf
<1> QED BY <1>1, <1>2

(* Handling an event of a container leaves the processes alone. *)
LEMMA HandleCgrp ==
  ASSUME confs \in Seq(Conf), objs \in [Obj -> Nat], NEW e \in CgrpEvent, HandleCgrpEvt(e),
         e.con \in Containers
  PROVE  /\ objs' \in [Obj -> Nat]
         /\ ProcsOf(objs') \subseteq ProcsOf(objs)
         /\ ~CgrpEvtNotifies(e) => objs' = objs
         /\ UNCHANGED <<ghosts, quiet>>
<1> PICK x : x = ConObj(e.con)
  OBVIOUS
<1>1. x \in Obj /\ \A p : ProcObj(p) # x
  BY ProcObjFacts DEF ConObj, Obj
<1> DEFINE hits == {k \in 1 .. Len(confs) : CgrpMatches(e.pod, e.con, confs[k])}
<1>2. CASE e.event = "MK"
  <2>1. objs' = AddObjs(objs, [i \in 1 .. Cardinality(hits) |-> x]) /\ UNCHANGED <<ghosts, quiet>>
    BY <1>2 DEF HandleCgrpEvt, CgrpExec
  <2>2. hits \subseteq 1 .. Len(confs) /\ (~CgrpEvtNotifies(e) => hits = {})
    BY <1>2 DEF CgrpEvtNotifies
  <2> HIDE DEF hits
  <2>3. /\ objs' \in [Obj -> Nat] /\ (hits = {} => objs' = objs)
        /\ \A y \in Obj : y # x /\ objs'[y] > 0 => objs[y] > 0
    <3>1. Len(confs) \in Nat
      BY LenProperties
    <3>2. Cardinality(hits) \in Nat /\ (hits = {} => Cardinality(hits) = 0)
      BY <2>2, <3>1, HitsCount
    <3>3. PICK n \in Nat, o \in [Obj -> Nat], r \in {objs'} : n = Cardinality(hits) /\ o = objs /\ r = objs'
      BY <3>2
    <3>4. r = AddObjs(o, Copies(x, n))
      BY <2>1, <3>3 DEF Copies
    <3>5. OnlyAdds(o, x, r) /\ (n = 0 => r = o)
      BY <3>4, AddsOne
    <3> QED BY <3>2, <3>3, <3>5 DEF OnlyAdds
  <2> QED BY <1>1, <2>1, <2>2, <2>3, ProcObjFacts DEF ProcsOf
<1>3. CASE e.event # "MK"
  <2>1. objs' = RemoveObj(objs, x) /\ UNCHANGED <<ghosts, quiet>>
    BY <1>3 DEF HandleCgrpEvt, CgrpExit, gapVars
  <2>2. /\ objs' \in [Obj -> Nat] /\ \A y \in Obj : y # x => objs'[y] = objs[y]
        /\ ~(objs[x] > 0) => objs' = objs
    BY <1>1, <2>1, RemoveFacts
  <2> QED BY <1>1, <1>3, <2>1, <2>2, ProcObjFacts DEF ProcsOf, CgrpEvtNotifies
<1> QED BY <1>2, <1>3

(* A process is executed or exits; nothing else of the probe changes. *)
LEMMA ObservedProcess ==
  ASSUME ObservedInv, mpc = "idle", mpc' = "idle", NEW p \in Procs,
         NEW e \in {ExecOf(p), ExitOf(p)},
         live' \subseteq Procs, zombies' \subseteq Procs, procEvts' = Append(procEvts, e),
         e = ExecOf(p) => live' = live \cup {p}, e = ExitOf(p) => live' = live \ {p},
         UNCHANGED <<confs, objs, ghosts, podMap, cgrpEvts, mapped, cmd, params>>
  PROVE  ObservedInv'
<1> PICK evts \in Seq(ProcEvent) : evts = procEvts
  BY DEF ObservedInv, WeakTypes
<1>1. e \in ProcEvent
  BY EventFacts
<1>2. /\ procEvts' \in Seq(ProcEvent) /\ Len(procEvts') = Len(evts) + 1 /\ Len(evts) \in Nat
      /\ procEvts'[Len(evts) + 1] = e
      /\ \A i \in 1 .. Len(evts) : procEvts'[i] = evts[i]
  BY <1>1, AppendProperties, LenProperties
<1>3. WeakTypes'
  BY <1>2 DEF ObservedInv, WeakTypes
<1>4. ASSUME NEW q \in Procs, q \in live \/ Leaving(procEvts, q)
      PROVE  q \in live' \/ Leaving(procEvts', q)
  <2>1. CASE q = p
    BY <1>1, <2>1, EventFacts, PendingAppend DEF Leaving
  <2>2. CASE q # p
    <3>1. e # ExecOf(q)
      BY <2>2, EventFacts
    <3> QED BY <1>1, <1>4, <2>2, <3>1, PendingAppend DEF Leaving
  <2> QED BY <2>1, <2>2
<1>5. ObjsOK(confs, objs, ghosts)'
  BY <1>4 DEF ObservedInv, ObjsOK
<1>6. ASSUME NEW q \in Procs, NEW k \in 1 .. Len(procEvts'), procEvts'[k] = ExecOf(q), q \notin live'
      PROVE  Leaving(procEvts', q)
  <2>1. CASE k \in 1 .. Len(evts)
    <3>1. evts[k] = ExecOf(q)
      BY <1>2, <1>6, <2>1
    <3>2. q \in live \/ Leaving(procEvts, q)
      BY <2>1, <3>1 DEF ObservedInv, EventsOK
    <3> QED BY <1>4, <1>6, <3>2
  <2>2. CASE k = Len(evts) + 1
    <3>1. e = ExecOf(q)
      BY <1>2, <1>6, <2>2
    <3>2. q = p /\ q \in live'
      BY <3>1, EventFacts
    <3> QED BY <1>6, <3>2
  <2> QED BY <1>2, <2>1, <2>2
<1>7. EventsOK'
  BY <1>6 DEF EventsOK
<1> QED BY <1>3, <1>5, <1>7 DEF ObservedInv

(* The first event is handled: its process is no longer on its way out, but  *)
(* then it is not observed either.                                           *)
LEMMA ObservedEvent ==
  ASSUME ObservedInv, RcvProcEvt
  PROVE  ObservedInv'
<1>1. /\ mpc = "idle" /\ mpc' = "idle" /\ procEvts # <<>> /\ procEvts' = Tail(procEvts)
      /\ HandleProcEvt(Head(procEvts))
      /\ UNCHANGED <<confs, podMap, live, zombies, cgrpEvts, mapped, cmd, params>>
  BY DEF RcvProcEvt, parseVars, machineVars
<1> PICK evts \in Seq(ProcEvent) : evts = procEvts
  BY DEF ObservedInv, WeakTypes
<1> PICK e : e = Head(evts)
  OBVIOUS
<1>2. /\ e \in ProcEvent /\ e = evts[1] /\ Len(evts) \in Nat \ {0} /\ 1 \in 1 .. Len(evts)
      /\ procEvts' \in Seq(ProcEvent) /\ Len(procEvts') = Len(evts) - 1
      /\ \A i \in 1 .. Len(procEvts') : procEvts'[i] = evts[i + 1]
  BY <1>1, HeadTailProperties, LenProperties, EmptySeq
<1>3. confs \in Seq(Conf) /\ objs \in [Obj -> Nat]
  BY DEF ObservedInv, ObjsOK
<1>4. /\ objs' \in [Obj -> Nat]
      /\ \A q \in Procs : objs'[ProcObj(q)] > 0 =>
           (objs[ProcObj(q)] > 0 /\ e # ExitOf(q)) \/ e = ExecOf(q)
      /\ confs = <<>> => ProcsOf(objs') \subseteq ProcsOf(objs)
      /\ \A q \in ghosts : e # ExitOf(q) => q \in ghosts'
  BY <1>1, <1>2, <1>3, HandleProc
<1>5. WeakTypes'
  BY <1>1, <1>2 DEF ObservedInv, WeakTypes
<1>6. ASSUME NEW q \in Procs, Leaving(evts, q),
             e # ExitOf(q) \/ \E j \in 2 .. Len(evts) : evts[j] = ExecOf(q)
      PROVE  Leaving(procEvts', q)
  BY <1>1, <1>6, PendingTail DEF Leaving
<1>7. ASSUME NEW q \in Procs, objs'[ProcObj(q)] > 0
      PROVE  q \in live \cup NamedIn(confs) \cup ghosts' \/ Leaving(procEvts', q)
  <2>1. e # ExitOf(q)
    BY <1>4, <1>7, EventFacts
  <2>2. q \in live \cup NamedIn(confs) \cup ghosts \/ Leaving(evts, q)
    <3>1. CASE objs[ProcObj(q)] > 0
      BY <3>1 DEF ObservedInv, ObjsOK
    <3>2. CASE e = ExecOf(q)
      BY <1>2, <3>2 DEF ObservedInv, EventsOK
    <3> QED BY <1>4, <1>7, <3>1, <3>2
  <2> QED BY <1>4, <1>6, <2>1, <2>2
<1>8. ObjsOK(confs, objs, ghosts)'
  BY <1>1, <1>3, <1>4, <1>7 DEF ObservedInv, ObjsOK
<1>9. ASSUME NEW q \in Procs, NEW k \in 1 .. Len(procEvts'), procEvts'[k] = ExecOf(q), q \notin live
      PROVE  Leaving(procEvts', q)
  <2>1. k + 1 \in 2 .. Len(evts) /\ k + 1 \in 1 .. Len(evts) /\ evts[k + 1] = ExecOf(q)
    BY <1>2, <1>9
  <2>2. Leaving(evts, q)
    BY <1>9, <2>1 DEF ObservedInv, EventsOK
  <2> QED BY <1>6, <2>1, <2>2
<1>10. EventsOK'
  BY <1>1, <1>9 DEF EventsOK
<1> QED BY <1>1, <1>5, <1>8, <1>10 DEF ObservedInv

(* Steps that change the configuration, but not the processes. *)
LEMMA ObservedConfig ==
  ASSUME ObservedInv, UNCHANGED <<live, procEvts>>, WeakTypes',
         ObjsOK(confs', objs', ghosts'),
         mpc' # "idle" => /\ ObjsOK(before'.confs, before'.objs, RolledGhosts')
                          /\ before'.cmd \in Ranges \cup {NoCmd} /\ before'.params \in Params
  PROVE  ObservedInv'
BY DEF ObservedInv, ObjsOK, EventsOK

(* Containers come and go by turns: f has the containers as they were before *)
(* the events that are still to be handled, between them and after them.     *)
Turn(a, e, b) ==
  \/ e.con = NoCon /\ b = a
  \/ /\ e.con \in Containers /\ e.pod = PodOf[e.con]
     /\ \/ e.event = "MK" /\ e.con \notin a /\ b = a \cup {e.con}
        \/ e.event = "RM" /\ e.con \in a /\ b = a \ {e.con}
History(evts, f) ==
  /\ f \in [0 .. Len(evts) -> SUBSET Containers]
  /\ \A k \in 1 .. Len(evts) : Turn(f[k - 1], evts[k], f[k])

(* The strengthening for the map: a container that the reader of the events  *)
(* has created has at most two entries, all others at most one.              *)
MapInv ==
  /\ pods \subseteq Pods
  /\ \E f : History(cgrpEvts, f) /\ f[Len(cgrpEvts)] = containers /\ Entries(podMap, f[0])

(* The map is empty at the start. *)
LEMMA InitMap == Init => MapInv
<1> SUFFICES ASSUME Init PROVE MapInv
  OBVIOUS
<1>1. /\ podMap = [p \in {} |-> NoEntries] /\ pods \subseteq Pods /\ containers \subseteq Containers
      /\ cgrpEvts = <<>>
  BY DEF Init, SnooperInit
<1> DEFINE f == [k \in 0 .. 0 |-> containers]
<1>2. Len(cgrpEvts) = 0 /\ \A k \in 1 .. 0 : FALSE
  BY <1>1
<1>3. History(cgrpEvts, f) /\ f[Len(cgrpEvts)] = containers
  BY <1>1, <1>2 DEF History
<1>4. Entries(podMap, f[0])
  BY <1>1 DEF Entries
<1> QED BY <1>1, <1>3, <1>4 DEF MapInv

(* The machine adds an event. *)
LEMMA MapAppend ==
  ASSUME WeakTypes, MapInv, NEW e \in CgrpEvent, cgrpEvts' = Append(cgrpEvts, e),
         Turn(containers, e, containers'), containers' \subseteq Containers, pods' \subseteq Pods,
         UNCHANGED podMap
  PROVE  MapInv'
<1>1. PICK f : History(cgrpEvts, f) /\ f[Len(cgrpEvts)] = containers /\ Entries(podMap, f[0])
  BY DEF MapInv
<1> PICK n \in Nat : n = Len(cgrpEvts)
  BY LenProperties DEF WeakTypes
<1>2. Len(cgrpEvts') = n + 1 /\ cgrpEvts'[n + 1] = e /\ \A i \in 1 .. n : cgrpEvts'[i] = cgrpEvts[i]
  BY AppendProperties DEF WeakTypes
<1> DEFINE g == [k \in 0 .. n + 1 |-> IF k = n + 1 THEN containers' ELSE f[k]]
<1>3. f \in [0 .. n -> SUBSET Containers] /\ \A k \in 1 .. n : Turn(f[k - 1], cgrpEvts[k], f[k])
  BY <1>1 DEF History
<1>4. \A k \in 0 .. n : g[k] = f[k] /\ k \in 0 .. n + 1
  OBVIOUS
<1>5. g[n + 1] = containers'
  OBVIOUS
<1>6. g \in [0 .. n + 1 -> SUBSET Containers]
  <2>1. \A k \in 0 .. n + 1 : g[k] \in SUBSET Containers
    <3>1. \A k \in 0 .. n + 1 : k \in 0 .. n \/ k = n + 1
      OBVIOUS
    <3> HIDE DEF g
    <3> QED BY <1>3, <1>4, <1>5, <3>1
  <2> QED BY <2>1
<1> HIDE DEF g
<1>7. ASSUME NEW k \in 1 .. n + 1
      PROVE  Turn(g[k - 1], cgrpEvts'[k], g[k])
  <2>1. CASE k = n + 1
    <3>1. k - 1 = n /\ n \in 0 .. n
      BY <2>1
    <3>2. g[k - 1] = containers
      BY <1>1, <1>4, <3>1
    <3> QED BY <1>2, <1>5, <2>1, <3>2
  <2>2. CASE k # n + 1
    <3>1. k \in 1 .. n /\ k - 1 \in 0 .. n /\ k \in 0 .. n
      BY <2>2
    <3> QED BY <1>2, <1>3, <1>4, <3>1
  <2> QED BY <2>1, <2>2
<1>8. History(cgrpEvts', g)
  BY <1>2, <1>6, <1>7 DEF History
<1>9. g[0] = f[0]
  BY <1>4
<1> QED BY <1>1, <1>2, <1>5, <1>8, <1>9 DEF MapInv

(* The reader handles the first event. *)
LEMMA MapTail ==
  ASSUME WeakTypes, MapInv, RcvCgrpEvt
  PROVE  MapInv'
<1>1. PICK f : History(cgrpEvts, f) /\ f[Len(cgrpEvts)] = containers /\ Entries(podMap, f[0])
  BY DEF MapInv
<1> PICK e : e = Head(cgrpEvts)
  OBVIOUS
<1> PICK m \in Maps : m = podMap
  BY DEF WeakTypes
<1>2. /\ cgrpEvts # <<>> /\ cgrpEvts' = Tail(cgrpEvts) /\ UNCHANGED <<containers, pods>>
      /\ podMap' = IF e.event = "MK" THEN AddPodConMap(m, e.pod, e.con)
                   ELSE DelPodConMap(m, e.pod, e.con)
  BY DEF RcvCgrpEvt, machineVars
<1> PICK n \in Nat : n + 1 = Len(cgrpEvts)
  <2>1. Len(cgrpEvts) \in Nat /\ Len(cgrpEvts) # 0
    BY <1>2, LenProperties, EmptySeq DEF WeakTypes
  <2>2. Len(cgrpEvts) - 1 \in Nat /\ (Len(cgrpEvts) - 1) + 1 = Len(cgrpEvts)
    BY <2>1
  <2> QED BY <2>2
<1>3. /\ e = cgrpEvts[1] /\ e \in CgrpEvent /\ Len(cgrpEvts') = n
      /\ \A i \in 1 .. n : cgrpEvts'[i] = cgrpEvts[i + 1]
  <2>1. /\ e = cgrpEvts[1] /\ e \in CgrpEvent /\ Len(Tail(cgrpEvts)) = (n + 1) - 1
        /\ \A i \in 1 .. Len(Tail(cgrpEvts)) : Tail(cgrpEvts)[i] = cgrpEvts[i + 1]
    BY <1>2, HeadTailProperties DEF WeakTypes
  <2> QED BY <1>2, <2>1
<1>4. f \in [0 .. n + 1 -> SUBSET Containers]
      /\ \A k \in 1 .. n + 1 : Turn(f[k - 1], cgrpEvts[k], f[k])
  BY <1>1 DEF History
<1> DEFINE g == [k \in 0 .. n |-> f[k + 1]]
<1>5. History(cgrpEvts', g) /\ g[Len(cgrpEvts')] = containers' /\ g[0] = f[1]
  <2>1. g \in [0 .. n -> SUBSET Containers]
    BY <1>4
  <2>2. ASSUME NEW k \in 1 .. n
        PROVE  Turn(g[k - 1], cgrpEvts'[k], g[k])
    <3>1. k - 1 \in 0 .. n /\ k \in 0 .. n /\ (k - 1) + 1 = k /\ k + 1 \in 1 .. n + 1
          /\ (k + 1) - 1 = k
      OBVIOUS
    <3>2. g[k - 1] = f[k] /\ g[k] = f[k + 1]
      BY <3>1
    <3>3. Turn(f[k], cgrpEvts[k + 1], f[k + 1])
      BY <1>4, <3>1
    <3> QED BY <1>3, <3>2, <3>3
  <2>3. g[n] = f[n + 1] /\ g[0] = f[0 + 1]
    OBVIOUS
  <2> HIDE DEF g
  <2> QED BY <1>1, <1>2, <1>3, <2>1, <2>2, <2>3 DEF History
<1>6. Turn(f[0], e, f[1])
  <2>1. 1 \in 1 .. n + 1 /\ 1 - 1 = 0
    OBVIOUS
  <2> QED BY <1>3, <1>4, <2>1
<1>7. e.pod \in Pods \cup {FakePod}
  BY <1>3 DEF CgrpEvent
<1>8. Entries(podMap', f[1])
  <2>1. CASE e.con = NoCon
    <3>1. f[1] = f[0]
      BY <1>6, <2>1, MachineAssumption DEF Turn
    <3>2. CASE e.event = "MK"
      BY <1>1, <1>2, <1>7, <2>1, <3>1, <3>2, WithPodEntries DEF AddPodConMap
    <3>3. CASE e.event # "MK"
      <4>1. podMap' = [p \in DOMAIN m \ {e.pod} |-> m[p]]
        BY <1>2, <2>1, <3>3 DEF DelPodConMap
      <4> QED BY <1>1, <3>1, <4>1 DEF Entries
    <3> QED BY <3>2, <3>3
  <2>2. CASE e.con # NoCon /\ e.event = "MK"
    <3> PICK w : w = WithPod(m, e.pod)
      OBVIOUS
    <3>1. e.con \in Containers /\ e.pod = PodOf[e.con] /\ e.con \notin f[0]
          /\ f[1] = f[0] \cup {e.con}
      BY <1>6, <2>2 DEF Turn
    <3>2. w \in Maps /\ Entries(w, f[0]) /\ e.pod \in DOMAIN w
      BY <1>1, <1>7, WithPodEntries
    <3>3. podMap' = [w EXCEPT ![e.pod][e.con] = w[e.pod][e.con] + 1]
      BY <1>2, <2>2 DEF AddPodConMap
    <3>4. w[e.pod][e.con] \in Nat /\ w[e.pod][e.con] <= 1
      BY <3>1, <3>2 DEF Maps, Entries
    <3>5. w[e.pod][e.con] + 1 \in Nat /\ w[e.pod][e.con] + 1 <= 2
      BY <3>4
    <3>6. Entries(w, f[1])
      <4> SUFFICES ASSUME NEW pod \in DOMAIN w, NEW c \in Containers
                   PROVE  w[pod][c] <= IF pod = PodOf[c] /\ c \in f[1] THEN 2 ELSE 1
        BY DEF Entries
      <4>1. w[pod][c] \in Nat /\ w[pod][c] <= IF pod = PodOf[c] /\ c \in f[0] THEN 2 ELSE 1
        BY <3>2 DEF Maps, Entries
      <4> QED BY <3>1, <4>1
    <3>7. Entries([w EXCEPT ![e.pod][e.con] = w[e.pod][e.con] + 1], f[1])
      <4> PICK v \in Nat : v = w[e.pod][e.con] + 1
        BY <3>5
      <4>1. v <= IF e.pod = PodOf[e.con] /\ e.con \in f[1] THEN 2 ELSE 1
        BY <3>1, <3>5
      <4> QED BY <3>1, <3>2, <3>6, <4>1, EntriesCount
    <3> QED BY <3>3, <3>7
  <2>3. CASE e.con # NoCon /\ e.event # "MK"
    <3>1. e.con \in Containers /\ e.pod = PodOf[e.con] /\ e.con \in f[0] /\ f[1] = f[0] \ {e.con}
      BY <1>6, <2>3 DEF Turn
    <3>2. ASSUME NEW pod \in DOMAIN m, NEW c \in Containers, pod # e.pod \/ c # e.con
          PROVE  m[pod][c] <= IF pod = PodOf[c] /\ c \in f[1] THEN 2 ELSE 1
      <4>1. m[pod][c] <= IF pod = PodOf[c] /\ c \in f[0] THEN 2 ELSE 1
        BY <1>1 DEF Entries
      <4> QED BY <3>1, <3>2, <4>1
    <3>3. CASE ConKnown(m, e.pod, e.con)
      <4>1. e.pod \in DOMAIN m
        BY <3>3 DEF ConKnown, PodKnown
      <4>2. m[e.pod][e.con] \in Nat /\ m[e.pod][e.con] <= 2 /\ m[e.pod][e.con] > 0
        BY <1>1, <3>1, <3>3, <4>1 DEF Maps, Entries, ConKnown
      <4>3. podMap' = [m EXCEPT ![e.pod][e.con] = m[e.pod][e.con] - 1]
        BY <1>2, <2>3, <3>3 DEF DelPodConMap
      <4>4. PICK D \in SUBSET (Pods \cup {FakePod}) : m \in [D -> [Containers -> Nat]]
        BY DEF Maps
      <4>5. /\ DOMAIN podMap' = DOMAIN m /\ podMap'[e.pod][e.con] = m[e.pod][e.con] - 1
            /\ \A pod \in DOMAIN m : \A c \in Containers :
                 pod # e.pod \/ c # e.con => podMap'[pod][c] = m[pod][c]
        BY <3>1, <4>1, <4>3, <4>4
      <4>6. podMap'[e.pod][e.con] <= 1
        BY <4>2, <4>5
      <4> SUFFICES ASSUME NEW pod \in DOMAIN m, NEW c \in Containers
                   PROVE  podMap'[pod][c] <= IF pod = PodOf[c] /\ c \in f[1] THEN 2 ELSE 1
        BY <4>5 DEF Entries
      <4> QED BY <3>1, <3>2, <4>5, <4>6
    <3>4. CASE ~ConKnown(m, e.pod, e.con)
      <4>1. podMap' = m
        BY <1>2, <2>3, <3>4 DEF DelPodConMap
      <4>2. e.pod \in DOMAIN m => m[e.pod][e.con] \in Nat /\ ~(m[e.pod][e.con] > 0)
        BY <3>1, <3>4 DEF ConKnown, PodKnown, Maps
      <4>3. e.pod \in DOMAIN m => m[e.pod][e.con] <= 1
        BY <4>2
      <4> SUFFICES ASSUME NEW pod \in DOMAIN m, NEW c \in Containers
                   PROVE  m[pod][c] <= IF pod = PodOf[c] /\ c \in f[1] THEN 2 ELSE 1
        BY <4>1 DEF Entries
      <4> QED BY <3>1, <3>2, <4>3
    <3> QED BY <3>3, <3>4
  <2> QED BY <2>1, <2>2, <2>3
<1>9. pods' \subseteq Pods
  BY <1>2 DEF MapInv
<1> QED BY <1>5, <1>8, <1>9 DEF MapInv

Room(cf, o) == Len(cf) <= SnooperMax /\ o \in [Obj -> Nat] /\ ObjNum(o) <= SnooperMax

(* A list of configurations is refreshed from the live processes. *)
LEMMA RefreshParses ==
  ASSUME WeakTypes, NEW seen, Entries(podMap, seen), NEW list \in Seq(Conf), ParseSnooper(list)
  PROVE  /\ ObjsOK(confs', objs', ghosts') /\ podMap' \in Maps /\ Entries(podMap', seen)
         /\ Room(confs', objs')
         /\ ParseFails(list) => UNCHANGED gapVars
         /\ ~ParseFails(list) =>
              /\ confs' = list /\ cut' \in BOOLEAN /\ ghosts' \subseteq Procs
              /\ quiet' = {p \in quiet : ExitDue(p)}
              /\ ~cut' => \A i \in 1 .. Len(list) : \A p \in Ask(list[i]) : objs'[ProcObj(p)] > 0
<1> PICK g : g = RefreshSnooperObj(list)
  OBVIOUS
<1>1. Made(list, seen, Len(list), g) /\ (list = <<>> => g.objs = NoObjs)
  BY RefreshMakes DEF WeakTypes, InProc
<1>2. Len(list) \in Nat /\ SnooperMax \in Nat
  BY LenProperties, ConfAssumption
<1>3. NoObjs \in [Obj -> Nat] /\ \A p \in Procs : ~(NoObjs[ProcObj(p)] > 0)
  BY ProcObjFacts DEF NoObjs
<1>4. CASE ParseFails(list)
  <2>1. Min({Len(list), SnooperMax}) = SnooperMax
    BY <1>2, <1>4 DEF ParseFails, Min
  <2>2. confs' = SubSeq(list, 1, SnooperMax) /\ objs' = NoObjs /\ podMap' = podMap
        /\ UNCHANGED gapVars
    BY <1>4, <2>1 DEF ParseSnooper
  <2>3. confs' \in Seq(Conf) /\ Len(confs') <= SnooperMax
    <3>1. SnooperMax \in 1 .. Len(list)
      BY <1>2, <1>4, ConfAssumption DEF ParseFails
    <3>2. SubSeq(list, 1, SnooperMax) \in Seq(Conf) /\ Len(SubSeq(list, 1, SnooperMax)) = SnooperMax
      BY <1>2, <3>1, SubSeqProperties
    <3> QED BY <1>2, <2>2, <3>2
  <2>4. ObjNum(NoObjs) <= SnooperMax
    BY <1>2, ObjNumFacts
  <2>5. ObjsOK(confs', objs', ghosts')
    BY <1>3, <2>2, <2>3 DEF ObjsOK, ProcsOf
  <2> QED BY <1>3, <1>4, <2>2, <2>3, <2>4, <2>5 DEF Room, WeakTypes
<1>5. CASE ~ParseFails(list)
  <2>1. Min({Len(list), SnooperMax}) = Len(list) /\ Len(list) <= SnooperMax
    BY <1>2, <1>5 DEF ParseFails, Min
  <2>2. /\ confs' = SubSeq(list, 1, Len(list)) /\ objs' = g.objs /\ podMap' = g.map
        /\ cut' = g.cut /\ ghosts' = zombies \cap ProcsOf(objs')
        /\ quiet' = {p \in quiet : ExitDue(p)}
    BY <1>5, <2>1 DEF ParseSnooper
  <2>3. confs' = list
    BY <2>2, SubSeqProperties
  <2>4. /\ objs' \in Within(Possible(list)) /\ podMap' \in Maps /\ cut' \in BOOLEAN
        /\ ObjNum(objs') <= SnooperMax /\ Entries(podMap', seen)
    BY <1>1, <2>2 DEF Made, Refreshing
  <2>5. ASSUME NEW p \in Procs, objs'[ProcObj(p)] > 0
        PROVE  p \in live \cup NamedIn(list) \cup ghosts'
    <3>1. ProcObj(p) \in Possible(list)
      BY <2>4, <2>5, ProcObjFacts DEF Within
    <3>2. p \in InProc \cup NamedIn(list)
      BY <3>1, ProcObjFacts DEF Possible
    <3>3. p \in ProcsOf(objs')
      BY <2>5 DEF ProcsOf
    <3> QED BY <2>2, <3>2, <3>3 DEF InProc
  <2>6. list = <<>> => ProcsOf(objs') = {}
    BY <1>1, <1>3, <2>2 DEF ProcsOf
  <2>7. ObjsOK(confs', objs', ghosts')
    BY <2>3, <2>4, <2>5, <2>6 DEF ObjsOK, Within
  <2>8. Room(confs', objs')
    BY <2>1, <2>3, <2>4 DEF Room, Within
  <2>9. ~cut' => \A i \in 1 .. Len(list) : \A p \in Ask(list[i]) : objs'[ProcObj(p)] > 0
    BY <1>1, <2>2 DEF Made
  <2>10. ghosts' \subseteq Procs
    BY <2>2 DEF ProcsOf
  <2> QED BY <1>5, <2>2, <2>3, <2>4, <2>7, <2>8, <2>9, <2>10
<1> QED BY <1>4, <1>5

(* Every step keeps the map in step with the events. *)
LEMMA NextMap ==
  ASSUME ObservedInv, MapInv, [Next]_vars
  PROVE  MapInv'
<1>0. WeakTypes
  BY DEF ObservedInv
<1>1. ASSUME UNCHANGED <<podMap, containers, pods, cgrpEvts>>
      PROVE  MapInv'
  BY <1>1 DEF MapInv
<1>2. CASE RcvCgrpEvtUnlocked
  BY <1>0, <1>2, MapTail DEF RcvCgrpEvtUnlocked
<1>3. ASSUME NEW list \in ConfLists, ParseSnoopers(list)
      PROVE  MapInv'
  <2>1. UNCHANGED <<containers, pods, cgrpEvts>> /\ ParseSnooper(list) /\ list \in Seq(Conf)
    BY <1>3, ConfAssumption DEF ParseSnoopers, machineVars
  <2>2. PICK f : History(cgrpEvts, f) /\ f[Len(cgrpEvts)] = containers /\ Entries(podMap, f[0])
    BY DEF MapInv
  <2>3. Entries(podMap', f[0])
    BY <1>0, <2>1, <2>2, RefreshParses
  <2> QED BY <2>1, <2>2, <2>3 DEF MapInv
<1>4. CASE Machine
  <2>1. MachineStep
    BY <1>4 DEF Machine
  <2>2. ASSUME NEW p \in Procs, Exec(p) \/ Fork(p) \/ Exit(p) \/ Reap(p)
        PROVE  MapInv'
    BY <1>1, <2>2 DEF Exec, Fork, Exit, Reap
  <2>3. containers \subseteq Containers /\ pods \subseteq Pods
    <3>1. PICK f : History(cgrpEvts, f) /\ f[Len(cgrpEvts)] = containers
      BY DEF MapInv
    <3>2. Len(cgrpEvts) \in 0 .. Len(cgrpEvts)
      BY <1>0, LenProperties DEF WeakTypes
    <3> QED BY <3>1, <3>2 DEF History, MapInv
  <2>4. ASSUME NEW c \in Containers, ConCreate(c) \/ ConRemove(c)
        PROVE  MapInv'
    <3> DEFINE mk == [event |-> "MK", pod |-> PodOf[c], con |-> c]
               rm == [event |-> "RM", pod |-> PodOf[c], con |-> c]
    <3>1. mk \in CgrpEvent /\ rm \in CgrpEvent
      BY MachineAssumption DEF CgrpEvent
    <3>2. CASE ConCreate(c)
      <4>1. /\ cgrpEvts' = Append(cgrpEvts, mk) /\ c \notin containers
            /\ containers' = containers \cup {c}
            /\ UNCHANGED <<podMap, pods>>
        BY <3>2 DEF ConCreate
      <4>2. Turn(containers, mk, containers')
        BY <4>1 DEF Turn
      <4> HIDE DEF mk
      <4> QED BY <1>0, <2>3, <3>1, <4>1, <4>2, MapAppend
    <3>3. CASE ConRemove(c)
      <4>1. /\ cgrpEvts' = Append(cgrpEvts, rm) /\ c \in containers
            /\ containers' = containers \ {c}
            /\ UNCHANGED <<podMap, pods>>
        BY <3>3 DEF ConRemove
      <4>2. Turn(containers, rm, containers')
        BY <4>1 DEF Turn
      <4> HIDE DEF rm
      <4> QED BY <1>0, <2>3, <3>1, <4>1, <4>2, MapAppend
    <3> QED BY <2>4, <3>2, <3>3
  <2>5. ASSUME NEW p \in Pods, PodCreate(p) \/ PodRemove(p)
        PROVE  MapInv'
    <3>1. PICK e \in CgrpEvent : e.con = NoCon /\ cgrpEvts' = Append(cgrpEvts, e)
      <4>1. \A k \in {"MK", "RM"} : [event |-> k, pod |-> p, con |-> NoCon] \in CgrpEvent
        BY DEF CgrpEvent
      <4> QED BY <2>5, <4>1 DEF PodCreate, PodRemove
    <3>2. UNCHANGED <<podMap, containers>> /\ pods' \subseteq Pods
      BY <2>3, <2>5 DEF PodCreate, PodRemove
    <3>3. Turn(containers, e, containers')
      BY <3>1, <3>2 DEF Turn
    <3> QED BY <1>0, <2>3, <3>1, <3>2, <3>3, MapAppend
  <2> QED BY <2>1, <2>2, <2>4, <2>5 DEF MachineStep
<1>5. CASE RequestBegin \/ ItemAbsent \/ (\E r \in Ranges, ok \in BOOLEAN : ParseCmd(r, ok))
           \/ (\E p \in Params, ok \in BOOLEAN : ParseParams(p, ok))
           \/ (\E ready \in BOOLEAN : StartProbe(ready)) \/ StopIdle \/ StopProbe \/ StopHangs
           \/ StopJoined \/ StopFails \/ BadState \/ RollbackProbe \/ RequestEnd
  BY <1>1, <1>5 DEF RequestBegin, ItemAbsent, ParseCmd, ParseParams, StartProbe, StopIdle,
     StopProbe, StopHangs, StopJoined, StopFails, BadState, RollbackProbe, RequestEnd, snooperVars, machineVars
<1>6. CASE RcvProcEvt \/ RcvCgrpEvtLocked \/ KeepliveProbe \/ RecvIpcMsg \/ Death \/ UNCHANGED vars
  BY <1>1, <1>6 DEF RcvProcEvt, RcvCgrpEvtLocked, KeepliveProbe, RecvIpcMsg, Death, vars,
     snooperVars, machineVars
<1> QED BY <1>2, <1>3, <1>4, <1>5, <1>6 DEF Next

(* Nothing is observed at the start. *)
LEMMA InitObserved == Init => ObservedInv
<1> SUFFICES ASSUME Init PROVE ObservedInv
  OBVIOUS
<1>1. /\ confs = <<>> /\ objs = NoObjs /\ podMap = [p \in {} |-> NoEntries] /\ live \subseteq Procs
      /\ zombies = {} /\ procEvts = <<>> /\ cgrpEvts = <<>> /\ mapped = NoEvent
      /\ cmd = NoCmd /\ params = Params0 /\ mpc = "idle"
  BY DEF Init, SnooperInit
<1>2. NoObjs \in [Obj -> Nat] /\ \A p \in Procs : ~(NoObjs[ProcObj(p)] > 0)
  BY ProcObjFacts DEF NoObjs
<1>3. podMap \in Maps
  <2>1. podMap \in [{} -> [Containers -> Nat]]
    BY <1>1
  <2> QED BY <2>1 DEF Maps
<1>4. WeakTypes
  BY <1>1, <1>3, ItemsAssumption DEF WeakTypes
<1>5. ObjsOK(confs, objs, ghosts)
  BY <1>1, <1>2 DEF ObjsOK, ProcsOf
<1>6. EventsOK
  BY <1>1 DEF EventsOK
<1> QED BY <1>1, <1>4, <1>5, <1>6 DEF ObservedInv

(* Every step keeps the dead unobserved, unless their exit is on its way. *)
LEMMA NextObserved ==
  ASSUME ObservedInv, RollbackInv, MapInv, [Next]_vars
  PROVE  ObservedInv'
<1>0. mpc # "idle" /\ mpc' # "idle" => RolledGhosts' = RolledGhosts
  BY RolledKept
<1>1. ASSUME UNCHANGED <<live, procEvts, confs, objs, ghosts, before>>, WeakTypes',
             mpc' # "idle" => mpc # "idle"
      PROVE  ObservedInv'
  BY <1>0, <1>1, ObservedConfig DEF ObservedInv
<1>2. ASSUME UNCHANGED <<live, zombies, podMap, procEvts, cgrpEvts, mapped, cmd, params>>
      PROVE  WeakTypes'
  BY <1>2 DEF ObservedInv, WeakTypes
<1>3. CASE RequestBegin
  <2>1. /\ before' = Config /\ parsed' = {}
        /\ UNCHANGED <<live, zombies, podMap, procEvts, cgrpEvts, mapped, cmd, params, confs, objs,
                       ghosts>>
    BY <1>3 DEF RequestBegin, snooperVars, machineVars, gapVars
  <2>2. /\ before'.confs = confs /\ before'.objs = objs
        /\ before'.cmd = cmd /\ before'.params = params /\ RolledGhosts' = ghosts
    BY <2>1 DEF Config, RolledGhosts, Restored
  <2> QED BY <1>2, <2>1, <2>2, ObservedConfig DEF ObservedInv, WeakTypes
<1>4. CASE ItemAbsent \/ StopIdle \/ StopProbe \/ StopHangs \/ StopJoined \/ StopFails \/ BadState
           \/ RequestEnd \/ (\E ready \in BOOLEAN : StartProbe(ready))
  <2>1. UNCHANGED <<live, zombies, podMap, procEvts, cgrpEvts, mapped, cmd, params, confs, objs,
                    ghosts>>
    BY <1>4 DEF ItemAbsent, StopIdle, StopProbe, StopHangs, StopJoined, StopFails, BadState,
                RequestEnd, StartProbe, snooperVars, machineVars, gapVars
  <2>2. (mpc' # "idle" => UNCHANGED before) /\ mpc # "idle"
    BY <1>4 DEF ItemAbsent, StopIdle, StopProbe, StopHangs, StopJoined, StopFails, BadState,
                RequestEnd, StartProbe, ItemParsed, RequestDone
  <2> QED BY <1>0, <1>2, <2>1, <2>2, ObservedConfig DEF ObservedInv
<1>5. ASSUME NEW r \in Ranges, NEW ok \in BOOLEAN, ParseCmd(r, ok)
      PROVE  ObservedInv'
  <2>1. UNCHANGED <<live, zombies, podMap, procEvts, cgrpEvts, mapped, params, confs, objs, ghosts,
                    before>>
        /\ cmd' = r /\ mpc = "cmd"
    BY <1>5 DEF ParseCmd, ItemParsed, snooperVars, machineVars, gapVars
  <2>2. WeakTypes'
    BY <2>1 DEF ObservedInv, WeakTypes
  <2> QED BY <1>1, <2>1, <2>2
<1>6. ASSUME NEW p \in Params, NEW ok \in BOOLEAN, ParseParams(p, ok)
      PROVE  ObservedInv'
  <2>1. UNCHANGED <<live, zombies, podMap, procEvts, cgrpEvts, mapped, cmd, confs, objs, ghosts,
                    before>>
        /\ params' = p /\ mpc = "params"
    BY <1>6 DEF ParseParams, ItemParsed, snooperVars, machineVars, gapVars
  <2>2. WeakTypes'
    BY <2>1 DEF ObservedInv, WeakTypes
  <2> QED BY <1>1, <2>1, <2>2
<1>7. ASSUME NEW list \in ConfLists, ParseSnoopers(list)
      PROVE  ObservedInv'
  <2>1. UNCHANGED <<live, zombies, procEvts, cgrpEvts, mapped, cmd, params, before>>
        /\ ParseSnooper(list) /\ mpc = "snoopers"
    BY <1>7 DEF ParseSnoopers, ItemParsed, machineVars
  <2>2. ObjsOK(confs', objs', ghosts') /\ podMap' \in Maps
    <3>1. PICK f : Entries(podMap, f[0])
      BY DEF MapInv
    <3> QED BY <2>1, <3>1, RefreshParses, ConfAssumption DEF ObservedInv
  <2>3. WeakTypes'
    BY <2>1, <2>2 DEF ObservedInv, WeakTypes
  <2> QED BY <1>0, <2>1, <2>2, <2>3, ObservedConfig DEF ObservedInv
<1>8. CASE RollbackProbe
  <2>1. /\ UNCHANGED <<live, zombies, podMap, procEvts, cgrpEvts, mapped>>
        /\ mpc = "rollback" /\ mpc' = "idle" /\ ghosts' = RolledGhosts
    BY <1>8 DEF RollbackProbe, RequestDone, machineVars, RolledGhosts
  <2>2. Config' = before
    BY <2>1, RollbackRestores
  <2>3. confs' = before.confs /\ objs' = before.objs /\ cmd' = before.cmd /\ params' = before.params
    BY <2>2 DEF Config
  <2>4. WeakTypes'
    BY <2>1, <2>3 DEF ObservedInv, WeakTypes
  <2> QED BY <2>1, <2>3, <2>4, ObservedConfig DEF ObservedInv
<1>9. CASE RcvProcEvt
  BY <1>9, ObservedEvent
<1>10. CASE RcvCgrpEvtLocked
  <2>1. /\ mpc' = "idle" /\ mapped # NoEvent /\ mapped' = NoEvent /\ HandleCgrpEvt(mapped)
        /\ UNCHANGED <<live, zombies, podMap, procEvts, cgrpEvts, cmd, params, confs>>
    BY <1>10 DEF RcvCgrpEvtLocked, parseVars, machineVars
  <2>2. objs' \in [Obj -> Nat] /\ ProcsOf(objs') \subseteq ProcsOf(objs) /\ ghosts' = ghosts
    BY <2>1, HandleCgrp DEF ObservedInv, ObjsOK, WeakTypes
  <2>3. WeakTypes'
    BY <2>1 DEF ObservedInv, WeakTypes
  <2>4. ObjsOK(confs', objs', ghosts')
    BY <2>1, <2>2 DEF ObservedInv, ObjsOK, ProcsOf
  <2> QED BY <2>1, <2>3, <2>4, ObservedConfig
<1>11. CASE RcvCgrpEvtUnlocked
  <2> PICK e : e = Head(cgrpEvts)
    OBVIOUS
  <2>1. /\ cgrpEvts # <<>> /\ cgrpEvts' = Tail(cgrpEvts)
        /\ podMap' = IF e.event = "MK" THEN AddPodConMap(podMap, e.pod, e.con)
                                       ELSE DelPodConMap(podMap, e.pod, e.con)
        /\ mapped' = IF e.con = NoCon THEN NoEvent ELSE e
        /\ UNCHANGED <<live, zombies, procEvts, cmd, params, confs, objs, ghosts, before, mpc>>
    BY <1>11 DEF RcvCgrpEvtUnlocked, RcvCgrpEvt, parseVars, machineVars, gapVars
  <2>2. e \in CgrpEvent /\ cgrpEvts' \in Seq(CgrpEvent)
    BY <2>1, HeadTailProperties DEF ObservedInv, WeakTypes
  <2>3. e.pod \in Pods \cup {FakePod} /\ e.con \in Containers \cup {NoCon}
    BY <2>2 DEF CgrpEvent
  <2>4. podMap' \in Maps
    <3> PICK m \in Maps : m = podMap
      BY DEF ObservedInv, WeakTypes
    <3> QED BY <2>1, <2>3, AddPodConMapType, DelPodConMapType
  <2>5. WeakTypes'
    BY <2>1, <2>2, <2>3, <2>4 DEF ObservedInv, WeakTypes
  <2> QED BY <1>1, <2>1, <2>5
<1>12. CASE KeepliveProbe \/ RecvIpcMsg \/ Death \/ UNCHANGED vars
  <2>1. UNCHANGED <<live, zombies, podMap, procEvts, cgrpEvts, mapped, cmd, params, confs, objs,
                    ghosts, before, mpc>>
    BY <1>12 DEF KeepliveProbe, RecvIpcMsg, Death, vars, snooperVars, machineVars, gapVars, parseVars
  <2> QED BY <1>1, <1>2, <2>1
<1>13. CASE Machine
  <2>1. mpc = "idle" /\ mpc' = "idle" /\ UNCHANGED <<cmd, params>> /\ MachineStep
    BY <1>13 DEF Machine, parseVars
  <2>2. ASSUME NEW p \in Procs, Exec(p) \/ Fork(p) \/ Exit(p) \/ Reap(p)
        PROVE  ObservedInv'
    <3>1. UNCHANGED <<confs, objs, ghosts, podMap, cgrpEvts, mapped>>
      BY <2>2 DEF Exec, Fork, Exit, Reap, gapVars
    <3>2. CASE Exec(p)
      <4>1. procEvts' = Append(procEvts, ExecOf(p)) /\ live' = live \cup {p}
            /\ live' \subseteq Procs /\ zombies' \subseteq Procs
        BY <3>2 DEF Exec, ExecOf, ObservedInv, WeakTypes
      <4> QED BY <2>1, <3>1, <4>1, EventFacts, ObservedProcess
    <3>3. CASE Exit(p)
      <4>1. procEvts' = Append(procEvts, ExitOf(p)) /\ live' = live \ {p}
            /\ live' \subseteq Procs /\ zombies' \subseteq Procs
        BY <3>3 DEF Exit, ExitOf, ObservedInv, WeakTypes
      <4> QED BY <2>1, <3>1, <4>1, EventFacts, ObservedProcess
    <3>4. CASE Fork(p) \/ Reap(p)
      <4>1. UNCHANGED procEvts /\ live \subseteq live' /\ live' \subseteq Procs
            /\ zombies' \subseteq Procs
        BY <3>4 DEF Fork, Reap, ObservedInv, WeakTypes
      <4>2. WeakTypes'
        BY <2>1, <3>1, <4>1 DEF ObservedInv, WeakTypes
      <4>3. ObjsOK(confs, objs, ghosts)' /\ EventsOK'
        BY <3>1, <4>1 DEF ObservedInv, ObjsOK, EventsOK
      <4> QED BY <2>1, <4>2, <4>3 DEF ObservedInv
    <3> QED BY <2>2, <3>2, <3>3, <3>4
  <2>3. ASSUME UNCHANGED <<confs, objs, ghosts, podMap, live, zombies, procEvts, mapped>>,
               NEW e \in CgrpEvent, cgrpEvts' = Append(cgrpEvts, e)
        PROVE  ObservedInv'
    <3>1. cgrpEvts' \in Seq(CgrpEvent)
      BY <2>3, AppendProperties DEF ObservedInv, WeakTypes
    <3>2. WeakTypes'
      BY <2>1, <2>3, <3>1 DEF ObservedInv, WeakTypes
    <3> QED BY <2>1, <2>3, <3>2, ObservedConfig DEF ObservedInv
  <2>4. ASSUME NEW c \in Containers, ConCreate(c) \/ ConRemove(c)
        PROVE  ObservedInv'
    <3>1. \A k \in {"MK", "RM"} : [event |-> k, pod |-> PodOf[c], con |-> c] \in CgrpEvent
      BY MachineAssumption DEF CgrpEvent
    <3> QED BY <2>3, <2>4, <3>1 DEF ConCreate, ConRemove, gapVars
  <2>5. ASSUME NEW p \in Pods, PodCreate(p) \/ PodRemove(p)
        PROVE  ObservedInv'
    <3>1. \A k \in {"MK", "RM"} : [event |-> k, pod |-> p, con |-> NoCon] \in CgrpEvent
      BY DEF CgrpEvent
    <3> QED BY <2>3, <2>5, <3>1 DEF PodCreate, PodRemove, gapVars
  <2> QED BY <2>1, <2>2, <2>4, <2>5 DEF MachineStep
<1> QED
  BY <1>3, <1>4, <1>5, <1>6, <1>7, <1>8, <1>9, <1>10, <1>11, <1>12, <1>13 DEF Next

(* The three invariants hold in every behaviour. *)
LEMMA AlwaysObserved == Spec => [](ObservedInv /\ RollbackInv /\ MapInv)
BY InitRollbackInv, NextRollbackInv, InitObserved, NextObserved, InitMap, NextMap, PTL DEF Spec

(* A process that has exited is not observed any more once its event is      *)
(* handled, for any lists of configurations, any number of processes and     *)
(* containers and any limit on the objects (snooper.c:978-985, 1183-1217).   *)
THEOREM NoDeadProcessObserved == Spec => []NoDeadProcess
<1>1. ObservedInv => NoDeadProcess
  <2> SUFFICES ASSUME ObservedInv, procEvts = <<>>, NEW p \in ProcsOf(objs)
               PROVE  p \in live \cup Named \cup ghosts
    BY DEF NoDeadProcess, NoProcEvts
  <2>1. ~Leaving(procEvts, p)
    BY DEF Leaving, Pending
  <2> QED BY <2>1 DEF ObservedInv, ObjsOK, ProcsOf, Named, NamedIn
<1> QED BY <1>1, AlwaysObserved, PTL

-----------------------------------------------------------------------------
(* The types of the rest: what the request and the process have. *)
RestTypes ==
  /\ started \in BOOLEAN /\ running \in BOOLEAN /\ stopped \in BOOLEAN
  /\ isRestart \in BOOLEAN /\ pid \in BOOLEAN /\ careful \in BOOLEAN
  /\ lost \in BOOLEAN /\ hung \in BOOLEAN
  /\ parsed \subseteq {"cmd", "snoopers", "params", "state"}
  /\ queue \in Seq(Message0)
  /\ loaded \in ((Ranges \cup {Range0}) \X Params) \cup {NotLoaded}
  /\ procMap \subseteq Procs /\ body \subseteq Procs
  /\ steps \in 0 .. MaxSteps

(* The types of the rest hold at the start. *)
LEMMA InitRest == Init => RestTypes
<1> SUFFICES ASSUME Init PROVE RestTypes
  OBVIOUS
<1>1. steps \in 0 .. MaxSteps /\ queue \in Seq(Message0)
  BY BoundsAssumption, EmptySeq DEF Init
<1>2. /\ started = FALSE /\ running = FALSE /\ stopped = FALSE /\ isRestart = FALSE /\ pid = FALSE
      /\ careful \in BOOLEAN /\ lost = FALSE /\ hung = FALSE
      /\ parsed = {} /\ loaded = NotLoaded /\ procMap = {} /\ body = {}
  BY DEF Init
<1> QED BY <1>1, <1>2 DEF RestTypes

(* What a message carries. *)
LEMMA MessageType ==
  ASSUME cmd \in Ranges \cup {NoCmd}, params \in Params,
         NEW flags \in SUBSET {"PARAMS", "SNOOPER"}, NEW o
  PROVE  Message(flags, o) \in Message0
BY DEF Message, Message0, RangeOf, ProcsOf

QueueTypes == queue \in Seq(Message0) /\ lost \in BOOLEAN

(* A message that is sent, or not. *)
LEMMA SendType ==
  ASSUME ObservedInv, RestTypes, NEW flags \in SUBSET {"PARAMS", "SNOOPER"}, NEW o,
         SendSnooperObj(flags, o)
  PROVE  QueueTypes'
<1>1. Message(flags, o) \in Message0
  BY MessageType DEF ObservedInv, WeakTypes
<1> PICK m \in Message0 : m = Message(flags, o)
  BY <1>1
<1>2. queue' \in {queue, Append(queue, m)} /\ lost' \in {lost, TRUE, lost \/ m.cons \/ ~m.fits}
  BY DEF SendSnooperObj, MsgSent, SendFailed, queueVars
<1>3. queue' \in Seq(Message0)
  BY <1>2, AppendProperties DEF RestTypes
<1>4. lost' \in BOOLEAN
  BY <1>2 DEF RestTypes
<1> QED BY <1>3, <1>4 DEF QueueTypes

(* What is left of the queue. *)
LEMMA TakenType ==
  ASSUME queue \in Seq(Message0), NEW n \in 0 .. Len(queue), Taken(n)
  PROVE  queue' \in Seq(Message0) /\ (n = Len(queue) => queue' = <<>>)
<1> PICK k \in Nat : k = Len(queue)
  BY LenProperties
<1>1. n + 1 \in Int /\ k \in Int /\ \A i \in n + 1 .. k : queue[i] \in Message0
  BY ElementOfSeq
<1>2. /\ SubSeq(queue, n + 1, k) \in Seq(Message0)
      /\ Len(SubSeq(queue, n + 1, k)) = IF n + 1 <= k THEN k - (n + 1) + 1 ELSE 0
  BY <1>1, SubSeqProperties
<1>3. n = k => ~(n + 1 <= k)
  OBVIOUS
<1> QED BY <1>2, <1>3, EmptySeq DEF Taken

(* Every step keeps the types of the rest. *)
LEMMA NextRest ==
  ASSUME ObservedInv, RestTypes, [Next]_vars
  PROVE  RestTypes'
<1>1. ASSUME UNCHANGED <<statusVars, careful, processVars, steps>>, QueueTypes',
             parsed' \subseteq {"cmd", "snoopers", "params", "state"}
      PROVE  RestTypes'
  BY <1>1 DEF RestTypes, statusVars, processVars, QueueTypes
<1>2. steps \in 0 .. MaxSteps /\ MaxSteps \in Nat
  BY BoundsAssumption DEF RestTypes
<1>3. CountStep => steps' \in 0 .. MaxSteps
  BY <1>2 DEF CountStep
<1>4. CASE RequestBegin \/ Machine
  <2>1. UNCHANGED <<statusVars, careful, queue, lost, processVars>> /\ steps' \in 0 .. MaxSteps
        /\ (parsed' = parsed \/ parsed' = {})
    BY <1>3, <1>4 DEF RequestBegin, Machine, parseVars, queueVars
  <2> QED BY <2>1 DEF RestTypes, statusVars, processVars
<1>5. CASE ItemAbsent \/ StopIdle \/ BadState \/ (\E r \in Ranges, ok \in BOOLEAN : ParseCmd(r, ok))
           \/ (\E list \in ConfLists : ParseSnoopers(list))
           \/ (\E p \in Params, ok \in BOOLEAN : ParseParams(p, ok)) \/ RollbackProbe
  <2>1. UNCHANGED <<statusVars, careful, queue, lost, processVars, steps>>
        /\ (\/ parsed' \in {parsed, {}}
            \/ \E i \in {"cmd", "snoopers", "params", "state"} : parsed' = parsed \cup {i})
    BY <1>5 DEF ItemAbsent, StopIdle, BadState, ParseCmd, ParseSnoopers, ParseParams, RollbackProbe,
                ItemParsed, RequestDone, queueVars
  <2> QED BY <1>1, <2>1 DEF RestTypes, QueueTypes
<1>6. CASE StopProbe \/ StopHangs \/ StopJoined \/ StopFails
           \/ (\E ready \in BOOLEAN : StartProbe(ready))
  <2>1. /\ UNCHANGED <<careful, steps>> /\ parsed' \in {parsed, parsed \cup {"state"}}
        /\ UNCHANGED queueVars \/ (ClearIpcMsg /\ lost' = (queue' # <<>>))
    BY <1>6 DEF StopProbe, StopHangs, StopJoined, StopFails, StartProbe, ItemParsed
  <2>2. UNCHANGED processVars \/ NewProcess
    BY <1>6 DEF StopProbe, StopHangs, StopJoined, StopFails, StartProbe
  <2>3. /\ started' \in {started, TRUE, FALSE} /\ running' \in {running, TRUE, FALSE}
        /\ stopped' \in {stopped, TRUE, FALSE} /\ isRestart' \in {isRestart, stopped}
        /\ pid' \in {pid, TRUE, FALSE}
    BY <1>6 DEF StopProbe, StopHangs, StopJoined, StopFails, StartProbe, statusVars
  <2>4. /\ loaded' \in ((Ranges \cup {Range0}) \X Params) \cup {NotLoaded}
        /\ procMap' \subseteq Procs /\ body' \subseteq Procs /\ hung' \in BOOLEAN
    <3>1. CASE UNCHANGED processVars
      BY <3>1 DEF RestTypes, processVars
    <3>2. CASE NewProcess
      BY <3>2 DEF NewProcess
    <3> QED BY <2>2, <3>1, <3>2
  <2>5. parsed' \subseteq {"cmd", "snoopers", "params", "state"}
        /\ careful' \in BOOLEAN /\ steps' \in 0 .. MaxSteps
    BY <2>1 DEF RestTypes
  <2>6. /\ started' \in BOOLEAN /\ running' \in BOOLEAN /\ stopped' \in BOOLEAN
        /\ isRestart' \in BOOLEAN /\ pid' \in BOOLEAN
    BY <2>3 DEF RestTypes
  <2>7. QueueTypes'
    <3>1. CASE UNCHANGED queueVars
      BY <3>1 DEF queueVars, QueueTypes, RestTypes
    <3>2. CASE ClearIpcMsg /\ lost' = (queue' # <<>>)
      BY <3>2, TakenType DEF ClearIpcMsg, QueueTypes, RestTypes
    <3> QED BY <2>1, <3>1, <3>2
  <2> QED BY <2>4, <2>5, <2>6, <2>7 DEF RestTypes, QueueTypes
<1>7. CASE RequestEnd
  <2>1. UNCHANGED <<statusVars, careful, processVars, steps>> /\ parsed' = {}
        /\ (SendSnooperObj(ProbeModify, objs) \/ UNCHANGED <<queue, lost>>)
    BY <1>7 DEF RequestEnd, RequestDone, queueVars
  <2>2. ProbeModify \in SUBSET {"PARAMS", "SNOOPER"}
    BY DEF ProbeModify
  <2>3. QueueTypes'
    BY <2>1, <2>2, SendType DEF RestTypes, QueueTypes
  <2> QED BY <1>1, <2>1, <2>3
<1>8. CASE RcvProcEvt \/ RcvCgrpEvtLocked
  <2>1. UNCHANGED <<statusVars, careful, processVars, steps, parsed>>
        /\ (SendSnooperObj({"SNOOPER"}, objs') \/ UNCHANGED <<queue, lost>>)
    BY <1>8 DEF RcvProcEvt, RcvCgrpEvtLocked, parseVars, queueVars
  <2>2. PICK o : o = objs'
    OBVIOUS
  <2>3. QueueTypes'
    BY <2>1, <2>2, SendType DEF RestTypes, QueueTypes
  <2> QED BY <1>1, <2>1, <2>3 DEF RestTypes
<1>9. CASE RecvIpcMsg
  <2>1. UNCHANGED <<statusVars, careful, lost, steps, parsed>>
    BY <1>9 DEF RecvIpcMsg, parseVars
  <2>2. PICK n \in 1 .. Len(queue) :
          Takes(n) /\ Taken(n) /\ IF queue[n].cons THEN FailToDecode ELSE LoadMsg(queue[n])
    BY <1>9 DEF RecvIpcMsg
  <2>3. queue \in Seq(Message0) /\ Len(queue) \in Nat
    BY LenProperties DEF RestTypes
  <2> PICK m \in Message0 : m = queue[n]
    BY <2>3, ElementOfSeq
  <2>4. queue' \in Seq(Message0)
    BY <2>2, <2>3, TakenType
  <2>5. /\ loaded' \in {<<m.cmd, m.params>>, loaded} /\ body' \in {m.procs, body}
        /\ procMap' \in {(procMap \ body) \cup m.procs, procMap}
        /\ hung' \in {hung, TRUE, FALSE}
    BY <2>2 DEF FailToDecode, LoadMsg
  <2>6. m.cmd \in Ranges \cup {Range0} /\ m.params \in Params /\ m.procs \subseteq Procs
    BY DEF Message0
  <2>7. /\ loaded' \in ((Ranges \cup {Range0}) \X Params) \cup {NotLoaded}
        /\ procMap' \subseteq Procs /\ body' \subseteq Procs
    BY <2>5, <2>6 DEF RestTypes
  <2>8. hung' \in BOOLEAN
    BY <2>5 DEF RestTypes
  <2> QED BY <2>1, <2>4, <2>7, <2>8 DEF RestTypes, statusVars
<1>10. CASE KeepliveProbe
  <2>1. UNCHANGED <<started, isRestart, pid, careful, queue, lost, steps, parsed>> /\ running' = TRUE
        /\ stopped' = FALSE /\ NewProcess
    BY <1>10 DEF KeepliveProbe, parseVars, queueVars
  <2> QED BY <2>1 DEF RestTypes, NewProcess
<1>11. CASE Death
  <2>1. UNCHANGED <<started, isRestart, pid, careful, lost, parsed>> /\ running' = FALSE
        /\ stopped' = TRUE /\ ClearIpcMsg /\ NewProcess /\ steps' \in 0 .. MaxSteps
    BY <1>3, <1>11 DEF Death, parseVars
  <2>2. queue' \in Seq(Message0)
    BY <2>1, TakenType DEF ClearIpcMsg, RestTypes
  <2> QED BY <2>1, <2>2 DEF RestTypes, NewProcess
<1>12. CASE RcvCgrpEvtUnlocked \/ UNCHANGED vars
  <2>1. UNCHANGED <<statusVars, careful, queue, lost, processVars, steps, parsed>>
    BY <1>12 DEF RcvCgrpEvtUnlocked, vars, parseVars, queueVars
  <2> QED BY <1>1, <2>1 DEF RestTypes, QueueTypes
<1> QED BY <1>4, <1>5, <1>6, <1>7, <1>8, <1>9, <1>10, <1>11, <1>12 DEF Next

-----------------------------------------------------------------------------
(* Which processes are not missed. *)

(* Every live process that is asked for is observed or about to be added,    *)
(* except those in q.                                                        *)
Seen(cf, o, c, q) ==
  ~c => \A p \in live \ q : (\E i \in 1 .. Len(cf) : p \in Ask(cf[i])) =>
          o[ProcObj(p)] > 0 \/ Entering(procEvts, p)

(* Behind the exit of an earlier process with the same pid comes the exec. *)
ExitsOK(q) ==
  \A p \in live \ q : \A k \in 1 .. Len(procEvts) :
    procEvts[k] = ExitOf(p) => Entering(procEvts, p)

(* What the steps need of the lists besides. *)
Sound(cf, o, c, g, q) ==
  /\ c \in BOOLEAN /\ g \subseteq Procs /\ q \subseteq Procs
  /\ Room(cf, o) /\ ExitsOK(q)

(* The strengthening: for the objects in use, except those of a list that    *)
(* was refused and is about to be rolled back, and for those a rollback      *)
(* would restore.                                                            *)
SeenInv ==
  /\ Sound(confs, objs, cut, ghosts, quiet)
  /\ mpc # "rollback" => Seen(confs, objs, cut, quiet)
  /\ mpc # "idle" =>
       /\ Sound(RolledBack.confs, RolledBack.objs, RolledCut, RolledGhosts, RolledQuiet)
       /\ Seen(RolledBack.confs, RolledBack.objs, RolledCut, RolledQuiet)

(* Nothing is asked for at the start. *)
LEMMA InitSeen == Init => SeenInv
<1> SUFFICES ASSUME Init PROVE SeenInv
  OBVIOUS
<1>1. confs = <<>> /\ objs = NoObjs /\ procEvts = <<>> /\ cut = FALSE /\ mpc = "idle"
      /\ ghosts = {} /\ quiet = {}
  BY DEF Init, SnooperInit
<1>2. Room(confs, objs)
  BY <1>1, ObjNumFacts, ConfAssumption DEF Room, NoObjs
<1>3. Len(confs) = 0 /\ Len(procEvts) = 0 /\ \A i \in 1 .. 0 : FALSE
  BY <1>1
<1>4. Seen(confs, objs, cut, quiet) /\ ExitsOK(quiet)
  BY <1>3 DEF Seen, ExitsOK
<1> QED BY <1>1, <1>2, <1>4 DEF SeenInv, Sound

(* A process is executed or exits. *)
LEMMA SeenProcess ==
  ASSUME ObservedInv, SeenInv, mpc = "idle", mpc' = "idle", NEW p \in Procs,
         NEW e \in {ExecOf(p), ExitOf(p)},
         procEvts' = Append(procEvts, e),
         e = ExecOf(p) => live' = live \cup {p}, e = ExitOf(p) => live' = live \ {p},
         quiet' = quiet \ {p}, UNCHANGED <<confs, objs, cut, ghosts>>
  PROVE  SeenInv'
<1> PICK evts \in Seq(ProcEvent) : evts = procEvts
  BY DEF ObservedInv, WeakTypes
<1>1. e \in ProcEvent
  BY EventFacts
<1>2. /\ Len(procEvts') = Len(evts) + 1 /\ Len(evts) \in Nat /\ procEvts'[Len(evts) + 1] = e
      /\ \A i \in 1 .. Len(evts) : procEvts'[i] = evts[i]
  BY <1>1, AppendProperties, LenProperties
<1>3. ASSUME NEW q \in live' \ quiet'
      PROVE  /\ e # ExitOf(q) /\ (q \in live \ quiet \/ e = ExecOf(q))
             /\ (Entering(procEvts, q) \/ e = ExecOf(q)) => Entering(procEvts', q)
  <2>1. e # ExitOf(q) /\ (q \in live \ quiet \/ e = ExecOf(q))
    <3>1. CASE e = ExecOf(p)
      BY <3>1, EventFacts
    <3>2. CASE e = ExitOf(p)
      BY <3>2, EventFacts
    <3> QED BY <3>1, <3>2
  <2> QED BY <1>1, <2>1, PendingAppend DEF Entering
<1>4. Seen(confs, objs, cut, quiet)'
  <2> SUFFICES ASSUME ~cut, NEW q \in live' \ quiet', NEW i \in 1 .. Len(confs),
                      q \in Ask(confs[i])'
               PROVE  objs[ProcObj(q)] > 0 \/ Entering(procEvts', q)
    BY DEF Seen
  <2>1. CASE q \in live \ quiet
    <3>1. q \in Ask(confs[i])
      BY <2>1 DEF Ask, InProc
    <3>2. objs[ProcObj(q)] > 0 \/ Entering(procEvts, q)
      BY <2>1, <3>1 DEF SeenInv, Seen
    <3> QED BY <1>3, <3>2
  <2>2. CASE q \notin live \ quiet
    BY <1>3, <2>2
  <2> QED BY <2>1, <2>2
<1>5. ExitsOK(quiet)'
  <2> SUFFICES ASSUME NEW q \in live' \ quiet', NEW k \in 1 .. Len(procEvts'), procEvts'[k] = ExitOf(q)
               PROVE  Entering(procEvts', q)
    BY DEF ExitsOK
  <2>1. k \in 1 .. Len(evts) /\ evts[k] = ExitOf(q)
    <3>1. k \in 1 .. Len(evts) \/ k = Len(evts) + 1
      BY <1>2
    <3> QED BY <1>2, <1>3, <3>1
  <2>2. q \in live \ quiet => Entering(procEvts, q)
    BY <2>1 DEF SeenInv, Sound, ExitsOK
  <2> QED BY <1>3, <2>2
<1>6. Room(confs, objs)' /\ cut' \in BOOLEAN /\ ghosts' \subseteq Procs /\ quiet' \subseteq Procs
  BY DEF SeenInv, Sound, Room
<1> QED BY <1>4, <1>5, <1>6 DEF SeenInv, Sound

(* A process is forked or reaped: no other has to be observed. *)
LEMMA SeenSilent ==
  ASSUME SeenInv, mpc = "idle", mpc' = "idle", live' \ quiet' \subseteq live \ quiet,
         quiet' \subseteq Procs, UNCHANGED <<procEvts, confs, objs, cut, ghosts>>
  PROVE  SeenInv'
<1>1. ASSUME NEW q \in live' \ quiet', NEW i \in 1 .. Len(confs), q \in Ask(confs[i])'
      PROVE  q \in live \ quiet /\ q \in Ask(confs[i])
  BY <1>1 DEF Ask, InProc
<1>2. Seen(confs, objs, cut, quiet)'
  BY <1>1 DEF SeenInv, Seen
<1>3. ExitsOK(quiet)'
  BY DEF SeenInv, Sound, ExitsOK
<1> QED BY <1>2, <1>3 DEF SeenInv, Sound, Room

(* Copies of an object are added: nothing is lost, and the object is there   *)
(* if there was room for all.                                                *)
LEMMA AddsCopies ==
  ASSUME NEW o \in [Obj -> Nat], ObjNum(o) <= SnooperMax, NEW x \in Obj, NEW n \in Nat
  PROVE  /\ AddObjs(o, Copies(x, n)) \in [Obj -> Nat]
         /\ ObjNum(AddObjs(o, Copies(x, n))) <= SnooperMax
         /\ \A y \in Obj : o[y] > 0 => AddObjs(o, Copies(x, n))[y] > 0
         /\ n > 0 /\ ~(ObjNum(o) + n > SnooperMax) => AddObjs(o, Copies(x, n))[x] > 0
<1> PICK q : q = Copies(x, n)
  OBVIOUS
<1>1. q \in Seq(Obj) /\ Len(q) = n /\ \A i \in 1 .. n : q[i] = x
  <2>1. q \in [1 .. n -> Obj]
    BY DEF Copies
  <2>2. q \in Seq(Obj)
    BY <2>1, SeqDef
  <2> QED BY <2>1, <2>2, LenProperties DEF Copies
<1> PICK r : r = AddObjs(o, q)
  OBVIOUS
<1>2. Filled(o, q, n, r)
  BY <1>1, AddObjsFill
<1>3. /\ r \in [Obj -> Nat] /\ ObjNum(r) <= SnooperMax /\ \A y \in Obj : o[y] <= r[y]
      /\ ObjNum(o) + n <= SnooperMax => \A i \in 1 .. n : r[q[i]] > 0
  BY <1>1, <1>2 DEF Filled
<1>4. ASSUME NEW y \in Obj, o[y] > 0
      PROVE  r[y] > 0
  <2>1. o[y] \in Nat /\ r[y] \in Nat /\ o[y] <= r[y]
    BY <1>3
  <2> QED BY <1>4, <2>1
<1>5. ASSUME n > 0, ~(ObjNum(o) + n > SnooperMax)
      PROVE  r[x] > 0
  <2>1. ObjNum(o) \in Nat /\ SnooperMax \in Nat
    BY ObjNumFacts, ConfAssumption
  <2>2. ObjNum(o) + n <= SnooperMax /\ 1 \in 1 .. n
    BY <1>5, <2>1
  <2> QED BY <1>1, <1>3, <2>2
<1> QED BY <1>3, <1>4, <1>5

(* Removing an object makes no more of them. *)
LEMMA RemoveRoom ==
  ASSUME NEW o \in [Obj -> Nat], ObjNum(o) <= SnooperMax, NEW x \in Obj
  PROVE  ObjNum(RemoveObj(o, x)) <= SnooperMax
<1> PICK r : r = RemoveObj(o, x)
  OBVIOUS
<1>1. r \in [Obj -> Nat] /\ r[x] = 0 /\ \A y \in Obj : y # x => r[y] = o[y]
  BY RemoveFacts
<1>2. \A y \in Obj : o[y] \in Nat
  OBVIOUS
<1>3. \A y \in Obj : r[y] <= o[y]
  BY <1>1, <1>2
<1>4. ObjNum(r) <= ObjNum(o) /\ ObjNum(r) \in Nat /\ ObjNum(o) \in Nat /\ SnooperMax \in Nat
  BY <1>1, <1>3, ObjNumFacts, ConfAssumption
<1> QED BY <1>4

(* Handling an event of p loses no other process, and p itself only when it  *)
(* exits.                                                                    *)
LEMMA ProcKeeps ==
  ASSUME confs \in Seq(Conf), Room(confs, objs), cut \in BOOLEAN, NEW e \in ProcEvent,
         HandleProcEvt(e)
  PROVE  /\ Room(confs, objs') /\ cut' \in BOOLEAN /\ (cut => cut')
         /\ ghosts' \subseteq ghosts /\ quiet' = quiet
         /\ \A q \in Procs : objs[ProcObj(q)] > 0 /\ e # ExitOf(q) => objs'[ProcObj(q)] > 0
         /\ ~cut' => \A q \in live : \A i \in 1 .. Len(confs) :
              e = ExecOf(q) /\ q \in Ask(confs[i]) /\ q \in Procs => objs'[ProcObj(q)] > 0
<1> PICK p \in Procs : p = e.pid
  BY EventFacts
<1>0. objs \in [Obj -> Nat] /\ ObjNum(objs) <= SnooperMax /\ ProcObj(p) \in Obj
  BY ProcObjFacts DEF Room
<1> DEFINE hits == {k \in 1 .. Len(confs) : ExecMatches(p, confs[k])}
<1>1. CASE e.event = "EXEC"
  <2>1. /\ objs' = AddObjs(objs, Copies(ProcObj(p), Cardinality(hits)))
        /\ cut' = (cut \/ ObjNum(objs) + Cardinality(hits) > SnooperMax)
        /\ ghosts' = ghosts /\ quiet' = quiet
    BY <1>1 DEF HandleProcEvt, ProcExec, Copies
  <2>2. hits \subseteq 1 .. Len(confs) /\ Len(confs) \in Nat
    BY LenProperties
  <2>3. e = ExecOf(p) /\ \A q : e # ExitOf(q)
    BY <1>1, EventFacts
  <2>4. ASSUME NEW q \in live, NEW i \in 1 .. Len(confs), e = ExecOf(q), q \in Ask(confs[i])
        PROVE  hits # {} /\ q = p
    <3>1. q = p
      BY <2>3, <2>4, EventFacts
    <3>2. ExecMatches(p, confs[i])
      BY <2>4, <3>1 DEF Ask, ExecMatches, InProc
    <3> QED BY <3>1, <3>2
  <2> HIDE DEF hits
  <2>5. IsFiniteSet(hits) /\ Cardinality(hits) \in Nat /\ (hits # {} => Cardinality(hits) > 0)
    <3>0. IsFiniteSet(1 .. Len(confs))
      BY <2>2, FS_Interval
    <3>1. IsFiniteSet(hits)
      BY <2>2, <3>0, FS_Subset
    <3>2. Cardinality(hits) \in Nat /\ (Cardinality(hits) = 0 <=> hits = {})
      BY <3>1, FS_CardinalityType, FS_EmptySet
    <3> QED BY <3>1, <3>2
  <2> PICK n \in Nat, o \in [Obj -> Nat], r \in {objs'} : n = Cardinality(hits) /\ o = objs /\ r = objs'
    BY <1>0, <2>5
  <2>6. r = AddObjs(o, Copies(ProcObj(p), n))
    BY <2>1
  <2>7. /\ r \in [Obj -> Nat] /\ ObjNum(r) <= SnooperMax
        /\ \A y \in Obj : o[y] > 0 => r[y] > 0
        /\ n > 0 /\ ~(ObjNum(o) + n > SnooperMax) => r[ProcObj(p)] > 0
    BY <1>0, <2>6, AddsCopies
  <2>8. cut' \in BOOLEAN /\ (cut => cut') /\ (~cut' => ~(ObjNum(o) + n > SnooperMax))
    BY <2>1
  <2>9. Room(confs, objs')
    BY <2>7 DEF Room
  <2>10. \A q \in Procs : objs[ProcObj(q)] > 0 => objs'[ProcObj(q)] > 0
    BY <2>7, ProcObjFacts
  <2>11. ASSUME ~cut', NEW q \in live, NEW i \in 1 .. Len(confs), e = ExecOf(q), q \in Ask(confs[i])
         PROVE  objs'[ProcObj(q)] > 0
    <3>1. q = p /\ n > 0
      BY <2>4, <2>5, <2>11
    <3> QED BY <2>7, <2>8, <2>11, <3>1
  <2> QED BY <2>1, <2>8, <2>9, <2>10, <2>11
<1>2. CASE e.event # "EXEC"
  <2>1. /\ objs' = RemoveObj(objs, ProcObj(p)) /\ cut' = cut /\ e = ExitOf(p)
        /\ \A q : e # ExecOf(q)
        /\ ghosts' = ghosts \ {p} /\ quiet' = quiet
    BY <1>2, EventFacts DEF HandleProcEvt, ProcExit
  <2>2. /\ objs' \in [Obj -> Nat] /\ \A y \in Obj : y # ProcObj(p) => objs'[y] = objs[y]
    BY <1>0, <2>1, RemoveFacts
  <2>3. Room(confs, objs')
    BY <1>0, <2>1, <2>2, RemoveRoom DEF Room
  <2>4. ASSUME NEW q \in Procs, objs[ProcObj(q)] > 0, e # ExitOf(q)
        PROVE  objs'[ProcObj(q)] > 0
    BY <2>1, <2>2, <2>4, ProcObjFacts
  <2> QED BY <2>1, <2>3, <2>4
<1> QED BY <1>1, <1>2

(* An event of a container takes no process away. *)
LEMMA CgrpKeeps ==
  ASSUME confs \in Seq(Conf), Room(confs, objs), cut \in BOOLEAN, NEW e \in CgrpEvent,
         e.con \in Containers,
         HandleCgrpEvt(e)
  PROVE  /\ Room(confs, objs') /\ cut' \in BOOLEAN /\ (cut => cut')
         /\ \A q \in Procs : objs[ProcObj(q)] > 0 => objs'[ProcObj(q)] > 0
<1> PICK x : x = ConObj(e.con)
  OBVIOUS
<1>0. x \in Obj /\ (\A p : ProcObj(p) # x) /\ objs \in [Obj -> Nat] /\ ObjNum(objs) <= SnooperMax
  BY ProcObjFacts DEF ConObj, Obj, Room
<1> DEFINE hits == {k \in 1 .. Len(confs) : CgrpMatches(e.pod, e.con, confs[k])}
<1>1. CASE e.event = "MK"
  <2>1. /\ objs' = AddObjs(objs, Copies(x, Cardinality(hits)))
        /\ cut' = (cut \/ ObjNum(objs) + Cardinality(hits) > SnooperMax)
    BY <1>1 DEF HandleCgrpEvt, CgrpExec, Copies
  <2>2. hits \subseteq 1 .. Len(confs) /\ Len(confs) \in Nat
    BY LenProperties
  <2> HIDE DEF hits
  <2>3. Cardinality(hits) \in Nat
    BY <2>2, HitsCount
  <2> PICK n \in Nat, o \in [Obj -> Nat], r \in {objs'} : n = Cardinality(hits) /\ o = objs /\ r = objs'
    BY <1>0, <2>3
  <2>4. r = AddObjs(o, Copies(x, n))
    BY <2>1
  <2>5. r \in [Obj -> Nat] /\ ObjNum(r) <= SnooperMax /\ \A y \in Obj : o[y] > 0 => r[y] > 0
    BY <1>0, <2>4, AddsCopies
  <2>6. cut' \in BOOLEAN /\ (cut => cut')
    BY <2>1
  <2> QED BY <2>5, <2>6, ProcObjFacts DEF Room
<1>2. CASE e.event # "MK"
  <2>1. objs' = RemoveObj(objs, x) /\ cut' = cut
    BY <1>2 DEF HandleCgrpEvt, CgrpExit, gapVars
  <2>2. /\ objs' \in [Obj -> Nat] /\ \A y \in Obj : y # x => objs'[y] = objs[y]
    BY <1>0, <2>1, RemoveFacts
  <2>3. Room(confs, objs')
    BY <1>0, <2>1, <2>2, RemoveRoom DEF Room
  <2> QED BY <1>0, <2>1, <2>2, <2>3, ProcObjFacts
<1> QED BY <1>1, <1>2

(* The first event is handled: what it was pending for is done. *)
LEMMA SeenEvent ==
  ASSUME ObservedInv, SeenInv, RcvProcEvt
  PROVE  SeenInv'
<1>1. /\ mpc = "idle" /\ mpc' = "idle" /\ procEvts # <<>> /\ procEvts' = Tail(procEvts)
      /\ HandleProcEvt(Head(procEvts)) /\ UNCHANGED <<confs, live, zombies>>
  BY DEF RcvProcEvt, parseVars, machineVars
<1> PICK evts \in Seq(ProcEvent) : evts = procEvts
  BY DEF ObservedInv, WeakTypes
<1> PICK e : e = Head(evts)
  OBVIOUS
<1>2. /\ e \in ProcEvent /\ Len(evts) \in Nat \ {0} /\ Len(procEvts') = Len(evts) - 1
      /\ \A i \in 1 .. Len(procEvts') : procEvts'[i] = evts[i + 1]
      /\ e = evts[1]
  BY <1>1, HeadTailProperties, LenProperties, EmptySeq
<1>3. confs \in Seq(Conf) /\ live \subseteq Procs
  BY DEF ObservedInv, ObjsOK, WeakTypes
<1>4. /\ Room(confs, objs') /\ cut' \in BOOLEAN /\ (cut => cut')
      /\ ghosts' \subseteq ghosts /\ quiet' = quiet
      /\ \A q \in Procs : objs[ProcObj(q)] > 0 /\ e # ExitOf(q) => objs'[ProcObj(q)] > 0
      /\ ~cut' => \A q \in live : \A i \in 1 .. Len(confs) :
           e = ExecOf(q) /\ q \in Ask(confs[i]) /\ q \in Procs => objs'[ProcObj(q)] > 0
  BY <1>1, <1>2, <1>3, ProcKeeps DEF SeenInv, Sound
<1>5. ASSUME NEW q, Entering(evts, q), e # ExecOf(q) \/ \E j \in 2 .. Len(evts) : evts[j] = ExitOf(q)
      PROVE  Entering(procEvts', q)
  BY <1>1, <1>5, PendingTail DEF Entering
<1>6. Seen(confs, objs, cut, quiet)'
  <2> SUFFICES ASSUME ~cut', NEW q \in live \ quiet, NEW i \in 1 .. Len(confs),
                      q \in Ask(confs[i])'
               PROVE  objs'[ProcObj(q)] > 0 \/ Entering(procEvts', q)
    BY <1>1, <1>4 DEF Seen
  <2>1. q \in Procs /\ q \in Ask(confs[i]) /\ ~cut
    BY <1>1, <1>3, <1>4 DEF Ask, InProc
  <2>2. objs[ProcObj(q)] > 0 \/ Entering(evts, q)
    BY <1>1, <2>1 DEF SeenInv, Seen
  <2>3. CASE e = ExecOf(q)
    BY <1>4, <2>1, <2>3
  <2>4. CASE e = ExitOf(q)
    <3>1. Entering(evts, q)
      <4>1. 1 \in 1 .. Len(evts)
        BY <1>2
      <4> QED BY <1>2, <2>4, <4>1 DEF SeenInv, Sound, ExitsOK
    <3>2. e # ExecOf(q)
      BY <2>4, EventFacts
    <3> QED BY <1>5, <3>1, <3>2
  <2>5. CASE e # ExecOf(q) /\ e # ExitOf(q)
    BY <1>4, <1>5, <2>1, <2>2, <2>5
  <2> QED BY <2>3, <2>4, <2>5
<1>7. ExitsOK(quiet)'
  <2> SUFFICES ASSUME NEW q \in live \ quiet, NEW k \in 1 .. Len(procEvts'),
                      procEvts'[k] = ExitOf(q)
               PROVE  Entering(procEvts', q)
    BY <1>1, <1>4 DEF ExitsOK
  <2>1. k + 1 \in 2 .. Len(evts) /\ k + 1 \in 1 .. Len(evts) /\ evts[k + 1] = ExitOf(q)
    BY <1>2
  <2>2. Entering(evts, q)
    BY <2>1 DEF SeenInv, Sound, ExitsOK
  <2> QED BY <1>5, <2>1, <2>2
<1>8. Room(confs, objs)' /\ ghosts' \subseteq Procs /\ quiet' \subseteq Procs
  BY <1>1, <1>4 DEF Room, SeenInv, Sound
<1> QED BY <1>1, <1>4, <1>6, <1>7, <1>8 DEF SeenInv, Sound

(* Steps that leave the processes and their events alone. *)
LEMMA SeenConfig ==
  ASSUME SeenInv, UNCHANGED <<live, zombies, procEvts>>,
         Sound(confs', objs', cut', ghosts', quiet'),
         mpc' # "rollback" => Seen(confs', objs', cut', quiet'),
         mpc' # "idle" =>
           /\ Sound(RolledBack'.confs, RolledBack'.objs, RolledCut', RolledGhosts', RolledQuiet')
           /\ Seen(RolledBack'.confs, RolledBack'.objs, RolledCut', RolledQuiet')
  PROVE  SeenInv'
<1>1. Sound(confs, objs, cut, ghosts, quiet)' /\ (mpc' # "rollback" => Seen(confs, objs, cut, quiet)')
  BY DEF Sound, Seen, ExitsOK, Room, Ask, InProc
<1>2. mpc' # "idle" =>
        /\ Sound(RolledBack.confs, RolledBack.objs, RolledCut, RolledGhosts, RolledQuiet)'
        /\ Seen(RolledBack.confs, RolledBack.objs, RolledCut, RolledQuiet)'
  BY DEF Sound, Seen, ExitsOK, Room, Ask, InProc
<1> QED BY <1>1, <1>2 DEF SeenInv

RolledSame ==
  /\ UNCHANGED <<RolledCut, RolledGhosts, RolledQuiet>>
  /\ RolledBack'.confs = RolledBack.confs /\ RolledBack'.objs = RolledBack.objs

(* What would be rolled back is still what it was. *)
LEMMA SeenKept ==
  ASSUME SeenInv, UNCHANGED <<live, zombies, procEvts, confs, objs, cut, ghosts, quiet>>,
         mpc # "idle", mpc # "rollback", mpc' # "idle" => RolledSame
  PROVE  SeenInv'
BY SeenConfig DEF SeenInv, RolledSame

(* Every step keeps what is asked for observed. *)
LEMMA NextSeen ==
  ASSUME ObservedInv, MapInv, RollbackInv, RestTypes, SeenInv, [Next]_vars
  PROVE  SeenInv'
<1>0. ASSUME UNCHANGED <<live, zombies, procEvts, confs, objs, cut, ghosts, quiet, mpc, backup, parsed>>
      PROVE  SeenInv'
  <2>1. RolledSame
    BY <1>0 DEF RolledSame, RolledCut, RolledGhosts, RolledQuiet, Restored, RolledBack
  <2> QED BY <1>0, <2>1, SeenConfig DEF SeenInv, RolledSame
<1>1. CASE RequestBegin
  <2>1. /\ mpc = "idle" /\ mpc' = "cmd" /\ parsed' = {} /\ backup' = ZeroBackup
        /\ UNCHANGED <<live, zombies, procEvts, confs, objs, cut, ghosts, quiet>>
    BY <1>1 DEF RequestBegin, snooperVars, machineVars, gapVars
  <2>2. /\ RolledCut' = cut /\ RolledGhosts' = ghosts /\ RolledQuiet' = quiet
        /\ RolledBack'.confs = confs /\ RolledBack'.objs = objs
    BY <2>1 DEF RolledCut, RolledGhosts, RolledQuiet, Restored, RolledBack
  <2> QED BY <2>1, <2>2, SeenConfig DEF SeenInv
<1>2. CASE ItemAbsent \/ StopIdle \/ StopProbe \/ StopHangs \/ StopJoined \/ StopFails \/ BadState
           \/ RequestEnd \/ (\E ready \in BOOLEAN : StartProbe(ready))
  <2>1. UNCHANGED <<live, zombies, procEvts, confs, objs, cut, ghosts, quiet>>
    BY <1>2 DEF ItemAbsent, StopIdle, StopProbe, StopHangs, StopJoined, StopFails, BadState,
                RequestEnd, StartProbe, snooperVars, machineVars, gapVars
  <2>2. /\ mpc # "idle" /\ mpc # "rollback"
        /\ mpc' # "idle" => UNCHANGED backup /\ ("snoopers" \in parsed' <=> "snoopers" \in parsed)
    BY <1>2 DEF ItemAbsent, StopIdle, StopProbe, StopHangs, StopJoined, StopFails, BadState,
                RequestEnd, StartProbe, ItemParsed, RequestDone
  <2>3. mpc' # "idle" => RolledSame
    BY <2>1, <2>2, RolledKept DEF RolledSame, Restored, RolledBack
  <2> QED BY <2>1, <2>2, <2>3, SeenKept
<1>3. CASE (\E r \in Ranges, ok \in BOOLEAN : ParseCmd(r, ok))
           \/ (\E p \in Params, ok \in BOOLEAN : ParseParams(p, ok))
  <2>1. /\ UNCHANGED <<live, zombies, procEvts, confs, objs, cut, ghosts, quiet>>
        /\ mpc # "idle" /\ mpc # "rollback"
        /\ ("snoopers" \in parsed' <=> "snoopers" \in parsed)
        /\ (backup' = [backup EXCEPT !.cmd = cmd] \/ backup' = [backup EXCEPT !.params = params])
    BY <1>3 DEF ParseCmd, ParseParams, ItemParsed, snooperVars, machineVars, gapVars
  <2>2. backup'.confs = backup.confs /\ backup'.objs = backup.objs
    BY <2>1 DEF RollbackInv, BackupType
  <2>3. mpc' # "idle" => RolledSame
    BY <2>1, <2>2, RolledKept DEF RolledSame, Restored, RolledBack
  <2> QED BY <2>1, <2>3, SeenKept
<1>4. ASSUME NEW list \in ConfLists, ParseSnoopers(list)
      PROVE  SeenInv'
  <2>1. /\ mpc = "snoopers" /\ mpc' = (IF ~ParseFails(list) THEN "params" ELSE "rollback")
        /\ parsed' = parsed \cup {"snoopers"}
        /\ backup' = [backup EXCEPT !.confs = confs, !.objs = objs,
                                    !.cut = cut, !.ghosts = ghosts, !.quiet = quiet]
        /\ ParseSnooper(list) /\ list \in Seq(Conf) /\ UNCHANGED <<live, zombies, procEvts>>
    BY <1>4, ConfAssumption DEF ParseSnoopers, ItemParsed, NextItem, machineVars
  <2>2. PICK f : Entries(podMap, f[0])
    BY DEF MapInv
  <2>3. /\ Room(confs', objs') /\ (ParseFails(list) => UNCHANGED <<cut, ghosts, quiet>>)
        /\ ~ParseFails(list) =>
             /\ confs' = list /\ cut' \in BOOLEAN /\ ghosts' \subseteq Procs
             /\ quiet' = {p \in quiet : ExitDue(p)}
             /\ ~cut' => \A i \in 1 .. Len(list) : \A p \in Ask(list[i]) : objs'[ProcObj(p)] > 0
    BY <2>1, <2>2, RefreshParses DEF ObservedInv, gapVars
  <2>4. Sound(confs, objs, cut, ghosts, quiet) /\ Seen(confs, objs, cut, quiet)
    BY <2>1 DEF SeenInv
  <2>5. ExitsOK(quiet')
    <3>1. CASE ParseFails(list)
      BY <2>3, <2>4, <3>1 DEF Sound
    <3>2. CASE ~ParseFails(list)
      <4> SUFFICES ASSUME NEW p \in live \ quiet', NEW k \in 1 .. Len(procEvts),
                          procEvts[k] = ExitOf(p)
                   PROVE  Entering(procEvts, p)
        BY DEF ExitsOK
      <4>1. ExitDue(p)
        BY DEF ExitDue, ExitOf
      <4>2. p \notin quiet
        BY <2>3, <3>2, <4>1
      <4> QED BY <2>4, <4>2 DEF Sound, ExitsOK
    <3> QED BY <3>1, <3>2
  <2>6. Sound(confs', objs', cut', ghosts', quiet')
    <3>1. cut' \in BOOLEAN /\ ghosts' \subseteq Procs /\ quiet' \subseteq Procs
      BY <2>3, <2>4 DEF Sound
    <3> QED BY <2>3, <2>5, <3>1 DEF Sound
  <2>7. mpc' # "rollback" => Seen(confs', objs', cut', quiet')
    BY <2>1, <2>3 DEF Seen
  <2>8. /\ backup'.confs = confs /\ backup'.objs = objs
        /\ backup'.cut = cut /\ backup'.ghosts = ghosts /\ backup'.quiet = quiet
    BY <2>1 DEF RollbackInv, BackupType
  <2>9. /\ RolledCut' = cut /\ RolledGhosts' = ghosts /\ RolledQuiet' = quiet
        /\ RolledBack'.confs = confs /\ RolledBack'.objs = objs
    BY <2>1, <2>8 DEF RolledCut, RolledGhosts, RolledQuiet, Restored, RolledBack
  <2> QED BY <2>1, <2>4, <2>6, <2>7, <2>9, SeenConfig
<1>5. CASE RollbackProbe
  <2>1. /\ mpc = "rollback" /\ mpc' = "idle" /\ UNCHANGED <<live, zombies, procEvts>>
        /\ confs' = RolledBack.confs /\ objs' = RolledBack.objs
        /\ cut' = RolledCut /\ ghosts' = RolledGhosts /\ quiet' = RolledQuiet
    BY <1>5 DEF RollbackProbe, RequestDone, machineVars, RolledBack, RolledCut, RolledGhosts,
                RolledQuiet
  <2> QED BY <2>1, SeenConfig DEF SeenInv
<1>6. CASE RcvProcEvt
  BY <1>6, SeenEvent
<1>7. CASE RcvCgrpEvtLocked
  <2>1. /\ mpc = "idle" /\ mpc' = "idle" /\ mapped # NoEvent /\ HandleCgrpEvt(mapped)
        /\ UNCHANGED <<live, zombies, procEvts, confs>>
    BY <1>7 DEF RcvCgrpEvtLocked, parseVars, machineVars
  <2>2. mapped \in CgrpEvent /\ mapped.con \in Containers /\ confs \in Seq(Conf)
        /\ objs \in [Obj -> Nat] /\ Sound(confs, objs, cut, ghosts, quiet)
    BY <2>1 DEF ObservedInv, ObjsOK, WeakTypes, SeenInv
  <2>3. /\ Room(confs, objs') /\ cut' \in BOOLEAN /\ (cut => cut')
        /\ \A q \in Procs : objs[ProcObj(q)] > 0 => objs'[ProcObj(q)] > 0
    BY <2>1, <2>2, CgrpKeeps DEF Sound
  <2>4. UNCHANGED <<ghosts, quiet>>
    BY <2>1, <2>2, HandleCgrp
  <2>5. live \subseteq Procs /\ Seen(confs, objs, cut, quiet)
    BY <2>1 DEF ObservedInv, WeakTypes, SeenInv
  <2>6. Seen(confs', objs', cut', quiet')
    BY <2>1, <2>3, <2>4, <2>5 DEF Seen
  <2>7. Sound(confs', objs', cut', ghosts', quiet')
    BY <2>1, <2>2, <2>3, <2>4 DEF Sound
  <2> QED BY <2>1, <2>6, <2>7, SeenConfig
<1>8. CASE RcvCgrpEvtUnlocked \/ KeepliveProbe \/ RecvIpcMsg \/ Death \/ UNCHANGED vars
  <2>1. UNCHANGED <<live, zombies, procEvts, confs, objs, cut, ghosts, quiet, mpc, backup, parsed>>
    BY <1>8 DEF RcvCgrpEvtUnlocked, RcvCgrpEvt, KeepliveProbe, RecvIpcMsg, Death, vars,
       snooperVars, machineVars, gapVars, parseVars
  <2> QED BY <1>0, <2>1
<1>9. CASE Machine
  <2>1. mpc = "idle" /\ mpc' = "idle" /\ UNCHANGED <<backup, parsed>> /\ MachineStep
    BY <1>9 DEF Machine, parseVars
  <2>2. ASSUME NEW p \in Procs, Exec(p)
        PROVE  SeenInv'
    <3>1. /\ procEvts' = Append(procEvts, ExecOf(p)) /\ live' = live \cup {p}
          /\ quiet' = quiet \ {p} /\ UNCHANGED <<confs, objs, cut, ghosts>>
      BY <2>2 DEF Exec, ExecOf
    <3> QED BY <2>1, <3>1, EventFacts, SeenProcess
  <2>3. ASSUME NEW p \in Procs, Exit(p)
        PROVE  SeenInv'
    <3>1. /\ procEvts' = Append(procEvts, ExitOf(p)) /\ live' = live \ {p}
          /\ quiet' = quiet \ {p} /\ UNCHANGED <<confs, objs, cut, ghosts>>
      BY <2>3 DEF Exit, ExitOf
    <3> QED BY <2>1, <3>1, EventFacts, SeenProcess
  <2>4. ASSUME NEW p \in Procs, Fork(p) \/ Reap(p)
        PROVE  SeenInv'
    <3>1. /\ live' \ quiet' \subseteq live \ quiet /\ quiet' \subseteq quiet \cup {p}
          /\ UNCHANGED <<procEvts, confs, objs, cut, ghosts>>
      BY <2>4 DEF Fork, Reap, gapVars
    <3>2. quiet' \subseteq Procs
      BY <3>1 DEF SeenInv, Sound
    <3> QED BY <2>1, <3>1, <3>2, SeenSilent
  <2>5. ASSUME NEW c \in Containers, ConCreate(c) \/ ConRemove(c)
        PROVE  SeenInv'
    BY <1>0, <2>1, <2>5 DEF ConCreate, ConRemove, gapVars
  <2>6. ASSUME NEW p \in Pods, PodCreate(p) \/ PodRemove(p)
        PROVE  SeenInv'
    BY <1>0, <2>1, <2>6 DEF PodCreate, PodRemove, gapVars
  <2> QED BY <2>1, <2>2, <2>3, <2>4, <2>5, <2>6 DEF MachineStep
<1> QED BY <1>1, <1>2, <1>3, <1>4, <1>5, <1>6, <1>7, <1>8, <1>9 DEF Next

(* The invariants hold together in every behaviour. *)
LEMMA AlwaysSeen == Spec => [](ObservedInv /\ RollbackInv /\ MapInv /\ RestTypes /\ SeenInv)
BY AlwaysObserved, InitRest, NextRest, InitSeen, NextSeen, PTL DEF Spec

(* The types of the model, for any machine and any configurations; a         *)
(* container has at most two entries in the map (pod_mng.c:258-312) and the  *)
(* objects never exceed SNOOPER_MAX (snooper.c:631-646).                     *)
THEOREM ProbeConfigTypeCorrect == Spec => []TypeOK
<1>1. ASSUME ObservedInv, RollbackInv, MapInv, RestTypes, SeenInv
      PROVE  TypeOK
  <2>1. /\ confs \in Seq(Conf) /\ Len(confs) <= SnooperMax /\ ObjNum(objs) <= SnooperMax
        /\ objs \in [Obj -> Nat]
        /\ cut \in BOOLEAN /\ ghosts \subseteq Procs /\ quiet \subseteq Procs
    BY <1>1 DEF ObservedInv, ObjsOK, SeenInv, Sound, Room
  <2>2. objs \in [Obj -> 0 .. SnooperMax]
    <3>1. \A x \in Obj : objs[x] \in Nat /\ objs[x] <= ObjNum(objs)
      BY <2>1, ObjNumFacts
    <3>2. ObjNum(objs) \in Nat /\ SnooperMax \in Nat
      BY <2>1, ObjNumFacts, ConfAssumption
    <3>3. \A x \in Obj : objs[x] \in 0 .. SnooperMax
      BY <2>1, <3>1, <3>2
    <3> QED BY <2>1, <3>3
  <2>3. PICK f : History(cgrpEvts, f) /\ f[Len(cgrpEvts)] = containers /\ Entries(podMap, f[0])
    BY <1>1 DEF MapInv
  <2>4. containers \subseteq Containers /\ pods \subseteq Pods
    <3>1. Len(cgrpEvts) \in 0 .. Len(cgrpEvts)
      BY <1>1, LenProperties DEF ObservedInv, WeakTypes
    <3> QED BY <1>1, <2>3, <3>1 DEF History, MapInv
  <2>5. PICK D \in SUBSET (Pods \cup {FakePod}) : podMap \in [D -> [Containers -> Nat]]
    BY <1>1 DEF ObservedInv, WeakTypes, Maps
  <2>6. ASSUME NEW pod \in DOMAIN podMap
        PROVE  podMap[pod] \in [Containers -> 0 .. 2]
    <3>1. podMap[pod] \in [Containers -> Nat]
      BY <2>5
    <3>2. ASSUME NEW c \in Containers
          PROVE  podMap[pod][c] \in 0 .. 2
      <4>1. podMap[pod][c] \in Nat /\ podMap[pod][c] <= (IF pod = PodOf[c] /\ c \in f[0] THEN 2 ELSE 1)
        BY <2>3, <3>1 DEF Entries
      <4> QED BY <4>1
    <3> QED BY <3>1, <3>2
  <2>7. SnooperTypeOK
    BY <1>1, <2>1, <2>2, <2>4, <2>5, <2>6 DEF SnooperTypeOK, ObservedInv, WeakTypes
  <2>8. cmd \in Ranges \cup {NoCmd} /\ params \in Params
    BY <1>1 DEF ObservedInv, WeakTypes
  <2>9. mpc \in {"idle", "cmd", "snoopers", "params", "state", "join", "modify", "rollback"}
    BY <1>1 DEF RollbackInv
  <2>10. \A b \in {started, running, stopped, isRestart, pid, careful, lost, hung} : b \in BOOLEAN
    BY <1>1 DEF RestTypes
  <2> QED BY <1>1, <2>7, <2>8, <2>9, <2>10 DEF TypeOK, RestTypes
<1> QED BY <1>1, AlwaysSeen, PTL

(* Nothing falls between the walk through /proc of a refresh and the events  *)
(* after it: as long as no object was left out, every live process that an   *)
(* app or container configuration asks for is observed once the events are   *)
(* handled (snooper.c:928-976, 987-1034, 1112-1181), except one that was     *)
(* forked since and has executed nothing (snooper.bpf.c:44-111).             *)
THEOREM AllAreObserved == Spec => []AllObserved
<1>1. ASSUME ObservedInv, SeenInv
      PROVE  AllObserved
  <2> SUFFICES ASSUME mpc = "idle", procEvts = <<>>, ~cut, NEW p \in Wanted \ quiet
               PROVE  p \in ProcsOf(objs)
    BY DEF AllObserved, Idle, NoProcEvts
  <2>1. p \in live /\ p \in Procs /\ \E i \in 1 .. Len(confs) : p \in Ask(confs[i])
    BY <1>1 DEF Wanted, Ask, InProc, ObservedInv, WeakTypes
  <2>2. ~Entering(procEvts, p)
    BY DEF Entering, Pending
  <2>3. objs[ProcObj(p)] > 0
    BY <1>1, <2>1, <2>2 DEF SeenInv, Seen
  <2> QED BY <2>1, <2>3 DEF ProcsOf
<1> QED BY <1>1, AlwaysSeen, PTL

-----------------------------------------------------------------------------
(* What the process of a careful user has. *)

(* The process works with cmd c, params p and objects o. *)
Configured(c, p, o) == loaded = <<RangeOf(c), p>> /\ procMap = ProcsOf(o) /\ body = procMap

(* It will after it has read what lies in its queue. *)
WillBe(c, p, o) ==
  IF queue = <<>> THEN Configured(c, p, o)
  ELSE LET m == Last(queue) IN
       /\ m.cmd = RangeOf(c) /\ m.params = p /\ m.procs = ProcsOf(o)
       /\ "PARAMS" \in m.flags \/ m.flags = {} \/ loaded = <<RangeOf(c), p>>
       /\ "SNOOPER" \in m.flags \/ m.flags = {} \/ procMap = ProcsOf(o)
       /\ procMap \subseteq body

(* The process was started by this request: it may have read what was left   *)
(* in the queue, and waits for the message at the request's end.             *)
Young ==
  /\ "state" \in parsed /\ "params" \notin parsed
  /\ procMap \subseteq body /\ body \subseteq ProcsOf(before.objs)
  /\ queue # <<>> => Last(queue).procs = ProcsOf(before.objs)

(* How the flags come to tell the process all that changed. *)
ParsedInv ==
  mpc # "idle" =>
    /\ "snoopers" \in parsed /\ mpc # "rollback" => confs # backup.confs
    /\ "snoopers" \notin parsed => backup.confs = <<>>
    /\ "params" \notin parsed => backup.params = ZeroParams

Found == IF mpc = "idle" THEN Config ELSE before

(* Every message in the queue will be read and decoded. *)
Plain == ~hung /\ \A i \in 1 .. Len(queue) : queue[i].fits /\ ~queue[i].cons

(* The process has the configuration, or the queue will give it. *)
Kept ==
  /\ Plain
  /\ (running => started) /\ (pid => running) /\ (~started => queue = <<>>)
  /\ ~running /\ queue # <<>> => Last(queue).procs = ProcsOf(Found.objs)
  /\ running =>
       \/ mpc = "idle" /\ WillBe(cmd, params, objs)
       \/ mpc # "idle" /\ queue = <<>> /\ Configured(before.cmd, before.params, before.objs)
       \/ mpc = "modify" /\ Young

(* As long as no message is lost. *)
CarefulInv == careful => ParsedInv /\ (~lost => Kept)

(* No process has been started. *)
LEMMA InitCareful == Init => CarefulInv
BY DEF Init, CarefulInv, ParsedInv, Kept, Plain

(* The process takes all plain messages. *)
LEMMA PlainTakes ==
  ASSUME RestTypes, Plain, NEW n \in 0 .. Len(queue), Takes(n)
  PROVE  n = Len(queue) /\ (n = 0 => queue = <<>>)
<1> PICK k \in Nat : k = Len(queue)
  BY LenProperties DEF RestTypes
<1>1. n = k
  <2> SUFFICES ASSUME n < k PROVE FALSE
    OBVIOUS
  <2>1. n + 1 \in 1 .. k
    OBVIOUS
  <2> QED BY <2>1 DEF Takes, Plain
<1>2. k = 0 => queue = <<>>
  BY EmptySeq DEF RestTypes
<1> QED BY <1>1, <1>2

(* So a process with nothing to take has an empty queue. *)
LEMMA PlainRead ==
  ASSUME RestTypes, Plain, Takes(0)
  PROVE  queue = <<>>
<1>1. 0 \in 0 .. Len(queue)
  BY LenProperties DEF RestTypes
<1> QED BY <1>1, PlainTakes

LastSent(m) == queue' # <<>> /\ Last(queue') = m

(* A message that is sent is the last of the queue. *)
LEMMA SendsLast ==
  ASSUME RestTypes, started, NEW flags, NEW o, SendSnooperObj(flags, o), ~lost',
         cmd \in Ranges \cup {NoCmd}, params \in Params, flags \in SUBSET {"PARAMS", "SNOOPER"}
  PROVE  ~lost /\ LastSent(Message(flags, o)) /\ (Plain /\ UNCHANGED hung => Plain')
<1> PICK m \in Message0 : m = Message(flags, o)
  BY MessageType
<1>1. queue' = Append(queue, m) /\ lost' = (lost \/ m.cons \/ ~m.fits) /\ queue \in Seq(Message0)
  BY DEF SendSnooperObj, MsgSent, SendFailed, RestTypes
<1>2. ~lost /\ ~m.cons /\ m.fits
  BY <1>1
<1>3. Len(queue') = Len(queue) + 1 /\ queue'[Len(queue) + 1] = m /\ Len(queue) \in Nat
      /\ \A i \in 1 .. Len(queue) : queue'[i] = queue[i]
  BY <1>1, AppendProperties, LenProperties
<1>4. LastSent(m)
  BY <1>3 DEF LastSent, Last
<1>5. ASSUME Plain, UNCHANGED hung
      PROVE  Plain'
  <2>1. \A i \in 1 .. Len(queue') : i \in 1 .. Len(queue) \/ i = Len(queue) + 1
    BY <1>3
  <2> QED BY <1>2, <1>3, <1>5, <2>1 DEF Plain
<1> QED BY <1>2, <1>4, <1>5

(* A step that changes none of what the invariant speaks of. *)
LEMMA KeepsCareful ==
  ASSUME CarefulInv,
         UNCHANGED <<careful, started, running, pid, queueVars, parseVars, cmd, params, confs, objs,
                     processVars>>
  PROVE  CarefulInv'
BY DEF CarefulInv, Kept, Plain, ParsedInv, Found, Config, WillBe, Configured, Young, queueVars,
       parseVars, processVars

(* A step of a request that leaves the process and its messages alone. *)
LEMMA RequestCareful ==
  ASSUME CarefulInv, mpc \notin {"idle", "modify"}, mpc' # "idle", ParsedInv',
         UNCHANGED <<careful, started, running, pid, queueVars, before, processVars>>
  PROVE  CarefulInv'
BY DEF CarefulInv, Kept, Plain, Found, Configured, queueVars, processVars

(* An event is handled, and told to the process when it changed something. *)
LEMMA EventCareful ==
  ASSUME CarefulInv, RestTypes, ObservedInv, mpc = "idle", HasRead, NEW notifies \in BOOLEAN,
         IF notifies THEN SendSnooperObj({"SNOOPER"}, objs') ELSE UNCHANGED queueVars,
         ~notifies => objs' = objs,
         UNCHANGED <<careful, started, running, pid, parseVars, cmd, params, processVars>>
  PROVE  CarefulInv'
<1>0. ParsedInv'
  BY DEF ParsedInv, parseVars
<1> SUFFICES ASSUME careful, ~lost' PROVE Kept'
  BY <1>0 DEF CarefulInv
<1> USE DEF Kept
<1>1. CASE notifies /\ started
  <2>1. ~lost /\ LastSent(Message({"SNOOPER"}, objs')) /\ (Plain /\ UNCHANGED hung => Plain')
    BY <1>1, SendsLast DEF ObservedInv, WeakTypes
  <2> DEFINE m == Message({"SNOOPER"}, objs')
  <2>2. /\ m.flags = {"SNOOPER"} /\ m.cmd = RangeOf(cmd) /\ m.params = params
        /\ m.procs = ProcsOf(objs')
    BY DEF Message
  <2> HIDE DEF m
  <2>3. Kept /\ Plain /\ Plain'
    BY <2>1 DEF CarefulInv, processVars
  <2>4. running => Configured(cmd, params, objs)
    <3>1. running => queue = <<>>
      BY <2>3, PlainRead DEF HasRead, Plain
    <3> QED BY <2>3, <3>1 DEF WillBe
  <2>5. running => WillBe(cmd, params, objs)'
    BY <2>1, <2>2, <2>4 DEF LastSent, m, WillBe, Configured, processVars, RangeOf
  <2> QED BY <1>1, <2>1, <2>2, <2>3, <2>5 DEF Found, Config, LastSent, m, parseVars
<1>2. CASE ~(notifies /\ started)
  <2>1. queue' = queue /\ lost' = lost
    BY <1>2 DEF SendSnooperObj, queueVars
  <2>2. Kept /\ Plain /\ Plain'
    BY <2>1 DEF CarefulInv, Plain, processVars
  <2>3. CASE started
    <3>1. objs' = objs
      BY <1>2, <2>3
    <3> QED BY <2>1, <2>2, <3>1 DEF Found, Config, WillBe, Configured, parseVars, processVars
  <2>4. CASE ~started
    BY <2>1, <2>2, <2>4 DEF parseVars
  <2> QED BY <2>3, <2>4
<1> QED BY <1>1, <1>2

(* What the flags leave out is as the request found it. *)
LEMMA FlagsSuffice ==
  ASSUME ObservedInv, RollbackInv, ParsedInv, mpc = "modify"
  PROVE  /\ parsed = {} => Config = before
         /\ "PARAMS" \notin ProbeModify =>
              RangeOf(cmd) = RangeOf(before.cmd) /\ params = before.params /\ "params" \in parsed
         /\ "SNOOPER" \notin ProbeModify =>
              objs = before.objs /\ ("state" \in parsed /\ "params" \notin parsed => ProcsOf(objs) = {})
<1>1. before = RolledBack
  BY DEF RollbackInv
<1>2. /\ before.cmd = Restored("cmd", backup.cmd, cmd)
      /\ before.confs = Restored("snoopers", backup.confs, confs)
      /\ before.objs = Restored("snoopers", backup.objs, objs)
      /\ before.params = Restored("params", backup.params, params)
  BY <1>1 DEF RolledBack
<1>3. parsed = {} => Config = before
  BY <1>1 DEF RolledBack, Config, Restored
<1>4. ASSUME "PARAMS" \notin ProbeModify
      PROVE  RangeOf(cmd) = RangeOf(before.cmd) /\ params = before.params /\ "params" \in parsed
  <2>1. RangeOf(cmd) = RangeOf(backup.cmd) /\ params = backup.params
    BY <1>4 DEF ProbeModify
  <2>2. params # ZeroParams
    BY ItemsAssumption DEF ObservedInv, WeakTypes
  <2>3. "params" \in parsed
    BY <2>1, <2>2 DEF ParsedInv
  <2> QED BY <1>2, <2>1, <2>3 DEF Restored
<1>5. ASSUME "SNOOPER" \notin ProbeModify
      PROVE  objs = before.objs /\ ProcsOf(objs) = {}
  <2>1. confs = backup.confs
    BY <1>5 DEF ProbeModify
  <2>2. "snoopers" \notin parsed /\ confs = <<>>
    BY <2>1 DEF ParsedInv
  <2> QED BY <1>2, <2>2 DEF Restored, ObservedInv, ObjsOK
<1> QED BY <1>3, <1>4, <1>5

(* The end of a request leaves the process configured or a message on its way. *)
LEMMA EndCareful ==
  ASSUME CarefulInv, RestTypes, ObservedInv, RollbackInv, RequestEnd
  PROVE  CarefulInv'
<1> SUFFICES ASSUME careful PROVE CarefulInv'
  BY DEF CarefulInv, RequestEnd
<1> USE DEF Kept
<1>1. /\ mpc = "modify" /\ mpc' = "idle"
      /\ UNCHANGED <<confs, objs, cmd, params, started, running, pid, processVars, careful>>
  BY DEF RequestEnd, RequestDone, snooperVars, statusVars
<1>3. ParsedInv /\ ParsedInv'
  BY <1>1 DEF CarefulInv, ParsedInv
<1> SUFFICES ASSUME ~lost' PROVE Kept'
  BY <1>3 DEF CarefulInv
<1>0. /\ ~started => queue' = queue
      /\ UNCHANGED queueVars \/ (SendSnooperObj(ProbeModify, objs) /\ parsed # {} /\ (ProbeModify # {} \/ isRestart))
  BY DEF RequestEnd, SendSnooperObj, queueVars
<1>9. ~lost
  <2>1. ProbeModify \in SUBSET {"PARAMS", "SNOOPER"}
    BY DEF ProbeModify
  <2>2. CASE started /\ SendSnooperObj(ProbeModify, objs)
    BY <2>1, <2>2, SendsLast DEF ObservedInv, WeakTypes
  <2>3. CASE UNCHANGED queueVars \/ ~started
    BY <1>0, <2>3 DEF queueVars, SendSnooperObj
  <2> QED BY <1>0, <2>2, <2>3
<1>2. /\ Plain
      /\ running => started
      /\ pid => running
      /\ ~started => queue = <<>>
      /\ ~running /\ queue # <<>> => Last(queue).procs = ProcsOf(before.objs)
      /\ running => (queue = <<>> /\ Configured(before.cmd, before.params, before.objs)) \/ Young
  BY <1>1, <1>9 DEF CarefulInv, Found
<1>4. /\ parsed = {} => Config = before
      /\ "PARAMS" \notin ProbeModify =>
           RangeOf(cmd) = RangeOf(before.cmd) /\ params = before.params /\ "params" \in parsed
      /\ "SNOOPER" \notin ProbeModify =>
           objs = before.objs /\ ("state" \in parsed /\ "params" \notin parsed => ProcsOf(objs) = {})
  BY <1>1, <1>3, FlagsSuffice
<1>5. CASE parsed # {} /\ started /\ (ProbeModify # {} \/ isRestart)
  <2> DEFINE m == Message(ProbeModify, objs)
  <2>1. SendSnooperObj(ProbeModify, objs) /\ ProbeModify \in SUBSET {"PARAMS", "SNOOPER"}
    BY <1>5 DEF RequestEnd, ProbeModify
  <2>2. LastSent(m) /\ Plain'
    BY <1>1, <1>2, <1>5, <2>1, SendsLast DEF ObservedInv, WeakTypes, processVars
  <2>3. /\ m.flags = ProbeModify /\ m.cmd = RangeOf(cmd) /\ m.params = params
        /\ m.procs = ProcsOf(objs)
    BY DEF Message
  <2> HIDE DEF m
  <2>4. ASSUME running
        PROVE  /\ "PARAMS" \in ProbeModify \/ loaded = <<RangeOf(cmd), params>>
               /\ "SNOOPER" \in ProbeModify \/ procMap = ProcsOf(objs)
               /\ procMap \subseteq body
    <3>1. CASE queue = <<>> /\ Configured(before.cmd, before.params, before.objs)
      BY <1>4, <3>1 DEF Configured
    <3>2. CASE Young
      BY <1>4, <3>2 DEF Young
    <3> QED BY <1>2, <2>4, <3>1, <3>2
  <2>5. running => WillBe(cmd, params, objs)'
    BY <1>1, <2>2, <2>3, <2>4 DEF LastSent, WillBe, RangeOf, processVars
  <2> QED BY <1>1, <1>2, <1>5, <2>2, <2>3, <2>5 DEF Found, Config, LastSent
<1>6. CASE ~(parsed # {} /\ started /\ (ProbeModify # {} \/ isRestart))
  <2>1. queue' = queue /\ Plain'
    BY <1>0, <1>1, <1>2, <1>6 DEF queueVars, Plain, processVars
  <2>2. CASE ~started
    BY <1>1, <1>2, <2>1, <2>2
  <2>3. CASE started
    <3>1. /\ RangeOf(cmd) = RangeOf(before.cmd) /\ params = before.params /\ objs = before.objs
          /\ "state" \in parsed => "params" \in parsed
      BY <1>4, <1>6, <2>3 DEF Config
    <3>2. running => queue = <<>> /\ Configured(before.cmd, before.params, before.objs)
      BY <1>2, <3>1 DEF Young
    <3>3. running => WillBe(cmd, params, objs)'
      BY <1>1, <2>1, <3>1, <3>2 DEF WillBe, Configured, RangeOf, processVars
    <3> QED BY <1>1, <1>2, <2>1, <3>1, <3>3 DEF Found, Config
  <2> QED BY <2>2, <2>3
<1> QED BY <1>5, <1>6

(* The process reads: it acts on the last message only. *)
LEMMA RecvCareful ==
  ASSUME CarefulInv, RestTypes, RecvIpcMsg
  PROVE  CarefulInv'
<1>0. UNCHANGED <<careful, started, running, pid, confs, objs, cmd, params, mpc, backup, parsed, before,
                  lost>>
  BY DEF RecvIpcMsg, snooperVars, statusVars, parseVars
<1> SUFFICES ASSUME careful, ~lost, Kept PROVE Kept'
  BY <1>0 DEF CarefulInv, ParsedInv
<1> USE DEF Kept
<1> PICK m : m = Last(queue)
  OBVIOUS
<1>1. /\ running /\ queue # <<>> /\ queue' = <<>> /\ Plain'
      /\ loaded' = IF "PARAMS" \in m.flags \/ m.flags = {} THEN <<m.cmd, m.params>> ELSE loaded
      /\ procMap' = IF "SNOOPER" \in m.flags \/ m.flags = {} THEN (procMap \ body) \cup m.procs
                    ELSE procMap
      /\ body' = m.procs
  <2>1. PICK n \in 1 .. Len(queue) :
          Takes(n) /\ Taken(n) /\ IF queue[n].cons THEN FailToDecode ELSE LoadMsg(queue[n])
    BY DEF RecvIpcMsg
  <2>2. queue \in Seq(Message0) /\ Len(queue) \in Nat
    BY LenProperties DEF RestTypes
  <2>3. n = Len(queue)
    BY <2>1, <2>2, PlainTakes
  <2>4. queue' = <<>> /\ queue # <<>>
    BY <2>1, <2>2, <2>3, TakenType
  <2>5. queue[n] = m /\ LoadMsg(m) /\ hung' = hung
    BY <2>1, <2>3 DEF Last, Plain, LoadMsg
  <2>6. Len(queue') = 0 /\ \A i \in 1 .. 0 : FALSE
    BY <2>4
  <2> QED BY <2>4, <2>5, <2>6 DEF RecvIpcMsg, LoadMsg, Plain
<1>3. CASE mpc = "idle"
  <2>1. /\ m.cmd = RangeOf(cmd) /\ m.params = params /\ m.procs = ProcsOf(objs)
        /\ "PARAMS" \in m.flags \/ m.flags = {} \/ loaded = <<RangeOf(cmd), params>>
        /\ "SNOOPER" \in m.flags \/ m.flags = {} \/ procMap = ProcsOf(objs)
        /\ procMap \subseteq body
    BY <1>1, <1>3 DEF WillBe
  <2>2. loaded' = <<RangeOf(cmd), params>>
    BY <1>1, <2>1
  <2>3. procMap' = ProcsOf(objs) /\ body' = ProcsOf(objs)
    BY <1>1, <2>1
  <2> QED BY <1>0, <1>1, <1>3, <2>2, <2>3 DEF WillBe, Configured, RangeOf
<1>4. CASE mpc # "idle"
  <2>1. Young /\ mpc = "modify"
    BY <1>1, <1>4
  <2>2. procMap' \subseteq body' /\ body' = ProcsOf(before.objs)
    BY <1>1, <2>1 DEF Young
  <2>3. Young'
    BY <1>0, <1>1, <2>1, <2>2 DEF Young
  <2> QED BY <1>0, <1>1, <2>1, <2>3
<1> QED BY <1>3, <1>4

(* Every step keeps the process of a careful user configured. *)
LEMMA NextCareful ==
  ASSUME CarefulInv, RestTypes, ObservedInv, RollbackInv, [Next]_vars
  PROVE  CarefulInv'
<1> SUFFICES ASSUME careful PROVE CarefulInv'
  BY DEF CarefulInv, Next, vars, RequestBegin, ItemAbsent, ParseCmd, ParseSnoopers, ParseParams,
     ItemParsed, StartProbe, StopIdle, StopProbe, StopHangs, StopJoined, StopFails, BadState,
     RequestEnd, RcvProcEvt, RcvCgrpEvtLocked, RcvCgrpEvtUnlocked, KeepliveProbe, RecvIpcMsg, Death,
     Machine, RollbackProbe
<1>0. ParsedInv
  BY DEF CarefulInv
<1>1. CASE RequestBegin
  <2>1. /\ mpc = "idle" /\ mpc' = "cmd" /\ HasRead /\ before' = Config /\ parsed' = {}
        /\ backup' = ZeroBackup
        /\ UNCHANGED <<careful, started, running, pid, queue, lost, objs, processVars>>
    BY <1>1 DEF RequestBegin, statusVars, snooperVars, queueVars
  <2>2. before'.cmd = cmd /\ before'.params = params /\ before'.objs = objs
    BY <2>1 DEF Config
  <2>3. ParsedInv'
    BY <2>1 DEF ParsedInv, ZeroBackup
  <2> SUFFICES ASSUME ~lost, Kept PROVE Kept'
    BY <2>1, <2>3 DEF CarefulInv
  <2>4. running => queue = <<>> /\ Configured(cmd, params, objs)
    <3>1. running => queue = <<>>
      BY <2>1, PlainRead DEF HasRead, Kept, Plain
    <3> QED BY <2>1, <3>1 DEF Kept, WillBe
  <2>5. running => Configured(before.cmd, before.params, before.objs)'
    BY <2>1, <2>2, <2>4 DEF Configured, RangeOf, processVars
  <2>6. Plain'
    BY <2>1 DEF Kept, Plain, processVars
  <2> QED BY <2>1, <2>2, <2>4, <2>5, <2>6 DEF Kept, Found, Config
<1>2. CASE ItemAbsent
  <2>1. /\ mpc \in {"cmd", "snoopers", "params", "state"} /\ mpc' = NextItem[mpc]
        /\ UNCHANGED <<careful, started, running, pid, queueVars, before, processVars, backup, parsed,
                       confs>>
    BY <1>2 DEF ItemAbsent, statusVars, snooperVars
  <2>2. mpc' \in {"snoopers", "params", "state", "modify"}
    BY <2>1 DEF NextItem
  <2>3. ParsedInv'
    BY <1>0, <2>1, <2>2 DEF ParsedInv
  <2> QED BY <2>1, <2>2, <2>3, RequestCareful
<1>3. ASSUME NEW r \in Ranges, NEW ok \in BOOLEAN, ParseCmd(r, ok)
      PROVE  CarefulInv'
  <2>1. /\ mpc = "cmd" /\ mpc' \in {"snoopers", "rollback"} /\ parsed' = parsed \cup {"cmd"}
        /\ backup' = [backup EXCEPT !.cmd = cmd]
        /\ UNCHANGED <<careful, started, running, pid, queueVars, before, processVars, confs>>
    BY <1>3 DEF ParseCmd, ItemParsed, NextItem, statusVars, snooperVars
  <2>2. ParsedInv'
    BY <1>0, <2>1 DEF ParsedInv, RollbackInv, BackupType
  <2> QED BY <2>1, <2>2, RequestCareful
<1>4. ASSUME NEW p \in Params, NEW ok \in BOOLEAN, ParseParams(p, ok)
      PROVE  CarefulInv'
  <2>1. /\ mpc = "params" /\ mpc' \in {"state", "rollback"} /\ parsed' = parsed \cup {"params"}
        /\ backup' = [backup EXCEPT !.params = params]
        /\ UNCHANGED <<careful, started, running, pid, queueVars, before, processVars, confs>>
    BY <1>4 DEF ParseParams, ItemParsed, NextItem, statusVars, snooperVars
  <2>2. ParsedInv'
    BY <1>0, <2>1 DEF ParsedInv, RollbackInv, BackupType
  <2> QED BY <2>1, <2>2, RequestCareful
<1>5. ASSUME NEW list \in ConfLists, ParseSnoopers(list)
      PROVE  CarefulInv'
  <2>1. /\ mpc = "snoopers" /\ mpc' = (IF ~ParseFails(list) THEN "params" ELSE "rollback")
        /\ parsed' = parsed \cup {"snoopers"}
        /\ backup' = [backup EXCEPT !.confs = confs, !.objs = objs,
                                    !.cut = cut, !.ghosts = ghosts, !.quiet = quiet]
        /\ ParseSnooper(list) /\ list # confs
        /\ UNCHANGED <<careful, started, running, pid, queueVars, before, processVars>>
    BY <1>5 DEF ParseSnoopers, ItemParsed, NextItem, statusVars
  <2>2. ~ParseFails(list) => confs' = list
    <3>1. list \in Seq(Conf) /\ Len(list) \in Nat /\ SnooperMax \in Nat
      BY ConfAssumption, LenProperties
    <3>2. ~ParseFails(list) => Min({Len(list), SnooperMax}) = Len(list)
      BY <3>1 DEF ParseFails, Min
    <3>3. confs' = SubSeq(list, 1, Min({Len(list), SnooperMax}))
          /\ SubSeq(list, 1, Len(list)) = list
      BY <2>1, <3>1, SubSeqProperties DEF ParseSnooper
    <3> QED BY <3>2, <3>3
  <2>3. ParsedInv'
    BY <1>0, <2>1, <2>2 DEF ParsedInv, RollbackInv, BackupType
  <2> QED BY <2>1, <2>3, RequestCareful
<1>6. ASSUME NEW ready \in BOOLEAN, StartProbe(ready)
      PROVE  CarefulInv'
  <2>1. /\ mpc = "state" /\ mpc' \in {"modify", "rollback"} /\ parsed' = parsed \cup {"state"}
        /\ UNCHANGED <<careful, queue, lost, before, backup, confs>>
    BY <1>6 DEF StartProbe, ItemParsed, NextItem, snooperVars, queueVars
  <2>2. ParsedInv'
    BY <1>0, <2>1 DEF ParsedInv
  <2>3. CASE UNCHANGED <<started, running, pid, processVars>>
    BY <2>1, <2>2, <2>3, RequestCareful DEF queueVars
  <2> SUFFICES ASSUME ~UNCHANGED <<started, running, pid, processVars>>, ~lost, Kept PROVE Kept'
    BY <2>1, <2>2, <2>3 DEF CarefulInv
  <2>4. CASE ~UNCHANGED <<started, running, pid, processVars>>
    <3>1. /\ ~running /\ "params" \notin parsed /\ started'
          /\ \/ running' /\ NewProcess /\ mpc' = "modify"
             \/ UNCHANGED <<running, pid, processVars>>
      BY <1>6, <2>4 DEF StartProbe, ItemParsed, NextItem, statusVars
    <3>2. ~pid /\ (queue # <<>> => Last(queue).procs = ProcsOf(before.objs))
      BY <2>1, <3>1 DEF Kept, Found
    <3>3. CASE running' /\ NewProcess /\ mpc' = "modify"
      <4>1. Young'
        BY <2>1, <3>1, <3>2, <3>3 DEF Young, NewProcess
      <4>2. Plain'
        BY <2>1, <3>3 DEF Kept, Plain, NewProcess
      <4> QED BY <2>1, <3>1, <3>3, <4>1, <4>2 DEF Kept
    <3>4. CASE UNCHANGED <<running, pid, processVars>>
      <4>1. Plain'
        BY <2>1, <3>4 DEF Kept, Plain, processVars
      <4> QED BY <2>1, <3>1, <3>2, <3>4, <4>1 DEF Kept, Found
    <3> QED BY <3>1, <3>3, <3>4
  <2> QED BY <2>3, <2>4
<1>7. CASE StopIdle \/ BadState
  <2>1. /\ mpc = "state" /\ mpc' \in {"modify", "rollback"} /\ parsed' = parsed \cup {"state"}
        /\ UNCHANGED <<careful, started, running, pid, queueVars, before, processVars, backup, confs>>
    BY <1>7 DEF StopIdle, BadState, ItemParsed, NextItem, statusVars, snooperVars
  <2>2. ParsedInv'
    BY <1>0, <2>1 DEF ParsedInv
  <2> QED BY <2>1, <2>2, RequestCareful
<1>8. CASE StopProbe
  <2>1. /\ mpc = "state" /\ mpc' = "modify" /\ parsed' = parsed \cup {"state"}
        /\ started' = FALSE /\ running' = FALSE /\ pid' = FALSE /\ lost' = (queue' # <<>>)
        /\ hung' = FALSE
        /\ UNCHANGED <<careful, before, backup, confs>>
    BY <1>8 DEF StopProbe, snooperVars, NewProcess
  <2>2. ParsedInv'
    BY <1>0, <2>1 DEF ParsedInv
  <2> SUFFICES ASSUME queue' = <<>> PROVE Kept'
    BY <2>1, <2>2 DEF CarefulInv
  <2>3. Len(queue') = 0 /\ \A i \in 1 .. 0 : FALSE
    OBVIOUS
  <2>4. Plain'
    BY <2>1, <2>3 DEF Plain
  <2> QED BY <2>1, <2>4 DEF Kept
<1>9. CASE RollbackProbe
  <2>1. /\ mpc = "rollback" /\ mpc' = "idle"
        /\ UNCHANGED <<careful, started, running, pid, queue, lost, processVars>>
    BY <1>9 DEF RollbackProbe, RequestDone, statusVars, queueVars
  <2>2. Config' = before
    BY <2>1, RollbackRestores
  <2>3. objs' = before.objs /\ cmd' = before.cmd /\ params' = before.params
    BY <2>2 DEF Config
  <2>4. ParsedInv'
    BY <2>1 DEF ParsedInv
  <2> SUFFICES ASSUME ~lost, Kept PROVE Kept'
    BY <2>1, <2>4 DEF CarefulInv
  <2>5. running => queue = <<>> /\ Configured(before.cmd, before.params, before.objs)
    BY <2>1 DEF Kept
  <2>6. running => WillBe(cmd, params, objs)'
    BY <2>1, <2>3, <2>5 DEF WillBe, Configured, processVars, RangeOf
  <2>7. Plain'
    BY <2>1 DEF Kept, Plain, processVars
  <2> QED BY <2>1, <2>3, <2>6, <2>7 DEF Kept, Found, Config
<1>10. CASE RequestEnd
  BY <1>10, EndCareful
<1>11. CASE RcvProcEvt
  <2>1. /\ mpc = "idle" /\ HasRead /\ procEvts # <<>> /\ HandleProcEvt(Head(procEvts))
        /\ IF ProcEvtNotifies(Head(procEvts)) THEN SendSnooperObj({"SNOOPER"}, objs')
           ELSE UNCHANGED queueVars
        /\ UNCHANGED <<careful, started, running, pid, parseVars, cmd, params, processVars>>
    BY <1>11 DEF RcvProcEvt, statusVars
  <2>2. Head(procEvts) \in ProcEvent
    BY <2>1, HeadTailProperties DEF ObservedInv, WeakTypes
  <2>3. ~ProcEvtNotifies(Head(procEvts)) => objs' = objs
    BY <2>1, <2>2, HandleProc DEF ObservedInv, ObjsOK
  <2>4. CASE ProcEvtNotifies(Head(procEvts))
    BY <2>1, <2>4, EventCareful
  <2>5. CASE ~ProcEvtNotifies(Head(procEvts))
    BY <2>1, <2>3, <2>5, EventCareful
  <2> QED BY <2>4, <2>5
<1>12. CASE RcvCgrpEvtLocked
  <2>1. /\ mpc = "idle" /\ HasRead /\ mapped # NoEvent /\ HandleCgrpEvt(mapped)
        /\ IF CgrpEvtNotifies(mapped) THEN SendSnooperObj({"SNOOPER"}, objs') ELSE UNCHANGED queueVars
        /\ UNCHANGED <<careful, started, running, pid, parseVars, cmd, params, processVars>>
    BY <1>12 DEF RcvCgrpEvtLocked, statusVars
  <2>2. ~CgrpEvtNotifies(mapped) => objs' = objs
    BY <2>1, HandleCgrp DEF ObservedInv, ObjsOK, WeakTypes
  <2>4. CASE CgrpEvtNotifies(mapped)
    BY <2>1, <2>4, EventCareful
  <2>5. CASE ~CgrpEvtNotifies(mapped)
    BY <2>1, <2>2, <2>5, EventCareful
  <2> QED BY <2>4, <2>5
<1>13. CASE RecvIpcMsg
  BY <1>13, RecvCareful
<1>14. CASE StopFails \/ Death
  BY <1>14 DEF StopFails, Death, CarefulInv
<1>16. CASE KeepliveProbe
  <2>1. pid /\ ~running /\ UNCHANGED <<careful, lost, parseVars, confs>>
    BY <1>16 DEF KeepliveProbe, snooperVars, queueVars
  <2>2. ParsedInv'
    BY <1>0, <2>1 DEF ParsedInv, parseVars
  <2> QED BY <2>1, <2>2 DEF CarefulInv, Kept
<1>17. CASE StopHangs
  <2>1. /\ mpc = "state" /\ mpc' = "join" /\ parsed' = parsed \cup {"state"} /\ hung
        /\ UNCHANGED <<careful, lost, before, backup, confs>>
    BY <1>17 DEF StopHangs, snooperVars, queueVars
  <2>2. ParsedInv'
    BY <1>0, <2>1 DEF ParsedInv
  <2> QED BY <2>1, <2>2 DEF CarefulInv, Kept, Plain
<1>18. CASE StopJoined
  <2>1. /\ mpc = "join" /\ mpc' = "modify" /\ ~running /\ pid' = FALSE
        /\ UNCHANGED <<careful, started, running, queue, lost, hung, parsed, before, backup, confs>>
    BY <1>18 DEF StopJoined, snooperVars, queueVars, processVars
  <2>2. ParsedInv'
    BY <1>0, <2>1 DEF ParsedInv
  <2> SUFFICES ASSUME ~lost, Kept PROVE Kept'
    BY <2>1, <2>2 DEF CarefulInv
  <2>3. Plain'
    BY <2>1 DEF Kept, Plain
  <2> QED BY <2>1, <2>3 DEF Kept, Found
<1>15. CASE RcvCgrpEvtUnlocked \/ Machine \/ UNCHANGED vars
  <2>1. UNCHANGED <<careful, started, running, pid, queueVars, parseVars, cmd, params, processVars>>
    BY <1>15 DEF RcvCgrpEvtUnlocked, Machine, vars, statusVars
  <2>2. UNCHANGED <<confs, objs>>
    BY <1>15 DEF RcvCgrpEvtUnlocked, RcvCgrpEvt, Machine, MachineStep, Exec, Fork, Exit, Reap,
       ConCreate, ConRemove, PodCreate, PodRemove, vars, snooperVars
  <2> QED BY <2>1, <2>2, KeepsCareful
<1> QED BY <1>1, <1>2, <1>3, <1>4, <1>5, <1>6, <1>7, <1>8, <1>9, <1>10, <1>11, <1>12, <1>13, <1>14,
           <1>15, <1>16, <1>17, <1>18
        DEF Next

(* At rest the process of a careful user has the daemon's configuration, for *)
(* any configurations and any number of requests, events and messages        *)
(* (probe_mng.c:910-947, snooper.c:540-577, tcpprobe.c:126-143), unless a    *)
(* message was lost since the last stop (ipc.c:483-571, 1102-1105, 1127).    *)
THEOREM CarefulUserConfigured == Spec => []CarefulIsConfigured
<1>1. CarefulInv /\ RestTypes => CarefulIsConfigured
  <2> SUFFICES ASSUME CarefulInv, RestTypes, careful, ~lost, AtRest
               PROVE  IsConfigured
    BY DEF CarefulIsConfigured
  <2>1. queue = <<>>
    BY PlainRead DEF CarefulInv, Kept, AtRest
  <2> QED BY <2>1 DEF CarefulInv, Kept, AtRest, Idle, IsConfigured, WillBe, Configured
<1> QED BY <1>1, AlwaysSeen, InitCareful, NextCareful, PTL DEF Spec
=============================================================================
