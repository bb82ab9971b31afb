--------------------------- MODULE ProbeMngProofs ---------------------------
(***************************************************************************)
(* For every number of probes, threads, requests, events and deaths, the    *)
(* probe manager keeps its type; and, as long as nothing disturbs a probe   *)
(* that is starting (Settled), flags, tid and threads agree.                *)
(*                                                                          *)
(* The argument: a thread is created only when none of the probe's is       *)
(* starting (Settled) and none runs (RUNNING is set from one end of a       *)
(* thread's work to the other), so the thread at work is the last created,  *)
(* the one in tid; hence there is one producer.  A stop joins that thread,  *)
(* which cleared the queue on its way out, and whoever could refill the     *)
(* queue needs the lock the stop holds.                                     *)
(***************************************************************************)
EXTENDS ProbeMng, TLAPS

USE DEF probeVars, threadVars, procVars, mngVars, bounds

(* A created thread has an owner, and so has a process. *)
LEMMA OwnerKnown ==
  ASSUME TypeOK, NEW t \in Threads
  PROVE  /\ tpc[t] # "none" => owner[t] \in Probes
         /\ proc[t] # "none" => owner[t] \in Probes
BY DEF TypeOK

(* Every step keeps the type of every variable. *)
LEMMA TypeStep ==
  ASSUME TypeOK, [Next]_vars
  PROVE  TypeOK'
<1> USE SetsAssumption, BoundsAssumption
<1>1. ASSUME NEW p \in Probes, NEW c \in Confs \cup {NoConf}, NEW s \in States,
             RequestBegin(p, c, s)
      PROVE  TypeOK'
  BY <1>1 DEF TypeOK, RequestBegin, States
<1>2. ASSUME NEW p \in Probes, SnooperEvent(p)
      PROVE  TypeOK'
  BY <1>2 DEF TypeOK, SnooperEvent
<1>3. ASSUME NEW p \in Probes, KeepliveProbe(p)
      PROVE  TypeOK'
  BY <1>3 DEF TypeOK, KeepliveProbe, CreateThread, StartingPcs
<1>4. CASE StartCheck
  BY <1>4 DEF TypeOK, StartCheck, Continue
<1>5. CASE StartSetFlags
  BY <1>5 DEF TypeOK, StartSetFlags, Continue, Flags
<1>6. CASE StartTry
  <2>1. CASE UNCHANGED <<conf, tid, threadVars>>
    BY <1>6, <2>1 DEF TypeOK, StartTry, Continue, Refuse, Release, States
  <2>2. CASE Refuse /\ UNCHANGED <<tid, threadVars>>
    BY <1>6, <2>2 DEF TypeOK, StartTry, Refuse, Release, States
  <2>3. CASE CreateThread(mprobe) /\ Continue("send") /\ UNCHANGED conf
    <3>1. mprobe \in Probes
      BY <1>6 DEF TypeOK, StartTry
    <3> QED BY <1>6, <2>3, <3>1 DEF TypeOK, StartTry, Continue, CreateThread, StartingPcs
  <2> QED BY <1>6, <2>1, <2>2, <2>3 DEF StartTry
<1>7. CASE StopCheck
  BY <1>7 DEF TypeOK, StopCheck, Continue
<1>8. CASE StopSetFlags
  BY <1>8 DEF TypeOK, StopSetFlags, Continue, Flags
<1>9. CASE StopNative
  <2>1. mprobe \in Probes
    BY <1>9 DEF TypeOK, StopNative
  <2>2. CASE Refuse /\ UNCHANGED <<flags, canceled, queue>>
    BY <1>9, <2>1, <2>2 DEF TypeOK, StopNative, Refuse, Release, States
  <2>3. CASE /\ canceled' = canceled \cup {tid[mprobe]}
             /\ flags' = [flags EXCEPT ![mprobe] = (@ \cup {"STOPPED"}) \ {"RUNNING"}]
             /\ ClearMessages(mprobe)
             /\ Continue("join")
             /\ UNCHANGED conf
    <3>1. queue' \in [Probes -> Seq(Confs \cup {Conf0})]
      BY <2>1, <2>3 DEF TypeOK, ClearMessages
    <3>2. flags' \in [Probes -> SUBSET Flags]
      BY <2>1, <2>3 DEF TypeOK, Flags
    <3>3. canceled' \subseteq Threads \cup {NoThread}
      BY <2>1, <2>3 DEF TypeOK
    <3> QED BY <1>9, <2>1, <2>3, <3>1, <3>2, <3>3 DEF TypeOK, StopNative, Continue
  <2> QED BY <1>9, <2>2, <2>3 DEF StopNative
<1>10. CASE StopExtend
  <2>1. mprobe \in Probes
    BY <1>10 DEF TypeOK, StopExtend
  <2>2. CASE Refuse /\ UNCHANGED proc
    BY <1>10, <2>1, <2>2 DEF TypeOK, StopExtend, Refuse, Release, States
  <2>3. CASE /\ pid[mprobe] # NoPid
             /\ proc' = [proc EXCEPT ![pid[mprobe]] = IF @ = "alive" THEN "interrupted" ELSE @]
             /\ Continue("join")
             /\ UNCHANGED conf
    <3>1. pid[mprobe] \in Threads
      BY <2>1, <2>3 DEF TypeOK
    <3>2. proc' \in [Threads -> {"none", "alive", "interrupted", "dead", "reaped"}]
      BY <2>3, <3>1 DEF TypeOK
    <3> QED BY <1>10, <2>1, <2>3, <3>2 DEF TypeOK, StopExtend, Continue
  <2> QED BY <1>10, <2>2, <2>3 DEF StopExtend
<1>11. CASE StopJoin
  BY <1>11 DEF TypeOK, StopJoin, Continue, ExitPcs
<1>12. CASE RequestSend
  <2>1. mprobe \in Probes
    BY <1>12 DEF TypeOK, RequestSend
  <2>2. queue' \in [Probes -> Seq(Confs \cup {Conf0})]
    <3>1. CASE Send(mprobe)
      BY <2>1, <3>1 DEF TypeOK, Send
    <3>2. CASE UNCHANGED queue
      BY <3>2 DEF TypeOK
    <3> QED BY <1>12, <3>1, <3>2 DEF RequestSend
  <2>3. accepted' \in [Probes -> States]
    BY <1>12, <2>1 DEF TypeOK, RequestSend
  <2> QED BY <1>12, <2>2, <2>3 DEF TypeOK, RequestSend, Release, States
<1>13. CASE SnooperSend
  <2>1. mprobe \in Probes
    BY <1>13 DEF TypeOK, SnooperSend
  <2>2. queue' \in [Probes -> Seq(Confs \cup {Conf0})]
    BY <1>13, <2>1 DEF TypeOK, SnooperSend, Send
  <2> QED BY <1>13, <2>2 DEF TypeOK, SnooperSend, Release, States
<1>14. ASSUME NEW t \in Threads, ThreadPopen(t)
      PROVE  TypeOK'
  BY <1>14 DEF TypeOK, ThreadPopen, Go, StartingPcs
<1>15. ASSUME NEW t \in Threads, ThreadSetRunning(t)
      PROVE  TypeOK'
  BY <1>15 DEF TypeOK, ThreadSetRunning, Go, SetFlag, Flags, RunningPcs
<1>16. ASSUME NEW t \in Threads, ThreadUnsetStopped(t)
      PROVE  TypeOK'
  BY <1>16 DEF TypeOK, ThreadUnsetStopped, Go, UnsetFlag, Flags, RunningPcs
<1>17. ASSUME NEW t \in Threads, ThreadLookup(t)
      PROVE  TypeOK'
  <2>0. tpc[t] = "lookup"
    BY <1>17 DEF ThreadLookup, Go
  <2>1. owner[t] \in Probes
    BY <2>0, OwnerKnown
  <2>2. tpc' \in [Threads -> {"none"} \cup StartingPcs \cup RunningPcs \cup ExitPcs]
    BY <1>17 DEF TypeOK, ThreadLookup, Go, RunningPcs
  <2>3. pid' \in [Probes -> Threads \cup {NoPid}]
    BY <1>17, <2>1 DEF TypeOK, ThreadLookup, ThreadsOf
  <2>4. retry' \in [Threads -> 0 .. LookupMax + 1]
    BY <1>17 DEF TypeOK, ThreadLookup
  <2>5. tpc' \in {tpc, [tpc EXCEPT ![t] = "parse"], [tpc EXCEPT ![t] = "lookup"]}
    BY <1>17 DEF ThreadLookup, Go
  <2>6. \A u \in Threads : /\ tpc'[u] # "none" => owner'[u] \in Probes
                           /\ proc'[u] # "none" => tpc'[u] # "none"
    BY <1>17, <2>0, <2>1, <2>5 DEF TypeOK, ThreadLookup
  <2> QED BY <1>17, <2>2, <2>3, <2>4, <2>6 DEF TypeOK, ThreadLookup
<1>18. ASSUME NEW t \in Threads, ThreadParse(t)
      PROVE  TypeOK'
  BY <1>18 DEF TypeOK, ThreadParse, Go, RunningPcs
<1>19. ASSUME NEW t \in Threads, ThreadSetStopped(t)
      PROVE  TypeOK'
  BY <1>19 DEF TypeOK, ThreadSetStopped, Go, SetFlag, Flags, RunningPcs
<1>20. ASSUME NEW t \in Threads, ThreadUnsetRunning(t)
      PROVE  TypeOK'
  BY <1>20 DEF TypeOK, ThreadUnsetRunning, Go, UnsetFlag, Flags, ExitPcs
<1>21. ASSUME NEW t \in Threads, ThreadClear(t)
      PROVE  TypeOK'
  BY <1>21 DEF TypeOK, ThreadClear, Go, ClearMessages, ExitPcs
<1>22. ASSUME NEW t \in Threads, ThreadPclose(t)
      PROVE  TypeOK'
  BY <1>22 DEF TypeOK, ThreadPclose, Go, ExitPcs
<1>23. ASSUME NEW t \in Threads, ThreadEntryEnds(t)
      PROVE  TypeOK'
  <2>1. deaths' \in 0 .. MaxDeaths
    BY <1>23 DEF TypeOK, ThreadEntryEnds
  <2> QED BY <1>23, <2>1 DEF TypeOK, ThreadEntryEnds, Go, ExitPcs
<1>24. ASSUME NEW t \in Threads, ProcRecv(t)
      PROVE  TypeOK'
  <2>1. owner[t] \in Probes
    BY <1>24, OwnerKnown DEF ProcRecv
  <2>2. Last(queue[owner[t]]) \in Confs \cup {Conf0}
    BY <1>24, <2>1 DEF TypeOK, ProcRecv, Last
  <2>3. queue' \in [Probes -> Seq(Confs \cup {Conf0})]
    BY <1>24, <2>1 DEF TypeOK, ProcRecv, ClearMessages
  <2> QED BY <1>24, <2>2, <2>3 DEF TypeOK, ProcRecv
<1>25. ASSUME NEW t \in Threads, ProcStops(t)
      PROVE  TypeOK'
  BY <1>25 DEF TypeOK, ProcStops
<1>26. ASSUME NEW t \in Threads, ProcDies(t)
      PROVE  TypeOK'
  BY <1>26 DEF TypeOK, ProcDies
<1>27. CASE UNCHANGED vars
  BY <1>27 DEF TypeOK, vars, Starting
<1> QED
  BY <1>1, <1>2, <1>3, <1>4, <1>5, <1>6, <1>7, <1>8, <1>9, <1>10, <1>11, <1>12, <1>13, <1>14,
     <1>15, <1>16, <1>17, <1>18, <1>19, <1>20, <1>21, <1>22, <1>23, <1>24, <1>25, <1>26, <1>27
     DEF Next, ParseProbeJson, ProbeThread

(* Every variable of the probe manager keeps its type, whatever the order   *)
(* of requests, events, threads and deaths.                                 *)
THEOREM ProbeTypeCorrect == Spec => []TypeOK
<1>1. Init => TypeOK
  <2> SUFFICES ASSUME Init PROVE TypeOK
    OBVIOUS
  <2>1. queue \in [Probes -> Seq(Confs \cup {Conf0})]
    BY DEF Init
  <2>2. retry \in [Threads -> 0 .. LookupMax + 1] /\ requests \in 0 .. MaxRequests
        /\ events \in 0 .. MaxEvents /\ deaths \in 0 .. MaxDeaths
    BY BoundsAssumption DEF Init
  <2> QED BY <2>1, <2>2, SetsAssumption DEF Init, TypeOK, States
<1>2. TypeOK /\ [Next]_vars => TypeOK'
  BY TypeStep
<1> QED BY <1>1, <1>2, PTL DEF Spec

-----------------------------------------------------------------------------
(* The types LifecycleInv is about. *)
LifecycleTypes ==
  /\ flags \in [Probes -> SUBSET Flags]
  /\ tid \in [Probes -> Threads \cup {NoThread}]
  /\ owner \in [Threads -> Probes \cup {NoProbe}]
  /\ tpc \in [Threads -> {"none"} \cup StartingPcs \cup RunningPcs \cup ExitPcs]
  /\ \A t \in Threads : tpc[t] # "none" => owner[t] \in Probes
  /\ mpc # "idle" => mprobe \in Probes

(***************************************************************************)
(* Every step keeps LifecycleInv, provided that no request and no keepalive *)
(* disturbs a starting probe.                                               *)
(***************************************************************************)
LEMMA LifecycleStep ==
  ASSUME Settled, TypeOK, LifecycleInv, [Next]_vars
  PROVE  LifecycleInv'
<1> USE SetsAssumption DEF LifecycleInv, RunningIsTid, FreshThreads, ActiveIsTid,
        ActiveIsRunning, ThreadKinds, LockHolder, Starting, ThreadsOf, StartingPcs, RunningPcs,
        ExitPcs, Has, LifecycleTypes
<1>0. LifecycleTypes
  BY DEF TypeOK
<1>1. ASSUME NEW p \in Probes, NEW c \in Confs \cup {NoConf}, NEW s \in States,
             RequestBegin(p, c, s)
      PROVE  LifecycleInv'
  BY <1>0, <1>1 DEF RequestBegin, MayDisturb, States
<1>2. ASSUME NEW p \in Probes, SnooperEvent(p)
      PROVE  LifecycleInv'
  BY <1>0, <1>2 DEF SnooperEvent
<1>3. ASSUME NEW p \in Probes, KeepliveProbe(p)
      PROVE  LifecycleInv'
  BY <1>0, <1>3 DEF KeepliveProbe, CreateThread, MayDisturb
<1>4. CASE StartCheck
  BY <1>0, <1>4 DEF StartCheck, Continue
<1>5. CASE StartSetFlags
  BY <1>0, <1>5 DEF StartSetFlags, Continue
<1>6. CASE StartTry
  <2>1. CASE UNCHANGED <<tid, threadVars>>
    BY <1>0, <1>6, <2>1 DEF StartTry, Continue, Refuse, Release
  <2>2. CASE CreateThread(mprobe) /\ Continue("send")
    BY <1>0, <1>6, <2>2 DEF StartTry, Continue, CreateThread
  <2> QED BY <1>6, <2>1, <2>2 DEF StartTry
<1>7. CASE StopCheck
  BY <1>0, <1>7 DEF StopCheck, Continue
<1>8. CASE StopSetFlags
  BY <1>0, <1>8 DEF StopSetFlags, Continue
<1>9. CASE StopNative
  BY <1>0, <1>9 DEF StopNative, Continue, Refuse, Release
<1>10. CASE StopExtend
  BY <1>0, <1>10 DEF StopExtend, Continue, Refuse, Release
<1>11. CASE StopJoin
  BY <1>0, <1>11 DEF StopJoin, Continue
<1>12. CASE RequestSend
  BY <1>0, <1>12 DEF RequestSend, Release
<1>13. CASE SnooperSend
  BY <1>0, <1>13 DEF SnooperSend, Release
<1>14. ASSUME NEW t \in Threads, ThreadPopen(t)
      PROVE  LifecycleInv'
  BY <1>0, <1>14 DEF ThreadPopen, Go
<1>15. ASSUME NEW t \in Threads, ThreadSetRunning(t)
      PROVE  LifecycleInv'
  BY <1>0, <1>15 DEF ThreadSetRunning, Go, SetFlag
<1>16. ASSUME NEW t \in Threads, ThreadUnsetStopped(t)
      PROVE  LifecycleInv'
  BY <1>0, <1>16 DEF ThreadUnsetStopped, Go, UnsetFlag
<1>17. ASSUME NEW t \in Threads, ThreadLookup(t)
      PROVE  LifecycleInv'
  <2>1. CASE tpc' = [tpc EXCEPT ![t] = "parse"]
    BY <1>0, <1>17, <2>1 DEF ThreadLookup, Go
  <2>2. CASE tpc' = [tpc EXCEPT ![t] = "lookup"]
    BY <1>0, <1>17, <2>2 DEF ThreadLookup, Go
  <2> QED BY <1>17, <2>1, <2>2 DEF ThreadLookup, Go
<1>18. ASSUME NEW t \in Threads, ThreadParse(t)
      PROVE  LifecycleInv'
  BY <1>0, <1>18 DEF ThreadParse, Go
<1>19. ASSUME NEW t \in Threads, ThreadSetStopped(t)
      PROVE  LifecycleInv'
  BY <1>0, <1>19 DEF ThreadSetStopped, Go, SetFlag
<1>20. ASSUME NEW t \in Threads, ThreadUnsetRunning(t)
      PROVE  LifecycleInv'
  BY <1>0, <1>20 DEF ThreadUnsetRunning, Go, UnsetFlag
<1>21. ASSUME NEW t \in Threads, ThreadClear(t)
      PROVE  LifecycleInv'
  BY <1>0, <1>21 DEF ThreadClear, Go
<1>22. ASSUME NEW t \in Threads, ThreadPclose(t)
      PROVE  LifecycleInv'
  BY <1>0, <1>22 DEF ThreadPclose, Go
<1>23. ASSUME NEW t \in Threads, ThreadEntryEnds(t)
      PROVE  LifecycleInv'
  BY <1>0, <1>23 DEF ThreadEntryEnds, Go
<1>24. ASSUME NEW t \in Threads, ProcRecv(t)
      PROVE  LifecycleInv'
  BY <1>0, <1>24 DEF ProcRecv
<1>25. ASSUME NEW t \in Threads, ProcStops(t)
      PROVE  LifecycleInv'
  BY <1>0, <1>25 DEF ProcStops
<1>26. ASSUME NEW t \in Threads, ProcDies(t)
      PROVE  LifecycleInv'
  BY <1>0, <1>26 DEF ProcDies
<1>27. CASE UNCHANGED vars
  BY <1>27 DEF vars
<1> QED
  BY <1>1, <1>2, <1>3, <1>4, <1>5, <1>6, <1>7, <1>8, <1>9, <1>10, <1>11, <1>12, <1>13, <1>14,
     <1>15, <1>16, <1>17, <1>18, <1>19, <1>20, <1>21, <1>22, <1>23, <1>24, <1>25, <1>26, <1>27
     DEF Next, ParseProbeJson, ProbeThread

(* Every step keeps StopInv. *)
LEMMA StopStep ==
  ASSUME TypeOK, LifecycleInv, StopInv, [Next]_vars
  PROVE  StopInv'
<1> USE SetsAssumption DEF StopInv
<1>0. /\ LifecycleTypes
      /\ proc \in [Threads -> {"none", "alive", "interrupted", "dead", "reaped"}]
      /\ pid \in [Probes -> Threads \cup {NoPid}]
      /\ queue \in [Probes -> Seq(Confs \cup {Conf0})]
      /\ \A t \in Threads : proc[t] # "none" => tpc[t] # "none"
  BY DEF TypeOK, LifecycleTypes
<1>a. RunningIsTid /\ ThreadKinds /\ LockHolder
  BY DEF LifecycleInv
<1> USE <1>0, <1>a DEF LifecycleTypes
<1>1. ASSUME NEW p \in Probes, NEW c \in Confs \cup {NoConf}, NEW s \in States,
             RequestBegin(p, c, s)
      PROVE  StopInv'
  BY <1>1 DEF RequestBegin, States
<1>2. ASSUME NEW p \in Probes, SnooperEvent(p)
      PROVE  StopInv'
  BY <1>2 DEF SnooperEvent
<1>3. ASSUME NEW p \in Probes, KeepliveProbe(p)
      PROVE  StopInv'
  BY <1>3 DEF KeepliveProbe, CreateThread
<1>4. CASE StartCheck
  BY <1>4 DEF StartCheck, Continue
<1>5. CASE StartSetFlags
  BY <1>5 DEF StartSetFlags, Continue
<1>6. CASE StartTry
  BY <1>6 DEF StartTry, Continue, Refuse, Release, CreateThread
<1>7. CASE StopCheck
  BY <1>7 DEF StopCheck, Continue, RunningIsTid, RunningPcs, Has
<1>8. CASE StopSetFlags
  BY <1>8 DEF StopSetFlags, Continue
<1>9. CASE StopNative
  BY <1>9 DEF StopNative, Continue, Refuse, Release, ClearMessages, LockHolder
<1>10. CASE StopExtend
  BY <1>10 DEF StopExtend, Continue, Refuse, Release, LockHolder
<1>11. CASE StopJoin
  BY <1>11 DEF StopJoin, Continue, LockHolder
<1>12. CASE RequestSend
  BY <1>12 DEF RequestSend, Release, Send
<1>13. CASE SnooperSend
  BY <1>13 DEF SnooperSend, Release, Send
<1>14. ASSUME NEW t \in Threads, ThreadPopen(t)
      PROVE  StopInv'
  BY <1>14 DEF ThreadPopen, Go, ThreadKinds
<1>15. ASSUME NEW t \in Threads, ThreadSetRunning(t)
      PROVE  StopInv'
  BY <1>15 DEF ThreadSetRunning, Go
<1>16. ASSUME NEW t \in Threads, ThreadUnsetStopped(t)
      PROVE  StopInv'
  BY <1>16 DEF ThreadUnsetStopped, Go
<1>17. ASSUME NEW t \in Threads, ThreadLookup(t)
      PROVE  StopInv'
  <2>1. CASE tpc' = [tpc EXCEPT ![t] = "parse"]
    BY <1>17, <2>1 DEF ThreadLookup, Go
  <2>2. CASE tpc' = [tpc EXCEPT ![t] = "lookup"]
    BY <1>17, <2>2 DEF ThreadLookup, Go
  <2> QED BY <1>17, <2>1, <2>2 DEF ThreadLookup, Go
<1>18. ASSUME NEW t \in Threads, ThreadParse(t)
      PROVE  StopInv'
  BY <1>18 DEF ThreadParse, Go
<1>19. ASSUME NEW t \in Threads, ThreadSetStopped(t)
      PROVE  StopInv'
  BY <1>19 DEF ThreadSetStopped, Go
<1>20. ASSUME NEW t \in Threads, ThreadUnsetRunning(t)
      PROVE  StopInv'
  BY <1>20 DEF ThreadUnsetRunning, Go
<1>21. ASSUME NEW t \in Threads, ThreadClear(t)
      PROVE  StopInv'
  <2>1. \A p \in Probes : queue'[p] = IF p = owner[t] THEN <<>> ELSE queue[p]
    BY <1>21 DEF ThreadClear, ClearMessages
  <2>2. mpc \in {"setStopping", "kill", "join"} /\ t = tid[mprobe] => owner[t] = mprobe
    BY DEF LockHolder
  <2> QED BY <1>21, <2>1, <2>2 DEF ThreadClear, Go
<1>22. ASSUME NEW t \in Threads, ThreadPclose(t)
      PROVE  StopInv'
  BY <1>22 DEF ThreadPclose, Go
<1>23. ASSUME NEW t \in Threads, ThreadEntryEnds(t)
      PROVE  StopInv'
  <2>1. owner[t] \in Native
    BY <1>23 DEF ThreadEntryEnds, Go, ThreadKinds
  <2>2. mpc \in {"setStopping", "kill", "join"} /\ t = tid[mprobe] => owner[t] = mprobe
    BY DEF LockHolder
  <2> QED BY <1>23, <2>1, <2>2 DEF ThreadEntryEnds, Go
<1>24. ASSUME NEW t \in Threads, ProcRecv(t)
      PROVE  StopInv'
  BY <1>24 DEF ProcRecv, ClearMessages
<1>25. ASSUME NEW t \in Threads, ProcStops(t)
      PROVE  StopInv'
  BY <1>25 DEF ProcStops
<1>26. ASSUME NEW t \in Threads, ProcDies(t)
      PROVE  StopInv'
  BY <1>26 DEF ProcDies
<1>27. CASE UNCHANGED vars
  BY <1>27 DEF vars
<1> QED
  BY <1>1, <1>2, <1>3, <1>4, <1>5, <1>6, <1>7, <1>8, <1>9, <1>10, <1>11, <1>12, <1>13, <1>14,
     <1>15, <1>16, <1>17, <1>18, <1>19, <1>20, <1>21, <1>22, <1>23, <1>24, <1>25, <1>26, <1>27
     DEF Next, ParseProbeJson, ProbeThread

-----------------------------------------------------------------------------
(* The flags, the thread named by tid and the holder of the lock agree at    *)
(* all times, if no request or keepalive disturbs a starting probe.          *)
THEOREM LifecycleCorrect ==
  ASSUME Settled
  PROVE  Spec => [](LifecycleInv /\ StopInv)
<1>1. Init => LifecycleInv /\ StopInv
  BY SetsAssumption
     DEF Init, LifecycleInv, RunningIsTid, FreshThreads, ActiveIsTid, ActiveIsRunning,
         ThreadKinds, LockHolder, Has, StartingPcs, RunningPcs, StopInv
<1>2. TypeOK /\ LifecycleInv /\ StopInv /\ [Next]_vars => (LifecycleInv /\ StopInv)'
  BY Settled, LifecycleStep, StopStep
<1> QED BY <1>1, <1>2, ProbeTypeCorrect, PTL DEF Spec

(* What a stop relies on while it waits for the thread: a finished thread of  *)
(* an extended probe has reaped its process, and once the thread being        *)
(* stopped is past its clear_ipc_msg the queue of the probe stays empty.      *)
THEOREM StopRelies ==
  ASSUME Settled
  PROVE  Spec => []StopInv
<1>1. LifecycleInv /\ StopInv => StopInv
  OBVIOUS
<1> QED BY <1>1, LifecycleCorrect, PTL

(* The fifo of a probe never has two producers, if no request or keepalive   *)
(* disturbs a starting probe: what FifoImplementsQueue takes for granted.    *)
THEOREM SingleProducer ==
  ASSUME Settled
  PROVE  Spec => []OneProducer
<1>1. LifecycleInv => OneProducer
  BY DEF LifecycleInv, ActiveIsTid, OneProducer, ProducesInto, RunningPcs
<1> QED BY <1>1, LifecycleCorrect, PTL

(* RUNNING is set only while the thread tid names is in its running section  *)
(* (or a native probe returned on its own).                                  *)
THEOREM RunningNamesTid ==
  ASSUME Settled
  PROVE  Spec => []RunningIsTid
<1>1. LifecycleInv => RunningIsTid
  BY DEF LifecycleInv
<1> QED BY <1>1, LifecycleCorrect, PTL

(* A stop that comes back from its join leaves nothing of the probe behind.  *)
THEOREM StopCompletes ==
  ASSUME Settled
  PROVE  Spec => StopIsComplete
<1>1. ASSUME TypeOK, LifecycleInv, StopInv, LifecycleInv', [Next]_vars,
             mpc = "join", mpc' = "send"
      PROVE  Over(mprobe)'
  <2>1. StopJoin
    BY <1>1 DEF Next, ParseProbeJson, ProbeThread, RequestBegin, StartCheck, StartSetFlags,
       StartTry, StopCheck, StopSetFlags, StopNative, StopExtend, RequestSend, SnooperEvent,
       KeepliveProbe, SnooperSend, ThreadPopen, ThreadSetRunning, ThreadUnsetStopped,
       ThreadLookup, ThreadParse, ThreadSetStopped, ThreadUnsetRunning, ThreadClear,
       ThreadPclose, ThreadEntryEnds, ProcRecv, ProcStops, ProcDies, vars
  <2>2. /\ mprobe \in Probes /\ mprobe' = mprobe
        /\ tid[mprobe] \in Threads /\ owner[tid[mprobe]] = mprobe
    BY <1>1, <2>1 DEF TypeOK, LifecycleInv, LockHolder, StopJoin, Continue
  <2>3. tpc[tid[mprobe]] \in {"done", "joined"}
    BY <2>1 DEF StopJoin
  <2>4. queue[mprobe] = <<>>
    BY <1>1, <2>3 DEF StopInv
  <2>5. ~Has(mprobe, "RUNNING")
    BY <1>1, <2>2, <2>3 DEF LifecycleInv, RunningIsTid, LockHolder, RunningPcs
  <2>6. ASSUME NEW t \in Threads, owner[t] = mprobe
        PROVE  tpc'[t] \in ExitPcs
    <3>1. CASE t = tid[mprobe]
      BY <2>1, <2>2, <3>1 DEF StopJoin, TypeOK, ExitPcs
    <3>2. CASE t # tid[mprobe]
      <4>1. tpc[t] \notin StartingPcs \cup RunningPcs
        BY <1>1, <2>2, <2>6, <3>2 DEF LifecycleInv, ActiveIsTid
      <4>2. tpc[t] # "none"
        BY <1>1, <2>2, <2>6, SetsAssumption DEF StopInv
      <4>3. tpc[t] \in ExitPcs
        BY <1>1, <4>1, <4>2 DEF TypeOK
      <4> QED BY <1>1, <2>1, <2>2, <3>2, <4>3 DEF StopJoin, TypeOK
    <3> QED BY <3>1, <3>2
  <2>7. proc[tid[mprobe]] \in {"none", "reaped"}
    BY <1>1, <2>2, <2>3 DEF StopInv
  <2> QED BY <2>1, <2>2, <2>4, <2>5, <2>6, <2>7 DEF Over, StopJoin, Has, ThreadsOf
<1>2. TypeOK /\ LifecycleInv /\ StopInv /\ LifecycleInv' /\ [Next]_vars
        => [mpc = "join" /\ mpc' = "send" => Over(mprobe)']_vars
  BY <1>1
<1> QED BY <1>2, LifecycleCorrect, ProbeTypeCorrect, PTL DEF Spec, StopIsComplete
=============================================================================
