----------------------------- MODULE ProbeMng -----------------------------
(***************************************************************************)
(* The life of the probes: REST requests and the keepalive timer start and  *)
(* stop probe threads; an extended probe's thread runs a child process and  *)
(* reads its output; the process learns its configuration from a message    *)
(* queue.                                                                   *)
(*                                                                          *)
(* The REST thread (parse_probe_json) and the probe_mng thread (keepalive,  *)
(* snooper events) exclude each other with the probe_mng lock, held while   *)
(* mpc # "idle".  The probe threads do not take that lock: they share the   *)
(* status flags, the pid and the message queue with its holder, and each    *)
(* access of theirs is a step of its own.                                   *)
(*                                                                          *)
(* Thread t's child process, if it has one, is process t, and t also stands *)
(* for its pid.                                                             *)
(***************************************************************************)
EXTENDS Integers, Sequences, FiniteSets, SequencesExt

CONSTANTS
  Probes, Native,      \* the probes, and those that run inside the daemon
  Threads,             \* thread identities; a pthread_create takes a fresh one
  Confs,               \* configurations: cmd, snoopers and params of a request
  Conf0,               \* what new_probe sets
  NoConf, NoThread, NoPid, NoProbe,
  LookupMax,           \* PROBE_LKUP_PID_RETRY_MAX
  QueueMax,            \* messages the queue holds before msgsnd blocks
  Settled,             \* TRUE: no request or keepalive for a probe that is starting
  MaxRequests, MaxEvents, MaxDeaths   \* bounds on the environment

ASSUME SetsAssumption ==
  /\ Native \subseteq Probes
  /\ Conf0 \notin Confs /\ NoConf \notin Confs \cup {Conf0}
  /\ Threads \subseteq Nat
  /\ NoThread \notin Threads /\ NoPid \notin Threads /\ NoProbe \notin Probes
ASSUME BoundsAssumption ==
  /\ LookupMax \in Nat /\ QueueMax \in Nat \ {0}
  /\ MaxRequests \in Nat /\ MaxEvents \in Nat /\ MaxDeaths \in Nat
ASSUME SettledAssumption == Settled \in BOOLEAN

VARIABLES
  flags,      \* flags[p]: the PROBE_FLAGS_XXX set in probe_status
  tid, pid,   \* the thread and the process struct probe_s names
  isRestart,  \* is_restart
  conf,       \* the configuration in force
  owner,      \* owner[t]: the probe whose callback thread t runs
  tpc, retry, \* where thread t is; its pid lookups so far
  canceled,   \* threads with a pending pthread_cancel
  proc,       \* child processes
  applied,    \* the configuration process (or native thread) t works with
  queue,      \* queue[p]: the messages of the probe's type in the IPC queue
  mpc, mprobe, mstate, mchg, mbackup,  \* the holder of the probe_mng lock
  accepted,   \* the state of the last request answered with success
  requests, events, deaths

probeVars == <<flags, tid, pid, isRestart, conf>>
threadVars == <<owner, tpc, retry, canceled>>
procVars == <<proc, applied>>
mngVars == <<mpc, mprobe, mstate, mchg, mbackup>>
bounds == <<requests, events, deaths>>
vars == <<probeVars, threadVars, procVars, queue, mngVars, accepted, bounds>>

Flags == {"STARTED", "STOPPED", "STOPPING", "RUNNING"}
(* Created, and RUNNING not yet set. *)
StartingPcs == {"popen", "setRunning"}
(* RUNNING set, and not yet unset by the thread. *)
RunningPcs == {"unsetStopped", "lookup", "parse", "entry", "setStopped", "unsetRunning"}
ExitPcs == {"clear", "pclose", "done", "joined"}

Init ==
  /\ flags = [p \in Probes |-> {}]
  /\ tid = [p \in Probes |-> NoThread] /\ pid = [p \in Probes |-> NoPid]
  /\ isRestart = [p \in Probes |-> FALSE]
  /\ conf = [p \in Probes |-> Conf0]
  /\ owner = [t \in Threads |-> NoProbe] /\ tpc = [t \in Threads |-> "none"]
  /\ retry = [t \in Threads |-> 0] /\ canceled = {}
  /\ proc = [t \in Threads |-> "none"] /\ applied = [t \in Threads |-> NoConf]
  /\ queue = [p \in Probes |-> <<>>]
  /\ mpc = "idle" /\ mprobe = NoProbe /\ mstate = "none" /\ mchg = FALSE /\ mbackup = Conf0
  /\ accepted = [p \in Probes |-> "none"]
  /\ requests = 0 /\ events = 0 /\ deaths = 0

Has(p, flag) == flag \in flags[p]
SetFlag(p, flag) == flags' = [flags EXCEPT ![p] = @ \cup {flag}]
UnsetFlag(p, flag) == flags' = [flags EXCEPT ![p] = @ \ {flag}]

ThreadsOf(p) == {t \in Threads : owner[t] = p}
Starting(p) == \E t \in ThreadsOf(p) : tpc[t] \in StartingPcs
MayDisturb(p) == Settled => ~Starting(p)


(***************************************************************************)
(* The IPC message queue (external: msgsnd, msgrcv).  All probes share it   *)
(* and its limit; msgrcv takes a type, so only the order of the messages of *)
(* one type can be observed.                                                *)
(***************************************************************************)
QueueFull == MapThenSumSet(LAMBDA p : Len(queue[p]), Probes) >= QueueMax
Send(p) == ~QueueFull /\ queue' = [queue EXCEPT ![p] = Append(@, conf[p])]
ClearMessages(p) == queue' = [queue EXCEPT ![p] = <<>>]

-----------------------------------------------------------------------------
(* The holder of the probe_mng lock: requests. *)

(***************************************************************************)
(* parse_probe_json takes the lock and parses the items of the request in   *)
(* their fixed order: cmd, snoopers and params (one configuration here),    *)
(* then state.  An absent item is compared with an empty backup, so it      *)
(* counts as changed.                                                       *)
(***************************************************************************)
RequestBegin(p, c, s) ==
  /\ mpc = "idle" /\ requests < MaxRequests /\ MayDisturb(p)
  /\ c # NoConf \/ s # "none"
  /\ requests' = requests + 1
  /\ mprobe' = p /\ mstate' = s
  /\ mbackup' = conf[p]
  /\ mchg' = (c = NoConf \/ c # conf[p])
  /\ conf' = IF c = NoConf THEN conf ELSE [conf EXCEPT ![p] = c]
  /\ mpc' = CASE s = "running" -> "start" [] s = "stopped" -> "stop" [] OTHER -> "send"
  /\ UNCHANGED <<flags, tid, pid, isRestart, threadVars, procVars, queue, accepted, events,
                 deaths>>

(* The lock is released; its holder's local variables are gone. *)
Release ==
  mpc' = "idle" /\ mprobe' = NoProbe /\ mstate' = "none" /\ mchg' = FALSE /\ mbackup' = Conf0
Continue(pc) == mpc' = pc /\ UNCHANGED <<mprobe, mstate, mchg, mbackup>>

(* The state parser failed: rollback_probe, and the request is refused. *)
Refuse == conf' = [conf EXCEPT ![mprobe] = mbackup] /\ Release

(* start_probe: nothing to do for a running probe. *)
StartCheck ==
  /\ mpc = "start"
  /\ Continue(IF Has(mprobe, "RUNNING") THEN "send" ELSE "setStarted")
  /\ UNCHANGED <<probeVars, threadVars, procVars, queue, accepted, bounds>>

StartSetFlags ==
  /\ mpc = "setStarted"
  /\ isRestart' = [isRestart EXCEPT ![mprobe] = Has(mprobe, "STOPPED") \/ Has(mprobe, "STOPPING")]
  /\ flags' = [flags EXCEPT ![mprobe] = (@ \cup {"STARTED"}) \ {"STOPPING"}]
  /\ Continue("tryStart")
  /\ UNCHANGED <<tid, pid, conf, threadVars, procVars, queue, accepted, bounds>>

(* pthread_create(&probe->tid, NULL, probe->cb, probe) *)
CreateThread(p) ==
  \E t \in Threads :
    /\ tpc[t] = "none"
    /\ \A u \in Threads : u < t => tpc[u] # "none"
    /\ owner' = [owner EXCEPT ![t] = p]
    /\ tpc' = [tpc EXCEPT ![t] = IF p \in Native THEN "setRunning" ELSE "popen"]
    /\ tid' = [tid EXCEPT ![p] = t]
    /\ UNCHANGED <<retry, canceled>>

(* try_start_probe.  is_probe_ready may say no (no such file, the start      *)
(* check of the probe fails): the flag STARTED stays, the request fails.     *)
StartTry ==
  /\ mpc = "tryStart"
  /\ \/ /\ Has(mprobe, "RUNNING")
        /\ Continue("send")
        /\ UNCHANGED <<conf, tid, threadVars>>
     \/ /\ ~Has(mprobe, "RUNNING")
        /\ Refuse
        /\ UNCHANGED <<tid, threadVars>>
     \/ /\ ~Has(mprobe, "RUNNING")
        /\ CreateThread(mprobe)
        /\ Continue("send")
        /\ UNCHANGED conf
  /\ UNCHANGED <<flags, pid, isRestart, procVars, queue, accepted, bounds>>

(* stop_probe: nothing to do for a probe that is not running. *)
StopCheck ==
  /\ mpc = "stop"
  /\ Continue(IF Has(mprobe, "RUNNING") THEN "setStopping" ELSE "send")
  /\ UNCHANGED <<probeVars, threadVars, procVars, queue, accepted, bounds>>

(* STOPPING is forgotten. *)
MutStopSetFlags ==
  /\ mpc = "setStopping"
  /\ flags' = [flags EXCEPT ![mprobe] = @ \ {"STARTED"}]
  /\ Continue("kill")
  /\ UNCHANGED <<tid, pid, isRestart, conf, threadVars, procVars, queue, accepted, bounds>>

StopSetFlags ==
  /\ mpc = "setStopping"
  /\ flags' = [flags EXCEPT ![mprobe] = (@ \cup {"STOPPING"}) \ {"STARTED"}]
  /\ Continue("kill")
  /\ UNCHANGED <<tid, pid, isRestart, conf, threadVars, procVars, queue, accepted, bounds>>

(* The thread is never cancelled. *)
MutStopNative ==
  /\ mpc = "kill" /\ mprobe \in Native
  /\ flags' = [flags EXCEPT ![mprobe] = (@ \cup {"STOPPED"}) \ {"RUNNING"}]
  /\ ClearMessages(mprobe)
  /\ Continue("join")
  /\ UNCHANGED <<tid, pid, isRestart, conf, threadVars, procVars, accepted, bounds>>

(* RUNNING stays set, although the thread is cancelled and joined. *)
MutStopNativeJoin ==
  /\ mpc = "kill" /\ mprobe \in Native
  /\ canceled' = canceled \cup {tid[mprobe]}
  /\ SetFlag(mprobe, "STOPPED")
  /\ ClearMessages(mprobe)
  /\ Continue("join")
  /\ UNCHANGED <<tid, pid, isRestart, conf, owner, tpc, retry, procVars, accepted, bounds>>

(* The messages are left in the queue. *)
MutStopNativeQueue ==
  /\ mpc = "kill" /\ mprobe \in Native
  /\ canceled' = canceled \cup {tid[mprobe]}
  /\ flags' = [flags EXCEPT ![mprobe] = (@ \cup {"STOPPED"}) \ {"RUNNING"}]
  /\ Continue("join")
  /\ UNCHANGED <<tid, pid, isRestart, conf, owner, tpc, retry, procVars, queue, accepted, bounds>>

(***************************************************************************)
(* A native probe's thread is cancelled (pthread_cancel may refuse a thread *)
(* that has returned already); the flags change and the messages go at      *)
(* once.                                                                    *)
(***************************************************************************)
StopNative ==
  /\ mpc = "kill" /\ mprobe \in Native
  /\ \/ /\ tpc[tid[mprobe]] \in {"done", "joined"}
        /\ Refuse
        /\ UNCHANGED <<flags, canceled, queue>>
     \/ /\ canceled' = canceled \cup {tid[mprobe]}
        /\ flags' = [flags EXCEPT ![mprobe] = (@ \cup {"STOPPED"}) \ {"RUNNING"}]
        /\ ClearMessages(mprobe)
        /\ Continue("join")
        /\ UNCHANGED conf
  /\ UNCHANGED <<tid, pid, isRestart, owner, tpc, retry, procVars, accepted, bounds>>

(***************************************************************************)
(* An extended probe's process gets a SIGINT, if its pid is known.  The pid *)
(* may be that of an earlier process that is gone, and then nobody does.    *)
(***************************************************************************)
StopExtend ==
  /\ mpc = "kill" /\ mprobe \notin Native
  /\ \/ /\ pid[mprobe] = NoPid
        /\ Refuse
        /\ UNCHANGED proc
     \/ /\ pid[mprobe] # NoPid
        /\ proc' = [proc EXCEPT ![pid[mprobe]] = IF @ = "alive" THEN "interrupted" ELSE @]
        /\ Continue("join")
        /\ UNCHANGED conf
  /\ UNCHANGED <<flags, tid, pid, isRestart, threadVars, applied, queue, accepted, bounds>>

(* pthread_join(probe->tid), with the lock held; then the pid is forgotten. *)
StopJoin ==
  /\ mpc = "join" /\ tpc[tid[mprobe]] \in {"done", "joined"}
  /\ tpc' = [tpc EXCEPT ![tid[mprobe]] = "joined"]
  /\ pid' = [pid EXCEPT ![mprobe] = NoPid]
  /\ Continue("send")
  /\ UNCHANGED <<flags, tid, isRestart, conf, owner, retry, canceled, procVars, queue, accepted,
                 bounds>>

(***************************************************************************)
(* The request succeeded.  If anything changed or the probe was restarted,  *)
(* send_snooper_obj sends the configuration, but only to a STARTED probe.   *)
(* msgsnd blocks, lock held, while the queue is full.                       *)
(***************************************************************************)
RequestSend ==
  /\ mpc = "send"
  /\ IF Has(mprobe, "STARTED") /\ (mchg \/ isRestart[mprobe])
     THEN Send(mprobe) ELSE UNCHANGED queue
  /\ accepted' = [accepted EXCEPT ![mprobe] = IF mstate = "none" THEN @ ELSE mstate]
  /\ Release
  /\ UNCHANGED <<probeVars, threadVars, procVars, bounds>>

-----------------------------------------------------------------------------
(* The holder of the probe_mng lock: the probe_mng thread. *)

(* A process or container event changed the objects the probe observes. *)
SnooperEvent(p) ==
  /\ mpc = "idle" /\ events < MaxEvents
  /\ Has(p, "STARTED")
  /\ events' = events + 1
  /\ mprobe' = p /\ mpc' = "event"
  /\ UNCHANGED <<probeVars, threadVars, procVars, queue, mstate, mchg, mbackup, accepted,
                 requests, deaths>>

SnooperSend ==
  /\ mpc = "event"
  /\ Send(mprobe)
  /\ Release
  /\ UNCHANGED <<probeVars, threadVars, procVars, accepted, bounds>>

(* A zombie counts as gone, and nobody asks whether the probe runs. *)
MutKeepliveProbe(p) ==
  /\ mpc = "idle" /\ MayDisturb(p)
  /\ pid[p] # NoPid /\ proc[pid[p]] \in {"dead", "reaped"}
  /\ Has(p, "STARTED")
  /\ CreateThread(p)
  /\ UNCHANGED <<flags, pid, isRestart, conf, procVars, queue, mngVars, accepted, bounds>>

(***************************************************************************)
(* keeplive_probes on one probe: its last known process has left /proc      *)
(* (pclose has reaped it), it is not running and it is STARTED.  No message *)
(* is sent.                                                                 *)
(***************************************************************************)
KeepliveProbe(p) ==
  /\ mpc = "idle" /\ MayDisturb(p)
  /\ pid[p] # NoPid /\ proc[pid[p]] = "reaped"
  /\ ~Has(p, "RUNNING") /\ Has(p, "STARTED")
  /\ CreateThread(p)
  /\ UNCHANGED <<flags, pid, isRestart, conf, procVars, queue, mngVars, accepted, bounds>>

-----------------------------------------------------------------------------
(* Probe threads. *)

Go(t, from, to) == tpc[t] = from /\ tpc' = [tpc EXCEPT ![t] = to]

(* __DoRunExtProbe *)
ThreadPopen(t) ==
  /\ Go(t, "popen", "setRunning")
  /\ proc' = [proc EXCEPT ![t] = "alive"]
  /\ UNCHANGED <<probeVars, owner, retry, canceled, applied, queue, mngVars, accepted, bounds>>

ThreadSetRunning(t) ==
  /\ Go(t, "setRunning", "unsetStopped")
  /\ SetFlag(owner[t], "RUNNING")
  /\ UNCHANGED <<tid, pid, isRestart, conf, owner, retry, canceled, procVars, queue, mngVars,
                 accepted, bounds>>

ThreadUnsetStopped(t) ==
  /\ Go(t, "unsetStopped", IF owner[t] \in Native THEN "entry" ELSE "lookup")
  /\ UnsetFlag(owner[t], "STOPPED")
  /\ UNCHANGED <<tid, pid, isRestart, conf, owner, retry, canceled, procVars, queue, mngVars,
                 accepted, bounds>>

(* One lookup too many. *)
MutThreadLookup(t) ==
  /\ \/ /\ \E q \in ThreadsOf(owner[t]) :
             /\ proc[q] \in {"alive", "interrupted"}
             /\ pid' = [pid EXCEPT ![owner[t]] = q]
        /\ Go(t, "lookup", "parse")
        /\ UNCHANGED retry
     \/ /\ retry[t] <= LookupMax + 1
        /\ Go(t, "lookup", "lookup")
        /\ retry' = [retry EXCEPT ![t] = @ + 1]
        /\ UNCHANGED pid
  /\ UNCHANGED <<flags, tid, isRestart, conf, owner, canceled, procVars, queue, mngVars, accepted,
                 bounds>>

(***************************************************************************)
(* lkup_and_set_probe_pid: ps and grep find some process of the probe that  *)
(* is alive, or none; the lookup is repeated a bounded number of times.     *)
(***************************************************************************)
ThreadLookup(t) ==
  /\ \/ /\ \E q \in ThreadsOf(owner[t]) :
             /\ proc[q] \in {"alive", "interrupted"}
             /\ pid' = [pid EXCEPT ![owner[t]] = q]
        /\ Go(t, "lookup", "parse")
        /\ UNCHANGED retry
     \/ /\ retry[t] <= LookupMax
        /\ Go(t, "lookup", "lookup")
        /\ retry' = [retry EXCEPT ![t] = @ + 1]
        /\ UNCHANGED pid
     \/ /\ retry[t] > LookupMax
        /\ Go(t, "lookup", "parse")
        /\ UNCHANGED <<pid, retry>>
  /\ UNCHANGED <<flags, tid, isRestart, conf, owner, canceled, procVars, queue, mngVars, accepted,
                 bounds>>

(***************************************************************************)
(* parseExtendProbeOutput leaves its loop at the end of the output, or when *)
(* it sees STOPPING before it asks for another line.  Its other rounds put  *)
(* a line into the probe's fifo and change nothing here.                    *)
(***************************************************************************)
ThreadParse(t) ==
  /\ Go(t, "parse", "setStopped")
  /\ proc[t] = "dead" \/ Has(owner[t], "STOPPING")
  /\ UNCHANGED <<probeVars, owner, retry, canceled, procVars, queue, mngVars, accepted, bounds>>

ThreadSetStopped(t) ==
  /\ Go(t, "setStopped", "unsetRunning")
  /\ SetFlag(owner[t], "STOPPED")
  /\ UNCHANGED <<tid, pid, isRestart, conf, owner, retry, canceled, procVars, queue, mngVars,
                 accepted, bounds>>

(* RUNNING is left set. *)
MutThreadUnsetRunning(t) ==
  /\ Go(t, "unsetRunning", "clear")
  /\ UNCHANGED <<probeVars, owner, retry, canceled, procVars, queue, mngVars, accepted, bounds>>

ThreadUnsetRunning(t) ==
  /\ Go(t, "unsetRunning", "clear")
  /\ UnsetFlag(owner[t], "RUNNING")
  /\ UNCHANGED <<tid, pid, isRestart, conf, owner, retry, canceled, procVars, queue, mngVars,
                 accepted, bounds>>

(* The messages are left in the queue. *)
MutThreadClear(t) ==
  /\ Go(t, "clear", "pclose")
  /\ UNCHANGED <<probeVars, owner, retry, canceled, procVars, queue, mngVars, accepted, bounds>>

(* clear_ipc_msg *)
ThreadClear(t) ==
  /\ Go(t, "clear", "pclose")
  /\ ClearMessages(owner[t])
  /\ UNCHANGED <<probeVars, owner, retry, canceled, procVars, mngVars, accepted, bounds>>

(* pclose waits for the process and reaps it. *)
ThreadPclose(t) ==
  /\ Go(t, "pclose", "done")
  /\ proc[t] = "dead"
  /\ proc' = [proc EXCEPT ![t] = "reaped"]
  /\ UNCHANGED <<probeVars, owner, retry, canceled, applied, queue, mngVars, accepted, bounds>>

(* A native probe's thread ends in probe_entry: cancelled, or returning     *)
(* because one of its collectors failed.  It leaves the flags as they are.  *)
ThreadEntryEnds(t) ==
  /\ Go(t, "entry", "done")
  /\ \/ t \in canceled /\ UNCHANGED deaths
     \/ deaths < MaxDeaths /\ deaths' = deaths + 1
  /\ UNCHANGED <<probeVars, owner, retry, canceled, procVars, queue, mngVars, accepted, requests,
                 events>>

-----------------------------------------------------------------------------
(* Probe processes (external, from how the probe threads use them). *)

(* recv_ipc_msg: the last message counts, the others are dropped. *)
ProcRecv(t) ==
  /\ proc[t] = "alive" \/ tpc[t] = "entry"
  /\ queue[owner[t]] # <<>>
  /\ applied' = [applied EXCEPT ![t] = Last(queue[owner[t]])]
  /\ ClearMessages(owner[t])
  /\ UNCHANGED <<probeVars, threadVars, proc, mngVars, accepted, bounds>>

(* The process dies on SIGINT, or of SIGPIPE once nobody reads its output. *)
ProcStops(t) ==
  /\ proc[t] = "interrupted" \/ (proc[t] = "alive" /\ tpc[t] = "pclose")
  /\ proc' = [proc EXCEPT ![t] = "dead"]
  /\ UNCHANGED <<probeVars, threadVars, applied, queue, mngVars, accepted, bounds>>

(* The process dies of its own. *)
ProcDies(t) ==
  /\ proc[t] = "alive" /\ deaths < MaxDeaths
  /\ proc' = [proc EXCEPT ![t] = "dead"]
  /\ deaths' = deaths + 1
  /\ UNCHANGED <<probeVars, threadVars, applied, queue, mngVars, accepted, requests, events>>

-----------------------------------------------------------------------------
ParseProbeJson ==
  \/ StartCheck \/ StartSetFlags \/ StartTry
  \/ StopCheck \/ StopSetFlags \/ StopNative \/ StopExtend \/ StopJoin
  \/ RequestSend

ProbeThread(t) ==
  \/ ThreadPopen(t) \/ ThreadSetRunning(t) \/ ThreadUnsetStopped(t) \/ ThreadLookup(t)
  \/ ThreadParse(t) \/ ThreadSetStopped(t) \/ ThreadUnsetRunning(t) \/ ThreadClear(t)
  \/ ThreadPclose(t) \/ ThreadEntryEnds(t)

States == {"running", "stopped", "none"}

Next ==
  \/ \E p \in Probes, c \in Confs \cup {NoConf}, s \in States : RequestBegin(p, c, s)
  \/ ParseProbeJson
  \/ \E p \in Probes : SnooperEvent(p) \/ KeepliveProbe(p)
  \/ SnooperSend
  \/ \E t \in Threads : ProbeThread(t) \/ ProcRecv(t) \/ ProcStops(t) \/ ProcDies(t)

Spec == Init /\ [][Next]_vars

(***************************************************************************)
(* The lock holder and the probe threads are scheduled; the keepalive timer *)
(* comes round for ever and finds a probe ready that can be started.  A     *)
(* probe process polls its messages and dies of SIGINT and SIGPIPE; it      *)
(* prints now and then, so a thread in fgets gets to see STOPPING.          *)
(* Requests, events, and deaths of processes need not happen, and a native  *)
(* probe need not return.                                                   *)
(***************************************************************************)
Fairness ==
  /\ WF_vars(ParseProbeJson) /\ WF_vars(SnooperSend)
  /\ \A p \in Probes : SF_vars(KeepliveProbe(p))
  /\ \A t \in Threads :
       /\ WF_vars(ProbeThread(t) /\ deaths' = deaths)
       /\ WF_vars(ProcRecv(t)) /\ WF_vars(ProcStops(t))

FairSpec == Spec /\ Fairness

-----------------------------------------------------------------------------
TypeOK ==
  /\ flags \in [Probes -> SUBSET Flags]
  /\ tid \in [Probes -> Threads \cup {NoThread}] /\ pid \in [Probes -> Threads \cup {NoPid}]
  /\ isRestart \in [Probes -> BOOLEAN]
  /\ conf \in [Probes -> Confs \cup {Conf0}]
  /\ owner \in [Threads -> Probes \cup {NoProbe}]
  /\ tpc \in [Threads -> {"none"} \cup StartingPcs \cup RunningPcs \cup ExitPcs]
  /\ \A t \in Threads : /\ tpc[t] # "none" => owner[t] \in Probes
                        /\ proc[t] # "none" => tpc[t] # "none"
  /\ retry \in [Threads -> 0 .. LookupMax + 1]
  /\ canceled \subseteq Threads \cup {NoThread}
  /\ proc \in [Threads -> {"none", "alive", "interrupted", "dead", "reaped"}]
  /\ applied \in [Threads -> Confs \cup {Conf0, NoConf}]
  /\ queue \in [Probes -> Seq(Confs \cup {Conf0})]
  /\ mpc \in {"idle", "start", "setStarted", "tryStart", "stop", "setStopping", "kill", "join",
              "send", "event"}
  /\ mpc # "idle" => mprobe \in Probes
  /\ mprobe \in Probes \cup {NoProbe} /\ mstate \in States /\ mchg \in BOOLEAN
  /\ mbackup \in Confs \cup {Conf0}
  /\ accepted \in [Probes -> States]
  /\ requests \in 0 .. MaxRequests /\ events \in 0 .. MaxEvents /\ deaths \in 0 .. MaxDeaths

(***************************************************************************)
(* The probe's fifo has a single producer (struct probe_s: "context in      *)
(* probe-thread"): no two threads of a probe are in the loop that reads     *)
(* probe output and puts it into the fifo.                                  *)
(***************************************************************************)
ProducesInto(t, p) == owner[t] = p /\ tpc[t] \in {"parse", "entry"}
OneProducer ==
  \A p \in Probes, t, u \in Threads : ProducesInto(t, p) /\ ProducesInto(u, p) => t = u

(***************************************************************************)
(* RUNNING means what its comment says, and about the right thread: the     *)
(* thread probe->tid names is the one that set the flag and has yet to      *)
(* unset it, so a stop cancels or joins that one and never a thread that    *)
(* was joined before.  A native probe that returned keeps the flag.         *)
(***************************************************************************)
RunningIsTid ==
  \A p \in Probes : Has(p, "RUNNING") =>
    /\ tid[p] \in Threads
    /\ owner[tid[p]] = p
    /\ tpc[tid[p]] \in RunningPcs \cup (IF p \in Native THEN {"done"} ELSE {})

(***************************************************************************)
(* Why the two hold when nothing disturbs a starting probe.                 *)
(***************************************************************************)
(* A thread that was never created is nobody's tid. *)
FreshThreads == \A t \in Threads, p \in Probes : tpc[t] = "none" => tid[p] # t

(* A thread on its way to set RUNNING, or to unset it, is the one in tid. *)
ActiveIsTid ==
  \A t \in Threads : tpc[t] \in StartingPcs \cup RunningPcs => tid[owner[t]] = t

(* Between the two RUNNING is set, but for a native probe being stopped. *)
ActiveIsRunning ==
  \A t \in Threads : tpc[t] \in RunningPcs =>
    \/ Has(owner[t], "RUNNING")
    \/ mpc = "join" /\ mprobe = owner[t]

(* Native and extended probes' threads run through steps of their own. *)
ThreadKinds ==
  \A t \in Threads :
    /\ tpc[t] = "entry" => owner[t] \in Native
    /\ tpc[t] \in {"popen", "lookup", "parse", "setStopped", "unsetRunning"} =>
         owner[t] \notin Native

(* A request sees no starting thread, and a stop knows the thread it stops. *)
LockHolder ==
  /\ mpc \in {"start", "setStarted", "tryStart", "stop", "setStopping", "kill", "join"} =>
       ~Starting(mprobe)
  /\ mpc \in {"setStopping", "kill", "join"} =>
       tid[mprobe] \in Threads /\ tpc[tid[mprobe]] # "none" /\ owner[tid[mprobe]] = mprobe
  /\ mpc = "join" /\ mprobe \in Native => ~Has(mprobe, "RUNNING")

LifecycleInv ==
  /\ RunningIsTid
  /\ FreshThreads
  /\ ActiveIsTid
  /\ ActiveIsRunning
  /\ ThreadKinds
  /\ LockHolder

(***************************************************************************)
(* When stop_probe comes back from its join, the probe is really over: no   *)
(* thread of it produces or is about to, the process it ran is dead,        *)
(* RUNNING is unset and no message waits that a later process would take    *)
(* for its own.  (A process left behind by an earlier stop that was refused *)
(* for want of a pid may still be on its way out.)                          *)
(***************************************************************************)
Over(p) ==
  /\ ~Has(p, "RUNNING")
  /\ queue[p] = <<>>
  /\ \A t \in ThreadsOf(p) : tpc[t] \in ExitPcs
  /\ proc[tid[p]] \notin {"alive", "interrupted"}
StopIsComplete == [][mpc = "join" /\ mpc' = "send" => Over(mprobe)']_vars

(***************************************************************************)
(* Why: a native probe has no process, a thread that is done has reaped its *)
(* own; once the thread being stopped has cleared the queue nobody refills  *)
(* it, because sending takes the lock.                                      *)
(***************************************************************************)
StopInv ==
  /\ \A t \in Threads :
       /\ tpc[t] = "none" => owner[t] = NoProbe
       /\ owner[t] \in Native => proc[t] = "none"
       /\ tpc[t] \in {"done", "joined"} /\ owner[t] \notin Native => proc[t] = "reaped"
  /\ mpc \in {"setStopping", "kill", "join"} =>
       \/ mprobe \in Native
       \/ tpc[tid[mprobe]] \notin {"pclose", "done", "joined"}
       \/ queue[mprobe] = <<>>
  /\ mpc = "join" /\ mprobe \in Native => queue[mprobe] = <<>>

Jammed == QueueFull /\ mpc \in {"send", "event"}

(***************************************************************************)
(* The probe_mng lock is released, although its holder joins a probe thread *)
(* that may be waiting for its process.  The one thing that can keep it is  *)
(* msgsnd on a full queue that no process empties.                          *)
(***************************************************************************)
LockIsReleased == mpc # "idle" ~> (mpc = "idle" \/ Jammed)

(***************************************************************************)
(* A probe whose process dies is started again, as long as it is STARTED,   *)
(* its pid was found while it ran and the lock is to be had.                *)
(***************************************************************************)
ThreadsUsedUp == \A t \in Threads : tpc[t] # "none"   \* the bound on Threads
KeepliveRestarts ==
  \A p \in Probes \ Native, t \in Threads :
    (pid[p] = t /\ proc[t] = "dead" /\ Has(p, "STARTED")) ~>
      (tid[p] # t \/ ~Has(p, "STARTED") \/ Jammed \/ ThreadsUsedUp)

(***************************************************************************)
(* rest_server.c answers a request with "New config takes effect", and the  *)
(* interface design says that each request is the final running result of   *)
(* the probe: after an accepted "stopped", no thread is created for it.     *)
(***************************************************************************)
StopTakesEffect ==
  [][\A p \in Probes : accepted[p] = "stopped" /\ mpc = "idle" => tid'[p] = tid[p]]_vars
===========================================================================
