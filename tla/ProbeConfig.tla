---------------------------- MODULE ProbeConfig ----------------------------
(***************************************************************************)
(* How the configuration of one probe changes and how it reaches the        *)
(* probe's process.  A request carries up to four items; each is backed up  *)
(* and parsed in turn, and the first that is refused rolls all of them      *)
(* back.  What changed decides the flags of the message to the process, and *)
(* a process that finds several messages acts on the last one only.  A      *)
(* message may be lost on the way: it is not sent, or it is too large for   *)
(* the process's buffer and stays in front of the queue, or it has a        *)
(* container object, which the process cannot decode.                       *)
(*                                                                          *)
(* The threads and the signals behind start and stop are the subject of     *)
(* ProbeMng; here a start, a stop and a death are one step each.  Requests  *)
(* and events exclude each other with the probe_mng lock, held while        *)
(* mpc # "idle".  The process is modelled after tcpprobe, which observes    *)
(* process objects only.                                                    *)
(***************************************************************************)
EXTENDS Snooper

CONSTANTS
  Ranges, Params,     \* values of the cmd and params items
  Range0, Params0,    \* no range; what set_default_params sets
  ZeroParams,         \* the backup's params after memset
  NoCmd,              \* no cmd item accepted yet: cb is NULL
  ProcessMayFail,     \* whether the process may die or its pid stay unknown
  SendMayFail,        \* whether msgsnd may fail for other reasons than the size
  SendMax, RecvMax,   \* container objects in a message that msgsnd and the buffer of recv_ipc_msg take
  NotLoaded,          \* a process that has loaded no program
  MaxSteps            \* bound on requests, machine steps and deaths together

ASSUME ItemsAssumption ==
  /\ Params0 \in Params
  /\ ZeroParams \notin Params /\ NoCmd \notin Ranges
ASSUME MessageAssumption == SendMax \in Nat /\ RecvMax \in Nat /\ SendMayFail \in BOOLEAN
ASSUME BoundsAssumption == MaxSteps \in Nat /\ ProcessMayFail \in BOOLEAN

VARIABLES
  cmd, params,                           \* probe_range_flags, probe_param
  started, running, stopped, isRestart,  \* probe_status and is_restart
  pid,                                   \* probe->pid is that of the last process
  mpc, backup, parsed,                   \* parse_probe_json: probe_backup, parse_flag
  before,                                \* what the request found
  queue,                                 \* messages to the process
  lost,                                  \* a message since the last stop was or will be lost
  loaded, procMap, body,                 \* the process: programs, proc_obj_map, g_ipc_body
  hung,                                  \* it loops in deserialize_tlv_container for ever
  careful,                               \* chosen once, see CarefulIsConfigured
  steps                                  \* requests, machine steps and deaths so far

statusVars == <<started, running, stopped, isRestart, pid>>
queueVars == <<queue, lost>>
processVars == <<loaded, procMap, body, hung>>
parseVars == <<mpc, backup, parsed, before>>
vars == <<snooperVars, cmd, params, statusVars, parseVars, queueVars, processVars, careful, steps>>

RangeOf(c) == IF c = NoCmd THEN Range0 ELSE c
Config == [cmd |-> cmd, confs |-> confs, objs |-> objs, params |-> params]
(* probe_backup after memset; cut, ghosts and quiet belong to objs. *)
ZeroBackup ==
  [cmd |-> NoCmd, confs |-> <<>>, objs |-> NoObjs, params |-> ZeroParams,
   cut |-> FALSE, ghosts |-> {}, quiet |-> {}]
(* probe_parsers, in their order *)
NextItem == [cmd |-> "snoopers", snoopers |-> "params", params |-> "state", state |-> "modify"]

Init ==
  /\ SnooperInit
  /\ cmd = NoCmd /\ params = Params0
  /\ started = FALSE /\ running = FALSE /\ stopped = FALSE /\ isRestart = FALSE /\ pid = FALSE
  /\ mpc = "idle" /\ backup = ZeroBackup /\ parsed = {} /\ before = ZeroBackup
  /\ queue = <<>> /\ lost = FALSE
  /\ loaded = NotLoaded /\ procMap = {} /\ body = {} /\ hung = FALSE
  /\ careful \in BOOLEAN
  /\ steps = 0

CountStep == steps < MaxSteps /\ steps' = steps + 1

(* msgrcv takes the first n messages: the next one does not fit. *)
Takes(n) ==
  /\ n \in 0 .. Len(queue) /\ \A i \in 1 .. n : queue[i].fits
  /\ n < Len(queue) => ~queue[n + 1].fits
Taken(n) == queue' = SubSeq(queue, n + 1, Len(queue))
ClearIpcMsg == \E n \in 0 .. Len(queue) : Takes(n) /\ Taken(n)

(* A careful user and a quiet machine leave the process time to read. *)
HasRead == careful => ~running \/ hung \/ Takes(0)

---------------------------------------------------------------------------
(* parse_probe_json *)

RequestBegin ==
  /\ mpc = "idle" /\ HasRead
  /\ CountStep
  /\ mpc' = "cmd" /\ backup' = ZeroBackup /\ parsed' = {} /\ before' = Config
  /\ UNCHANGED <<snooperVars, cmd, params, statusVars, queueVars, processVars, careful>>

ItemAbsent ==
  /\ mpc \in {"cmd", "snoopers", "params", "state"}
  /\ mpc' = NextItem[mpc]
  /\ UNCHANGED <<snooperVars, cmd, params, statusVars, backup, parsed, before, queueVars, processVars, careful, steps>>

(* probe_backup is destroyed. *)
RequestDone == mpc' = "idle" /\ backup' = ZeroBackup /\ parsed' = {} /\ before' = ZeroBackup

(* Mutant: the item's bit is set after it was parsed. *)
MutItemParsed(item, ok) ==
  /\ mpc = item /\ parsed' = IF ok THEN parsed \cup {item} ELSE parsed
  /\ mpc' = IF ok THEN NextItem[item] ELSE "rollback"
  /\ UNCHANGED <<before, queueVars, careful, steps>>

(* The item's bit is set before it is parsed, so that a failure rolls it back too. *)
ItemParsed(item, ok) ==
  /\ mpc = item /\ parsed' = parsed \cup {item}
  /\ mpc' = IF ok THEN NextItem[item] ELSE "rollback"
  /\ UNCHANGED <<before, queueVars, careful, steps>>

ParseCmd(range, ok) ==
  /\ ItemParsed("cmd", ok)
  /\ backup' = [backup EXCEPT !.cmd = cmd] /\ cmd' = range
  /\ UNCHANGED <<snooperVars, params, statusVars, processVars>>

(* backup_snooper moves configurations and objects out of the probe. *)
ParseSnoopers(list) ==
  /\ ItemParsed("snoopers", ~ParseFails(list))
  /\ careful => list # confs
  /\ backup' = [backup EXCEPT !.confs = confs, !.objs = objs,
                                !.cut = cut, !.ghosts = ghosts, !.quiet = quiet]
  /\ ParseSnooper(list)
  /\ UNCHANGED <<machineVars, procEvts, cgrpEvts, mapped, cmd, params, statusVars, processVars>>

ParseParams(p, ok) ==
  /\ ItemParsed("params", ok)
  /\ backup' = [backup EXCEPT !.params = params] /\ params' = p
  /\ UNCHANGED <<snooperVars, cmd, statusVars, processVars>>

NewProcess == loaded' = NotLoaded /\ procMap' = {} /\ body' = {} /\ hung' = FALSE

(* start_probe; a binary or a check command that is missing makes it fail, *)
(* which leaves STARTED set.                                               *)
StartProbe(ready) ==
  /\ ItemParsed("state", running \/ (ready /\ cmd # NoCmd))
  /\ IF running THEN UNCHANGED <<statusVars, processVars>>
     ELSE /\ careful => "params" \notin parsed
          /\ isRestart' = stopped /\ started' = TRUE
          /\ IF ready /\ cmd # NoCmd
             THEN running' = TRUE /\ stopped' = FALSE /\ pid' = TRUE /\ NewProcess
             ELSE UNCHANGED <<running, stopped, pid, processVars>>
  /\ UNCHANGED <<snooperVars, cmd, params, backup>>

(* stop_probe without a process to stop *)
StopIdle ==
  /\ ~running /\ ItemParsed("state", TRUE)
  /\ UNCHANGED <<snooperVars, cmd, params, backup, statusVars, processVars>>

(* The thread clears the queue before it can be joined. *)
StopProbe ==
  /\ running /\ ~hung /\ mpc = "state" /\ parsed' = parsed \cup {"state"} /\ mpc' = "modify"
  /\ started' = FALSE /\ running' = FALSE /\ stopped' = TRUE /\ pid' = FALSE
  /\ ClearIpcMsg /\ lost' = (queue' # <<>>) /\ NewProcess
  /\ UNCHANGED <<snooperVars, cmd, params, isRestart, backup, before, careful, steps>>

(* SIGINT sets a flag that a process in an endless loop never looks at, so  *)
(* the thread goes on reading from it and the join waits, with the lock.    *)
StopHangs ==
  /\ running /\ hung /\ mpc = "state" /\ parsed' = parsed \cup {"state"} /\ mpc' = "join"
  /\ started' = FALSE
  /\ UNCHANGED <<snooperVars, cmd, params, running, stopped, isRestart, pid, backup, before,
                 queueVars, processVars, careful, steps>>

StopJoined ==
  /\ mpc = "join" /\ ~running /\ mpc' = "modify" /\ pid' = FALSE
  /\ UNCHANGED <<snooperVars, cmd, params, started, running, stopped, isRestart, backup, parsed,
                 before, queueVars, processVars, careful, steps>>

(* The pid was never found. *)
StopFails ==
  /\ running /\ ProcessMayFail /\ ~careful /\ ItemParsed("state", FALSE)
  /\ started' = FALSE
  /\ UNCHANGED <<snooperVars, cmd, params, backup, running, stopped, isRestart, pid, processVars>>

BadState ==
  /\ ItemParsed("state", FALSE)
  /\ UNCHANGED <<snooperVars, cmd, params, backup, statusVars, processVars>>

Restored(item, saved, current) == IF item \in parsed THEN saved ELSE current

RollbackProbe ==
  /\ mpc = "rollback" /\ RequestDone
  /\ cmd' = Restored("cmd", backup.cmd, cmd)
  /\ confs' = Restored("snoopers", backup.confs, confs)
  /\ objs' = Restored("snoopers", backup.objs, objs)
  /\ cut' = Restored("snoopers", backup.cut, cut)
  /\ ghosts' = Restored("snoopers", backup.ghosts, ghosts)
  /\ quiet' = Restored("snoopers", backup.quiet, quiet)
  /\ params' = Restored("params", backup.params, params)
  /\ UNCHANGED <<podMap, machineVars, procEvts, cgrpEvts, mapped, statusVars, queueVars, processVars, careful, steps>>

(* Mutant: lists of the same length count as equal. *)
MutProbeModify ==
  (IF RangeOf(cmd) # RangeOf(backup.cmd) \/ params # backup.params THEN {"PARAMS"} ELSE {})
    \cup (IF Len(confs) # Len(backup.confs) THEN {"SNOOPER"} ELSE {})

(* set_probe_modify compares with the backup, zero where an item is absent. *)
ProbeModify ==
  (IF RangeOf(cmd) # RangeOf(backup.cmd) \/ params # backup.params THEN {"PARAMS"} ELSE {})
    \cup (IF confs # backup.confs THEN {"SNOOPER"} ELSE {})

(* The message carries the whole configuration, whatever its flags.  As     *)
(* many process objects as there may be always fit.                         *)
ConNum(o) == MapThenSumSet(LAMBDA c : o[ConObj(c)], Containers)
Message(flags, o) ==
  [flags |-> flags, cmd |-> RangeOf(cmd), params |-> params, procs |-> ProcsOf(o),
   cons |-> ConNum(o) > 0, fits |-> ConNum(o) <= RecvMax]

MsgSent(m) == queue' = Append(queue, m) /\ lost' = (lost \/ m.cons \/ ~m.fits)
SendFailed == UNCHANGED queue /\ lost' = TRUE
SendSnooperObj(flags, o) ==
  \/ ~started /\ UNCHANGED queueVars
  \/ started /\ ConNum(o) <= SendMax /\ MsgSent(Message(flags, o))
  \/ started /\ (SendMayFail \/ ConNum(o) > SendMax) /\ SendFailed

(* A request without items is refused: ret is still -1.  One whose message  *)
(* is not sent is answered as an error too, with nothing rolled back.       *)
RequestEnd ==
  /\ mpc = "modify" /\ RequestDone
  /\ IF parsed # {} /\ (started \/ running) /\ (ProbeModify # {} \/ isRestart)
     THEN SendSnooperObj(ProbeModify, objs) ELSE UNCHANGED queueVars
  /\ UNCHANGED <<snooperVars, cmd, params, statusVars, processVars, careful, steps>>

---------------------------------------------------------------------------
(* probe_mng thread *)

RcvProcEvt ==
  /\ mpc = "idle" /\ HasRead /\ procEvts # <<>>
  /\ HandleProcEvt(Head(procEvts)) /\ procEvts' = Tail(procEvts)
  /\ IF ProcEvtNotifies(Head(procEvts)) THEN SendSnooperObj({"SNOOPER"}, objs') ELSE UNCHANGED queueVars
  /\ UNCHANGED <<confs, podMap, machineVars, cgrpEvts, mapped, cmd, params, statusVars, parseVars,
                 processVars, careful, steps>>

RcvCgrpEvtLocked ==
  /\ mpc = "idle" /\ HasRead /\ mapped # NoEvent
  /\ HandleCgrpEvt(mapped) /\ mapped' = NoEvent
  /\ IF CgrpEvtNotifies(mapped) THEN SendSnooperObj({"SNOOPER"}, objs') ELSE UNCHANGED queueVars
  /\ UNCHANGED <<confs, podMap, machineVars, procEvts, cgrpEvts, cmd, params, statusVars, parseVars,
                 processVars, careful, steps>>

RcvCgrpEvtUnlocked ==
  /\ RcvCgrpEvt
  /\ UNCHANGED <<cmd, params, statusVars, parseVars, queueVars, processVars, careful, steps>>

(* The keepalive starts a process and sends nothing. *)
KeepliveProbe ==
  /\ mpc = "idle" /\ pid /\ ~running /\ started
  /\ running' = TRUE /\ stopped' = FALSE /\ NewProcess
  /\ UNCHANGED <<snooperVars, cmd, params, started, isRestart, pid, parseVars, queueVars, careful, steps>>

---------------------------------------------------------------------------
(* The probe's process and the machine *)

(* tcpprobe's main loop, with a message *)
LoadMsg(m) ==
  /\ loaded' = IF "PARAMS" \in m.flags \/ m.flags = {} THEN <<m.cmd, m.params>> ELSE loaded
  /\ procMap' = IF "SNOOPER" \in m.flags \/ m.flags = {} THEN (procMap \ body) \cup m.procs ELSE procMap
  /\ body' = m.procs /\ UNCHANGED hung

(* The loop over the parts of a container object runs to the end of the     *)
(* message plus the object's header, and for ever over a part whose type it *)
(* does not know.  The next bytes are the next object, of no such type, or  *)
(* what an earlier message left in the buffer: then the length may come out *)
(* wrong and the message be dropped.                                        *)
FailToDecode == hung' \in BOOLEAN /\ UNCHANGED <<loaded, procMap, body>>

(* recv_ipc_msg takes what it can and returns the last message taken. *)
RecvIpcMsg ==
  /\ running /\ ~hung
  /\ \E n \in 1 .. Len(queue) :
       Takes(n) /\ Taken(n) /\ IF queue[n].cons THEN FailToDecode ELSE LoadMsg(queue[n])
  /\ UNCHANGED <<snooperVars, cmd, params, statusVars, parseVars, lost, careful, steps>>

Death ==
  /\ running /\ ProcessMayFail /\ ~careful /\ CountStep
  /\ running' = FALSE /\ stopped' = TRUE /\ ClearIpcMsg /\ NewProcess
  /\ UNCHANGED <<snooperVars, cmd, params, started, isRestart, pid, parseVars, lost, careful>>

(* A step of the machine during a request is the same as one before it, or *)
(* after it when the request's refresh is over.                            *)
Machine ==
  /\ mpc = "idle" /\ CountStep
  /\ MachineStep
  /\ UNCHANGED <<cmd, params, statusVars, parseVars, queueVars, processVars, careful>>

Next ==
  \/ RequestBegin \/ ItemAbsent
  \/ \E r \in Ranges, ok \in BOOLEAN : ParseCmd(r, ok)
  \/ \E list \in ConfLists : ParseSnoopers(list)
  \/ \E p \in Params, ok \in BOOLEAN : ParseParams(p, ok)
  \/ \E ready \in BOOLEAN : StartProbe(ready)
  \/ StopIdle \/ StopProbe \/ StopHangs \/ StopJoined \/ StopFails \/ BadState
  \/ RollbackProbe \/ RequestEnd
  \/ RcvProcEvt \/ RcvCgrpEvtUnlocked \/ RcvCgrpEvtLocked \/ KeepliveProbe
  \/ RecvIpcMsg \/ Death \/ Machine

Spec == Init /\ [][Next]_vars

---------------------------------------------------------------------------

Message0 ==
  [flags : SUBSET {"PARAMS", "SNOOPER"}, cmd : Ranges \cup {Range0}, params : Params,
   procs : SUBSET Procs, cons : BOOLEAN, fits : BOOLEAN]

(* Types; a container has at most two entries in the map.                  *)
TypeOK ==
  /\ SnooperTypeOK
  /\ cmd \in Ranges \cup {NoCmd} /\ params \in Params
  /\ \A b \in {started, running, stopped, isRestart, pid, careful, lost, hung} : b \in BOOLEAN
  /\ mpc \in {"idle", "cmd", "snoopers", "params", "state", "join", "modify", "rollback"}
  /\ parsed \subseteq {"cmd", "snoopers", "params", "state"}
  /\ queue \in Seq(Message0)
  /\ loaded \in ((Ranges \cup {Range0}) \X Params) \cup {NotLoaded} /\ procMap \subseteq Procs /\ body \subseteq Procs
  /\ steps \in 0 .. MaxSteps

Idle == mpc = "idle"

(* A process that has exited is not observed any more once its event is    *)
(* handled, however often it was added (snooper.c:1183-1217).  Dead from   *)
(* the start may be a pid that the request names (snooper.c:978-985), and  *)
(* a zombie whose event was handled before a refresh found it in /proc     *)
(* (snooper.c:945-971): nothing removes that one before the next refresh.  *)
NoDeadProcess == Idle /\ NoProcEvts => ProcsOf(objs) \subseteq live \cup Named \cup ghosts

(* Nothing falls between the walk through /proc of a refresh and the events *)
(* after it: as long as no object was left out, every live process that an  *)
(* app or container configuration asks for is observed                      *)
(* (snooper.c:928-976, 987-1034, 1112-1181), except one that was forked     *)
(* since the refresh and has executed nothing, which the daemon is not told *)
(* of (snooper.bpf.c:44-111).                                               *)
AllObserved == Idle /\ NoProcEvts /\ ~cut => Wanted \ quiet \subseteq ProcsOf(objs)

(* pod_mng.c:350 promises to "Add the existed pods before the program      *)
(* starts to the map".  With that, and no object left out, every live      *)
(* process in a container of a configured pod is observed, unless it was   *)
(* forked since and has executed nothing.                                  *)
PodIsObserved ==
  Idle /\ NoEvts /\ ~cut =>
    \A i \in 1 .. Len(confs) : confs[i].type = "pod" =>
      {p \in live \ quiet : ConOf[p] # NoCon /\ PodOf[ConOf[p]] = confs[i].id} \subseteq ProcsOf(objs)

(* A refused request leaves cmd, snoopers, objects and params as it found  *)
(* them, whichever of its items was refused and whatever the items before  *)
(* it changed (probe_mng.c:775-792, 975-990).                              *)
RollbackIsExact == [][mpc = "rollback" /\ mpc' = "idle" => Config' = before]_vars

(* The process works with the configuration of the daemon. *)
IsConfigured == loaded = <<RangeOf(cmd), params>> /\ procMap = ProcsOf(objs)
AtRest == Idle /\ running /\ ~hung /\ Takes(0)

(* The flags suffice for a user who lets the process read every message    *)
(* before the next request or event, never sends the snoopers it already   *)
(* has, starts a probe without params in the same request, and whose       *)
(* process neither dies nor hides: at rest the process then has the        *)
(* daemon's configuration (probe_mng.c:910-947, snooper.c:540-577,         *)
(* tcpprobe.c:126-143), unless a message since the last stop was lost:     *)
(* not sent (ipc.c:1102-1105), or with a container object (ipc.c:483-571,  *)
(* 1127).  A stop that leaves the queue empty makes up for the loss.       *)
CarefulIsConfigured == careful /\ ~lost /\ AtRest => IsConfigured

(* tcpprobe.c:128 says: "zero probe_flag means probe is restarted, so      *)
(* reload bpf prog", and rest_server.c:266 answers "New config takes       *)
(* effect": at rest the process has the daemon's configuration.            *)
ProcessIsConfigured == AtRest => IsConfigured
=============================================================================
