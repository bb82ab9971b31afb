------------------------------ MODULE Snooper ------------------------------
(***************************************************************************)
(* What a probe observes.  A request gives a list of snooper configurations *)
(* (confs); from it and from the processes of the machine the daemon makes  *)
(* the list of snooper objects (objs) that it sends to the probe.  Kernel   *)
(* events about processes and cgroups keep objs and the pod and container   *)
(* map up to date.                                                          *)
(*                                                                          *)
(* A process that has exited stays in /proc until its parent reaps it, and  *)
(* one that was forked and executes nothing raises no event                 *)
(* (snooper.bpf.c hooks exec and exit).                                     *)
(*                                                                          *)
(* Events come in two perf buffers, read in order; what one processor loses *)
(* or two processors reorder is not modelled.  The order of objs does not   *)
(* matter to anybody, so objs counts each object.  gaussdb objects copy     *)
(* their configuration and take no part in events; they are left out.       *)
(***************************************************************************)
EXTENDS Integers, Sequences, FiniteSets, FiniteSetsExt, SequencesExt

CONSTANTS
  Procs, Containers, Pods, Comms,   \* pids, container ids, pod ids, command names
  FakePod,                    \* FAKE_POD_ID, the pod of containers without one
  NoCon, NoEvent,
  CommOf, ConOf, PodOf,       \* a process's name and container, a container's pod
  ConfLists,                  \* the snoopers items that requests carry
  SnooperMax                  \* SNOOPER_MAX

Conf == [type : {"procid"}, id : Procs] \cup [type : {"app"}, id : Comms]
          \cup [type : {"pod"}, id : Pods] \cup [type : {"container"}, id : Containers]
Obj == [type : {"proc"}, id : Procs] \cup [type : {"con"}, id : Containers]
ProcEvent == [event : {"EXEC", "EXIT"}, pid : Procs]
CgrpEvent == [event : {"MK", "RM"}, pod : Pods \cup {FakePod}, con : Containers \cup {NoCon}]

ASSUME MachineAssumption ==
  /\ Procs \subseteq Nat /\ IsFiniteSet(Procs) /\ IsFiniteSet(Containers)
  /\ NoCon \notin Containers /\ FakePod \notin Pods
  /\ CommOf \in [Procs -> Comms] /\ ConOf \in [Procs -> Containers \cup {NoCon}]
  /\ PodOf \in [Containers -> Pods \cup {FakePod}]
ASSUME ConfAssumption == SnooperMax \in Nat \ {0} /\ ConfLists \subseteq Seq(Conf)

VARIABLES
  confs, objs,        \* snooper_confs, snooper_objs of struct probe_s
  podMap,             \* pod_head: the pods, each with the count of its entries for a container
  live, zombies,      \* the machine: processes, those that exited and were not reaped,
  containers, pods,   \* container cgroups, pod cgroups
  procEvts, cgrpEvts, \* events in the perf buffers
  mapped,             \* cgroup event whose map change is done and that waits for the lock
  cut,                \* objects were left out since the last refresh
  ghosts,             \* zombies that the last refresh made objects of, exit not yet handled since
  quiet               \* processes that have executed nothing, forked since the last refresh
                      \* or with the pid of one whose exit that refresh had not seen

machineVars == <<live, zombies, containers, pods>>
gapVars == <<cut, ghosts, quiet>>
snooperVars == <<confs, objs, podMap, machineVars, procEvts, cgrpEvts, mapped, gapVars>>

---------------------------------------------------------------------------
(* Pod and container map (pod_mng.c) *)

NoEntries == [c \in Containers |-> 0]
PodKnown(map, pod) == pod \in DOMAIN map
ConKnown(map, pod, con) == PodKnown(map, pod) /\ map[pod][con] > 0

(* A pod that the map does not have is added with its entries. *)
AddPod(map, pod, entries) ==
  [p \in DOMAIN map \cup {pod} |-> IF p = pod THEN entries ELSE map[p]]

WithPod(map, pod) == IF PodKnown(map, pod) THEN map ELSE AddPod(map, pod, NoEntries)

(* The container is added whether the map has it or not. *)
AddPodConMap(map, pod, con) ==
  LET m == WithPod(map, pod) IN IF con = NoCon THEN m ELSE [m EXCEPT ![pod][con] = @ + 1]

DelPodConMap(map, pod, con) ==
  IF con = NoCon THEN [p \in DOMAIN map \ {pod} |-> map[p]]
  ELSE IF ConKnown(map, pod, con) THEN [map EXCEPT ![pod][con] = @ - 1]
  ELSE map

(* The runtime's answer for a pod: its containers. *)
ListContainers(pod) == {c \in containers : PodOf[c] = pod}

GetAndAddConInfo(map, con) ==
  IF ConKnown(map, FakePod, con) THEN map ELSE AddPodConMap(map, FakePod, con)

GetAndAddPodInfo(map, pod) ==
  IF PodKnown(map, pod) \/ ListContainers(pod) = {} THEN map
  ELSE AddPod(map, pod, [c \in Containers |-> IF c \in ListContainers(pod) THEN 1 ELSE 0])

---------------------------------------------------------------------------
(* Objects from configurations (snooper.c) *)

NoObjs == [o \in Obj |-> 0]
ObjNum(o) == MapThenSumSet(LAMBDA x : o[x], Obj)
(* Mutant: no look for a free slot. *)
MutAddObj(o, x) == [o EXCEPT ![x] = @ + 1]
AddObj(o, x) == IF ObjNum(o) < SnooperMax THEN [o EXCEPT ![x] = @ + 1] ELSE o
AddObjs(o, seq) == FoldLeft(AddObj, o, seq)
(* Mutant: only the first object found is removed. *)
MutRemoveObj(o, x) == [o EXCEPT ![x] = IF @ = 0 THEN 0 ELSE @ - 1]
RemoveObj(o, x) == [o EXCEPT ![x] = 0]

ProcObj(p) == [type |-> "proc", id |-> p]
ConObj(c) == [type |-> "con", id |-> c]
ProcsOf(o) == {p \in Procs : o[ProcObj(p)] > 0}

(* /proc lists the processes by pid, zombies among them. *)
InProc == live \cup zombies
ByPid(ps) ==
  CHOOSE s \in [1 .. Cardinality(ps) -> ps] :
    \A i, j \in 1 .. Cardinality(ps) : i < j => s[i] < s[j]
ProcObjs(ps) == [i \in 1 .. Cardinality(ps) |-> ProcObj(ByPid(ps)[i])]
InContainer(c) == {p \in InProc : ConOf[p] = c}
(* The entries of a pod; duplicates yield their objects once more. *)
PodObjs(map, pod) ==
  FlattenSeq([i \in 1 .. Cardinality(Containers) |->
    LET c == SetToSeq(Containers)[i] IN
    FlattenSeq([j \in 1 .. map[pod][c] |-> ProcObjs(InContainer(c)) \o <<ConObj(c)>>])])

(* What the generator of conf adds, with map as it leaves the map. *)
Generated(map, conf) ==
  CASE conf.type = "procid" -> <<ProcObj(conf.id)>>
    [] conf.type = "app" -> ProcObjs({p \in InProc : CommOf[p] = conf.id})
    [] conf.type = "pod" -> IF PodKnown(map, conf.id) THEN PodObjs(map, conf.id) ELSE <<>>
    [] conf.type = "container" -> ProcObjs(InContainer(conf.id)) \o <<ConObj(conf.id)>>

GeneratorMap(map, conf) ==
  CASE conf.type = "pod" -> GetAndAddPodInfo(map, conf.id)
    [] conf.type = "container" -> GetAndAddConInfo(map, conf.id)
    [] OTHER -> map

(* An unknown pod ends the generation, and so does an object without room, *)
(* but for the applications and pods, whose generators ignore that.        *)
GeneratorFails(g, map, conf) ==
  \/ conf.type = "pod" /\ ~PodKnown(map, conf.id)
  \/ conf.type \in {"procid", "container"}
       /\ ObjNum(g.objs) + Len(Generated(map, conf)) > SnooperMax

Generate(g, conf) ==
  IF g.ended THEN g
  ELSE LET map == GeneratorMap(g.map, conf)
           new == Generated(map, conf)
       IN [objs |-> AddObjs(g.objs, new), map |-> map,
           ended |-> GeneratorFails(g, map, conf),
           cut |-> g.cut \/ GeneratorFails(g, map, conf) \/ ObjNum(g.objs) + Len(new) > SnooperMax]

RefreshSnooperObj(list) ==
  FoldLeft(Generate, [objs |-> NoObjs, map |-> podMap, ended |-> FALSE, cut |-> FALSE], list)

(* The exit of a process with this pid is in the perf buffer. *)
ExitDue(p) == \E i \in 1 .. Len(procEvts) : procEvts[i].event = "EXIT" /\ procEvts[i].pid = p

(* parse_snooper: the configurations in the order of their types, then the *)
(* objects.  An entry that is malformed fails as one without room does.    *)
ParseFails(list) == Len(list) > SnooperMax
ParseSnooper(list) ==
  LET g == RefreshSnooperObj(list) IN
  /\ confs' = SubSeq(list, 1, Min({Len(list), SnooperMax}))
  /\ IF ParseFails(list)
     THEN objs' = NoObjs /\ UNCHANGED <<podMap, gapVars>>
     ELSE /\ objs' = g.objs /\ podMap' = g.map
          /\ cut' = g.cut /\ ghosts' = zombies \cap ProcsOf(g.objs) /\ quiet' = {p \in quiet : ExitDue(p)}

---------------------------------------------------------------------------
(* Events (snooper.c) *)

(* Mutant: the container of a new process is not looked up. *)
MutExecMatches(p, conf) == conf.type = "app" /\ conf.id = CommOf[p]
(* The container is looked up in /proc when the event is handled. *)
ExecMatches(p, conf) ==
  \/ conf.type = "app" /\ conf.id = CommOf[p]
  \/ conf.type = "container" /\ p \in InProc /\ conf.id = ConOf[p]
  \/ conf.type = "pod" /\ p \in InProc /\ ConOf[p] # NoCon /\ conf.id = PodOf[ConOf[p]]

(* One object per configuration that matches, without a look at objs. *)
ProcExec(p) ==
  LET hits == Cardinality({k \in 1 .. Len(confs) : ExecMatches(p, confs[k])}) IN
  /\ objs' = AddObjs(objs, [i \in 1 .. hits |-> ProcObj(p)])
  /\ cut' = (cut \/ ObjNum(objs) + hits > SnooperMax) /\ UNCHANGED <<ghosts, quiet>>

ProcExit(p) ==
  /\ objs' = RemoveObj(objs, ProcObj(p))
  /\ ghosts' = ghosts \ {p} /\ UNCHANGED <<cut, quiet>>

CgrpMatches(pod, con, conf) ==
  \/ conf.type = "pod" /\ pod # FakePod /\ conf.id = pod
  \/ conf.type = "container" /\ conf.id = con

CgrpExec(pod, con) ==
  LET hits == Cardinality({k \in 1 .. Len(confs) : CgrpMatches(pod, con, confs[k])}) IN
  /\ objs' = AddObjs(objs, [i \in 1 .. hits |-> ConObj(con)])
  /\ cut' = (cut \/ ObjNum(objs) + hits > SnooperMax) /\ UNCHANGED <<ghosts, quiet>>

CgrpExit(con) == objs' = RemoveObj(objs, ConObj(con)) /\ UNCHANGED gapVars

(* rcv_snooper_proc_evt, rcv_snooper_cgrp_evt: whether a message is due. *)
ProcEvtNotifies(e) ==
  IF e.event = "EXEC" THEN \E i \in 1 .. Len(confs) : ExecMatches(e.pid, confs[i])
  ELSE objs[ProcObj(e.pid)] > 0
CgrpEvtNotifies(e) ==
  IF e.event = "MK" THEN \E i \in 1 .. Len(confs) : CgrpMatches(e.pod, e.con, confs[i])
  ELSE objs[ConObj(e.con)] > 0

HandleProcEvt(e) == IF e.event = "EXEC" THEN ProcExec(e.pid) ELSE ProcExit(e.pid)
HandleCgrpEvt(e) == IF e.event = "MK" THEN CgrpExec(e.pod, e.con) ELSE CgrpExit(e.con)

(* The map is changed before the lock is taken; an event about a pod ends *)
(* there.                                                                 *)
RcvCgrpEvt ==
  /\ cgrpEvts # <<>> /\ mapped = NoEvent
  /\ LET e == Head(cgrpEvts) IN
     /\ podMap' = IF e.event = "MK" THEN AddPodConMap(podMap, e.pod, e.con)
                  ELSE DelPodConMap(podMap, e.pod, e.con)
     /\ mapped' = IF e.con = NoCon THEN NoEvent ELSE e
  /\ cgrpEvts' = Tail(cgrpEvts)
  /\ UNCHANGED <<confs, objs, machineVars, procEvts, gapVars>>

---------------------------------------------------------------------------
(* The machine *)

Exec(p) ==
  /\ ConOf[p] \in containers \cup {NoCon} /\ p \notin zombies
  /\ live' = live \cup {p} /\ quiet' = quiet \ {p}
  /\ procEvts' = Append(procEvts, [event |-> "EXEC", pid |-> p])
  /\ UNCHANGED <<confs, objs, podMap, zombies, containers, pods, cgrpEvts, mapped, cut, ghosts>>

(* A new process with its parent's name and container; no program is hooked. *)
Fork(p) ==
  /\ ConOf[p] \in containers \cup {NoCon} /\ p \notin InProc
  /\ live' = live \cup {p} /\ quiet' = quiet \cup {p}
  /\ UNCHANGED <<confs, objs, podMap, zombies, containers, pods, procEvts, cgrpEvts, mapped, cut, ghosts>>

(* The event comes while the process still is in /proc. *)
Exit(p) ==
  /\ p \in live /\ live' = live \ {p} /\ zombies' = zombies \cup {p} /\ quiet' = quiet \ {p}
  /\ procEvts' = Append(procEvts, [event |-> "EXIT", pid |-> p])
  /\ UNCHANGED <<confs, objs, podMap, containers, pods, cgrpEvts, mapped, cut, ghosts>>

Reap(p) ==
  /\ p \in zombies /\ zombies' = zombies \ {p}
  /\ UNCHANGED <<confs, objs, podMap, live, containers, pods, procEvts, cgrpEvts, mapped, gapVars>>

ConCreate(c) ==
  /\ c \notin containers /\ PodOf[c] \in pods \cup {FakePod}
  /\ containers' = containers \cup {c}
  /\ cgrpEvts' = Append(cgrpEvts, [event |-> "MK", pod |-> PodOf[c], con |-> c])
  /\ UNCHANGED <<confs, objs, podMap, live, zombies, pods, procEvts, mapped, gapVars>>

ConRemove(c) ==
  /\ c \in containers /\ \A p \in live : ConOf[p] # c
  /\ containers' = containers \ {c}
  /\ cgrpEvts' = Append(cgrpEvts, [event |-> "RM", pod |-> PodOf[c], con |-> c])
  /\ UNCHANGED <<confs, objs, podMap, live, zombies, pods, procEvts, mapped, gapVars>>

PodCreate(pod) ==
  /\ pod \notin pods /\ pods' = pods \cup {pod}
  /\ cgrpEvts' = Append(cgrpEvts, [event |-> "MK", pod |-> pod, con |-> NoCon])
  /\ UNCHANGED <<confs, objs, podMap, live, zombies, containers, procEvts, mapped, gapVars>>

PodRemove(pod) ==
  /\ pod \in pods /\ ListContainers(pod) = {} /\ pods' = pods \ {pod}
  /\ cgrpEvts' = Append(cgrpEvts, [event |-> "RM", pod |-> pod, con |-> NoCon])
  /\ UNCHANGED <<confs, objs, podMap, live, zombies, containers, procEvts, mapped, gapVars>>

MachineStep ==
  \/ \E p \in Procs : Exec(p) \/ Fork(p) \/ Exit(p) \/ Reap(p)
  \/ \E c \in Containers : ConCreate(c) \/ ConRemove(c)
  \/ \E pod \in Pods : PodCreate(pod) \/ PodRemove(pod)

(* The machine has run before the daemon starts. *)
SnooperInit ==
  /\ confs = <<>> /\ objs = NoObjs /\ podMap = [p \in {} |-> NoEntries]
  /\ pods \in SUBSET Pods
  /\ containers \in SUBSET {c \in Containers : PodOf[c] \in pods \cup {FakePod}}
  /\ live \in SUBSET {p \in Procs : ConOf[p] \in containers \cup {NoCon}}
  /\ zombies = {}
  /\ procEvts = <<>> /\ cgrpEvts = <<>> /\ mapped = NoEvent
  /\ cut = FALSE /\ ghosts = {} /\ quiet = {}

---------------------------------------------------------------------------

SnooperTypeOK ==
  /\ confs \in Seq(Conf) /\ Len(confs) <= SnooperMax
  /\ objs \in [Obj -> 0 .. SnooperMax] /\ ObjNum(objs) <= SnooperMax
  /\ DOMAIN podMap \subseteq Pods \cup {FakePod}
  /\ \A pod \in DOMAIN podMap : podMap[pod] \in [Containers -> 0 .. 2]
  /\ live \subseteq Procs /\ zombies \subseteq Procs /\ containers \subseteq Containers /\ pods \subseteq Pods
  /\ procEvts \in Seq(ProcEvent) /\ cgrpEvts \in Seq(CgrpEvent)
  /\ mapped \in CgrpEvent \cup {NoEvent}
  /\ cut \in BOOLEAN /\ ghosts \subseteq Procs /\ quiet \subseteq Procs

NoProcEvts == procEvts = <<>>
NoEvts == NoProcEvts /\ cgrpEvts = <<>> /\ mapped = NoEvent

(* The live processes that app and container configurations ask for. *)
Wanted == {p \in live : \E i \in 1 .. Len(confs) :
             \/ confs[i].type = "app" /\ confs[i].id = CommOf[p]
             \/ confs[i].type = "container" /\ confs[i].id = ConOf[p]}
Named == {confs[i].id : i \in {j \in 1 .. Len(confs) : confs[j].type = "procid"}}
=============================================================================
