----------------------------- MODULE DataPath -----------------------------
(***************************************************************************)
(* The path of a line of probe output through the daemon:                   *)
(*                                                                          *)
(*   probe thread --fifo+eventfd--> ingress thread --fifo+eventfd--> egress *)
(*                                       |                            |     *)
(*                                  imdb, event log                 kafka   *)
(*                                                                          *)
(* Every fifo is a ring of Fifo.tla.  It implements the bounded queue of    *)
(* BoundedQueue.tla (theorem FifoImplementsQueue), so a put and a get are   *)
(* one step each here.  Next to each ring stands an eventfd counter         *)
(* (triggerFd): the producer writes 1 after its put, the consumer sleeps in *)
(* epoll_wait until the counter is positive, reads it back to zero and then *)
(* gets until the ring is empty.                                            *)
(*                                                                          *)
(* A line's buffer (dataStr) and the message made of it (jsonStr) are heap  *)
(* objects whose ownership moves with the pointer through the rings; their  *)
(* states are tracked to tell a use or a free of a dead object.             *)
(***************************************************************************)
EXTENDS Integers, Sequences, FiniteSets, Functions

CONSTANTS
  Probes,          \* the probe threads, each with its own fifo
  Native,          \* those that run inside the daemon (nprobe_fprintf)
  Output,          \* Output[p]: the lines probe p prints, in order
  Kind,            \* Kind[l]: what the line looks like
  FifoSize,        \* FifoSize[f]: what FifoCreate was given for it, MAX_FIFO_SIZE
  RetryMax,        \* __RETRY_MAX of KafkaMsgProduce
  Settings,        \* metric out_channel, event out_channel, built with GOPHER_DEBUG or not
  NoLine, NoFifo

Lines == UNION { Range(Output[p]) : p \in Probes }
EgressFifos == {"metric", "event"}
Fifos == Probes \cup EgressFifos

(***************************************************************************)
(* "text": does not begin with '|'; "partial": begins with '|' and has no   *)
(* newline (the end of the output, or a line longer than the fgets buffer); *)
(* "dirty": begins with '|' and names no table; the others name the tables  *)
(* "log", "event" or a metric table.                                        *)
(***************************************************************************)
Kinds == {"text", "partial", "dirty", "log", "event", "metric"}

ASSUME NativeAssumption == Native \subseteq Probes
ASSUME OutputAssumption ==
  /\ EgressFifos \cap Probes = {}
  /\ NoLine \notin Lines /\ NoFifo \notin Fifos
  /\ \A p \in Probes : Output[p] \in Seq(Range(Output[p])) /\ IsInjective(Output[p])
  /\ \A p, q \in Probes : p # q => Range(Output[p]) \cap Range(Output[q]) = {}
  /\ \A p \in Native : \A l \in Range(Output[p]) : Kind[l] \notin {"text", "partial"}
ASSUME KindAssumption == \A l \in Lines : Kind[l] \in Kinds
ASSUME BoundsAssumption == FifoSize \in [Fifos -> Nat \ {0}] /\ RetryMax \in Nat \ {0}
ASSUME SettingsAssumption ==
  Settings \subseteq
    {"web_server", "logs", "kafka", "none"} \X {"logs", "kafka", "none"} \X BOOLEAN

VARIABLES
  metricChnl, eventChnl, debug,        \* the configuration and the build, fixed
  pos, ppc,                            \* probe threads: next line, where they are
  fifo, trigger,                       \* every ring and its eventfd counter
  missed,                              \* probes whose last put was not followed by its write
  dataStr, json,                       \* the state of each heap object
  ipc, ibatch, ififo, iline, itarget,  \* ingress thread
  epc, ebatch, efifo, eline, retry,    \* egress thread
  records, eventLog, kafka,            \* what reached the sinks
  crashed                              \* the process died of a NULL dereference

config == <<metricChnl, eventChnl, debug>>
probeVars == <<pos, ppc, missed>>
ingressVars == <<ipc, ibatch, ififo, iline, itarget>>
egressVars == <<epc, ebatch, efifo, eline, retry>>
sinks == <<records, eventLog, kafka>>
vars == <<config, probeVars, fifo, trigger, dataStr, json, ingressVars,
          egressVars, sinks, crashed>>

Init ==
  /\ \E s \in Settings : metricChnl = s[1] /\ eventChnl = s[2] /\ debug = s[3]
  /\ pos = [p \in Probes |-> 1]
  /\ ppc = [p \in Probes |-> "read"]
  /\ missed = [p \in Probes |-> FALSE]
  /\ fifo = [f \in Fifos |-> <<>>]
  /\ trigger = [f \in Fifos |-> 0]
  /\ dataStr = [l \in Lines |-> "none"]
  /\ json = [l \in Lines |-> "none"]
  /\ ipc = "wait" /\ ibatch = {} /\ ififo = NoFifo /\ iline = NoLine /\ itarget = NoFifo
  /\ epc = "wait" /\ ebatch = {} /\ efifo = NoFifo /\ eline = NoLine /\ retry = 0
  /\ records = {} /\ eventLog = <<>> /\ kafka = [t \in EgressFifos |-> <<>>]
  /\ crashed = FALSE

(* KafkaMgrInit, and writeLogsOn as WebServerInit and LogsMgrInit set it. *)
MetricKafka == metricChnl = "kafka"
EventKafka == eventChnl = "kafka"
WriteLogsOn == metricChnl \in {"web_server", "logs"}

-----------------------------------------------------------------------------
(* Probe threads. *)

Line(p) == Output[p][pos[p]]
Advance(p) == pos' = [pos EXCEPT ![p] = @ + 1]

(***************************************************************************)
(* parseExtendProbeOutput takes the next line: text goes to the log; the    *)
(* rest gets a buffer in sendOutputToIngresss (or in nprobe_fprintf).  The  *)
(* buffer of a partial line is never handed over and its pointer is lost.   *)
(***************************************************************************)
ProbeLine(p) ==
  /\ ~crashed /\ ppc[p] = "read" /\ pos[p] <= Len(Output[p])
  /\ \/ /\ Kind[Line(p)] = "text"
        /\ Advance(p)
        /\ UNCHANGED <<ppc, dataStr>>
     \/ /\ Kind[Line(p)] = "partial"
        /\ dataStr' = [dataStr EXCEPT ![Line(p)] = "live"]
        /\ Advance(p)
        /\ UNCHANGED ppc
     \/ /\ Kind[Line(p)] \notin {"text", "partial"}
        /\ dataStr' = [dataStr EXCEPT ![Line(p)] = "live"]
        /\ ppc' = [ppc EXCEPT ![p] = "put"]
        /\ UNCHANGED pos
  /\ UNCHANGED <<config, missed, fifo, trigger, json, ingressVars, egressVars, sinks, crashed>>

Full(f) == Len(fifo[f]) = FifoSize[f]

(* A full-fifo branch that forgets to free the buffer. *)
MutProbePut(p) ==
  /\ ~crashed /\ ppc[p] = "put"
  /\ IF Full(p)
     THEN /\ ppc' = [ppc EXCEPT ![p] = "read"]
          /\ Advance(p)
          /\ UNCHANGED fifo
     ELSE /\ fifo' = [fifo EXCEPT ![p] = Append(@, Line(p))]
          /\ ppc' = [ppc EXCEPT ![p] = "trigger"]
          /\ UNCHANGED pos
  /\ UNCHANGED <<config, missed, trigger, dataStr, json, ingressVars, egressVars, sinks, crashed>>

(* FifoPut into the probe's own fifo; a full fifo drops the line. *)
ProbePut(p) ==
  /\ ~crashed /\ ppc[p] = "put"
  /\ IF Full(p)
     THEN /\ dataStr' = [dataStr EXCEPT ![Line(p)] = "freed"]
          /\ ppc' = [ppc EXCEPT ![p] = "read"]
          /\ Advance(p)
          /\ UNCHANGED fifo
     ELSE /\ fifo' = [fifo EXCEPT ![p] = Append(@, Line(p))]
          /\ ppc' = [ppc EXCEPT ![p] = "trigger"]
          /\ UNCHANGED <<pos, dataStr>>
  /\ UNCHANGED <<config, missed, trigger, json, ingressVars, egressVars, sinks, crashed>>

(* DEBUG(...) formats its arguments only in the debug build. *)
Traced(p) == debug /\ p \notin Native

(* write(triggerFd, 1): the eventfd counter grows, nothing blocks. *)
ProbeTrigger(p) ==
  /\ ~crashed /\ ppc[p] = "trigger"
  /\ trigger' = [trigger EXCEPT ![p] = @ + 1]
  /\ missed' = [missed EXCEPT ![p] = FALSE]
  /\ IF Traced(p) THEN ppc' = [ppc EXCEPT ![p] = "trace"] /\ UNCHANGED pos
     ELSE ppc' = [ppc EXCEPT ![p] = "read"] /\ Advance(p)
  /\ UNCHANGED <<config, fifo, dataStr, json, ingressVars, egressVars, sinks, crashed>>

(* The debug build's sendOutputToIngresss writes the line to the log after   *)
(* it has handed the buffer over.                                            *)
ProbeTrace(p) ==
  /\ ~crashed /\ ppc[p] = "trace"
  /\ ppc' = [ppc EXCEPT ![p] = "read"]
  /\ Advance(p)
  /\ UNCHANGED <<config, missed, fifo, trigger, dataStr, json, ingressVars, egressVars, sinks,
                 crashed>>

(***************************************************************************)
(* stop_probe cancels a native probe's thread with pthread_cancel; write is *)
(* a cancellation point, so the cancel can fall between the put and the     *)
(* write.  A later start runs a new thread, which goes on with new lines.   *)
(***************************************************************************)
NativeCancel(p) ==
  /\ ~crashed /\ p \in Native /\ ppc[p] = "trigger"
  /\ missed' = [missed EXCEPT ![p] = TRUE]
  /\ ppc' = [ppc EXCEPT ![p] = "read"]
  /\ Advance(p)
  /\ UNCHANGED <<config, fifo, trigger, dataStr, json, ingressVars, egressVars, sinks, crashed>>

-----------------------------------------------------------------------------
(* Ingress thread. *)

(* epoll_wait returns every probe fifo whose eventfd counter is positive. *)
IngressWait ==
  /\ ~crashed /\ ipc = "wait"
  /\ \E f \in Probes : trigger[f] > 0
  /\ ibatch' = { f \in Probes : trigger[f] > 0 }
  /\ ipc' = "read"
  /\ UNCHANGED <<config, probeVars, fifo, trigger, dataStr, json, ififo, iline, itarget,
                 egressVars, sinks, crashed>>

(* A batch whose cursor does not move past the fifo it processes. *)
MutIngressRead ==
  /\ ~crashed /\ ipc = "read"
  /\ \E f \in ibatch :
       /\ trigger' = [trigger EXCEPT ![f] = 0]
       /\ ififo' = f
  /\ ipc' = "get"
  /\ UNCHANGED <<config, probeVars, fifo, dataStr, json, ibatch, iline, itarget, egressVars,
                 sinks, crashed>>

(* IngressDataProcesssInput on the next fifo of the batch: read(triggerFd)  *)
(* sets the eventfd counter to zero.                                        *)
IngressRead ==
  /\ ~crashed /\ ipc = "read"
  /\ \E f \in ibatch :
       /\ trigger' = [trigger EXCEPT ![f] = 0]
       /\ ififo' = f
       /\ ibatch' = ibatch \ {f}
  /\ ipc' = "get"
  /\ UNCHANGED <<config, probeVars, fifo, dataStr, json, iline, itarget, egressVars, sinks,
                 crashed>>

(* FifoGet until it fails, then the next fifo of the batch or epoll_wait. *)
IngressGet ==
  /\ ~crashed /\ ipc = "get"
  /\ IF fifo[ififo] = <<>>
     THEN /\ ipc' = (IF ibatch = {} THEN "wait" ELSE "read")
          /\ ififo' = NoFifo
          /\ UNCHANGED <<fifo, iline>>
     ELSE /\ iline' = Head(fifo[ififo])
          /\ fifo' = [fifo EXCEPT ![ififo] = Tail(@)]
          /\ ipc' = "process"
          /\ UNCHANGED ififo
  /\ UNCHANGED <<config, probeVars, trigger, dataStr, json, ibatch, itarget, egressVars, sinks,
                 crashed>>

Processing(kinds) == ~crashed /\ ipc = "process" /\ Kind[iline] \in kinds

(* The message for egress is built and waits for its FifoPut. *)
Converted(target) ==
  /\ json' = [json EXCEPT ![iline] = "live"]
  /\ itarget' = target
  /\ ipc' = "put"

(* No message, or one freed again because it could not be built. *)
NotConverted ==
  /\ ipc' = "free"
  /\ UNCHANGED <<json, itarget>>

(* GetTableNameAndContent fails: the buffer is freed at once. *)
ProcessDirty ==
  /\ Processing({"dirty"})
  /\ NotConverted
  /\ UNCHANGED <<config, probeVars, fifo, trigger, dataStr, ibatch, ififo, iline, egressVars,
                 sinks, crashed>>

(* ProcessOtelLogData, LogData2Egress up to its FifoPut. *)
ProcessOtelLogData ==
  /\ Processing({"log"})
  /\ \/ EventKafka /\ Converted("event")
     \/ NotConverted
  /\ UNCHANGED <<config, probeVars, fifo, trigger, dataStr, ibatch, ififo, iline, egressVars,
                 sinks, crashed>>

(* ProcessEventData: the event log and kafka exclude each other. *)
ProcessEventData ==
  /\ Processing({"event"})
  /\ \/ EventKafka /\ Converted("event") /\ UNCHANGED eventLog
     \/ eventChnl = "logs" /\ eventLog' = Append(eventLog, iline) /\ NotConverted
     \/ NotConverted /\ UNCHANGED eventLog
  /\ UNCHANGED <<config, probeVars, fifo, trigger, dataStr, ibatch, ififo, iline, egressVars,
                 records, kafka, crashed>>

(***************************************************************************)
(* ProcessMetricData.  The record exists only when writeLogsOn is set;      *)
(* IMDB_Record2Json dereferences it without a check.                        *)
(***************************************************************************)
ProcessMetricData ==
  /\ Processing({"metric"})
  /\ \/ NotConverted /\ UNCHANGED <<records, crashed>>   \* no such table, no record
     \/ LET recorded == WriteLogsOn
        IN /\ records' = IF recorded THEN records \cup {iline} ELSE records
           /\ IF ~MetricKafka THEN NotConverted /\ UNCHANGED crashed
              ELSE IF recorded THEN Converted("metric") /\ UNCHANGED crashed
              ELSE crashed' = TRUE /\ UNCHANGED <<ipc, json, itarget>>
  /\ UNCHANGED <<config, probeVars, fifo, trigger, dataStr, ibatch, ififo, iline, egressVars,
                 eventLog, kafka>>

(* The FifoPut of LogData2Egress, EventData2Egress and MetricData2Egress. *)
IngressPut ==
  /\ ~crashed /\ ipc = "put"
  /\ IF Full(itarget)
     THEN /\ json' = [json EXCEPT ![iline] = "freed"]
          /\ ipc' = "free"
          /\ UNCHANGED fifo
     ELSE /\ fifo' = [fifo EXCEPT ![itarget] = Append(@, iline)]
          /\ ipc' = "trigger"
          /\ UNCHANGED json
  /\ UNCHANGED <<config, probeVars, trigger, dataStr, ibatch, ififo, iline, itarget, egressVars,
                 sinks, crashed>>

IngressTrigger ==
  /\ ~crashed /\ ipc = "trigger"
  /\ trigger' = [trigger EXCEPT ![itarget] = @ + 1]
  /\ ipc' = "free"
  /\ UNCHANGED <<config, probeVars, fifo, dataStr, json, ibatch, ififo, iline, itarget,
                 egressVars, sinks, crashed>>

(* One line for each wakeup: an if where the code has a while. *)
MutIngressFree ==
  /\ ~crashed /\ ipc = "free"
  /\ dataStr' = [dataStr EXCEPT ![iline] = "freed"]
  /\ ipc' = IF ibatch = {} THEN "wait" ELSE "read"
  /\ iline' = NoLine /\ itarget' = NoFifo /\ ififo' = NoFifo
  /\ UNCHANGED <<config, probeVars, fifo, trigger, json, ibatch, egressVars, sinks, crashed>>

(* free(dataStr) at the end of the loop body. *)
IngressFree ==
  /\ ~crashed /\ ipc = "free"
  /\ dataStr' = [dataStr EXCEPT ![iline] = "freed"]
  /\ ipc' = "get"
  /\ iline' = NoLine /\ itarget' = NoFifo
  /\ UNCHANGED <<config, probeVars, fifo, trigger, json, ibatch, ififo, egressVars, sinks,
                 crashed>>

-----------------------------------------------------------------------------
(* Egress thread. *)

(* Only one of the two eventfds was given to epoll. *)
MutEgressWait ==
  /\ ~crashed /\ epc = "wait"
  /\ trigger["metric"] > 0
  /\ ebatch' = {"metric"}
  /\ epc' = "read"
  /\ UNCHANGED <<config, probeVars, fifo, trigger, dataStr, json, ingressVars, efifo, eline,
                 retry, sinks, crashed>>

EgressWait ==
  /\ ~crashed /\ epc = "wait"
  /\ \E f \in EgressFifos : trigger[f] > 0
  /\ ebatch' = { f \in EgressFifos : trigger[f] > 0 }
  /\ epc' = "read"
  /\ UNCHANGED <<config, probeVars, fifo, trigger, dataStr, json, ingressVars, efifo, eline,
                 retry, sinks, crashed>>

EgressRead ==
  /\ ~crashed /\ epc = "read"
  /\ \E f \in ebatch :
       /\ trigger' = [trigger EXCEPT ![f] = 0]
       /\ efifo' = f
       /\ ebatch' = ebatch \ {f}
  /\ epc' = "get"
  /\ UNCHANGED <<config, probeVars, fifo, dataStr, json, ingressVars, eline, retry, sinks,
                 crashed>>

(***************************************************************************)
(* FifoGet, and the choice of the kafka manager.  A message whose manager   *)
(* is absent would be forgotten by the loop, neither produced nor freed.    *)
(***************************************************************************)
EgressGet ==
  /\ ~crashed /\ epc = "get"
  /\ IF fifo[efifo] = <<>>
     THEN /\ epc' = (IF ebatch = {} THEN "wait" ELSE "read")
          /\ efifo' = NoFifo
          /\ eline' = NoLine
          /\ UNCHANGED fifo
     ELSE /\ eline' = Head(fifo[efifo])
          /\ fifo' = [fifo EXCEPT ![efifo] = Tail(@)]
          /\ epc' = IF (efifo = "metric" /\ MetricKafka) \/ (efifo = "event" /\ EventKafka)
                    THEN "produce" ELSE "get"
          /\ UNCHANGED efifo
  /\ retry' = 0
  /\ UNCHANGED <<config, probeVars, trigger, dataStr, json, ingressVars, ebatch, sinks, crashed>>

(* Where EgressDataProcesssInput goes on when KafkaMsgProduce has returned. *)
AfterProduce == IF debug THEN "trace" ELSE "get"

(* free(msg) before the retry instead of after the last one. *)
MutKafkaMsgProduce ==
  /\ ~crashed /\ epc = "produce"
  /\ \/ /\ json' = [json EXCEPT ![eline] = "kafka"]
        /\ kafka' = [kafka EXCEPT ![efifo] = Append(@, eline)]
        /\ epc' = AfterProduce
        /\ UNCHANGED retry
     \/ /\ json' = [json EXCEPT ![eline] = "freed"]
        /\ IF retry + 1 < RetryMax THEN retry' = retry + 1 /\ UNCHANGED epc
           ELSE epc' = AfterProduce /\ UNCHANGED retry
        /\ UNCHANGED kafka
  /\ UNCHANGED <<config, probeVars, fifo, trigger, dataStr, ingressVars, ebatch, efifo, eline,
                 records, eventLog, crashed>>

(* A message the broker queue has no room for goes back to the fifo. *)
MutRequeue ==
  /\ ~crashed /\ epc = "produce"
  /\ \/ /\ json' = [json EXCEPT ![eline] = "kafka"]
        /\ kafka' = [kafka EXCEPT ![efifo] = Append(@, eline)]
        /\ UNCHANGED fifo
     \/ /\ fifo' = [fifo EXCEPT ![efifo] = Append(@, eline)]
        /\ UNCHANGED <<json, kafka>>
  /\ epc' = AfterProduce
  /\ UNCHANGED <<config, probeVars, trigger, dataStr, ingressVars, ebatch, efifo, eline, retry,
                 records, eventLog, crashed>>

(* A retry bound off by one. *)
MutRetryBound ==
  /\ ~crashed /\ epc = "produce"
  /\ \/ /\ json' = [json EXCEPT ![eline] = "kafka"]
        /\ kafka' = [kafka EXCEPT ![efifo] = Append(@, eline)]
        /\ epc' = AfterProduce
        /\ UNCHANGED retry
     \/ /\ retry + 1 <= RetryMax
        /\ retry' = retry + 1
        /\ UNCHANGED <<json, kafka, epc>>
     \/ /\ json' = [json EXCEPT ![eline] = "freed"]
        /\ epc' = AfterProduce
        /\ UNCHANGED <<kafka, retry>>
  /\ UNCHANGED <<config, probeVars, fifo, trigger, dataStr, ingressVars, ebatch, efifo, eline,
                 records, eventLog, crashed>>

(***************************************************************************)
(* KafkaMsgProduce, one attempt per step.  rd_kafka_produce either takes    *)
(* the message, with the duty to free it (RD_KAFKA_MSG_F_FREE); or its      *)
(* queue is full and there is an attempt left; or the message is freed.     *)
(***************************************************************************)
KafkaMsgProduce ==
  /\ ~crashed /\ epc = "produce"
  /\ \/ /\ json' = [json EXCEPT ![eline] = "kafka"]
        /\ kafka' = [kafka EXCEPT ![efifo] = Append(@, eline)]
        /\ epc' = AfterProduce
        /\ UNCHANGED retry
     \/ /\ retry + 1 < RetryMax
        /\ retry' = retry + 1
        /\ UNCHANGED <<json, kafka, epc>>
     \/ /\ json' = [json EXCEPT ![eline] = "freed"]
        /\ epc' = AfterProduce
        /\ UNCHANGED <<kafka, retry>>
  /\ UNCHANGED <<config, probeVars, fifo, trigger, dataStr, ingressVars, ebatch, efifo, eline,
                 records, eventLog, crashed>>

(* The debug build's loop writes the message to the log after the produce. *)
EgressTrace ==
  /\ ~crashed /\ epc = "trace"
  /\ epc' = "get"
  /\ UNCHANGED <<config, probeVars, fifo, trigger, dataStr, json, ingressVars, ebatch, efifo,
                 eline, retry, sinks, crashed>>

-----------------------------------------------------------------------------
ProbeThread(p) ==
  ProbeLine(p) \/ ProbePut(p) \/ ProbeTrigger(p) \/ ProbeTrace(p) \/ NativeCancel(p)

IngressMain ==
  \/ IngressWait \/ IngressRead \/ IngressGet
  \/ ProcessDirty \/ ProcessOtelLogData \/ ProcessEventData \/ ProcessMetricData
  \/ IngressPut \/ IngressTrigger \/ IngressFree

EgressMain == EgressWait \/ EgressRead \/ EgressGet \/ KafkaMsgProduce \/ EgressTrace

Next == (\E p \in Probes : ProbeThread(p)) \/ IngressMain \/ EgressMain

Spec == Init /\ [][Next]_vars

(***************************************************************************)
(* Nothing obliges a probe to print.  A thread in the middle of handing a   *)
(* line over, and the two loops of the daemon, are scheduled.               *)
(***************************************************************************)
Fairness ==
  /\ \A p \in Probes : WF_vars(ProbePut(p) \/ ProbeTrigger(p) \/ ProbeTrace(p))
  /\ WF_vars(IngressMain)
  /\ WF_vars(EgressMain)

FairSpec == Spec /\ Fairness

-----------------------------------------------------------------------------
TypeOK ==
  /\ <<metricChnl, eventChnl, debug>> \in Settings
  /\ pos \in [Probes -> Nat] /\ ppc \in [Probes -> {"read", "put", "trigger", "trace"}]
  /\ missed \in [Probes -> BOOLEAN]
  /\ fifo \in [Fifos -> Seq(Lines)] /\ trigger \in [Fifos -> Nat]
  /\ dataStr \in [Lines -> {"none", "live", "freed"}]
  /\ json \in [Lines -> {"none", "live", "freed", "kafka"}]
  /\ ipc \in {"wait", "read", "get", "process", "put", "trigger", "free"}
  /\ epc \in {"wait", "read", "get", "produce", "trace"}
  /\ ibatch \subseteq Probes /\ ebatch \subseteq EgressFifos
  /\ ififo \in Probes \cup {NoFifo} /\ efifo \in EgressFifos \cup {NoFifo}
  /\ iline \in Lines \cup {NoLine} /\ eline \in Lines \cup {NoLine}
  /\ itarget \in EgressFifos \cup {NoFifo}
  /\ retry \in 0 .. RetryMax - 1
  /\ records \subseteq Lines /\ eventLog \in Seq(Lines)
  /\ kafka \in [EgressFifos -> Seq(Lines)]
  /\ crashed \in BOOLEAN

(* Who holds a pointer to the line's buffer, and to the message made of it,  *)
(* and will hand it over or free it.                                         *)
HoldsLine(l) ==
  \/ \E p \in Probes : ppc[p] = "put" /\ Line(p) = l
  \/ \E p \in Probes : l \in Range(fifo[p])
  \/ ipc \in {"process", "put", "trigger", "free"} /\ iline = l
HoldsJson(l) ==
  \/ ipc = "put" /\ iline = l
  \/ \E f \in EgressFifos : l \in Range(fifo[f])
  \/ epc = "produce" /\ eline = l

(* Who will still read through a pointer it has given away: DEBUG. *)
TracesLine(l) == \E p \in Probes : ppc[p] = "trace" /\ Line(p) = l
TracesJson(l) == epc = "trace" /\ eline = l

(***************************************************************************)
(* Every pointer a thread holds or a ring carries is to a live object, and  *)
(* no object has been freed or given to librdkafka while a pointer to it    *)
(* travels: no use after free, no double free.  The release build reads     *)
(* through no other pointer.  The debug build does: its traces read the     *)
(* line of an extended probe after the put, and the message after the       *)
(* produce, and by then the object may be gone.                             *)
(***************************************************************************)
NoUseAfterFree ==
  \A l \in Lines :
    /\ HoldsLine(l) \/ (TracesLine(l) /\ ~debug) => dataStr[l] = "live"
    /\ HoldsJson(l) \/ (TracesJson(l) /\ ~debug) => json[l] = "live"

(***************************************************************************)
(* Conversely no live object is forgotten, whatever fifo was full and       *)
(* whatever kafka answered; egress never meets a message whose kafka        *)
(* manager is absent.  The one exception is the buffer of a line without    *)
(* newline, which sendOutputToIngresss drops.                               *)
(***************************************************************************)
NoLeak ==
  \A l \in Lines : /\ dataStr[l] = "live" => HoldsLine(l) \/ Kind[l] = "partial"
                   /\ json[l] = "live" => HoldsJson(l)

(* The thread that will write, or has a write pending for, the fifo. *)
ProducerWillTrigger(f) ==
  \/ f \in Probes /\ ppc[f] = "trigger"
  \/ f \in EgressFifos /\ ipc = "trigger" /\ itarget = f
ConsumerIsDraining(f) ==
  \/ f \in Probes /\ ififo = f /\ ipc \notin {"wait", "read"}
  \/ f \in EgressFifos /\ efifo = f /\ epc \notin {"wait", "read"}

(***************************************************************************)
(* No lost wakeup: while a ring holds a line, its eventfd is readable, or   *)
(* its producer is about to write it, or its consumer is inside the drain   *)
(* loop.  The exception is a native probe cancelled between put and write.  *)
(***************************************************************************)
NoLostWakeup ==
  \A f \in Fifos : fifo[f] # <<>> =>
    \/ trigger[f] > 0
    \/ ProducerWillTrigger(f)
    \/ ConsumerIsDraining(f)
    \/ f \in Probes /\ missed[f]

(***************************************************************************)
(* The eventfds are created blocking (eventfd(0, 0)): a read of a zero      *)
(* counter would stop the ingress or egress thread for good.  Every fifo    *)
(* still in the batch epoll_wait returned has a positive counter.           *)
(***************************************************************************)
ReadNeverBlocks ==
  /\ \A f \in ibatch : trigger[f] > 0
  /\ \A f \in ebatch : trigger[f] > 0

(* The lines of one probe reach a kafka topic in the order it printed them. *)
InOrder ==
  \A t \in EgressFifos, p \in Probes : \A i, j \in 1 .. Len(kafka[t]) :
    (i < j /\ {kafka[t][i], kafka[t][j]} \subseteq Range(Output[p])) =>
      \E a, b \in 1 .. Len(Output[p]) :
        a < b /\ Output[p][a] = kafka[t][i] /\ Output[p][b] = kafka[t][j]

(* The lines a probe hands over; the others never leave its thread. *)
HandedOver(p) == { l \in Range(Output[p]) : Kind[l] \notin {"text", "partial"} }

(* A line in a probe fifo is processed and freed, unless its probe was      *)
(* cancelled before the write and has printed nothing since, or the daemon  *)
(* died.                                                                    *)
LinesAreConsumed ==
  \A p \in Probes : \A l \in HandedOver(p) :
    l \in Range(fifo[p]) ~> (dataStr[l] = "freed" \/ missed[p] \/ crashed)

(* A message handed to egress is produced to kafka or given up after the    *)
(* bounded number of attempts; it never stays in the fifo.                  *)
MessagesLeaveEgress ==
  \A p \in Probes : \A l \in HandedOver(p) :
    json[l] = "live" ~> (json[l] \in {"kafka", "freed"} \/ crashed)

(***************************************************************************)
(* doc/conf_introduction.md lists kafka among the metric out_channel        *)
(* settings: a metric line does not bring the daemon down under any of      *)
(* them.                                                                    *)
(***************************************************************************)
MetricChannelWorks == ~crashed
===========================================================================
