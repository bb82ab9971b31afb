-------------------------- MODULE DataPathProofs --------------------------
(***************************************************************************)
(* For every set of probes, every output, every size of the fifos and every *)
(* setting of the output channels: the data path loses no wakeup, never     *)
(* reads an empty eventfd, uses no dead object, forgets no live one and     *)
(* keeps the lines of a probe in order.                                     *)
(*                                                                          *)
(* The argument: every line has a place, its probe and its index in what    *)
(* the probe prints.  Along the way (next line of the probe, its fifo, the  *)
(* line ingress holds, the egress fifo, the message egress holds, the       *)
(* topic) the indices of one probe's lines only go down.  A line is never   *)
(* before itself, so it is in one place at a time, and the thread that      *)
(* frees it is the last to hold it.                                         *)
(***************************************************************************)
EXTENDS DataPath, SequenceTheorems, TLAPS

(* The place of a line. *)
Owner(l) == CHOOSE p \in Probes : l \in Range(Output[p])
Idx(l) == CHOOSE i \in 1 .. Len(Output[Owner(l)]) : Output[Owner(l)][i] = l

(* Lines of different probes are in no order. *)
Before(l, m) == Owner(l) = Owner(m) => Idx(l) < Idx(m)
Ordered(s) == \A i, j \in 1 .. Len(s) : i < j => Before(s[i], s[j])

(* What the program counters say about the other variables of a thread. *)
Held == {"process", "put", "trigger", "free"}
Control ==
  /\ \A p \in Probes : pos[p] >= 1 /\ (ppc[p] # "read" => pos[p] <= Len(Output[p]))
  /\ ipc \in {"get"} \cup Held => ififo \in Probes
  /\ ipc \in Held => iline \in Lines
  /\ ipc \in {"put", "trigger"} => itarget \in EgressFifos
  /\ epc \in {"get", "produce", "trace"} => efifo \in EgressFifos
  /\ epc = "produce" => eline \in Lines
  /\ ~debug => epc # "trace" /\ \A p \in Probes : ppc[p] # "trace"

TypeInv == TypeOK /\ Control

(* The probe has put the line into its fifo, or is past it. *)
Handed(l) ==
  \/ Idx(l) < pos[Owner(l)]
  \/ Idx(l) = pos[Owner(l)] /\ ppc[Owner(l)] \in {"trigger", "trace"}

(* A fifo holds lines of its own probe, in order; the line ingress works on  *)
(* was before them.                                                          *)
ProbeFifos ==
  /\ \A p \in Probes : Ordered(fifo[p])
  /\ \A p \in Probes : \A l \in Range(fifo[p]) : Owner(l) = p /\ Handed(l)
  /\ ipc \in Held =>
       /\ Owner(iline) = ififo /\ Handed(iline)
       /\ \A m \in Range(fifo[ififo]) : Before(iline, m)

(* A line of which a message was made is before all that is still to come. *)
Upstream ==
  \A l \in Lines : json[l] # "none" =>
    /\ Handed(l)
    /\ \A m \in Range(fifo[Owner(l)]) : Before(l, m)
    /\ ipc = "process" => Before(l, iline)
    /\ ipc = "put" => l = iline \/ Before(l, iline)

(* The egress fifo a line's message goes to, and who takes it from there. *)
Target(l) == IF Kind[l] = "metric" THEN "metric" ELSE "event"
Manager(t) == IF t = "metric" THEN MetricKafka ELSE EventKafka

(* What is in a topic is before what egress holds for it, and that before    *)
(* what its fifo holds; a message is in the fifo of its target only, and     *)
(* only if that has a kafka manager.                                         *)
Messages ==
  /\ \A t \in EgressFifos : Ordered(fifo[t]) /\ Ordered(kafka[t])
  /\ \A t \in EgressFifos : \A l \in Range(fifo[t]) :
       /\ Target(l) = t /\ Manager(t)
       /\ ipc = "put" => l # iline
       /\ \A k \in Range(kafka[t]) : Before(k, l)
  /\ ipc \in {"put", "trigger"} => itarget = Target(iline) /\ Manager(itarget)
  /\ \A t \in EgressFifos : \A k \in Range(kafka[t]) : json[k] = "kafka"
  /\ epc = "produce" =>
       /\ efifo = Target(eline)
       /\ ipc = "put" => eline # iline
       /\ \A l \in Range(fifo[efifo]) : Before(eline, l)
       /\ \A k \in Range(kafka[efifo]) : Before(k, eline)

OrderInv == ProbeFifos /\ Upstream /\ Messages

(* The pointers that will be handed over or freed are to live objects. *)
Alive ==
  \A l \in Lines : /\ HoldsLine(l) => dataStr[l] = "live"
                   /\ HoldsJson(l) => json[l] = "live"
OwnershipInv == Alive /\ NoLeak

-----------------------------------------------------------------------------
(* Lines and sequences of lines. *)

(* FifoPut adds one element. *)
LEMMA AppendRange ==
  ASSUME NEW S, NEW s \in Seq(S), NEW x \in S
  PROVE  Append(s, x) \in Seq(S) /\ Range(Append(s, x)) = Range(s) \cup {x}
<1> DEFINE a == Append(s, x)
<1>1. /\ a \in Seq(S) /\ Len(s) \in Nat /\ Len(a) = Len(s) + 1 /\ a[Len(s) + 1] = x
      /\ \A i \in 1 .. Len(s) : a[i] = s[i]
  OBVIOUS
<1> HIDE DEF a
<1>2. Range(a) = { a[i] : i \in 1 .. Len(s) + 1 } /\ Range(s) = { s[i] : i \in 1 .. Len(s) }
  BY <1>1, RangeEquality
<1>3. \A i \in 1 .. Len(s) + 1 : a[i] \in Range(s) \cup {x}
  BY <1>1, <1>2
<1>4. \A i \in 1 .. Len(s) : \E j \in 1 .. Len(s) + 1 : s[i] = a[j]
  BY <1>1
<1>5. \E j \in 1 .. Len(s) + 1 : x = a[j]
  BY <1>1
<1>6. Range(a) \subseteq Range(s) \cup {x}
  BY <1>2, <1>3
<1>7. Range(s) \subseteq Range(a) /\ x \in Range(a)
  BY <1>2, <1>4, <1>5
<1>8. Range(a) = Range(s) \cup {x}
  BY <1>6, <1>7
<1> QED BY <1>1, <1>8 DEF a

(* FifoGet takes one element out and leaves the others. *)
LEMMA TailRange ==
  ASSUME NEW S, NEW s \in Seq(S), s # <<>>
  PROVE  /\ Head(s) \in S /\ Tail(s) \in Seq(S)
         /\ Range(s) = Range(Tail(s)) \cup {Head(s)}
<1>1. Head(s) = s[1] /\ Tail(s) \in Seq(S) /\ Len(s) \in Nat \ {0}
  OBVIOUS
<1>2. Len(Tail(s)) = Len(s) - 1 /\ \A i \in 1 .. Len(s) - 1 : Tail(s)[i] = s[i + 1]
  OBVIOUS
<1>3. Range(s) = { s[i] : i \in 1 .. Len(s) }
      /\ Range(Tail(s)) = { Tail(s)[i] : i \in 1 .. Len(s) - 1 }
  BY <1>1, <1>2, RangeEquality
<1>4. ASSUME NEW i \in 1 .. Len(s), i # 1
      PROVE  i - 1 \in 1 .. Len(s) - 1 /\ s[i] = Tail(s)[i - 1]
  BY <1>1, <1>2, <1>4
<1> QED BY <1>1, <1>2, <1>3, <1>4

(* Order is kept at the rear by what comes after all, and at the front. *)
LEMMA OrderedAppend ==
  ASSUME NEW s \in Seq(Lines), NEW x \in Lines, Ordered(s), \A m \in Range(s) : Before(m, x)
  PROVE  Ordered(Append(s, x))
<1> DEFINE a == Append(s, x)
<1>1. Len(a) = Len(s) + 1 /\ a[Len(s) + 1] = x /\ \A i \in 1 .. Len(s) : a[i] = s[i]
  OBVIOUS
<1>2. \A i \in 1 .. Len(s) : s[i] \in Range(s)
  BY DEF Range
<1> HIDE DEF a
<1>3. Ordered(a)
  BY <1>1, <1>2 DEF Ordered
<1> QED BY <1>3 DEF a

(* Without its first line a queue is still in order, and that line is before the others. *)
LEMMA OrderedTail ==
  ASSUME NEW s \in Seq(Lines), s # <<>>, Ordered(s)
  PROVE  Ordered(Tail(s)) /\ \A m \in Range(Tail(s)) : Before(Head(s), m)
<1>1. /\ Len(s) \in Nat \ {0} /\ Head(s) = s[1] /\ Tail(s) \in Seq(Lines)
      /\ Len(Tail(s)) = Len(s) - 1 /\ \A i \in 1 .. Len(s) - 1 : Tail(s)[i] = s[i + 1]
  OBVIOUS
<1>2. Ordered(Tail(s))
  BY <1>1 DEF Ordered
<1>3. \A i \in 1 .. Len(s) - 1 : Before(s[1], s[i + 1])
  BY <1>1 DEF Ordered
<1>4. Range(Tail(s)) = { Tail(s)[i] : i \in 1 .. Len(s) - 1 }
  BY <1>1, RangeEquality
<1> QED BY <1>1, <1>2, <1>3, <1>4

(* Every line has one place: the probe that prints it and its index there. *)
LEMMA LineHasPlace ==
  /\ \A l \in Lines : /\ Owner(l) \in Probes /\ Idx(l) \in 1 .. Len(Output[Owner(l)])
                      /\ Output[Owner(l)][Idx(l)] = l
  /\ \A p \in Probes : Len(Output[p]) \in Nat
<1>1. \A p \in Probes : Len(Output[p]) \in Nat /\ DOMAIN Output[p] = 1 .. Len(Output[p])
  BY OutputAssumption
<1>2. ASSUME NEW l \in Lines
      PROVE  /\ Owner(l) \in Probes /\ Idx(l) \in 1 .. Len(Output[Owner(l)])
             /\ Output[Owner(l)][Idx(l)] = l
  <2>1. \E p \in Probes : l \in Range(Output[p])
    BY DEF Lines
  <2>2. Owner(l) \in Probes /\ l \in Range(Output[Owner(l)])
    BY <2>1 DEF Owner
  <2>3. \E i \in 1 .. Len(Output[Owner(l)]) : Output[Owner(l)][i] = l
    BY <1>1, <2>2 DEF Range
  <2> QED BY <2>2, <2>3 DEF Idx
<1> QED BY <1>1, <1>2

(* No two places have the same line. *)
LEMMA PlaceOfLine ==
  ASSUME NEW p \in Probes, NEW i \in 1 .. Len(Output[p])
  PROVE  Output[p][i] \in Lines /\ Owner(Output[p][i]) = p /\ Idx(Output[p][i]) = i
<1>1. DOMAIN Output[p] = 1 .. Len(Output[p])
  BY OutputAssumption
<1>2. Output[p][i] \in Range(Output[p])
  BY <1>1 DEF Range
<1>3. Output[p][i] \in Lines
  BY <1>2 DEF Lines
<1>4. \A q \in Probes : Output[p][i] \in Range(Output[q]) => q = p
  BY <1>2, OutputAssumption
<1>5. Owner(Output[p][i]) = p
  BY <1>2, <1>4 DEF Owner
<1>6. \A j \in 1 .. Len(Output[p]) : Output[p][j] = Output[p][i] => j = i
  BY <1>1, OutputAssumption DEF IsInjective
<1> QED BY <1>3, <1>5, <1>6 DEF Idx

-----------------------------------------------------------------------------
(* Types. *)
LEMMA TypeInit == Init => TypeInv
<1> SUFFICES ASSUME Init PROVE TypeInv
  OBVIOUS
<1>1. \A s \in Settings : s = <<s[1], s[2], s[3]>>
  BY SettingsAssumption
<1>2. <<metricChnl, eventChnl, debug>> \in Settings
  BY <1>1 DEF Init
<1>3. <<>> \in Seq(Lines) /\ 0 \in 0 .. RetryMax - 1
  BY EmptySeq, BoundsAssumption
<1>4. TypeOK
  BY <1>2, <1>3 DEF Init, TypeOK
<1>5. Control
  BY LineHasPlace DEF Init, Control, Held
<1> QED BY <1>4, <1>5 DEF TypeInv

(* The types are kept because the program counter of each loop says which of *)
(* its locals are set.                                                       *)
LEMMA TypeStep ==
  ASSUME TypeInv, [Next]_vars
  PROVE  TypeInv'
<1> USE DEF TypeInv, TypeOK, Control, Held, config, probeVars, ingressVars, egressVars, sinks
<1>0. \A f \in Probes : f \in Fifos
  BY DEF Fifos
<1>1. \A f \in EgressFifos : f \in Fifos /\ f \notin Probes
  BY OutputAssumption DEF Fifos
<1>2. \A p \in Probes : pos[p] \in Nat \ {0} /\ pos[p] + 1 \in Nat \ {0} /\ Len(Output[p]) \in Nat
  BY LineHasPlace
<1>3. ASSUME NEW p \in Probes, pos[p] <= Len(Output[p])
      PROVE  Line(p) \in Lines
  BY <1>2, <1>3, PlaceOfLine DEF Line
<1>4. ASSUME NEW f \in Fifos, fifo[f] # <<>>
      PROVE  Head(fifo[f]) \in Lines /\ [fifo EXCEPT ![f] = Tail(@)] \in [Fifos -> Seq(Lines)]
  BY <1>4, TailRange
<1>5. ASSUME NEW f \in Fifos, NEW l \in Lines
      PROVE  [fifo EXCEPT ![f] = Append(@, l)] \in [Fifos -> Seq(Lines)]
  BY AppendRange
<1>6. ASSUME NEW p \in Probes, ProbeLine(p)
      PROVE  TypeInv'
  <2>1. Line(p) \in Lines
    BY <1>3, <1>6 DEF ProbeLine
  <2>2. TypeOK'
    BY <1>2, <1>6, <2>1 DEF ProbeLine, Advance
  <2>3. \/ pos' = [pos EXCEPT ![p] = @ + 1] /\ ppc' = ppc
        \/ pos' = pos /\ ppc' = [ppc EXCEPT ![p] = "put"]
    BY <1>6 DEF ProbeLine, Advance
  <2>4. \A q \in Probes : pos'[q] >= 1 /\ (ppc'[q] # "read" => pos'[q] <= Len(Output[q]))
    BY <1>2, <1>6, <2>3 DEF ProbeLine
  <2>5. Control'
    BY <1>6, <2>4 DEF ProbeLine
  <2> QED BY <2>2, <2>5
<1>7. ASSUME NEW p \in Probes, ProbePut(p)
      PROVE  TypeInv'
  <2>1. Line(p) \in Lines
    BY <1>3, <1>7 DEF ProbePut
  <2>2. \/ pos' = [pos EXCEPT ![p] = @ + 1] /\ ppc' = [ppc EXCEPT ![p] = "read"]
        \/ pos' = pos /\ ppc' = [ppc EXCEPT ![p] = "trigger"]
    BY <1>7 DEF ProbePut, Advance
  <2>3. fifo' \in [Fifos -> Seq(Lines)]
    <3>1. fifo' = fifo \/ fifo' = [fifo EXCEPT ![p] = Append(@, Line(p))]
      BY <1>7 DEF ProbePut
    <3>2. p \in Fifos
      BY <1>0
    <3>3. [fifo EXCEPT ![p] = Append(@, Line(p))] \in [Fifos -> Seq(Lines)]
      BY <1>5, <2>1, <3>2
    <3> QED BY <3>1, <3>3
  <2>4. dataStr' \in [Lines -> {"none", "live", "freed"}]
    BY <1>7 DEF ProbePut
  <2>5. pos' \in [Probes -> Nat] /\ ppc' \in [Probes -> {"read", "put", "trigger", "trace"}]
    BY <1>2, <2>2
  <2>6. TypeOK'
    BY <1>7, <2>3, <2>4, <2>5 DEF ProbePut
  <2>7. pos[p] <= Len(Output[p])
    BY <1>7 DEF ProbePut
  <2>8. \A q \in Probes : pos'[q] >= 1 /\ (ppc'[q] # "read" => pos'[q] <= Len(Output[q]))
    <3>1. CASE pos' = [pos EXCEPT ![p] = @ + 1] /\ ppc' = [ppc EXCEPT ![p] = "read"]
      BY <1>2, <3>1
    <3>2. CASE pos' = pos /\ ppc' = [ppc EXCEPT ![p] = "trigger"]
      BY <1>2, <2>7, <3>2
    <3> QED BY <2>2, <3>1, <3>2
  <2>9. Control'
    BY <1>7, <2>8 DEF ProbePut
  <2> QED BY <2>6, <2>9
<1>8. ASSUME NEW p \in Probes, ProbeTrigger(p)
      PROVE  TypeInv'
  <2>1. trigger' \in [Fifos -> Nat]
    BY <1>0, <1>8 DEF ProbeTrigger
  <2>2. \/ pos' = [pos EXCEPT ![p] = @ + 1] /\ ppc' = [ppc EXCEPT ![p] = "read"]
        \/ pos' = pos /\ ppc' = [ppc EXCEPT ![p] = "trace"] /\ debug
    BY <1>8 DEF ProbeTrigger, Advance, Traced
  <2>3. pos' \in [Probes -> Nat] /\ ppc' \in [Probes -> {"read", "put", "trigger", "trace"}]
    BY <1>2, <2>2
  <2>4. \A q \in Probes : pos'[q] >= 1 /\ (ppc'[q] # "read" => pos'[q] <= Len(Output[q]))
    <3>1. ppc[p] # "read"
      BY <1>8 DEF ProbeTrigger
    <3> QED BY <1>2, <2>2, <3>1
  <2>5. TypeOK'
    BY <1>8, <2>1, <2>3 DEF ProbeTrigger
  <2>6. ~debug => \A q \in Probes : ppc'[q] # "trace"
    BY <2>2
  <2>7. Control'
    BY <1>8, <2>4, <2>6 DEF ProbeTrigger
  <2> QED BY <2>5, <2>7
<1>9. ASSUME NEW p \in Probes, NativeCancel(p) \/ ProbeTrace(p)
      PROVE  TypeInv'
  <2>1. CASE NativeCancel(p)
    BY <1>2, <1>9, <2>1 DEF NativeCancel, Advance
  <2>2. CASE ProbeTrace(p)
    BY <1>2, <1>9, <2>2 DEF ProbeTrace, Advance
  <2> QED BY <1>9, <2>1, <2>2
<1>10. CASE IngressWait
  BY <1>10 DEF IngressWait
<1>11. CASE IngressRead
  BY <1>0, <1>11 DEF IngressRead
<1>12. CASE IngressGet
  BY <1>0, <1>4, <1>12 DEF IngressGet
<1>13. CASE ProcessDirty
  BY <1>13 DEF ProcessDirty, Processing, NotConverted
<1>14. CASE ProcessOtelLogData
  BY <1>14 DEF ProcessOtelLogData, Processing, NotConverted, Converted, EgressFifos
<1>15. CASE ProcessEventData
  <2>1. eventLog' = eventLog \/ eventLog' = Append(eventLog, iline)
    BY <1>15 DEF ProcessEventData
  <2>2. iline \in Lines
    BY <1>15 DEF ProcessEventData, Processing
  <2>3. eventLog' \in Seq(Lines)
    <3>1. eventLog \in Seq(Lines)
      OBVIOUS
    <3>2. Append(eventLog, iline) \in Seq(Lines)
      BY <2>2, <3>1, AppendProperties
    <3> QED BY <2>1, <3>1, <3>2
  <2> QED
    BY <1>15, <2>3 DEF ProcessEventData, Processing, NotConverted, Converted, EgressFifos
<1>16. CASE ProcessMetricData
  BY <1>16 DEF ProcessMetricData, Processing, NotConverted, Converted, EgressFifos
<1>17. CASE IngressPut
  <2>1. CASE Full(itarget)
    BY <1>17, <2>1 DEF IngressPut
  <2>2. CASE ~Full(itarget)
    <3>1. fifo' = [fifo EXCEPT ![itarget] = Append(@, iline)] /\ itarget \in Fifos
          /\ iline \in Lines
      BY <1>1, <1>17, <2>2 DEF IngressPut
    <3>2. fifo' \in [Fifos -> Seq(Lines)]
      BY <1>5, <3>1
    <3> QED BY <1>17, <2>2, <3>2 DEF IngressPut
  <2> QED BY <2>1, <2>2
<1>18. CASE IngressTrigger
  BY <1>1, <1>18 DEF IngressTrigger
<1>19. CASE IngressFree
  BY <1>19 DEF IngressFree
<1>20. CASE EgressWait
  BY <1>20 DEF EgressWait
<1>21. CASE EgressRead
  BY <1>1, <1>21 DEF EgressRead
<1>22. CASE EgressGet
  <2>1. retry' \in 0 .. RetryMax - 1
    BY <1>22, BoundsAssumption DEF EgressGet
  <2>2. CASE fifo[efifo] = <<>>
    BY <1>22, <2>1, <2>2 DEF EgressGet
  <2>3. CASE fifo[efifo] # <<>>
    <3>1. /\ efifo \in EgressFifos /\ efifo \in Fifos /\ epc' \in {"produce", "get"}
          /\ eline' = Head(fifo[efifo]) /\ fifo' = [fifo EXCEPT ![efifo] = Tail(@)]
      BY <1>1, <1>22, <2>3 DEF EgressGet
    <3>2. eline' \in Lines /\ fifo' \in [Fifos -> Seq(Lines)]
      BY <1>4, <2>3, <3>1
    <3> QED BY <1>22, <2>1, <2>3, <3>1, <3>2 DEF EgressGet
  <2> QED BY <2>2, <2>3
<1>23. CASE KafkaMsgProduce
  <2>1. retry' \in 0 .. RetryMax - 1
    BY <1>23, BoundsAssumption DEF KafkaMsgProduce
  <2>2. kafka' = kafka \/ kafka' = [kafka EXCEPT ![efifo] = Append(@, eline)]
    BY <1>23 DEF KafkaMsgProduce
  <2>3. efifo \in EgressFifos /\ eline \in Lines
    BY <1>23 DEF KafkaMsgProduce
  <2>4. kafka' \in [EgressFifos -> Seq(Lines)]
    <3>1. Append(kafka[efifo], eline) \in Seq(Lines)
      BY <2>3, AppendProperties
    <3> QED BY <2>2, <2>3, <3>1
  <2>5. epc' \in {"get", "produce", "trace"} /\ (~debug => epc' # "trace")
    BY <1>23 DEF KafkaMsgProduce, AfterProduce
  <2>6. json' \in [Lines -> {"none", "live", "freed", "kafka"}]
    BY <1>23 DEF KafkaMsgProduce
  <2>7. UNCHANGED <<config, probeVars, fifo, trigger, dataStr, ingressVars, ebatch, efifo, eline,
                    records, eventLog, crashed>>
    BY <1>23 DEF KafkaMsgProduce
  <2>8. TypeOK'
    BY <2>1, <2>4, <2>5, <2>6, <2>7
  <2>9. Control'
    BY <2>3, <2>5, <2>7
  <2> QED BY <2>8, <2>9
<1>24. CASE EgressTrace
  BY <1>24 DEF EgressTrace
<1>25. CASE UNCHANGED vars
  BY <1>25 DEF vars
<1> QED
  BY <1>6, <1>7, <1>8, <1>9, <1>10, <1>11, <1>12, <1>13, <1>14, <1>15, <1>16, <1>17, <1>18,
     <1>19, <1>20, <1>21, <1>22, <1>23, <1>24, <1>25 DEF Next, ProbeThread, IngressMain, EgressMain

-----------------------------------------------------------------------------
(* Every eventfd counter of a fetched batch is positive until its own fifo   *)
(* is read: the two loops wait on disjoint sets of fifos, so neither resets  *)
(* a counter of the other's batch.                                           *)
LEMMA ReadStep ==
  ASSUME TypeInv, ReadNeverBlocks, [Next]_vars
  PROVE  ReadNeverBlocks'
<1> USE DEF ReadNeverBlocks, config, probeVars, ingressVars, egressVars, sinks
<1>1. /\ trigger \in [Fifos -> Nat] /\ ibatch \subseteq Probes /\ ebatch \subseteq EgressFifos
      /\ Probes \subseteq Fifos /\ EgressFifos \subseteq Fifos /\ Probes \cap EgressFifos = {}
      /\ ipc = "trigger" => itarget \in EgressFifos
  BY OutputAssumption DEF TypeInv, TypeOK, Control, Fifos
<1>2. ASSUME UNCHANGED <<trigger, ibatch, ebatch>>
      PROVE  ReadNeverBlocks'
  BY <1>2
<1>3. ASSUME NEW p \in Probes, ProbeTrigger(p)
      PROVE  ReadNeverBlocks'
  BY <1>1, <1>3 DEF ProbeTrigger
<1>4. CASE IngressWait
  BY <1>1, <1>4 DEF IngressWait
<1>5. CASE IngressRead
  BY <1>1, <1>5 DEF IngressRead
<1>6. CASE IngressTrigger
  BY <1>1, <1>6 DEF IngressTrigger
<1>7. CASE EgressWait
  BY <1>1, <1>7 DEF EgressWait
<1>8. CASE EgressRead
  BY <1>1, <1>8 DEF EgressRead
<1>9. ASSUME NEW p \in Probes, ProbeLine(p) \/ ProbePut(p) \/ ProbeTrace(p) \/ NativeCancel(p)
      PROVE  ReadNeverBlocks'
  BY <1>2, <1>9 DEF ProbeLine, ProbePut, ProbeTrace, NativeCancel
<1>10. CASE IngressGet \/ ProcessDirty \/ ProcessOtelLogData \/ ProcessEventData
            \/ ProcessMetricData \/ IngressPut \/ IngressFree
  BY <1>2, <1>10 DEF IngressGet, ProcessDirty, ProcessOtelLogData, ProcessEventData,
     ProcessMetricData, IngressPut, IngressFree
<1>11. CASE EgressGet \/ KafkaMsgProduce \/ EgressTrace
  BY <1>2, <1>11 DEF EgressGet, KafkaMsgProduce, EgressTrace
<1>12. CASE UNCHANGED vars
  BY <1>2, <1>12 DEF vars
<1> QED
  BY <1>3, <1>4, <1>5, <1>6, <1>7, <1>8, <1>9, <1>10, <1>11, <1>12
     DEF Next, ProbeThread, IngressMain, EgressMain

(* A put is followed by its write or by a cancel; a read of the eventfd       *)
(* begins a drain that ends only at an empty fifo.                           *)
LEMMA WakeupStep ==
  ASSUME TypeInv, NoLostWakeup, [Next]_vars
  PROVE  NoLostWakeup'
<1> USE DEF NoLostWakeup, ProducerWillTrigger, ConsumerIsDraining,
            config, probeVars, ingressVars, egressVars, sinks
<1>1. /\ trigger \in [Fifos -> Nat] /\ ibatch \subseteq Probes /\ ebatch \subseteq EgressFifos
      /\ ppc \in [Probes -> {"read", "put", "trigger", "trace"}] /\ missed \in [Probes -> BOOLEAN]
      /\ DOMAIN fifo = Fifos
      /\ Fifos = Probes \cup EgressFifos /\ Probes \cap EgressFifos = {}
      /\ ipc \in {"get", "process", "put", "trigger", "free"} => ififo \in Probes
      /\ ipc \in {"put", "trigger"} => itarget \in EgressFifos
      /\ epc \in {"get", "produce", "trace"} => efifo \in EgressFifos
  BY OutputAssumption DEF TypeInv, TypeOK, Control, Fifos, Held
<1>2. ASSUME NEW p \in Probes, ProbeLine(p)
      PROVE  NoLostWakeup'
  BY <1>1, <1>2 DEF ProbeLine
<1>3. ASSUME NEW p \in Probes, ProbePut(p)
      PROVE  NoLostWakeup'
  BY <1>1, <1>3 DEF ProbePut
<1>4. ASSUME NEW p \in Probes, ProbeTrigger(p)
      PROVE  NoLostWakeup'
  BY <1>1, <1>4 DEF ProbeTrigger
<1>5. ASSUME NEW p \in Probes, NativeCancel(p) \/ ProbeTrace(p)
      PROVE  NoLostWakeup'
  BY <1>1, <1>5 DEF NativeCancel, ProbeTrace
<1>6. CASE IngressWait
  BY <1>1, <1>6 DEF IngressWait
<1>7. CASE IngressRead
  BY <1>1, <1>7 DEF IngressRead
<1>8. CASE IngressGet
  BY <1>1, <1>8 DEF IngressGet
<1>9. CASE ProcessDirty \/ ProcessOtelLogData \/ ProcessEventData \/ ProcessMetricData
  BY <1>1, <1>9 DEF ProcessDirty, ProcessOtelLogData, ProcessEventData, ProcessMetricData,
     Processing, Converted, NotConverted
<1>10. CASE IngressPut
  BY <1>1, <1>10 DEF IngressPut
<1>11. CASE IngressTrigger
  BY <1>1, <1>11 DEF IngressTrigger
<1>12. CASE IngressFree
  BY <1>1, <1>12 DEF IngressFree
<1>13. CASE EgressWait
  BY <1>1, <1>13 DEF EgressWait
<1>14. CASE EgressRead
  BY <1>1, <1>14 DEF EgressRead
<1>15. CASE EgressGet
  BY <1>1, <1>15 DEF EgressGet
<1>16. CASE KafkaMsgProduce \/ EgressTrace
  BY <1>1, <1>16 DEF KafkaMsgProduce, AfterProduce, EgressTrace
<1>17. CASE UNCHANGED vars
  BY <1>17 DEF vars
<1> QED
  BY <1>2, <1>3, <1>4, <1>5, <1>6, <1>7, <1>8, <1>9, <1>10, <1>11, <1>12, <1>13, <1>14, <1>15,
     <1>16, <1>17 DEF Next, ProbeThread, IngressMain, EgressMain

-----------------------------------------------------------------------------
(* Order in the fifos of the probes. *)

(* Once a line is handed over it stays so. *)
LEMMA HandedKept ==
  ASSUME TypeInv, [Next]_vars, NEW l \in Lines, Handed(l)
  PROVE  Handed(l)'
<1> DEFINE o == Owner(l)
<1>1. /\ o \in Probes /\ Idx(l) \in Nat /\ pos[o] \in Nat
      /\ pos \in [Probes -> Nat] /\ ppc \in [Probes -> {"read", "put", "trigger", "trace"}]
  BY LineHasPlace DEF TypeInv, TypeOK
<1>2. \/ pos'[o] = pos[o] /\ ppc'[o] = ppc[o]
      \/ pos'[o] = pos[o] /\ (ppc[o] \in {"trigger", "trace"} => ppc'[o] = "trace")
      \/ pos'[o] = pos[o] + 1
  <2> HIDE DEF o
  <2>1. ASSUME NEW p \in Probes, ProbeThread(p)
        PROVE  \/ /\ pos' = pos /\ (ppc[p] \in {"trigger", "trace"} => ppc'[p] = "trace")
                  /\ \A q \in Probes \ {p} : ppc'[q] = ppc[q]
               \/ pos' = [pos EXCEPT ![p] = @ + 1] /\ \A q \in Probes \ {p} : ppc'[q] = ppc[q]
    BY <1>1, <2>1 DEF ProbeThread, ProbeLine, ProbePut, ProbeTrigger, ProbeTrace, NativeCancel, Advance
  <2>2. CASE \E p \in Probes : ProbeThread(p)
    BY <1>1, <2>1, <2>2
  <2>3. CASE IngressMain \/ EgressMain \/ UNCHANGED vars
    BY <2>3 DEF IngressMain, EgressMain, IngressWait, IngressRead, IngressGet, ProcessDirty,
       ProcessOtelLogData, ProcessEventData, ProcessMetricData, IngressPut, IngressTrigger,
       IngressFree, EgressWait, EgressRead, EgressGet, KafkaMsgProduce, EgressTrace, vars,
       probeVars
  <2> QED BY <2>2, <2>3 DEF Next
<1> QED BY <1>1, <1>2 DEF Handed

(* The line a probe is working on. *)
LEMMA LinePlace ==
  ASSUME TypeInv, NEW p \in Probes, ppc[p] # "read"
  PROVE  Line(p) \in Lines /\ Owner(Line(p)) = p /\ Idx(Line(p)) = pos[p]
BY PlaceOfLine, LineHasPlace DEF TypeInv, TypeOK, Control, Line

(* Every line handed over is before the line its probe is about to put. *)
LEMMA HandedBeforePut ==
  ASSUME TypeInv, NEW p \in Probes, ppc[p] = "put", NEW l \in Lines, Handed(l)
  PROVE  Before(l, Line(p))
<1>1. Owner(Line(p)) = p /\ Idx(Line(p)) = pos[p]
  BY LinePlace
<1> QED BY <1>1 DEF Handed, Before

(* No line is before itself. *)
LEMMA BeforeIrreflexive ==
  ASSUME NEW l \in Lines
  PROVE  ~Before(l, l)
BY LineHasPlace DEF Before

(* The fifos of the probes stay in order. *)
LEMMA ProbeFifosStep ==
  ASSUME TypeInv, TypeInv', ProbeFifos, [Next]_vars
  PROVE  ProbeFifos'
<1> USE DEF config, probeVars, ingressVars, egressVars, sinks
<1>1. /\ fifo \in [Fifos -> Seq(Lines)] /\ Probes \subseteq Fifos /\ EgressFifos \subseteq Fifos
      /\ Probes \cap EgressFifos = {} /\ Held = {"process", "put", "trigger", "free"}
  BY OutputAssumption DEF TypeInv, TypeOK, Fifos, Held
<1>2. \A p \in Probes : Range(fifo[p]) \subseteq Lines
  BY <1>1, RangeOfSeq
<1>3. /\ ipc \in Held => iline \in Lines /\ ififo \in Probes
      /\ ipc = "get" => ififo \in Probes
      /\ ipc = "put" => itarget \in EgressFifos
      /\ epc = "get" => efifo \in EgressFifos
  BY DEF TypeInv, Control, Held
<1>4. ASSUME \A p \in Probes : fifo'[p] = fifo[p],
             ipc' \in Held => ipc \in Held /\ UNCHANGED <<iline, ififo>>
      PROVE  ProbeFifos'
  BY <1>2, <1>3, <1>4, HandedKept DEF ProbeFifos
<1>5. ASSUME NEW p \in Probes, ProbePut(p)
      PROVE  ProbeFifos'
  <2>1. CASE Full(p)
    BY <1>4, <1>5, <2>1 DEF ProbePut
  <2>2. CASE ~Full(p)
    <3> PICK x : x = Line(p)
      OBVIOUS
    <3>1. /\ fifo' = [fifo EXCEPT ![p] = Append(@, x)] /\ ppc' = [ppc EXCEPT ![p] = "trigger"]
          /\ ppc[p] = "put" /\ UNCHANGED <<pos, ipc, iline, ififo>>
      BY <1>5, <2>2 DEF ProbePut
    <3>2. x \in Lines /\ Owner(x) = p /\ Idx(x) = pos[p]
      BY <3>1, LinePlace
    <3>3. Handed(x)'
      BY <3>1, <3>2 DEF Handed, TypeInv, TypeOK
    <3>4. \A l \in Lines : Handed(l) => Before(l, x)
      BY <3>1, HandedBeforePut
    <3>5. fifo'[p] = Append(fifo[p], x) /\ \A q \in Probes \ {p} : fifo'[q] = fifo[q]
      BY <1>1, <3>1
    <3>6. Range(fifo'[p]) = Range(fifo[p]) \cup {x}
      BY <1>1, <3>2, <3>5, AppendRange
    <3>7. Ordered(fifo'[p])
      BY <1>1, <1>2, <3>2, <3>4, <3>5, OrderedAppend DEF ProbeFifos
    <3>8. \A q \in Probes : \A l \in Range(fifo'[q]) : Owner(l) = q /\ Handed(l)'
      BY <1>2, <3>2, <3>3, <3>5, <3>6, HandedKept DEF ProbeFifos
    <3>9. \A q \in Probes : Ordered(fifo'[q])
      BY <3>5, <3>7 DEF ProbeFifos
    <3>10. ASSUME ipc \in Held
           PROVE  /\ Owner(iline) = ififo /\ Handed(iline)'
                  /\ \A m \in Range(fifo'[ififo]) : Before(iline, m)
      <4> PICK h \in Lines : h = iline
        BY <1>3, <3>10
      <4>1. h = iline' /\ Handed(h)'
        BY <3>1, <3>10, HandedKept DEF ProbeFifos
      <4>2. \A m \in Range(fifo'[ififo]) : Before(h, m)
        BY <1>3, <3>4, <3>5, <3>6, <3>10 DEF ProbeFifos
      <4>3. Owner(h) = ififo
        BY <3>10 DEF ProbeFifos
      <4> QED BY <4>1, <4>2, <4>3
    <3> QED BY <3>1, <3>8, <3>9, <3>10 DEF ProbeFifos
  <2> QED BY <2>1, <2>2
<1>6. CASE IngressGet
  <2>1. CASE fifo[ififo] = <<>>
    BY <1>4, <1>6, <2>1 DEF IngressGet, Held
  <2>2. CASE fifo[ififo] # <<>>
    <3>1. /\ iline' = Head(fifo[ififo]) /\ fifo' = [fifo EXCEPT ![ififo] = Tail(@)]
          /\ ififo' = ififo /\ ififo \in Probes /\ UNCHANGED <<pos, ppc>>
      BY <1>3, <1>6, <2>2 DEF IngressGet
    <3>2. fifo'[ififo] = Tail(fifo[ififo]) /\ \A q \in Probes \ {ififo} : fifo'[q] = fifo[q]
      BY <1>1, <3>1
    <3>3. fifo[ififo] \in Seq(Lines) /\ Ordered(fifo[ififo])
      BY <1>1, <3>1 DEF ProbeFifos
    <3>4. Range(fifo[ififo]) = Range(fifo'[ififo]) \cup {iline'}
      BY <2>2, <3>1, <3>2, <3>3, TailRange
    <3>5. Ordered(fifo'[ififo]) /\ \A m \in Range(fifo'[ififo]) : Before(iline', m)
      BY <2>2, <3>1, <3>2, <3>3, OrderedTail
    <3>6. \A q \in Probes : Ordered(fifo'[q])
      BY <3>2, <3>5 DEF ProbeFifos
    <3>7. \A q \in Probes : \A l \in Range(fifo[q]) : Owner(l) = q /\ Handed(l)'
      BY <1>2, HandedKept DEF ProbeFifos
    <3>8. \A q \in Probes : \A l \in Range(fifo'[q]) : Owner(l) = q /\ Handed(l)'
      BY <3>2, <3>4, <3>7
    <3>9. Owner(iline') = ififo' /\ Handed(iline)'
      BY <3>1, <3>4, <3>7 DEF Handed
    <3> QED BY <3>1, <3>5, <3>6, <3>8, <3>9 DEF ProbeFifos
  <2> QED BY <2>1, <2>2
<1>7. CASE IngressPut
  <2>1. \A p \in Probes : fifo'[p] = fifo[p]
    BY <1>1, <1>3, <1>7 DEF IngressPut
  <2> QED BY <1>1, <1>4, <1>7, <2>1 DEF IngressPut
<1>8. CASE EgressGet
  <2>1. \A p \in Probes : fifo'[p] = fifo[p]
    BY <1>1, <1>3, <1>8 DEF EgressGet
  <2> QED BY <1>1, <1>4, <1>8, <2>1 DEF EgressGet
<1>9. ASSUME NEW p \in Probes, ProbeLine(p) \/ ProbeTrigger(p) \/ ProbeTrace(p) \/ NativeCancel(p)
      PROVE  ProbeFifos'
  BY <1>4, <1>9 DEF ProbeLine, ProbeTrigger, ProbeTrace, NativeCancel
<1>10. CASE IngressWait \/ IngressRead \/ IngressTrigger \/ IngressFree
  BY <1>1, <1>4, <1>10 DEF IngressWait, IngressRead, IngressTrigger, IngressFree
<1>11. CASE ProcessDirty \/ ProcessOtelLogData \/ ProcessEventData \/ ProcessMetricData
  BY <1>1, <1>4, <1>11 DEF ProcessDirty, ProcessOtelLogData, ProcessEventData,
     ProcessMetricData, Processing, Converted, NotConverted
<1>12. CASE EgressWait \/ EgressRead \/ KafkaMsgProduce \/ EgressTrace
  BY <1>4, <1>12 DEF EgressWait, EgressRead, KafkaMsgProduce, EgressTrace
<1>13. CASE UNCHANGED vars
  BY <1>4, <1>13 DEF vars
<1> QED
  BY <1>5, <1>6, <1>7, <1>8, <1>9, <1>10, <1>11, <1>12, <1>13
     DEF Next, ProbeThread, IngressMain, EgressMain

-----------------------------------------------------------------------------
(* A line that was converted left its fifo before every line behind it. *)
LEMMA UpstreamStep ==
  ASSUME TypeInv, ProbeFifos, Alive, Upstream, [Next]_vars
  PROVE  Upstream'
<1> USE DEF config, probeVars, ingressVars, egressVars, sinks
<1>1. /\ fifo \in [Fifos -> Seq(Lines)] /\ Probes \subseteq Fifos /\ EgressFifos \subseteq Fifos
      /\ Probes \cap EgressFifos = {} /\ json \in [Lines -> {"none", "live", "freed", "kafka"}]
  BY OutputAssumption DEF TypeInv, TypeOK, Fifos
<1>2. /\ ipc \in Held => iline \in Lines /\ ififo \in Probes
      /\ ipc = "get" => ififo \in Probes
      /\ ipc = "put" => itarget \in EgressFifos
      /\ epc \in {"get", "produce", "trace"} => efifo \in EgressFifos
      /\ epc = "produce" => eline \in Lines
      /\ Held = {"process", "put", "trigger", "free"}
  BY DEF TypeInv, Control, Held
<1>3. \A l \in Lines : Owner(l) \in Probes
  BY LineHasPlace
<1>4. /\ ipc = "put" => json[iline] = "live"
      /\ epc = "produce" => json[eline] = "live"
  BY <1>2 DEF Alive, HoldsJson
<1>5. ASSUME \A p \in Probes : fifo'[p] = fifo[p],
             \A l \in Lines : json'[l] # "none" => json[l] # "none",
             ipc' = "process" => ipc = "process" /\ iline' = iline,
             ipc' = "put" => ipc = "put" /\ iline' = iline
      PROVE  Upstream'
  BY <1>3, <1>5, HandedKept DEF Upstream
<1>6. ASSUME NEW p \in Probes, ProbePut(p)
      PROVE  Upstream'
  <2>1. CASE Full(p)
    BY <1>5, <1>6, <2>1 DEF ProbePut
  <2>2. CASE ~Full(p)
    <3> PICK x : x = Line(p)
      OBVIOUS
    <3>1. fifo' = [fifo EXCEPT ![p] = Append(@, x)] /\ ppc[p] = "put"
          /\ UNCHANGED <<json, ipc, iline>>
      BY <1>6, <2>2 DEF ProbePut
    <3>2. x \in Lines /\ \A l \in Lines : Handed(l) => Before(l, x)
      BY <3>1, LinePlace, HandedBeforePut
    <3>3. fifo'[p] = Append(fifo[p], x) /\ \A q \in Probes \ {p} : fifo'[q] = fifo[q]
      BY <1>1, <3>1
    <3>4. Range(fifo'[p]) = Range(fifo[p]) \cup {x}
      BY <1>1, <3>2, <3>3, AppendRange
    <3>5. ASSUME NEW l \in Lines, json[l] # "none"
          PROVE  Handed(l)' /\ \A m \in Range(fifo'[Owner(l)]) : Before(l, m)
      BY <1>3, <3>2, <3>3, <3>4, <3>5, HandedKept DEF Upstream
    <3> QED BY <3>1, <3>5 DEF Upstream
  <2> QED BY <2>1, <2>2
<1>7. CASE IngressGet
  <2>1. CASE fifo[ififo] = <<>>
    BY <1>5, <1>7, <2>1 DEF IngressGet
  <2>2. CASE fifo[ififo] # <<>>
    <3>1. /\ iline' = Head(fifo[ififo]) /\ fifo' = [fifo EXCEPT ![ififo] = Tail(@)]
          /\ ififo \in Probes /\ ipc' = "process" /\ UNCHANGED json
      BY <1>2, <1>7, <2>2 DEF IngressGet
    <3>2. fifo'[ififo] = Tail(fifo[ififo]) /\ \A q \in Probes \ {ififo} : fifo'[q] = fifo[q]
      BY <1>1, <3>1
    <3>3. Range(fifo[ififo]) = Range(fifo'[ififo]) \cup {iline'}
      BY <1>1, <2>2, <3>1, <3>2, TailRange
    <3>4. Owner(iline') = ififo
      BY <3>1, <3>3 DEF ProbeFifos
    <3>5. ASSUME NEW l \in Lines, json[l] # "none"
          PROVE  /\ Handed(l)' /\ Before(l, iline')
                 /\ \A m \in Range(fifo'[Owner(l)]) : Before(l, m)
      <4>1. \A m \in Range(fifo'[Owner(l)]) : Before(l, m)
        BY <1>3, <3>2, <3>3, <3>5 DEF Upstream
      <4>2. Owner(l) = ififo => Before(l, iline')
        BY <3>3, <3>5 DEF Upstream
      <4>3. Before(l, iline')
        BY <3>4, <4>2 DEF Before
      <4> QED BY <3>5, <4>1, <4>3, HandedKept DEF Upstream
    <3> QED BY <3>1, <3>5 DEF Upstream
  <2> QED BY <2>1, <2>2
<1>8. CASE ProcessDirty \/ ProcessOtelLogData \/ ProcessEventData \/ ProcessMetricData
  <2>1. /\ ipc = "process" /\ UNCHANGED <<fifo, pos, ppc, iline>>
        /\ \/ ipc' = "free" /\ UNCHANGED json
           \/ ipc' = "process" /\ UNCHANGED json
           \/ ipc' = "put" /\ json' = [json EXCEPT ![iline] = "live"]
    BY <1>8 DEF ProcessDirty, ProcessOtelLogData, ProcessEventData, ProcessMetricData,
       Processing, Converted, NotConverted
  <2>2. CASE ipc' # "put"
    BY <1>5, <2>1, <2>2
  <2>3. CASE ipc' = "put"
    <3>1. Owner(iline) = ififo /\ Handed(iline) /\ \A m \in Range(fifo[ififo]) : Before(iline, m)
      BY <1>2, <2>1 DEF ProbeFifos
    <3>2. \A l \in Lines : json'[l] # "none" => l = iline \/ json[l] # "none"
      BY <1>1, <2>1, <2>3
    <3> QED BY <2>1, <2>3, <3>1, <3>2 DEF Upstream, Handed
  <2> QED BY <2>2, <2>3
<1>9. CASE IngressPut
  <2>1. \A p \in Probes : fifo'[p] = fifo[p]
    BY <1>1, <1>2, <1>9 DEF IngressPut
  <2>2. \A l \in Lines : json'[l] # "none" => json[l] # "none"
    BY <1>1, <1>4, <1>9 DEF IngressPut
  <2> QED BY <1>5, <1>9, <2>1, <2>2 DEF IngressPut
<1>10. CASE EgressGet
  <2>1. \A p \in Probes : fifo'[p] = fifo[p]
    BY <1>1, <1>2, <1>10 DEF EgressGet
  <2> QED BY <1>5, <1>10, <2>1 DEF EgressGet
<1>11. CASE KafkaMsgProduce
  <2>1. \A l \in Lines : json'[l] # "none" => json[l] # "none"
    BY <1>1, <1>4, <1>11 DEF KafkaMsgProduce
  <2> QED BY <1>5, <1>11, <2>1 DEF KafkaMsgProduce
<1>12. ASSUME NEW p \in Probes, ProbeLine(p) \/ ProbeTrigger(p) \/ ProbeTrace(p) \/ NativeCancel(p)
      PROVE  Upstream'
  BY <1>5, <1>12 DEF ProbeLine, ProbeTrigger, ProbeTrace, NativeCancel
<1>13. CASE IngressWait \/ IngressRead \/ IngressTrigger \/ IngressFree
  BY <1>5, <1>13 DEF IngressWait, IngressRead, IngressTrigger, IngressFree
<1>14. CASE EgressWait \/ EgressRead \/ EgressTrace
  BY <1>5, <1>14 DEF EgressWait, EgressRead, EgressTrace
<1>15. CASE UNCHANGED vars
  BY <1>5, <1>15 DEF vars
<1> QED
  BY <1>6, <1>7, <1>8, <1>9, <1>10, <1>11, <1>12, <1>13, <1>14, <1>15
     DEF Next, ProbeThread, IngressMain, EgressMain

(* Messages stay in order on their way to their topic, and each is in one    *)
(* place only.                                                               *)
LEMMA MessagesStep ==
  ASSUME TypeInv, ProbeFifos, Alive, Upstream, Messages, [Next]_vars
  PROVE  Messages'
<1> USE DEF config, probeVars, ingressVars, egressVars, sinks
<1>1. /\ fifo \in [Fifos -> Seq(Lines)] /\ Probes \subseteq Fifos /\ EgressFifos \subseteq Fifos
      /\ Probes \cap EgressFifos = {} /\ json \in [Lines -> {"none", "live", "freed", "kafka"}]
      /\ kafka \in [EgressFifos -> Seq(Lines)]
  BY OutputAssumption DEF TypeInv, TypeOK, Fifos
<1>2. /\ ipc \in Held => iline \in Lines /\ ififo \in Probes
      /\ ipc = "get" => ififo \in Probes
      /\ ipc \in {"put", "trigger"} => itarget \in EgressFifos
      /\ epc \in {"get", "produce", "trace"} => efifo \in EgressFifos
      /\ epc = "produce" => eline \in Lines
      /\ Held = {"process", "put", "trigger", "free"}
  BY DEF TypeInv, Control, Held
<1>3. \A t \in EgressFifos : Range(fifo[t]) \subseteq Lines /\ Range(kafka[t]) \subseteq Lines
  BY <1>1, RangeOfSeq
<1>4. /\ ipc = "put" => json[iline] = "live"
      /\ epc = "produce" => json[eline] = "live"
      /\ \A t \in EgressFifos : \A l \in Range(fifo[t]) : json[l] = "live"
  BY <1>2, <1>3 DEF Alive, HoldsJson
<1>5. \A t \in EgressFifos : Manager(t)' = Manager(t)
  BY DEF Next, vars, ProbeThread, IngressMain, EgressMain, ProbeLine, ProbePut, ProbeTrigger,
     ProbeTrace, NativeCancel, IngressWait, IngressRead, IngressGet, ProcessDirty, ProcessOtelLogData,
     ProcessEventData, ProcessMetricData, IngressPut, IngressTrigger, IngressFree, EgressWait,
     EgressRead, EgressGet, KafkaMsgProduce, EgressTrace, Manager, MetricKafka, EventKafka
<1>6. ASSUME \A t \in EgressFifos : fifo'[t] = fifo[t],
             \A l \in Lines : json[l] = "kafka" => json'[l] = "kafka",
             ipc' = "put" => ipc = "put",
             ipc' \in {"put", "trigger"} => ipc \in {"put", "trigger"}
             /\ UNCHANGED <<iline, itarget>>,
             UNCHANGED kafka,
             epc' = "produce" => epc = "produce" /\ UNCHANGED <<eline, efifo>>
      PROVE  Messages'
  BY <1>2, <1>3, <1>5, <1>6 DEF Messages
<1>7. CASE ProcessDirty \/ ProcessOtelLogData \/ ProcessEventData \/ ProcessMetricData
  <2>1. ipc = "process" /\ iline \in Lines /\ json[iline] = "none"
    <3>1. ipc = "process" /\ iline \in Lines
      BY <1>2, <1>7 DEF ProcessDirty, ProcessOtelLogData, ProcessEventData, ProcessMetricData,
         Processing
    <3> QED BY <3>1, BeforeIrreflexive DEF Upstream
  <2>2. /\ UNCHANGED <<fifo, iline, kafka, epc, eline, efifo>>
        /\ \/ ipc' \in {"free", "process"} /\ UNCHANGED json
           \/ /\ ipc' = "put" /\ json' = [json EXCEPT ![iline] = "live"]
              /\ itarget' = Target(iline) /\ Manager(itarget')
    BY <1>7 DEF ProcessDirty, ProcessOtelLogData, ProcessEventData, ProcessMetricData,
       Processing, Converted, NotConverted, Target, Manager
  <2>3. CASE ipc' # "put"
    BY <1>6, <2>2, <2>3
  <2>4. CASE ipc' = "put"
    <3>1. itarget' \in EgressFifos
      BY <2>2, <2>4 DEF Target, EgressFifos
    <3>2. \A t \in EgressFifos : \A l \in Range(fifo[t]) : l # iline
      BY <1>4, <2>1
    <3>3. epc = "produce" => eline # iline
      BY <1>4, <2>1
    <3>4. \A t \in EgressFifos : \A k \in Range(kafka[t]) : json'[k] = "kafka"
      BY <1>1, <1>3, <2>1, <2>2, <2>4 DEF Messages
    <3>5. Manager(itarget)'
      BY <1>5, <2>2, <2>4, <3>1
    <3> QED BY <1>5, <2>2, <2>4, <3>2, <3>3, <3>4, <3>5 DEF Messages
  <2> QED BY <2>3, <2>4
<1>8. CASE IngressPut
  <2>1. CASE Full(itarget)
    BY <1>1, <1>4, <1>6, <1>8, <2>1 DEF IngressPut
  <2>2. CASE ~Full(itarget)
    <3> PICK x, t : x = iline /\ t = itarget
      OBVIOUS
    <3>1. /\ ipc = "put" /\ ipc' = "trigger" /\ fifo' = [fifo EXCEPT ![t] = Append(@, x)]
          /\ x \in Lines /\ t \in EgressFifos /\ t = Target(x) /\ Manager(t)
          /\ UNCHANGED <<json, kafka, iline, itarget, epc, eline, efifo>>
      BY <1>2, <1>8, <2>2 DEF IngressPut, Messages
    <3>2. fifo'[t] = Append(fifo[t], x) /\ \A u \in EgressFifos \ {t} : fifo'[u] = fifo[u]
      BY <1>1, <3>1
    <3>3. Range(fifo'[t]) = Range(fifo[t]) \cup {x}
      BY <1>1, <3>1, <3>2, AppendRange
    <3>4. \A l \in Lines : json[l] # "none" => l = x \/ Before(l, x)
      BY <3>1 DEF Upstream
    <3>5. \A l \in Range(fifo[t]) : Before(l, x)
      BY <1>3, <1>4, <3>1, <3>4 DEF Messages
    <3>6. \A k \in Range(kafka[t]) : Before(k, x)
      BY <1>3, <1>4, <3>1, <3>4 DEF Messages
    <3>7. epc = "produce" => Before(eline, x)
      BY <1>2, <1>4, <3>1, <3>4 DEF Messages
    <3>8. Ordered(fifo'[t])
      BY <1>1, <3>1, <3>2, <3>5, OrderedAppend DEF Messages
    <3>9. \A u \in EgressFifos : Ordered(fifo'[u]) /\ Ordered(kafka'[u])
      BY <3>1, <3>2, <3>8 DEF Messages
    <3>10. \A u \in EgressFifos : \A l \in Range(fifo'[u]) :
             /\ Target(l) = u /\ Manager(u)'
             /\ \A k \in Range(kafka'[u]) : Before(k, l)
      BY <1>5, <3>1, <3>2, <3>3, <3>6 DEF Messages
    <3>11. epc = "produce" => /\ efifo = Target(eline)
                              /\ \A l \in Range(fifo'[efifo]) : Before(eline, l)
                              /\ \A k \in Range(kafka'[efifo]) : Before(k, eline)
      BY <1>2, <3>1, <3>2, <3>3, <3>7 DEF Messages
    <3>12. itarget' = Target(iline') /\ Manager(itarget)'
      BY <1>5, <3>1
    <3> QED BY <3>1, <3>9, <3>10, <3>11, <3>12 DEF Messages
  <2> QED BY <2>1, <2>2
<1>9. CASE EgressGet
  <2>1. CASE fifo[efifo] = <<>>
    BY <1>6, <1>9, <2>1 DEF EgressGet
  <2>2. CASE fifo[efifo] # <<>>
    <3> PICK t : t = efifo
      OBVIOUS
    <3>1. /\ t \in EgressFifos /\ eline' = Head(fifo[t]) /\ fifo' = [fifo EXCEPT ![t] = Tail(@)]
          /\ efifo' = t /\ UNCHANGED <<json, kafka, ipc, iline, itarget>>
      BY <1>2, <1>9, <2>2 DEF EgressGet
    <3>2. fifo'[t] = Tail(fifo[t]) /\ \A u \in EgressFifos \ {t} : fifo'[u] = fifo[u]
      BY <1>1, <3>1
    <3>3. fifo[t] \in Seq(Lines) /\ Ordered(fifo[t]) /\ fifo[t] # <<>>
      BY <1>1, <2>2, <3>1 DEF Messages
    <3>4. Range(fifo[t]) = Range(fifo'[t]) \cup {eline'}
      BY <3>1, <3>2, <3>3, TailRange
    <3>5. Ordered(fifo'[t]) /\ \A m \in Range(fifo'[t]) : Before(eline', m)
      BY <3>1, <3>2, <3>3, OrderedTail
    <3>6. \A u \in EgressFifos : Ordered(fifo'[u]) /\ Ordered(kafka'[u])
      BY <3>1, <3>2, <3>5 DEF Messages
    <3>7. \A u \in EgressFifos : \A l \in Range(fifo'[u]) :
             /\ Target(l) = u /\ Manager(u)'
             /\ ipc' = "put" => l # iline'
             /\ \A k \in Range(kafka'[u]) : Before(k, l)
      BY <1>5, <3>1, <3>2, <3>4 DEF Messages
    <3>8. /\ t = Target(eline') /\ (ipc = "put" => eline' # iline)
          /\ \A k \in Range(kafka[t]) : Before(k, eline')
      BY <3>1, <3>4 DEF Messages
    <3>9. ipc' \in {"put", "trigger"} => itarget' = Target(iline') /\ Manager(itarget)'
      BY <1>2, <1>5, <3>1 DEF Messages
    <3> QED BY <3>1, <3>5, <3>6, <3>7, <3>8, <3>9 DEF Messages
  <2> QED BY <2>1, <2>2
<1>10. CASE KafkaMsgProduce
  <2>1. \A t \in EgressFifos : \A k \in Range(kafka[t]) : k \in Lines /\ json[k] = "kafka"
    BY <1>3 DEF Messages
  <2>2. CASE UNCHANGED kafka
    <3>1. /\ epc = "produce"
          /\ UNCHANGED <<fifo, ipc, iline, itarget, eline, efifo, kafka>>
          /\ json' = json \/ json' = [json EXCEPT ![eline] = "freed"]
             \/ json' = [json EXCEPT ![eline] = "kafka"]
      BY <1>10, <2>2 DEF KafkaMsgProduce
    <3>2. \A l \in Lines : json[l] = "kafka" => json'[l] = "kafka"
      BY <1>1, <1>4, <3>1
    <3> QED BY <1>6, <3>1, <3>2
  <2>3. CASE /\ json' = [json EXCEPT ![eline] = "kafka"] /\ epc' \in {"get", "trace"}
             /\ kafka' = [kafka EXCEPT ![efifo] = Append(@, eline)]
    <3> PICK x, t : x = eline /\ t = efifo
      OBVIOUS
    <3>1. /\ epc = "produce" /\ x \in Lines /\ t \in EgressFifos
          /\ UNCHANGED <<fifo, ipc, iline, itarget, eline, efifo>>
      BY <1>2, <1>10 DEF KafkaMsgProduce
    <3>2. kafka'[t] = Append(kafka[t], x) /\ \A u \in EgressFifos \ {t} : kafka'[u] = kafka[u]
      BY <1>1, <2>3, <3>1
    <3>3. Range(kafka'[t]) = Range(kafka[t]) \cup {x}
      BY <1>1, <3>1, <3>2, AppendRange
    <3>4. /\ \A k \in Range(kafka[t]) : Before(k, x)
          /\ \A l \in Range(fifo[t]) : Before(x, l)
      BY <3>1 DEF Messages
    <3>5. Ordered(kafka'[t])
      BY <1>1, <3>1, <3>2, <3>4, OrderedAppend DEF Messages
    <3>6. \A u \in EgressFifos : Ordered(fifo'[u]) /\ Ordered(kafka'[u])
      BY <3>1, <3>2, <3>5 DEF Messages
    <3>7. \A u \in EgressFifos : \A k \in Range(kafka'[u]) : json'[k] = "kafka"
      BY <1>1, <2>1, <2>3, <3>1, <3>2, <3>3
    <3>8. \A u \in EgressFifos : \A l \in Range(fifo'[u]) :
             /\ Target(l) = u /\ Manager(u)'
             /\ ipc' = "put" => l # iline'
             /\ \A k \in Range(kafka'[u]) : Before(k, l)
      BY <1>5, <3>1, <3>2, <3>3, <3>4 DEF Messages
    <3>9. ipc' \in {"put", "trigger"} => itarget' = Target(iline') /\ Manager(itarget)'
      BY <1>2, <1>5, <3>1 DEF Messages
    <3> QED BY <2>3, <3>1, <3>6, <3>7, <3>8, <3>9 DEF Messages
  <2> QED BY <1>10, <2>2, <2>3 DEF KafkaMsgProduce, AfterProduce
<1>11. ASSUME NEW p \in Probes, ProbeThread(p)
       PROVE  Messages'
  <2>1. \A t \in EgressFifos : fifo'[t] = fifo[t]
    BY <1>1, <1>11 DEF ProbeThread, ProbeLine, ProbePut, ProbeTrigger, ProbeTrace,
       NativeCancel
  <2> QED BY <1>6, <1>11, <2>1 DEF ProbeThread, ProbeLine, ProbePut, ProbeTrigger, ProbeTrace,
       NativeCancel
<1>12. CASE IngressGet
  <2>1. \A t \in EgressFifos : fifo'[t] = fifo[t]
    BY <1>1, <1>2, <1>12 DEF IngressGet
  <2> QED BY <1>6, <1>12, <2>1 DEF IngressGet
<1>13. CASE IngressWait \/ IngressRead \/ IngressTrigger \/ IngressFree
  BY <1>6, <1>13 DEF IngressWait, IngressRead, IngressTrigger, IngressFree
<1>14. CASE EgressWait \/ EgressRead \/ EgressTrace
  BY <1>6, <1>14 DEF EgressWait, EgressRead, EgressTrace
<1>15. CASE UNCHANGED vars
  BY <1>6, <1>15 DEF vars
<1> QED
  BY <1>7, <1>8, <1>9, <1>10, <1>11, <1>12, <1>13, <1>14, <1>15
     DEF Next, IngressMain, EgressMain

-----------------------------------------------------------------------------
(* Ownership. *)
(* The holder of a line's buffer is the same before and after a step, unless *)
(* the step makes or frees the buffer.                                       *)
LEMMA LineOwnerStep ==
  ASSUME TypeInv, ProbeFifos, [Next]_vars,
         \A l \in Lines : HoldsLine(l) => dataStr[l] = "live",
         \A l \in Lines : dataStr[l] = "live" => HoldsLine(l) \/ Kind[l] = "partial"
  PROVE  \A l \in Lines : /\ HoldsLine(l)' => dataStr'[l] = "live"
                          /\ dataStr'[l] = "live" => HoldsLine(l)' \/ Kind[l] = "partial"
<1> USE DEF config, probeVars, ingressVars, egressVars, sinks
<1> DEFINE Kept == \A l \in Lines : /\ HoldsLine(l)' => dataStr'[l] = "live"
                                    /\ dataStr'[l] = "live" => HoldsLine(l)' \/ Kind[l] = "partial"
<1>1. /\ fifo \in [Fifos -> Seq(Lines)] /\ Probes \subseteq Fifos /\ EgressFifos \subseteq Fifos
      /\ Probes \cap EgressFifos = {} /\ dataStr \in [Lines -> {"none", "live", "freed"}]
      /\ pos \in [Probes -> Nat] /\ ppc \in [Probes -> {"read", "put", "trigger", "trace"}]
  BY OutputAssumption DEF TypeInv, TypeOK, Fifos
<1>2. /\ ipc \in Held => iline \in Lines /\ ififo \in Probes
      /\ ipc = "get" => ififo \in Probes
      /\ ipc = "put" => itarget \in EgressFifos
      /\ epc = "get" => efifo \in EgressFifos
      /\ Held = {"process", "put", "trigger", "free"}
  BY DEF TypeInv, Control, Held
<1>3. \A p \in Probes : Range(fifo[p]) \subseteq Lines
  BY <1>1, RangeOfSeq
<1>4. \A q \in Probes : ppc[q] = "put" =>
        Line(q) \in Lines /\ Owner(Line(q)) = q /\ Idx(Line(q)) = pos[q]
  BY LinePlace
<1>5. \A q \in Probes : ppc[q] = "put" => \A l \in Lines : Handed(l) => l # Line(q)
  BY <1>4, HandedBeforePut, BeforeIrreflexive
<1>6. ASSUME \A l \in Lines : HoldsLine(l)' <=> HoldsLine(l), UNCHANGED dataStr
      PROVE  Kept
  BY <1>6
<1>7. ASSUME \A p \in Probes : Range(fifo'[p]) = Range(fifo[p]), UNCHANGED <<pos, ppc, dataStr>>,
             ipc' \in Held <=> ipc \in Held, ipc' \in Held => UNCHANGED iline
      PROVE  Kept
  <2>1. \A l \in Lines : HoldsLine(l)' <=> HoldsLine(l)
    BY <1>2, <1>7 DEF HoldsLine, Line
  <2> QED BY <1>6, <1>7, <2>1
<1>8. ASSUME NEW p \in Probes, ProbeLine(p)
      PROVE  Kept
  <2> PICK x : x = Line(p)
    OBVIOUS
  <2>0. x \in Lines /\ Owner(x) = p
    BY <1>8, PlaceOfLine DEF ProbeLine, Line, TypeInv, TypeOK, Control
  <2>1. /\ ppc[p] = "read" /\ UNCHANGED <<fifo, ipc, iline>>
        /\ \A q \in Probes \ {p} : pos'[q] = pos[q] /\ ppc'[q] = ppc[q]
        /\ \/ ppc' = ppc /\ dataStr' = dataStr
           \/ ppc' = ppc /\ Kind[x] = "partial" /\ dataStr' = [dataStr EXCEPT ![x] = "live"]
           \/ pos' = pos /\ ppc'[p] = "put" /\ dataStr' = [dataStr EXCEPT ![x] = "live"]
    BY <1>1, <1>8 DEF ProbeLine, Advance
  <2>2. \A q \in Probes \ {p} : Line(q)' = Line(q)
    BY <2>1 DEF Line
  <2>3. \A l \in Lines : HoldsLine(l) => HoldsLine(l)'
    BY <2>1, <2>2 DEF HoldsLine
  <2>4. ppc'[p] = "put" => Line(p)' = x
    BY <2>1 DEF Line
  <2>5. \A l \in Lines : HoldsLine(l)' => HoldsLine(l) \/ (l = x /\ ppc'[p] = "put")
    BY <2>1, <2>2, <2>4 DEF HoldsLine
  <2>6. ppc'[p] = "put" => HoldsLine(x)'
    BY <2>4 DEF HoldsLine
  <2> QED BY <1>1, <2>0, <2>1, <2>3, <2>5, <2>6
<1>9. ASSUME NEW p \in Probes, ProbePut(p)
      PROVE  Kept
  <2> PICK x : x = Line(p)
    OBVIOUS
  <2>1. /\ ppc[p] = "put" /\ UNCHANGED <<ipc, iline>>
        /\ \A q \in Probes \ {p} : pos'[q] = pos[q] /\ ppc'[q] = ppc[q]
    BY <1>1, <1>9 DEF ProbePut, Advance
  <2>2. x \in Lines /\ Owner(x) = p /\ \A l \in Lines : Handed(l) => l # x
    BY <1>4, <1>5, <2>1
  <2>3. \A q \in Probes \ {p} : Line(q)' = Line(q) /\ (ppc[q] = "put" => Line(q) # x)
    BY <1>4, <2>1, <2>2 DEF Line
  <2>4. CASE Full(p)
    <3>1. dataStr' = [dataStr EXCEPT ![x] = "freed"] /\ ppc'[p] = "read" /\ UNCHANGED fifo
      BY <1>1, <1>9, <2>4 DEF ProbePut
    <3>2. \A l \in Lines : l # x => (HoldsLine(l)' <=> HoldsLine(l))
      BY <2>1, <2>3, <3>1 DEF HoldsLine
    <3>3. ~HoldsLine(x)'
      BY <1>2, <1>3, <2>1, <2>2, <2>3, <3>1 DEF HoldsLine, ProbeFifos
    <3> QED BY <1>1, <2>2, <3>1, <3>2, <3>3
  <2>5. CASE ~Full(p)
    <3>1. fifo' = [fifo EXCEPT ![p] = Append(@, x)] /\ ppc'[p] = "trigger" /\ UNCHANGED dataStr
      BY <1>1, <1>9, <2>5 DEF ProbePut
    <3>2. Range(fifo'[p]) = Range(fifo[p]) \cup {x} /\ \A q \in Probes \ {p} : fifo'[q] = fifo[q]
      BY <1>1, <2>2, <3>1, AppendRange
    <3>3. \A l \in Lines : HoldsLine(l)' <=> HoldsLine(l)
      BY <2>1, <2>3, <3>1, <3>2 DEF HoldsLine
    <3> QED BY <1>6, <3>1, <3>3
  <2> QED BY <2>4, <2>5
<1>10. ASSUME NEW p \in Probes, ProbeTrigger(p) \/ ProbeTrace(p) \/ NativeCancel(p)
       PROVE  Kept
  <2>1. /\ ppc[p] # "put" /\ ppc'[p] # "put" /\ UNCHANGED <<ipc, iline, fifo, dataStr>>
        /\ \A q \in Probes \ {p} : pos'[q] = pos[q] /\ ppc'[q] = ppc[q]
    BY <1>1, <1>10 DEF ProbeTrigger, ProbeTrace, NativeCancel, Advance
  <2>2. \A q \in Probes \ {p} : Line(q)' = Line(q)
    BY <2>1 DEF Line
  <2>3. \A l \in Lines : HoldsLine(l)' <=> HoldsLine(l)
    BY <2>1, <2>2 DEF HoldsLine
  <2> QED BY <1>6, <2>1, <2>3
<1>11. CASE IngressGet
  <2>1. CASE fifo[ififo] = <<>>
    BY <1>2, <1>7, <1>11, <2>1 DEF IngressGet
  <2>2. CASE fifo[ififo] # <<>>
    <3>1. /\ iline' = Head(fifo[ififo]) /\ fifo' = [fifo EXCEPT ![ififo] = Tail(@)]
          /\ ififo \in Probes /\ ipc = "get" /\ ipc' = "process" /\ UNCHANGED <<pos, ppc, dataStr>>
      BY <1>2, <1>11, <2>2 DEF IngressGet
    <3>2. fifo'[ififo] = Tail(fifo[ififo]) /\ \A q \in Probes \ {ififo} : fifo'[q] = fifo[q]
      BY <1>1, <3>1
    <3>3. Range(fifo[ififo]) = Range(fifo'[ififo]) \cup {iline'}
      BY <1>1, <2>2, <3>1, <3>2, TailRange
    <3>4. \A l \in Lines : HoldsLine(l)' <=> HoldsLine(l)
      BY <3>1, <3>2, <3>3 DEF HoldsLine, Line
    <3> QED BY <1>6, <3>1, <3>4
  <2> QED BY <2>1, <2>2
<1>12. CASE IngressFree
  <2> PICK x : x = iline
    OBVIOUS
  <2>1. /\ ipc = "free" /\ ipc' = "get" /\ x \in Lines /\ UNCHANGED <<pos, ppc, fifo>>
        /\ dataStr' = [dataStr EXCEPT ![x] = "freed"]
    BY <1>2, <1>12 DEF IngressFree
  <2>2. \A l \in Lines : l # x => (HoldsLine(l)' <=> HoldsLine(l))
    BY <2>1 DEF HoldsLine, Line
  <2>3. Owner(x) = ififo /\ Handed(x) /\ x \notin Range(fifo[ififo])
    BY <1>2, <2>1, BeforeIrreflexive DEF ProbeFifos
  <2>4. ~HoldsLine(x)'
    <3>1. \A p \in Probes : x \notin Range(fifo[p])
      BY <2>3 DEF ProbeFifos
    <3>2. \A p \in Probes : ppc[p] = "put" => Line(p) # x
      BY <1>5, <2>1, <2>3
    <3> QED BY <2>1, <3>1, <3>2 DEF HoldsLine, Line
  <2> QED BY <1>1, <2>1, <2>2, <2>4
<1>13. CASE IngressWait \/ IngressRead \/ IngressTrigger
  BY <1>2, <1>7, <1>13 DEF IngressWait, IngressRead, IngressTrigger
<1>14. CASE ProcessDirty \/ ProcessOtelLogData \/ ProcessEventData \/ ProcessMetricData
  BY <1>2, <1>7, <1>14 DEF ProcessDirty, ProcessOtelLogData, ProcessEventData,
     ProcessMetricData, Processing, Converted, NotConverted
<1>15. CASE IngressPut
  <2>1. \A p \in Probes : fifo'[p] = fifo[p]
    BY <1>1, <1>2, <1>15 DEF IngressPut
  <2> QED BY <1>2, <1>7, <1>15, <2>1 DEF IngressPut
<1>16. CASE EgressGet
  <2>1. \A p \in Probes : fifo'[p] = fifo[p]
    BY <1>1, <1>2, <1>16 DEF EgressGet
  <2> QED BY <1>7, <1>16, <2>1 DEF EgressGet
<1>17. CASE EgressWait \/ EgressRead \/ KafkaMsgProduce \/ EgressTrace
  BY <1>7, <1>17 DEF EgressWait, EgressRead, KafkaMsgProduce, EgressTrace
<1>18. CASE UNCHANGED vars
  BY <1>7, <1>18 DEF vars
<1> QED
  BY <1>8, <1>9, <1>10, <1>11, <1>12, <1>13, <1>14, <1>15, <1>16, <1>17, <1>18
     DEF Next, ProbeThread, IngressMain, EgressMain

(* The holder of a message is the same before and after a step, unless the   *)
(* step makes it, frees it or gives it to librdkafka.                        *)
LEMMA JsonOwnerStep ==
  ASSUME TypeInv, Upstream, Messages, [Next]_vars,
         \A l \in Lines : HoldsJson(l) => json[l] = "live",
         \A l \in Lines : json[l] = "live" => HoldsJson(l)
  PROVE  \A l \in Lines : /\ HoldsJson(l)' => json'[l] = "live"
                          /\ json'[l] = "live" => HoldsJson(l)'
<1> USE DEF config, probeVars, ingressVars, egressVars, sinks
<1> DEFINE Kept == \A l \in Lines : /\ HoldsJson(l)' => json'[l] = "live"
                                    /\ json'[l] = "live" => HoldsJson(l)'
<1>1. /\ fifo \in [Fifos -> Seq(Lines)] /\ Probes \subseteq Fifos /\ EgressFifos \subseteq Fifos
      /\ Probes \cap EgressFifos = {} /\ json \in [Lines -> {"none", "live", "freed", "kafka"}]
  BY OutputAssumption DEF TypeInv, TypeOK, Fifos
<1>2. /\ ipc \in Held => iline \in Lines
      /\ ipc = "get" => ififo \in Probes
      /\ ipc = "put" => itarget \in EgressFifos
      /\ epc \in {"get", "produce", "trace"} => efifo \in EgressFifos
      /\ epc = "produce" => eline \in Lines
      /\ Held = {"process", "put", "trigger", "free"}
  BY DEF TypeInv, Control, Held
<1>3. ASSUME \A l \in Lines : HoldsJson(l)' <=> HoldsJson(l), UNCHANGED json
      PROVE  Kept
  BY <1>3
<1>4. ASSUME \A t \in EgressFifos : fifo'[t] = fifo[t], UNCHANGED json,
             ipc' = "put" <=> ipc = "put", ipc' = "put" => UNCHANGED iline,
             epc' = "produce" <=> epc = "produce", epc' = "produce" => UNCHANGED eline
      PROVE  Kept
  <2>1. \A l \in Lines : HoldsJson(l)' <=> HoldsJson(l)
    BY <1>4 DEF HoldsJson
  <2> QED BY <1>3, <1>4, <2>1
<1>5. CASE ProcessDirty \/ ProcessOtelLogData \/ ProcessEventData \/ ProcessMetricData
  <2> PICK x : x = iline
    OBVIOUS
  <2>1. /\ ipc = "process" /\ x \in Lines /\ UNCHANGED <<fifo, iline, epc, eline>>
        /\ \/ ipc' \in {"free", "process"} /\ UNCHANGED json
           \/ ipc' = "put" /\ json' = [json EXCEPT ![x] = "live"]
    BY <1>2, <1>5 DEF ProcessDirty, ProcessOtelLogData, ProcessEventData, ProcessMetricData,
       Processing, Converted, NotConverted
  <2>2. CASE ipc' # "put"
    BY <1>4, <2>1, <2>2
  <2>3. CASE ipc' = "put"
    <3>1. \A l \in Lines : HoldsJson(l)' <=> HoldsJson(l) \/ l = x
      BY <2>1, <2>3 DEF HoldsJson
    <3> QED BY <1>1, <2>1, <2>3, <3>1
  <2> QED BY <2>2, <2>3
<1>6. CASE IngressPut
  <2> PICK x, t : x = iline /\ t = itarget
    OBVIOUS
  <2>1. ipc = "put" /\ x \in Lines /\ t \in EgressFifos /\ UNCHANGED <<iline, epc, eline>>
    BY <1>2, <1>6 DEF IngressPut
  <2>2. CASE Full(itarget)
    <3>1. json' = [json EXCEPT ![x] = "freed"] /\ ipc' = "free" /\ UNCHANGED fifo
      BY <1>6, <2>2 DEF IngressPut
    <3>2. \A l \in Lines : l # x => (HoldsJson(l)' <=> HoldsJson(l))
      BY <2>1, <3>1 DEF HoldsJson
    <3>3. ~HoldsJson(x)'
      BY <2>1, <3>1 DEF HoldsJson, Messages
    <3> QED BY <1>1, <2>1, <3>1, <3>2, <3>3
  <2>3. CASE ~Full(itarget)
    <3>1. fifo' = [fifo EXCEPT ![t] = Append(@, x)] /\ ipc' = "trigger" /\ UNCHANGED json
      BY <1>6, <2>3 DEF IngressPut
    <3>2. /\ Range(fifo'[t]) = Range(fifo[t]) \cup {x}
          /\ \A u \in EgressFifos \ {t} : fifo'[u] = fifo[u]
      BY <1>1, <2>1, <3>1, AppendRange
    <3>3. \A l \in Lines : HoldsJson(l)' <=> HoldsJson(l)
      BY <2>1, <3>1, <3>2 DEF HoldsJson
    <3> QED BY <1>3, <3>1, <3>3
  <2> QED BY <2>2, <2>3
<1>7. CASE EgressGet
  <2>1. CASE fifo[efifo] = <<>>
    BY <1>4, <1>7, <2>1 DEF EgressGet
  <2>2. CASE fifo[efifo] # <<>>
    <3> PICK t : t = efifo
      OBVIOUS
    <3>1. /\ t \in EgressFifos /\ eline' = Head(fifo[t]) /\ fifo' = [fifo EXCEPT ![t] = Tail(@)]
          /\ epc = "get" /\ UNCHANGED <<json, ipc, iline>>
      BY <1>2, <1>7, <2>2 DEF EgressGet
    <3>2. fifo'[t] = Tail(fifo[t]) /\ \A u \in EgressFifos \ {t} : fifo'[u] = fifo[u]
      BY <1>1, <3>1
    <3>3. Range(fifo[t]) = Range(fifo'[t]) \cup {eline'}
      BY <1>1, <2>2, <3>1, <3>2, TailRange
    <3>4. Manager(t)
      BY <3>1, <3>3 DEF Messages
    <3>5. epc' = "produce"
      BY <1>7, <2>2, <3>1, <3>4 DEF EgressGet, Manager, EgressFifos
    <3>6. \A l \in Lines : HoldsJson(l)' <=> HoldsJson(l)
      BY <3>1, <3>2, <3>3, <3>5 DEF HoldsJson
    <3> QED BY <1>3, <3>1, <3>6
  <2> QED BY <2>1, <2>2
<1>8. CASE KafkaMsgProduce
  <2> PICK x : x = eline
    OBVIOUS
  <2>1. /\ epc = "produce" /\ x \in Lines /\ UNCHANGED <<fifo, ipc, iline, eline>>
        /\ \/ epc' = "produce" /\ UNCHANGED json
           \/ epc' # "produce" /\ json' = [json EXCEPT ![x] = "kafka"]
           \/ epc' # "produce" /\ json' = [json EXCEPT ![x] = "freed"]
    BY <1>2, <1>8 DEF KafkaMsgProduce, AfterProduce
  <2>2. CASE epc' = "produce"
    BY <1>4, <2>1, <2>2
  <2>3. CASE epc' # "produce"
    <3>1. \A l \in Lines : l # x => (HoldsJson(l)' <=> HoldsJson(l))
      BY <2>1, <2>3 DEF HoldsJson
    <3>2. efifo = Target(x) /\ \A l \in Range(fifo[efifo]) : Before(x, l)
      BY <2>1 DEF Messages
    <3>3. \A t \in EgressFifos : x \notin Range(fifo[t])
      BY <2>1, <3>2, BeforeIrreflexive DEF Messages
    <3>4. ~HoldsJson(x)'
      BY <2>1, <2>3, <3>3 DEF HoldsJson, Messages
    <3> QED BY <1>1, <2>1, <2>3, <3>1, <3>4
  <2> QED BY <2>1, <2>2, <2>3
<1>9. ASSUME NEW p \in Probes, ProbeThread(p)
      PROVE  Kept
  <2>1. \A t \in EgressFifos : fifo'[t] = fifo[t]
    BY <1>1, <1>9 DEF ProbeThread, ProbeLine, ProbePut, ProbeTrigger, ProbeTrace,
       NativeCancel
  <2> QED BY <1>4, <1>9, <2>1 DEF ProbeThread, ProbeLine, ProbePut, ProbeTrigger, ProbeTrace,
       NativeCancel
<1>10. CASE IngressGet
  <2>1. \A t \in EgressFifos : fifo'[t] = fifo[t]
    BY <1>1, <1>2, <1>10 DEF IngressGet
  <2> QED BY <1>4, <1>10, <2>1 DEF IngressGet
<1>11. CASE IngressWait \/ IngressRead \/ IngressTrigger \/ IngressFree
  BY <1>4, <1>11 DEF IngressWait, IngressRead, IngressTrigger, IngressFree
<1>12. CASE EgressWait \/ EgressRead \/ EgressTrace
  BY <1>4, <1>12 DEF EgressWait, EgressRead, EgressTrace
<1>13. CASE UNCHANGED vars
  BY <1>4, <1>13 DEF vars
<1> QED
  BY <1>5, <1>6, <1>7, <1>8, <1>9, <1>10, <1>11, <1>12, <1>13 DEF Next, IngressMain, EgressMain

-----------------------------------------------------------------------------
(* The theorems. *)

(* At the start all fifos are empty and there is no object. *)
LEMMA DataInit == Init => OrderInv /\ OwnershipInv /\ ReadNeverBlocks /\ NoLostWakeup
<1> SUFFICES ASSUME Init PROVE OrderInv /\ OwnershipInv /\ ReadNeverBlocks /\ NoLostWakeup
  OBVIOUS
<1>1. Range(<<>>) = {} /\ Ordered(<<>>)
  BY DEF Range, Ordered
<1>2. /\ \A f \in Fifos : fifo[f] = <<>>
      /\ \A t \in EgressFifos : kafka[t] = <<>> /\ t \in Fifos
      /\ \A p \in Probes : p \in Fifos
  BY DEF Init, Fifos
<1>3. ProbeFifos /\ Upstream /\ Messages
  BY <1>1, <1>2 DEF Init, ProbeFifos, Upstream, Messages, Held
<1>4. OwnershipInv
  BY <1>1, <1>2 DEF Init, OwnershipInv, Alive, NoLeak, HoldsLine, HoldsJson
<1>5. ReadNeverBlocks /\ NoLostWakeup
  BY <1>2 DEF Init, ReadNeverBlocks, NoLostWakeup
<1> QED BY <1>3, <1>4, <1>5 DEF OrderInv

(* The types, and what the program counters say of the locals. *)
LEMMA TypeInvHolds == Spec => []TypeInv
<1>1. TypeInv /\ [Next]_vars => TypeInv'
  BY TypeStep
<1> QED BY <1>1, TypeInit, PTL DEF Spec

(* Every variable of the data path keeps its type. *)
THEOREM DataPathTypeCorrect == Spec => []TypeOK
<1>1. TypeInv => TypeOK
  BY DEF TypeInv
<1> QED BY <1>1, TypeInvHolds, PTL

(* The read of an eventfd by IngressDataProcesssInput or its egress twin     *)
(* never blocks: each counter of the batch epoll_wait returned is positive   *)
(* until the loop reads it.                                                  *)
THEOREM ReadsNeverBlock == Spec => []ReadNeverBlocks
<1>1. Init => ReadNeverBlocks
  BY DataInit
<1>2. TypeInv /\ ReadNeverBlocks /\ [Next]_vars => ReadNeverBlocks'
  BY ReadStep
<1> QED BY <1>1, <1>2, TypeInvHolds, PTL DEF Spec

(* No wakeup is lost: a fifo that holds a line has a positive eventfd, a     *)
(* producer about to write it or a consumer that drains it, unless a native  *)
(* probe was cancelled between FifoPut and write.                            *)
THEOREM WakeupsAreKept == Spec => []NoLostWakeup
<1>1. Init => NoLostWakeup
  BY DataInit
<1>2. TypeInv /\ NoLostWakeup /\ [Next]_vars => NoLostWakeup'
  BY WakeupStep
<1> QED BY <1>1, <1>2, TypeInvHolds, PTL DEF Spec

(* Order and ownership need each other: an object is freed by its one        *)
(* holder because a line is before all lines behind it, and a message is     *)
(* appended behind the ones before it because it is still live.              *)
LEMMA DataInvHolds == Spec => [](TypeInv /\ OrderInv /\ OwnershipInv)
<1>1. Init => OrderInv /\ OwnershipInv
  BY DataInit
<1>2. ASSUME TypeInv, TypeInv', OrderInv, OwnershipInv, [Next]_vars
      PROVE  OrderInv' /\ OwnershipInv'
  <2>1. ProbeFifos'
    BY <1>2, ProbeFifosStep DEF OrderInv
  <2>2. Upstream'
    BY <1>2, UpstreamStep DEF OrderInv, OwnershipInv
  <2>3. Messages'
    BY <1>2, MessagesStep DEF OrderInv, OwnershipInv
  <2>4. \A l \in Lines : /\ HoldsLine(l)' => dataStr'[l] = "live"
                         /\ dataStr'[l] = "live" => HoldsLine(l)' \/ Kind[l] = "partial"
    BY <1>2, LineOwnerStep DEF OrderInv, OwnershipInv, Alive, NoLeak
  <2>5. \A l \in Lines : /\ HoldsJson(l)' => json'[l] = "live"
                         /\ json'[l] = "live" => HoldsJson(l)'
    BY <1>2, JsonOwnerStep DEF OrderInv, OwnershipInv, Alive, NoLeak
  <2>6. OwnershipInv'
    BY <2>4, <2>5 DEF OwnershipInv, Alive, NoLeak
  <2> QED BY <2>1, <2>2, <2>3, <2>6 DEF OrderInv
<1>3. TypeInv /\ TypeInv' /\ OrderInv /\ OwnershipInv /\ [Next]_vars => OrderInv' /\ OwnershipInv'
  BY <1>2
<1> QED BY <1>1, <1>3, TypeInvHolds, PTL DEF Spec

(* No line buffer and no message is used or freed after it was freed or      *)
(* given to librdkafka, whatever the number of probes and the sizes of the   *)
(* fifos; in a build with GOPHER_DEBUG, but for the two traces.              *)
THEOREM BuffersAreAlive == Spec => []NoUseAfterFree
<1>1. TypeInv /\ OwnershipInv => NoUseAfterFree
  BY DEF OwnershipInv, Alive, NoUseAfterFree, TypeInv, Control, TracesLine, TracesJson
<1> QED BY <1>1, DataInvHolds, PTL

(* No buffer and no message is forgotten, the buffers of lines without a     *)
(* newline excepted; egress never gets a message without a kafka manager.    *)
THEOREM BuffersAreFreed == Spec => []NoLeak
<1>1. OwnershipInv => NoLeak
  BY DEF OwnershipInv
<1> QED BY <1>1, DataInvHolds, PTL

(* The lines of a probe reach a topic in the order they were printed: drops  *)
(* at full fifos and failed produces leave gaps, never a swap or a repeat.   *)
THEOREM TopicsInOrder == Spec => []InOrder
<1>1. ASSUME TypeInv, Messages
      PROVE  InOrder
  <2> SUFFICES ASSUME NEW t \in EgressFifos, NEW p \in Probes,
                      NEW i \in 1 .. Len(kafka[t]), NEW j \in 1 .. Len(kafka[t]), i < j,
                      kafka[t][i] \in Range(Output[p]), kafka[t][j] \in Range(Output[p])
               PROVE  \E a, b \in 1 .. Len(Output[p]) :
                        a < b /\ Output[p][a] = kafka[t][i] /\ Output[p][b] = kafka[t][j]
    BY DEF InOrder
  <2>1. Before(kafka[t][i], kafka[t][j])
    BY <1>1 DEF Messages, Ordered
  <2>2. Range(Output[p]) = { Output[p][a] : a \in 1 .. Len(Output[p]) }
    BY OutputAssumption, RangeEquality
  <2>3. PICK a \in 1 .. Len(Output[p]) : Output[p][a] = kafka[t][i]
    BY <2>2
  <2>4. PICK b \in 1 .. Len(Output[p]) : Output[p][b] = kafka[t][j]
    BY <2>2
  <2>5. a < b
    BY <2>1, <2>3, <2>4, PlaceOfLine DEF Before
  <2> QED BY <2>3, <2>4, <2>5
<1>2. TypeInv /\ OrderInv => InOrder
  BY <1>1 DEF OrderInv
<1> QED BY <1>2, DataInvHolds, PTL

(* The NULL record of IMDB_Record2Json is met only where metrics go to       *)
(* kafka: with any other metric out_channel no line brings the daemon down.  *)
THEOREM OtherChannelsWork ==
  ASSUME \A s \in Settings : s[1] # "kafka"
  PROVE  Spec => []MetricChannelWorks
<1>1. Init => MetricChannelWorks
  BY DEF Init, MetricChannelWorks
<1>2. ASSUME TypeInv, MetricChannelWorks, [Next]_vars
      PROVE  MetricChannelWorks'
  <2>1. metricChnl # "kafka"
    BY <1>2 DEF TypeInv, TypeOK
  <2> QED
    BY <1>2, <2>1 DEF MetricChannelWorks, MetricKafka, Next, vars, ProbeThread, IngressMain,
       EgressMain, ProbeLine, ProbePut, ProbeTrigger, ProbeTrace, NativeCancel, IngressWait, IngressRead,
       IngressGet, ProcessDirty, ProcessOtelLogData, ProcessEventData, ProcessMetricData,
       IngressPut, IngressTrigger, IngressFree, EgressWait, EgressRead, EgressGet,
       KafkaMsgProduce, EgressTrace
<1>3. TypeInv /\ MetricChannelWorks /\ [Next]_vars => MetricChannelWorks'
  BY <1>2
<1> QED BY <1>1, <1>3, TypeInvHolds, PTL DEF Spec
===========================================================================
