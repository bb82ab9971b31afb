------------------------- MODULE MetricLogsProofs -------------------------
(***************************************************************************)
(* For every size of the queue, number of ids, batches, removals and        *)
(* restarts: no file is handed out twice, no batch is served twice, the     *)
(* METRICLOG thread ends only when files were removed, and writes that no   *)
(* scrape overlaps go to the current file and are served in order.          *)
(*                                                                          *)
(* The argument: the ids in use, in the queue, current and in the hands of  *)
(* the scraping client, are the ones given last, so there are at most       *)
(* QueSize + 1 of them; an id is given again only after IdMax + 1 others    *)
(* (IdInv). A file enters the queue only if it is missing and each missing  *)
(* file costs a removal (GoneInv). A batch is in one file, in the response  *)
(* being made or delivered (OnceInv); a file farther back holds earlier     *)
(* batches (OrderInv), where farther back is the distance from the next id, *)
(* as ids themselves wrap.                                                  *)
(***************************************************************************)
EXTENDS MetricLogs, SequenceTheorems, TLAPS

(* The ids in use are the ones given last: d = 1 is the current file, or the *)
(* newest of the queue.                                                      *)
Live == Used + (IF current = INVALID THEN 0 ELSE 1)
Back(d) == IF nextId >= d THEN nextId - d ELSE nextId - d + IdMax + 1

IdInv ==
  /\ current = INVALID => Used = 0
  /\ current # INVALID => current = Back(1)
  /\ \A k \in 0 .. Used - 1 : Slot(k) = Back(Live - k)
  /\ spc = "idle" <=> sfile = INVALID
  /\ sfile # INVALID => sfile = Back(Live + 1)

(* Every file in the queue was found missing by the writer, and so was the    *)
(* current one before it enters the queue: each cost one removal.            *)
GoneInv ==
  /\ wpc = "open" /\ current # INVALID => wfile = current
  /\ wpc = "next" => current \notin exists \/ current = INVALID
  /\ removals >= Used
  /\ wpc \notin {"name", "open"} /\ current \notin exists \cup {INVALID} => removals >= Used + 1
  /\ WriterSurvives

(* Without overlap the logger's file is the current one whenever a scrape    *)
(* can begin or a batch is logged.                                           *)
Writing == {"next", "name", "open", "log"}
ApartInv ==
  ~overlap =>
    /\ spc # "idle" => wpc \notin Writing
    /\ exists \subseteq Ids
    /\ wpc \in {"name", "open", "log"} => current # INVALID
    /\ wpc \notin {"name", "open"} /\ current # INVALID => appender = current
    /\ wpc = "open" => wfile = current

(* The newest batch that can be anywhere. *)
Newest == IF wpc \in Writing THEN batch - 1 ELSE batch

(* A batch is in one file, in the response being made or delivered; the file *)
(* a response was read from is removed before the response is sent.          *)
OnceInv ==
  /\ spc # "remove" => response = <<>>
  /\ \A b \in Range(delivered) : b <= Newest
  /\ \A b \in Range(response) : b <= Newest
  /\ \A f \in exists : \A b \in Range(content[f]) : b <= Newest
  /\ IsInjective(delivered) /\ IsInjective(response)
  /\ Range(delivered) \cap Range(response) = {}
  /\ \A f \in exists : IsInjective(content[f]) /\ Range(content[f]) \cap Range(delivered) = {}
  /\ \A f, g \in exists : f # g => Range(content[f]) \cap Range(content[g]) = {}
  /\ \A f \in exists : f # sfile => Range(content[f]) \cap Range(response) = {}

(* Without overlap the batches lie in the order of their files: what was     *)
(* delivered, then the response, then the files in use, oldest first.  The   *)
(* file to be opened next, and a removed one, have nothing to be served.     *)
Rising(s) == \A i, j \in 1 .. Len(s) : i < j => s[i] < s[j]
Below(s, t) == \A a \in Range(s), b \in Range(t) : a < b
Batches(d) == content[Back(d)]
First == IF current # INVALID /\ wpc \in {"name", "open"} THEN 2 ELSE 1
Last == IF spc = "open" THEN Live + 1 ELSE Live
OrderInv ==
  ~overlap =>
    /\ Rising(delivered)
    /\ \A d \in First .. Last : /\ Rising(Batches(d)) /\ Below(delivered, Batches(d))
                                /\ \A b \in Range(Batches(d)) : b <= Newest
    /\ \A d, e \in First .. Last : d > e => Below(Batches(d), Batches(e))
    /\ spc = "remove" =>
         /\ Rising(response) /\ Below(delivered, response)
         /\ \A d \in First .. Last : Below(response, Batches(d))

-----------------------------------------------------------------------------
(* Every variable keeps its type. *)

(* The id after the last one is the first. *)
LEMMA NextId ==
  ASSUME NEW i \in Ids
  PROVE  (IF i = IdMax THEN 0 ELSE i + 1) \in Ids
BY QueueAssumption DEF Ids

(* A slot is overwritten with a file id. *)
LEMMA SlotWritten ==
  ASSUME NEW q \in [0 .. QueSize - 1 -> Files], NEW i \in 0 .. QueSize - 1, NEW f \in Files
  PROVE  [q EXCEPT ![i] = f] \in [0 .. QueSize - 1 -> Files]
OBVIOUS

(* Division with remainder. *)
LEMMA DivMod ==
  ASSUME NEW a \in Int, NEW s \in Nat \ {0}
  PROVE  a = s * (a \div s) + (a % s) /\ a % s \in 0 .. s - 1 /\ a \div s \in Int
OBVIOUS

(* The types hold at the start. *)
LEMMA TypeInit == Init => TypeOK
<1> SUFFICES ASSUME Init PROVE TypeOK
  OBVIOUS
<1>1. <<>> \in Seq(Nat) /\ INVALID \in Files /\ 0 \in Files /\ 0 \in Ids
  BY EmptySeq, QueueAssumption DEF Files, Ids
<1>2. /\ queue = [i \in 0 .. QueSize - 1 |-> 0] /\ front = 0 /\ rear = 0
      /\ current = INVALID /\ nextId = 0
  BY DEF Init, EmptyQueue
<1> QED BY <1>1, <1>2, QueueAssumption, BoundsAssumption DEF Init, TypeOK

(* Every step keeps the types. *)
LEMMA TypeStep == TypeOK /\ [Next]_vars => TypeOK'
<1> SUFFICES ASSUME TypeOK, [Next]_vars
             PROVE  TypeOK'
  OBVIOUS
<1>2. rear % QueSize \in 0 .. QueSize - 1 /\ (front + 1) % QueSize \in 0 .. QueSize - 1
  <2>1. rear \in Int /\ front + 1 \in Int /\ QueSize \in Nat \ {0}
    BY QueueAssumption DEF TypeOK
  <2> QED BY <2>1, DivMod
<1> USE DEF TypeOK, queVars, diskVars, writerVars, scrapeVars, bounds
<1>1. /\ <<>> \in Seq(Nat) /\ INVALID \in Files /\ 0 \in Files /\ 0 \in Ids /\ 0 \in Nat
      /\ Ids \subseteq Files /\ QueSize \in Nat \ {0, 1} /\ 0 \in 0 .. QueSize - 1
      /\ [i \in 0 .. QueSize - 1 |-> 0] \in [0 .. QueSize - 1 -> Files]
  BY EmptySeq, QueueAssumption DEF Files, Ids
<1>3. CASE WriteCheck
  BY <1>3, BoundsAssumption DEF WriteCheck
<1>4. CASE NextFile
  <2>1. nextId' = nextId \/ nextId' = IF nextId = IdMax THEN 0 ELSE nextId + 1
    BY <1>4 DEF NextFile
  <2>2. nextId' \in Ids
    BY <2>1, NextId
  <2>3. current' \in Files
    BY <1>1, <1>4 DEF NextFile
  <2>4. \/ queue' = queue /\ rear' = rear
        \/ queue' = [queue EXCEPT ![rear % QueSize] = current] /\ rear' = rear + 1
    BY <1>4 DEF NextFile, EnQueue
  <2>5. queue' \in [0 .. QueSize - 1 -> Files]
    BY <1>2, <2>4, SlotWritten
  <2>6. rear' \in Nat
    BY <2>4
  <2> QED BY <1>4, <2>2, <2>3, <2>5, <2>6 DEF NextFile
<1>5. CASE NameFile
  BY <1>5 DEF NameFile
<1>6. CASE OpenFile
  BY <1>1, <1>6 DEF OpenFile
<1>7. CASE WriteLog
  <2>1. CASE appender = NoFile \/ orphan
    BY <1>7, <2>1 DEF WriteLog
  <2>2. CASE ~(appender = NoFile \/ orphan)
    <3>1. appender \in Files /\ content[appender] \in Seq(Nat) /\ batch \in Nat
      BY <2>2, BoundsAssumption
    <3>2. Append(content[appender], batch) \in Seq(Nat)
      BY <3>1, AppendProperties
    <3>3. content' \in [Files -> Seq(Nat)] /\ rolled' \in BOOLEAN
      BY <1>1, <1>7, <2>2, <3>1, <3>2 DEF WriteLog
    <3> QED BY <1>7, <3>3 DEF WriteLog
  <2> QED BY <2>1, <2>2
<1>8. CASE ScrapePop
  BY <1>1, <1>2, <1>8 DEF ScrapePop, DeQueue
<1>9. CASE ScrapeOpen
  BY <1>1, <1>9 DEF ScrapeOpen
<1>10. CASE ScrapeRemove
  <2>1. delivered' \in Seq(Nat)
    BY <1>10, ConcatProperties DEF ScrapeRemove
  <2> QED BY <1>1, <1>10, <2>1 DEF ScrapeRemove, Unlink
<1>11. CASE FileRemoved
  <2>1. exists' \subseteq Files /\ orphan' \in BOOLEAN
    BY <1>11 DEF FileRemoved, Unlink
  <2>2. removals' \in 0 .. MaxRemovals
    BY <1>11, BoundsAssumption DEF FileRemoved
  <2> QED BY <1>11, <2>1, <2>2 DEF FileRemoved
<1>12. CASE Restart
  <2>1. /\ queue' = [i \in 0 .. QueSize - 1 |-> 0] /\ front' = 0 /\ rear' = 0
        /\ current' = INVALID /\ nextId' = 0
    BY <1>12 DEF Restart, EmptyQueue
  <2>2. restarts' \in 0 .. MaxRestarts
    BY <1>12, BoundsAssumption DEF Restart
  <2> QED BY <1>1, <1>12, <2>1, <2>2 DEF Restart
<1>13. CASE UNCHANGED vars
  BY <1>13 DEF vars
<1> QED BY <1>3, <1>4, <1>5, <1>6, <1>7, <1>8, <1>9, <1>10, <1>11, <1>12, <1>13
        DEF Next, WriteMetricsLogs, WebRequestCallback

(* Every variable of the metric log files keeps its type. *)
THEOREM MetricLogsTypeCorrect == Spec => []TypeOK
BY TypeInit, TypeStep, PTL DEF Spec

-----------------------------------------------------------------------------
(* The circular queue. *)

(* What one wrap of an index does. *)
LEMMA ModOnce ==
  ASSUME NEW m \in Nat \ {0}, NEW a \in Int, -m <= a, a < 2 * m
  PROVE  a % m = IF a < 0 THEN a + m ELSE IF a < m THEN a ELSE a - m
OBVIOUS

(* The remainder is unique. *)
LEMMA ModUnique ==
  ASSUME NEW s \in Nat \ {0}, NEW q \in Int, NEW r \in 0 .. s - 1
  PROVE  (s * q + r) % s = r
OBVIOUS

(* Only the remainder of the first summand matters. *)
LEMMA ModShift ==
  ASSUME NEW s \in Nat \ {0}, NEW a \in Nat, NEW d \in Int
  PROVE  (a + d) % s = ((a % s) + d) % s
<1> DEFINE q == a \div s
           r == a % s
<1>1. a = s * q + r /\ r \in 0 .. s - 1 /\ q \in Int
  BY DivMod
<1> HIDE DEF q, r
<1> DEFINE c == r + d
           u == c \div s
           v == c % s
<1>2. c = s * u + v /\ v \in 0 .. s - 1 /\ u \in Int
  BY <1>1, DivMod
<1> HIDE DEF u, v
<1>3. a + d = s * (q + u) + v
  <2>1. s * (q + u) = s * q + s * u
    BY <1>1, <1>2
  <2>2. a + d = (s * q) + c
    BY <1>1
  <2> QED BY <1>1, <1>2, <2>1, <2>2
<1>4. (a + d) % s = v
  <2>1. q + u \in Int
    BY <1>1, <1>2
  <2>2. (s * (q + u) + v) % s = v
    BY <1>2, <2>1, ModUnique
  <2> QED BY <1>3, <2>2
<1> QED BY <1>4 DEF v, r

(* The k-th slot from the front, without a modulus. *)
At(a) == IF a < QueSize THEN a ELSE a - QueSize

(* How many files lie between the two indices. *)
LEMMA Distance ==
  ASSUME NEW x \in Nat, NEW f \in 0 .. QueSize - 1
  PROVE  /\ x % QueSize \in 0 .. QueSize - 1
         /\ (x - f) % QueSize = IF x % QueSize >= f THEN (x % QueSize) - f
                                ELSE (x % QueSize) - f + QueSize
<1> DEFINE r == x % QueSize
           c == r + (-f)
<1>1. QueSize \in Nat \ {0}
  BY QueueAssumption
<1>2. r \in 0 .. QueSize - 1
  BY <1>1, DivMod
<1>3. (x - f) % QueSize = c % QueSize
  <2>1. -f \in Int /\ x - f = x + (-f)
    OBVIOUS
  <2> QED BY <1>1, <2>1, ModShift
<1> HIDE DEF r
<1>4. c \in Int /\ -QueSize <= c /\ c < QueSize /\ c < 2 * QueSize /\ c = r - f
  BY <1>1, <1>2
<1> HIDE DEF c
<1>5. c % QueSize = IF c < 0 THEN c + QueSize ELSE IF c < QueSize THEN c ELSE c - QueSize
  BY <1>1, <1>4, ModOnce
<1>6. (x - f) % QueSize = IF r >= f THEN r - f ELSE r - f + QueSize
  BY <1>1, <1>2, <1>3, <1>4, <1>5
<1> QED BY <1>2, <1>6 DEF r

(* A distance in the ring is smaller than the ring. *)
LEMMA DistanceRange ==
  ASSUME NEW x \in Nat, NEW f \in 0 .. QueSize - 1
  PROVE  (x - f) % QueSize \in 0 .. QueSize - 1
BY QueueAssumption, DivMod

(* How many files are in the queue. *)
LEMMA UsedIs ==
  ASSUME TypeOK
  PROVE  /\ rear % QueSize \in 0 .. QueSize - 1
         /\ Used = IF rear % QueSize >= front THEN (rear % QueSize) - front
                   ELSE (rear % QueSize) - front + QueSize
         /\ Used \in 0 .. QueSize - 1
<1> DEFINE r == rear % QueSize
<1>1. /\ QueSize \in Nat \ {0} /\ front \in 0 .. QueSize - 1 /\ r \in 0 .. QueSize - 1
      /\ Used = IF r >= front THEN r - front ELSE r - front + QueSize
  BY QueueAssumption, Distance DEF TypeOK, Used
<1> HIDE DEF r
<1>2. Used \in 0 .. QueSize - 1
  BY <1>1
<1> QED BY <1>1, <1>2 DEF r

(* A slot of the ring after at most one wrap. *)
LEMMA SlotIs ==
  ASSUME NEW q, NEW f \in 0 .. QueSize - 1, NEW k \in 0 .. QueSize - 1
  PROVE  q[(f + k) % QueSize] = q[At(f + k)]
<1>1. QueSize \in Nat \ {0} /\ f + k \in Int /\ -QueSize <= f + k /\ f + k < 2 * QueSize
      /\ ~(f + k < 0)
  BY QueueAssumption
<1>2. (f + k) % QueSize = At(f + k)
  BY <1>1, ModOnce DEF At
<1> QED BY <1>2

(* Where the rear moves to. *)
LEMMA RearNext ==
  ASSUME TypeOK
  PROVE  (rear + 1) % QueSize = IF rear % QueSize = QueSize - 1 THEN 0 ELSE (rear % QueSize) + 1
<1> DEFINE r == rear % QueSize
<1>1. QueSize \in Nat \ {0} /\ rear \in Nat /\ 1 \in Int
  BY QueueAssumption DEF TypeOK
<1>2. r \in 0 .. QueSize - 1
  BY <1>1, DivMod
<1> DEFINE c == r + 1
<1>3. (rear + 1) % QueSize = c % QueSize
  BY <1>1, ModShift
<1> HIDE DEF r
<1>4. c \in Int /\ -QueSize <= c /\ c < 2 * QueSize /\ ~(c < 0) /\ c = r + 1
  BY <1>1, <1>2, QueueAssumption
<1> HIDE DEF c
<1>5. c % QueSize = IF c < QueSize THEN c ELSE c - QueSize
  BY <1>1, <1>4, ModOnce
<1>6. (rear + 1) % QueSize = IF r = QueSize - 1 THEN 0 ELSE r + 1
  BY <1>1, <1>2, <1>3, <1>4, <1>5
<1> QED BY <1>6 DEF r

(* is_empty_queue and is_full_queue say what their names say; one slot is    *)
(* never used.                                                               *)
LEMMA EmptyAndFull ==
  ASSUME TypeOK
  PROVE  (IsEmptyQueue <=> Used = 0) /\ (IsFullQueue <=> Used = QueSize - 1)
<1> DEFINE r == rear % QueSize
<1>1. /\ r \in 0 .. QueSize - 1 /\ QueSize \in Nat \ {0, 1} /\ front \in 0 .. QueSize - 1
      /\ Used = IF r >= front THEN r - front ELSE r - front + QueSize
      /\ (rear + 1) % QueSize = IF r = QueSize - 1 THEN 0 ELSE r + 1
  BY UsedIs, RearNext, QueueAssumption DEF TypeOK
<1> HIDE DEF r
<1>2. r = front <=> Used = 0
  BY <1>1
<1>3. (rear + 1) % QueSize = front <=> Used = QueSize - 1
  BY <1>1
<1> QED BY <1>2, <1>3 DEF r, IsEmptyQueue, IsFullQueue

(* en_queue adds a file behind the others. *)
LEMMA EnQueueEffect ==
  ASSUME TypeOK, TypeOK', ~IsFullQueue, NEW id \in Files, EnQueue(id), front' = front
  PROVE  /\ Used' = Used + 1
         /\ \A k \in 0 .. QueSize - 1 : Slot(k)' = IF k = Used THEN id ELSE Slot(k)
<1> DEFINE r == rear % QueSize
           rr == (rear + 1) % QueSize
<1>1. /\ r \in 0 .. QueSize - 1 /\ QueSize \in Nat \ {0, 1} /\ front \in 0 .. QueSize - 1
      /\ Used = IF r >= front THEN r - front ELSE r - front + QueSize
      /\ rr = IF r = QueSize - 1 THEN 0 ELSE r + 1
  BY UsedIs, RearNext, QueueAssumption DEF TypeOK
<1>2. Used' = IF rr >= front THEN rr - front ELSE rr - front + QueSize
  <2>1. Used' = IF rear' % QueSize >= front' THEN (rear' % QueSize) - front'
                ELSE (rear' % QueSize) - front' + QueSize
    BY Distance DEF Used, TypeOK
  <2> QED BY <2>1 DEF EnQueue
<1>3. queue' = [queue EXCEPT ![r] = id] /\ queue \in [0 .. QueSize - 1 -> Files]
  BY DEF EnQueue, TypeOK
<1>4. rr # front
  BY DEF IsFullQueue
<1> HIDE DEF r, rr
<1>5. Used' = Used + 1
  BY <1>1, <1>2, <1>4
<1>6. ASSUME NEW k \in 0 .. QueSize - 1
      PROVE  Slot(k)' = IF k = Used THEN id ELSE Slot(k)
  <2>1. At(front + k) \in 0 .. QueSize - 1 /\ (At(front + k) = r <=> k = Used)
    BY <1>1 DEF At
  <2>2. Slot(k) = queue[At(front + k)]
    BY <1>1, SlotIs DEF Slot
  <2>3. Slot(k)' = queue'[At(front + k)]
    BY <1>1, SlotIs DEF Slot
  <2> QED BY <1>3, <2>1, <2>2, <2>3
<1> QED BY <1>5, <1>6

(* de_queue takes the oldest file. *)
LEMMA DeQueueEffect ==
  ASSUME TypeOK, TypeOK', ~IsEmptyQueue, DeQueue, rear' = rear
  PROVE  /\ Used' = Used - 1 /\ Used > 0 /\ sfile' = Slot(0)
         /\ \A k \in 0 .. Used - 2 : Slot(k)' = Slot(k + 1)
<1> DEFINE r == rear % QueSize
<1>1. /\ r \in 0 .. QueSize - 1 /\ QueSize \in Nat \ {0, 1} /\ front \in 0 .. QueSize - 1
      /\ Used = IF r >= front THEN r - front ELSE r - front + QueSize
      /\ Used \in 0 .. QueSize - 1
  BY UsedIs, QueueAssumption DEF TypeOK
<1>2. front' = IF front = QueSize - 1 THEN 0 ELSE front + 1
  <2>1. (front + 1) % QueSize = At(front + 1)
    BY <1>1, ModOnce DEF At
  <2> QED BY <1>1, <2>1 DEF DeQueue, At
<1>3. Used' = IF r >= front' THEN r - front' ELSE r - front' + QueSize
  <2>1. Used' = IF rear' % QueSize >= front' THEN (rear' % QueSize) - front'
                ELSE (rear' % QueSize) - front' + QueSize
    BY Distance DEF Used, TypeOK
  <2> QED BY <2>1
<1>4. r # front
  BY DEF IsEmptyQueue
<1>5. sfile' = queue[front] /\ queue' = [queue EXCEPT ![front] = INVALID]
      /\ queue \in [0 .. QueSize - 1 -> Files]
  BY DEF DeQueue, TypeOK
<1> HIDE DEF r
<1>6. Used' = Used - 1 /\ Used > 0
  BY <1>1, <1>2, <1>3, <1>4
<1>7. sfile' = Slot(0)
  <2>1. At(front + 0) = front /\ 0 \in 0 .. QueSize - 1
    BY <1>1 DEF At
  <2>2. Slot(0) = queue[At(front + 0)]
    BY <1>1, <2>1, SlotIs DEF Slot
  <2> QED BY <1>5, <2>1, <2>2
<1>8. ASSUME NEW k \in 0 .. Used - 2
      PROVE  Slot(k)' = Slot(k + 1)
  <2>1. k \in 0 .. QueSize - 1 /\ k + 1 \in 0 .. QueSize - 1
    BY <1>1
  <2>2. /\ front' \in 0 .. QueSize - 1 /\ At(front' + k) = At(front + (k + 1))
        /\ At(front' + k) \in 0 .. QueSize - 1 /\ At(front' + k) # front
    BY <1>1, <1>2, <2>1 DEF At
  <2>3. Slot(k + 1) = queue[At(front + (k + 1))]
    BY <1>1, <2>1, SlotIs DEF Slot
  <2>4. Slot(k)' = queue'[At(front' + k)]
    BY <2>1, <2>2, SlotIs DEF Slot
  <2> QED BY <1>5, <2>2, <2>3, <2>4
<1> QED BY <1>6, <1>7, <1>8

-----------------------------------------------------------------------------
(* The ids in use. *)

(* Counting back from the next id gives an id. *)
LEMMA BackIsId ==
  ASSUME TypeOK, NEW d \in 0 .. IdMax + 1
  PROVE  Back(d) \in Ids
BY QueueAssumption DEF TypeOK, Back, Ids

(* Ids repeat only after all have been given. *)
LEMMA BackDistinct ==
  ASSUME TypeOK, NEW d \in 1 .. IdMax + 1, NEW e \in 1 .. IdMax + 1, d # e
  PROVE  Back(d) # Back(e)
BY QueueAssumption DEF TypeOK, Back, Ids

(* Taking a new id makes every other one an id older. *)
LEMMA BackShift ==
  ASSUME TypeOK, nextId' = IF nextId = IdMax THEN 0 ELSE nextId + 1, NEW d \in 0 .. IdMax
  PROVE  Back(d + 1)' = Back(d)
BY QueueAssumption DEF TypeOK, Back, Ids

(* Arithmetic. *)
LEMMA AddZero == \A x \in Int : x + 0 = x
OBVIOUS

(* How many ids are in use. *)
LEMMA LiveIs ==
  ASSUME TypeOK
  PROVE  /\ Used \in 0 .. QueSize - 1 /\ Live \in 0 .. QueSize
         /\ Live = IF current = INVALID THEN Used ELSE Used + 1
         /\ QueSize \in Nat \ {0, 1} /\ IdMax \in Nat /\ QueSize <= IdMax
<1>1. Used \in 0 .. QueSize - 1 /\ QueSize \in Nat \ {0, 1} /\ IdMax \in Nat /\ QueSize <= IdMax
  BY UsedIs, QueueAssumption
<1> QED BY <1>1 DEF Live

(* Every step keeps the ids in use the ones given last. *)
LEMMA IdStep ==
  ASSUME TypeOK, TypeOK', IdInv, [Next]_vars
  PROVE  IdInv'
<1> USE DEF queVars, diskVars, writerVars, scrapeVars, bounds
<1>1. /\ Used \in 0 .. QueSize - 1 /\ Live \in 0 .. QueSize
      /\ Live = IF current = INVALID THEN Used ELSE Used + 1
      /\ QueSize \in Nat \ {0, 1} /\ IdMax \in Nat /\ QueSize <= IdMax
      /\ current \in Files /\ sfile \in Files
  BY LiveIs DEF TypeOK
<1>2. Used' \in 0 .. QueSize - 1 /\ Live' = IF current' = INVALID THEN Used' ELSE Used' + 1
  <2>1. Used' \in 0 .. QueSize - 1
    BY DistanceRange DEF TypeOK, Used
  <2>2. CASE current' = INVALID
    <3>1. Live' = Used' + 0 /\ Used' \in Int
      BY <1>1, <2>1, <2>2 DEF Live, INVALID
    <3>2. Live' = Used'
      BY <3>1, AddZero
    <3> QED BY <2>1, <2>2, <3>2
  <2>3. CASE current' # INVALID
    BY <1>1, <2>1, <2>3 DEF Live, INVALID
  <2> QED BY <2>1, <2>2, <2>3
<1>3. ASSUME UNCHANGED <<queVars, spc, sfile>>
      PROVE  IdInv'
  BY <1>3 DEF IdInv, Live, Used, Slot, Back
<1>4. CASE NextFile
  <2>1. CASE current # INVALID /\ IsFullQueue
    BY <1>3, <1>4, <2>1 DEF NextFile
  <2>2. CASE ~(current # INVALID /\ IsFullQueue)
    <3>1. /\ current' = nextId /\ nextId' = IF nextId = IdMax THEN 0 ELSE nextId + 1
          /\ UNCHANGED <<front, spc, sfile>> /\ nextId \in Ids /\ nextId # INVALID
      BY <1>4, <2>2, QueueAssumption DEF NextFile, TypeOK, Ids, INVALID
    <3>2. \A d \in 0 .. IdMax : Back(d + 1)' = Back(d)
      BY <3>1, BackShift
    <3>3. Back(0) = nextId
      BY <3>1 DEF Back, Ids
    <3>4. current' = Back(1)'
      BY <1>1, <3>1, <3>2, <3>3
    <3>5. CASE current = INVALID
      <4>1. Used = 0 /\ Used' = 0 /\ Live = 0 /\ Live' = 1
        BY <1>1, <1>2, <1>4, <3>1, <3>5 DEF NextFile, Used, IdInv
      <4>2. sfile' # INVALID => sfile' = Back(2)'
        BY <1>1, <3>1, <3>2, <4>1 DEF IdInv
      <4> QED BY <3>1, <3>4, <4>1, <4>2 DEF IdInv
    <3>6. CASE current # INVALID
      <4> PICK u, v : u = Used /\ v = Live
        OBVIOUS
      <4>1. EnQueue(current) /\ ~IsFullQueue
        BY <1>4, <2>2, <3>6 DEF NextFile
      <4>2. /\ Used' = u + 1
            /\ \A k \in 0 .. QueSize - 1 : Slot(k)' = IF k = u THEN current ELSE Slot(k)
        BY <1>1, <3>1, <4>1, EnQueueEffect
      <4>3. u \in 0 .. QueSize - 1 /\ u + 1 <= QueSize - 1
        BY <1>1, <4>1, EmptyAndFull
      <4>4. v = u + 1 /\ Live' = v + 1
        BY <1>1, <1>2, <3>1, <3>6, <4>2
      <4>5. ASSUME NEW k \in 0 .. u
            PROVE  Slot(k)' = Back(v - k)
        BY <1>1, <3>6, <4>2, <4>3, <4>4, <4>5 DEF IdInv
      <4>6. ASSUME NEW k \in 0 .. u
            PROVE  Slot(k)' = Back((v + 1) - k)'
        <5>1. v - k \in 0 .. IdMax /\ (v + 1) - k = (v - k) + 1
          BY <1>1, <4>3, <4>4
        <5>2. Back((v - k) + 1)' = Back(v - k)
          BY <3>2, <5>1
        <5> QED BY <4>5, <5>1, <5>2
      <4>7. sfile' # INVALID => sfile' = Back(v + 2)'
        <5>1. v + 1 \in 0 .. IdMax /\ (v + 1) + 1 = v + 2
          BY <1>1, <4>3, <4>4
        <5>2. Back((v + 1) + 1)' = Back(v + 1)
          BY <3>2, <5>1
        <5> QED BY <3>1, <5>1, <5>2 DEF IdInv
      <4>8. \A k \in 0 .. Used' - 1 : Slot(k)' = Back(Live - k)'
        BY <4>2, <4>3, <4>4, <4>6
      <4>9. sfile' # INVALID => sfile' = Back(Live + 1)'
        BY <4>3, <4>4, <4>7
      <4> QED BY <3>1, <3>4, <4>8, <4>9 DEF IdInv
    <3> QED BY <3>5, <3>6
  <2> QED BY <2>1, <2>2
<1>5. CASE ScrapePop
  <2>1. UNCHANGED <<rear, nextId>> /\ spc = "idle"
        /\ spc' = IF sfile' = INVALID THEN "idle" ELSE "open"
    BY <1>5 DEF ScrapePop
  <2>2. \A d : Back(d)' = Back(d)
    BY <2>1 DEF Back
  <2>3. CASE IsEmptyQueue
    <3>1. sfile' = current /\ current' = INVALID /\ UNCHANGED <<queue, front>> /\ Used = 0
      BY <1>5, <2>3, EmptyAndFull DEF ScrapePop
    <3>2. Used' = 0 /\ Live' = 0 /\ (current # INVALID => Live = 1)
      BY <1>1, <1>2, <2>1, <3>1 DEF Used
    <3> QED BY <2>1, <2>2, <3>1, <3>2 DEF IdInv
  <2>4. CASE ~IsEmptyQueue
    <3> PICK u, v : u = Used /\ v = Live
      OBVIOUS
    <3>1. DeQueue /\ UNCHANGED current
      BY <1>5, <2>4 DEF ScrapePop
    <3>2. /\ Used' = u - 1 /\ u > 0 /\ sfile' = Slot(0)
          /\ \A k \in 0 .. u - 2 : Slot(k)' = Slot(k + 1)
      BY <2>1, <2>4, <3>1, DeQueueEffect
    <3>3. u \in 0 .. QueSize - 1 /\ v \in 0 .. QueSize /\ Live' = v - 1 /\ current # INVALID
          /\ v = u + 1
      BY <1>1, <1>2, <3>1, <3>2 DEF IdInv
    <3>4. sfile' = Back(v)
      BY <3>2, <3>3 DEF IdInv
    <3>5. ASSUME NEW k \in 0 .. u - 2
          PROVE  Slot(k)' = Back((v - 1) - k)
      <4>1. k + 1 \in 0 .. u - 1 /\ v - (k + 1) = (v - 1) - k
        BY <3>3
      <4>2. Slot(k + 1) = Back(v - (k + 1))
        BY <4>1 DEF IdInv
      <4> QED BY <3>2, <4>1, <4>2
    <3>6. Back(v) # INVALID
      BY <1>1, <3>3, BackIsId DEF Ids, INVALID
    <3>7. \A k \in 0 .. Used' - 1 : Slot(k)' = Back(Live - k)'
      BY <2>2, <3>2, <3>3, <3>5
    <3>8. sfile' = Back(Live + 1)'
      BY <2>2, <3>3, <3>4
    <3> QED BY <2>1, <2>2, <3>1, <3>3, <3>4, <3>6, <3>7, <3>8 DEF IdInv
  <2> QED BY <2>3, <2>4
<1>6. CASE ScrapeOpen \/ ScrapeRemove
  <2>1. /\ UNCHANGED queVars /\ spc # "idle"
        /\ \/ sfile' = sfile /\ spc' # "idle"
           \/ sfile' = INVALID /\ spc' = "idle"
    BY <1>6 DEF ScrapeOpen, ScrapeRemove
  <2> QED BY <2>1 DEF IdInv, Live, Used, Slot, Back
<1>7. CASE Restart
  <2>1. current' = INVALID /\ front' = 0 /\ rear' = 0 /\ spc' = "idle" /\ sfile' = INVALID
    BY <1>7 DEF Restart, EmptyQueue
  <2>2. Used' = 0
    BY <1>1, <2>1, ModOnce DEF Used
  <2> QED BY <2>1, <2>2 DEF IdInv
<1>8. CASE WriteCheck \/ NameFile \/ OpenFile \/ WriteLog \/ FileRemoved
  BY <1>3, <1>8 DEF WriteCheck, NameFile, OpenFile, WriteLog, FileRemoved
<1>9. CASE UNCHANGED vars
  BY <1>3, <1>9 DEF vars
<1> QED BY <1>4, <1>5, <1>6, <1>7, <1>8, <1>9 DEF Next, WriteMetricsLogs, WebRequestCallback

(* No id is in use at the start. *)
LEMMA IdInit == Init => IdInv
<1> SUFFICES ASSUME Init PROVE IdInv
  OBVIOUS
<1>1. current = INVALID /\ front = 0 /\ rear = 0 /\ spc = "idle" /\ sfile = INVALID
  BY DEF Init, EmptyQueue
<1>2. Used = 0
  BY <1>1, QueueAssumption, ModOnce DEF Used
<1> QED BY <1>1, <1>2 DEF IdInv

(* The ids of the queue, the current one and the one a scrape holds are the  *)
(* last ones given; there are at most QueSize + 1 of them and ids repeat     *)
(* only after IdMax + 1.                                                     *)
LEMMA IdsDiffer == TypeOK /\ IdInv => HandedOutOnce
<1> SUFFICES ASSUME TypeOK, IdInv PROVE HandedOutOnce
  OBVIOUS
<1>1. /\ Used \in 0 .. QueSize - 1 /\ Live \in 0 .. QueSize
      /\ Live = IF current = INVALID THEN Used ELSE Used + 1
      /\ QueSize \in Nat \ {0, 1} /\ IdMax \in Nat /\ QueSize <= IdMax
  BY LiveIs
<1>2. \A d \in 0 .. IdMax + 1 : Back(d) \in Ids
  BY BackIsId
<1>3. \A d, e \in 1 .. IdMax + 1 : d # e => Back(d) # Back(e)
  BY BackDistinct
<1>4. INVALID \notin Ids
  BY DEF Ids, INVALID
<1>5. ASSUME NEW k \in 0 .. Used - 1
      PROVE  Slot(k) \in Ids \ {current, sfile}
  <2>1. Slot(k) = Back(Live - k) /\ Live - k \in 1 .. IdMax + 1 /\ Live + 1 \in 1 .. IdMax + 1
    BY <1>1 DEF IdInv
  <2>2. Slot(k) \in Ids
    BY <1>1, <1>2, <2>1
  <2>3. Slot(k) # sfile
    <3>1. Live - k # Live + 1
      BY <1>1
    <3> QED BY <1>3, <1>4, <2>1, <2>2, <3>1 DEF IdInv
  <2>4. Slot(k) # current
    <3>1. current # INVALID => Live - k # 1
      BY <1>1
    <3> QED BY <1>1, <1>3, <1>4, <2>1, <2>2, <3>1 DEF IdInv
  <2> QED BY <2>2, <2>3, <2>4
<1>6. ASSUME NEW j \in 0 .. Used - 1, NEW k \in 0 .. Used - 1, j # k
      PROVE  Slot(j) # Slot(k)
  <2>1. /\ Slot(j) = Back(Live - j) /\ Live - j \in 1 .. IdMax + 1
        /\ Slot(k) = Back(Live - k) /\ Live - k \in 1 .. IdMax + 1 /\ Live - j # Live - k
    BY <1>1, <1>6 DEF IdInv
  <2> QED BY <1>3, <2>1
<1>7. current # INVALID => current # sfile
  <2>1. Live + 1 \in 1 .. IdMax + 1 /\ 1 \in 1 .. IdMax + 1 /\ (current # INVALID => Live + 1 # 1)
    BY <1>1
  <2> QED BY <1>3, <1>4, <2>1 DEF IdInv
<1> QED BY <1>5, <1>6, <1>7 DEF HandedOutOnce

(* The invariant of the ids, for every behaviour. *)
LEMMA IdInvHolds == Spec => [](TypeOK /\ IdInv)
<1>1. TypeOK /\ TypeOK' /\ IdInv /\ [Next]_vars => IdInv'
  BY IdStep
<1> QED BY <1>1, IdInit, MetricLogsTypeCorrect, PTL DEF Spec

(* No file is handed out twice: not by que_pop_file to two scrapes, and not  *)
(* as current file while it is still in the queue or with a scrape.          *)
THEOREM FilesHandedOutOnce == Spec => []HandedOutOnce
BY IdsDiffer, IdInvHolds, PTL

-----------------------------------------------------------------------------
(* How the METRICLOG thread ends. *)

(* Every step keeps the account of missing files. *)
LEMMA GoneStep ==
  ASSUME TypeOK, TypeOK', IdInv, GoneInv, [Next]_vars
  PROVE  GoneInv'
<1> USE DEF queVars, diskVars, writerVars, scrapeVars, bounds
<1>1. /\ Used \in 0 .. QueSize - 1 /\ removals \in Nat /\ QueSize \in Nat \ {0, 1}
      /\ current \in Files /\ exists \subseteq Files
  <2>1. removals \in 0 .. MaxRemovals /\ current \in Files /\ exists \subseteq Files
    BY DEF TypeOK
  <2>2. removals \in Nat
    BY <2>1
  <2> QED BY <2>1, <2>2, UsedIs, QueueAssumption
<1>2. UNCHANGED <<front, rear>> => Used' = Used
  BY DEF Used
<1>3. CASE WriteCheck
  BY <1>1, <1>2, <1>3 DEF WriteCheck, GoneInv, WriterSurvives
<1>4. CASE NextFile
  <2>1. CASE current # INVALID /\ IsFullQueue
    <3>1. Used = QueSize - 1 /\ UNCHANGED <<queVars, exists, removals>> /\ wpc' = "ended"
          /\ wpc = "next"
      BY <1>4, <2>1, EmptyAndFull DEF NextFile
    <3>2. removals >= Used + 1
      BY <2>1, <3>1 DEF GoneInv
    <3> QED BY <1>1, <1>2, <3>1, <3>2 DEF GoneInv, WriterSurvives
  <2>2. CASE current = INVALID
    <3>1. UNCHANGED <<front, rear, exists, removals>> /\ wpc' = "name"
      BY <1>4, <2>2 DEF NextFile
    <3> QED BY <1>2, <3>1 DEF GoneInv, WriterSurvives
  <2>3. CASE current # INVALID /\ ~IsFullQueue
    <3>1. /\ EnQueue(current) /\ UNCHANGED <<front, exists, removals>> /\ wpc' = "name"
          /\ wpc = "next"
      BY <1>4, <2>3 DEF NextFile
    <3>2. Used' = Used + 1
      BY <1>1, <2>3, <3>1, EnQueueEffect
    <3>3. removals >= Used + 1
      BY <2>3, <3>1 DEF GoneInv
    <3> QED BY <3>1, <3>2, <3>3 DEF GoneInv, WriterSurvives
  <2> QED BY <2>1, <2>2, <2>3
<1>5. CASE NameFile
  BY <1>2, <1>5 DEF NameFile, GoneInv, WriterSurvives
<1>6. CASE OpenFile
  BY <1>2, <1>6 DEF OpenFile, GoneInv, WriterSurvives
<1>7. CASE WriteLog
  BY <1>2, <1>7 DEF WriteLog, GoneInv, WriterSurvives
<1>8. CASE ScrapePop
  <2>1. UNCHANGED <<rear, exists, wpc, wfile, removals>>
    BY <1>8 DEF ScrapePop
  <2>2. CASE IsEmptyQueue
    <3>1. current' = INVALID /\ UNCHANGED front
      BY <1>8, <2>2 DEF ScrapePop
    <3> QED BY <1>2, <2>1, <3>1 DEF GoneInv, WriterSurvives, INVALID
  <2>3. CASE ~IsEmptyQueue
    <3>1. DeQueue /\ current' = current
      BY <1>8, <2>3 DEF ScrapePop
    <3>2. Used' = Used - 1
      BY <2>1, <2>3, <3>1, DeQueueEffect
    <3> QED BY <1>1, <2>1, <3>1, <3>2 DEF GoneInv, WriterSurvives
  <2> QED BY <2>2, <2>3
<1>9. CASE ScrapeOpen
  BY <1>2, <1>9 DEF ScrapeOpen, GoneInv, WriterSurvives
<1>10. CASE ScrapeRemove
  <2>1. current # INVALID => current # sfile
    BY IdsDiffer DEF HandedOutOnce
  <2>2. /\ exists' = exists \ {sfile}
        /\ UNCHANGED <<front, rear, current, wpc, wfile, removals>>
    BY <1>10 DEF ScrapeRemove, Unlink
  <2> QED BY <1>2, <2>1, <2>2 DEF GoneInv, WriterSurvives
<1>11. CASE FileRemoved
  <2>1. /\ removals' = removals + 1 /\ exists' \subseteq exists
        /\ UNCHANGED <<front, rear, current, wpc, wfile>>
    BY <1>11 DEF FileRemoved, Unlink
  <2> QED BY <1>1, <1>2, <2>1 DEF GoneInv, WriterSurvives
<1>12. CASE Restart
  <2>1. /\ current' = INVALID /\ front' = 0 /\ rear' = 0 /\ wpc' = "idle"
        /\ UNCHANGED <<exists, removals>>
    BY <1>12 DEF Restart, EmptyQueue
  <2>2. Used' = 0
    BY <1>1, <2>1, ModOnce DEF Used
  <2> QED BY <1>1, <2>1, <2>2 DEF GoneInv, WriterSurvives, INVALID
<1>13. CASE UNCHANGED vars
  BY <1>2, <1>13 DEF vars, GoneInv, WriterSurvives
<1> QED BY <1>3, <1>4, <1>5, <1>6, <1>7, <1>8, <1>9, <1>10, <1>11, <1>12, <1>13
        DEF Next, WriteMetricsLogs, WebRequestCallback

(* The METRICLOG thread is ended by the files only if at least QueSize of    *)
(* them were removed from outside: scrapes, rollovers and restarts never do. *)
THEOREM FilesNeverEndWriter == Spec => []WriterSurvives
<1>1. Init => GoneInv
  <2> SUFFICES ASSUME Init PROVE GoneInv
    OBVIOUS
  <2>1. /\ current = INVALID /\ front = 0 /\ rear = 0 /\ wpc = "idle" /\ removals = 0
    BY DEF Init, EmptyQueue
  <2>2. Used = 0
    BY <2>1, QueueAssumption, ModOnce DEF Used
  <2> QED BY <2>1, <2>2 DEF GoneInv, WriterSurvives
<1>2. TypeOK /\ TypeOK' /\ IdInv /\ GoneInv /\ [Next]_vars => GoneInv'
  BY GoneStep
<1>3. GoneInv => WriterSurvives
  BY DEF GoneInv
<1> QED BY <1>1, <1>2, <1>3, IdInvHolds, PTL DEF Spec

-----------------------------------------------------------------------------
(* Scrapes and writes that do not overlap. *)

(* Every step keeps the logger on the current file. *)
LEMMA ApartStep ==
  ASSUME TypeOK, TypeOK', ApartInv, [Next]_vars
  PROVE  ApartInv'
<1> USE DEF queVars, diskVars, writerVars, scrapeVars, bounds, Writing
<1>1. nextId \in Ids /\ current \in Files /\ INVALID \notin Ids /\ Files = Ids \cup {INVALID}
  BY DEF TypeOK, Ids, INVALID, Files
<1>2. CASE WriteCheck
  BY <1>1, <1>2 DEF WriteCheck, ApartInv
<1>3. CASE NextFile
  BY <1>1, <1>3 DEF NextFile, ApartInv
<1>4. CASE NameFile
  BY <1>4 DEF NameFile, ApartInv
<1>5. CASE OpenFile
  BY <1>1, <1>5 DEF OpenFile, ApartInv
<1>6. CASE WriteLog
  BY <1>6 DEF WriteLog, ApartInv
<1>7. CASE ScrapePop
  BY <1>7 DEF ScrapePop, ApartInv, INVALID
<1>8. CASE ScrapeOpen
  BY <1>8 DEF ScrapeOpen, ApartInv
<1>9. CASE ScrapeRemove
  BY <1>9 DEF ScrapeRemove, Unlink, ApartInv
<1>10. CASE FileRemoved
  BY <1>10 DEF FileRemoved, Unlink, ApartInv
<1>11. CASE Restart
  BY <1>11 DEF Restart, EmptyQueue, ApartInv, INVALID
<1>12. CASE UNCHANGED vars
  BY <1>12 DEF vars, ApartInv
<1> QED BY <1>2, <1>3, <1>4, <1>5, <1>6, <1>7, <1>8, <1>9, <1>10, <1>11, <1>12
        DEF Next, WriteMetricsLogs, WebRequestCallback

(* The invariant of writes without overlap, for every behaviour. *)
LEMMA ApartInvHolds == Spec => []ApartInv
<1>1. Init => ApartInv
  BY DEF Init, EmptyQueue, ApartInv, Writing
<1>2. TypeOK /\ TypeOK' /\ ApartInv /\ [Next]_vars => ApartInv'
  BY ApartStep
<1> QED BY <1>1, <1>2, MetricLogsTypeCorrect, PTL DEF Spec

(* Without overlap a batch is logged to the file the next scrape will find,  *)
(* never to none and never to the file of INVALID_FILE_ID.                   *)
THEOREM LoggedToCurrent == Spec => []LogsToCurrent
<1>1. TypeOK /\ ApartInv => LogsToCurrent
  BY DEF TypeOK, Files, ApartInv, LogsToCurrent
<1> QED BY <1>1, ApartInvHolds, MetricLogsTypeCorrect, PTL

-----------------------------------------------------------------------------
(* What is served. *)

(* What is in a list after an append. *)
LEMMA AppendRange ==
  ASSUME NEW s \in Seq(Nat), NEW x \in Nat
  PROVE  Append(s, x) \in Seq(Nat) /\ Range(Append(s, x)) = Range(s) \cup {x}
<1>1. <<x>> \in Seq(Nat) /\ Append(s, x) = s \o <<x>>
  BY AppendIsConcat
<1>2. Range(<<x>>) = {x}
  <2>1. Len(<<x>>) = 1 /\ <<x>>[1] = x /\ 1 .. 1 = {1}
    OBVIOUS
  <2>2. Range(<<x>>) = { <<x>>[i] : i \in 1 .. Len(<<x>>) }
    BY <1>1, RangeEquality
  <2> QED BY <2>1, <2>2
<1>3. Range(Append(s, x)) = Range(s) \cup Range(<<x>>)
  BY <1>1, RangeConcatenation
<1> QED BY <1>2, <1>3, AppendProperties

(* The elements of a list. *)
LEMMA Indices ==
  ASSUME NEW s \in Seq(Nat)
  PROVE  /\ Len(s) \in Nat /\ DOMAIN s = 1 .. Len(s)
         /\ \A i \in 1 .. Len(s) : s[i] \in Range(s) /\ s[i] \in Nat
         /\ Range(s) \subseteq Nat
<1>1. Len(s) \in Nat /\ DOMAIN s = 1 .. Len(s)
  BY LenProperties
<1>2. \A i \in 1 .. Len(s) : s[i] \in Range(s)
  BY <1>1 DEF Range
<1>3. Range(s) \subseteq Nat
  BY RangeOfSeq
<1> QED BY <1>1, <1>2, <1>3

(* A new element makes no duplicate. *)
LEMMA AppendInjection ==
  ASSUME NEW s \in Seq(Nat), NEW x \in Nat, IsInjective(s), x \notin Range(s)
  PROVE  IsInjective(Append(s, x))
<1> DEFINE a == Append(s, x)
<1>1. /\ a \in Seq(Nat) /\ Len(a) = Len(s) + 1 /\ a[Len(s) + 1] = x
      /\ \A i \in 1 .. Len(s) : a[i] = s[i]
  BY AppendProperties
<1> HIDE DEF a
<1>2. /\ DOMAIN a = 1 .. Len(s) + 1 /\ DOMAIN s = 1 .. Len(s) /\ Len(s) \in Nat
      /\ \A i \in 1 .. Len(s) : s[i] # x
  BY <1>1, Indices
<1>3. IsInjective(a)
  BY <1>1, <1>2 DEF IsInjective
<1> QED BY <1>3 DEF a

(* Lists without a common element make no duplicate. *)
LEMMA ConcatInjection ==
  ASSUME NEW s \in Seq(Nat), NEW t \in Seq(Nat), IsInjective(s), IsInjective(t),
         Range(s) \cap Range(t) = {}
  PROVE  IsInjective(s \o t)
<1> DEFINE c == s \o t
           m == Len(s)
           n == Len(t)
<1>1. /\ c \in Seq(Nat) /\ Len(c) = m + n
      /\ \A i \in 1 .. m + n : c[i] = IF i <= m THEN s[i] ELSE t[i - m]
  BY ConcatProperties
<1>2. /\ m \in Nat /\ n \in Nat /\ DOMAIN s = 1 .. m /\ DOMAIN t = 1 .. n
      /\ \A i \in 1 .. m : s[i] \in Range(s)
      /\ \A i \in 1 .. n : t[i] \in Range(t)
  BY Indices
<1> HIDE DEF c, m, n
<1>3. DOMAIN c = 1 .. m + n
  BY <1>1, Indices
<1>4. ASSUME NEW i \in 1 .. m + n, NEW j \in 1 .. m + n, c[i] = c[j]
      PROVE  i = j
  <2>1. CASE i <= m /\ j <= m
    <3>1. i \in 1 .. m /\ j \in 1 .. m /\ s[i] = s[j]
      BY <1>1, <1>2, <1>4, <2>1
    <3> QED BY <1>2, <3>1 DEF IsInjective
  <2>2. CASE i > m /\ j > m
    <3>1. i - m \in 1 .. n /\ j - m \in 1 .. n /\ t[i - m] = t[j - m]
      BY <1>1, <1>2, <1>4, <2>2
    <3>2. i - m = j - m
      BY <1>2, <3>1 DEF IsInjective
    <3> QED BY <1>2, <3>2
  <2>3. CASE i <= m /\ j > m
    <3>1. j - m \in 1 .. n /\ s[i] = t[j - m]
      BY <1>1, <1>2, <1>4, <2>3
    <3> QED BY <1>2, <2>3, <3>1
  <2>4. CASE i > m /\ j <= m
    <3>1. i - m \in 1 .. n /\ s[j] = t[i - m]
      BY <1>1, <1>2, <1>4, <2>4
    <3> QED BY <1>2, <2>4, <3>1
  <2> QED BY <1>2, <2>1, <2>2, <2>3, <2>4
<1>5. IsInjective(c)
  BY <1>3, <1>4 DEF IsInjective
<1> QED BY <1>5 DEF c

(* The empty list. *)
LEMMA EmptyFacts == Range(<<>>) = {} /\ IsInjective(<<>>)
BY DEF Range, IsInjective

(* The content of the logger's file after a write. *)
LEMMA WrittenIs ==
  ASSUME TypeOK, WriteLog
  PROVE  /\ wpc = "log" /\ wpc' = "idle" /\ UNCHANGED <<batch, exists, sfile, spc, response,
                                                        delivered>>
         /\ \/ UNCHANGED content
            \/ /\ appender \in Files
               /\ content' = [content EXCEPT ![appender] = <<>>]
            \/ /\ appender \in Files
               /\ content' = [content EXCEPT ![appender] = Append(content[appender], batch)]
BY DEF TypeOK, WriteLog, queVars, scrapeVars, bounds

(* Every step keeps a batch in one place. *)
LEMMA OnceStep ==
  ASSUME TypeOK, TypeOK', OnceInv, [Next]_vars
  PROVE  OnceInv'
<1> USE DEF queVars, diskVars, writerVars, scrapeVars, bounds
<1>1. /\ batch \in Nat /\ content \in [Files -> Seq(Nat)] /\ exists \subseteq Files
      /\ response \in Seq(Nat) /\ delivered \in Seq(Nat)
      /\ wpc \in {"idle", "next", "name", "open", "log", "ended"}
  <2>1. batch \in 0 .. MaxBatches
    BY DEF TypeOK
  <2>2. batch \in Nat
    BY <2>1
  <2> QED BY <2>2 DEF TypeOK
<1>2. /\ Newest \in Int /\ Range(delivered) \subseteq Nat /\ Range(response) \subseteq Nat
      /\ \A f \in exists : Range(content[f]) \subseteq Nat
  BY <1>1, Indices DEF Newest
<1>3. ASSUME UNCHANGED <<content, delivered, response>>, exists' \subseteq exists,
             sfile' = sfile \/ response = <<>>,
             spc' = "remove" <=> spc = "remove",
             Newest' \in Int, Newest <= Newest'
      PROVE  OnceInv'
  <2>1. \A b \in Nat : b <= Newest => b <= Newest'
    BY <1>2, <1>3
  <2> QED BY <1>2, <1>3, <2>1, EmptyFacts DEF OnceInv
<1>4. CASE WriteCheck
  <2>1. Newest' = Newest
    BY <1>1, <1>4 DEF WriteCheck, Newest, Writing
  <2> QED BY <1>2, <1>3, <1>4, <2>1 DEF WriteCheck
<1>5. CASE NextFile \/ NameFile
  <2>1. Newest' \in Int /\ Newest <= Newest'
    BY <1>1, <1>5 DEF NextFile, NameFile, Newest, Writing
  <2> QED BY <1>3, <1>5, <2>1 DEF NextFile, NameFile
<1>6. CASE OpenFile
  <2> PICK w \in Files : w = wfile
    BY DEF TypeOK
  <2>1. Newest' = Newest
    BY <1>6 DEF OpenFile, Newest, Writing
  <2>2. /\ exists' = exists \cup {w} /\ content' = [content EXCEPT ![w] = <<>>]
        /\ UNCHANGED <<delivered, response, sfile, spc>>
    BY <1>6 DEF OpenFile
  <2>3. /\ Range(content'[w]) = {} /\ IsInjective(content'[w])
        /\ \A f \in exists' : f # w => f \in exists /\ content'[f] = content[f]
    BY <1>1, <2>2, EmptyFacts
  <2> QED BY <2>1, <2>2, <2>3 DEF OnceInv
<1>7. CASE WriteLog
  <2> PICK x : x = appender
    OBVIOUS
  <2>1. /\ wpc = "log" /\ wpc' = "idle"
        /\ UNCHANGED <<batch, exists, sfile, spc, response, delivered>>
        /\ \/ UNCHANGED content
           \/ x \in Files /\ content' = [content EXCEPT ![x] = <<>>]
           \/ x \in Files /\ content' = [content EXCEPT ![x] = Append(content[x], batch)]
    BY <1>7, WrittenIs
  <2>2. Newest = batch - 1 /\ Newest' = batch
    BY <2>1 DEF Newest, Writing
  <2>3. \A b \in Nat : b <= Newest => b <= Newest' /\ b # batch
    BY <1>1, <2>2
  <2>4. CASE UNCHANGED content
    BY <1>1, <1>3, <2>1, <2>2, <2>4
  <2>5. CASE x \in Files /\ content' = [content EXCEPT ![x] = <<>>]
    <3>1. /\ Range(content'[x]) = {} /\ IsInjective(content'[x])
          /\ \A f \in exists : f # x => content'[f] = content[f]
      BY <1>1, <2>5, EmptyFacts
    <3> QED BY <1>2, <2>1, <2>3, <3>1 DEF OnceInv
  <2>6. CASE x \in Files /\ content' = [content EXCEPT ![x] = Append(content[x], batch)]
    <3>1. /\ content'[x] = Append(content[x], batch)
          /\ \A f \in exists : f # x => content'[f] = content[f]
      BY <1>1, <2>6
    <3>2. Range(content'[x]) = Range(content[x]) \cup {batch}
      BY <1>1, <2>6, <3>1, AppendRange
    <3>3. /\ batch \notin Range(delivered) /\ batch \notin Range(response)
          /\ \A f \in exists : batch \notin Range(content[f])
      BY <1>2, <2>3 DEF OnceInv
    <3>4. x \in exists => IsInjective(content'[x])
      BY <1>1, <2>6, <3>1, <3>3, AppendInjection DEF OnceInv
    <3>5. batch <= Newest'
      BY <1>1, <2>2
    <3>6. \A f \in exists : Range(content'[f]) \subseteq Range(content[f]) \cup {batch}
      BY <3>1, <3>2
    <3>7. \A f \in exists : \A b \in Range(content'[f]) : b <= Newest'
      <4> SUFFICES ASSUME NEW f \in exists, NEW b \in Range(content'[f])
                   PROVE  b <= Newest'
        OBVIOUS
      <4>1. b = batch \/ b \in Range(content[f])
        BY <3>6
      <4>2. CASE b \in Range(content[f])
        <5>1. b \in Nat /\ b <= Newest
          BY <1>2, <4>2 DEF OnceInv
        <5> QED BY <2>3, <5>1
      <4> QED BY <3>5, <4>1, <4>2
    <3>8. \A f, g \in exists : f # g => Range(content'[f]) \cap Range(content'[g]) = {}
      BY <3>1, <3>2, <3>3 DEF OnceInv
    <3>9. \A f \in exists : /\ IsInjective(content'[f])
                            /\ Range(content'[f]) \cap Range(delivered) = {}
                            /\ f # sfile => Range(content'[f]) \cap Range(response) = {}
      BY <3>1, <3>3, <3>4, <3>6 DEF OnceInv
    <3>10. /\ \A b \in Range(delivered) : b <= Newest'
           /\ \A b \in Range(response) : b <= Newest'
      BY <1>2, <2>3 DEF OnceInv
    <3> QED BY <2>1, <3>7, <3>8, <3>9, <3>10 DEF OnceInv
  <2> QED BY <2>1, <2>4, <2>5, <2>6
<1>8. CASE ScrapePop
  <2>1. spc = "idle" /\ spc' # "remove" /\ UNCHANGED <<content, delivered, response, exists, wpc,
                                                       batch>>
    BY <1>8 DEF ScrapePop
  <2>2. Newest' = Newest /\ response = <<>>
    BY <2>1 DEF Newest, OnceInv
  <2> QED BY <1>2, <1>3, <2>1, <2>2
<1>9. CASE ScrapeOpen
  <2>1. spc = "open" /\ UNCHANGED <<content, delivered, exists, wpc, batch>>
    BY <1>9 DEF ScrapeOpen
  <2>2. Newest' = Newest /\ response = <<>>
    BY <2>1 DEF Newest, OnceInv
  <2>3. CASE sfile \in exists
    <3>1. response' = content[sfile] /\ sfile' = sfile /\ spc' = "remove"
      BY <1>9, <2>3 DEF ScrapeOpen
    <3> QED BY <2>1, <2>2, <2>3, <3>1 DEF OnceInv
  <2>4. CASE sfile \notin exists
    <3>1. response' = response /\ spc' = "idle"
      BY <1>9, <2>4 DEF ScrapeOpen
    <3> QED BY <1>2, <1>3, <2>1, <2>2, <3>1
  <2> QED BY <2>3, <2>4
<1>10. CASE ScrapeRemove
  <2>1. /\ delivered' = delivered \o response /\ response' = <<>> /\ spc' = "idle"
        /\ exists' = exists \ {sfile} /\ UNCHANGED <<content, wpc, batch>>
    BY <1>10 DEF ScrapeRemove, Unlink
  <2>2. Range(delivered') = Range(delivered) \cup Range(response)
    BY <1>1, <2>1, RangeConcatenation
  <2>3. IsInjective(delivered')
    BY <1>1, <2>1, ConcatInjection DEF OnceInv
  <2>4. Newest' = Newest
    BY <2>1 DEF Newest
  <2> QED BY <2>1, <2>2, <2>3, <2>4, EmptyFacts DEF OnceInv
<1>11. CASE FileRemoved
  <2>1. exists' \subseteq exists /\ UNCHANGED <<content, delivered, response, sfile, spc, wpc,
                                                batch>>
    BY <1>11 DEF FileRemoved, Unlink
  <2>2. Newest' = Newest
    BY <2>1 DEF Newest
  <2> QED BY <1>2, <1>3, <2>1, <2>2
<1>12. CASE Restart
  <2>1. /\ response' = <<>> /\ spc' = "idle" /\ wpc' = "idle"
        /\ UNCHANGED <<content, delivered, exists, batch>>
    BY <1>12 DEF Restart
  <2>2. Newest' = batch /\ (Newest = batch \/ Newest = batch - 1)
    BY <2>1 DEF Newest, Writing
  <2>3. \A b \in Nat : b <= Newest => b <= Newest'
    BY <1>1, <2>2
  <2> QED BY <1>2, <2>1, <2>3, EmptyFacts DEF OnceInv
<1>13. CASE UNCHANGED vars
  <2>1. Newest' = Newest
    BY <1>13 DEF vars, Newest
  <2> QED BY <1>2, <1>3, <1>13, <2>1 DEF vars
<1> QED BY <1>4, <1>5, <1>6, <1>7, <1>8, <1>9, <1>10, <1>11, <1>12, <1>13
        DEF Next, WriteMetricsLogs, WebRequestCallback

(* The invariant of the places, for every behaviour. *)
LEMMA OnceInvHolds == Spec => []OnceInv
<1>1. Init => OnceInv
  BY EmptyFacts DEF Init, OnceInv
<1>2. TypeOK /\ TypeOK' /\ OnceInv /\ [Next]_vars => OnceInv'
  BY OnceStep
<1> QED BY <1>1, <1>2, MetricLogsTypeCorrect, PTL DEF Spec

(* No batch of metrics is served by two scrapes, whatever overlaps, and      *)
(* whatever files a restart leaves on disk.                                  *)
THEOREM BatchesServedOnce == Spec => []ServedOnce
<1>1. OnceInv => ServedOnce
  BY DEF OnceInv, ServedOnce
<1> QED BY <1>1, OnceInvHolds, PTL

-----------------------------------------------------------------------------
(* The order in which batches are served. *)

(* The empty list is in every order. *)
LEMMA RisingEmpty == Rising(<<>>) /\ (\A s : Below(s, <<>>) /\ Below(<<>>, s))
BY EmptyFacts DEF Rising, Below

(* A batch newer than all of a file is written behind them. *)
LEMMA RisingAppend ==
  ASSUME NEW s \in Seq(Nat), NEW x \in Nat, Rising(s), \A b \in Range(s) : b < x
  PROVE  Rising(Append(s, x))
<1> DEFINE a == Append(s, x)
<1>1. /\ a \in Seq(Nat) /\ Len(a) = Len(s) + 1 /\ a[Len(s) + 1] = x
      /\ \A i \in 1 .. Len(s) : a[i] = s[i]
  BY AppendProperties
<1>2. Len(s) \in Nat /\ \A i \in 1 .. Len(s) : s[i] < x
  BY Indices
<1> HIDE DEF a
<1>3. ASSUME NEW i \in 1 .. Len(s) + 1, NEW j \in 1 .. Len(s) + 1, i < j
      PROVE  a[i] < a[j]
  <2>1. i \in 1 .. Len(s) /\ (j \in 1 .. Len(s) \/ j = Len(s) + 1)
    BY <1>2, <1>3
  <2> QED BY <1>1, <1>2, <1>3, <2>1 DEF Rising
<1>4. Rising(a)
  BY <1>1, <1>3 DEF Rising
<1> QED BY <1>4 DEF a

(* A response is sent behind what was delivered before. *)
LEMMA RisingConcat ==
  ASSUME NEW s \in Seq(Nat), NEW t \in Seq(Nat), Rising(s), Rising(t), Below(s, t)
  PROVE  Rising(s \o t)
<1> DEFINE c == s \o t
           m == Len(s)
           n == Len(t)
<1>1. /\ c \in Seq(Nat) /\ Len(c) = m + n
      /\ \A i \in 1 .. m + n : c[i] = IF i <= m THEN s[i] ELSE t[i - m]
  BY ConcatProperties
<1>2. /\ m \in Nat /\ n \in Nat
      /\ \A i \in 1 .. m : s[i] \in Range(s)
      /\ \A i \in 1 .. n : t[i] \in Range(t)
      /\ \A i, j \in 1 .. m : i < j => s[i] < s[j]
      /\ \A i, j \in 1 .. n : i < j => t[i] < t[j]
  BY Indices DEF Rising
<1> HIDE DEF c, m, n
<1>3. ASSUME NEW i \in 1 .. m + n, NEW j \in 1 .. m + n, i < j
      PROVE  c[i] < c[j]
  <2>1. CASE j <= m
    <3>1. i \in 1 .. m /\ j \in 1 .. m /\ i <= m
      BY <1>2, <1>3, <2>1
    <3> QED BY <1>1, <1>2, <1>3, <2>1, <3>1
  <2>2. CASE i > m
    <3>1. i - m \in 1 .. n /\ j - m \in 1 .. n /\ i - m < j - m /\ ~(i <= m) /\ ~(j <= m)
      BY <1>2, <1>3, <2>2
    <3>2. c[i] = t[i - m] /\ c[j] = t[j - m]
      BY <1>1, <3>1
    <3> QED BY <1>2, <3>1, <3>2
  <2>3. CASE i <= m /\ j > m
    <3>1. i \in 1 .. m /\ j - m \in 1 .. n /\ ~(j <= m)
      BY <1>2, <2>3
    <3>2. c[i] = s[i] /\ c[j] = t[j - m]
      BY <1>1, <2>3, <3>1
    <3> QED BY <1>2, <3>1, <3>2 DEF Below
  <2> QED BY <1>2, <2>1, <2>2, <2>3
<1>4. Rising(c)
  BY <1>1, <1>3 DEF Rising
<1> QED BY <1>4 DEF c

(* que_get_next_file makes every file one id older. *)
LEMMA LiveNext ==
  ASSUME TypeOK, TypeOK', IdInv, NextFile, ~(current # INVALID /\ IsFullQueue)
  PROVE  /\ Live' = Live + 1 /\ current' # INVALID
         /\ \A d \in 0 .. IdMax : Back(d + 1)' = Back(d)
<1>1. /\ Used \in 0 .. QueSize - 1 /\ Live = IF current = INVALID THEN Used ELSE Used + 1
      /\ current \in Files
  BY LiveIs DEF TypeOK
<1>2. /\ current' = nextId /\ nextId' = IF nextId = IdMax THEN 0 ELSE nextId + 1
      /\ front' = front /\ nextId # INVALID
  BY QueueAssumption DEF NextFile, TypeOK, Ids, INVALID
<1>3. Live' = Used' + 1
  BY <1>2 DEF Live, INVALID
<1>4. CASE current = INVALID
  <2>1. Used' = Used
    BY <1>2, <1>4 DEF NextFile, Used
  <2> QED BY <1>1, <1>2, <1>3, <1>4, <2>1, BackShift DEF INVALID
<1>5. CASE current # INVALID
  <2>1. EnQueue(current) /\ ~IsFullQueue
    BY <1>5 DEF NextFile
  <2>2. Used' = Used + 1
    BY <1>1, <1>2, <2>1, EnQueueEffect
  <2> QED BY <1>1, <1>2, <1>3, <1>5, <2>2, BackShift DEF INVALID
<1> QED BY <1>4, <1>5

(* que_pop_file takes the oldest file, which a scrape then holds. *)
LEMMA LivePop ==
  ASSUME TypeOK, TypeOK', IdInv, ScrapePop
  PROVE  Live' \in Int /\ Last' \in Int /\ Last' <= Live
<1>1. /\ Used \in 0 .. QueSize - 1 /\ Live = IF current = INVALID THEN Used ELSE Used + 1
      /\ current \in Files
  BY LiveIs DEF TypeOK
<1>2. rear' = rear /\ spc' = IF sfile' = INVALID THEN "idle" ELSE "open"
  BY DEF ScrapePop
<1>3. CASE IsEmptyQueue
  <2>1. sfile' = current /\ current' = INVALID /\ front' = front /\ Used = 0
    BY <1>3, EmptyAndFull DEF ScrapePop
  <2>2. Used' = 0
    BY <1>2, <2>1 DEF Used
  <2>3. Live' = 0
    BY <2>1, <2>2 DEF Live, INVALID
  <2>4. Last' = IF current = INVALID THEN 0 ELSE 1
    BY <1>2, <2>1, <2>3 DEF Last, INVALID
  <2> QED BY <1>1, <2>1, <2>3, <2>4
<1>4. CASE ~IsEmptyQueue
  <2>1. DeQueue /\ current' = current
    BY <1>4 DEF ScrapePop
  <2>2. Used' = Used - 1 /\ Used > 0
    BY <1>2, <1>4, <2>1, DeQueueEffect
  <2>3. Live' = Live - 1
    BY <1>1, <2>1, <2>2 DEF Live, INVALID
  <2>4. Last' = Live' \/ Last' = Live' + 1
    BY DEF Last
  <2>5. Live \in Int
    BY <1>1
  <2> QED BY <2>3, <2>4, <2>5
<1> QED BY <1>3, <1>4

(* Every step keeps the files in the order of their batches. *)
LEMMA OrderStep ==
  ASSUME TypeOK, TypeOK', IdInv, ApartInv, OnceInv, OrderInv, [Next]_vars
  PROVE  OrderInv'
<1> USE DEF queVars, diskVars, writerVars, scrapeVars, bounds
<1>1. overlap' = overlap
  BY DEF Next, WriteCheck, WriteMetricsLogs, NextFile, NameFile, OpenFile, WriteLog,
         WebRequestCallback, ScrapePop, ScrapeOpen, ScrapeRemove, FileRemoved, Restart, vars
<1>2. SUFFICES ASSUME ~overlap PROVE OrderInv'
  BY <1>1 DEF OrderInv
<1>3. /\ batch \in Nat /\ content \in [Files -> Seq(Nat)]
      /\ response \in Seq(Nat) /\ delivered \in Seq(Nat)
      /\ Newest \in Int /\ Range(delivered) \subseteq Nat /\ Range(response) \subseteq Nat
  <2>1. batch \in 0 .. MaxBatches
    BY DEF TypeOK
  <2>2. batch \in Nat
    BY <2>1
  <2>3. Newest \in Int
    BY <2>2 DEF Newest
  <2>4. content \in [Files -> Seq(Nat)] /\ response \in Seq(Nat) /\ delivered \in Seq(Nat)
    BY DEF TypeOK
  <2> QED BY <2>2, <2>3, <2>4, Indices
<1>4. /\ Live \in 0 .. QueSize /\ First \in {1, 2} /\ Last \in Live .. Live + 1
      /\ QueSize \in Nat /\ IdMax \in Nat /\ QueSize <= IdMax
  BY LiveIs DEF First, Last
<1>5. \A d \in First .. Last : /\ d \in 1 .. IdMax + 1 /\ Back(d) \in Ids /\ Back(d) \in Files
                               /\ Batches(d) \in Seq(Nat) /\ Range(Batches(d)) \subseteq Nat
  <2> SUFFICES ASSUME NEW d \in First .. Last
               PROVE  /\ d \in 1 .. IdMax + 1 /\ Back(d) \in Ids /\ Back(d) \in Files
                      /\ Batches(d) \in Seq(Nat) /\ Range(Batches(d)) \subseteq Nat
    OBVIOUS
  <2>1. d \in 1 .. IdMax + 1
    BY <1>4
  <2>2. d \in 0 .. IdMax + 1
    BY <1>4, <2>1
  <2>3. Back(d) \in Ids /\ Back(d) \in Files
    BY <2>2, BackIsId DEF Files
  <2>4. Batches(d) \in Seq(Nat)
    BY <1>3, <2>3 DEF Batches
  <2> QED BY <2>1, <2>3, <2>4, Indices
<1>6. ASSUME NEW k \in Int,
             \A d \in First' .. Last' : d - k \in First .. Last /\ Batches(d)' = Batches(d - k),
             UNCHANGED <<delivered, response>>, spc' = "remove" => spc = "remove",
             First' \in Int, Last' \in Int, Newest' \in Int, Newest <= Newest'
      PROVE  OrderInv'
  <2>1. /\ Rising(delivered')
        /\ \A d \in First' .. Last' : Rising(Batches(d)') /\ Below(delivered', Batches(d)')
    BY <1>2, <1>6 DEF OrderInv
  <2>2. ASSUME NEW d \in First' .. Last', NEW b \in Range(Batches(d)')
        PROVE  b <= Newest'
    <3>1. d - k \in First .. Last /\ b \in Range(Batches(d - k))
      BY <1>6
    <3>2. b \in Nat /\ b <= Newest
      BY <1>2, <1>5, <3>1 DEF OrderInv
    <3> QED BY <1>3, <1>6, <3>2
  <2>3. ASSUME NEW d \in First' .. Last', NEW e \in First' .. Last', d > e
        PROVE  Below(Batches(d)', Batches(e)')
    <3>1. d - k \in First .. Last /\ e - k \in First .. Last /\ d - k > e - k
      BY <1>6, <2>3
    <3>2. Below(Batches(d - k), Batches(e - k))
      BY <1>2, <3>1 DEF OrderInv
    <3> QED BY <1>6, <3>2
  <2>4. ASSUME spc' = "remove"
        PROVE  /\ Rising(response') /\ Below(delivered', response')
               /\ \A d \in First' .. Last' : Below(response', Batches(d)')
    BY <1>2, <1>6, <2>4 DEF OrderInv
  <2> QED BY <2>1, <2>2, <2>3, <2>4 DEF OrderInv
<1>7. ASSUME UNCHANGED <<content, nextId, delivered, response>>,
             spc' = "remove" => spc = "remove",
             First' \in Int, Last' \in Int, First <= First', Last' <= Last,
             Newest' \in Int, Newest <= Newest'
      PROVE  OrderInv'
  <2>1. \A d : Batches(d)' = Batches(d)
    BY <1>7 DEF Batches, Back
  <2>2. \A d \in First' .. Last' : d - 0 \in First .. Last /\ Batches(d)' = Batches(d - 0)
    BY <1>4, <1>7, <2>1
  <2> QED BY <1>6, <1>7, <2>2
<1>8. UNCHANGED queVars => Live' = Live
  BY DEF Live, Used, INVALID
<1>9. CASE WriteCheck
  <2>1. /\ UNCHANGED <<queVars, content, delivered, response, spc>>
        /\ wpc = "idle" /\ wpc' \in {"log", "next"} /\ batch' = batch + 1
    BY <1>9 DEF WriteCheck
  <2>2. Newest' = Newest /\ First' = First /\ Last' = Last
    BY <1>3, <1>8, <2>1 DEF Newest, Writing, First, Last, INVALID
  <2> QED BY <1>3, <1>4, <1>7, <2>1, <2>2
<1>10. CASE NextFile
  <2>1. /\ wpc = "next" /\ UNCHANGED <<content, delivered, response, spc, batch>> /\ spc = "idle"
    BY <1>2, <1>10 DEF NextFile, ApartInv, Writing
  <2>2. CASE current # INVALID /\ IsFullQueue
    <3>1. UNCHANGED queVars /\ wpc' = "ended"
      BY <1>10, <2>2 DEF NextFile
    <3>2. Newest' = batch /\ Newest = batch - 1 /\ First' = First /\ Last' = Last
      BY <1>8, <2>1, <3>1 DEF Newest, Writing, First, Last, INVALID
    <3> QED BY <1>3, <1>4, <1>7, <2>1, <3>1, <3>2
  <2>3. CASE ~(current # INVALID /\ IsFullQueue)
    <3>1. /\ Live' = Live + 1 /\ current' # INVALID
          /\ \A d \in 0 .. IdMax : Back(d + 1)' = Back(d)
      BY <1>10, <2>3, LiveNext
    <3>2. wpc' = "name"
      BY <1>10, <2>3 DEF NextFile
    <3>3. Newest' = Newest /\ First = 1 /\ First' = 2 /\ Last = Live /\ Last' = Live + 1
      BY <2>1, <3>1, <3>2 DEF Newest, Writing, First, Last, INVALID
    <3>4. ASSUME NEW d \in First' .. Last'
          PROVE  d - 1 \in First .. Last /\ Batches(d)' = Batches(d - 1)
      <4>1. d - 1 \in First .. Last /\ d - 1 \in 0 .. IdMax /\ (d - 1) + 1 = d
        BY <1>4, <3>3
      <4>2. Back(d)' = Back(d - 1)
        BY <3>1, <4>1
      <4> QED BY <2>1, <4>1, <4>2 DEF Batches
    <3>5. /\ First' \in Int /\ Last' \in Int /\ Newest' \in Int /\ Newest <= Newest'
          /\ 1 \in Int /\ (spc' = "remove" => spc = "remove")
      BY <1>3, <1>4, <2>1, <3>3
    <3>6. UNCHANGED <<delivered, response>>
      BY <2>1
    <3> QED BY <1>6, <3>4, <3>5, <3>6
  <2> QED BY <2>2, <2>3
<1>11. CASE NameFile
  <2>1. /\ UNCHANGED <<queVars, content, delivered, response, spc, batch>>
        /\ wpc = "name" /\ wpc' = "open"
    BY <1>11 DEF NameFile
  <2>2. Newest' = Newest /\ First' = First /\ Last' = Last
    BY <1>8, <2>1 DEF Newest, Writing, First, Last, INVALID
  <2> QED BY <1>3, <1>4, <1>7, <2>1, <2>2
<1>12. CASE OpenFile
  <2>1. /\ UNCHANGED <<queVars, delivered, response, spc, batch>>
        /\ wpc = "open" /\ wpc' = "log" /\ spc = "idle"
        /\ current # INVALID /\ current = Back(1) /\ content' = [content EXCEPT ![current] = <<>>]
    BY <1>2, <1>12 DEF OpenFile, ApartInv, IdInv, Writing
  <2>2. /\ Newest' = Newest /\ First = 2 /\ First' = 1 /\ Last' = Last
        /\ \A d : Back(d)' = Back(d)
    BY <1>8, <2>1 DEF Newest, Writing, First, Last, Back, INVALID
  <2>3. ASSUME NEW d \in 2 .. Last
        PROVE  Batches(d)' = Batches(d)
    <3>1. Back(d) # Back(1) /\ Back(d) \in Files
      BY <1>4, <1>5, <2>2, BackDistinct
    <3>2. content'[Back(d)] = content[Back(d)]
      BY <1>3, <2>1, <3>1
    <3> QED BY <2>2, <3>2 DEF Batches
  <2>4. Batches(1)' = <<>>
    <3>1. current \in Files
      BY DEF TypeOK
    <3> QED BY <1>3, <2>1, <2>2, <3>1 DEF Batches
  <2>5. \A d \in First' .. Last' : d = 1 \/ d \in First .. Last
    BY <1>4, <2>2
  <2>6. \A d \in First .. Last : d > 1 /\ Batches(d)' = Batches(d)
    BY <1>4, <2>2, <2>3
  <2>7. \A e : ~(1 > e /\ e \in First' .. Last')
    BY <1>4, <2>2
  <2> QED BY <1>2, <2>1, <2>2, <2>4, <2>5, <2>6, <2>7, RisingEmpty, EmptyFacts DEF OrderInv
<1>13. CASE WriteLog
  <2>1. /\ wpc = "log" /\ wpc' = "idle" /\ UNCHANGED <<batch, spc, response, delivered>>
        /\ \/ UNCHANGED content
           \/ content' = [content EXCEPT ![appender] = <<>>]
           \/ content' = [content EXCEPT ![appender] = Append(content[appender], batch)]
    BY <1>13, WrittenIs
  <2>2. UNCHANGED queVars /\ spc = "idle" /\ appender = Back(1) /\ current # INVALID
        /\ current = Back(1)
    BY <1>2, <1>13, <2>1 DEF WriteLog, ApartInv, IdInv, Writing
  <2>3. /\ Newest = batch - 1 /\ Newest' = batch /\ First' = 1 /\ First = 1
        /\ Last' = Last /\ Last = Live /\ Last >= 1 /\ \A d : Back(d)' = Back(d)
    <3>1. Live >= 1
      BY <2>2, LiveIs
    <3> QED BY <1>8, <2>1, <2>2, <3>1 DEF Newest, Writing, First, Last, Back, INVALID
  <2>4. CASE UNCHANGED content
    BY <1>3, <1>4, <1>7, <2>1, <2>2, <2>3, <2>4
  <2>5. CASE ~UNCHANGED content
    <3>1. 1 \in First .. Last
      BY <1>4, <2>3
    <3>2. ASSUME NEW d \in First .. Last, d # 1
          PROVE  Batches(d)' = Batches(d)
      <4>1. Back(d) # Back(1) /\ Back(d) \in Files
        BY <1>4, <1>5, <3>1, <3>2, BackDistinct
      <4>2. content'[Back(d)] = content[Back(d)]
        BY <1>3, <2>1, <2>2, <4>1
      <4> QED BY <2>3, <4>2 DEF Batches
    <3>3. Batches(1)' = <<>> \/ Batches(1)' = Append(Batches(1), batch)
      <4>1. Back(1) \in Files
        BY <1>5, <3>1
      <4>2. content'[Back(1)] = <<>> \/ content'[Back(1)] = Append(content[Back(1)], batch)
        BY <1>3, <2>1, <2>2, <2>5, <4>1
      <4> QED BY <2>3, <4>2 DEF Batches
    <3>4. \A b \in Nat : b <= Newest => b < batch
      BY <1>3, <2>3
    <3>5. Range(Batches(1)') \subseteq Range(Batches(1)) \cup {batch}
      <4>1. Batches(1) \in Seq(Nat)
        BY <1>5, <3>1
      <4>2. CASE Batches(1)' = <<>>
        BY <4>2, EmptyFacts
      <4>3. CASE Batches(1)' = Append(Batches(1), batch)
        BY <1>3, <4>1, <4>3, AppendRange
      <4> QED BY <3>3, <4>2, <4>3
    <3>6. Rising(Batches(1)')
      <4>1. Rising(Batches(1)) /\ \A b \in Range(Batches(1)) : b < batch
        BY <1>2, <1>5, <3>1, <3>4 DEF OrderInv
      <4> QED BY <1>3, <1>5, <3>1, <3>3, <4>1, RisingEmpty, RisingAppend
    <3>7. \A a \in Range(delivered) : a < batch
      BY <1>3, <3>4 DEF OnceInv
    <3>8. Below(delivered, Batches(1)')
      BY <1>2, <3>1, <3>5, <3>7 DEF OrderInv, Below
    <3>9. ASSUME NEW d \in First .. Last, d # 1
          PROVE  Below(Batches(d), Batches(1)') /\ d > 1
      <4>1. \A a \in Range(Batches(d)) : a < batch
        BY <1>2, <1>5, <3>4 DEF OrderInv
      <4>2. d > 1
        BY <1>4, <2>3, <3>9
      <4>3. Below(Batches(d), Batches(1))
        BY <1>2, <3>1, <4>2 DEF OrderInv
      <4> QED BY <3>5, <4>1, <4>2, <4>3 DEF Below
    <3>10. ASSUME NEW d \in First .. Last, NEW b \in Range(Batches(d)')
           PROVE  b <= Newest'
      <4>1. b = batch \/ b \in Range(Batches(d))
        BY <3>2, <3>5
      <4>2. CASE b \in Range(Batches(d))
        <5>1. b \in Nat /\ b <= Newest
          BY <1>2, <1>5, <4>2 DEF OrderInv
        <5> QED BY <1>3, <2>3, <5>1
      <4> QED BY <1>3, <2>3, <4>1, <4>2
    <3>11. \A d \in First .. Last : Rising(Batches(d)') /\ Below(delivered, Batches(d)')
      BY <1>2, <3>2, <3>6, <3>8 DEF OrderInv
    <3>12. ASSUME NEW d \in First .. Last, NEW e \in First .. Last, d > e
           PROVE  Below(Batches(d)', Batches(e)')
      <4>1. d # 1
        BY <1>4, <2>3, <3>12
      <4>2. Batches(d)' = Batches(d)
        BY <3>2, <4>1
      <4>3. CASE e = 1
        BY <3>9, <4>1, <4>2, <4>3
      <4>4. CASE e # 1
        BY <1>2, <3>2, <3>12, <4>2, <4>4 DEF OrderInv
      <4> QED BY <4>3, <4>4
    <3>13. First' = First /\ Last' = Last /\ spc' # "remove" /\ delivered' = delivered
           /\ Rising(delivered)
      BY <1>2, <2>1, <2>2, <2>3 DEF OrderInv
    <3> QED BY <3>10, <3>11, <3>12, <3>13 DEF OrderInv
  <2> QED BY <2>4, <2>5
<1>14. CASE ScrapePop
  <2>1. /\ UNCHANGED <<nextId, content, delivered, response, wpc, batch>>
        /\ wpc \in {"idle", "ended"} /\ spc = "idle" /\ spc' # "remove"
    BY <1>2, <1>14 DEF ScrapePop
  <2>2. Newest' = Newest /\ First' = 1 /\ First = 1 /\ Last = Live
    BY <2>1 DEF Newest, First, Last
  <2>3. Last' \in Int /\ Last' <= Live
    BY <1>14, LivePop
  <2> QED BY <1>3, <1>4, <1>7, <2>1, <2>2, <2>3
<1>15. CASE ScrapeOpen
  <2>1. /\ UNCHANGED <<queVars, content, delivered, wpc, batch>> /\ spc = "open"
    BY <1>15 DEF ScrapeOpen
  <2>2. /\ Newest' = Newest /\ First' = First /\ First = 1 /\ Last = Live + 1
        /\ sfile = Back(Last) /\ Live' = Live
    BY <1>2, <1>8, <2>1 DEF Newest, First, Last, IdInv, ApartInv, Writing, INVALID
  <2>3. CASE sfile \in exists
    <3>1. response' = Batches(Last) /\ spc' = "remove"
      BY <1>15, <2>2, <2>3 DEF ScrapeOpen, Batches
    <3>2. Last' = Live
      BY <2>2, <3>1 DEF Last
    <3>3. Last \in First .. Last
      BY <1>4, <2>2
    <3>4. \A d \in First' .. Last' : d \in First .. Last /\ Last > d /\ Batches(d)' = Batches(d)
      BY <1>4, <2>1, <2>2, <3>2 DEF Batches, Back
    <3> QED BY <1>2, <2>1, <2>2, <3>1, <3>3, <3>4 DEF OrderInv
  <2>4. CASE sfile \notin exists
    <3>1. response' = response /\ spc' = "idle"
      BY <1>15, <2>4 DEF ScrapeOpen
    <3>2. Last' = Live
      BY <2>2, <3>1 DEF Last
    <3> QED BY <1>3, <1>4, <1>7, <2>1, <2>2, <3>1, <3>2
  <2> QED BY <2>3, <2>4
<1>16. CASE ScrapeRemove
  <2>1. /\ UNCHANGED <<queVars, content, wpc, batch>> /\ spc = "remove" /\ spc' = "idle"
        /\ delivered' = delivered \o response
    BY <1>16 DEF ScrapeRemove
  <2>2. Newest' = Newest /\ First' = First /\ Last' = Last /\ \A d : Batches(d)' = Batches(d)
    BY <1>8, <2>1 DEF Newest, First, Last, Batches, Back, INVALID
  <2>3. Rising(delivered')
    BY <1>2, <1>3, <2>1, RisingConcat DEF OrderInv
  <2>4. Range(delivered') = Range(delivered) \cup Range(response)
    BY <1>3, <2>1, RangeConcatenation
  <2>5. \A d \in First .. Last : Below(delivered', Batches(d))
    BY <1>2, <2>1, <2>4 DEF OrderInv, Below
  <2> QED BY <1>2, <2>1, <2>2, <2>3, <2>5 DEF OrderInv
<1>17. CASE FileRemoved
  <2>1. UNCHANGED <<queVars, content, delivered, response, spc, wpc, batch>>
    BY <1>17 DEF FileRemoved
  <2>2. Newest' = Newest /\ First' = First /\ Last' = Last
    BY <1>8, <2>1 DEF Newest, First, Last, INVALID
  <2> QED BY <1>3, <1>4, <1>7, <2>1, <2>2
<1>18. CASE Restart
  <2>1. /\ UNCHANGED delivered /\ front' = 0 /\ rear' = 0 /\ current' = INVALID /\ spc' = "idle"
    BY <1>18 DEF Restart, EmptyQueue
  <2>2. Used' = 0
    BY <2>1, QueueAssumption, ModOnce DEF Used
  <2>3. First' = 1 /\ Last' = 0
    BY <2>1, <2>2 DEF First, Last, Live, INVALID
  <2>4. First' .. Last' = {}
    BY <2>3
  <2> QED BY <1>2, <2>1, <2>4 DEF OrderInv
<1>19. CASE UNCHANGED vars
  <2>1. UNCHANGED <<queVars, content, delivered, response, spc, wpc, batch>>
    BY <1>19 DEF vars
  <2>2. Newest' = Newest /\ First' = First /\ Last' = Last
    BY <1>8, <2>1 DEF Newest, First, Last, INVALID
  <2> QED BY <1>3, <1>4, <1>7, <2>1, <2>2
<1> QED BY <1>9, <1>10, <1>11, <1>12, <1>13, <1>14, <1>15, <1>16, <1>17, <1>18, <1>19
        DEF Next, WriteMetricsLogs, WebRequestCallback

(* Scrapes and writes that do not overlap serve the batches in the order in  *)
(* which they were written, across the wrap of the ids and of the queue.     *)
THEOREM BatchesServedInOrder == Spec => []ServedInOrder
<1>1. Init => OrderInv
  <2> SUFFICES ASSUME Init PROVE OrderInv
    OBVIOUS
  <2>1. /\ front = 0 /\ rear = 0 /\ current = INVALID /\ spc = "idle" /\ delivered = <<>>
    BY DEF Init, EmptyQueue
  <2>2. Used = 0
    BY <2>1, QueueAssumption, ModOnce DEF Used
  <2>3. First = 1 /\ Last = 0
    BY <2>1, <2>2 DEF First, Last, Live
  <2>4. First .. Last = {}
    BY <2>3
  <2> QED BY <2>1, <2>4, RisingEmpty DEF OrderInv
<1>2. TypeOK /\ TypeOK' /\ IdInv /\ ApartInv /\ OnceInv /\ OrderInv /\ [Next]_vars => OrderInv'
  BY OrderStep
<1>3. OrderInv => ServedInOrder
  BY DEF OrderInv, ServedInOrder, Rising
<1> QED BY <1>1, <1>2, <1>3, IdInvHolds, ApartInvHolds, OnceInvHolds, PTL DEF Spec
===========================================================================
