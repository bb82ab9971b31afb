---------------------------- MODULE MetricLogs ----------------------------
(***************************************************************************)
(* The files that carry the metrics to the web server.  The METRICLOG       *)
(* thread writes a batch of metrics each second into the current file; a    *)
(* scrape takes the oldest file of a circular queue, or the current one if  *)
(* the queue is empty, sends its content and removes it.  The writer finds  *)
(* out by access() that its file is gone and starts the next one.           *)
(*                                                                          *)
(* Each operation on struct files_queue_s takes its lock; the calls between *)
(* them, and the one read of current.file_id outside the lock, are steps of *)
(* their own.  The lengths of the files are kept by the code but never      *)
(* read, and are left out.                                                  *)
(***************************************************************************)
EXTENDS Integers, Sequences, FiniteSets, Functions

CONSTANTS
  QueSize,       \* METRICS_LOGS_MAXNUM
  IdMax,         \* the largest file id, INT_MAX in the code
  RollMax,       \* batches a file holds before log4cplus rolls it over
  Overlaps,      \* whether a scrape may begin while a batch is being written
  NoFile,
  MaxBatches, MaxRemovals, MaxRestarts   \* bounds on the environment

ASSUME QueueAssumption == QueSize \in Nat \ {0, 1} /\ IdMax \in Nat /\ IdMax >= QueSize
ASSUME FileAssumption == RollMax \in Nat \ {0} /\ NoFile \notin Int /\ Overlaps \subseteq BOOLEAN
ASSUME BoundsAssumption == MaxBatches \in Nat /\ MaxRemovals \in Nat /\ MaxRestarts \in Nat

INVALID == -1                \* INVALID_FILE_ID
Ids == 0 .. IdMax
Files == Ids \cup {INVALID}  \* get_file_name makes a file name of any id

VARIABLES
  overlap,                               \* chosen once
  queue, front, rear, current, nextId,   \* struct files_queue_s
  exists, content,                       \* the files on disk
  appender, orphan,                      \* the logger's open file; has it been unlinked?
  wpc, wfile, batch,                     \* METRICLOG thread
  spc, sfile, response,                  \* web server thread
  delivered,                             \* batches scraped, in order
  removals, restarts, rolled

queVars == <<queue, front, rear, current, nextId>>
diskVars == <<exists, content, appender, orphan>>
writerVars == <<wpc, wfile, batch>>
scrapeVars == <<spc, sfile, response>>
bounds == <<removals, restarts>>
vars == <<overlap, queVars, diskVars, writerVars, scrapeVars, delivered, bounds, rolled>>

(* create_queue; memset leaves id 0 in the unused slots. *)
EmptyQueue ==
  [queue |-> [i \in 0 .. QueSize - 1 |-> 0], front |-> 0, rear |-> 0, current |-> INVALID,
   nextId |-> 0]

Init ==
  /\ overlap \in Overlaps
  /\ queue = EmptyQueue.queue /\ front = EmptyQueue.front /\ rear = EmptyQueue.rear
  /\ current = EmptyQueue.current /\ nextId = EmptyQueue.nextId
  /\ exists = {} /\ content = [f \in Files |-> <<>>] /\ appender = NoFile /\ orphan = FALSE
  /\ wpc = "idle" /\ wfile = INVALID /\ batch = 0
  /\ spc = "idle" /\ sfile = INVALID /\ response = <<>>
  /\ delivered = <<>>
  /\ removals = 0 /\ restarts = 0 /\ rolled = FALSE

IsEmptyQueue == rear % QueSize = front
(* A queue that counts as full one file too early. *)
MutIsFullQueue == (rear + 2) % QueSize = front
IsFullQueue == (rear + 1) % QueSize = front

-----------------------------------------------------------------------------
(* METRICLOG thread: wr_metrics_logs. *)

EnQueue(id) == queue' = [queue EXCEPT ![rear % QueSize] = id] /\ rear' = rear + 1

(* que_current_is_invalid, once the database had something to write. *)
WriteCheck ==
  /\ wpc = "idle" /\ batch < MaxBatches
  /\ ~overlap => spc = "idle"
  /\ batch' = batch + 1
  /\ wpc' = IF current \in exists THEN "log" ELSE "next"
  /\ UNCHANGED <<overlap, queVars, diskVars, wfile, scrapeVars, delivered, bounds, rolled>>

(***************************************************************************)
(* que_get_next_file: a current file that vanished goes into the queue all  *)
(* the same.  If the queue is full the write fails and                      *)
(* WriteMetricsLogsMain returns: the thread is over.                        *)
(***************************************************************************)
NextFile ==
  /\ wpc = "next"
  /\ IF current # INVALID /\ IsFullQueue
     THEN wpc' = "ended" /\ UNCHANGED queVars
     ELSE /\ IF current = INVALID THEN UNCHANGED <<queue, rear>>
             ELSE EnQueue(current)
          /\ current' = nextId
          /\ nextId' = IF nextId = IdMax THEN 0 ELSE nextId + 1
          /\ wpc' = "name"
          /\ UNCHANGED front
  /\ UNCHANGED <<overlap, diskVars, wfile, batch, scrapeVars, delivered, bounds, rolled>>

(* append_metrics_logger reads current.file_id again, without the lock. *)
NameFile ==
  /\ wpc = "name"
  /\ wfile' = current
  /\ wpc' = "open"
  /\ UNCHANGED <<overlap, queVars, diskVars, batch, scrapeVars, delivered, bounds, rolled>>

(* The file is not given to the logger. *)
MutOpenFile ==
  /\ wpc = "open"
  /\ exists' = exists \cup {wfile}
  /\ content' = [content EXCEPT ![wfile] = <<>>]
  /\ wpc' = "log" /\ wfile' = INVALID
  /\ UNCHANGED <<overlap, queVars, appender, orphan, batch, scrapeVars, delivered, bounds, rolled>>

(* An old file of that name is kept and appended to. *)
MutOpenFileOld ==
  /\ wpc = "open"
  /\ exists' = exists \cup {wfile}
  /\ content' = [content EXCEPT ![wfile] = IF wfile \in exists THEN @ ELSE <<>>]
  /\ appender' = wfile /\ orphan' = FALSE
  /\ wpc' = "log" /\ wfile' = INVALID
  /\ UNCHANGED <<overlap, queVars, batch, scrapeVars, delivered, bounds, rolled>>

(* An old file of that name is removed and an empty one opened. *)
OpenFile ==
  /\ wpc = "open"
  /\ exists' = exists \cup {wfile}
  /\ content' = [content EXCEPT ![wfile] = <<>>]
  /\ appender' = wfile /\ orphan' = FALSE
  /\ wpc' = "log" /\ wfile' = INVALID
  /\ UNCHANGED <<overlap, queVars, batch, scrapeVars, delivered, bounds, rolled>>

(* The batch goes to the open file, which nobody sees any more if it was    *)
(* unlinked; a file that grew too long is rolled over to a backup.          *)
WriteLog ==
  /\ wpc = "log"
  /\ wpc' = "idle"
  /\ IF appender = NoFile \/ orphan
     THEN UNCHANGED <<content, rolled>>
     ELSE LET written == Append(content[appender], batch)
              full == Len(written) > RollMax
          IN /\ content' = [content EXCEPT ![appender] = IF full THEN <<>> ELSE written]
             /\ rolled' = (rolled \/ full)
  /\ UNCHANGED <<overlap, queVars, exists, appender, orphan, wfile, batch, scrapeVars, delivered,
                 bounds>>

-----------------------------------------------------------------------------
(* Web server thread: WebRequestCallback. *)

(* The current file is handed out and stays the current one. *)
MutScrapePop ==
  /\ spc = "idle"
  /\ ~overlap => wpc \in {"idle", "ended"}
  /\ IF IsEmptyQueue
     THEN sfile' = current /\ UNCHANGED queVars
     ELSE /\ sfile' = queue[front]
          /\ queue' = [queue EXCEPT ![front] = INVALID]
          /\ front' = (front + 1) % QueSize
          /\ UNCHANGED <<rear, current, nextId>>
  /\ spc' = IF sfile' = INVALID THEN "idle" ELSE "open"
  /\ UNCHANGED <<overlap, diskVars, writerVars, response, delivered, bounds, rolled>>

(* A front index that does not wrap. *)
MutFront ==
  /\ spc = "idle"
  /\ ~overlap => wpc \in {"idle", "ended"}
  /\ IF IsEmptyQueue
     THEN sfile' = current /\ current' = INVALID /\ UNCHANGED <<queue, front>>
     ELSE /\ sfile' = queue[front]
          /\ queue' = [queue EXCEPT ![front] = INVALID]
          /\ front' = front + 1
          /\ UNCHANGED current
  /\ spc' = IF sfile' = INVALID THEN "idle" ELSE "open"
  /\ UNCHANGED <<overlap, rear, nextId, diskVars, writerVars, response, delivered, bounds, rolled>>

DeQueue ==
  /\ sfile' = queue[front]
  /\ queue' = [queue EXCEPT ![front] = INVALID]
  /\ front' = (front + 1) % QueSize

(* que_pop_file: de_queue, or que_remove_current; without a file the answer *)
(* is empty.                                                                *)
ScrapePop ==
  /\ spc = "idle"
  /\ ~overlap => wpc \in {"idle", "ended"}
  /\ IF IsEmptyQueue
     THEN sfile' = current /\ current' = INVALID /\ UNCHANGED <<queue, front>>
     ELSE DeQueue /\ UNCHANGED current
  /\ spc' = IF sfile' = INVALID THEN "idle" ELSE "open"
  /\ UNCHANGED <<overlap, rear, nextId, diskVars, writerVars, response, delivered, bounds, rolled>>

(* open and fstat: the response is the file up to its size at this moment.  *)
(* A file that is gone makes an empty answer.                               *)
ScrapeOpen ==
  /\ spc = "open"
  /\ IF sfile \in exists
     THEN response' = content[sfile] /\ spc' = "remove" /\ UNCHANGED sfile
     ELSE spc' = "idle" /\ sfile' = INVALID /\ UNCHANGED response
  /\ UNCHANGED <<overlap, queVars, diskVars, writerVars, delivered, bounds, rolled>>

Unlink(f) == exists' = exists \ {f} /\ orphan' = (orphan \/ appender = f)

(* The file stays on disk. *)
MutScrapeRemove ==
  /\ spc = "remove"
  /\ delivered' = delivered \o response
  /\ spc' = "idle" /\ sfile' = INVALID /\ response' = <<>>
  /\ UNCHANGED <<overlap, queVars, diskVars, writerVars, bounds, rolled>>

(* RemoveMetricsLogs, then MHD_queue_response. *)
ScrapeRemove ==
  /\ spc = "remove"
  /\ Unlink(sfile)
  /\ delivered' = delivered \o response
  /\ spc' = "idle" /\ sfile' = INVALID /\ response' = <<>>
  /\ UNCHANGED <<overlap, queVars, content, appender, writerVars, bounds, rolled>>

-----------------------------------------------------------------------------
(* Somebody else removes a metric file: what access() is there to notice. *)
FileRemoved ==
  /\ removals < MaxRemovals
  /\ \E f \in exists : Unlink(f)
  /\ removals' = removals + 1
  /\ UNCHANGED <<overlap, queVars, content, appender, writerVars, scrapeVars, delivered, restarts,
                 rolled>>

(* The daemon dies and is started again; the files stay. *)
Restart ==
  /\ restarts < MaxRestarts
  /\ restarts' = restarts + 1
  /\ queue' = EmptyQueue.queue /\ front' = EmptyQueue.front /\ rear' = EmptyQueue.rear
  /\ current' = EmptyQueue.current /\ nextId' = EmptyQueue.nextId
  /\ appender' = NoFile /\ orphan' = FALSE
  /\ wpc' = "idle" /\ wfile' = INVALID
  /\ spc' = "idle" /\ sfile' = INVALID /\ response' = <<>>
  /\ UNCHANGED <<overlap, exists, content, batch, delivered, removals, rolled>>

WriteMetricsLogs == NextFile \/ NameFile \/ OpenFile \/ WriteLog
WebRequestCallback == ScrapePop \/ ScrapeOpen \/ ScrapeRemove

Next == WriteCheck \/ WriteMetricsLogs \/ WebRequestCallback \/ FileRemoved \/ Restart

Spec == Init /\ [][Next]_vars

(* A write that began goes on; clients scrape again and again. *)
Fairness == WF_vars(WriteMetricsLogs) /\ WF_vars(WebRequestCallback)

FairSpec == Spec /\ Fairness

-----------------------------------------------------------------------------
TypeOK ==
  /\ overlap \in Overlaps
  /\ queue \in [0 .. QueSize - 1 -> Files] /\ front \in 0 .. QueSize - 1 /\ rear \in Nat
  /\ current \in Files /\ nextId \in Ids
  /\ exists \subseteq Files /\ content \in [Files -> Seq(Nat)]
  /\ appender \in Files \cup {NoFile} /\ orphan \in BOOLEAN
  /\ wpc \in {"idle", "next", "name", "open", "log", "ended"} /\ wfile \in Files
  /\ batch \in 0 .. MaxBatches
  /\ spc \in {"idle", "open", "remove"} /\ sfile \in Files
  /\ response \in Seq(Nat) /\ delivered \in Seq(Nat)
  /\ removals \in 0 .. MaxRemovals /\ restarts \in 0 .. MaxRestarts /\ rolled \in BOOLEAN

(* The slots in use, oldest first: the k-th is at front + k. *)
Used == (rear - front) % QueSize
Slot(k) == queue[(front + k) % QueSize]

(***************************************************************************)
(* A file is handed out once: the ids in the queue, the current one and the *)
(* one a scrape holds are valid and pairwise different, although ids are    *)
(* given again after IdMax and slots after QueSize.                         *)
(***************************************************************************)
HandedOutOnce ==
  /\ \A k \in 0 .. Used - 1 : Slot(k) \in Ids \ {current, sfile}
  /\ \A j, k \in 0 .. Used - 1 : j # k => Slot(j) # Slot(k)
  /\ current # INVALID => current # sfile

(***************************************************************************)
(* As far as the files go, the METRICLOG thread ends only when the queue is *)
(* full of files that were removed from outside; scrapes, rollovers and     *)
(* restarts never end it.  The database can, see RoomyNeverEnds in Imdb.    *)
(***************************************************************************)
WriterSurvives == wpc = "ended" => removals >= QueSize

(* No batch is served twice, whatever overlaps, and whatever a restart      *)
(* leaves on disk.                                                          *)
ServedOnce == IsInjective(delivered)

(***************************************************************************)
(* If scrapes and writes do not overlap, batches are served in the order    *)
(* they were written, and what is logged goes to the file the next scrape   *)
(* will find: never to none, and never to the file of the invalid id.       *)
(***************************************************************************)
ServedInOrder ==
  ~overlap => \A i, j \in 1 .. Len(delivered) : i < j => delivered[i] < delivered[j]
LogsToCurrent == ~overlap /\ wpc = "log" => current \in Ids /\ appender = current

(* Batch b is being logged, after r restarts and n removals, to a file      *)
(* nobody has removed.                                                      *)
Logging(b, r, n) ==
  wpc = "log" /\ ~orphan /\ batch = b /\ restarts = r /\ removals = n
ServedOrDisturbed(b, r, n) ==
  b \in Range(delivered) \/ rolled \/ restarts # r \/ removals # n

(***************************************************************************)
(* If scrapes and writes do not overlap, every batch that is logged is      *)
(* served, unless its file is rolled over, removed or left by a restart.    *)
(***************************************************************************)
ServedWhenApart ==
  \A b \in 1 .. MaxBatches, r \in 0 .. MaxRestarts, n \in 0 .. MaxRemovals :
    (~overlap /\ Logging(b, r, n)) ~> ServedOrDisturbed(b, r, n)

(***************************************************************************)
(* test_logs.c asserts, round after round, that a write after the current   *)
(* file was read makes a new file, which the next read finds: a write that  *)
(* starts no file goes on with one that can be read.                        *)
(***************************************************************************)
WritesCanBeRead == [][wpc = "idle" /\ wpc' = "log" => current \in Ids]_vars
===========================================================================
