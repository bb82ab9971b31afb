# TLA+ models of gala-gopher

gala-gopher is a daemon that runs observation probes, collects what they print
and passes it on as Prometheus metrics, event logs or Kafka messages. This
directory models the parts of it that are concurrent or have a protocol: the
lock-free ring between threads, the path of a line from a probe to a sink, the
life of a probe under requests, crashes and restarts, how its configuration and
the objects it observes reach its process, the metric database and the metric
files. TLC checks the models
on small instances; TLAPS proves every safety property of the passing runs for every size.

Paths below are relative to the repository; `src/lib/...` is the directory
`src/lib` of the repository.

## The system

| Part | State it keeps | Operations | Talks to |
|---|---|---|---|
| fifo (`src/lib/fifo`) | ring buffer, `in`, `out`, an eventfd | `FifoPut`, `FifoGet` | one producer thread, one consumer thread |
| probe threads (`src/lib/probe/extend_probe.c`, `probe.c`) | status flags, pid, child process | run a child, read its output, put lines | fifo, probe manager, IPC queue |
| ingress (`src/ingress`) | epoll set of all probe fifos | drain fifos, parse a line by its table | metric database, event log, egress fifos |
| egress (`src/egress`), kafka (`src/lib/kafka`) | epoll set of two fifos | drain, produce with retry | librdkafka |
| probe manager (`src/lib/probe/probe_mng.c`) | one `probe_s` per type, the probe_mng lock | start, stop, parse a request, roll back, keepalive | probe threads, IPC queue, snooper |
| IPC queue (`src/common/ipc.c`) | a System V queue | send, receive the last, clear | manager to probe processes |
| snooper (`src/lib/probe/snooper.c`, `snooper.bpf.c`) | snooper configurations and object lists per probe | process exec/exit, cgroup mkdir/rmdir events | manager, IPC queue |
| pod map (`src/lib/probe/pod_mng.c`, `src/common/container.c`) | pods and containers | add, delete, look up | snooper |
| metric database (`src/lib/imdb`) | tables of records with an age | add record, read out, expire | ingress, METRICLOG thread |
| log files (`src/common/logs.cpp`) | circular queue of files, the current file | append, pop | METRICLOG thread, web server, ingress |
| web server (`src/web_server`), REST server (`src/api`) | none of their own | scrape, configure | log files, probe manager |
| resource manager, daemon (`src/resource`, `src/daemon`) | what the configuration switches on | start threads, quit handler | everything |
| measurement definitions, configuration files (`src/lib/meta`, `src/lib/config`) | tables read at start | parse | everything |
| event reporting in probes (`src/common/event.c`) | time of last report per entity | report | probe output |
| probes (`src/probes`) | their own | observe | IPC queue, standard output |

What is hard: many threads (REST, probe_mng, one per probe, ingress,
egress, METRICLOG, web server) share state, most of it without a lock. Ownership of heap
buffers travels through rings. Wakeups are edge-like (an eventfd counter read
back to zero). A scrape and the metric writer meet on one file. A stop joins a thread with the manager's lock held. Processes
die and are restarted by a timer. `PROJECT.json` lists the hazards with their
lines and the properties that guard them.

## Modules

| Module | Models | State and actions |
|---|---|---|
| `BoundedQueue` | what a fifo promises | a sequence, `Put`, `Get`, a put that fails only when full, a get that fails only when empty |
| `Fifo` | `fifo.c` | `in`, `out`, `buffer` and the locals of the two threads; every access between two memory barriers is a step; indices wrap at `IndexMod`, as the code's 32-bit ones do at 2^32 |
| `FifoProofs` | proofs about `Fifo` | |
| `DataPath` | `extend_probe.c`, `nprobe_fprintf`, `ingress.c`, `egress.c`, `kafka.c` | rings as queues (justified by `FifoImplementsQueue`), eventfd counters, the state of each heap object, program counters of the threads, the trace lines of the debug build |
| `DataPathProofs` | proofs about `DataPath` | |
| `ProbeMng` | `probe_mng.c`, `extend_probe.c`, `probe.c`, `ipc.c` | status flags, `tid`, `pid`, threads and processes, message queue, the holder of the lock |
| `ProbeMngProofs` | proofs about `ProbeMng` | |
| `MetricLogs` | `logs.cpp`, `metrics.c`, `web_server.c` | the circular queue of metric files, the current file, files on disk, the writer and a scraping client |
| `MetricLogsProofs` | proofs about `MetricLogs` | |
| `Imdb` | `imdb.c`, `metrics.c` | the tables' records with their ages, the order and weighting of the tables, which of them had a turn, the room left in the buffer; adding a record is one step, the METRICLOG thread's walk one step per record |
| `ImdbProofs` | proofs about `Imdb`, with `SumProofs` | |
| `Snooper` | `snooper.c`, `pod_mng.c`, `snooper.bpf.c` | snooper configurations and objects of a probe, the pod and container map, the machine's processes, zombies, containers and pods, the events about them |
| `SnooperProofs` | lemmas about the operators of `Snooper`, with `SumProofs` | |
| `ProbeConfig` | `probe_mng.c`, `snooper.c`, `ipc.c`, `tcpprobe.c`; extends `Snooper` | the items of a request with backup and rollback, what changed, the messages to the process and how they can be lost, what the process has loaded and observes |
| `ProbeConfigProofs` | proofs about `ProbeConfig`, with `SnooperProofs` | |
| `SumProofs` | lemmas about sums over finite sets | |
| `MC*` | instances for TLC | |

The probe threads appear in two modules that do not share variables. `DataPath`
has one producer per fifo and assumes it stays one; `ProbeMng` shows when that
is so (`OneProducer`). `DataPath` in turn takes the ring as a queue, which
`FifoProofs` proves. A probe's start, stop and death are many steps in
`ProbeMng`, where the races are the subject, and one step each in `ProbeConfig`,
where the configuration is. `Imdb` ends where `MetricLogs` begins: a round's buffer
is the batch that `MetricLogs` writes, and a batch that is refused ends the thread
in both.

### Choices

* The memory barriers (`__sync_synchronize`) order the copy of a slot and the
  publication of an index, so in `Fifo` these are separate steps seen in that order by
  the other thread.
* A line is a model value with a kind (text, partial, dirty, log, event,
  metric). What the parsers do to its text is not modelled; where they can fail
  the model has the failing alternative.
* In `ProbeMng` the probe_mng lock is a program counter `mpc` that is `"idle"`
  when nobody holds it. The probe threads never take the lock; each of their
  accesses to flags, pid or queue is a step.
* `Settled` is the assumption under which the manager is correct: no request and
  no keepalive reaches a probe between the creation of its thread and that thread's
  setting of RUNNING. The code does not enforce it; the run
  `probe_double_start` drops it and shows what follows.
* In `ProbeMng` the data of a request other than the state is one
  configuration value; `ProbeConfig` takes it apart into `cmd`, `snoopers` and `params`.
* `debug` in `DataPath` is the build: `build.sh --debug` defines GOPHER_DEBUG, and
  only then does `DEBUG` format its arguments. Two of its calls read a buffer that
  was handed over just before (`extend_probe.c:103`, `egress.c:125` and `129`); they are steps
  (`ProbeTrace`, `EgressTrace`), so that the buffer can go in between.
* In `Imdb` a record is its key, the number of lines it prints and its age; all
  lines of a table have one length. A record whose labels do not fit their
  buffer prints nothing and so has no lines. Time is counted in rounds: a round of
  the code lasts `sleep(1)` and the walk, which may run commands for every new tgid, so
  `Timeout` rounds are at least as many seconds. `turn` is history: whether a table
  has had a turn (a walk that printed at least its newline) since it was moved to the end.
* In `Snooper` an application configuration is a command name (the pattern and
  the command line match are left out), and objects are counted, not listed: nobody
  looks at their order. The events follow the programs for kernels after 4.18; for
  older ones the rmdir program does not filter the hierarchy and reports
  a removal several times.
* The machine in `Snooper` execs, forks, exits and reaps. An exit raises its event
  while the process is still in `/proc`, where a refresh finds it until it is
  reaped; a fork raises none, because `snooper.bpf.c` hooks exec and exit only. Pids are
  used again. Two history variables name what escapes the daemon: `ghosts`,
  zombies that a refresh made objects of, and `quiet`, processes that were forked
  since the refresh and have executed nothing.
* In `ProbeConfig` a message is sized by its container objects: the fixed part
  takes 3180 of the 4096 bytes of the receive buffer and 100 process objects (8
  bytes each) always fit, while a container object has six strings.
  `RecvMax` objects fit the buffer and `SendMax` the limit of `msgsnd`. A message
  that does not fit makes `msgrcv` fail and stays first in the queue; `clear_ipc_msg`
  cannot take it either. A send may fail for other reasons too (`SendMayFail`): an event ignores
  that, a request is answered as an error and keeps the new configuration. `lost`
  is history: such a message was sent, or not sent, since the last stop that left an
  empty queue.
* A message with a container object is never decoded.
  `deserialize_tlv_container` (`ipc.c:459-582`) compares its offset, which begins behind
  the object's header, with the rest of the whole message and so runs past the object;
  the type it finds there is not one of its own, and its `default` branch neither
  advances nor leaves the loop. What follows the last object is what an earlier message
  left in the static buffer, so instead of looping the function may return with a wrong
  length and the message is dropped: `FailToDecode` has both outcomes. A process in the loop does not look
  at `g_stop`, and a stop waits for it with the lock held (`StopHangs`).
* `careful` in `ProbeConfig` is chosen once per behaviour. It stands for a user
  and a machine that do what the message flags silently require: no request or
  event before the process has read the last message, no snoopers item equal to the
  one in force, no params in the request that starts the probe, and a
  process that lives. `CarefulIsConfigured` says that this is enough while no message
  is lost, and `probe_stale` what happens without the first.
* In `MetricLogs` a scrape may begin while a batch is being written only if
  `overlap` holds; `Overlaps` says which of the two cases an instance explores.
  The code does nothing to keep them apart, and what needs it says so. `OpenFile`
  assumes that the file can be created: an open that goes on failing would also fill the
  queue, and end the writer without any removal.
* Not in the models: failures of `malloc`, and of calls that cannot fail in
  the state they are made in (a `write` of 1 to an eventfd).

## Correctness properties

* **fifo**: producer and consumer never touch one slot together
  (`NoSlotConflict`), what one thread saw stays true until it acts on it
  (`RingInv`), the ring is a bounded queue (`ImplementsQueue`), and is drained
  (`DrainProgress`).
* **data path**: every pointer that travels is to a live object and every live
  object has a holder (`NoUseAfterFree`, `NoLeak`; the traces of the debug build, which
  read buffers that were handed over, are the one known use after free, the
  buffer of a line without newline is the one known leak), no wakeup is lost (`NoLostWakeup`, except after a
  cancel between put and write), a blocking `read` is never made on a zero
  counter (`ReadNeverBlocks`), order per probe and topic (`InOrder`), and every
  line and message gets through or is given up (`LinesAreConsumed`,
  `MessagesLeaveEgress`).
* **probe manager**: one producer per fifo (`OneProducer`), RUNNING and `tid`
  agree with the threads (`RunningIsTid`, `LifecycleInv`), a stop that returned is
  complete (`StopIsComplete`), the lock is given back (`LockIsReleased`), a dead
  process is restarted (`KeepliveRestarts`).
* **requests**: a request with an item that is refused changes nothing
  (`RollbackIsExact`; a request whose message cannot be sent is answered as an error
  too, `probe_mng.c:1004-1007`, and is not rolled back); while no message is
  lost, the process of a careful user has the daemon's configuration
  (`CarefulIsConfigured`; `ProcessIsConfigured` is the same for everybody and fails).
* **snooper**: what exits is forgotten, however often it was added
  (`NoDeadProcess`; a zombie that a refresh finds after its exit event was
  handled stays until the next refresh), what is asked for is observed,
  whichever side of the refresh its event falls (`AllObserved`, except workers forked
  without exec after the refresh, of which the daemon is never told;
  `PodIsObserved` is the same for pods and fails).
* **metric database**: the text stays inside the buffer and the unsigned rest
  of it never wraps (`NeverOverrun`), one record per key, oldest first
  (`TableInv`), a full table forgets no key (`AddLosesNothing`), the table that
  began a round does not begin the next while another has had no turn
  (`FirstGivesWay`; when all have had one the order stays, and a table whose
  turn was only its newline can starve behind others that fill the buffer), with room enough the
  database never ends the thread (`RoomyNeverEnds`) and a record is dropped unprinted
  only behind one without lines (`ExpiresOnlyBlocked`).
* **metric files**: a file is handed out once (`HandedOutOnce`), a batch is
  served at most once (`ServedOnce`), the writer ends only when files were
  removed from outside (`WriterSurvives`); if scrapes and writes do not overlap,
  everything logged goes to a file that will be read (`LogsToCurrent`), is served
  (`ServedWhenApart`) and in order (`ServedInOrder`).

## Runs

| Run | Module / cfg | Bounds | What it shows |
|---|---|---|---|
| `fifo` | `MCFifo` | 2 slots, indices modulo 8, 3 elements | all of the above for the ring; 8 wraps the indices four times round the slots, so the slot sequence crosses the index wrap in every phase |
| `data_path` | `MCDataPath` | 6 lines of all kinds, 2 probes, rings of 1 or 2 slots, 2 attempts, release build with two settings of the channels and debug build with one | a ring of one slot is full as soon as the consumer is late; two slots are needed for a wakeup to stand for two lines |
| `metric_kafka` | `MCDataPath`, `MCMetricKafka.cfg` | as above | **violation**: with `out_channel = "kafka"` the first metric line dereferences NULL |
| `probe_lifecycle` | `MCProbeMng` | an extended and a native probe of which a behaviour uses one (`OneProbe`), 2 threads, 3 requests, 1 event, 1 death | two threads are enough for a start, a stop or a death, and a restart; three requests for start, stop, start; request and event fill the message queue and block the lock holder. The two sorts of probe share only the lock and the queue, so each meets its races alone |
| `probe_double_start` | `MCProbeRace.cfg` | `Settled = FALSE`, 2 requests | **violation**: two threads put into one fifo |
| `probe_stop_lost` | `MCProbeStop.cfg` | 2 requests, 1 death | **violation**: a stop accepted while the process is dead is undone by the keepalive |
| `probe_config` | `MCProbeConfig` | 2 processes, one of them in the container of a pod, 4 lists of configurations, at most 3 objects, 2 containers in a message that is sent and 1 in one that is received, 3 requests, machine steps and deaths together | the longest list has more configurations than fit and others more objects; a pod and its container configured together make a message of two container objects, which jams the queue. Three steps are enough for a process that is asked for, starts again and ends, for a zombie that a request finds, and for a start, an event and a stop; a fourth takes TLC beyond five minutes, and the theorems hold for any number |
| `probe_stale` | `MCProbeStale.cfg` | one application, 4 steps, no deaths, no lost messages | **violation**: of two messages the process acts on the second alone and never loads its programs |
| `probe_pod` | `MCProbePod.cfg` | 2 processes in 2 containers of one pod, 3 steps, room for all objects | **violation**: a pod known by one container is never asked for the other |
| `imdb` | `MCImdb` | 2 tables with lines of length 2 and 3, 3 keys, 2 records per table, 1 printed per round, timeout 2, buffers of 5 and 13 bytes | the small buffer is too short for two tables, the large one is just enough; with one record per round a record waits, and a third key finds the table full |
| `metric_logs` | `MCMetricLogs` | queue of 2 slots, ids 0..2, 4 batches, 2 removals, 1 restart | four files make the ids wrap; two removals are what it takes to fill the queue and end the writer |
| `metrics_stuck` | `MCMetricStuck.cfg` | 2 batches | **violation**: a scrape between choosing and naming a file makes the writer use `gopher_metrics_-1` for ever |

`CHECK_DEADLOCK FALSE` stands where the environment is bounded: when the last
line is printed or the last request answered, the daemon rightly waits. The ring
has no such end and is checked for deadlock. In `imdb` the thread may end.

`RoomyNeverEnds` is sharp: with a buffer of `LEN_1M` bytes, a round whose text and
newlines come to that length or more ends the METRICLOG thread for good
(`ret >= curMaxLen` in `IMDB_DataBase2Prometheus`, a return in
`WriteMetricsLogsMain`), although the code just before it treats a full buffer as
the normal end of a walk.

## Fairness

* `Fifo`, `DataPath`: the daemon's two loops (`IngressMain`, `EgressMain`) and a
  thread inside a call are scheduled. No probe is obliged to print.
* `ProbeMng`: the lock holder and the probe threads are scheduled. The keepalive
  timer never stops, hence strong fairness: the lock is free again and again when
  it comes round. Processes poll their queue (each probe's main loop does), die of
  SIGINT and of SIGPIPE, and print now and then, so that a thread in `fgets`
  gets to test STOPPING. A process that hangs in the decoding of a container object
  does none of this: for it `LockIsReleased` is not claimed, and `ProbeConfig` shows the
  stop that waits (`StopHangs`). Requests, events and deaths are not obliged to happen.
* `Imdb`, `ProbeConfig`: safety only, no fairness.
* `MetricLogs`: a write that began goes on; clients keep scraping, as
  Prometheus does.

## Proofs

Proved by TLAPS for every value of the constants that satisfies the modules'
assumptions:

* `FifoProofs`: `TypeCorrect`, `RingCorrect`, `SlotsNeverConflict`,
  `FifoImplementsQueue`. Assumptions: the size is positive and the index
  modulus is a multiple of it, by at least two, as 2^32 is of a smaller power of two. The inductive
  invariant is `TypeOK /\ RingInv`: `NoSlotConflict` alone is not inductive, since
  nothing in it says that the room a thread has seen is still there. The
  refinement maps the ring to the sequence of the slots from `out` to `in`; a
  failing call takes effect when it compares the indices, a successful one when it
  moves its index. The lemmas before it are modular arithmetic: slots of indices
  closer than the size differ, and wrapping an index keeps its slot.
* `ProbeMngProofs`: `ProbeTypeCorrect`, and under the assumption `Settled`
  `LifecycleCorrect`, `SingleProducer`, `RunningNamesTid`, `StopRelies` and
  `StopCompletes`. The
  inductive invariant is `TypeOK /\ LifecycleInv /\ StopInv`. `OneProducer`
  follows because every thread on its way to set or unset RUNNING is the one in
  `tid` (`ActiveIsTid`), which is so because a thread is created only when no other
  is starting (the assumption) and none is running (RUNNING is set from the one to
  the other, `ActiveIsRunning`). `StopIsComplete` needs that the thread a stop
  joins has cleared the queue and that nobody can refill it, because sending takes
  the lock the stop holds (`StopInv`).
* `DataPathProofs`: `DataPathTypeCorrect`, `ReadsNeverBlock`, `WakeupsAreKept`,
  `BuffersAreAlive`, `BuffersAreFreed`, `TopicsInOrder`. Assumptions: a line is printed
  once and by one probe (lines stand for heap buffers, so two equal texts are
  two lines), every fifo has a slot. Wakeups need only the types and what
  the program counters say (`Control`). Ownership needs more: that the line ingress frees
  is not in a fifo as well. So every line is given a place, its probe and its index in what
  the probe prints, and the invariant (`ProbeFifos`, `Upstream`, `Messages`)
  says that from the probe to the topic the indices of one probe's lines only
  go down. A line is never before itself, hence it is in one place at a time, and the
  order in the topic is the same fact at the last place. That a trace step exists in the
  debug build only, so that the exception of `NoUseAfterFree` is as narrow as it says, is part of the invariant. `OtherChannelsWork` is the other
  side of the run `metric_kafka`: if no metric channel is kafka, the
  daemon does not fail on a metric line.
* `MetricLogsProofs`: `MetricLogsTypeCorrect`, `FilesHandedOutOnce`,
  `FilesNeverEndWriter`, `LoggedToCurrent`, `BatchesServedOnce`,
  `BatchesServedInOrder`. Assumptions: at least two slots, and more ids than
  slots. Ids wrap, so the invariants name a file by its distance `Back(d)` from the
  next id. `IdInv`: the current file, the queue and the file being served are
  the ids given last, without a gap; there are at most `QueSize + 1` of them.
  `GoneInv`: every file in the queue was found missing, and cost a removal. `ApartInv`:
  without overlap the logger has the current file open whenever it writes. `OnceInv`: a
  batch is in one file, in the response or delivered. `OrderInv`: files farther back
  hold earlier batches.
* `ImdbProofs`: `ImdbTypeCorrect`, `BufferNeverOverrun`, `TablesCorrect`,
  `TakesTurns`, `IngressLosesNothing`, `RoomyBufferSuffices` and
  `ExpiredWereBlocked`. Assumptions: the tables are a finite
  nonempty set, capacity, period and line lengths are positive, and the buffer is
  smaller than the modulus of `curMaxLen`. The inductive invariant adds to the
  checked ones that a walk has a table in hand, begins with nothing printed, and a
  round with the whole buffer (`WalkOK`): only so does the byte that
  `NeverOverrun` promises after a table carry over to the next. The lines that fit
  leave a byte because they are divided into one less than what is left
  (`FitsLeavesByte`); the order of tables survives because moving first ones to
  the end is a rotation (`RotationOnto`). The first table gives way because a
  table that had its first turn just now has weighting 1, whatever the modulus, and a
  table without one has 0. `RoomInv`, for roomy buffers: what is
  left of the buffer is more than the sum of what the tables still to come can
  print. `PaceInv`, for the records: the place of a record that no empty one
  blocks, and `Period` for every round it has seen, add up to at most the
  capacity, so that a record that is too old has no place left.
* `ProbeConfigProofs`, for any machine, lists and parameters: `RollbackExact`,
  `NoDeadProcessObserved`, `ProbeConfigTypeCorrect`, `AllAreObserved`,
  `CarefulUserConfigured`. Assumptions: a process has a pid, a command and
  at most one container, a container one pod, and the machine is finite.
  `RollbackInv` says that while a request is in progress every part of the
  configuration is what the request found, or its item has been parsed and the
  backup is; setting an item's bit before it is parsed is what makes the second
  case cover the item that fails. `ObservedInv`: who is observed is alive, named by
  the request, a zombie that the refresh found, or has its exit among the events to
  come, in the backup too;
  `MapInv` adds that the container map follows the containers and the events to
  come. `SeenInv`: who is alive and asked for is observed, or has its exec
  to come, or was forked since the refresh, or something was left out; and
  where the exit of an earlier process with the same pid is to come, the exec
  comes behind it. `CarefulInv`: while nothing is lost every message in the
  queue can be read and decoded (`Plain`), and the process has the
  daemon's configuration, or the last message will give it.
* `SnooperProofs` and `SumProofs` hold what these proofs need about the generation
  of objects (a fold over configurations and over the containers of a pod, limited by a
  sum) and about sums over sets. Folds and sums of the community modules are
  recursive functions; that they exist, and their values, is proved by taking a
  least counterexample (`WFMin`), which needs no induction rule with an operator as
  parameter.

So every invariant and action property that a passing run checks is also a
theorem. `RoomInv` and `PaceInv` were tried with TLC on the instance of the run
`imdb` before they were proved. Only model-checked is liveness, since fairness and ENABLED are out of
the prover's reach: `DrainProgress`, `LinesAreConsumed`, `MessagesLeaveEgress`,
`LockIsReleased`, `KeepliveRestarts` and `ServedWhenApart`. The fairness part of a
specification is not used by any proof.

## Not modelled

See `PROJECT.json` for every component. The eBPF programs, the collectors of
the native probes and the Java, Python and shell probes are environment. Parsing
of parameters, configuration files and measurement definitions is sequential and
has no state afterwards. gaussdb snoopers copy their configuration and take no part
in events. Events that a perf buffer loses, or that two processors
deliver out of order, are not modelled: nothing in the code repairs them before the
next request. Neither are the races on memory that the pod map and the static message
buffer of `ipc.c` are exposed to, nor the quit handler.

The endless loop of `deserialize_tlv_container` and the two reads of the debug build after a
hand-over are modelled as what the code does and stated as exceptions of
`CarefulIsConfigured` and `NoUseAfterFree`; the hazards in `PROJECT.json` name their lines.
`probe_config` reaches the loop, the stop that waits for it and the jammed queue, and `data_path` the two reads.

Met while reading, outside the models: `add_snooper_conf_gaussdb` tests
`ip && !(ip[0] != 0)` and so skips the strings that are not empty, and
`gen_snooper_by_procname` compares `!__is_proc_dir(...)` with -1, which is never true.

## Plan

1. Done: `Fifo`, `DataPath`, `ProbeMng`, `MetricLogs`, `Imdb`, `Snooper`,
   `ProbeConfig`, and proofs of all their safety properties.
2. Next: container messages and the debug build's traces as violation runs of their
   own; the conditions under which the refuted properties hold, as theorems like
   `OtherChannelsWork`; the daemon's quit handler; event report periods.
