------------------------------- MODULE Imdb -------------------------------
(***************************************************************************)
(* The in-memory metric database.  Ingress adds a record per metric line;   *)
(* once a second the METRICLOG thread prints the records of all tables into *)
(* one buffer, deleting what it printed and what is too old, and passes the *)
(* buffer on to the metric files (module MetricLogs).                       *)
(*                                                                          *)
(* Both hold the database's lock for a whole call.  The thread's call is    *)
(* cut into one step per record here; wpc says that it holds the lock.      *)
(* Every record it looks at is deleted or ends the walk, so the record in   *)
(* hand is always the first one.  Time moves between rounds, which take     *)
(* less than their interval of one second.                                  *)
(*                                                                          *)
(* A record is its key, the number of its lines (its metrics with a value;  *)
(* none also stands for labels that do not fit MAX_LABELS_BUFFER_SIZE) and  *)
(* its age.  The lines of a table have one length.                          *)
(***************************************************************************)
EXTENDS Integers, Sequences, FiniteSets, FiniteSetsExt

CONSTANTS
  Tables, Keys,
  LineLen,          \* [Tables -> length of a printed line]
  LineCounts,       \* how many metrics with a value a record may have
  RecCap,           \* recordsCapability
  Period,           \* DEFAULT_PERIOD_RECORD_NUM
  Timeout,          \* g_recordTimeout, in rounds
  Buffers,          \* sizes of the buffer to explore, LEN_1M in the code
  U32,              \* modulus of curMaxLen
  CharMod,          \* modulus of weighting
  FilesMayFail      \* whether wr_metrics_logs may refuse a batch

ASSUME TableAssumption ==
  /\ IsFiniteSet(Tables) /\ Tables # {} /\ LineLen \in [Tables -> Nat \ {0}]
  /\ RecCap \in Nat \ {0} /\ Period \in Nat \ {0} /\ Timeout \in Nat
  /\ IsFiniteSet(LineCounts) /\ LineCounts # {} /\ LineCounts \subseteq Nat
ASSUME BufferAssumption ==
  /\ U32 \in Nat /\ CharMod \in Nat \ {0, 1} /\ FilesMayFail \in BOOLEAN
  /\ Buffers \subseteq 1 .. U32 - 1

VARIABLES
  bufMax,                       \* chosen once
  records, order, weighting,    \* struct IMDB_DataBaseMgr
  wpc, ti, room, total, index,  \* METRICLOG thread: IMDB_DataBase2Prometheus, IMDB_Tbl2Prometheus
  due,                          \* a second has passed since the last round
  blocked,                      \* keys a walk left behind a record without lines
  turn                          \* what a table did since it was last moved to the end

walkVars == <<ti, room, total, index>>
vars == <<bufMax, records, order, weighting, wpc, walkVars, due, blocked, turn>>

TablesNum == Cardinality(Tables)
Record == [key : Keys, lines : LineCounts, age : 0 .. Timeout + 1]

KeysOf(s) == {s[i].key : i \in 1 .. Len(s)}

Init ==
  /\ bufMax \in Buffers
  /\ records = [t \in Tables |-> <<>>]
  /\ order \in {o \in [1 .. TablesNum -> Tables] : \A i, j \in 1 .. TablesNum : o[i] = o[j] => i = j}
  /\ weighting = [t \in Tables |-> 0]
  /\ wpc = "sleep" /\ ti = 1 /\ room = bufMax /\ total = 0 /\ index = 0
  /\ due = TRUE
  /\ blocked = [t \in Tables |-> {}]
  /\ turn = [t \in Tables |-> "silent"]

LockFree == wpc \in {"sleep", "refused", "ended"}

-----------------------------------------------------------------------------
(* Ingress: IMDB_DataBaseMgrCreateRec. *)

(* HASH_deleteRecord of the record with key k, if there is one. *)
Without(s, k) ==
  IF k \notin KeysOf(s) THEN s
  ELSE LET at == CHOOSE i \in 1 .. Len(s) : s[i].key = k
       IN [i \in 1 .. Len(s) - 1 |-> IF i < at THEN s[i] ELSE s[i + 1]]

(* The records are counted before the old one is removed. *)
MutAddCap(s, r) ==
  IF Len(s) >= RecCap THEN Without(s, r.key) ELSE Append(Without(s, r.key), r)

(* The old record is not looked for. *)
MutAddTwice(s, r) == IF Len(s) >= RecCap THEN s ELSE Append(s, r)

(* A table that is full refuses the record, after the old one is gone. *)
TableAddRecord(s, r) ==
  LET others == Without(s, r.key)
  IN IF Len(others) >= RecCap THEN others ELSE Append(others, r)

AddRecord(t, k, n) ==
  /\ LockFree
  /\ records' = [records EXCEPT ![t] = TableAddRecord(@, [key |-> k, lines |-> n, age |-> 0])]
  /\ blocked' = [blocked EXCEPT ![t] = @ \ {k}]
  /\ UNCHANGED <<bufMax, order, weighting, wpc, walkVars, due, turn>>

(* A second passes; ages beyond the timeout are all alike, and when the      *)
(* thread has ended nobody looks at them.                                    *)
Tick ==
  /\ wpc = "sleep" /\ ~due
  /\ records' = [t \in Tables |->
       [i \in 1 .. Len(records[t]) |->
         [records[t][i] EXCEPT !.age = IF @ > Timeout THEN @ ELSE @ + 1]]]
  /\ due' = TRUE
  /\ UNCHANGED <<bufMax, order, weighting, wpc, walkVars, blocked, turn>>

-----------------------------------------------------------------------------
(* METRICLOG thread: WriteMetricsLogs. *)

WriteBegin ==
  /\ wpc = "sleep" /\ due
  /\ wpc' = "table" /\ due' = FALSE
  /\ UNCHANGED <<bufMax, records, order, weighting, walkVars, blocked, turn>>

Table == order[ti]
Left == (room - total) % U32
First == Head(records[Table])

(* Expired one second too early. *)
MutExpired(r) == r.age >= Timeout
Expired(r) == r.age > Timeout

(* The zero at the end of a line is not counted. *)
MutFits(t, r) ==
  IF r.lines <= Left \div LineLen[t] THEN r.lines ELSE Left \div LineLen[t]

(* IMDB_Rec2Prometheus: how many of the lines go into what is left of the   *)
(* buffer, with the zero that __snprintf puts after the last.               *)
Fits(t, r) ==
  IF r.lines <= (Left - 1) \div LineLen[t] THEN r.lines ELSE (Left - 1) \div LineLen[t]

(* A table without records prints nothing, not even its newline. *)
TableBegin ==
  /\ wpc = "table" /\ ti <= TablesNum
  /\ IF records[Table] = <<>>
     THEN ti' = ti + 1 /\ UNCHANGED wpc
     ELSE wpc' = "record" /\ UNCHANGED ti
  /\ UNCHANGED <<bufMax, records, order, weighting, room, total, index, due, blocked, turn>>

(* One record more than the period allows. *)
MutWalking == wpc = "record" /\ records[Table] # <<>> /\ index <= Period
Walking == wpc = "record" /\ records[Table] # <<>> /\ index < Period
DropFirst == records' = [records EXCEPT ![Table] = Tail(@)]

Expire ==
  /\ Walking /\ Expired(First)
  /\ DropFirst
  /\ blocked' = [blocked EXCEPT ![Table] = @ \ {First.key}]
  /\ UNCHANGED <<bufMax, order, weighting, wpc, walkVars, due, turn>>

(* A record of which only some lines fit is deleted with the others. *)
EmitRecord ==
  /\ Walking /\ ~Expired(First) /\ Fits(Table, First) > 0
  /\ total' = total + Fits(Table, First) * LineLen[Table]
  /\ index' = index + 1
  /\ DropFirst
  /\ blocked' = [blocked EXCEPT ![Table] = @ \ {First.key}]
  /\ UNCHANGED <<bufMax, order, weighting, wpc, ti, room, due, turn>>

(* The return value of IMDB_Tbl2Prometheus: what was printed and a newline. *)
Printed == total + 1

TooLong == Printed >= room

(***************************************************************************)
(* The walk ends after Period records, at the end of the table or at a      *)
(* record of which nothing is printed, be it for want of room or of lines.  *)
(* IMDB_DataBase2Prometheus gives up if the buffer has no byte left, and    *)
(* WriteMetricsLogsMain with it.                                            *)
(***************************************************************************)
TableEnd ==
  /\ wpc = "record"
  /\ Walking => ~Expired(First) /\ Fits(Table, First) = 0
  /\ blocked' = IF Walking /\ First.lines = 0
                THEN [blocked EXCEPT ![Table] = KeysOf(records[Table])] ELSE blocked
  /\ IF TooLong
     THEN wpc' = "ended" /\ UNCHANGED <<weighting, turn, ti, room>>
     ELSE /\ weighting' = [weighting EXCEPT ![Table] = (@ + 1) % CharMod]
          /\ turn' = [turn EXCEPT ![Table] = "now"]
          /\ room' = (room - Printed) % U32
          /\ ti' = ti + 1
          /\ wpc' = "table"
  /\ total' = 0 /\ index' = 0
  /\ UNCHANGED <<bufMax, records, order, due>>

(***************************************************************************)
(* IMDB_AdjustTblPrio moves first tables to the end until one of weighting  *)
(* 0 is first or all have been moved: how many it moves.                    *)
(***************************************************************************)
Requeued ==
  IF weighting[order[1]] = 0 THEN 0
  ELSE Min({n \in 1 .. TablesNum - 1 : weighting[order[n + 1]] = 0} \cup {TablesNum})

Moved(t) == \E i \in 1 .. Requeued : order[i] = t
Rotated == [i \in 1 .. TablesNum |-> order[((i + Requeued - 1) % TablesNum) + 1]]
NextTurn ==
  [t \in Tables |-> IF Moved(t) THEN "silent" ELSE IF turn[t] = "now" THEN "before" ELSE turn[t]]

(* RequeueTable leaves the weighting of the table it moves. *)
MutAdjustTblPrio == order' = Rotated /\ turn' = NextTurn /\ UNCHANGED weighting

AdjustTblPrio ==
  /\ order' = Rotated /\ turn' = NextTurn
  /\ weighting' = [t \in Tables |-> IF Moved(t) THEN 0 ELSE weighting[t]]

(* The room left is not set for the next round. *)
MutWriteEnd ==
  /\ wpc = "table" /\ ti > TablesNum
  /\ AdjustTblPrio
  /\ wpc' = "sleep" /\ ti' = 1 /\ total' = 0 /\ index' = 0
  /\ UNCHANGED <<bufMax, records, room, due, blocked>>

(* The buffer, unless it is empty, goes to wr_metrics_logs, whose failure   *)
(* ends the thread.  The locals of the walk are set for the next round.     *)
WriteEnd ==
  /\ wpc = "table" /\ ti > TablesNum
  /\ AdjustTblPrio
  /\ \/ wpc' = "sleep"
     \/ FilesMayFail /\ room # bufMax /\ wpc' = "refused"
  /\ ti' = 1 /\ room' = bufMax /\ total' = 0 /\ index' = 0
  /\ UNCHANGED <<bufMax, records, due, blocked>>

WriteMetricsLogs == WriteBegin \/ TableBegin \/ Expire \/ EmitRecord \/ TableEnd \/ WriteEnd

Next ==
  \/ \E t \in Tables, k \in Keys, n \in LineCounts : AddRecord(t, k, n)
  \/ Tick
  \/ WriteMetricsLogs

Spec == Init /\ [][Next]_vars

-----------------------------------------------------------------------------
TypeOK ==
  /\ bufMax \in Buffers
  /\ records \in [Tables -> Seq(Record)]
  /\ order \in [1 .. TablesNum -> Tables]
  /\ weighting \in [Tables -> 0 .. CharMod - 1]
  /\ wpc \in {"sleep", "table", "record", "refused", "ended"}
  /\ ti \in 1 .. TablesNum + 1 /\ room \in 0 .. U32 - 1
  /\ total \in Nat /\ index \in 0 .. Period
  /\ due \in BOOLEAN
  /\ blocked \in [Tables -> SUBSET Keys]
  /\ turn \in [Tables -> {"silent", "now", "before"}]

(***************************************************************************)
(* The printed text and the newline of every table stay inside the buffer,  *)
(* and curMaxLen never wraps below zero: while a table is printed there is  *)
(* a byte left for the newline, and after it one for the next table.        *)
(***************************************************************************)
NeverOverrun ==
  /\ room <= bufMax
  /\ wpc = "table" => room >= 1
  /\ wpc = "record" => total < room

(***************************************************************************)
(* A table holds one record per key and never more than its capacity, the   *)
(* oldest first: a refreshed record goes to the end with its new time.      *)
(***************************************************************************)
TableInv ==
  \A t \in Tables :
    LET s == records[t] IN
    /\ Len(s) <= RecCap
    /\ \A i, j \in 1 .. Len(s) : i < j => s[i].key # s[j].key /\ s[i].age >= s[j].age

(***************************************************************************)
(* The table that begins a round, and so finds the whole buffer free, does  *)
(* not begin the next one too while some table has had no turn since it was *)
(* last moved to the end; and no table is lost by moving.  A turn is a walk *)
(* that printed at least the newline, which every table with records gets.  *)
(***************************************************************************)
FirstGivesWay ==
  [][wpc = "table" /\ wpc' \in {"sleep", "refused"} =>
       /\ turn[order[1]] = "now" /\ (\E t \in Tables : turn[t] = "silent") => order'[1] # order[1]
       /\ \A t \in Tables : \E i \in 1 .. TablesNum : order'[i] = t]_vars

(* The buffer holds all that the tables can print in one round. *)
Roomy ==
  bufMax > MapThenSumSet(LAMBDA t : LineLen[t] * Max(LineCounts) * Min({Period, RecCap}) + 1, Tables)

(* Ingress never makes a table forget a key: a full table refuses new keys  *)
(* only, and only the METRICLOG thread removes records.                     *)
AddLosesNothing == [][LockFree => \A t \in Tables : KeysOf(records[t]) \subseteq KeysOf(records'[t])]_vars

(* With a roomy buffer the database never ends the METRICLOG thread. *)
RoomyNeverEnds == Roomy => wpc # "ended"

(***************************************************************************)
(* With a roomy buffer, a table that can be printed within the timeout and  *)
(* a thread that lives, a record that has something to print is dropped     *)
(* unprinted only if a record without lines stood before it.                *)
(***************************************************************************)
ExpiresOnlyBlocked ==
  [][\A t \in Tables :
       Roomy /\ RecCap <= Period * Timeout /\ Walking /\ t = Table
         /\ First.lines > 0 /\ total' = total /\ records'[t] # records[t]
       => First.key \in blocked[t]]_vars
===========================================================================
