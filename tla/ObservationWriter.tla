-------------------------- MODULE ObservationWriter --------------------------
(***************************************************************************)
(* The database writer of the collector (pmarb/db/writer.py): a bounded    *)
(* queue the hot path puts rows on without waiting, a task on the event    *)
(* loop that takes batches off it and hands them to a worker thread, and a *)
(* shutdown that cancels the task and drains the queue on a second thread. *)
(*                                                                         *)
(* The event loop runs one task at a time between awaits; the two worker   *)
(* threads run beside it and beside each other.  The build is Python 3.12  *)
(* (Dockerfile): there wait_for on a queue that holds a row does not give  *)
(* up the event loop.                                                      *)
(***************************************************************************)
EXTENDS Integers, Sequences, FiniteSets, Functions

CONSTANTS
  Row,         \* the rows the collector may submit, each once
  MaxQueue,    \* maxsize
  BatchSize    \* batch_size

ASSUME WriterAssumption == MaxQueue \in Nat \ {0} /\ BatchSize \in Nat \ {0}

VARIABLES
  q,         \* _q
  task,      \* where _run is
  thread,    \* the worker threads: _run's batch and _drain_remaining
  stopping,  \* how far stop has come
  queued, written, dropped, failed,    \* stats
  \* history
  offered,   \* the rows submitted so far
  refused,   \* of those, the rows dropped
  stored,    \* the rows committed
  givenUp,   \* the rows of batches whose write raised before it committed
  abandoned, \* the batch cancelled before its thread began
  overlap    \* did both threads ever hold rows at once?

statVars == <<queued, written, dropped, failed>>
history  == <<offered, refused, stored, givenUp, abandoned, overlap>>
vars == <<q, task, thread, stopping, statVars, history>>

\* A worker thread: the rows it has, how far _write has come with them, the
\* counter it adds them to and the value of that counter it has loaded.
Worker == {"run", "drain"}
Job == [rows : Seq(Row), phase : {"idle", "queued", "insert", "add", "store"},
        counter : {"written", "failed"}, seen : Nat]
Idle == [rows |-> <<>>, phase |-> "idle", counter |-> "written", seen |-> 0]

TypeOK ==
  /\ q \in Seq(Row) /\ Len(q) <= MaxQueue
  /\ task \in {"off", "get", "write", "ended"}
  /\ thread \in [Worker -> Job]
  /\ stopping \in {"no", "cancelled", "draining", "stopped"}
  /\ queued \in Nat /\ written \in Nat /\ dropped \in Nat /\ failed \in Nat
  /\ offered \subseteq Row /\ refused \subseteq Row
  /\ stored \subseteq Row /\ givenUp \subseteq Row /\ abandoned \in Seq(Row)
  /\ overlap \in BOOLEAN

Init ==
  /\ q = <<>> /\ task = "off" /\ thread = [w \in Worker |-> Idle]
  /\ stopping = "no"
  /\ queued = 0 /\ written = 0 /\ dropped = 0 /\ failed = 0
  /\ offered = {} /\ refused = {} /\ stored = {} /\ givenUp = {}
  /\ abandoned = <<>> /\ overlap = FALSE

-----------------------------------------------------------------------------
(* The event loop                                                          *)

Start ==
  /\ task = "off"
  /\ task' = "get"
  /\ UNCHANGED <<q, thread, stopping, statVars, history>>

\* Mutant of QueueFull: rows are dropped during a write.
FullWhileWriting == Len(q) >= MaxQueue \/ task = "write"

QueueFull == Len(q) >= MaxQueue

\* submit(row): put it or drop it, never wait.  The collector submits between
\* start and stop only.
Submit(r) ==
  /\ task # "off" /\ stopping = "no" /\ r \notin offered
  /\ offered' = offered \cup {r}
  /\ \/ /\ ~QueueFull
        /\ q' = Append(q, r) /\ queued' = queued + 1
        /\ UNCHANGED <<dropped, refused>>
     \/ /\ QueueFull
        /\ dropped' = dropped + 1 /\ refused' = refused \cup {r}
        /\ UNCHANGED <<q, queued>>
  /\ UNCHANGED <<task, thread, stopping, written, failed, stored, givenUp,
                 abandoned, overlap>>

\* Mutant of Ready: only a full batch is written.
FullBatchOnly == Len(q) >= BatchSize

BatchLen == IF Len(q) < BatchSize THEN Len(q) ELSE BatchSize

Ready == q # <<>>
Rest  == SubSeq(q, BatchLen + 1, Len(q))

\* _run takes rows until the batch is full or the queue is empty, then hands the
\* batch to a thread.  It does not suspend in between, so no cancellation and no
\* producer can come between two rows of a batch.
Collect ==
  /\ task = "get" /\ Ready
  /\ thread' = [thread EXCEPT !["run"] =
                  [Idle EXCEPT !.rows = SubSeq(q, 1, BatchLen), !.phase = "queued"]]
  /\ q' = Rest
  /\ task' = "write"
  /\ UNCHANGED <<stopping, statVars, history>>

BatchDone ==
  /\ task = "write" /\ thread["run"].phase = "idle"
  /\ task' = "get"
  /\ UNCHANGED <<q, thread, stopping, statVars, history>>

\* Cancelling the await of a thread that has not begun takes its work off the
\* executor; a thread that has begun goes on alone.
Cancelled(job) == IF job.phase = "queued" THEN Idle ELSE job

Stop ==
  /\ stopping = "no" /\ task \in {"get", "write"}
  /\ stopping' = "cancelled" /\ task' = "ended"
  /\ thread' = [thread EXCEPT !["run"] = Cancelled(@)]
  /\ abandoned' = IF thread["run"].phase = "queued" THEN thread["run"].rows
                                                    ELSE abandoned
  /\ UNCHANGED <<q, statVars, offered, refused, stored, givenUp, overlap>>

StopReturns ==
  /\ stopping = "draining" /\ thread["drain"].phase = "idle"
  /\ stopping' = "stopped"
  /\ UNCHANGED <<q, task, thread, statVars, history>>

-----------------------------------------------------------------------------
(* The worker threads                                                      *)

RunBegins ==
  /\ thread["run"].phase = "queued"
  /\ thread' = [thread EXCEPT !["run"].phase = "insert"]
  /\ UNCHANGED <<q, task, stopping, statVars, history>>

\* _drain_remaining empties the queue, and writes if there was anything in it.
DrainRemaining ==
  /\ stopping = "cancelled"
  /\ stopping' = "draining"
  /\ q' = <<>>
  /\ IF q = <<>>
     THEN UNCHANGED <<thread, overlap>>
     ELSE /\ thread' = [thread EXCEPT !["drain"] =
                          [Idle EXCEPT !.rows = q, !.phase = "insert"]]
          /\ overlap' = (overlap \/ thread["run"].phase # "idle")
  /\ UNCHANGED <<task, statVars, offered, refused, stored, givenUp, abandoned>>

\* The transaction of _write: it commits; it raises; or it commits and raises,
\* and the rows are counted as failed all the same.
Insert(w) ==
  /\ thread[w].phase = "insert"
  /\ \E committed \in BOOLEAN, counter \in {"written", "failed"} :
       /\ counter = "written" => committed
       /\ thread' = [thread EXCEPT ![w] = [@ EXCEPT !.phase = "add", !.counter = counter]]
       /\ IF committed
          THEN stored' = stored \cup Range(thread[w].rows) /\ UNCHANGED givenUp
          ELSE givenUp' = givenUp \cup Range(thread[w].rows) /\ UNCHANGED stored
  /\ UNCHANGED <<q, task, stopping, statVars, offered, refused, abandoned, overlap>>

\* `stats.c += len(rows)` loads the counter, calls len and stores the sum: the
\* other thread may run in between.
LoadCounter(w) ==
  /\ thread[w].phase = "add"
  /\ thread' = [thread EXCEPT ![w] = [@ EXCEPT !.phase = "store",
                  !.seen = IF thread[w].counter = "written" THEN written ELSE failed]]
  /\ UNCHANGED <<q, task, stopping, statVars, history>>

\* Mutants of Total: a batch is counted as one row; a batch is counted as full.
TotalOfBatches(job) == job.seen + 1
TotalIfFull(job) == job.seen + BatchSize

Total(job) == job.seen + Len(job.rows)

StoreCounter(w) ==
  /\ thread[w].phase = "store"
  /\ thread' = [thread EXCEPT ![w] = Idle]
  /\ written' = IF thread[w].counter = "written" THEN Total(thread[w]) ELSE written
  /\ failed'  = IF thread[w].counter = "failed" THEN Total(thread[w]) ELSE failed
  /\ UNCHANGED <<q, task, stopping, queued, dropped, history>>

Write(w) == Insert(w) \/ LoadCounter(w) \/ StoreCounter(w)

-----------------------------------------------------------------------------
Loop == Start \/ Collect \/ BatchDone \/ StopReturns

Next ==
  \/ Loop \/ Stop
  \/ \E r \in Row : Submit(r)
  \/ DrainRemaining \/ RunBegins
  \/ \E w \in Worker : Write(w)

\* The loop runs its tasks, the executor its threads, and the database answers or
\* refuses.  Nothing is assumed of the collector.
Fairness ==
  /\ WF_vars(Loop) /\ WF_vars(DrainRemaining) /\ WF_vars(RunBegins)
  /\ \A w \in Worker : WF_vars(Write(w))

Spec == Init /\ [][Next]_vars /\ Fairness

-----------------------------------------------------------------------------
(* Properties                                                              *)

\* The rows a worker has and has not yet brought to a commit or an exception.
InHand(w) ==
  IF thread[w].phase \in {"queued", "insert"} THEN Range(thread[w].rows) ELSE {}

Waiting == Range(q) \cup InHand("run") \cup InHand("drain")
Settled == stored \cup givenUp

\* Until a drain overtakes a batch still being written, the four counters account
\* for every row the collector submitted, whatever the database did.
StatsAccount ==
  ~overlap => queued = Len(q) + Len(thread["run"].rows) + Len(thread["drain"].rows)
                       + written + failed + Len(abandoned)

\* With a drain that overlaps a batch an update of a counter may be lost, but a
\* row is never counted twice: what is reported written or failed was queued.
NeverOvercounts == written + failed <= queued

\* Every row taken is eventually stored, given up or abandoned: an idle queue is
\* flushed and a stop drains it.
RowsSettle == \A r \in Row : r \in Waiting ~> r \notin Waiting

\* The writer implements the ledger its callers rely on.
Ledger == INSTANCE RowLedger WITH
            Capacity <- MaxQueue, waiting <- Waiting, abandoned <- Range(abandoned),
            closing <- (stopping # "no")
ImplementsLedger == Ledger!Spec
=============================================================================
