----------------------- MODULE ObservationWriter_proofs -----------------------
(***************************************************************************)
(* What is proved of ObservationWriter for every set of rows, every bound  *)
(* on the queue and every batch size: its type invariant, that its         *)
(* counters account for every row it took, that even a shutdown that       *)
(* loses an update of a counter never counts a row twice, and that it      *)
(* implements the ledger its callers rely on.                              *)
(***************************************************************************)
EXTENDS ObservationWriter, SequenceTheorems, FiniteSetTheorems, TLAPS

Held(w) == Len(thread[w].rows)
Counter(c) == IF c = "written" THEN written ELSE failed
Other(w) == IF w = "run" THEN "drain" ELSE "run"

\* Who may hold rows at each stage of the writer's life.
Stages ==
  /\ \A w \in Worker : thread[w].phase = "idle" => thread[w].rows = <<>>
  /\ task \in {"off", "get"} => thread["run"].phase = "idle"
  /\ thread["run"].phase = "queued" => task = "write"
  /\ thread["drain"].phase # "queued"
  /\ stopping \in {"no", "cancelled"} => thread["drain"].phase = "idle"
  /\ stopping = "no" => abandoned = <<>>
  /\ stopping # "no" => task = "ended"
  /\ ~overlap => thread["run"].phase = "idle" \/ thread["drain"].phase = "idle"

\* A loaded value is never ahead of its counter, and it is the counter's value as
\* long as the other thread has rows to count or has not begun.
Loaded ==
  \A w \in Worker : thread[w].phase = "store" =>
    /\ thread[w].seen <= Counter(thread[w].counter)
    /\ \/ ~overlap
       \/ stopping \in {"no", "cancelled"}
       \/ thread[Other(w)].phase # "idle"
       => thread[w].seen = Counter(thread[w].counter)

Accounted == Len(q) + Held("run") + Held("drain") + written + failed + Len(abandoned)

\* The sum never exceeds the rows queued, and equals it while no drain has
\* overlapped a batch.
Balance == Accounted <= queued /\ (~overlap => Accounted = queued)

IInv == TypeOK /\ Stages /\ Loaded /\ Balance

-----------------------------------------------------------------------------
(* Lemmas about the operators                                              *)

\* A batch and the rest of the queue are the queue cut in two.
LEMMA BatchAndRest ==
  ASSUME NEW s \in Seq(Row), NEW n \in Nat, n <= Len(s)
  PROVE  /\ SubSeq(s, 1, n) \in Seq(Row) /\ SubSeq(s, n + 1, Len(s)) \in Seq(Row)
         /\ Len(SubSeq(s, 1, n)) + Len(SubSeq(s, n + 1, Len(s))) = Len(s)
         /\ Len(SubSeq(s, n + 1, Len(s))) <= Len(s)
<1> DEFINE batch == SubSeq(s, 1, n)
           rest  == SubSeq(s, n + 1, Len(s))
<1>1. Len(s) \in Nat /\ \A i \in 1..Len(s) : s[i] \in Row
  BY LenProperties, ElementOfSeq
<1>2. batch \in Seq(Row) /\ Len(batch) = n
  <2>1. \A i \in 1..n : s[i] \in Row  BY <1>1
  <2>2. QED  BY <2>1, SubSeqProperties
<1>3. rest \in Seq(Row) /\ Len(rest) = Len(s) - n
  <2>1. \A i \in (n + 1)..Len(s) : s[i] \in Row  BY <1>1
  <2>2. n + 1 \in Int /\ Len(s) \in Int  BY <1>1
  <2>3. QED  BY <1>1, <2>1, <2>2, SubSeqProperties
<1> HIDE DEF batch, rest
<1>4. /\ batch \in Seq(Row) /\ rest \in Seq(Row)
      /\ Len(batch) + Len(rest) = Len(s) /\ Len(rest) <= Len(s)
  BY <1>1, <1>2, <1>3
<1>5. QED  BY <1>4 DEF batch, rest

\* The rows of a sequence of rows are rows.
LEMMA RangeOfRows == ASSUME NEW s \in Seq(Row) PROVE Range(s) \subseteq Row
  BY LenProperties DEF Range
-----------------------------------------------------------------------------
(* Type correctness                                                        *)

LEMMA TypeInit == Init => TypeOK
<1>1. Idle \in Job  BY EmptySeq DEF Idle, Job
<1>2. <<>> \in Seq(Row) /\ Len(<<>>) = 0  BY EmptySeq
<1>3. Len(<<>>) <= MaxQueue  BY <1>2, WriterAssumption
<1>4. SUFFICES ASSUME Init PROVE TypeOK  OBVIOUS
<1>5. q \in Seq(Row) /\ Len(q) <= MaxQueue /\ abandoned \in Seq(Row)
  BY <1>2, <1>3, <1>4, Zenon DEF Init
<1>6. thread \in [Worker -> Job]  BY <1>1, <1>4 DEF Init
<1>7. QED  BY <1>4, <1>5, <1>6 DEF Init, TypeOK

\* The event loop's steps keep the types.
LEMMA TypeLoop ==
  ASSUME TypeOK, Start \/ Collect \/ BatchDone \/ Stop \/ StopReturns
  PROVE  TypeOK'
<1> USE DEF TypeOK, Job, Worker, statVars, history
<1>1. CASE Start  BY <1>1 DEF Start
<1>2. CASE Collect
  <2>1. BatchLen \in Nat /\ BatchLen <= Len(q)
    BY WriterAssumption, LenProperties DEF BatchLen
  <2>2. /\ SubSeq(q, 1, BatchLen) \in Seq(Row) /\ Rest \in Seq(Row)
        /\ Len(Rest) <= Len(q)
    BY <2>1, BatchAndRest DEF Rest
  <2>3. Len(q) \in Nat /\ Len(Rest) \in Nat  BY <2>2, LenProperties
  <2>4. Len(Rest) <= MaxQueue  BY <2>2, <2>3, WriterAssumption
  <2>5. [Idle EXCEPT !.rows = SubSeq(q, 1, BatchLen), !.phase = "queued"] \in Job
    BY <2>2 DEF Idle
  <2>6. thread' \in [Worker -> Job]  BY <1>2, <2>5 DEF Collect
  <2>7. QED  BY <1>2, <2>2, <2>4, <2>6 DEF Collect
<1>3. CASE BatchDone  BY <1>3 DEF BatchDone
<1>4. CASE Stop
  <2>1. Idle \in Job  BY EmptySeq DEF Idle
  <2>2. thread' \in [Worker -> Job]  BY <1>4, <2>1 DEF Stop, Cancelled
  <2>3. abandoned' \in Seq(Row)  BY <1>4 DEF Stop
  <2>4. QED  BY <1>4, <2>2, <2>3 DEF Stop
<1>5. CASE StopReturns  BY <1>5 DEF StopReturns
<1>6. QED  BY <1>1, <1>2, <1>3, <1>4, <1>5

LEMMA TypeSubmit == ASSUME TypeOK, NEW r \in Row, Submit(r) PROVE TypeOK'
<1>1. q' \in Seq(Row) /\ Len(q') <= MaxQueue
  <2>1. Len(q) \in Nat /\ Len(Append(q, r)) = Len(q) + 1 /\ Append(q, r) \in Seq(Row)
    BY DEF TypeOK
  <2>2. QED  BY <2>1, WriterAssumption DEF TypeOK, Submit, QueueFull
<1>2. QED  BY <1>1 DEF TypeOK, Submit

\* The threads' steps keep the types.
LEMMA TypeThreads ==
  ASSUME TypeOK,
         RunBegins \/ DrainRemaining \/ (\E w \in Worker : Write(w))
  PROVE  TypeOK'
<1> USE DEF TypeOK, Job, Worker, statVars, history
<1>1. CASE RunBegins  BY <1>1 DEF RunBegins
<1>2. CASE DrainRemaining
  <2>1. [Idle EXCEPT !.rows = q, !.phase = "insert"] \in Job  BY DEF Idle
  <2>2. thread' \in [Worker -> Job]  BY <1>2, <2>1 DEF DrainRemaining
  <2>3. q' \in Seq(Row) /\ Len(q') <= MaxQueue
    BY <1>2, WriterAssumption, EmptySeq DEF DrainRemaining
  <2>4. QED  BY <1>2, <2>2, <2>3 DEF DrainRemaining
<1>3. ASSUME NEW w \in Worker, Write(w) PROVE TypeOK'
  <2>1. Len(thread[w].rows) \in Nat  BY LenProperties
  <2>2. CASE Insert(w)
    <3>1. PICK counter \in {"written", "failed"} :
            thread' = [thread EXCEPT ![w] = [@ EXCEPT !.phase = "add", !.counter = counter]]
      BY <2>2 DEF Insert
    <3>4. thread' \in [Worker -> Job]  BY <3>1
    <3>2. Range(thread[w].rows) \subseteq Row  BY RangeOfRows
    <3>3. QED  BY <2>2, <3>4, <3>2 DEF Insert
  <2>3. CASE LoadCounter(w)  BY <2>3 DEF LoadCounter
  <2>4. CASE StoreCounter(w)
    <3>1. Idle \in Job  BY EmptySeq DEF Idle
    <3>2. thread' \in [Worker -> Job]  BY <2>4, <3>1 DEF StoreCounter
    <3>3. written' \in Nat /\ failed' \in Nat  BY <2>1, <2>4 DEF StoreCounter, Total
    <3>4. QED  BY <2>4, <3>2, <3>3 DEF StoreCounter
  <2>5. QED  BY <1>3, <2>2, <2>3, <2>4 DEF Write
<1>4. QED  BY <1>1, <1>2, <1>3

LEMMA TypeStutter == ASSUME TypeOK, UNCHANGED vars PROVE TypeOK'
  BY DEF TypeOK, vars, statVars, history

LEMMA TypeNext == TypeOK /\ [Next]_vars => TypeOK'
  BY TypeLoop, TypeSubmit, TypeThreads, TypeStutter DEF Next, Loop

\* Every state of the writer is well typed, and its queue within its bound.
THEOREM WriterTypeCorrect == Spec => []TypeOK
<1>1. Init => TypeOK  BY TypeInit
<1>2. TypeOK /\ [Next]_vars => TypeOK'  BY TypeNext
<1>3. QED  BY <1>1, <1>2, PTL DEF Spec

-----------------------------------------------------------------------------
(* The counters                                                            *)

\* The sums of the invariant are sums of numbers.
LEMMA Numbers ==
  ASSUME TypeOK
  PROVE  /\ Len(q) \in Nat /\ Held("run") \in Nat /\ Held("drain") \in Nat
         /\ Len(abandoned) \in Nat /\ queued \in Nat /\ written \in Nat
         /\ failed \in Nat /\ Accounted \in Nat
<1>1. Len(q) \in Nat /\ Len(abandoned) \in Nat  BY LenProperties DEF TypeOK
<1>2. Held("run") \in Nat /\ Held("drain") \in Nat
  BY LenProperties DEF TypeOK, Held, Job, Worker
<1>3. QED  BY <1>1, <1>2 DEF TypeOK, Accounted

\* A thread that is idle holds no row.
LEMMA IdleHoldsNothing ==
  ASSUME Stages, NEW w \in Worker, thread[w].phase = "idle" PROVE Held(w) = 0
<1>1. thread[w].rows = <<>>  BY DEF Stages
<1>2. Len(<<>>) = 0  BY EmptySeq
<1>3. QED  BY <1>1, <1>2 DEF Held

LEMMA IInvInit == Init => IInv
<1> SUFFICES ASSUME Init PROVE IInv  OBVIOUS
<1>1. TypeOK  BY TypeInit
<1>2. Stages /\ Loaded  BY DEF Init, Stages, Loaded, Idle, Worker, Other
<1>3. Held("run") = 0 /\ Held("drain") = 0  BY <1>2, IdleHoldsNothing DEF Init, Idle, Worker
<1>4. Len(q) = 0 /\ Len(abandoned) = 0  BY EmptySeq DEF Init
<1>5. Accounted = 0 /\ queued = 0  BY <1>3, <1>4 DEF Init, Accounted
<1>6. QED  BY <1>1, <1>2, <1>5 DEF IInv, Balance

\* A step that changes neither the sum nor queued keeps the balance.
LEMMA SumKept ==
  ASSUME Balance, Accounted' = Accounted, queued' = queued, overlap => overlap'
  PROVE  Balance'
BY DEF Balance

\* Start, BatchDone and StopReturns move no row.
LEMMA IInvQuiet ==
  ASSUME IInv, Start \/ BatchDone \/ StopReturns PROVE IInv'
<1>1. TypeOK'  BY TypeLoop DEF IInv
<1>2. /\ q' = q /\ thread' = thread /\ overlap' = overlap /\ abandoned' = abandoned
      /\ queued' = queued /\ written' = written /\ failed' = failed
  BY DEF Start, BatchDone, StopReturns, statVars, history
<1>3. Accounted' = Accounted  BY <1>2 DEF Accounted, Held
<1>4. Stages'  BY <1>2 DEF IInv, Stages, TypeOK, Start, BatchDone, StopReturns
<1>5. Loaded'  BY <1>2 DEF IInv, Loaded, Counter, Other, Start, BatchDone, StopReturns
<1>6. QED  BY <1>1, <1>2, <1>3, <1>4, <1>5, SumKept DEF IInv

LEMMA IInvSubmit == ASSUME IInv, NEW r \in Row, Submit(r) PROVE IInv'
<1>1. TypeOK'  BY TypeSubmit DEF IInv
<1>2. /\ task' = task /\ thread' = thread /\ overlap' = overlap /\ stopping' = stopping
      /\ abandoned' = abandoned /\ written' = written /\ failed' = failed
  BY DEF Submit
<1>3. Stages' /\ Loaded'  BY <1>2 DEF IInv, Stages, Loaded, Counter, Other
<1>4. Held("run")' = Held("run") /\ Held("drain")' = Held("drain")  BY <1>2 DEF Held
<1>5. \/ Len(q') = Len(q) /\ queued' = queued
      \/ Len(q') = Len(q) + 1 /\ queued' = queued + 1
  <2>1. Len(Append(q, r)) = Len(q) + 1  BY DEF IInv, TypeOK
  <2>2. QED  BY <2>1 DEF Submit
<1>6. \/ Accounted' = Accounted /\ queued' = queued
      \/ Accounted' = Accounted + 1 /\ queued' = queued + 1
  <2> DEFINE a == Len(q) b == Held("run") c == Held("drain") d == Len(abandoned)
  <2>1. a \in Nat /\ b \in Nat /\ c \in Nat /\ d \in Nat /\ written \in Nat /\ failed \in Nat
    BY Numbers DEF IInv
  <2>2. Accounted = a + b + c + written + failed + d  BY DEF Accounted
  <2>3. Accounted' = Len(q') + b + c + written + failed + d  BY <1>2, <1>4 DEF Accounted
  <2>4. \/ Len(q') = a /\ queued' = queued
        \/ Len(q') = a + 1 /\ queued' = queued + 1
    BY <1>5, Zenon
  <2> HIDE DEF a, b, c, d
  <2>5. QED  BY <2>1, <2>2, <2>3, <2>4
<1>7. Balance'  BY <1>2, <1>6, Numbers DEF IInv, Balance
<1>8. QED  BY <1>1, <1>3, <1>7 DEF IInv
\* Collect moves a batch from the queue to the idle run thread.
LEMMA IInvCollect == ASSUME IInv, Collect PROVE IInv'
<1> USE DEF IInv
<1>1. TypeOK'  BY TypeLoop
<1>2. /\ thread["run"].phase = "idle" /\ thread["drain"].phase = "idle" /\ stopping = "no"
  BY DEF Collect, Stages
<1>3. /\ thread'["drain"] = thread["drain"] /\ thread'["run"].phase = "queued"
      /\ thread'["run"].rows = SubSeq(q, 1, BatchLen)
  BY DEF Collect, TypeOK, Worker, Idle
<1>4. Stages'
  <2>1. /\ task' = "write" /\ stopping' = "no" /\ abandoned' = abandoned
    BY <1>2 DEF Collect, history
  <2>2. QED  BY <1>2, <1>3, <2>1 DEF Stages, Worker
<1>5. Loaded'  BY <1>2, <1>3 DEF Loaded, Worker
<1>6. Accounted' = Accounted
  <2> DEFINE d == Held("drain") e == Len(abandoned) batch == Len(SubSeq(q, 1, BatchLen))
             rest == Len(Rest) all == Len(q)
  <2>1. BatchLen \in Nat /\ BatchLen <= Len(q)
    BY WriterAssumption, LenProperties DEF BatchLen, TypeOK
  <2>2. batch \in Nat /\ rest \in Nat /\ batch + rest = all
    BY <2>1, BatchAndRest, LenProperties DEF Rest, TypeOK
  <2>3. Accounted = all + 0 + d + written + failed + e
    BY <1>2, IdleHoldsNothing DEF Accounted, Worker
  <2>4. Accounted' = rest + batch + d + written + failed + e
    BY <1>3 DEF Accounted, Held, Collect, statVars, history
  <2>5. d \in Nat /\ e \in Nat /\ written \in Nat /\ failed \in Nat  BY Numbers
  <2> HIDE DEF d, e, batch, rest, all
  <2>6. QED  BY <2>2, <2>3, <2>4, <2>5
<1>7. Balance'  BY <1>6, SumKept DEF Collect, statVars, history
<1>8. QED  BY <1>1, <1>4, <1>5, <1>7

\* Stop moves a batch that has not begun from the run thread to the abandoned.
LEMMA IInvStop == ASSUME IInv, Stop PROVE IInv'
<1> USE DEF IInv
<1>1. TypeOK'  BY TypeLoop
<1>2. thread["drain"].phase = "idle" /\ abandoned = <<>>  BY DEF Stop, Stages
<1>3. thread'["drain"] = thread["drain"] /\ thread'["run"] = Cancelled(thread["run"])
  BY DEF Stop, TypeOK, Worker
<1>4. Stages'
  BY <1>2, <1>3 DEF Stop, Stages, Worker, Cancelled, Idle
<1>5. Loaded'
  BY <1>2, <1>3 DEF Stop, Loaded, Worker, Cancelled, Idle, Stages, Counter, Other, statVars
<1>6. Accounted' = Accounted
  <2> DEFINE a == Len(q) d == Held("drain") r == Held("run")
  <2>1. Len(<<>>) = 0  BY EmptySeq
  <2>2. Held("run")' + Len(abandoned)' = r
    <3>1. r \in Nat  BY Numbers
    <3>2. CASE thread["run"].phase = "queued"
      <4>1. thread'["run"].rows = <<>> /\ abandoned' = thread["run"].rows
        BY <1>3, <3>2 DEF Stop, Cancelled, Idle
      <4>2. Held("run")' = 0 /\ Len(abandoned)' = r  BY <2>1, <4>1 DEF Held
      <4>3. QED  BY <3>1, <4>2
    <3>3. CASE thread["run"].phase # "queued"
      <4>1. thread'["run"].rows = thread["run"].rows /\ abandoned' = <<>>
        BY <1>2, <1>3, <3>3 DEF Stop, Cancelled
      <4>2. Held("run")' = r /\ Len(abandoned)' = 0  BY <2>1, <4>1 DEF Held
      <4>3. QED  BY <3>1, <4>2
    <3>4. QED  BY <3>2, <3>3
  <2>3. Accounted = a + r + d + written + failed + 0
    BY <1>2, <2>1 DEF Accounted
  <2>4. Accounted' = a + Held("run")' + d + written + failed + Len(abandoned)'
    BY <1>3 DEF Accounted, Held, Stop, statVars
  <2>5. /\ a \in Nat /\ d \in Nat /\ r \in Nat /\ written \in Nat /\ failed \in Nat
        /\ Held("run")' \in Nat /\ Len(abandoned)' \in Nat
    <3>1. Len(abandoned)' \in Nat  BY <1>1, LenProperties DEF TypeOK
    <3>2. Held("run")' \in Nat  BY <1>1, LenProperties DEF TypeOK, Held, Job, Worker
    <3>3. QED  BY <3>1, <3>2, Numbers
  <2> HIDE DEF a, d, r
  <2>6. QED  BY <2>2, <2>3, <2>4, <2>5
<1>7. Balance'  BY <1>6, SumKept DEF Stop, statVars
<1>8. QED  BY <1>1, <1>4, <1>5, <1>7

\* The drain moves the whole queue to the idle drain thread.
LEMMA IInvDrain == ASSUME IInv, DrainRemaining PROVE IInv'
<1> USE DEF IInv
<1>1. TypeOK'  BY TypeThreads
<1>2. thread["drain"].phase = "idle" /\ stopping = "cancelled" /\ task = "ended"
  BY DEF DrainRemaining, Stages
<1>3. /\ thread'["run"] = thread["run"]
      /\ thread'["drain"].rows = q
      /\ thread'["drain"].phase = (IF q = <<>> THEN "idle" ELSE "insert")
      /\ overlap' = (overlap \/ (q # <<>> /\ thread["run"].phase # "idle"))
  <2>1. CASE q = <<>>
    BY <1>2, <2>1 DEF DrainRemaining, Stages, TypeOK, Worker
  <2>2. CASE q # <<>>
    BY <1>2, <2>2 DEF DrainRemaining, TypeOK, Worker, Idle
  <2>3. QED  BY <2>1, <2>2
<1>4. task' = "ended" /\ stopping' = "draining"  BY <1>2 DEF DrainRemaining
<1>5. Stages'  BY <1>2, <1>3, <1>4 DEF Stages, Worker
<1>6. Loaded'  BY <1>2, <1>3 DEF Loaded, Worker, Counter, Other, DrainRemaining, statVars
<1>7. Accounted' = Accounted
  <2> DEFINE a == Len(q) r == Held("run") e == Len(abandoned)
  <2>1. Len(<<>>) = 0  BY EmptySeq
  <2>2. Accounted = a + r + 0 + written + failed + e
    BY <1>2, IdleHoldsNothing DEF Accounted, Worker
  <2>3. Accounted' = 0 + r + a + written + failed + e
    BY <1>3, <2>1 DEF Accounted, Held, DrainRemaining, statVars
  <2>4. /\ a \in Nat /\ r \in Nat /\ e \in Nat /\ written \in Nat /\ failed \in Nat
    BY Numbers
  <2> HIDE DEF a, r, e
  <2>5. QED  BY <2>2, <2>3, <2>4
<1>8. Balance'  BY <1>3, <1>7, SumKept DEF DrainRemaining, statVars
<1>9. QED  BY <1>1, <1>5, <1>6, <1>8
\* A step that leaves both threads their rows, and the queue and the counters alone,
\* keeps the sum.
LEMMA RowsStay ==
  ASSUME \A w \in Worker : thread'[w].rows = thread[w].rows,
         q' = q, abandoned' = abandoned, written' = written, failed' = failed
  PROVE  Accounted' = Accounted
BY DEF Accounted, Held, Worker

LEMMA IInvRunBegins == ASSUME IInv, RunBegins PROVE IInv'
<1> USE DEF IInv
<1>1. TypeOK'  BY TypeThreads
<1>2. /\ thread["run"].phase = "queued" /\ thread'["drain"] = thread["drain"]
      /\ thread'["run"] = [thread["run"] EXCEPT !.phase = "insert"]
  BY DEF RunBegins, TypeOK, Worker
<1>3. /\ thread'["run"].phase = "insert" /\ thread'["run"].rows = thread["run"].rows
  BY <1>2 DEF TypeOK, Job, Worker
<1>4. Stages'  BY <1>2, <1>3 DEF RunBegins, Stages, Worker, history
<1>5. Loaded'
  BY <1>2, <1>3 DEF RunBegins, Loaded, Worker, Counter, Other, statVars, history
<1>6. Accounted' = Accounted
  BY <1>2, <1>3, RowsStay DEF RunBegins, Worker, statVars, history
<1>7. Balance'  BY <1>6, SumKept DEF RunBegins, statVars, history
<1>8. QED  BY <1>1, <1>4, <1>5, <1>7

\* A commit, an exception and the load of a counter only move a thread's phase.
LEMMA IInvInsertLoad ==
  ASSUME IInv, NEW w \in Worker, Insert(w) \/ LoadCounter(w) PROVE IInv'
<1> USE DEF IInv
<1>1. TypeOK'  BY TypeThreads DEF Write
<1>2. /\ q' = q /\ task' = task /\ stopping' = stopping /\ abandoned' = abandoned
      /\ overlap' = overlap /\ queued' = queued /\ written' = written /\ failed' = failed
  BY DEF Insert, LoadCounter, statVars, history
<1>3. /\ thread[w].phase \in {"insert", "add"} /\ thread'[w].phase \in {"add", "store"}
      /\ thread'[w].rows = thread[w].rows
      /\ \A v \in Worker : v # w => thread'[v] = thread[v]
      /\ thread'[w].phase = "store" => thread'[w].seen = Counter(thread'[w].counter)
  BY DEF Insert, LoadCounter, TypeOK, Job, Counter
<1>4. Stages'  BY <1>2, <1>3 DEF Stages, Worker
<1>5. ASSUME NEW v \in Worker, thread'[v].phase = "store"
      PROVE  /\ thread'[v].seen <= Counter(thread'[v].counter)
             /\ \/ ~overlap \/ stopping \in {"no", "cancelled"}
                \/ thread'[Other(v)].phase # "idle"
                => thread'[v].seen = Counter(thread'[v].counter)
  <2>1. CASE v = w
    <3>1. thread'[v].seen = Counter(thread'[v].counter)  BY <1>3, <1>5, <2>1
    <3>2. thread'[v].seen \in Nat  BY <1>1 DEF TypeOK, Job
    <3>3. QED  BY <3>1, <3>2
  <2>2. CASE v # w  BY <1>3, <1>5, <2>2 DEF Loaded, Worker, Other
  <2>3. QED  BY <2>1, <2>2
<1>6. Loaded'  BY <1>2, <1>5 DEF Loaded, Counter
<1>7. Accounted' = Accounted  BY <1>2, <1>3, RowsStay
<1>8. Balance'  BY <1>2, <1>7, SumKept
<1>9. QED  BY <1>1, <1>4, <1>6, <1>8

\* Storing a sum moves a thread's rows to a counter.  The value it had loaded may be
\* behind the counter, never ahead: the sum may shrink, and does not grow.
LEMMA IInvStore == ASSUME IInv, NEW w \in Worker, StoreCounter(w) PROVE IInv'
<1> USE DEF IInv
<1> DEFINE o == Other(w)
           c == thread[w].counter
           old == Counter(c)
<1>1. TypeOK'  BY TypeThreads DEF Write
<1>2. /\ q' = q /\ task' = task /\ stopping' = stopping /\ abandoned' = abandoned
      /\ overlap' = overlap /\ queued' = queued
  BY DEF StoreCounter, history
<1>3. /\ thread[w].phase = "store" /\ thread'[w] = Idle
      /\ o \in Worker /\ o # w /\ Other(o) = w /\ thread'[o] = thread[o]
      /\ \A v \in Worker : v = w \/ v = o
  BY DEF StoreCounter, TypeOK, Worker, Other
<1>4. /\ thread[w].seen \in Nat /\ old \in Nat /\ c \in {"written", "failed"}
      /\ thread[o].seen \in Nat /\ Held(w) \in Nat
  <2>1. Held(w) \in Nat  BY Numbers DEF Worker
  <2>2. QED  BY <1>3, <2>1 DEF TypeOK, Job, Counter
<1>5. /\ thread[w].seen <= old
      /\ ~overlap \/ thread[o].phase # "idle" => thread[w].seen = old
  BY <1>3 DEF Loaded
<1>6. \/ c = "written" /\ written' = thread[w].seen + Held(w) /\ failed' = failed
      \/ c = "failed" /\ failed' = thread[w].seen + Held(w) /\ written' = written
  <2>1. c = "written" => written' = Total(thread[w]) /\ failed' = failed
    BY DEF StoreCounter
  <2>2. c = "failed" => failed' = Total(thread[w]) /\ written' = written
    BY DEF StoreCounter
  <2>3. thread[w].seen + Held(w) = Total(thread[w])  BY DEF Total, Held
  <2>4. QED  BY <1>4, <2>1, <2>2, <2>3
<1>7. Stages'  BY <1>2, <1>3, <1>4 DEF Stages, Worker, Idle
<1>8. ASSUME thread[o].phase = "store"
      PROVE  /\ thread[o].seen <= (IF thread[o].counter = "written" THEN written' ELSE failed')
             /\ overlap /\ stopping \notin {"no", "cancelled"}
  <2>1. overlap /\ stopping \notin {"no", "cancelled"}
    BY <1>3, <1>8 DEF Stages, Worker, Other
  <2>2. thread[o].seen = Counter(thread[o].counter)  BY <1>3, <1>8 DEF Loaded
  <2>3. thread[w].seen = old  BY <1>5, <1>8
  <2>4. written \in Nat /\ failed \in Nat  BY Numbers
  <2> HIDE DEF o
  <2>5. \/ c = "written" /\ written' = written + Held(w) /\ failed' = failed
        \/ c = "failed" /\ failed' = failed + Held(w) /\ written' = written
    BY <1>6, <2>3 DEF Counter
  <2>6. QED  BY <1>4, <2>1, <2>2, <2>4, <2>5 DEF Counter
<1>9. Loaded'
  <2>1. ASSUME NEW v \in Worker, thread'[v].phase = "store"
        PROVE  /\ thread'[v].seen <=
                    (IF thread'[v].counter = "written" THEN written' ELSE failed')
               /\ overlap' /\ stopping' \notin {"no", "cancelled"}
               /\ thread'[Other(v)].phase = "idle"
    <3>1. v = o /\ thread'[w].phase = "idle"  BY <1>3, <2>1 DEF Idle
    <3>2. QED  BY <1>2, <1>3, <1>8, <2>1, <3>1
  <2>2. QED  BY <2>1 DEF Loaded, Counter
<1>10. Accounted' + old = Accounted + thread[w].seen
  <2> DEFINE a == Len(q) h == Held(w) g == Held(o) e == Len(abandoned) x == thread[w].seen
  <2>1. Held(w)' = 0 /\ Held(o)' = g
    <3>1. Len(<<>>) = 0  BY EmptySeq
    <3>2. QED  BY <1>3, <3>1 DEF Held, Idle
  <2>2. Accounted = a + h + g + written + failed + e
    <3>1. Held("run") \in Nat /\ Held("drain") \in Nat /\ a \in Nat  BY Numbers
    <3>2. CASE w = "run"  BY <3>2 DEF Accounted, Other
    <3>3. CASE w = "drain"  BY <3>1, <3>3 DEF Accounted, Other
    <3>4. QED  BY <3>2, <3>3 DEF Worker
  <2>3. Accounted' = a + g + written' + failed' + e
    <3>1. a \in Nat /\ g \in Nat
      BY <1>3, Numbers DEF Worker
    <3>2. CASE w = "run"  BY <1>2, <2>1, <3>1, <3>2 DEF Accounted, Other
    <3>3. CASE w = "drain"  BY <1>2, <2>1, <3>1, <3>3 DEF Accounted, Other
    <3>4. QED  BY <3>2, <3>3 DEF Worker
  <2>4. /\ a \in Nat /\ h \in Nat /\ g \in Nat /\ e \in Nat /\ x \in Nat
        /\ written \in Nat /\ failed \in Nat
    BY <1>3, <1>4, Numbers DEF Worker
  <2>5. \/ written' = x + h /\ failed' = failed /\ old = written
        \/ failed' = x + h /\ written' = written /\ old = failed
    BY <1>6 DEF Counter
  <2> HIDE DEF a, h, g, e, x, old
  <2>6. Accounted' + old = Accounted + x  BY <2>2, <2>3, <2>4, <2>5
  <2>7. QED  BY <2>6 DEF x
<1>11. Balance'
  <2>1. Accounted \in Nat /\ queued \in Nat  BY Numbers
  <2>2. Accounted' \in Nat
    <3>1. /\ Len(q)' \in Nat /\ Len(abandoned)' \in Nat  BY <1>1, LenProperties DEF TypeOK
    <3>2. Held("run")' \in Nat /\ Held("drain")' \in Nat
      BY <1>1, LenProperties DEF TypeOK, Held, Job, Worker
    <3>3. QED  BY <1>1, <3>1, <3>2 DEF TypeOK, Accounted
  <2>3. ~overlap => thread[w].seen = old  BY <1>5
  <2> HIDE DEF old
  <2>4. QED  BY <1>2, <1>4, <1>5, <1>10, <2>1, <2>2, <2>3 DEF Balance
<1>12. QED  BY <1>1, <1>7, <1>9, <1>11

LEMMA IInvNext == IInv /\ [Next]_vars => IInv'
<1> SUFFICES ASSUME IInv, [Next]_vars PROVE IInv'  OBVIOUS
<1>1. CASE Start \/ BatchDone \/ StopReturns  BY <1>1, IInvQuiet
<1>2. CASE Collect  BY <1>2, IInvCollect
<1>3. CASE Stop  BY <1>3, IInvStop
<1>4. ASSUME NEW r \in Row, Submit(r) PROVE IInv'  BY <1>4, IInvSubmit
<1>5. CASE DrainRemaining  BY <1>5, IInvDrain
<1>6. CASE RunBegins  BY <1>6, IInvRunBegins
<1>7. ASSUME NEW w \in Worker, Write(w) PROVE IInv'
  BY <1>7, IInvInsertLoad, IInvStore DEF Write
<1>8. CASE UNCHANGED vars
  <2>1. TypeOK'  BY <1>8, TypeStutter DEF IInv
  <2>2. Accounted' = Accounted
    BY <1>8 DEF Accounted, Held, vars, statVars, history
  <2>3. QED
    BY <1>8, <2>1, <2>2 DEF IInv, Stages, Loaded, Balance, Counter, Other, vars,
       statVars, history
<1>9. QED  BY <1>1, <1>2, <1>3, <1>4, <1>5, <1>6, <1>7, <1>8 DEF Next, Loop

\* The three facts every theorem below rests on: the invariant holds at first, every
\* step keeps it, and it says what the counters are worth.
LEMMA IInvAlways == Spec => []IInv
BY IInvInit, IInvNext, PTL DEF Spec

LEMMA IInvImplies == IInv => StatsAccount /\ NeverOvercounts
<1> SUFFICES ASSUME IInv PROVE StatsAccount /\ NeverOvercounts  OBVIOUS
<1> DEFINE a == Len(q) b == Held("run") c == Held("drain") d == Len(abandoned)
<1>1. /\ a \in Nat /\ b \in Nat /\ c \in Nat /\ d \in Nat
      /\ written \in Nat /\ failed \in Nat /\ queued \in Nat
  BY Numbers DEF IInv
<1>2. Accounted = a + b + c + written + failed + d  BY DEF Accounted
<1>3. a + b + c + written + failed + d <= queued  BY <1>2 DEF IInv, Balance
<1>4. ~overlap => queued = a + b + c + written + failed + d  BY <1>2 DEF IInv, Balance
<1>5. StatsAccount  BY <1>4 DEF StatsAccount, Held
<1> HIDE DEF a, b, c, d
<1>6. written + failed <= queued  BY <1>1, <1>3
<1>7. QED  BY <1>5, <1>6 DEF NeverOvercounts

\* Until a drain overlaps a batch, queued is the rows still held plus those reported
\* written or failed plus those abandoned, in every state of every run: a shutdown
\* report that does not add up can only come from that overlap.
THEOREM WriterCountersAccount == Spec => []StatsAccount
BY IInvAlways, IInvImplies, PTL

\* Even then no row is counted twice: written plus failed never exceeds queued.
THEOREM WriterNeverOvercounts == Spec => []NeverOvercounts
BY IInvAlways, IInvImplies, PTL

-----------------------------------------------------------------------------
(* The ledger.  What the mapping needs beyond the invariant above is that  *)
(* no row is in two places, so that settling one batch settles nothing     *)
(* else and a full queue is that many waiting rows.                        *)

Distinct(s) == \A i, j \in 1..Len(s) : s[i] = s[j] => i = j

\* No row is in two places, a thread at work has rows, and every row anywhere was offered.
Apart ==
  /\ Distinct(q)
  /\ Range(q) \cap InHand("run") = {} /\ Range(q) \cap InHand("drain") = {}
  /\ InHand("run") \cap InHand("drain") = {}
  /\ \A w \in Worker : thread[w].phase # "idle" => thread[w].rows # <<>>
  /\ Waiting \cup refused \cup stored \cup givenUp \cup Range(abandoned) \subseteq offered

Placed == IInv /\ Apart

-----------------------------------------------------------------------------
(* Lemmas about sequences                                                  *)

LEMMA RangeOfEmpty == Range(<<>>) = {}
<1>1. DOMAIN <<>> = {}  BY EmptySeq
<1>2. QED  BY <1>1 DEF Range

LEMMA RangeOfSome ==
  ASSUME NEW s \in Seq(Row), s # <<>> PROVE Range(s) # {}
<1>1. Len(s) \in Nat /\ Len(s) # 0 /\ DOMAIN s = 1..Len(s)  BY EmptySeq, LenProperties
<1>2. 1 \in DOMAIN s  BY <1>1
<1>3. QED  BY <1>2 DEF Range

\* A row put behind others adds itself, and stays apart from them if it is new.
LEMMA RangeOfAppend ==
  ASSUME NEW s \in Seq(Row), NEW r \in Row
  PROVE  /\ Range(Append(s, r)) = Range(s) \cup {r}
         /\ Distinct(s) /\ r \notin Range(s) => Distinct(Append(s, r))
<1>1. /\ Len(s) \in Nat /\ DOMAIN s = 1..Len(s)
      /\ Len(Append(s, r)) = Len(s) + 1 /\ DOMAIN Append(s, r) = 1..(Len(s) + 1)
      /\ \A i \in 1..Len(s) : Append(s, r)[i] = s[i]
      /\ Append(s, r)[Len(s) + 1] = r
  BY LenProperties, AppendProperties
<1>2. Range(s) = {s[i] : i \in 1..Len(s)}  BY <1>1 DEF Range
<1>3. Range(Append(s, r)) = {Append(s, r)[i] : i \in 1..(Len(s) + 1)}  BY <1>1 DEF Range
<1>4. 1..(Len(s) + 1) = 1..Len(s) \cup {Len(s) + 1}  BY <1>1
<1>5. Range(Append(s, r)) = Range(s) \cup {r}  BY <1>1, <1>2, <1>3, <1>4
<1>6. ASSUME Distinct(s), r \notin Range(s) PROVE Distinct(Append(s, r))
  <2> SUFFICES ASSUME NEW i \in 1..(Len(s) + 1), NEW j \in 1..(Len(s) + 1),
                      Append(s, r)[i] = Append(s, r)[j]
               PROVE  i = j
    BY <1>1 DEF Distinct
  <2>1. \A k \in 1..Len(s) : s[k] # r  BY <1>2, <1>6
  <2>2. QED  BY <1>1, <1>4, <1>6, <2>1 DEF Distinct
<1>7. QED  BY <1>5, <1>6

\* A queue of distinct rows cut in two: the batch and the rest share no row.
LEMMA RangeOfCut ==
  ASSUME NEW s \in Seq(Row), NEW n \in Nat, n <= Len(s), Distinct(s)
  PROVE  /\ Range(s) = Range(SubSeq(s, 1, n)) \cup Range(SubSeq(s, n + 1, Len(s)))
         /\ Range(SubSeq(s, 1, n)) \cap Range(SubSeq(s, n + 1, Len(s))) = {}
         /\ Distinct(SubSeq(s, n + 1, Len(s)))
<1> DEFINE l     == Len(s)
           batch == SubSeq(s, 1, n)
           rest  == SubSeq(s, n + 1, l)
<1>1. l \in Nat /\ DOMAIN s = 1..l /\ \A i \in 1..l : s[i] \in Row
  BY LenProperties, ElementOfSeq
<1>2. /\ batch \in Seq(Row) /\ Len(batch) = n
      /\ \A i \in 1..n : batch[i] = s[i]
  <2>1. \A i \in 1..n : s[i] \in Row  BY <1>1
  <2>2. QED  BY <2>1, SubSeqProperties
<1>3. /\ rest \in Seq(Row) /\ Len(rest) = l - n
      /\ \A i \in 1..(l - n) : rest[i] = s[n + i]
  <2>1. \A i \in (n + 1)..l : s[i] \in Row  BY <1>1
  <2>2. n + 1 \in Int /\ l \in Int /\ n + 1 <= l + 1  BY <1>1
  <2>3. /\ rest \in Seq(Row)
        /\ Len(rest) = (IF n + 1 <= l THEN l - (n + 1) + 1 ELSE 0)
        /\ \A i \in 1..(l - (n + 1) + 1) : rest[i] = s[(n + 1) + i - 1]
    BY <2>1, <2>2, SubSeqProperties
  <2>4. l - (n + 1) + 1 = l - n  BY <1>1
  <2>5. \A i \in 1..(l - n) : (n + 1) + i - 1 = n + i  BY <1>1
  <2> HIDE DEF rest, l
  <2>6. QED  BY <1>1, <2>3, <2>4, <2>5
<1>4. DOMAIN batch = 1..n /\ DOMAIN rest = 1..(l - n)
  BY <1>2, <1>3, LenProperties
<1> HIDE DEF batch, rest, l
<1>5. Range(batch) = {s[i] : i \in 1..n}
  BY <1>2, <1>4 DEF Range
<1>6. Range(rest) = {s[i] : i \in (n + 1)..l}
  <2>1. Range(rest) = {s[n + i] : i \in 1..(l - n)}  BY <1>3, <1>4 DEF Range
  <2>2. \A i \in 1..(l - n) : n + i \in (n + 1)..l  BY <1>1
  <2>3. \A i \in (n + 1)..l : i - n \in 1..(l - n) /\ n + (i - n) = i  BY <1>1
  <2>4. QED  BY <2>1, <2>2, <2>3
<1>7. Range(s) = {s[i] : i \in 1..l}  BY <1>1 DEF Range
<1>8. n <= l  BY DEF l
<1>9. 1..l = 1..n \cup (n + 1)..l /\ 1..n \cap (n + 1)..l = {}
  BY <1>1, <1>8
<1>10. Range(s) = Range(batch) \cup Range(rest)  BY <1>5, <1>6, <1>7, <1>9
<1>11. \A i, j \in 1..l : s[i] = s[j] => i = j  BY DEF Distinct, l
<1>12. Range(batch) \cap Range(rest) = {}  BY <1>5, <1>6, <1>9, <1>11
<1>13. Distinct(rest)
  <2> SUFFICES ASSUME NEW i \in 1..(l - n), NEW j \in 1..(l - n), rest[i] = rest[j] PROVE i = j
    BY <1>3 DEF Distinct
  <2>1. s[n + i] = s[n + j] /\ n + i \in 1..l /\ n + j \in 1..l  BY <1>1, <1>3
  <2>2. n + i = n + j  BY <1>11, <2>1
  <2>3. QED  BY <2>2
<1>14. QED  BY <1>10, <1>12, <1>13 DEF batch, rest, l

\* A sequence holds finitely many rows.
LEMMA RowsAreFinite == ASSUME NEW s \in Seq(Row) PROVE IsFiniteSet(Range(s))
<1>1. Len(s) \in Nat /\ DOMAIN s = 1..Len(s)  BY LenProperties
<1>2. IsFiniteSet(1..Len(s))  BY <1>1, FS_Interval
<1>3. s \in Surjection(1..Len(s), Range(s))
  <2>1. s \in [1..Len(s) -> Row]  BY LenProperties
  <2>2. Range(s) = {s[i] : i \in 1..Len(s)}  BY <1>1 DEF Range
  <2>3. QED  BY <2>1, <2>2 DEF Surjection
<1>4. QED  BY <1>2, <1>3, FS_Surjection

\* A queue of distinct rows holds as many rows as it is long.
LEMMA RowsOfQueue ==
  ASSUME NEW s \in Seq(Row), Distinct(s)
  PROVE  IsFiniteSet(Range(s)) /\ Cardinality(Range(s)) = Len(s)
<1>1. Len(s) \in Nat /\ DOMAIN s = 1..Len(s) /\ s \in [1..Len(s) -> Row]
  BY LenProperties
<1>2. Range(s) = {s[i] : i \in 1..Len(s)}  BY <1>1 DEF Range
<1>3. s \in Bijection(1..Len(s), Range(s))
  <2>1. s \in [1..Len(s) -> Range(s)]  BY <1>1, <1>2
  <2>2. s \in Injection(1..Len(s), Range(s))
    BY <1>1, <2>1 DEF Distinct, Injection, IsInjective
  <2>3. s \in Surjection(1..Len(s), Range(s))
    BY <1>2, <2>1 DEF Surjection
  <2>4. QED  BY <2>2, <2>3 DEF Bijection
<1>4. ExistsBijection(1..Len(s), Range(s))  BY <1>3 DEF ExistsBijection
<1>5. IsFiniteSet(1..Len(s)) /\ Cardinality(1..Len(s)) = Len(s)
  BY <1>1, FS_Interval
<1>6. QED  BY <1>4, <1>5, FS_Bijection

-----------------------------------------------------------------------------
(* Where the rows go                                                       *)

\* The ledger's step, and what it says when nothing is settled.
LedgerStep == [Ledger!Next]_(Ledger!ledger)

LEMMA NothingMoves ==
  ASSUME Waiting' = Waiting, refused' = refused, stored' = stored, givenUp' = givenUp,
         abandoned' = abandoned, (stopping' # "no") = (stopping # "no")
  PROVE  LedgerStep
BY DEF LedgerStep, Ledger!ledger

\* Start, BatchDone, StopReturns, a thread that begins and one that counts move no row.
LEMMA QuietPlaced ==
  ASSUME Placed, Start \/ BatchDone \/ StopReturns \/ RunBegins
                 \/ (\E w \in Worker : LoadCounter(w) \/ StoreCounter(w))
  PROVE  Apart' /\ LedgerStep
<1>1. /\ q' = q /\ offered' = offered /\ refused' = refused /\ stored' = stored
      /\ givenUp' = givenUp /\ abandoned' = abandoned
      /\ (stopping' # "no") = (stopping # "no")
  BY DEF Start, BatchDone, StopReturns, RunBegins, LoadCounter, StoreCounter, statVars, history
<1>2. \A w \in Worker : InHand(w)' = InHand(w) /\ (thread'[w].phase # "idle" => thread'[w].rows # <<>>)
  <2>1. CASE Start \/ BatchDone \/ StopReturns
    BY <2>1 DEF Placed, Apart, Start, BatchDone, StopReturns, InHand
  <2>2. CASE RunBegins
    BY <2>2 DEF Placed, IInv, TypeOK, Apart, RunBegins, InHand, Worker
  <2>3. ASSUME NEW v \in Worker, LoadCounter(v)
        PROVE  \A w \in Worker : InHand(w)' = InHand(w) /\ (thread'[w].phase # "idle" => thread'[w].rows # <<>>)
    <3>1. /\ thread[v].phase = "add" /\ thread'[v].phase = "store" /\ thread'[v].rows = thread[v].rows
          /\ \A w \in Worker : w # v => thread'[w] = thread[w]
      BY <2>3 DEF Placed, IInv, TypeOK, Job, LoadCounter
    <3>2. QED  BY <3>1 DEF Placed, Apart, InHand
  <2>4. ASSUME NEW v \in Worker, StoreCounter(v)
        PROVE  \A w \in Worker : InHand(w)' = InHand(w) /\ (thread'[w].phase # "idle" => thread'[w].rows # <<>>)
    <3>1. /\ thread[v].phase = "store" /\ thread'[v].phase = "idle"
          /\ \A w \in Worker : w # v => thread'[w] = thread[w]
      BY <2>4 DEF Placed, IInv, TypeOK, StoreCounter, Idle
    <3>2. QED  BY <3>1 DEF Placed, Apart, InHand
  <2>5. QED  BY <2>1, <2>2, <2>3, <2>4
<1>3. Waiting' = Waiting  BY <1>1, <1>2 DEF Waiting, Worker
<1>4. Apart'  BY <1>1, <1>2, <1>3 DEF Placed, Apart, Distinct, Worker
<1>5. QED  BY <1>1, <1>3, <1>4, NothingMoves

\* A row submitted is new; it is refused only when Capacity rows are waiting.
LEMMA SubmitPlaced ==
  ASSUME Placed, NEW r \in Row, Submit(r)
  PROVE  Apart' /\ LedgerStep
<1>1. /\ stopping = "no" /\ stopping' = "no" /\ r \notin offered /\ offered' = offered \cup {r}
      /\ thread' = thread /\ stored' = stored /\ givenUp' = givenUp /\ abandoned' = abandoned
  BY DEF Submit
<1>2. InHand("run")' = InHand("run") /\ InHand("drain")' = InHand("drain")
  BY <1>1 DEF InHand
<1>3. r \notin Waiting \cup refused \cup stored \cup givenUp \cup Range(abandoned)
  BY <1>1 DEF Placed, Apart
<1>4. Ledger!Fresh(r)  BY <1>3 DEF Ledger!Fresh
<1>5. CASE ~QueueFull
  <2>1. q' = Append(q, r) /\ refused' = refused  BY <1>5 DEF Submit
  <2>2. Range(q') = Range(q) \cup {r} /\ Distinct(q')
    BY <1>3, <2>1, RangeOfAppend DEF Placed, IInv, TypeOK, Apart, Waiting
  <2>3. Waiting' = Waiting \cup {r}  BY <1>2, <2>2 DEF Waiting
  <2>4. Apart'
    <3>1. Distinct(q)'  BY <2>2 DEF Distinct
    <3>2. /\ Range(q)' \cap InHand("run")' = {} /\ Range(q)' \cap InHand("drain")' = {}
          /\ InHand("run")' \cap InHand("drain")' = {}
      BY <1>2, <1>3, <2>2 DEF Placed, Apart, Waiting
    <3>3. QED  BY <1>1, <2>1, <2>3, <3>1, <3>2 DEF Placed, Apart
  <2>5. Ledger!Take(r)  BY <1>1, <1>4, <2>1, <2>3 DEF Ledger!Take
  <2>6. QED  BY <2>4, <2>5 DEF LedgerStep, Ledger!Next
<1>6. CASE QueueFull
  <2>1. q' = q /\ refused' = refused \cup {r}  BY <1>6 DEF Submit
  <2>2. Waiting' = Waiting  BY <1>2, <2>1 DEF Waiting
  <2>3. Apart'
    <3>1. Distinct(q)'  BY <2>1 DEF Placed, Apart, Distinct
    <3>2. QED  BY <1>1, <1>2, <2>1, <2>2, <3>1 DEF Placed, Apart
  <2>4. Cardinality(Waiting) >= MaxQueue
    <3>1. /\ IsFiniteSet(Range(q)) /\ Cardinality(Range(q)) = Len(q) /\ Len(q) \in Nat
      BY RowsOfQueue, LenProperties DEF Placed, IInv, TypeOK, Apart
    <3>2. \A w \in Worker : IsFiniteSet(InHand(w))
      <4> SUFFICES ASSUME NEW w \in Worker PROVE IsFiniteSet(InHand(w))  OBVIOUS
      <4>1. thread[w].rows \in Seq(Row)  BY DEF Placed, IInv, TypeOK, Job
      <4>2. IsFiniteSet(Range(thread[w].rows))  BY <4>1, RowsAreFinite
      <4>3. QED  BY <4>2, FS_EmptySet DEF InHand
    <3>3. IsFiniteSet(Waiting)
      BY <3>1, <3>2, FS_Union DEF Waiting, Worker
    <3>4. Range(q) \subseteq Waiting  BY DEF Waiting
    <3>5. Cardinality(Range(q)) <= Cardinality(Waiting)  BY <3>3, <3>4, FS_Subset
    <3>6. Cardinality(Waiting) \in Nat  BY <3>3, FS_CardinalityType
    <3>7. QED  BY <1>6, <3>1, <3>5, <3>6, WriterAssumption DEF QueueFull
  <2>5. Ledger!Cardinality(Waiting) = Cardinality(Waiting)
    BY DEF Cardinality, Ledger!Cardinality
  <2>6. Ledger!Refuse(r)  BY <1>1, <1>4, <2>1, <2>2, <2>4, <2>5 DEF Ledger!Refuse
  <2>7. QED  BY <2>3, <2>6 DEF LedgerStep, Ledger!Next
<1>7. QED  BY <1>5, <1>6

\* The rows of a batch leave the queue for the run thread.
LEMMA CollectPlaced ==
  ASSUME Placed, Collect PROVE Apart' /\ LedgerStep
<1> DEFINE batch == SubSeq(q, 1, BatchLen)
<1>1. /\ task = "get" /\ q # <<>> /\ q' = Rest
      /\ thread' = [thread EXCEPT !["run"] = [Idle EXCEPT !.rows = batch, !.phase = "queued"]]
      /\ offered' = offered /\ refused' = refused /\ stored' = stored /\ givenUp' = givenUp
      /\ abandoned' = abandoned /\ stopping' = stopping
  BY DEF Collect, Ready, history
<1>2. Len(q) \in Nat /\ Len(q) # 0  BY <1>1, LenProperties, EmptySeq DEF Placed, IInv, TypeOK
<1>3. BatchLen \in Nat \ {0} /\ BatchLen <= Len(q)
  BY <1>2, WriterAssumption DEF BatchLen
<1>4. /\ Range(q) = Range(batch) \cup Range(Rest) /\ Range(batch) \cap Range(Rest) = {}
      /\ Distinct(Rest)
  BY <1>3, RangeOfCut DEF Rest, Placed, IInv, TypeOK, Apart
<1>5. batch \in Seq(Row) /\ batch # <<>>
  <2>1. \A i \in 1..BatchLen : q[i] \in Row
    BY <1>2, <1>3, ElementOfSeq DEF Placed, IInv, TypeOK
  <2>2. batch \in Seq(Row) /\ Len(batch) = BatchLen  BY <1>3, <2>1, SubSeqProperties
  <2>3. QED  BY <1>3, <2>2, EmptySeq
<1> HIDE DEF batch
<1>6. /\ thread'["run"].phase = "queued" /\ thread'["run"].rows = batch
      /\ thread'["drain"] = thread["drain"] /\ thread["run"].phase = "idle"
  BY <1>1 DEF Placed, IInv, TypeOK, Stages, Idle, Worker
<1>7. InHand("run")' = Range(batch) /\ InHand("run") = {} /\ InHand("drain")' = InHand("drain")
  BY <1>6 DEF InHand
<1>8. Waiting' = Waiting  BY <1>1, <1>4, <1>7 DEF Waiting
<1>9. Apart'
  <2>1. Distinct(q)'  BY <1>1, <1>4 DEF Distinct
  <2>2. /\ Range(q)' \cap InHand("run")' = {} /\ Range(q)' \cap InHand("drain")' = {}
        /\ InHand("run")' \cap InHand("drain")' = {}
    BY <1>1, <1>4, <1>7 DEF Placed, Apart
  <2>3. \A w \in Worker : thread'[w].phase # "idle" => thread'[w].rows # <<>>
    BY <1>5, <1>6 DEF Placed, Apart, Worker
  <2>4. QED  BY <1>1, <1>8, <2>1, <2>2, <2>3 DEF Placed, Apart
<1>10. QED  BY <1>1, <1>8, <1>9, NothingMoves

\* A stop abandons the batch no thread has taken up, and nothing else.
LEMMA StopPlaced ==
  ASSUME Placed, Stop PROVE Apart' /\ LedgerStep
<1>1. /\ stopping = "no" /\ stopping' = "cancelled" /\ q' = q /\ offered' = offered
      /\ refused' = refused /\ stored' = stored /\ givenUp' = givenUp
      /\ abandoned = <<>>
  BY DEF Stop, Placed, IInv, Stages
<1>2. /\ thread'["drain"] = thread["drain"] /\ thread["drain"].phase = "idle"
      /\ thread'["run"] = Cancelled(thread["run"])
  BY DEF Stop, Placed, IInv, TypeOK, Stages, Worker
<1>3. InHand("drain")' = {} /\ InHand("drain") = {}  BY <1>2 DEF InHand
<1> DEFINE batch == IF thread["run"].phase = "queued" THEN Range(thread["run"].rows) ELSE {}
<1>4. Range(abandoned') = batch /\ Range(abandoned) = {}
  BY <1>1, RangeOfEmpty DEF Stop
<1>5. InHand("run") = batch \cup InHand("run")' /\ batch \cap InHand("run")' = {}
  BY <1>2 DEF InHand, Cancelled, Idle
<1>6. batch \cap Range(q) = {}  BY <1>5 DEF Placed, Apart
<1>7. Waiting' = Waiting \ batch /\ batch \subseteq Waiting
  BY <1>1, <1>3, <1>5, <1>6 DEF Waiting
<1> HIDE DEF batch
<1>8. Apart'
  <2>1. Distinct(q)'  BY <1>1 DEF Placed, Apart, Distinct
  <2>2. /\ Range(q)' \cap InHand("run")' = {} /\ Range(q)' \cap InHand("drain")' = {}
        /\ InHand("run")' \cap InHand("drain")' = {}
    BY <1>1, <1>3, <1>5 DEF Placed, Apart
  <2>3. \A w \in Worker : thread'[w].phase # "idle" => thread'[w].rows # <<>>
    BY <1>2 DEF Placed, Apart, Worker, Cancelled, Idle
  <2>4. QED  BY <1>1, <1>4, <1>7, <2>1, <2>2, <2>3 DEF Placed, Apart
<1>9. Ledger!Close(batch)
  BY <1>1, <1>4, <1>7 DEF Ledger!Close
<1>10. QED  BY <1>7, <1>8, <1>9 DEF LedgerStep, Ledger!Next

\* The drain takes up the whole queue.
LEMMA DrainPlaced ==
  ASSUME Placed, DrainRemaining PROVE Apart' /\ LedgerStep
<1>1. /\ stopping = "cancelled" /\ stopping' = "draining" /\ q' = <<>> /\ offered' = offered
      /\ refused' = refused /\ stored' = stored /\ givenUp' = givenUp /\ abandoned' = abandoned
      /\ thread["drain"].phase = "idle"
  BY DEF DrainRemaining, Placed, IInv, Stages
<1>2. Range(q') = {} /\ Distinct(q)'
  <2>1. Len(<<>>) = 0  BY EmptySeq
  <2>2. QED  BY <1>1, <2>1, RangeOfEmpty DEF Distinct
<1>3. InHand("drain") = {}  BY <1>1 DEF InHand
<1>4. /\ thread'["run"] = thread["run"]
      /\ q = <<>> => thread' = thread
      /\ q # <<>> => thread'["drain"].phase = "insert" /\ thread'["drain"].rows = q
  BY DEF DrainRemaining, Placed, IInv, TypeOK, Worker, Idle
<1>5. InHand("run")' = InHand("run")  BY <1>4 DEF InHand
<1>6. InHand("drain")' = Range(q)
  BY <1>3, <1>4, RangeOfEmpty DEF InHand
<1>7. Waiting' = Waiting  BY <1>2, <1>3, <1>5, <1>6 DEF Waiting
<1>8. Apart'
  <2>1. /\ Range(q)' \cap InHand("run")' = {} /\ Range(q)' \cap InHand("drain")' = {}
        /\ InHand("run")' \cap InHand("drain")' = {}
    BY <1>2, <1>5, <1>6 DEF Placed, Apart
  <2>2. \A w \in Worker : thread'[w].phase # "idle" => thread'[w].rows # <<>>
    BY <1>4 DEF Placed, Apart, Worker
  <2>3. QED  BY <1>1, <1>2, <1>7, <2>1, <2>2 DEF Placed, Apart
<1>9. QED  BY <1>1, <1>7, <1>8, NothingMoves

\* A transaction settles the rows of its thread, all of them one way, and no other.
LEMMA InsertPlaced ==
  ASSUME Placed, NEW w \in Worker, Insert(w) PROVE Apart' /\ LedgerStep
<1> DEFINE batch == Range(thread[w].rows)
<1>1. /\ thread[w].phase = "insert" /\ q' = q /\ offered' = offered /\ refused' = refused
      /\ abandoned' = abandoned /\ stopping' = stopping
      /\ \/ stored' = stored \cup batch /\ givenUp' = givenUp
         \/ givenUp' = givenUp \cup batch /\ stored' = stored
  BY DEF Insert
<1>2. /\ thread'[w].phase = "add" /\ thread'[w].rows = thread[w].rows
      /\ \A v \in Worker : v # w => thread'[v] = thread[v]
  <2>1. PICK counter \in {"written", "failed"} :
          thread' = [thread EXCEPT ![w] = [@ EXCEPT !.phase = "add", !.counter = counter]]
    BY DEF Insert
  <2>2. QED  BY <2>1 DEF Placed, IInv, TypeOK, Job
<1>3. InHand(w) = batch /\ InHand(w)' = {} /\ \A v \in Worker : v # w => InHand(v)' = InHand(v)
  BY <1>1, <1>2 DEF InHand
<1>4. batch # {}
  <2>1. thread[w].rows \in Seq(Row) /\ thread[w].rows # <<>>
    BY <1>1 DEF Placed, IInv, TypeOK, Job, Apart
  <2>2. QED  BY <2>1, RangeOfSome
<1> HIDE DEF batch
<1>5. Waiting' = Waiting \ batch /\ batch \subseteq Waiting
  BY <1>1, <1>3 DEF Placed, Apart, Waiting, Worker
<1>6. Apart'
  <2>1. Distinct(q)'  BY <1>1 DEF Placed, Apart, Distinct
  <2>2. /\ Range(q)' \cap InHand("run")' = {} /\ Range(q)' \cap InHand("drain")' = {}
        /\ InHand("run")' \cap InHand("drain")' = {}
    BY <1>1, <1>3 DEF Placed, Apart, Worker
  <2>3. \A v \in Worker : thread'[v].phase # "idle" => thread'[v].rows # <<>>
    BY <1>1, <1>2 DEF Placed, Apart
  <2>4. QED  BY <1>1, <1>5, <2>1, <2>2, <2>3 DEF Placed, Apart
<1>7. Ledger!Store(batch) \/ Ledger!GiveUp(batch)
  BY <1>1, <1>5 DEF Ledger!Store, Ledger!GiveUp
<1>8. QED  BY <1>4, <1>5, <1>6, <1>7 DEF LedgerStep, Ledger!Next

-----------------------------------------------------------------------------
(* The theorem                                                             *)

LEMMA PlacedInit == Init => Placed /\ Ledger!Init
<1> SUFFICES ASSUME Init PROVE Placed /\ Ledger!Init  OBVIOUS
<1>1. Range(q) = {} /\ Range(abandoned) = {} /\ Len(q) = 0
  BY RangeOfEmpty, EmptySeq DEF Init
<1>2. \A w \in Worker : thread[w].phase = "idle" /\ InHand(w) = {}
  BY DEF Init, Idle, InHand
<1>3. Waiting = {}  BY <1>1, <1>2 DEF Waiting, Worker
<1>4. Apart  BY <1>1, <1>2, <1>3 DEF Init, Apart, Distinct, Worker
<1>5. QED  BY <1>1, <1>3, <1>4, IInvInit DEF Placed, Init, Ledger!Init

LEMMA PlacedNext == Placed /\ [Next]_vars => Placed' /\ LedgerStep
<1> SUFFICES ASSUME Placed, [Next]_vars PROVE Apart' /\ LedgerStep
  BY IInvNext DEF Placed
<1>1. CASE UNCHANGED vars
  <2>1. Waiting' = Waiting  BY <1>1 DEF vars, Waiting, InHand
  <2>2. Apart'
    BY <1>1, <2>1 DEF Placed, Apart, Distinct, InHand, vars, history
  <2>3. QED  BY <1>1, <2>1, <2>2, NothingMoves DEF vars, history
<1>2. QED
  BY <1>1, QuietPlaced, SubmitPlaced, CollectPlaced, StopPlaced, DrainPlaced, InsertPlaced
     DEF Next, Loop, Write

\* The writer implements the ledger: a row is refused only when Capacity rows are waiting,
\* a batch is settled whole, and only the batch a stop finds untaken is abandoned, whatever
\* the queue, the batches, the two threads and the database do.
THEOREM WriterImplementsLedger == Spec => ImplementsLedger
<1>1. Placed /\ [Next]_vars => LedgerStep  BY PlacedNext
<1>2. ImplementsLedger <=> Ledger!Init /\ [][Ledger!Next]_(Ledger!ledger)
  BY DEF ImplementsLedger, Ledger!Spec
<1>3. QED  BY PlacedInit, PlacedNext, <1>2, PTL DEF Spec, LedgerStep
=============================================================================
