------------------------------ MODULE RowLedger ------------------------------
(***************************************************************************)
(* What the collector may rely on when it hands a row to the observation   *)
(* writer (pmarb/db/writer.py), with no queue, batch, thread or counter:   *)
(* a row is refused only when Capacity rows are waiting; a row taken is    *)
(* waiting until its whole batch is either stored or given up, except that *)
(* a writer being shut down may abandon one batch.                         *)
(***************************************************************************)
EXTENDS Integers, FiniteSets

CONSTANTS Row, Capacity

VARIABLES waiting, refused, stored, givenUp, abandoned, closing

ledger == <<waiting, refused, stored, givenUp, abandoned, closing>>

Init ==
  /\ waiting = {} /\ refused = {} /\ stored = {} /\ givenUp = {} /\ abandoned = {}
  /\ closing = FALSE

Fresh(r) == r \notin waiting \cup refused \cup stored \cup givenUp \cup abandoned

Take(r) ==
  /\ Fresh(r) /\ ~closing
  /\ waiting' = waiting \cup {r}
  /\ UNCHANGED <<refused, stored, givenUp, abandoned, closing>>

Refuse(r) ==
  /\ Fresh(r) /\ ~closing
  /\ Cardinality(waiting) >= Capacity
  /\ refused' = refused \cup {r}
  /\ UNCHANGED <<waiting, stored, givenUp, abandoned, closing>>

\* A batch is a transaction: all of it is stored, or none of it.
Store(batch) ==
  /\ waiting' = waiting \ batch /\ stored' = stored \cup batch
  /\ UNCHANGED <<refused, givenUp, abandoned, closing>>

GiveUp(batch) ==
  /\ waiting' = waiting \ batch /\ givenUp' = givenUp \cup batch
  /\ UNCHANGED <<refused, stored, abandoned, closing>>

\* Shutting down abandons at most the batch handed over last.
Close(batch) ==
  /\ ~closing /\ closing' = TRUE
  /\ waiting' = waiting \ batch /\ abandoned' = abandoned \cup batch
  /\ UNCHANGED <<refused, stored, givenUp>>

Next ==
  \/ \E r \in Row : Take(r) \/ Refuse(r)
  \/ \E batch \in (SUBSET waiting) \ {{}} : Store(batch) \/ GiveUp(batch)
  \/ \E batch \in SUBSET waiting : Close(batch)

Spec == Init /\ [][Next]_ledger
=============================================================================
