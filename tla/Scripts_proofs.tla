---------------------------- MODULE Scripts_proofs ----------------------------
(***************************************************************************)
(* What is proved of the operator's two scripts: of Publication for any    *)
(* pairs, any number of concurrent runs of refresh.sh and any number of    *)
(* faults; of Watchdog for any counters and any window.                    *)
(***************************************************************************)
EXTENDS Publication, Watchdog, TLAPS

-----------------------------------------------------------------------------
(* Publication                                                             *)

\* The run that is exporting compares with the file it will replace.  Only a rebuild by
\* hand tears the file.
Counts ==
  /\ manual # "no" => byHand
  /\ ~byHand => file.whole
  /\ \A r \in Run : pc[r] = "exporting" /\ ~byHand => counted[r] = file

\* The rows of what the collector is about to track are written, and not retracted, by
\* its own transaction.
Covers ==
  /\ pc[Collector] \in {"upserted", "selected", "retracted"} => markets[Collector] \subseteq locked[Collector]
  /\ pc[Collector] \in {"selected", "retracted"} => markets[Collector] \cap gone[Collector] = {}
  /\ pc[Collector] = "synced" => \A p \in markets[Collector] : row[p].there

IInv == TypeOK /\ OneMatcher /\ Counts /\ Covers /\ TrackedHaveRows

-----------------------------------------------------------------------------
(* Type correctness                                                        *)

\* Where a writer goes is a place a writer can be.
LEMMA GoesType ==
  ASSUME TypeOK, NEW w \in Writer, NEW phase \in RunPhase \cup CollectorPhase, Goes(w, phase)
  PROVE  pc' \in [Writer -> RunPhase \cup CollectorPhase]
BY DEF TypeOK, Goes

\* Nobody else goes anywhere.
LEMMA GoesMeans ==
  ASSUME TypeOK, NEW w \in Writer, NEW phase, Goes(w, phase)
  PROVE  \A v \in Writer : pc'[v] = IF v = w THEN phase ELSE pc[v]
BY DEF TypeOK, Goes

\* What is forgotten leaves well-typed plans, markets, verdicts and counts.
LEMMA ForgetsType ==
  ASSUME TypeOK, NEW w \in Writer, Forgets(w)
  PROVE  /\ plan' \in [Writer -> SUBSET Pair]
         /\ markets' \in [Writer -> SUBSET Pair] /\ markets'[Collector] \subseteq Trusted
         /\ verdicts' \in [Writer -> [Pair -> Verdict]] /\ counted' \in [Run -> Content]
BY DEF TypeOK, Forgets, NoReviews, Verdict, Torn, Content, Writer

\* A transaction that ends frees its rows and takes none.
LEMMA RollBackType ==
  ASSUME TypeOK, NEW w \in Writer, RollBack(w)
  PROVE  /\ locked' \in [Writer -> SUBSET Pair] /\ gone' \in [Writer -> SUBSET Pair]
         /\ \A v \in Writer : \A u \in Writer \ {v} : locked'[v] \cap locked'[u] = {}
BY DEF TypeOK, RollBack

\* A fault is one of those allowed.
LEMMA FaultType == ASSUME TypeOK, Fault PROVE faults' \in 0..MaxFault
BY PublicationAssumption DEF TypeOK, Fault

LEMMA TypeInit == Init => TypeOK
<1> SUFFICES ASSUME Init PROVE TypeOK  OBVIOUS
<1>1. /\ file \in Content /\ counted \in [Run -> Content] /\ reviews \in [Pair -> Verdict]
      /\ verdicts \in [Writer -> [Pair -> Verdict]]
  BY PublicationAssumption DEF Init, Whole, Torn, Content, NoReviews, Verdict
<1>2. pc \in [Writer -> RunPhase \cup CollectorPhase]
  BY DEF Init, RunPhase, CollectorPhase
<1>3. row \in [Pair -> [there : BOOLEAN, live : BOOLEAN, label : Verdict]]
  BY DEF Init, Verdict
<1>4. container \in Deployment /\ starts \in 0..MaxStarts /\ faults \in 0..MaxFault
  BY PublicationAssumption DEF Init
<1>5. tracked \subseteq Trusted /\ known \subseteq Pair
  BY PublicationAssumption DEF Init
<1>6. markets \in [Writer -> SUBSET Pair] /\ markets[Collector] \subseteq Trusted
  BY DEF Init, Writer
<1>7. QED  BY <1>1, <1>2, <1>3, <1>4, <1>5, <1>6 DEF Init, TypeOK

LEMMA TypeStep == TypeOK /\ [Next]_vars => TypeOK'
<1> SUFFICES ASSUME TypeOK, [Next]_vars PROVE TypeOK'  OBVIOUS
<1> USE DEF RunPhase, CollectorPhase
<1>1. ASSUME NEW r \in Run, MakeLock(r) PROVE TypeOK'
  <2>1. pc' \in [Writer -> RunPhase \cup CollectorPhase]
    BY <1>1, GoesType DEF MakeLock, Refused, Writer
  <2>2. lock' \in Run \cup {"none"} /\ starts' \in 0..MaxStarts
    BY <1>1, PublicationAssumption DEF MakeLock, TypeOK
  <2>3. QED  BY <1>1, <2>1, <2>2 DEF MakeLock, TypeOK, fileVars, dbVars, CollectorVars
<1>2. ASSUME NEW r \in Run, Stage(r) PROVE TypeOK'
  BY <1>2, FaultType DEF Stage, TypeOK, Goes, Fault, Writer, fileVars, dbVars, CollectorVars
<1>3. ASSUME NEW r \in Run, Export(r) PROVE TypeOK'
  <2>1. pc' \in [Writer -> RunPhase \cup CollectorPhase]
    BY <1>3, GoesType DEF Export, Install, Writer
  <2>2. file' \in Content
    <3>1. \A new \in SUBSET Pair : Whole(new) \in Content  BY DEF Whole, Content
    <3>2. QED  BY <1>3, <3>1 DEF Export, Install, TypeOK, fileVars
  <2>3. view' = view \/ (view' = <<file>> /\ container)
    BY <1>3 DEF Export, Install, fileVars
  <2>4. manual' \in {"no", "writing", "detached"}
    BY <1>3 DEF Export, Install, TypeOK, fileVars
  <2>5. /\ view' = <<>> \/ view' \in {<<c>> : c \in Content}
        /\ view' # <<>> => container
    BY <2>3 DEF TypeOK
  <2>6. QED  BY <1>3, <2>1, <2>2, <2>4, <2>5 DEF Export, TypeOK, dbVars, CollectorVars
<1>4. ASSUME NEW r \in Run, SeedReads(r) PROVE TypeOK'
  <2>1. pc' \in [Writer -> RunPhase \cup CollectorPhase]
    BY <1>4, GoesType DEF SeedReads, Writer
  <2>2. plan' \in [Writer -> SUBSET Pair]
    BY <1>4 DEF SeedReads, TypeOK, Content, Writer
  <2>3. verdicts' \in [Writer -> [Pair -> Verdict]]
    BY <1>4 DEF SeedReads, TypeOK, Writer
  <2>4. QED  BY <1>4, <2>1, <2>2, <2>3 DEF SeedReads, TypeOK, fileVars, dbVars, CollectorVars
<1>5. ASSUME NEW r \in Run, Exit(r) PROVE TypeOK'
  BY <1>5, GoesType, ForgetsType DEF Exit, TypeOK, Writer, fileVars, dbVars, CollectorVars
<1>6. ASSUME NEW r \in Run, KillRun(r) PROVE TypeOK'
  BY <1>6, GoesType, ForgetsType, RollBackType, FaultType DEF KillRun, TypeOK, Writer, fileVars, dbVars, CollectorVars
<1>7. ASSUME NEW w \in Writer, NEW listed \in SUBSET Needed(w), Upsert(w, listed) PROVE TypeOK'
  BY <1>7 DEF Upsert, TypeOK, Goes, Needed, LabelsOf, NoReviews, Verdict, Usable, Others, fileVars, dbVars, CollectorVars
<1>8. ASSUME NEW w \in Writer, Select(w) PROVE TypeOK'
  BY <1>8 DEF Select, TypeOK, Goes, fileVars, dbVars, CollectorVars
<1>9. ASSUME NEW w \in Writer, Retract(w) PROVE TypeOK'
  BY <1>9 DEF Retract, TypeOK, Goes, Others, fileVars, dbVars, CollectorVars
<1>10. ASSUME NEW w \in Writer, Commit(w) PROVE TypeOK'
  <2>1. pc' \in [Writer -> RunPhase \cup CollectorPhase]
    BY <1>10, GoesType DEF Commit, AfterCommit
  <2>2. row' \in [Pair -> [there : BOOLEAN, live : BOOLEAN, label : Verdict]]
    <3>1. ASSUME NEW p \in Pair
          PROVE  row'[p] \in [there : BOOLEAN, live : BOOLEAN, label : Verdict]
      <4> DEFINE Row == [there : BOOLEAN, live : BOOLEAN, label : Verdict]
      <4>1. verdicts[w][p] \in Verdict /\ row[p] \in Row  BY DEF TypeOK
      <4>2. Upserted(p, verdicts[w][p]) \in Row  BY <4>1 DEF Upserted
      <4>3. [row[p] EXCEPT !.live = FALSE] \in Row  BY <4>1
      <4>4. \/ row'[p] = [row[p] EXCEPT !.live = FALSE]
            \/ row'[p] = Upserted(p, verdicts[w][p])
            \/ row'[p] = row[p]
        BY <1>10 DEF Commit
      <4>5. QED  BY <4>1, <4>2, <4>3, <4>4
    <3>2. row' = [p \in Pair |-> row'[p]]  BY <1>10 DEF Commit
    <3>3. QED  BY <3>1, <3>2
  <2>3. known' \subseteq Pair
    BY <1>10 DEF Commit, TypeOK
  <2>4. QED  BY <1>10, <2>1, <2>2, <2>3, RollBackType DEF Commit, TypeOK, fileVars, CollectorVars
<1>11. ASSUME NEW w \in Writer, Abort(w) PROVE TypeOK'
  <2>1. pc' \in [Writer -> RunPhase \cup CollectorPhase]
    <3>1. AfterAbort(w) \in RunPhase \cup CollectorPhase
      BY DEF AfterAbort, RunPhase, CollectorPhase
    <3>2. QED  BY <1>11, <3>1, GoesType DEF Abort
  <2>2. markets' \in [Writer -> SUBSET Pair] /\ markets'[Collector] \subseteq Trusted
    <3>1. CASE UNCHANGED markets  BY <3>1 DEF TypeOK
    <3>2. ASSUME w = Collector, NEW listed \in SUBSET Needed(w),
                 markets' = [markets EXCEPT ![w] = listed]
          PROVE  markets' \in [Writer -> SUBSET Pair] /\ markets'[Collector] \subseteq Trusted
      BY <3>2 DEF TypeOK, Needed
    <3>3. QED  BY <1>11, <3>1, <3>2 DEF Abort
  <2>3. faults' \in 0..MaxFault  BY <1>11, FaultType DEF Abort, TypeOK
  <2>4. QED  BY <1>11, <2>1, <2>2, <2>3, RollBackType DEF Abort, TypeOK, fileVars, CollectorVars
<1>12. CASE RefreshReads
  BY <1>12 DEF RefreshReads, Shown, Content, TypeOK, Goes, Writer, fileVars, dbVars, CollectorVars
<1>13. CASE Apply
  <2>1. pc' \in [Writer -> RunPhase \cup CollectorPhase]
    BY <1>13, GoesType DEF Apply, Writer
  <2>2. /\ plan' \in [Writer -> SUBSET Pair]
        /\ markets' \in [Writer -> SUBSET Pair] /\ markets'[Collector] \subseteq Trusted
        /\ verdicts' \in [Writer -> [Pair -> Verdict]] /\ counted' \in [Run -> Content]
    BY <1>13, ForgetsType DEF Apply, Writer
  <2>3. QED  BY <1>13, <2>1, <2>2 DEF Apply, TypeOK, Writer, fileVars, dbVars
<1>14. CASE CollectorDies
  BY <1>14, ForgetsType, RollBackType, FaultType DEF CollectorDies, TypeOK, Goes, Writer, fileVars, dbVars, CollectorVars
<1>15. CASE CollectorStarts
  BY <1>15 DEF CollectorStarts, Content, TypeOK, Goes, Writer, fileVars, dbVars, CollectorVars
<1>16. CASE ClearLock
  BY <1>16 DEF ClearLock, TypeOK, fileVars, dbVars, CollectorVars
<1>17. CASE ManualStarts
  BY <1>17, FaultType DEF ManualStarts, Torn, Content, TypeOK, dbVars
<1>18. CASE ManualEnds
  <2>1. PICK s \in SUBSET Pair :
          /\ file' = (IF manual = "writing" THEN Whole(s) ELSE file)
          /\ view' = (IF manual = "detached" /\ view = <<Torn>> THEN <<Whole(s)>> ELSE view)
    BY <1>18 DEF ManualEnds
  <2>2. Whole(s) \in Content  BY DEF Whole, Content
  <2>3. file' \in Content  BY <2>1, <2>2 DEF TypeOK
  <2>4. view' = view \/ (view' = <<Whole(s)>> /\ view # <<>>)  BY <2>1
  <2>5. view' = <<>> \/ view' \in {<<c>> : c \in Content}  BY <2>2, <2>4 DEF TypeOK
  <2>6. view' # <<>> => container  BY <2>4 DEF TypeOK
  <2>7. QED  BY <1>18, <2>3, <2>5, <2>6 DEF ManualEnds, TypeOK, dbVars, CollectorVars
<1>19. CASE ManualDies
  BY <1>19 DEF ManualDies, TypeOK, dbVars, CollectorVars
<1>20. ASSUME NEW p \in Pair, NEW v \in Verdict, Review(p, v) PROVE TypeOK'
  BY <1>20, FaultType DEF Review, TypeOK, fileVars, dbVars, CollectorVars
<1>21. CASE UNCHANGED vars
  BY <1>21 DEF vars, TypeOK, fileVars, dbVars
<1>22. QED
  BY <1>1, <1>2, <1>3, <1>4, <1>5, <1>6, <1>7, <1>8, <1>9, <1>10, <1>11, <1>12, <1>13, <1>14, <1>15,
     <1>16, <1>17, <1>18, <1>19, <1>20, <1>21 DEF Next, Matcher, Transaction

-----------------------------------------------------------------------------
(* The lock                                                                *)

\* A step after which no run that was idle is busy, and that leaves the lock alone.
LEMMA LockKept ==
  ASSUME OneMatcher, UNCHANGED lock, \A r \in Run : pc'[r] # "idle" => pc[r] # "idle"
  PROVE  OneMatcher'
BY DEF OneMatcher

LEMMA OneMatcherStep == TypeOK /\ OneMatcher /\ [Next]_vars => OneMatcher'
<1> SUFFICES ASSUME TypeOK, OneMatcher, [Next]_vars PROVE OneMatcher'  OBVIOUS
<1>0. /\ Run \subseteq Writer /\ Collector \in Writer
      /\ \A r \in Run : r # "none" /\ r # Collector
  BY PublicationAssumption DEF Writer
<1>1. ASSUME NEW r \in Run, MakeLock(r) PROVE OneMatcher'
  <2>1. \A s \in Run : pc'[s] # "idle" => s = r \/ pc[s] # "idle"
    BY <1>0, <1>1, GoesMeans DEF MakeLock, Refused
  <2>2. CASE lock = "none"
    BY <1>0, <1>1, <2>1, <2>2 DEF MakeLock, OneMatcher
  <2>3. CASE lock # "none"
    BY <1>0, <1>1, <2>3, GoesMeans DEF MakeLock, OneMatcher, Refused
  <2>4. QED  BY <2>2, <2>3
<1>2. ASSUME NEW r \in Run, Stage(r) PROVE OneMatcher'
  BY <1>0, <1>2, LockKept, GoesMeans DEF Stage
<1>3. ASSUME NEW r \in Run, Export(r) PROVE OneMatcher'
  BY <1>0, <1>3, LockKept, GoesMeans DEF Export, Install
<1>4. ASSUME NEW r \in Run, SeedReads(r) PROVE OneMatcher'
  BY <1>0, <1>4, LockKept, GoesMeans DEF SeedReads
<1>5. ASSUME NEW r \in Run, Exit(r) PROVE OneMatcher'
  BY <1>0, <1>5, GoesMeans DEF Exit, OneMatcher
<1>6. ASSUME NEW r \in Run, KillRun(r) PROVE OneMatcher'
  BY <1>0, <1>6, LockKept, GoesMeans DEF KillRun
<1>7. ASSUME NEW w \in Writer, NEW listed \in SUBSET Needed(w), Upsert(w, listed) PROVE OneMatcher'
  BY <1>0, <1>7, LockKept, GoesMeans DEF Upsert
<1>8. ASSUME NEW w \in Writer, Select(w) PROVE OneMatcher'
  BY <1>0, <1>8, LockKept, GoesMeans DEF Select
<1>9. ASSUME NEW w \in Writer, Retract(w) PROVE OneMatcher'
  BY <1>0, <1>9, LockKept, GoesMeans DEF Retract
<1>10. ASSUME NEW w \in Writer, Commit(w) PROVE OneMatcher'
  BY <1>0, <1>10, LockKept, GoesMeans DEF Commit
<1>11. ASSUME NEW w \in Writer, Abort(w) PROVE OneMatcher'
  BY <1>0, <1>11, LockKept, GoesMeans DEF Abort
<1>12. CASE RefreshReads
  BY <1>0, <1>12, LockKept, GoesMeans DEF RefreshReads
<1>13. CASE Apply
  BY <1>0, <1>13, LockKept, GoesMeans DEF Apply
<1>14. CASE CollectorDies
  BY <1>0, <1>14, LockKept, GoesMeans DEF CollectorDies
<1>15. CASE CollectorStarts
  BY <1>0, <1>15, LockKept, GoesMeans DEF CollectorStarts
<1>16. CASE ClearLock
  BY <1>16 DEF ClearLock, OneMatcher
<1>17. CASE ManualStarts \/ ManualEnds \/ ManualDies
  BY <1>17, LockKept DEF ManualStarts, ManualEnds, ManualDies
<1>18. ASSUME NEW p \in Pair, NEW v \in Verdict, Review(p, v) PROVE OneMatcher'
  BY <1>18, LockKept DEF Review
<1>19. CASE UNCHANGED vars
  BY <1>19, LockKept DEF vars
<1>20. QED
  BY <1>1, <1>2, <1>3, <1>4, <1>5, <1>6, <1>7, <1>8, <1>9, <1>10, <1>11, <1>12, <1>13, <1>14, <1>15,
     <1>16, <1>17, <1>18, <1>19 DEF Next, Matcher, Transaction

-----------------------------------------------------------------------------
(* The size of the set                                                     *)

\* A step that leaves the file alone, lets no run begin to export and forgets no count.
LEMMA CountsKept ==
  ASSUME Counts, UNCHANGED <<file, manual, byHand>>,
         \A r \in Run : pc'[r] = "exporting" => pc[r] = "exporting" /\ counted'[r] = counted[r]
  PROVE  Counts'
BY DEF Counts

LEMMA CountsStep == TypeOK /\ OneMatcher /\ Counts /\ [Next]_vars => Counts'
<1> SUFFICES ASSUME TypeOK, OneMatcher, Counts, [Next]_vars PROVE Counts'  OBVIOUS
<1>0. /\ Run \subseteq Writer /\ Collector \in Writer
      /\ \A r \in Run : r # "none" /\ r # Collector
  BY PublicationAssumption DEF Writer
<1>1. ASSUME NEW r \in Run, MakeLock(r) PROVE Counts'
  BY <1>0, <1>1, CountsKept, GoesMeans DEF MakeLock, Refused, fileVars, CollectorVars
<1>2. ASSUME NEW r \in Run, Stage(r) PROVE Counts'
  <2>1. CASE Goes(r, "exporting") /\ counted' = [counted EXCEPT ![r] = file]
    <3>1. \A s \in Run : counted'[s] = IF s = r THEN file ELSE counted[s]
      BY <2>1 DEF TypeOK
    <3>2. \A s \in Run : s # r => pc'[s] = pc[s]
      BY <1>0, <2>1, GoesMeans
    <3>3. UNCHANGED <<file, manual, byHand>>
      BY <1>2 DEF Stage, fileVars, CollectorVars
    <3>4. QED  BY <3>1, <3>2, <3>3 DEF Counts
  <2>2. CASE Goes(r, "idle") /\ UNCHANGED counted
    BY <1>0, <1>2, <2>2, CountsKept, GoesMeans DEF Stage, fileVars, CollectorVars
  <2>3. QED  BY <1>2, <2>1, <2>2 DEF Stage
<1>3. ASSUME NEW r \in Run, Export(r) PROVE Counts'
  <2>1. CASE Goes(r, "exiting") /\ UNCHANGED fileVars
    BY <1>0, <1>3, <2>1, CountsKept, GoesMeans DEF Export, fileVars, CollectorVars
  <2>2. ASSUME NEW new \in SUBSET Pair, Install(r, new) PROVE Counts'
    <3>1. \A s \in Run : pc'[s] # "exporting"
      BY <1>0, <1>3, <2>2, GoesMeans DEF Export, Install, OneMatcher
    <3>2. file'.whole /\ (manual' # "no" => manual # "no") /\ UNCHANGED byHand
      BY <1>3, <2>2 DEF Export, Install, Whole, CollectorVars
    <3>3. QED  BY <3>1, <3>2 DEF Counts
  <2>3. QED  BY <1>3, <2>1, <2>2 DEF Export
<1>4. ASSUME NEW r \in Run, SeedReads(r) PROVE Counts'
  BY <1>0, <1>4, CountsKept, GoesMeans DEF SeedReads, fileVars, CollectorVars
<1>5. ASSUME NEW r \in Run, Exit(r) PROVE Counts'
  BY <1>0, <1>5, CountsKept, GoesMeans DEF Exit, Forgets, fileVars, CollectorVars
<1>6. ASSUME NEW r \in Run, KillRun(r) PROVE Counts'
  BY <1>0, <1>6, CountsKept, GoesMeans DEF KillRun, Forgets, fileVars, CollectorVars
<1>7. ASSUME NEW w \in Writer, NEW listed \in SUBSET Needed(w), Upsert(w, listed) PROVE Counts'
  BY <1>0, <1>7, CountsKept, GoesMeans DEF Upsert, fileVars, CollectorVars
<1>8. ASSUME NEW w \in Writer, Select(w) PROVE Counts'
  BY <1>0, <1>8, CountsKept, GoesMeans DEF Select, fileVars, CollectorVars
<1>9. ASSUME NEW w \in Writer, Retract(w) PROVE Counts'
  BY <1>0, <1>9, CountsKept, GoesMeans DEF Retract, fileVars, CollectorVars
<1>10. ASSUME NEW w \in Writer, Commit(w) PROVE Counts'
  BY <1>0, <1>10, CountsKept, GoesMeans DEF Commit, AfterCommit, fileVars, CollectorVars
<1>11. ASSUME NEW w \in Writer, Abort(w) PROVE Counts'
  BY <1>0, <1>11, CountsKept, GoesMeans DEF Abort, AfterAbort, fileVars, CollectorVars
<1>12. CASE RefreshReads
  BY <1>0, <1>12, CountsKept, GoesMeans DEF RefreshReads, fileVars, CollectorVars
<1>13. CASE Apply
  BY <1>0, <1>13, CountsKept, GoesMeans DEF Apply, Forgets, fileVars
<1>14. CASE CollectorDies
  BY <1>0, <1>14, CountsKept, GoesMeans DEF CollectorDies, Forgets, fileVars, CollectorVars
<1>15. CASE CollectorStarts
  BY <1>0, <1>15, CountsKept, GoesMeans DEF CollectorStarts
<1>16. CASE ClearLock
  BY <1>16, CountsKept DEF ClearLock, fileVars, CollectorVars
<1>17. CASE ManualStarts \/ ManualEnds \/ ManualDies
  BY <1>17 DEF ManualStarts, ManualEnds, ManualDies, Counts, CollectorVars
<1>18. ASSUME NEW p \in Pair, NEW v \in Verdict, Review(p, v) PROVE Counts'
  BY <1>18, CountsKept DEF Review, fileVars, CollectorVars
<1>19. CASE UNCHANGED vars
  BY <1>19, CountsKept DEF vars, fileVars
<1>20. QED
  BY <1>1, <1>2, <1>3, <1>4, <1>5, <1>6, <1>7, <1>8, <1>9, <1>10, <1>11, <1>12, <1>13, <1>14, <1>15,
     <1>16, <1>17, <1>18, <1>19 DEF Next, Matcher, Transaction

\* The action NeverHalves speaks of.
Halves ==
  file' # file /\ ~byHand' =>
    /\ file'.whole /\ Cardinality(file'.set) >= MinPairs
    /\ HalfOf(file.set, file'.set)
    /\ HalfOf(file.set \cap Trusted, file'.set \cap Trusted)

LEMMA HalvesStep == Counts /\ [Next]_vars => Halves
<1> SUFFICES ASSUME Counts, [Next]_vars, file' # file, ~byHand'
             PROVE  /\ file'.whole /\ Cardinality(file'.set) >= MinPairs
                    /\ HalfOf(file.set, file'.set)
                    /\ HalfOf(file.set \cap Trusted, file'.set \cap Trusted)
  BY DEF Halves
<1>1. \/ \E r \in Run : Export(r)
      \/ ManualStarts \/ ManualEnds
  BY DEF Next, Matcher, Transaction, MakeLock, Stage, SeedReads, Exit, KillRun, Upsert, Select, Retract,
         Commit, Abort, RefreshReads, Apply, CollectorDies, CollectorStarts, ClearLock, ManualDies,
         Review, vars, fileVars
<1>2. CASE ManualStarts \/ ManualEnds
  BY <1>2 DEF ManualStarts, ManualEnds, Counts, CollectorVars
<1>3. ASSUME NEW r \in Run, Export(r)
      PROVE  /\ file'.whole /\ Cardinality(file'.set) >= MinPairs
             /\ HalfOf(file.set, file'.set)
             /\ HalfOf(file.set \cap Trusted, file'.set \cap Trusted)
  <2>1. PICK new \in SUBSET Pair : PassesGate(counted[r], new) /\ Install(r, new)
    BY <1>3 DEF Export, fileVars
  <2>2. counted[r] = file /\ file.whole
    BY <1>3 DEF Export, Counts, CollectorVars
  <2>3. file'.whole /\ file'.set = new
    BY <2>1 DEF Install, Whole
  <2>4. QED  BY <2>1, <2>2, <2>3 DEF PassesGate
<1>4. QED  BY <1>1, <1>2, <1>3

-----------------------------------------------------------------------------
(* The rows of what is streamed                                            *)

\* Covers and TrackedHaveRows speak of the collector's own transaction and of rows that
\* are there.
Rows == Covers /\ TrackedHaveRows

\* A step of others: what the collector has in hand is as it was, and no row is removed.
LEMMA RowsKept ==
  ASSUME Rows, UNCHANGED <<tracked, stale>>, pc'[Collector] = pc[Collector],
         UNCHANGED <<markets[Collector], locked[Collector], gone[Collector]>>,
         tracked \subseteq Pair, markets[Collector] \subseteq Pair,
         \A p \in Pair : row[p].there => row'[p].there
  PROVE  Rows'
BY DEF Rows, Covers, TrackedHaveRows

LEMMA RowsStep == TypeOK /\ Rows /\ [Next]_vars => Rows'
<1> SUFFICES ASSUME TypeOK, Rows, [Next]_vars PROVE Rows'  OBVIOUS
<1>0. /\ Run \subseteq Writer /\ Collector \in Writer
      /\ \A r \in Run : r # "none" /\ r # Collector
      /\ tracked \subseteq Pair /\ markets[Collector] \subseteq Pair
  BY PublicationAssumption DEF Writer, TypeOK
<1>1. ASSUME NEW r \in Run, MakeLock(r) PROVE Rows'
  BY <1>0, <1>1, RowsKept, GoesMeans DEF MakeLock, dbVars, CollectorVars
<1>2. ASSUME NEW r \in Run, Stage(r) PROVE Rows'
  BY <1>0, <1>2, RowsKept, GoesMeans DEF Stage, dbVars, CollectorVars
<1>3. ASSUME NEW r \in Run, Export(r) PROVE Rows'
  BY <1>0, <1>3, RowsKept, GoesMeans DEF Export, Install, dbVars, CollectorVars
<1>4. ASSUME NEW r \in Run, SeedReads(r) PROVE Rows'
  BY <1>0, <1>4, RowsKept, GoesMeans DEF SeedReads, dbVars, CollectorVars
<1>5. ASSUME NEW r \in Run, Exit(r) PROVE Rows'
  <2>1. UNCHANGED markets[Collector]  BY <1>0, <1>5 DEF Exit, Forgets, TypeOK
  <2>2. QED  BY <1>0, <1>5, <2>1, RowsKept, GoesMeans DEF Exit, dbVars, CollectorVars
<1>6. ASSUME NEW r \in Run, KillRun(r) PROVE Rows'
  <2>1. UNCHANGED <<markets[Collector], locked[Collector], gone[Collector]>>
    BY <1>0, <1>6 DEF KillRun, Forgets, RollBack, TypeOK
  <2>2. QED  BY <1>0, <1>6, <2>1, RowsKept, GoesMeans DEF KillRun, CollectorVars
<1>7. ASSUME NEW w \in Writer, NEW listed \in SUBSET Needed(w), Upsert(w, listed) PROVE Rows'
  <2>1. CASE w # Collector
    <3>1. UNCHANGED <<markets[Collector], locked[Collector], gone[Collector]>>
      BY <1>0, <1>7, <2>1 DEF Upsert, TypeOK
    <3>2. QED  BY <1>0, <1>7, <2>1, <3>1, RowsKept, GoesMeans DEF Upsert, CollectorVars
  <2>2. CASE w = Collector
    <3>1. markets'[Collector] = listed /\ locked'[Collector] = Usable(w, listed)
      BY <1>0, <1>7, <2>2 DEF Upsert, TypeOK
    <3>2. listed \subseteq Usable(w, listed)
      BY <2>2 DEF Needed, Usable
    <3>3. pc'[Collector] = "upserted" /\ UNCHANGED <<row, tracked, stale>>
      BY <1>0, <1>7, <2>2, GoesMeans DEF Upsert, CollectorVars
    <3>4. QED  BY <3>1, <3>2, <3>3 DEF Rows, Covers, TrackedHaveRows
  <2>3. QED  BY <2>1, <2>2
<1>8. ASSUME NEW w \in Writer, Select(w) PROVE Rows'
  <2>1. CASE w # Collector
    <3>1. UNCHANGED gone[Collector]  BY <1>0, <1>8, <2>1 DEF Select, TypeOK
    <3>2. QED  BY <1>0, <1>8, <2>1, <3>1, RowsKept, GoesMeans DEF Select, CollectorVars
  <2>2. CASE w = Collector
    <3>1. gone'[Collector] \cap locked[Collector] = {}
      BY <1>0, <1>8, <2>2 DEF Select, TypeOK
    <3>2. /\ pc[Collector] = "upserted" /\ pc'[Collector] = "selected"
          /\ UNCHANGED <<row, tracked, stale, markets, locked>>
      BY <1>0, <1>8, <2>2, GoesMeans DEF Select, CollectorVars
    <3>3. QED  BY <3>1, <3>2 DEF Rows, Covers, TrackedHaveRows
  <2>3. QED  BY <2>1, <2>2
<1>9. ASSUME NEW w \in Writer, Retract(w) PROVE Rows'
  <2>1. CASE w # Collector
    <3>1. UNCHANGED locked[Collector]  BY <1>0, <1>9, <2>1 DEF Retract, TypeOK
    <3>2. QED  BY <1>0, <1>9, <2>1, <3>1, RowsKept, GoesMeans DEF Retract, CollectorVars
  <2>2. CASE w = Collector
    <3>1. locked[Collector] \subseteq locked'[Collector]
      BY <1>0, <1>9, <2>2 DEF Retract, TypeOK
    <3>2. /\ pc[Collector] = "selected" /\ pc'[Collector] = "retracted"
          /\ UNCHANGED <<row, tracked, stale, markets, gone>>
      BY <1>0, <1>9, <2>2, GoesMeans DEF Retract, CollectorVars
    <3>3. QED  BY <3>1, <3>2 DEF Rows, Covers, TrackedHaveRows
  <2>3. QED  BY <2>1, <2>2
<1>10. ASSUME NEW w \in Writer, Commit(w) PROVE Rows'
  <2>1. ASSUME NEW p \in Pair, p \notin locked[w] \ gone[w], row[p].there PROVE row'[p].there
    <3>1. row[p] \in [there : BOOLEAN, live : BOOLEAN, label : Verdict]  BY DEF TypeOK
    <3>2. row'[p] = row[p] \/ row'[p] = [row[p] EXCEPT !.live = FALSE]
      BY <1>10, <2>1 DEF Commit
    <3>3. QED  BY <2>1, <3>1, <3>2
  <2>2. \A p \in Pair : p \in locked[w] \ gone[w] => row'[p].there
    BY <1>10 DEF Commit, Upserted
  <2>3. \A p \in Pair : row[p].there => row'[p].there
    BY <2>1, <2>2
  <2>4. CASE w # Collector
    <3>1. UNCHANGED <<locked[Collector], gone[Collector]>>
      BY <1>0, <1>10, <2>4 DEF Commit, RollBack, TypeOK
    <3>2. QED  BY <1>0, <1>10, <2>3, <2>4, <3>1, RowsKept, GoesMeans DEF Commit, CollectorVars
  <2>5. CASE w = Collector
    <3>1. /\ pc[Collector] = "retracted" /\ pc'[Collector] = "synced"
          /\ UNCHANGED <<tracked, stale, markets>>
      BY <1>0, <1>10, <2>5, GoesMeans DEF Commit, AfterCommit, CollectorVars
    <3>2. \A p \in markets[Collector] : row'[p].there
      BY <1>0, <2>2, <2>5, <3>1 DEF Rows, Covers
    <3>3. QED  BY <1>0, <2>3, <3>1, <3>2 DEF Rows, Covers, TrackedHaveRows
  <2>6. QED  BY <2>4, <2>5
<1>11. ASSUME NEW w \in Writer, Abort(w) PROVE Rows'
  <2>1. CASE w # Collector
    <3>1. UNCHANGED <<locked[Collector], gone[Collector]>>
      BY <1>0, <1>11, <2>1 DEF Abort, RollBack, TypeOK
    <3>2. QED  BY <1>0, <1>11, <2>1, <3>1, RowsKept, GoesMeans DEF Abort, CollectorVars
  <2>2. CASE w = Collector
    <3>1. pc'[Collector] = "unsynced" /\ UNCHANGED <<row, tracked, stale>>
      BY <1>0, <1>11, <2>2, GoesMeans DEF Abort, AfterAbort, CollectorVars
    <3>2. QED  BY <3>1 DEF Rows, Covers, TrackedHaveRows
  <2>3. QED  BY <2>1, <2>2
<1>12. CASE RefreshReads
  <2>1. pc'[Collector] = "read" /\ UNCHANGED <<row, tracked, stale>>
    BY <1>0, <1>12, GoesMeans DEF RefreshReads, dbVars, CollectorVars
  <2>2. QED  BY <2>1 DEF Rows, Covers, TrackedHaveRows
<1>13. CASE Apply
  <2>1. /\ pc'[Collector] = "idle" /\ UNCHANGED row /\ tracked' = markets[Collector]
        /\ stale' = (pc[Collector] = "unsynced") /\ pc[Collector] \in {"synced", "unsynced"}
    BY <1>0, <1>13, GoesMeans DEF Apply, dbVars
  <2>2. QED  BY <2>1 DEF Rows, Covers, TrackedHaveRows
<1>14. CASE CollectorDies
  <2>1. pc'[Collector] = "down" /\ UNCHANGED <<row, tracked, stale>>
    BY <1>0, <1>14, GoesMeans DEF CollectorDies, CollectorVars
  <2>2. QED  BY <2>1 DEF Rows, Covers, TrackedHaveRows
<1>15. CASE CollectorStarts
  <2>1. pc'[Collector] = "idle" /\ stale'
    BY <1>0, <1>15, GoesMeans DEF CollectorStarts
  <2>2. QED  BY <2>1 DEF Rows, Covers, TrackedHaveRows
<1>16. CASE ClearLock
  BY <1>0, <1>16, RowsKept DEF ClearLock, dbVars, CollectorVars
<1>17. CASE ManualStarts \/ ManualEnds \/ ManualDies
  BY <1>0, <1>17, RowsKept DEF ManualStarts, ManualEnds, ManualDies, dbVars, CollectorVars
<1>18. ASSUME NEW p \in Pair, NEW v \in Verdict, Review(p, v) PROVE Rows'
  BY <1>0, <1>18, RowsKept DEF Review, dbVars, CollectorVars
<1>19. CASE UNCHANGED vars
  BY <1>0, <1>19, RowsKept DEF vars, dbVars
<1>20. QED
  BY <1>1, <1>2, <1>3, <1>4, <1>5, <1>6, <1>7, <1>8, <1>9, <1>10, <1>11, <1>12, <1>13, <1>14, <1>15,
     <1>16, <1>17, <1>18, <1>19 DEF Next, Matcher, Transaction

-----------------------------------------------------------------------------
(* The theorems                                                            *)

\* Initially nobody is past the lock, the file is whole and the streamed pairs have rows.
LEMMA InvInit == Init => IInv
<1> SUFFICES ASSUME Init PROVE IInv  OBVIOUS
<1>1. OneMatcher /\ Counts
  BY DEF Init, OneMatcher, Counts, Writer, Whole
<1>2. pc[Collector] = "idle"  BY DEF Init, Writer
<1>3. TrackedHaveRows
  BY PublicationAssumption DEF Init, TrackedHaveRows, Whole
<1>4. QED  BY TypeInit, <1>1, <1>2, <1>3 DEF IInv, Covers

LEMMA InvStep == IInv /\ [Next]_vars => IInv'
BY TypeStep, OneMatcherStep, CountsStep, RowsStep DEF IInv, Rows

LEMMA Invariance == Spec => []IInv
BY InvInit, InvStep, PTL DEF Spec

\* The variables keep their types, and no two transactions ever hold one row.
THEOREM PublicationTypeCorrect == Spec => []TypeOK
<1>1. IInv => TypeOK  BY DEF IInv
<1>2. QED  BY Invariance, <1>1, PTL

\* For any number of runs, kills and lost staging directories no two runs are past the
\* lock of refresh.sh at once.
THEOREM PublicationOneMatcher == Spec => []OneMatcher
<1>1. IInv => OneMatcher  BY DEF IInv
<1>2. QED  BY Invariance, <1>1, PTL

\* Unless someone rebuilds by hand, the file is never replaced by one below the floor or
\* of less than half its pairs, whatever the catalogs and whoever runs.
THEOREM PublicationNeverHalves == Spec => NeverHalves
<1>1. IInv /\ [Next]_vars => Halves  BY HalvesStep DEF IInv
<1>2. [][Halves]_vars <=> NeverHalves  BY DEF Halves, NeverHalves
<1>3. QED  BY Invariance, <1>1, <1>2, PTL DEF Spec

\* Every pair streamed has its row once a refresh has reached the database, however
\* transactions overlap, abort and wait for each other.
THEOREM PublicationTrackedHaveRows == Spec => []TrackedHaveRows
<1>1. IInv => TrackedHaveRows  BY DEF IInv
<1>2. QED  BY Invariance, <1>1, PTL

-----------------------------------------------------------------------------
(* Watchdog                                                                *)

\* Has one reading of the counters measured no more than another?  The database tells
\* where both have one.
NoMore(a, b) ==
  a.samples <= b.samples /\ (a.db # NoDb /\ b.db # NoDb => a.db <= b.db)

\* What was neither recorded since nor shown since cannot look like progress: the
\* counters against the newest line, that line against the state file.
Unshown ==
  /\ ~recorded => NoMore(count, line)
  /\ ~shown /\ state.usable => NoMore(line, state)
  /\ ~shown /\ ~recorded /\ state.usable => NoMore(count, state)

WatchdogInv == WatchdogTypeOK /\ Unshown

-----------------------------------------------------------------------------

Line == [updates : 0..MaxCount, samples : 0..MaxCount, db : {NoDb} \cup (0..MaxCount), age : 0..Window]

\* A process starts from counters, with or without a database.
LEMMA FreshType == Fresh(0) \in Counters /\ Fresh(NoDb) \in Counters
BY WatchdogAssumption DEF Fresh, Counters, NoDb

\* A line that ages stays a line.
LEMMA AgeType == ASSUME WatchdogTypeOK PROVE Age(line) \in Line
<1>1. line \in Line  BY DEF WatchdogTypeOK, Line
<1>2. line.age \in 0..Window  BY <1>1 DEF Line
<1>3. (IF line.age < Window THEN line.age + 1 ELSE line.age) \in 0..Window
  BY <1>2, WatchdogAssumption
<1>4. QED  BY <1>1, <1>3 DEF Age, Line

\* What is compared are numbers.
LEMMA NowType ==
  ASSUME WatchdogTypeOK
  PROVE  /\ line.updates \in Int /\ state.updates \in Int
         /\ Now(line) \in Int /\ Prev(line) \in Int
BY WatchdogAssumption DEF WatchdogTypeOK, Now, Prev, NoDb

\* A verdict is one of those the script has, and "ok" is that of progress.
LEMMA JudgeType ==
  ASSUME WatchdogTypeOK
  PROVE  /\ Judge(line) \in Alert \cup {"baseline", "reset", "ok"}
         /\ Judge(line) = "ok" => state.usable /\ line.updates > state.updates /\ Now(line) > Prev(line)
<1> DEFINE u == line.updates
           v == state.updates
           m == Now(line)
           n == Prev(line)
<1>1. u \in Int /\ v \in Int /\ m \in Int /\ n \in Int  BY NowType
<1> HIDE DEF u, v, m, n
<1>2. \/ ~state.usable
      \/ state.usable /\ (u < v \/ m < n)
      \/ state.usable /\ u = v /\ m >= n
      \/ state.usable /\ u > v /\ m = n
      \/ state.usable /\ u > v /\ m > n
  BY <1>1
<1>3. CASE ~state.usable
  BY <1>3 DEF Judge
<1>4. CASE state.usable /\ (u < v \/ m < n)
  <2>1. Judge(line) = "reset"  BY <1>1, <1>4 DEF Judge, u, v, m, n
  <2>2. QED  BY <2>1
<1>5. CASE state.usable /\ u = v /\ m >= n
  <2>1. Judge(line) = "wedged"  BY <1>1, <1>5 DEF Judge, u, v, m, n
  <2>2. QED  BY <2>1 DEF Alert
<1>6. CASE state.usable /\ u > v /\ m = n
  <2>1. ~(u < v \/ m < n) /\ u # v /\ ~(m > n)  BY <1>1, <1>6
  <2>2. Judge(line) = "not measuring"  BY <1>6, <2>1 DEF Judge, u, v, m, n
  <2>3. QED  BY <2>2 DEF Alert
<1>7. CASE state.usable /\ u > v /\ m > n
  <2>1. Judge(line) \in {"db gone", "ok"}  BY <1>1, <1>7 DEF Judge, u, v, m, n
  <2>2. QED  BY <1>7, <2>1 DEF Alert, u, v, m, n
<1>8. QED  BY <1>2, <1>3, <1>4, <1>5, <1>6, <1>7

LEMMA WatchdogTypeInit == WatchdogInit => WatchdogTypeOK
<1> SUFFICES ASSUME WatchdogInit PROVE WatchdogTypeOK  OBVIOUS
<1>1. count \in Counters  BY FreshType DEF WatchdogInit
<1>2. line \in Line  BY WatchdogAssumption DEF WatchdogInit, NoLine, Line
<1>3. state \in [usable : BOOLEAN, updates : 0..MaxCount, samples : 0..MaxCount, db : {NoDb} \cup (0..MaxCount)]
  BY WatchdogAssumption DEF WatchdogInit, NoState
<1>4. QED  BY <1>1, <1>2, <1>3 DEF WatchdogInit, WatchdogTypeOK, Line

LEMMA WatchdogTypeStep == WatchdogTypeOK /\ [WatchdogNext]_watchdogVars => WatchdogTypeOK'
<1> SUFFICES ASSUME WatchdogTypeOK, [WatchdogNext]_watchdogVars PROVE WatchdogTypeOK'  OBVIOUS
<1>1. ASSUME NEW sample \in BOOLEAN, NEW stored \in BOOLEAN, Book(sample, stored) PROVE WatchdogTypeOK'
  BY <1>1, WatchdogAssumption DEF Book, WatchdogTypeOK, Counters, NoDb
<1>2. CASE PrintStatus
  <2>1. count.updates \in 0..MaxCount /\ count.samples \in 0..MaxCount /\ count.db \in {NoDb} \cup (0..MaxCount)
    BY DEF WatchdogTypeOK, Counters
  <2>2. line' \in Line  BY <1>2, <2>1, WatchdogAssumption DEF PrintStatus, Line
  <2>3. QED  BY <1>2, <2>2 DEF PrintStatus, WatchdogTypeOK, Line
<1>3. CASE Started \/ GoesDeaf
  BY <1>3 DEF Started, GoesDeaf, WatchdogTypeOK
<1>4. CASE Dies
  BY <1>4, FreshType DEF Dies, WatchdogTypeOK
<1>5. CASE RestartPolicy
  BY <1>5, FreshType DEF RestartPolicy, Comes, WatchdogTypeOK
<1>6. CASE CheckDown
  BY <1>6, AgeType DEF CheckDown, WatchdogTypeOK, Alert, Line
<1>7. ASSUME NEW restarted \in BOOLEAN, CheckUp(restarted) PROVE WatchdogTypeOK'
  <2>1. line' \in Line  BY <1>7, AgeType DEF CheckUp
  <2>2. verdict' \in Alert \cup {"none", "baseline", "reset", "ok"}
    BY <1>7, JudgeType DEF CheckUp, Missing, Alert
  <2>3. /\ mode' \in {"down", "starting", "fine", "deaf", "hung"} /\ count' \in Counters
        /\ recorded' \in BOOLEAN
    BY <1>7, FreshType DEF CheckUp, Comes, WatchdogTypeOK
  <2>4. state' \in [usable : BOOLEAN, updates : 0..MaxCount, samples : 0..MaxCount, db : {NoDb} \cup (0..MaxCount)]
    <3>1. CASE state' = NoState
      BY <3>1, WatchdogAssumption DEF NoState
    <3>2. CASE state' = [usable |-> TRUE, updates |-> line.updates, samples |-> line.samples, db |-> line.db]
      BY <3>2 DEF WatchdogTypeOK
    <3>3. CASE state' = state
      BY <3>3 DEF WatchdogTypeOK
    <3>4. QED  BY <1>7, <3>1, <3>2, <3>3 DEF CheckUp
  <2>5. restart' \in BOOLEAN /\ shown' \in BOOLEAN
    BY <1>7 DEF CheckUp, WatchdogTypeOK
  <2>6. QED  BY <2>1, <2>2, <2>3, <2>4, <2>5 DEF WatchdogTypeOK, Line
<1>8. CASE UNCHANGED watchdogVars
  BY <1>8 DEF watchdogVars, WatchdogTypeOK
<1>9. QED  BY <1>1, <1>2, <1>3, <1>4, <1>5, <1>6, <1>7, <1>8 DEF WatchdogNext, Check

LEMMA UnshownStep == WatchdogTypeOK /\ Unshown /\ [WatchdogNext]_watchdogVars => Unshown'
<1> SUFFICES ASSUME WatchdogTypeOK, Unshown, [WatchdogNext]_watchdogVars PROVE Unshown'  OBVIOUS
<1> USE DEF Unshown, NoMore
<1>1. ASSUME NEW sample \in BOOLEAN, NEW stored \in BOOLEAN, Book(sample, stored) PROVE Unshown'
  BY <1>1 DEF Book, WatchdogTypeOK, Counters, NoDb
<1>2. CASE PrintStatus
  BY <1>2 DEF PrintStatus, WatchdogTypeOK, Counters, NoDb
<1>3. CASE Started \/ GoesDeaf
  BY <1>3 DEF Started, GoesDeaf
<1>4. CASE Dies
  BY <1>4 DEF Dies, WatchdogTypeOK, Fresh, NoDb
<1>5. CASE RestartPolicy
  BY <1>5 DEF RestartPolicy, Comes, WatchdogTypeOK, Fresh, NoDb
<1>6. CASE CheckDown
  BY <1>6 DEF CheckDown, Age, WatchdogTypeOK
<1>7. ASSUME NEW restarted \in BOOLEAN, CheckUp(restarted) PROVE Unshown'
  BY <1>7 DEF CheckUp, Comes, Age, NoState, Fresh, NoDb, WatchdogTypeOK
<1>8. CASE UNCHANGED watchdogVars
  BY <1>8 DEF watchdogVars
<1>9. QED  BY <1>1, <1>2, <1>3, <1>4, <1>5, <1>6, <1>7, <1>8 DEF WatchdogNext, Check

LEMMA WatchdogInvariance == WatchdogSpec => []WatchdogInv
<1>1. WatchdogInit => WatchdogInv
  <2>1. WatchdogInit => Unshown
    BY DEF WatchdogInit, Unshown, NoMore, Fresh, NoLine, NoState, NoDb
  <2>2. QED  BY <2>1, WatchdogTypeInit DEF WatchdogInv
<1>2. WatchdogInv /\ [WatchdogNext]_watchdogVars => WatchdogInv'
  BY WatchdogTypeStep, UnshownStep DEF WatchdogInv
<1>3. QED  BY <1>1, <1>2, PTL DEF WatchdogSpec

\* The counters, the newest status line and the state file keep their types.
THEOREM WatchdogTypeCorrect == WatchdogSpec => []WatchdogTypeOK
<1>1. WatchdogInv => WatchdogTypeOK  BY DEF WatchdogInv
<1>2. QED  BY WatchdogInvariance, <1>1, PTL

\* Whatever the collector does and however long its log is kept, "ok" is said only of a
\* measurement recorded after the line of the check before.
THEOREM WatchdogOkMeansMeasured == WatchdogSpec => OkMeansMeasured
<1> DEFINE Said == Check /\ verdict' = "ok" => shown
<1>1. WatchdogInv => Said
  <2> SUFFICES ASSUME WatchdogInv, Check, verdict' = "ok", ~shown PROVE FALSE  OBVIOUS
  <2>1. Seen /\ Judge(line) = "ok"
    BY DEF Check, CheckDown, CheckUp, Missing
  <2>2. state.usable /\ line.updates > state.updates /\ Now(line) > Prev(line)
    BY <2>1, JudgeType DEF WatchdogInv
  <2>3. NoMore(line, state)  BY <2>2 DEF WatchdogInv, Unshown
  <2>4. Now(line) <= Prev(line)  BY <2>3 DEF NoMore, Now, Prev, Signal
  <2>5. line.samples \in Int /\ state.samples \in Int /\ line.db \in Int /\ state.db \in Int
    BY DEF WatchdogInv, WatchdogTypeOK, NoDb
  <2>6. QED  BY <2>2, <2>4, <2>5 DEF Now, Prev
<1>2. [][Said]_watchdogVars <=> OkMeansMeasured  BY DEF OkMeansMeasured
<1>3. QED  BY WatchdogInvariance, <1>1, <1>2, PTL DEF WatchdogSpec
=============================================================================
