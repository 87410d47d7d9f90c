---------------------------- MODULE Publication ----------------------------
(***************************************************************************)
(* How a match set gets from the matchers into the collector and into the  *)
(* match_pair table.                                                       *)
(*                                                                         *)
(* refresh.sh runs from cron or by hand: a lock directory, an export in a  *)
(* staging directory, gates on its size, a rename over matches.json, then  *)
(* seed_db.py.  Beside it the collector's refresh reads the same file and  *)
(* writes the same table, an operator may rebuild the file in place, human *)
(* verdicts are recorded in reviews.json.  Each transaction is the upsert, *)
(* the retraction and the commit of upsert_match_pairs under READ          *)
(* COMMITTED: it sees what is committed at each statement and waits for    *)
(* the rows another one has written.                                       *)
(***************************************************************************)
EXTENDS Integers, FiniteSets

CONSTANTS
  Pair,        \* candidate pairs
  Trusted,     \* those of a method the collector streams
  Installed,   \* the pairs of the file at the start
  Run,         \* processes that may run refresh.sh
  Deployment,  \* {TRUE}: the compose service; {FALSE}: run from the checkout
  MinPairs,    \* MIN_PAIRS, the absolute floor
  MaxStarts,   \* bound: runs of refresh.sh
  MaxFault     \* bound: kills, failures, restarts, verdicts and manual rebuilds

Collector == "collector"

ASSUME PublicationAssumption ==
  /\ Deployment \subseteq BOOLEAN /\ Trusted \subseteq Pair /\ Installed \subseteq Pair /\ MinPairs \in Nat
  /\ MaxStarts \in Nat /\ MaxFault \in Nat /\ {"none", Collector} \cap Run = {}

Writer == Run \cup {Collector}
Verdict == {"none", "diverged"}

VARIABLES
  container, \* is the collector the compose service (or run from the checkout)?
  file,      \* matches.json: [whole, set]
  view,      \* what the collector's mount shows: <<>> is the path, or an old inode
  manual,    \* export_candidates.py by hand: "no", "writing", "detached"
  lock,      \* LOCK_DIR: the run that made it, or "none"
  pc,        \* writer -> where it is
  plan,      \* writer -> the match set it works from
  counted,   \* run -> the current set it counted: [whole, set]
  verdicts,  \* writer -> the reviews it read
  markets,   \* writer -> the pairs whose markets its transaction upserts
  known,     \* table market: pairs both of whose markets it has
  row,       \* table match_pair: pair -> [there, live, label], committed
  locked,    \* writer -> pairs whose row its transaction has written
  gone,      \* writer -> pairs it is about to retract
  reviews,   \* reviews.json
  tracked,   \* pairs the collector streams
  stale,     \* history: no synced refresh since the collector started
  byHand,    \* history: was the file ever rebuilt by hand?
  starts, faults

fileVars == <<file, view, manual>>
dbVars   == <<known, row, locked, gone>>
vars == <<container, fileVars, lock, pc, plan, counted, verdicts, markets, dbVars, reviews,
          tracked, stale, byHand, starts, faults>>

Content == [whole : BOOLEAN, set : SUBSET Pair]
Torn == [whole |-> FALSE, set |-> {}]
Whole(s) == [whole |-> TRUE, set |-> s]
NoReviews == [p \in Pair |-> "none"]

RunPhase == {"idle", "locked", "exporting", "seeding", "read", "upserted",
             "selected", "retracted", "exiting"}
CollectorPhase == {"down", "idle", "read", "upserted", "selected", "retracted", "synced", "unsynced"}

TypeOK ==
  /\ container \in Deployment /\ file \in Content
  /\ view = <<>> \/ view \in {<<c>> : c \in Content}
  /\ view # <<>> => container
  /\ manual \in {"no", "writing", "detached"} /\ lock \in Run \cup {"none"}
  /\ pc \in [Writer -> RunPhase \cup CollectorPhase] /\ plan \in [Writer -> SUBSET Pair]
  /\ counted \in [Run -> Content] /\ verdicts \in [Writer -> [Pair -> Verdict]]
  /\ known \subseteq Pair /\ tracked \subseteq Trusted
  /\ row \in [Pair -> [there : BOOLEAN, live : BOOLEAN, label : Verdict]]
  /\ locked \in [Writer -> SUBSET Pair] /\ gone \in [Writer -> SUBSET Pair]
  /\ \A w \in Writer : \A v \in Writer \ {w} : locked[w] \cap locked[v] = {}
  /\ markets \in [Writer -> SUBSET Pair] /\ markets[Collector] \subseteq Trusted
  /\ reviews \in [Pair -> Verdict] /\ stale \in BOOLEAN /\ byHand \in BOOLEAN
  /\ starts \in 0..MaxStarts /\ faults \in 0..MaxFault

\* The installed file, its pairs in the database, a collector streaming them.
Init ==
  /\ container \in Deployment
  /\ file = Whole(Installed)
  /\ view = <<>> /\ manual = "no" /\ lock = "none"
  /\ pc = [w \in Writer |-> "idle"] /\ plan = [w \in Writer |-> {}]
  /\ counted = [r \in Run |-> Torn] /\ verdicts = [w \in Writer |-> NoReviews]
  /\ known = Installed /\ reviews = NoReviews
  /\ row = [p \in Pair |-> [there |-> p \in known, live |-> p \in known, label |-> "none"]]
  /\ locked = [w \in Writer |-> {}] /\ gone = [w \in Writer |-> {}]
  /\ markets = [w \in Writer |-> {}] /\ byHand = FALSE
  /\ tracked = file.set \cap Trusted /\ stale = FALSE
  /\ starts = 0 /\ faults = 0

Goes(w, phase) == pc' = [pc EXCEPT ![w] = phase]
Fault == faults < MaxFault /\ faults' = faults + 1

\* The transaction of w is over: its rows are free.
RollBack(w) == locked' = [locked EXCEPT ![w] = {}] /\ gone' = [gone EXCEPT ![w] = {}]
CollectorVars == <<tracked, stale, byHand>>

\* What a finished run or refresh worked with is gone.
Forgets(w) ==
  /\ plan' = [plan EXCEPT ![w] = {}] /\ markets' = [markets EXCEPT ![w] = {}]
  /\ verdicts' = [verdicts EXCEPT ![w] = NoReviews]
  /\ counted' = [r \in Run |-> IF r = w THEN Torn ELSE counted[r]]

-----------------------------------------------------------------------------
(* refresh.sh                                                              *)

\* Mutant of Refused: the trap is set before the lock is taken.
RefusedByTrap == "exiting"

\* A run that finds the lock leaves before its trap is set.
Refused == "idle"

\* mkdir is the lock.
MakeLock(r) ==
  /\ pc[r] = "idle" /\ starts < MaxStarts /\ starts' = starts + 1
  /\ IF lock = "none" THEN lock' = r /\ Goes(r, "locked")
                      ELSE UNCHANGED lock /\ Goes(r, Refused)
  /\ UNCHANGED <<container, fileVars, plan, counted, verdicts, markets, dbVars, reviews, CollectorVars, faults>>

\* mktemp runs before the trap is set: when it fails, set -e ends the run and
\* nothing takes the lock down.  Otherwise the set to be replaced is counted.
Stage(r) ==
  /\ pc[r] = "locked"
  /\ \/ Goes(r, "exporting") /\ counted' = [counted EXCEPT ![r] = file] /\ UNCHANGED faults
     \/ Goes(r, "idle") /\ Fault /\ UNCHANGED counted
  /\ UNCHANGED <<container, fileVars, lock, plan, verdicts, markets, dbVars, reviews,
                 CollectorVars, starts>>

\* Is `new` at least MIN_FRACTION of `old`, rounded down?
HalfOf(old, new) == 2 * Cardinality(new) + 1 >= Cardinality(old)

\* Mutant of PassesGate: the absolute floor alone decides.
PassesFloor(current, new) == Cardinality(new) >= MinPairs

PassesGate(current, new) ==
  /\ Cardinality(new) >= MinPairs
  /\ current.whole => /\ HalfOf(current.set, new)
                      /\ HalfOf(current.set \cap Trusted, new \cap Trusted)

\* A new inode takes the name: the compose service keeps the one it has mounted,
\* and a rebuild by hand goes on writing to the old one.
Install(r, new) ==
  /\ Goes(r, "seeding") /\ file' = Whole(new)
  /\ view' = IF container /\ view = <<>> THEN <<file>> ELSE view
  /\ manual' = IF manual = "writing" THEN "detached" ELSE manual

\* The matchers run over catalogs that may have come back short; what they export
\* into the staging directory, if they do not fail, is installed if it passes the gate.
Export(r) ==
  /\ pc[r] = "exporting"
  /\ \/ \E new \in SUBSET Pair : PassesGate(counted[r], new) /\ Install(r, new)
     \/ Goes(r, "exiting") /\ UNCHANGED fileVars
  /\ UNCHANGED <<container, lock, plan, counted, verdicts, markets, dbVars, reviews,
                 CollectorVars, starts, faults>>

\* seed_db.py reads the file and the reviews, or dies of a torn file.
SeedReads(r) ==
  /\ pc[r] = "seeding"
  /\ IF file.whole
       THEN /\ Goes(r, "read") /\ plan' = [plan EXCEPT ![r] = file.set]
            /\ verdicts' = [verdicts EXCEPT ![r] = reviews]
       ELSE Goes(r, "exiting") /\ UNCHANGED <<plan, verdicts>>
  /\ UNCHANGED <<container, fileVars, lock, counted, markets, dbVars, reviews, CollectorVars, starts, faults>>

\* The trap: staging directory and lock come down.
Exit(r) ==
  /\ pc[r] = "exiting" /\ Goes(r, "idle") /\ lock' = "none" /\ Forgets(r)
  /\ UNCHANGED <<container, fileVars, dbVars, reviews, CollectorVars, starts, faults>>

\* A kill or a reboot: the transaction is rolled back, the lock stays.
KillRun(r) ==
  /\ Fault /\ pc[r] # "idle" /\ Goes(r, "idle") /\ RollBack(r) /\ Forgets(r)
  /\ UNCHANGED <<container, fileVars, lock, known, row, reviews, CollectorVars, starts>>

\* The operator removes the lock a dead run has left.
ClearLock ==
  /\ lock # "none" /\ pc[lock] = "idle" /\ lock' = "none"
  /\ UNCHANGED <<container, fileVars, pc, plan, counted, verdicts, markets, dbVars, reviews,
                 CollectorVars, starts, faults>>

-----------------------------------------------------------------------------
(* export_candidates.py by hand, in the checkout; the review loop          *)

\* write_matches opens the file for writing and streams into it.
ManualStarts ==
  /\ Fault /\ manual = "no" /\ manual' = "writing" /\ file' = Torn /\ byHand' = TRUE
  /\ UNCHANGED <<container, view, lock, pc, plan, counted, verdicts, markets, dbVars, reviews,
                 tracked, stale, starts>>

\* It goes on with the inode it has open, which may have lost the name.
ManualEnds ==
  /\ manual # "no" /\ manual' = "no"
  /\ \E s \in SUBSET Pair :
       /\ file' = IF manual = "writing" THEN Whole(s) ELSE file
       /\ view' = IF manual = "detached" /\ view = <<Torn>> THEN <<Whole(s)>> ELSE view
  /\ UNCHANGED <<container, lock, pc, plan, counted, verdicts, markets, dbVars, reviews,
                 CollectorVars, starts, faults>>

\* Or is killed, and the file stays torn.
ManualDies ==
  /\ manual # "no" /\ manual' = "no"
  /\ UNCHANGED <<container, file, view, lock, pc, plan, counted, verdicts, markets, dbVars, reviews,
                 CollectorVars, starts, faults>>

\* A verdict is given or withdrawn.
Review(p, v) ==
  /\ Fault /\ reviews[p] # v /\ reviews' = [reviews EXCEPT ![p] = v]
  /\ UNCHANGED <<container, fileVars, lock, pc, plan, counted, verdicts, markets, dbVars,
                 CollectorVars, starts>>

-----------------------------------------------------------------------------
(* One transaction: upsert_markets, upsert_match_pairs, commit             *)

\* Rows that other transactions have written.
Others(w) == UNION {locked[v] : v \in Writer \ {w}}

\* Mutant of Usable: the known markets are read before those of the catalog go in.
UsableOfKnown(w, listed) == plan[w] \cap known

\* Pairs both of whose markets are in the table, the transaction's own included.
Usable(w, listed) == plan[w] \cap (known \cup listed)

\* Markets upserted: all that the file names for seed_db.py, those of the pairs it
\* will track for the collector.
Needed(w) == IF w = Collector THEN plan[w] \cap Trusted ELSE plan[w]

LabelsOf(w) == IF w = Collector THEN IF container THEN NoReviews ELSE reviews ELSE verdicts[w]

\* The catalogs are fetched and the pairs upserted, after any transaction that has
\* written one of them; the collector reads the reviews now, and the image has none.
Upsert(w, listed) ==
  /\ pc[w] = "read" /\ Usable(w, listed) \cap Others(w) = {}
  /\ Goes(w, "upserted")
  /\ markets' = [markets EXCEPT ![w] = listed]
  /\ verdicts' = [verdicts EXCEPT ![w] = LabelsOf(w)]
  /\ locked' = [locked EXCEPT ![w] = Usable(w, listed)]
  /\ UNCHANGED <<container, fileVars, lock, plan, counted, known, row, gone, reviews,
                 CollectorVars, starts, faults>>

\* The rows that are live and not among those just written.
Select(w) ==
  /\ pc[w] = "upserted" /\ Goes(w, "selected")
  /\ gone' = [gone EXCEPT ![w] = {p \in Pair : row[p].live} \ locked[w]]
  /\ UNCHANGED <<container, fileVars, lock, plan, counted, verdicts, markets, known, row, locked,
                 reviews, CollectorVars, starts, faults>>

\* They are retracted by id, when no other transaction holds one.
Retract(w) ==
  /\ pc[w] = "selected" /\ gone[w] \cap Others(w) = {} /\ Goes(w, "retracted")
  /\ locked' = [locked EXCEPT ![w] = @ \cup gone[w]]
  /\ UNCHANGED <<container, fileVars, lock, plan, counted, verdicts, markets, known, row, gone,
                 reviews, CollectorVars, starts, faults>>

AfterCommit(w) == IF w = Collector THEN "synced" ELSE "exiting"
AfterAbort(w)  == IF w = Collector THEN "unsynced" ELSE "exiting"

\* Mutant of Upserted: a pair produced again stays retracted.
UpsertedAsItWas(p, label) ==
  [there |-> TRUE, live |-> row[p].there => row[p].live, label |-> label]

\* ON CONFLICT DO UPDATE: the verdict verbatim, and no longer retracted.
Upserted(p, label) == [there |-> TRUE, live |-> TRUE, label |-> label]

Commit(w) ==
  /\ pc[w] = "retracted" /\ Goes(w, AfterCommit(w)) /\ RollBack(w)
  /\ known' = known \cup markets[w]
  /\ row' = [p \in Pair |->
               CASE p \in gone[w] -> [row[p] EXCEPT !.live = FALSE]
                 [] p \in locked[w] \ gone[w] -> Upserted(p, verdicts[w][p])
                 [] OTHER -> row[p]]
  /\ UNCHANGED <<container, fileVars, lock, plan, counted, verdicts, markets, reviews,
                 CollectorVars, starts, faults>>

Waits(w) == pc[w] = "selected" /\ gone[w] \cap Others(w) # {}

\* The database fails, or breaks a deadlock.  The collector has the catalogs by then and
\* goes on with the pairs they list; seed_db.py ends.
Abort(w) ==
  /\ pc[w] \in {"read", "upserted", "selected", "retracted"}
  /\ \/ Fault
     \/ /\ UNCHANGED faults /\ Waits(w)
        /\ \E v \in Writer \ {w} : /\ Waits(v) /\ gone[w] \cap locked[v] # {}
                                   /\ gone[v] \cap locked[w] # {}
  /\ Goes(w, AfterAbort(w)) /\ RollBack(w)
  /\ \/ w = Collector /\ pc[w] = "read"
        /\ \E listed \in SUBSET Needed(w) : markets' = [markets EXCEPT ![w] = listed]
     \/ ~(w = Collector /\ pc[w] = "read") /\ UNCHANGED markets
  /\ UNCHANGED <<container, fileVars, lock, plan, counted, verdicts, known, row, reviews,
                 CollectorVars, starts>>

-----------------------------------------------------------------------------
(* The collector                                                           *)

Shown == IF view = <<>> THEN file ELSE view[1]

\* A cycle that finds no whole file fails, and the next one retries.
RefreshReads ==
  /\ pc[Collector] = "idle" /\ Shown.whole /\ Goes(Collector, "read")
  /\ plan' = [plan EXCEPT ![Collector] = Shown.set]
  /\ UNCHANGED <<container, fileVars, lock, counted, verdicts, markets, dbVars, reviews,
                 CollectorVars, starts, faults>>

\* The pairs of the plan that are listed are tracked, synced or not.
Apply ==
  /\ pc[Collector] \in {"synced", "unsynced"} /\ Goes(Collector, "idle")
  /\ tracked' = markets[Collector]
  /\ stale' = (pc[Collector] = "unsynced") /\ Forgets(Collector)
  /\ UNCHANGED <<container, fileVars, lock, dbVars, reviews, byHand, starts, faults>>

CollectorDies ==
  /\ Fault /\ pc[Collector] # "down" /\ Goes(Collector, "down")
  /\ RollBack(Collector) /\ Forgets(Collector)
  /\ UNCHANGED <<container, fileVars, lock, known, row, reviews, CollectorVars, starts>>

\* A start needs a whole file and mounts the path anew; markets go to the database,
\* pairs do not.
CollectorStarts ==
  /\ pc[Collector] = "down" /\ file.whole /\ Goes(Collector, "idle") /\ view' = <<>>
  /\ tracked' = file.set \cap Trusted /\ stale' = TRUE
  /\ \E listed \in SUBSET (file.set \cap Trusted) : known' = known \cup listed
  /\ UNCHANGED <<container, file, manual, lock, plan, counted, verdicts, markets, row, locked, gone,
                 reviews, byHand, starts, faults>>

-----------------------------------------------------------------------------
Transaction(w) ==
  \/ \E listed \in SUBSET Needed(w) : Upsert(w, listed)
  \/ Select(w) \/ Retract(w) \/ Commit(w)

Matcher(r) ==
  Stage(r) \/ Export(r) \/ SeedReads(r) \/ Exit(r)

Next ==
  \/ \E r \in Run : MakeLock(r) \/ Matcher(r) \/ KillRun(r)
  \/ \E w \in Writer : Transaction(w) \/ Abort(w)
  \/ RefreshReads \/ Apply \/ CollectorDies \/ CollectorStarts
  \/ ClearLock \/ ManualStarts \/ ManualEnds \/ ManualDies
  \/ \E p \in Pair, v \in Verdict : Review(p, v)

\* Started runs go on, Postgres answers and hands a freed row to who waits for it, the
\* refresh is daily, and the restart policy of the compose service brings its collector
\* back.  Nobody has to start the one of the checkout again, to remove a lock or to
\* rebuild by hand.
Fairness ==
  /\ \A r \in Run : WF_vars(Matcher(r))
  /\ \A w \in Writer : SF_vars(Transaction(w)) /\ WF_vars(Waits(w) /\ Abort(w))
  /\ WF_vars(RefreshReads) /\ WF_vars(Apply) /\ WF_vars(container /\ CollectorStarts)

Spec == Init /\ [][Next]_vars /\ Fairness

-----------------------------------------------------------------------------
(* Properties                                                              *)

\* Whoever is past the lock holds it, so no two runs match, install or seed at
\* once -- also after a run was refused, killed, or lost its staging directory.
OneMatcher ==
  \A r \in Run : pc[r] # "idle" => lock = r

\* Unless someone rebuilt the file by hand, no step ever replaces it by one that
\* streams less than half of it: what a run counted is what it replaces.
NeverHalves ==
  [][file' # file /\ ~byHand' =>
       /\ file'.whole /\ Cardinality(file'.set) >= MinPairs
       /\ HalfOf(file.set, file'.set)
       /\ HalfOf(file.set \cap Trusted, file'.set \cap Trusted)]_vars

\* After a refresh that reached the database, every pair streamed has a match_pair
\* row, so none of its observations is dropped for want of one.
TrackedHaveRows ==
  ~stale => \A p \in tracked : row[p].there

DbMatches ==
  \A p \in Pair : /\ row[p].live <=> p \in file.set \cap known
                  /\ row[p].live => row[p].label = reviews[p]

\* However seeds and refreshes from different files overlapped, the table ends up
\* holding the published set with the verdicts of reviews.json, for a collector run
\* from the checkout that is not left down and a file that is not left torn.
Settles ==
  <>[](container \/ ~file.whole \/ pc[Collector] = "down" \/ DbMatches)

\* refresh.sh: "MatchSetRefresher picks the new file up on its next cycle".
PicksUpNewFile ==
  [][RefreshReads => plan'[Collector] = file.set]_vars
=============================================================================
