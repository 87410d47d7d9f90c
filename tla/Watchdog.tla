------------------------------ MODULE Watchdog ------------------------------
(***************************************************************************)
(* The watchdog cron job beside the collector it judges.                   *)
(*                                                                         *)
(* The collector counts its updates, its samples and the rows written to   *)
(* the database, and prints a status line; its process may go deaf, hang,  *)
(* stop measuring, lose the database or die.  watchdog.sh reads the newest *)
(* line of the last SINCE minutes of docker's log, which outlives the      *)
(* process that printed it, and compares it with what it read last time.   *)
(***************************************************************************)
EXTENDS Integers

CONSTANTS
  MaxCount,  \* bound: the counters of one process
  Window     \* SINCE, in intervals of the cron job

ASSUME WatchdogAssumption == MaxCount \in Nat /\ Window \in Nat \ {0}

NoDb == -1   \* the status line has no db=
NoLine == [updates |-> 0, samples |-> 0, db |-> NoDb, age |-> Window]
NoState == [usable |-> FALSE, updates |-> 0, samples |-> 0, db |-> NoDb]

VARIABLES
  restart,   \* --restart
  mode,      \* of the collector: "down", "starting", "fine", "deaf", "hung"
  count,     \* its counters: [updates, samples, db]
  line,      \* the newest status line in docker's log, and its age in checks
  state,     \* the state file
  verdict,   \* of the last check
  recorded,  \* history: has a measurement been recorded that no line shows yet?
  shown      \* history: one recorded after the last line compared, and shown since?

watchdogVars == <<restart, mode, count, line, state, verdict, recorded, shown>>

Counters == [updates : 0..MaxCount, samples : 0..MaxCount, db : {NoDb} \cup (0..MaxCount)]
Alert == {"down", "no line", "wedged", "db gone", "not measuring"}

WatchdogTypeOK ==
  /\ restart \in BOOLEAN /\ mode \in {"down", "starting", "fine", "deaf", "hung"}
  /\ count \in Counters
  /\ line \in [updates : 0..MaxCount, samples : 0..MaxCount, db : {NoDb} \cup (0..MaxCount),
               age : 0..Window]
  /\ state \in [usable : BOOLEAN, updates : 0..MaxCount, samples : 0..MaxCount,
                db : {NoDb} \cup (0..MaxCount)]
  /\ verdict \in Alert \cup {"none", "baseline", "reset", "ok"}
  /\ recorded \in BOOLEAN /\ shown \in BOOLEAN

Fresh(db) == [updates |-> 0, samples |-> 0, db |-> db]

WatchdogInit ==
  /\ restart \in BOOLEAN /\ mode = "starting"
  /\ count \in {Fresh(0), Fresh(NoDb)}
  /\ line = NoLine /\ state = NoState /\ verdict = "none"
  /\ recorded = FALSE /\ shown = FALSE

-----------------------------------------------------------------------------
(* The collector                                                           *)

Up == mode # "down"

\* One book: it may yield a sample and the writer may have stored a row meanwhile, or
\* neither, as when its pair has settled or is not tracked.
Book(sample, stored) ==
  /\ mode = "fine" /\ count.updates < MaxCount
  /\ sample => count.samples < MaxCount
  /\ stored => count.db \in 0..(MaxCount - 1)
  /\ count' = [updates |-> count.updates + 1,
               samples |-> count.samples + (IF sample THEN 1 ELSE 0),
               db      |-> count.db + (IF stored THEN 1 ELSE 0)]
  /\ recorded' = (recorded \/ sample \/ stored)
  /\ UNCHANGED <<restart, mode, line, state, verdict, shown>>

\* The report task prints every ten seconds, sockets or no sockets.
PrintStatus ==
  /\ mode \in {"fine", "deaf"}
  /\ line' = [updates |-> count.updates, samples |-> count.samples, db |-> count.db, age |-> 0]
  /\ shown' = (shown \/ recorded) /\ recorded' = FALSE
  /\ UNCHANGED <<restart, mode, count, state, verdict>>

\* The catalogs are fetched and the tasks started.
Started ==
  /\ mode = "starting" /\ mode' = "fine"
  /\ UNCHANGED <<restart, count, line, state, verdict, recorded, shown>>

\* The sockets go silent, or the event loop blocks.
GoesDeaf ==
  /\ mode = "fine" /\ mode' \in {"deaf", "hung"}
  /\ UNCHANGED <<restart, count, line, state, verdict, recorded, shown>>

\* The counters die with the process.
Dies ==
  /\ Up /\ mode' = "down" /\ count' = Fresh(NoDb) /\ recorded' = FALSE
  /\ UNCHANGED <<restart, line, state, verdict, shown>>

\* A new process, with a writer or without one.
Comes ==
  mode' = "starting" /\ count' \in {Fresh(0), Fresh(NoDb)} /\ recorded' = FALSE

RestartPolicy ==
  /\ ~Up /\ Comes
  /\ UNCHANGED <<restart, line, state, verdict, shown>>

-----------------------------------------------------------------------------
(* watchdog.sh                                                             *)

Seen == line.age < Window

\* db= when this line and the last one compared both have it.
Signal(l) == IF l.db # NoDb /\ state.db # NoDb THEN "db" ELSE "samples"
Now(l)  == IF Signal(l) = "db" THEN l.db ELSE l.samples
Prev(l) == IF Signal(l) = "db" THEN state.db ELSE state.samples

\* Mutant of Judge: version 1, which watched updates= alone.
JudgeUpdates(l) ==
  CASE ~state.usable -> "baseline"
    [] state.usable /\ l.updates < state.updates -> "reset"
    [] state.usable /\ l.updates = state.updates -> "wedged"
    [] OTHER -> "ok"

\* Mutant of Judge: the measurement is looked at before the ingestion.
JudgeSymptomFirst(l) ==
  CASE ~state.usable -> "baseline"
    [] state.usable /\ (l.updates < state.updates \/ Now(l) < Prev(l)) -> "reset"
    [] state.usable /\ Now(l) = Prev(l) /\ l.updates >= state.updates -> "not measuring"
    [] state.usable /\ l.updates = state.updates /\ Now(l) > Prev(l) -> "wedged"
    [] OTHER -> "ok"

\* What a status line shows against the one of the last check.
Judge(l) ==
  CASE ~state.usable -> "baseline"
    [] state.usable /\ (l.updates < state.updates \/ Now(l) < Prev(l)) -> "reset"
    [] state.usable /\ l.updates = state.updates /\ Now(l) >= Prev(l) -> "wedged"
    [] state.usable /\ l.updates > state.updates /\ Now(l) = Prev(l) -> "not measuring"
    [] state.usable /\ l.updates > state.updates /\ Now(l) > Prev(l) ->
         IF l.db = NoDb /\ state.db # NoDb THEN "db gone" ELSE "ok"

\* Mutant of Missing: no news is good news.
MissingIsFine == "ok"

\* No status line at all.
Missing == "no line"

\* Only a wedge and a missing line call docker restart.
Restarts(v) == restart /\ v \in {"wedged", "no line"}

\* A line as the next check finds it.
Age(l) == [l EXCEPT !.age = IF @ < Window THEN @ + 1 ELSE @]

CheckDown ==
  /\ ~Up /\ verdict' = "down" /\ line' = Age(line)
  /\ UNCHANGED <<restart, mode, count, state, recorded, shown>>

\* `restarted`: docker restart was called and did not fail.  When it fails there is one
\* more alert; the state file and the collector stay as they are.
CheckUp(restarted) ==
  /\ Up /\ line' = Age(line)
  /\ verdict' = IF Seen THEN Judge(line) ELSE Missing
  /\ restarted => Restarts(verdict')
  /\ IF restarted
       THEN state' = NoState /\ Comes
       ELSE /\ state' = IF Seen THEN [usable |-> TRUE, updates |-> line.updates,
                                      samples |-> line.samples, db |-> line.db]
                                ELSE state
            /\ UNCHANGED <<mode, count, recorded>>
  /\ shown' = IF Seen THEN FALSE ELSE shown
  /\ UNCHANGED restart

Check == CheckDown \/ \E restarted \in BOOLEAN : CheckUp(restarted)

WatchdogNext ==
  \/ \E sample, stored \in BOOLEAN : Book(sample, stored)
  \/ PrintStatus \/ Started \/ GoesDeaf \/ Dies \/ RestartPolicy
  \/ Check

\* Cron comes round.  The collector may do as it likes, or nothing.
WatchdogSpec == WatchdogInit /\ [][WatchdogNext]_watchdogVars /\ WF_watchdogVars(Check)

-----------------------------------------------------------------------------
(* Properties                                                              *)

\* "ok" is said only when a measurement was recorded after the line of the check
\* before: neither a restart in between nor a line printed by a dead process nor a
\* change of the signal compared can pass for progress.
OkMeansMeasured ==
  [][Check /\ verdict' = "ok" => shown]_watchdogVars

\* Once nothing is recorded any more the watchdog never falls silent, whether the
\* collector is down, hung, deaf, without pairs, without database or restarting
\* over and over.
AlarmRaised ==
  <>[]~recorded => []<>(verdict \in Alert)

\* A docker restart that is called again and again does not fail every time.
DockerRestarts == SF_watchdogVars(CheckUp(TRUE))

\* With --restart a collector that went deaf or hung is not left so, also when docker
\* fails to restart it a number of times: every check after it calls again.
WedgeEnds ==
  DockerRestarts => (restart => (mode \in {"deaf", "hung"} ~> mode \notin {"deaf", "hung"}))
=============================================================================
