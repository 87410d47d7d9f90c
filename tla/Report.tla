------------------------------- MODULE Report -------------------------------
(***************************************************************************)
(* What the backtest reads out of the observation table.                   *)
(*                                                                         *)
(* The collector evaluates pairs, remembers whether their window is open   *)
(* and writes rows; the daily refresh drops and adds pairs and marks the   *)
(* windows it cuts off; rows get lost, the process restarts.  At any       *)
(* moment a report is drawn of what was stored: _windows and               *)
(* survival_curve over any period.  Every event has an instant of its own, *)
(* as timestamps of a microsecond have.                                    *)
(***************************************************************************)
EXTENDS Integers, FiniteSets, Sequences, SequencesExt

CONSTANTS
  Pair,      \* pairs of the match set
  Gap,       \* WINDOW_GAP_SECONDS, in instants
  Tenth,     \* a tenth of a second, in instants
  MaxTime,   \* bound: events of a behaviour
  MaxFault   \* bound: lost rows and restarts

ASSUME ReportAssumption ==
  Gap \in Nat /\ Tenth \in Nat \ {0} /\ MaxTime \in Nat /\ MaxFault \in Nat

VARIABLES
  now,       \* events so far
  index,     \* pairs the collector tracks
  memory,    \* last_append: pair -> its window is open, for pairs evaluated since
  rows,      \* observation: pair -> its rows [at, viable, reason] in order of time
  young,     \* did the process start on a host that was up for less than the heartbeat?
  seen,      \* history: pair -> its evaluations [at, viable], written or not
  coldStarts,  \* history: the restarts on such a host
  faults, lost  \* lost rows and restarts; was a row lost

vars == <<now, index, memory, rows, young, seen, coldStarts, faults, lost>>

Init ==
  /\ now = 0 /\ faults = 0 /\ lost = FALSE /\ young \in BOOLEAN /\ coldStarts = {}
  /\ index \in SUBSET Pair \ {{}}
  /\ memory = <<>> /\ rows = [p \in Pair |-> <<>>] /\ seen = rows

Instant == now < MaxTime /\ now' = now + 1

-----------------------------------------------------------------------------
(* The collector and the refresh                                           *)

Was(p) == p \in DOMAIN memory /\ memory[p]

\* Mutant of Due: one throttle for every row, closing rows included.
UniformThrottle(p, viable, since) == since

\* Is an evaluation written?  `since`: the throttle or the heartbeat has run out.
Due(p, viable, since) == viable \/ Was(p) \/ since

ReasonOf(p, viable) ==
  IF viable THEN "VIABLE" ELSE IF Was(p) THEN "WINDOW_CLOSE" ELSE "HEARTBEAT"

\* One evaluation of a tracked pair.  One not evaluated before counts as last written at 0
\* of a clock that starts when the host boots, so it is due unless the host is young.  The
\* row may be lost on the way to the database, as all are of a pair without a pair_id.
Evaluate(p, viable, since) ==
  /\ Instant /\ p \in index /\ (p \in DOMAIN memory \/ since \/ young)
  /\ memory' = [q \in DOMAIN memory \cup {p} |-> IF q = p THEN viable ELSE memory[q]]
  /\ seen' = [seen EXCEPT ![p] = Append(@, [at |-> now', viable |-> viable])]
  /\ \/ rows' = [rows EXCEPT ![p] =
                   IF Due(p, viable, since)
                     THEN Append(@, [at |-> now', viable |-> viable, reason |-> ReasonOf(p, viable)])
                     ELSE @]
        /\ UNCHANGED <<faults, lost>>
     \/ Due(p, viable, since) /\ faults < MaxFault
        /\ faults' = faults + 1 /\ lost' = TRUE /\ UNCHANGED rows
  /\ UNCHANGED <<index, young, coldStarts>>

\* Mutant of CloseReason: the marker of a dropped pair reads as an observed close.
ObservedClose == "WINDOW_CLOSE"

CloseReason == "UNSUBSCRIBED"

\* What _apply leaves of last_append.
KeptMemory(new) == DOMAIN memory \cap new

\* The refresh goes over to `new`, the trusted pairs of the file whose markets the venues
\* list: close markers for the dropped pairs whose window is open, nothing else
\* forgotten.
Refresh(new) ==
  /\ Instant /\ new # index
  /\ LET cut == {p \in index \ new : Was(p)} IN
       rows' = [p \in Pair |-> IF p \in cut
                  THEN Append(rows[p], [at |-> now', viable |-> FALSE, reason |-> CloseReason])
                  ELSE rows[p]]
  /\ index' = new
  /\ memory' = [p \in KeptMemory(new) |-> memory[p]]
  /\ UNCHANGED <<young, seen, coldStarts, faults, lost>>

\* The collector restarts: what it remembers of the windows is gone.
Restart(onYoungHost) ==
  /\ Instant /\ faults < MaxFault /\ faults' = faults + 1 /\ memory' = <<>>
  /\ young' = onYoungHost
  /\ coldStarts' = IF onYoungHost THEN coldStarts \cup {now'} ELSE coldStarts
  /\ UNCHANGED <<index, rows, seen, lost>>

-----------------------------------------------------------------------------
(* Windows by gap: the funnel                                              *)

\* Mutant of Extends: the gap is measured from the start of the window.
ExtendsFromStart(w, r) == r.at - w[1].at <= Gap

Extends(w, r) == r.at - w[Len(w)].at <= Gap

JoinWindow(ws, r) ==
  IF ws # <<>> /\ Extends(Last(ws), r)
    THEN [ws EXCEPT ![Len(ws)] = Append(@, r)]
    ELSE Append(ws, <<r>>)

\* The windows of a pair's rows, one row after another; only viable rows make one.
Windows(s) ==
  LET upTo[n \in 0..Len(s)] ==
        IF n = 0 THEN <<>>
        ELSE IF s[n].viable THEN JoinWindow(upTo[n - 1], s[n])
        ELSE upTo[n - 1]
  IN upTo[Len(s)]

Tenths == {Tenth * q : q \in 0..MaxTime}

Span(w) == Last(w).at - w[1].at

\* duration_seconds is rounded to a tenth; half of one goes either way, as its nearest
\* binary fraction lies.
Durations(w) == {t \in Tenths : 2 * (t - Span(w)) \in -Tenth..Tenth}

\* Windows that lasted at least `cutoff`.
Persistence(s, cutoff) ==
  {w \in Range(Windows(s)) : \E t \in Durations(w) : t >= cutoff}

-----------------------------------------------------------------------------
(* Windows by state: the survival curve                                    *)

Opens(s) == {i \in 1..Len(s) : s[i].viable /\ (i = 1 \/ ~s[i - 1].viable)}

\* The last row at or before the target.
StateAt(s, i, target) ==
  CHOOSE j \in i..Len(s) : s[j].at <= target /\ (j = Len(s) \/ s[j + 1].at > target)

\* The fate, delta later, of the window that opened with row i.
Fate(s, i, delta) ==
  LET target == s[i].at + delta
      state  == s[StateAt(s, i, target)]
  IN CASE state.reason = "UNSUBSCRIBED" -> "censored"
       [] state.viable /\ Last(s).at < target -> "censored"
       [] state.viable /\ Last(s).at >= target -> "survived"
       [] OTHER -> "shut"

\* Rows of the period of a report: from some row on (--since), up to the present.
From(s, k) == SubSeq(s, k, Len(s))

Next ==
  \/ \E p \in Pair, viable, since \in BOOLEAN : Evaluate(p, viable, since)
  \/ \E new \in SUBSET Pair : Refresh(new)
  \/ \E onYoungHost \in BOOLEAN : Restart(onYoungHost)

Spec == Init /\ [][Next]_vars

-----------------------------------------------------------------------------
(* Properties                                                              *)

\* A window the curve calls shut was seen shut: an evaluation found the edge gone
\* after it opened and no later than the target, whatever rows were lost, whatever
\* the period, and however often the pair was dropped and added.
NoManufacturedDecay ==
  \A p \in Pair, d \in 0..now : \A k \in DOMAIN rows[p] :
    LET s == From(rows[p], k) IN
    \A i \in Opens(s) : Fate(s, i, d) = "shut" =>
      \E e \in Range(seen[p]) : ~e.viable /\ s[i].at < e.at /\ e.at <= s[i].at + d

\* The last evaluation of p up to the target found its edge open.
OpenAt(p, target) ==
  \E e \in Range(seen[p]) : /\ e.viable /\ e.at <= target
                            /\ \A f \in Range(seen[p]) : f.at <= e.at \/ f.at > target

\* Unless a row was lost, a window the curve calls open delta later was, also across
\* restarts of the collector, but for one on a young host between the row that the curve
\* reads and the target: the closing evaluation after it need not leave a row.
SurvivalFaithful ==
  ~lost => \A p \in Pair, d \in 0..now : \A k \in DOMAIN rows[p] :
    LET s == From(rows[p], k) IN
    \A i \in Opens(s) : Fate(s, i, d) = "survived" =>
      \/ OpenAt(p, s[i].at + d)
      \/ \E c \in coldStarts : /\ s[StateAt(s, i, s[i].at + d)].at < c
                               /\ c <= s[i].at + d

\* The funnel and the curve count different windows for two reasons only: a window
\* of the funnel that is no opening follows a silence longer than the gap with no
\* other row in it, and an opening that is no window of the funnel follows a window
\* that was closed and reopened within the gap.  And a window the funnel says persisted,
\* with no other row in it, survived on the curve, or its rows end within half a tenth
\* of a second of the cutoff and the curve does not count it: never is it shut.
WindowsExplainOpens ==
  \A p \in Pair :
    LET s      == rows[p]
        opens  == {s[i].at : i \in Opens(s)}
        starts == {w[1].at : w \in Range(Windows(s))}
        before(t) == {r \in Range(s) : r.at < t}
        after(t, r) == {q \in before(t) : q.at > r.at}
    IN /\ \A t \in starts \ opens : \E r \in before(t) :
            r.viable /\ after(t, r) = {} /\ t - r.at > Gap
       /\ \A t \in opens \ starts : \E r \in before(t) :
            /\ r.viable /\ t - r.at <= Gap
            /\ after(t, r) # {} /\ \A q \in after(t, r) : ~q.viable
       /\ \A t \in opens \cap starts : \A r \in before(t) :
            r.viable => t - r.at > Gap
       /\ \A d \in Tenths, i \in Opens(s) : \A w \in Persistence(s, d) :
            w[1] = s[i] /\ (\A r \in Range(s) : r.at \in s[i].at..(s[i].at + d) => r.viable)
              => \/ Fate(s, i, d) = "survived"
                 \/ Fate(s, i, d) = "censored" /\ 2 * (s[i].at + d - Last(s).at) <= Tenth
=============================================================================
