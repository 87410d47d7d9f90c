------------------------------ MODULE Collector ------------------------------
(***************************************************************************)
(* The collector's state and the two tasks that share it: the consumers    *)
(* (pmarb/main.py, consume and _consume_stream), which evaluate every pair *)
(* a new book belongs to and decide whether that makes a row, and the      *)
(* daily refresh (pmarb/refresh.py), which replaces the tracked pairs      *)
(* under them.                                                             *)
(*                                                                         *)
(* Data.  A book is "lo" or "hi" (where its YES is cheap) or "empty" (no   *)
(* asks).  A pair has an evaluation when neither book is empty or stale;   *)
(* it is viable when they differ.  Prices and the clock are read, not      *)
(* kept: whether the partner's book is stale, whether the edge is still    *)
(* that of the pair's last row, and whether since then the throttle (1) or *)
(* the heartbeat too (2) has passed, is chosen when it is asked.  The      *)
(* feeds yield books of the markets they want (KalshiFeed and              *)
(* PolymarketFeed say when they do), and Polymarket of more: its resync    *)
(* may leave dropped slugs streaming, and its merged queue holds books of  *)
(* slugs it has let go of.                                                 *)
(***************************************************************************)
EXTENDS Integers, Functions

CONSTANTS
  Match,       \* the pairs <<kalshi_id, polymarket_id>> a match file may name
  Structured   \* of those, the live games

ASSUME CollectorAssumption == Structured \subseteq Match

VARIABLES
  cache,       \* market -> its latest book
  index,       \* the tracked pairs
  lastAppend,  \* the pairs evaluated -> were they viable then
  pairId,      \* the pairs whose match_pair id is known
  writer,      \* is there a database writer?
  kWanted, pYields,  \* the markets each feed may yield books of
  pList,       \* p_markets, which a restarted consumer subscribes
  refresh,     \* where the refresh cycle is
  plan,        \* the pairs to be tracked after it
  \* history
  shownOpen,   \* the pairs whose last stored row is VIABLE
  unsaid,      \* pairs whose latest row was lost: dropped, or without a pair_id
  oddCloses,   \* the pairs with an odd number of closing rows
  notYetOff    \* what Polymarket yielded, beside what was to be tracked, when the last
               \* refresh published

tables  == <<cache, index, lastAppend, pairId>>
feeds   == <<kWanted, pYields, pList>>
rows    == <<shownOpen, unsaid, oddCloses>>
vars == <<tables, writer, feeds, refresh, plan, rows, notYetOff>>

KalshiOf(ms) == {m[1] : m \in ms}
PolyOf(ms)   == {m[2] : m \in ms}
Market       == KalshiOf(Match) \cup PolyOf(Match)
Legs(m)      == {m[1], m[2]}
PairsOf(mk)  == {m \in index : mk \in Legs(m)}
Partners(mk) == DOMAIN cache \cap (UNION {Legs(m) : m \in PairsOf(mk)} \ {mk})
Book         == {"lo", "hi", "empty"}
Closing      == {"WINDOW_CLOSE", "UNSUBSCRIBED"}

\* Beside the books of tracked markets the cache holds only such as Polymarket had not
\* let go of when the last refresh published.  A slug left streaming refills the cache
\* after every refresh; one let go of is gone with the next, so the cache does not grow
\* across refreshes by what they drop.
CacheBounded ==
  DOMAIN cache \subseteq (UNION {Legs(m) : m \in index}) \cup notYetOff

TypeOK ==
  /\ DOMAIN cache \subseteq Market /\ \A m \in DOMAIN cache : cache[m] \in Book
  /\ index \subseteq Match /\ DOMAIN lastAppend \subseteq index
  /\ \A m \in DOMAIN lastAppend : lastAppend[m] \in BOOLEAN
  /\ pairId \subseteq Match /\ writer \in BOOLEAN
  /\ kWanted \subseteq KalshiOf(Match) /\ pYields \cup pList \subseteq PolyOf(Match)
  /\ refresh \in {"sleep", "sync", "poly"} /\ plan \subseteq Match
  /\ shownOpen \cup unsaid \cup oddCloses \subseteq Match /\ notYetOff \subseteq PolyOf(Match)
  /\ CacheBounded

\* run, up to the tasks: every pair of the match file is tracked and its markets are
\* streamed (one the venue does not list is one that never yields a book); with a
\* database the pairs it knows have their ids.
Init ==
  /\ index \in SUBSET Match /\ cache = <<>> /\ lastAppend = <<>>
  /\ writer \in BOOLEAN /\ pairId \in SUBSET Match /\ (writer \/ pairId = {})
  /\ kWanted = KalshiOf(index)
  /\ pList = PolyOf(index) /\ pYields = pList
  /\ refresh = "sleep" /\ plan = {}
  /\ shownOpen = {} /\ unsaid = {} /\ oddCloses = {} /\ notYetOff = {}

-----------------------------------------------------------------------------
(* The consumers                                                           *)

SampleReason(was, viable, moved, live, since) ==
  CASE viable -> "VIABLE"
    [] ~viable /\ was -> "WINDOW_CLOSE"
    [] ~viable /\ ~was /\ live /\ moved /\ since >= 1 -> "EDGE_CHANGE"
    [] ~viable /\ ~was /\ ~(live /\ moved) /\ since = 2 -> "HEARTBEAT"
    [] OTHER -> "none"

Was(m) == m \in DOMAIN lastAppend /\ lastAppend[m]

\* evaluate_pair says nothing of a stale or a one-sided book.
Evaluable(k, p) == k # "empty" /\ p # "empty"
Viable(k, p)    == Evaluable(k, p) /\ k # p

\* Mutant of Remember: a window once seen open is remembered as open.
RememberOpen(m, viable) == viable \/ Was(m)

\* What last_append says of the pair from now on, row or no row.
Remember(m, viable) == viable

SymDiff(S, T) == (S \cup T) \ (S \cap T)

\* The rows in `reason` (pair -> reason) are submitted; a pair without an id or a
\* process without a writer stores nothing, and a full queue loses what it likes.
Submit(reason) ==
  LET sent == {m \in DOMAIN reason : writer /\ m \in pairId} IN
  \E lost \in SUBSET sent :
    LET stored == sent \ lost IN
    /\ shownOpen' = (shownOpen \ stored) \cup {m \in stored : reason[m] = "VIABLE"}
    /\ oddCloses' = SymDiff(oddCloses, {m \in stored : reason[m] \in Closing})
    /\ unsaid' = (unsaid \cup DOMAIN reason) \ stored

\* One book: it is cached, then every pair of its market with both books is evaluated;
\* the partners in `stale` are too old, and `sample` says if the edge moved and when.
TakeBook(mk, val, stale, sample) ==
  LET books == [x \in DOMAIN cache \cup {mk} |-> IF x = mk THEN val ELSE cache[x]]
      seen  == {m \in PairsOf(mk) : /\ Legs(m) \subseteq DOMAIN books
                                    /\ Legs(m) \cap stale = {}
                                    /\ Evaluable(books[m[1]], books[m[2]])}
      viable(m) == Viable(books[m[1]], books[m[2]])
      why(m)    == SampleReason(Was(m), viable(m), sample[1], m \in Structured, sample[2])
      logged    == {m \in seen : why(m) # "none"}
  IN
  /\ cache' = books
  /\ lastAppend' = [m \in DOMAIN lastAppend \cup seen |->
                      IF m \in seen THEN Remember(m, viable(m))
                                    ELSE lastAppend[m]]
  /\ Submit([m \in logged |-> why(m)])
  /\ UNCHANGED <<index, pairId, writer, feeds, refresh, plan, notYetOff>>

KalshiBook(k, val, stale, sample) ==
  k \in kWanted /\ TakeBook(k, val, stale, sample)

\* From the merged queue.
PolyBook(p, val, stale, sample) ==
  p \in pYields /\ TakeBook(p, val, stale, sample)

\* The Polymarket consumer crashes and restarts from its list, the queue lost.
PolyRestart ==
  /\ pYields' = pList
  /\ UNCHANGED <<tables, writer, kWanted, pList, refresh, plan, rows, notYetOff>>

-----------------------------------------------------------------------------
(* The refresh                                                             *)

\* Matches and catalogs are read, and the pairs to track are decided; a failure to
\* read them ends the cycle with nothing changed.
RefreshReads(pairs) ==
  /\ refresh = "sleep" /\ refresh' = "sync" /\ plan' = pairs
  /\ UNCHANGED <<tables, writer, feeds, rows, notYetOff>>

\* Mutant of OpenWindows: the markers are looked for once the state is pruned.
NoneLeftOpen(gone) == {}

\* The dropped pairs whose window is open and has a row to attach a marker to.
OpenWindows(gone) == {m \in gone \cap DOMAIN lastAppend : lastAppend[m] /\ m \in pairId}

\* Mutant of KeptBooks: nothing is pruned.
AllBooks(pairs) == cache

KeptSamples(pairs) == Restrict(lastAppend, DOMAIN lastAppend \cap pairs)
KeptBooks(pairs)   == Restrict(cache, DOMAIN cache \cap UNION {Legs(m) : m \in pairs})

\* The database thread returns: it wrote the pairs to track (and perhaps others of the
\* match file) and read the ids of all there are, or it failed and the ids stay.
\* Then, without an await: the markers, the in-memory rewrite, and the Kalshi feed's
\* list.
RefreshPublishes(ids) ==
  /\ refresh = "sync"
  /\ pairId \cup plan \subseteq ids \/ ids = pairId
  /\ notYetOff' = pYields \ PolyOf(plan)
  /\ Submit([m \in IF writer THEN OpenWindows(index \ plan) ELSE {} |-> "UNSUBSCRIBED"])
  /\ index' = plan
  /\ lastAppend' = KeptSamples(plan) /\ cache' = KeptBooks(plan)
  /\ pairId' = ids
  /\ kWanted' = KalshiOf(plan) /\ pList' = PolyOf(plan)
  /\ refresh' = "poly"
  /\ UNCHANGED <<writer, pYields, plan>>

\* Polymarket's resync runs after Kalshi's has returned and ends the cycle, raising or
\* not.  Of the slugs dropped it leaves some: in the merged queue, on a shard that is
\* connecting with its old list, in the batches behind a failed unsubscribe, or because
\* it raises.
RefreshPoly ==
  /\ refresh = "poly" /\ refresh' = "sleep"
  /\ \E left \in SUBSET (pYields \ pList) : pYields' = pList \cup left
  /\ UNCHANGED <<tables, writer, kWanted, pList, plan, rows, notYetOff>>

-----------------------------------------------------------------------------
\* The edge as in the pair's last row or not, and the time since it: the cases that
\* sample a pair with no window differently.
Samples == {<<FALSE, 0>>, <<TRUE, 1>>, <<FALSE, 2>>}

Next ==
  \/ \E k \in KalshiOf(Match), val \in Book :
       \E stale \in SUBSET Partners(k), sample \in Samples :
         KalshiBook(k, val, stale, sample)
  \/ \E p \in PolyOf(Match), val \in Book :
       \E stale \in SUBSET Partners(p), sample \in Samples :
         PolyBook(p, val, stale, sample)
  \/ PolyRestart
  \/ \E pairs \in SUBSET Match : RefreshReads(pairs)
  \/ \E ids \in SUBSET Match : RefreshPublishes(ids)
  \/ RefreshPoly

Spec == Init /\ [][Next]_vars

-----------------------------------------------------------------------------
(* Properties                                                              *)

\* Of every pair, tracked or dropped: unless its latest row was lost, its last stored
\* row says VIABLE exactly when the collector holds its window open.  A refresh that
\* races an open window neither leaves it open in the database nor closes another.
RowsTellViability ==
  \A m \in Match \ unsaid : m \in shownOpen <=> Was(m) /\ writer

\* A window is closed once: every closing row that is stored, also one like the row
\* before it, follows a VIABLE row of its pair, unless a row was lost in between.
ClosedOnce ==
  [][SymDiff(oddCloses, oddCloses') \subseteq shownOpen \cup unsaid]_vars
=============================================================================
