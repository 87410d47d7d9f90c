-------------------------- MODULE Collector_proofs --------------------------
(***************************************************************************)
(* What is proved of the collector for any match file, any loss of rows    *)
(* and any number of refreshes.                                            *)
(***************************************************************************)
EXTENDS Collector, TLAPS

\* What the feeds may yield is of tracked pairs or was not let go of when the last
\* refresh published.
Streams ==
  /\ kWanted = KalshiOf(index) /\ pList = PolyOf(index)
  /\ pYields \subseteq pList \cup notYetOff

\* A pair whose last row is VIABLE has an id to attach its close to, now and later.
Closable == shownOpen \subseteq pairId

IInv == TypeOK /\ Streams /\ RowsTellViability /\ Closable

-----------------------------------------------------------------------------
(* Lemmas about the operators                                              *)

\* The legs of pairs are markets of their venues.
LEMMA LegsOf ==
  ASSUME NEW ms
  PROVE  UNION {Legs(m) : m \in ms} = KalshiOf(ms) \cup PolyOf(ms)
BY DEF Legs, KalshiOf, PolyOf

LEMMA MarketsGrow ==
  ASSUME NEW ms, NEW ns, ms \subseteq ns
  PROVE  KalshiOf(ms) \subseteq KalshiOf(ns) /\ PolyOf(ms) \subseteq PolyOf(ns)
BY DEF KalshiOf, PolyOf

\* A reason is one that a row may have, and none only when no window is open before or
\* after.
LEMMA ReasonType ==
  ASSUME NEW was \in BOOLEAN, NEW viable \in BOOLEAN, NEW moved, NEW live, NEW since
  PROVE  LET why == SampleReason(was, viable, moved, live, since) IN
         /\ why \in {"VIABLE", "WINDOW_CLOSE", "EDGE_CHANGE", "HEARTBEAT", "none"}
         /\ why = "VIABLE" <=> viable
         /\ why = "none" => ~was
         /\ why = "WINDOW_CLOSE" => was
BY DEF SampleReason

\* What the table shows once the rows of some pairs are submitted: of a pair whose
\* latest row is not lost what that row says, and a close more where it is a closing one.
LEMMA SubmitMeans ==
  ASSUME TypeOK, NEW reason, DOMAIN reason \subseteq Match, Submit(reason)
  PROVE  /\ shownOpen' \cup unsaid' \cup oddCloses' \subseteq Match
         /\ \A m \in Match \ unsaid' :
              IF m \in DOMAIN reason
                THEN /\ m \in shownOpen' <=> reason[m] = "VIABLE"
                     /\ writer /\ m \in pairId
                ELSE /\ m \in shownOpen' <=> m \in shownOpen
                     /\ m \notin unsaid
         /\ shownOpen' \subseteq shownOpen \cup pairId
         /\ \A m \in SymDiff(oddCloses, oddCloses') :
              m \in DOMAIN reason /\ writer /\ reason[m] \in Closing
<1> DEFINE sent == {m \in DOMAIN reason : writer /\ m \in pairId}
<1>1. PICK lost \in SUBSET sent :
        LET stored == sent \ lost IN
        /\ shownOpen' = (shownOpen \ stored) \cup {m \in stored : reason[m] = "VIABLE"}
        /\ oddCloses' = SymDiff(oddCloses, {m \in stored : reason[m] \in Closing})
        /\ unsaid' = (unsaid \cup DOMAIN reason) \ stored
  BY DEF Submit
<1> DEFINE stored == sent \ lost
           closing == {m \in stored : reason[m] \in Closing}
<1>2. /\ shownOpen' = (shownOpen \ stored) \cup {m \in stored : reason[m] = "VIABLE"}
      /\ oddCloses' = SymDiff(oddCloses, closing)
      /\ unsaid' = (unsaid \cup DOMAIN reason) \ stored
  BY <1>1
<1>3. stored \subseteq DOMAIN reason /\ \A m \in stored : writer /\ m \in pairId  OBVIOUS
<1>4. closing \subseteq stored /\ \A m \in closing : reason[m] \in Closing  OBVIOUS
<1> HIDE DEF stored, closing, sent
<1>5. shownOpen' \cup unsaid' \cup oddCloses' \subseteq Match
  BY <1>2, <1>3, <1>4 DEF SymDiff, TypeOK
<1>6. \A m \in Match \ unsaid' :
        IF m \in DOMAIN reason
          THEN (m \in shownOpen' <=> reason[m] = "VIABLE") /\ writer /\ m \in pairId
          ELSE (m \in shownOpen' <=> m \in shownOpen) /\ m \notin unsaid
  BY <1>2, <1>3
<1>7. shownOpen' \subseteq shownOpen \cup pairId  BY <1>2, <1>3
<1>8. SymDiff(oddCloses, oddCloses') = closing  BY <1>2 DEF SymDiff
<1>9. \A m \in SymDiff(oddCloses, oddCloses') :
        m \in DOMAIN reason /\ writer /\ reason[m] \in Closing
  BY <1>3, <1>4, <1>8
<1>10. QED  BY <1>5, <1>6, <1>7, <1>9

-----------------------------------------------------------------------------
(* One book                                                                *)

\* What is remembered of each pair and said of it, whatever the books and their age.
LEMMA TakeBookStep ==
  ASSUME IInv, NEW mk \in KalshiOf(index) \cup PolyOf(index) \cup notYetOff, NEW val \in Book,
         NEW stale, NEW sample, TakeBook(mk, val, stale, sample)
  PROVE  IInv'
<1> DEFINE books == [x \in DOMAIN cache \cup {mk} |-> IF x = mk THEN val ELSE cache[x]]
           seen  == {m \in PairsOf(mk) : /\ Legs(m) \subseteq DOMAIN books
                                         /\ Legs(m) \cap stale = {}
                                         /\ Evaluable(books[m[1]], books[m[2]])}
           viable(m) == Viable(books[m[1]], books[m[2]])
           why(m)    == SampleReason(Was(m), viable(m), sample[1], m \in Structured, sample[2])
           logged    == {m \in seen : why(m) # "none"}
           reason    == [m \in logged |-> why(m)]
<1>1. /\ cache' = books
      /\ lastAppend' = [m \in DOMAIN lastAppend \cup seen |-> IF m \in seen THEN viable(m) ELSE lastAppend[m]]
      /\ Submit(reason)
      /\ UNCHANGED <<index, pairId, writer, kWanted, pYields, pList, refresh, plan, notYetOff>>
  BY DEF TakeBook, Remember, feeds
<1>2. seen \subseteq index /\ index \subseteq Match
  BY DEF PairsOf, IInv, TypeOK
<1>3. \A m \in seen : viable(m) \in BOOLEAN  BY DEF Viable, Evaluable
<1>4. \A m : Was(m) \in BOOLEAN
  BY DEF Was, IInv, TypeOK
<1>5. \A m \in seen :
        /\ why(m) \in {"VIABLE", "WINDOW_CLOSE", "EDGE_CHANGE", "HEARTBEAT", "none"}
        /\ why(m) = "VIABLE" <=> viable(m)
        /\ why(m) = "none" => ~Was(m)
        /\ why(m) = "WINDOW_CLOSE" => Was(m)
  BY <1>3, <1>4, ReasonType
<1>6. DOMAIN reason = logged /\ \A m \in logged : reason[m] = why(m)  OBVIOUS
<1>7. logged \subseteq seen /\ \A m \in seen : m \notin logged => why(m) = "none"  OBVIOUS
<1> HIDE DEF why, viable, logged, reason, seen
<1>8. DOMAIN reason \subseteq Match  BY <1>2, <1>6, <1>7
<1>9. \A m \in Match : Was(m)' = IF m \in seen THEN viable(m) ELSE Was(m)
  BY <1>1, <1>3 DEF Was
<1>10. TypeOK'
  <2>1. DOMAIN books \subseteq Market /\ \A m \in DOMAIN books : books[m] \in Book
    <3>1. mk \in Market
      BY <1>2, MarketsGrow DEF IInv, TypeOK, Market
    <3>2. QED  BY <3>1 DEF IInv, TypeOK
  <2>2. DOMAIN lastAppend' \subseteq index /\ \A m \in DOMAIN lastAppend' : lastAppend'[m] \in BOOLEAN
    BY <1>1, <1>2, <1>3 DEF IInv, TypeOK
  <2>3. CacheBounded'
    <3>1. UNION {Legs(m) : m \in index} = KalshiOf(index) \cup PolyOf(index)  BY LegsOf
    <3>2. DOMAIN cache' = DOMAIN cache \cup {mk}  BY <1>1
    <3>3. DOMAIN cache' \subseteq (UNION {Legs(m) : m \in index}) \cup notYetOff
      BY <3>1, <3>2 DEF IInv, TypeOK, CacheBounded
    <3>4. QED  BY <1>1, <3>3 DEF CacheBounded
  <2>4. shownOpen' \cup unsaid' \cup oddCloses' \subseteq Match
    BY <1>1, <1>8, SubmitMeans DEF IInv
  <2> HIDE DEF books
  <2>6. QED  BY <1>1, <2>1, <2>2, <2>3, <2>4 DEF IInv, TypeOK
<1>11. Streams'
  BY <1>1 DEF IInv, Streams
<1>12. RowsTellViability'
  <2> SUFFICES ASSUME NEW m \in Match \ unsaid' PROVE m \in shownOpen' <=> Was(m)' /\ writer
    BY <1>1 DEF RowsTellViability
  <2>1. CASE m \in logged
    <3>1. (m \in shownOpen' <=> reason[m] = "VIABLE") /\ writer
      BY <1>1, <1>6, <1>8, <2>1, SubmitMeans DEF IInv
    <3>2. reason[m] = "VIABLE" <=> viable(m)
      BY <1>5, <1>6, <1>7, <2>1
    <3>3. QED  BY <1>7, <1>9, <2>1, <3>1, <3>2
  <2>2. CASE m \notin logged
    <3>1. (m \in shownOpen' <=> m \in shownOpen) /\ m \notin unsaid
      BY <1>1, <1>6, <1>8, <2>2, SubmitMeans DEF IInv
    <3>2. Was(m)' = Was(m)
      BY <1>3, <1>4, <1>5, <1>7, <1>9, <2>2
    <3>3. QED  BY <3>1, <3>2 DEF IInv, RowsTellViability
  <2>3. QED  BY <2>1, <2>2
<1>13. Closable'
  <2>1. shownOpen' \subseteq shownOpen \cup pairId
    BY <1>1, <1>8, SubmitMeans DEF IInv
  <2>2. QED  BY <1>1, <2>1 DEF IInv, Closable
<1>14. QED  BY <1>10, <1>11, <1>12, <1>13 DEF IInv

LEMMA KalshiBookStep ==
  ASSUME IInv, NEW k, NEW val \in Book, NEW stale, NEW sample, KalshiBook(k, val, stale, sample)
  PROVE  IInv'
<1>1. k \in KalshiOf(index)  BY DEF KalshiBook, IInv, Streams
<1>2. TakeBook(k, val, stale, sample)  BY DEF KalshiBook
<1>3. QED  BY <1>1, <1>2, TakeBookStep

LEMMA PolyBookStep ==
  ASSUME IInv, NEW p, NEW val \in Book, NEW stale, NEW sample, PolyBook(p, val, stale, sample)
  PROVE  IInv'
<1>1. p \in PolyOf(index) \cup notYetOff  BY DEF PolyBook, IInv, Streams
<1>2. TakeBook(p, val, stale, sample)  BY DEF PolyBook
<1>3. QED  BY <1>1, <1>2, TakeBookStep

-----------------------------------------------------------------------------
(* The refresh                                                             *)

\* What is pruned is what is kept of the new set, and the close markers are those of the
\* windows pruned.
LEMMA PublishesStep ==
  ASSUME IInv, NEW ids \in SUBSET Match, RefreshPublishes(ids)
  PROVE  IInv'
<1> DEFINE gone == index \ plan
           reason == [m \in IF writer THEN OpenWindows(gone) ELSE {} |-> "UNSUBSCRIBED"]
<1>1. /\ refresh' = "poly" /\ Submit(reason) /\ index' = plan
      /\ lastAppend' = KeptSamples(plan) /\ cache' = KeptBooks(plan) /\ pairId' = ids
      /\ kWanted' = KalshiOf(plan) /\ pList' = PolyOf(plan)
      /\ notYetOff' = pYields \ PolyOf(plan)
      /\ UNCHANGED <<writer, pYields, plan>>
  BY DEF RefreshPublishes
<1>2. DOMAIN reason = (IF writer THEN OpenWindows(gone) ELSE {}) /\ \A m \in DOMAIN reason : reason[m] = "UNSUBSCRIBED"
  OBVIOUS
<1> HIDE DEF reason
<1>3. DOMAIN reason \subseteq Match  BY <1>2 DEF OpenWindows, IInv, TypeOK
<1>4. pairId \subseteq pairId'  BY <1>1 DEF RefreshPublishes
<1>5. DOMAIN lastAppend' = DOMAIN lastAppend \cap plan /\ \A m \in DOMAIN lastAppend' : lastAppend'[m] = lastAppend[m]
  BY <1>1 DEF KeptSamples, Restrict
<1>6. /\ DOMAIN cache' = DOMAIN cache \cap UNION {Legs(m) : m \in plan}
      /\ \A m \in DOMAIN cache' : cache'[m] = cache[m]
  BY <1>1 DEF KeptBooks, Restrict
<1>7. TypeOK'
  <2>1. CacheBounded'  BY <1>1, <1>6 DEF CacheBounded
  <2>2. kWanted' \subseteq KalshiOf(Match) /\ pList' \subseteq PolyOf(Match)
    BY <1>1, MarketsGrow DEF IInv, TypeOK
  <2>3. DOMAIN cache' \subseteq Market /\ \A m \in DOMAIN cache' : cache'[m] \in Book
    BY <1>6 DEF IInv, TypeOK
  <2>4. DOMAIN lastAppend' \subseteq index' /\ \A m \in DOMAIN lastAppend' : lastAppend'[m] \in BOOLEAN
    BY <1>1, <1>5 DEF IInv, TypeOK
  <2>5. shownOpen' \cup unsaid' \cup oddCloses' \subseteq Match
    BY <1>1, <1>3, SubmitMeans DEF IInv
  <2>6. index' \subseteq Match /\ notYetOff' \subseteq PolyOf(Match)
    BY <1>1 DEF IInv, TypeOK
  <2>7. QED  BY <1>1, <2>1, <2>2, <2>3, <2>4, <2>5, <2>6 DEF IInv, TypeOK
<1>8. Streams'  BY <1>1 DEF IInv, Streams
<1>9. RowsTellViability'
  <2> SUFFICES ASSUME NEW m \in Match \ unsaid' PROVE m \in shownOpen' <=> Was(m)' /\ writer
    BY <1>1 DEF RowsTellViability
  <2>1. CASE m \in DOMAIN reason
    <3>1. m \in shownOpen' <=> reason[m] = "VIABLE"
      BY <1>1, <1>3, <2>1, SubmitMeans DEF IInv
    <3>2. m \notin shownOpen'  BY <1>2, <2>1, <3>1
    <3>3. m \notin plan  BY <1>2, <2>1 DEF OpenWindows
    <3>4. ~Was(m)'  BY <1>5, <3>3 DEF Was
    <3>5. QED  BY <3>2, <3>4
  <2>2. CASE m \notin DOMAIN reason
    <3>1. (m \in shownOpen' <=> m \in shownOpen) /\ m \notin unsaid
      BY <1>1, <1>3, <2>2, SubmitMeans DEF IInv
    <3>2. m \in shownOpen <=> Was(m) /\ writer
      BY <3>1 DEF IInv, RowsTellViability
    <3>3. CASE m \in plan
      BY <1>5, <3>1, <3>2, <3>3 DEF Was
    <3>4. CASE m \notin plan
      <4>1. ~Was(m)'  BY <1>5, <3>4 DEF Was
      <4>2. ASSUME Was(m), writer PROVE FALSE
        <5>1. m \in pairId  BY <3>2, <4>2 DEF IInv, Closable
        <5>2. m \in gone  BY <3>4, <4>2 DEF Was, IInv, TypeOK
        <5>3. QED  BY <1>2, <2>2, <4>2, <5>1, <5>2 DEF OpenWindows, Was
      <4>3. QED  BY <3>1, <3>2, <4>1, <4>2
    <3>5. QED  BY <3>3, <3>4
  <2>3. QED  BY <2>1, <2>2
<1>10. Closable'
  <2>1. shownOpen' \subseteq shownOpen \cup pairId
    BY <1>1, <1>3, SubmitMeans DEF IInv
  <2>2. QED  BY <1>4, <2>1 DEF IInv, Closable
<1>11. QED  BY <1>7, <1>8, <1>9, <1>10 DEF IInv

-----------------------------------------------------------------------------
(* The theorems                                                            *)

LEMMA InvInit == Init => IInv
<1> SUFFICES ASSUME Init PROVE IInv  OBVIOUS
<1>1. KalshiOf(index) \subseteq KalshiOf(Match) /\ PolyOf(index) \subseteq PolyOf(Match)
  BY MarketsGrow DEF Init
<1>2. DOMAIN cache = {} /\ DOMAIN lastAppend = {}  BY DEF Init
<1>3. CacheBounded  BY <1>2 DEF CacheBounded
<1>4. TypeOK  BY <1>1, <1>2, <1>3 DEF Init, TypeOK
<1>5. Streams  BY DEF Init, Streams
<1>6. RowsTellViability /\ Closable  BY <1>2 DEF Init, RowsTellViability, Closable, Was
<1>7. QED  BY <1>4, <1>5, <1>6 DEF IInv

LEMMA InvStep == IInv /\ [Next]_vars => IInv'
<1> SUFFICES ASSUME IInv, [Next]_vars PROVE IInv'  OBVIOUS
<1>1. CASE PolyRestart
  <2>1. TypeOK'  BY <1>1 DEF PolyRestart, tables, rows, IInv, TypeOK, CacheBounded
  <2>2. Streams'  BY <1>1 DEF PolyRestart, tables, IInv, Streams
  <2>3. RowsTellViability' /\ Closable'
    BY <1>1 DEF PolyRestart, tables, rows, IInv, RowsTellViability, Closable, Was
  <2>4. QED  BY <2>1, <2>2, <2>3 DEF IInv
<1>2. ASSUME NEW pairs \in SUBSET Match, RefreshReads(pairs) PROVE IInv'
  <2>1. TypeOK'
    BY <1>2 DEF RefreshReads, tables, feeds, rows, IInv, TypeOK, CacheBounded
  <2>2. Streams'  BY <1>2 DEF RefreshReads, tables, feeds, IInv, Streams
  <2>3. RowsTellViability' /\ Closable'
    BY <1>2 DEF RefreshReads, tables, rows, IInv, RowsTellViability, Closable, Was
  <2>4. QED  BY <2>1, <2>2, <2>3 DEF IInv
<1>3. CASE RefreshPoly
  <2>1. TypeOK'  BY <1>3 DEF RefreshPoly, tables, rows, IInv, TypeOK, CacheBounded
  <2>2. Streams'  BY <1>3 DEF RefreshPoly, tables, IInv, Streams
  <2>3. RowsTellViability' /\ Closable'
    BY <1>3 DEF RefreshPoly, tables, rows, IInv, RowsTellViability, Closable, Was
  <2>4. QED  BY <2>1, <2>2, <2>3 DEF IInv
<1>4. CASE UNCHANGED vars
  <2>1. TypeOK'  BY <1>4 DEF vars, tables, feeds, rows, IInv, TypeOK, CacheBounded
  <2>2. Streams'  BY <1>4 DEF vars, tables, feeds, IInv, Streams
  <2>3. RowsTellViability' /\ Closable'
    BY <1>4 DEF vars, tables, rows, IInv, RowsTellViability, Closable, Was
  <2>4. QED  BY <2>1, <2>2, <2>3 DEF IInv
<1>5. QED
  BY <1>1, <1>2, <1>3, <1>4, KalshiBookStep, PolyBookStep, PublishesStep DEF Next

LEMMA Invariance == Spec => []IInv
BY InvInit, InvStep, PTL DEF Spec

\* The state keeps its types, and beside the books of tracked markets the cache holds
\* only those of slugs Polymarket had not let go of when the last refresh published, over
\* any number of refreshes whose resyncs leave what they like streaming.
THEOREM CollectorTypeCorrect == Spec => []TypeOK
<1>1. IInv => TypeOK  BY DEF IInv
<1>2. QED  BY Invariance, <1>1, PTL

\* However books, refreshes and restarts interleave, a pair whose latest row was not lost
\* has a window open in the database exactly when the collector holds it open.
THEOREM CollectorRowsTellViability == Spec => []RowsTellViability
<1>1. IInv => RowsTellViability  BY DEF IInv
<1>2. QED  BY Invariance, <1>1, PTL
-----------------------------------------------------------------------------
(* Windows are closed once                                                 *)

\* One step of ClosedOnce.
ClosedOnceStep == SymDiff(oddCloses, oddCloses') \subseteq shownOpen \cup unsaid

\* Rows that close only windows the collector holds open close windows the table shows.
LEMMA SubmitClosesOpen ==
  ASSUME IInv, NEW reason, DOMAIN reason \subseteq Match, Submit(reason),
         \A m \in DOMAIN reason : reason[m] \in Closing => Was(m)
  PROVE  ClosedOnceStep
<1> SUFFICES ASSUME NEW m \in SymDiff(oddCloses, oddCloses'), m \notin unsaid
             PROVE  m \in shownOpen
  BY DEF ClosedOnceStep
<1>1. m \in DOMAIN reason /\ writer /\ reason[m] \in Closing
  BY SubmitMeans DEF IInv
<1>2. QED  BY <1>1 DEF IInv, RowsTellViability

LEMMA TakeBookClosesOnce ==
  ASSUME IInv, NEW mk, NEW val, NEW stale, NEW sample, TakeBook(mk, val, stale, sample)
  PROVE  ClosedOnceStep
<1> DEFINE books == [x \in DOMAIN cache \cup {mk} |-> IF x = mk THEN val ELSE cache[x]]
           seen  == {m \in PairsOf(mk) : /\ Legs(m) \subseteq DOMAIN books
                                         /\ Legs(m) \cap stale = {}
                                         /\ Evaluable(books[m[1]], books[m[2]])}
           viable(m) == Viable(books[m[1]], books[m[2]])
           why(m)    == SampleReason(Was(m), viable(m), sample[1], m \in Structured, sample[2])
           logged    == {m \in seen : why(m) # "none"}
           reason    == [m \in logged |-> why(m)]
<1>1. Submit(reason)  BY DEF TakeBook
<1>2. seen \subseteq Match  BY DEF PairsOf, IInv, TypeOK
<1>3. \A m : viable(m) \in BOOLEAN /\ Was(m) \in BOOLEAN
  BY DEF Viable, Evaluable, Was, IInv, TypeOK
<1>4. \A m : /\ why(m) \in {"VIABLE", "WINDOW_CLOSE", "EDGE_CHANGE", "HEARTBEAT", "none"}
             /\ why(m) = "WINDOW_CLOSE" => Was(m)
  BY <1>3, ReasonType
<1>5. DOMAIN reason = logged /\ \A m \in logged : reason[m] = why(m)  OBVIOUS
<1>6. logged \subseteq seen  OBVIOUS
<1> HIDE DEF why, viable, logged, reason, seen
<1>7. \A m \in DOMAIN reason : reason[m] \in Closing => Was(m)
  BY <1>4, <1>5 DEF Closing
<1>8. QED  BY <1>1, <1>2, <1>5, <1>6, <1>7, SubmitClosesOpen

LEMMA PublishesClosesOnce ==
  ASSUME IInv, NEW ids, RefreshPublishes(ids)
  PROVE  ClosedOnceStep
<1> DEFINE open   == IF writer THEN OpenWindows(index \ plan) ELSE {}
           reason == [m \in open |-> "UNSUBSCRIBED"]
<1>1. Submit(reason)  BY DEF RefreshPublishes
<1>2. DOMAIN reason = open  OBVIOUS
<1>3. open \subseteq Match /\ \A m \in open : Was(m)
  BY DEF OpenWindows, Was, IInv, TypeOK
<1> HIDE DEF open, reason
<1>4. QED  BY <1>1, <1>2, <1>3, SubmitClosesOpen

\* Whatever the order of books and refreshes, every closing row of a pair whose latest row
\* was stored follows a VIABLE one: no window is closed twice, or closed without being open.
THEOREM CollectorClosedOnce == Spec => ClosedOnce
<1>1. ASSUME IInv, [Next]_vars, oddCloses' # oddCloses PROVE ClosedOnceStep
  <2>1. \/ \E k \in KalshiOf(Match), val \in Book :
             \E stale \in SUBSET Partners(k), sample \in Samples : KalshiBook(k, val, stale, sample)
        \/ \E p \in PolyOf(Match), val \in Book :
             \E stale \in SUBSET Partners(p), sample \in Samples : PolyBook(p, val, stale, sample)
        \/ \E ids \in SUBSET Match : RefreshPublishes(ids)
    BY <1>1 DEF Next, vars, rows, PolyRestart, RefreshReads, RefreshPoly
  <2>2. QED
    BY <1>1, <2>1, TakeBookClosesOnce, PublishesClosesOnce DEF KalshiBook, PolyBook
<1>2. IInv /\ [Next]_vars => [ClosedOnceStep]_vars
  <2>1. ASSUME oddCloses' = oddCloses PROVE ClosedOnceStep
    BY <2>1 DEF ClosedOnceStep, SymDiff
  <2>2. QED  BY <1>1, <2>1
<1>3. ClosedOnce <=> [][ClosedOnceStep]_vars
  BY PTL DEF ClosedOnce, ClosedOnceStep
<1>4. QED  BY Invariance, <1>2, <1>3, PTL DEF Spec
=============================================================================
