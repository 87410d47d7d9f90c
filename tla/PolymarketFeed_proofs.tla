------------------------ MODULE PolymarketFeed_proofs ------------------------
(***************************************************************************)
(* What is proved of PolymarketFeed for all slugs, match sets, limits and  *)
(* numbers of resyncs and faults.                                          *)
(***************************************************************************)
EXTENDS PolymarketFeed, FiniteSetTheorems, WellFoundedInduction, TLAPS

-----------------------------------------------------------------------------
(* Lemmas about pieces                                                     *)

LEMMA Quotient ==
  ASSUME NEW a \in Nat, NEW n \in Nat \ {0}
  PROVE  /\ a \div n \in Nat
         /\ n * (a \div n) <= a /\ a < n * (a \div n) + n
OBVIOUS

LEMMA Scaled ==
  ASSUME NEW a \in Int, NEW b \in Int, NEW n \in Nat \ {0}
  PROVE  /\ n * a \in Int
         /\ a < b => n * a + n <= n * b
OBVIOUS

LEMMA OrderedOnce ==
  ASSUME NEW S \in SUBSET Slug
  PROVE  /\ Cardinality(S) \in Nat /\ Len(Ordered[S]) = Cardinality(S)
         /\ Ordered[S] \in [1..Cardinality(S) -> S]
         /\ \A i, j \in 1..Cardinality(S) : Ordered[S][i] = Ordered[S][j] => i = j
         /\ \A x \in S : \E i \in 1..Cardinality(S) : Ordered[S][i] = x
<1> DEFINE c == Cardinality(S) s == SetToSeq(S)
<1>1. Ordered[S] = s  BY DEF Ordered
<1>2. IsFiniteSet(S)  BY FS_Subset, PolymarketAssumption
<1>3. c \in Nat /\ ExistsBijection(1..c, S)  BY <1>2, FS_CardinalityType
<1>4. \E f \in [1..c -> S] : IsInjective(f)
  BY <1>3 DEF ExistsBijection, Bijection, Injection
<1>5. s \in [1..c -> S] /\ IsInjective(s)  BY <1>4 DEF SetToSeq
<1>6. Len(s) = c  BY <1>3, <1>5
<1>7. s \in Injection(1..c, S)  BY <1>5 DEF Injection
<1>8. Cardinality(1..c) = c  BY <1>3, FS_Interval
<1>9. s \in Surjection(1..c, S)  BY <1>2, <1>7, <1>8, FS_Injection
<1>10. \A x \in S : \E i \in 1..c : s[i] = x  BY <1>9 DEF Surjection
<1>11. \A i, j \in 1..c : s[i] = s[j] => i = j  BY <1>5 DEF IsInjective
<1>12. QED  BY <1>1, <1>3, <1>5, <1>6, <1>10, <1>11

\* The pieces of a set are parts of it, no two share an element, and together they are it.
LEMMA PiecesCut ==
  ASSUME NEW S \in SUBSET Slug, NEW n \in Nat \ {0}
  PROVE  LET p == Pieces(S, n) IN
         /\ Len(p) \in Nat /\ p \in [1..Len(p) -> SUBSET S]
         /\ S = {} <=> Len(p) = 0
         /\ \A i, j \in 1..Len(p) : i # j => p[i] \cap p[j] = {}
         /\ \A x \in S : \E i \in 1..Len(p) : x \in p[i]
<1> DEFINE s == Ordered[S] c == Cardinality(S) m == (c + n - 1) \div n
           low(i) == n * (i - 1) + 1
           high(i) == IF n * i < c THEN n * i ELSE c
           p == Pieces(S, n)
<1>1. /\ c \in Nat /\ Len(s) = c /\ s \in [1..c -> S]
      /\ \A i, j \in 1..c : s[i] = s[j] => i = j
      /\ \A x \in S : \E i \in 1..c : s[i] = x
  BY OrderedOnce
<1>2. m \in Nat /\ n * m <= c + n - 1 /\ c + n - 1 < n * m + n
  <2>1. c + n - 1 \in Nat  BY <1>1
  <2> HIDE DEF c
  <2>2. QED  BY <2>1, Quotient
<1>3. p = [i \in 1..m |-> {s[j] : j \in low(i)..high(i)}]  BY <1>1 DEF Pieces
<1>4. Len(p) = m  BY <1>2, <1>3
<1> HIDE DEF p, m, s, c
<1>5. \A i \in 1..m : n * i \in Int /\ n * (i - 1) \in Int /\ n * i = n * (i - 1) + n /\ n * (i - 1) >= 0
  OBVIOUS
<1>6. \A i \in 1..m : p[i] = {s[j] : j \in low(i)..high(i)} /\ low(i)..high(i) \subseteq 1..c
  BY <1>1, <1>3, <1>5
<1>7. p \in [1..m -> SUBSET S]  BY <1>1, <1>3, <1>6
<1>8. ASSUME NEW i \in 1..m, NEW j \in 1..m, i < j PROVE p[i] \cap p[j] = {}
  <2>1. n * i <= n * (j - 1)
    <3>1. i = j - 1 \/ i < j - 1  BY <1>2, <1>8
    <3>2. CASE i = j - 1  BY <3>2, <1>5
    <3>3. CASE i < j - 1  BY <1>2, <3>3, <1>5, Scaled
    <3>4. QED  BY <3>1, <3>2, <3>3
  <2>2. \A k \in low(i)..high(i), l \in low(j)..high(j) : k < l
    BY <2>1, <1>1, <1>5
  <2>3. ASSUME NEW x \in p[i] \cap p[j] PROVE FALSE
    <3>1. PICK k \in low(i)..high(i) : x = s[k]  BY <1>6
    <3>2. PICK l \in low(j)..high(j) : x = s[l]  BY <1>6
    <3>3. k \in 1..c /\ l \in 1..c  BY <1>6
    <3>4. k = l  BY <1>1, <3>1, <3>2, <3>3
    <3>5. k < l
      <4> HIDE DEF low, high
      <4>1. QED  BY <2>2
    <3>6. QED  BY <1>1, <3>3, <3>4, <3>5
  <2>4. QED  BY <2>3
<1>9. \A i, j \in 1..m : i # j => p[i] \cap p[j] = {}
  <2> SUFFICES ASSUME NEW i \in 1..m, NEW j \in 1..m, i # j PROVE p[i] \cap p[j] = {}
    OBVIOUS
  <2>1. i < j \/ j < i  BY <1>2
  <2>2. QED  BY <2>1, <1>8
<1>10. ASSUME NEW x \in S PROVE \E i \in 1..m : x \in p[i]
  <2>1. PICK k \in 1..c : s[k] = x  BY <1>1
  <2> DEFINE q == (k - 1) \div n
  <2>2. q \in Nat /\ n * q <= k - 1 /\ k - 1 < n * q + n  BY Quotient, <1>1
  <2> HIDE DEF q
  <2>3. n * q < n * m
    <3>1. n * q \in Int /\ n * m \in Int  BY <1>2, <2>2
    <3>2. QED  BY <1>1, <1>2, <2>2, <3>1
  <2>4. q < m
    <3> SUFFICES ASSUME m <= q PROVE FALSE  BY <1>2, <2>2
    <3>1. m = q \/ m < q  BY <1>2, <2>2
    <3>2. n * m \in Int /\ n * q \in Int  BY <1>2, <2>2
    <3>3. m < q => n * m + n <= n * q  BY <1>2, <2>2, Scaled
    <3>4. QED  BY <2>3, <3>1, <3>2, <3>3
  <2>5. q + 1 \in 1..m  BY <1>2, <2>2, <2>4
  <2>6. k \in low(q + 1)..high(q + 1)
    <3>1. n * (q + 1) = n * q + n /\ n * (q + 1 - 1) = n * q /\ n * q \in Int  BY <2>2
    <3>2. QED  BY <1>1, <2>2, <3>1
  <2>7. x \in p[q + 1]  BY <1>6, <2>1, <2>5, <2>6
  <2>8. QED  BY <2>5, <2>7
<1>11. S = {} <=> m = 0
  <2>1. S = {} => c = 0  BY FS_EmptySet DEF c
  <2>2. c = 0 => m = 0
    <3> SUFFICES ASSUME c = 0, m # 0 PROVE FALSE  OBVIOUS
    <3>1. m = 1 \/ 1 < m  BY <1>2
    <3>2. n * m \in Int /\ n * 1 = n  BY <1>2
    <3>3. 1 < m => n * 1 + n <= n * m  BY <1>2, Scaled
    <3>4. QED  BY <1>2, <3>1, <3>2, <3>3
  <2>3. m = 0 => S = {}  BY <1>10
  <2>4. QED  BY <2>1, <2>2, <2>3
<1>12. QED  BY <1>2, <1>4, <1>7, <1>9, <1>10, <1>11 DEF p

-----------------------------------------------------------------------------
(* The invariant                                                           *)

\* Shards are numbered from 0, in the order a resync visits them.
Shaped ==
  /\ shards \subseteq Shard /\ \E n \in Nat : shards = 0..(n - 1)
  /\ meta \in [Shard -> SUBSET Slug] /\ at \in Shard
  /\ desired \in MatchSet /\ pending \subseteq desired

Clean(s) == meta[s] \subseteq desired

\* Unless it was blind, a resync has left on the shards it is done with only what is
\* wanted, and on the one whose turn it is nothing else but what its batches still name;
\* a shard of which this is not so is to be recycled.
Pruned ==
  ~blind =>
    /\ rpc \in {"prune", "ack"} => \A s \in shards : s < at => Clean(s) \/ s \in recycled
    /\ rpc = "prune" /\ stale # NotRead => meta[at] \ desired \subseteq Slugs(stale)
    /\ rpc = "ack" => meta[at] \ desired \subseteq Slugs(stale \ {First(stale)})
    /\ rpc \in {"orphan", "add", "overflow", "grace"} =>
         \A s \in shards : Clean(s) \/ s \in recycled

\* What is wanted is on a shard or still to be placed.
Asked ==
  shards # {} =>
    /\ rpc \in {"prune", "ack", "orphan", "add", "overflow"} =>
         desired \subseteq Current \cup pending
    /\ rpc = "grace" => desired \subseteq Current
    /\ rpc \in {"idle", "recycle"} /\ applied # "failed" => desired \subseteq Current

\* No slug is on two shards, or on a shard and still to be placed.
Apart ==
  ~doubled =>
    /\ \A s, t \in shards : s # t => meta[s] \cap meta[t] = {}
    /\ rpc # "idle" => pending \cap Current = {}

\* "live" is said at the end of a resync, and of the set it was asked for.
Told ==
  applied = "live" => rpc = "idle" /\ (~blind /\ shards # {} => Current = desired)

EInv == Shaped /\ Pruned /\ Asked /\ Apart /\ Told

\* The state the invariant speaks of.
told == <<shards, meta, rpc, desired, pending, recycled, at, stale, applied, blind, doubled>>

LEMMA Unmoved == EInv /\ UNCHANGED told => EInv'
<1> SUFFICES ASSUME EInv, UNCHANGED told PROVE EInv'  OBVIOUS
<1>1. Current' = Current  BY DEF told, Current
<1>2. /\ Slugs(stale)' = Slugs(stale)
      /\ Slugs(stale \ {First(stale)})' = Slugs(stale \ {First(stale)})
  BY DEF told, Slugs, First
<1>3. Shaped'  BY DEF EInv, Shaped, told
<1>4. Pruned'  BY <1>2 DEF EInv, Pruned, Clean, told
<1>5. Asked' /\ Told'  BY <1>1 DEF EInv, Asked, Told, told
<1>6. Apart'  BY <1>1 DEF EInv, Apart, told
<1>7. QED  BY <1>3, <1>4, <1>5, <1>6 DEF EInv

\* The markets a stream starts with are each on one of its shards.
LEMMA FirstExact ==
  ASSUME NEW M \in MatchSet
  PROVE  /\ FirstShards(M) \subseteq Shard /\ \E n \in Nat : FirstShards(M) = 0..(n - 1)
         /\ FirstMeta(M) \in [Shard -> SUBSET M] /\ M \subseteq Slug
         /\ UNION {FirstMeta(M)[s] : s \in FirstShards(M)} = M
         /\ \A s, t \in FirstShards(M) : s # t => FirstMeta(M)[s] \cap FirstMeta(M)[t] = {}
<1> DEFINE p == Pieces(M, MaxSubs) k == FirstMeta(M)
<1>1. M \in SUBSET Slug  BY PolymarketAssumption
<1>2. /\ Len(p) \in Nat /\ p \in [1..Len(p) -> SUBSET M]
      /\ \A i, j \in 1..Len(p) : i # j => p[i] \cap p[j] = {}
      /\ \A x \in M : \E i \in 1..Len(p) : x \in p[i]
  BY <1>1, PiecesCut, PolymarketAssumption
<1>3. FirstShards(M) = 0..(Len(p) - 1) /\ FirstShards(M) \subseteq Shard
  BY PolymarketBounds DEF FirstShards, Parts
<1>4. k = [s \in Shard |-> IF s \in FirstShards(M) THEN p[s + 1] ELSE {}]
  BY DEF FirstMeta, Parts
<1> HIDE DEF p, k
<1>5. \A s \in FirstShards(M) : s + 1 \in 1..Len(p) /\ k[s] = p[s + 1]
  BY <1>2, <1>3, <1>4
<1>6. k \in [Shard -> SUBSET M]  BY <1>2, <1>4, <1>5
<1>7. \A x \in M : \E s \in FirstShards(M) : x \in k[s]
  <2> SUFFICES ASSUME NEW x \in M PROVE \E s \in FirstShards(M) : x \in k[s]  OBVIOUS
  <2>1. PICK i \in 1..Len(p) : x \in p[i]  BY <1>2
  <2>2. i - 1 \in FirstShards(M) /\ i - 1 + 1 = i  BY <1>2, <1>3
  <2>3. QED  BY <1>5, <2>1, <2>2
<1>8. UNION {k[s] : s \in FirstShards(M)} = M  BY <1>3, <1>6, <1>7
<1>9. \A s, t \in FirstShards(M) : s # t => k[s] \cap k[t] = {}
  <2> SUFFICES ASSUME NEW s \in FirstShards(M), NEW t \in FirstShards(M), s # t
               PROVE  k[s] \cap k[t] = {}
    OBVIOUS
  <2>1. s + 1 # t + 1  BY <1>3
  <2>2. QED  BY <1>2, <1>5, <2>1
<1>10. QED  BY <1>1, <1>2, <1>3, <1>6, <1>8, <1>9 DEF k

LEMMA EInvInit == Init => EInv
<1> SUFFICES ASSUME Init PROVE EInv  OBVIOUS
<1>1. 0 \in Shard  BY PolymarketAssumption DEF Shard
<1>2. Shaped  BY <1>1, FirstExact DEF Init, Shaped
<1>3. Apart  BY FirstExact DEF Init, Apart
<1>4. Current = desired  BY FirstExact DEF Init, Current
<1>5. QED  BY <1>2, <1>3, <1>4 DEF Init, EInv, Pruned, Asked, Told

-----------------------------------------------------------------------------
(* The steps of a resync                                                   *)

LEMMA ResyncExact ==
  ASSUME EInv, NEW M \in MatchSet, Resync(M)
  PROVE  EInv'
<1>1. /\ desired' = M /\ pending' = M \ Current /\ at' = 0 /\ blind' = FALSE
      /\ stale' = NotRead /\ doubled' = doubled /\ shards' = shards /\ meta' = meta
  BY DEF Resync, shardVars
<1>2. rpc = "idle" /\ rpc' \in {"idle", "prune"} /\ applied' # "live"
  BY DEF Resync
<1>3. Current' = Current  BY <1>1 DEF Current
<1>4. Shaped'
  <2>1. 0 \in Shard  BY PolymarketAssumption DEF Shard
  <2>2. QED  BY <1>1, <2>1 DEF EInv, Shaped
<1>5. Pruned'
  <2>1. \A s \in shards : ~(s < 0)  BY DEF EInv, Shaped, Shard
  <2>2. QED  BY <1>1, <1>2, <2>1 DEF Pruned
<1>6. Asked'
  <2>1. rpc' = "idle" => shards = {} \/ M = Current  BY DEF Resync
  <2>2. QED  BY <1>1, <1>2, <1>3, <2>1 DEF Asked
<1>7. Apart'  BY <1>1, <1>3 DEF EInv, Apart
<1>8. Told'  BY <1>2 DEF Told
<1>9. QED  BY <1>4, <1>5, <1>6, <1>7, <1>8 DEF EInv

\* Where the turn goes: to the next shard, or past the last one.
LEMMA TurnPasses ==
  ASSUME Shaped, NEW phase, NEW then, Advance(phase, then)
  PROVE  /\ stale' = NotRead /\ at' \in Shard /\ rpc' \in {phase, then}
         /\ \/ rpc' = phase /\ at' = at + 1
            \/ rpc' = then /\ at' = 0 /\ \A s \in shards : s <= at
<1>1. PICK n \in Nat : shards = 0..(n - 1)  BY DEF Shaped
<1>2. 0 \in Shard  BY PolymarketAssumption DEF Shard
<1>3. at \in Nat  BY DEF Shaped, Shard
<1>4. CASE at + 1 \in shards  BY <1>4 DEF Advance, Shaped
<1>5. CASE at + 1 \notin shards
  <2>1. \A s \in shards : s <= at  BY <1>1, <1>3, <1>5
  <2>2. QED  BY <1>2, <1>5, <2>1 DEF Advance
<1>6. QED  BY <1>4, <1>5

\* When the shard whose turn it was is clean or to be recycled, so are all done with.
LEMMA TurnClean ==
  ASSUME Shaped, Advance("prune", "add"), shards' = shards,
         \A s \in shards : s <= at => Clean(s)' \/ s \in recycled'
  PROVE  Pruned'
<1>1. /\ stale' = NotRead
      /\ \/ rpc' = "prune" /\ at' = at + 1
         \/ rpc' = "add" /\ \A s \in shards : s <= at
  BY TurnPasses
<1>2. \A s \in shards : s < at + 1 => s <= at  BY DEF Shaped, Shard
<1>3. QED  BY <1>1, <1>2 DEF Pruned

LEMMA PruneExact ==
  ASSUME EInv, PruneNext
  PROVE  EInv'
<1> DEFINE todo == IF stale = NotRead THEN Stale ELSE stale
           now  == IF todo = {} THEN {} ELSE IF ws[at] THEN {First(todo)} ELSE todo
<1>1. /\ rpc = "prune" /\ shards' = shards /\ desired' = desired /\ pending' = pending
      /\ applied' = applied /\ doubled' = doubled
      /\ meta' = [meta EXCEPT ![at] = @ \ (Slugs(now) \ desired)]
      /\ blind' = (blind \/ (stale = NotRead /\ ~Recorded(at)))
  BY DEF PruneNext
<1>2. \/ /\ todo = {} \/ ~ws[at]
         /\ Advance("prune", "add") /\ recycled' = recycled
      \/ recycled' = recycled \cup {at} /\ Advance("prune", "add")
      \/ /\ ws[at] /\ todo # {} /\ rpc' = "ack" /\ stale' = todo
         /\ at' = at /\ recycled' = recycled
  BY DEF PruneNext, GiveUpOn, Sendable
<1>3. Shaped /\ at \in Shard  BY DEF EInv, Shaped
<1>4. /\ meta'[at] = meta[at] \ (Slugs(now) \ desired)
      /\ \A s \in Shard : s # at => meta'[s] = meta[s]
      /\ meta' \in [Shard -> SUBSET Slug]
  BY <1>1, <1>3 DEF Shaped
<1>5. \A s \in Shard : meta'[s] \subseteq meta[s] /\ meta[s] \cap desired \subseteq meta'[s]
  BY <1>1, <1>3, <1>4
<1>6. shards \subseteq Shard  BY <1>3 DEF Shaped
<1>7. Current' \subseteq Current /\ Current \cap desired \subseteq Current'
  BY <1>1, <1>5, <1>6 DEF Current
<1>8. rpc' \in {"prune", "ack", "add"} /\ at' \in Shard
  BY <1>2, <1>1, <1>3, TurnPasses
<1>9. Shaped'  BY <1>1, <1>3, <1>4, <1>8 DEF Shaped
<1>10. Asked'  BY <1>1, <1>7, <1>8 DEF EInv, Asked
<1>11. Apart'
  BY <1>1, <1>5, <1>6, <1>7 DEF EInv, Apart
<1>12. Told'  BY <1>1 DEF EInv, Told
<1>13. ASSUME ~blind' PROVE meta[at] \ desired \subseteq Slugs(todo)
  <2>1. ~blind /\ (stale = NotRead => Recorded(at))  BY <1>1, <1>13
  <2>2. CASE stale = NotRead
    BY <2>1, <2>2 DEF Recorded, Stale, StaleOn, Slugs
  <2>3. CASE stale # NotRead
    BY <1>1, <2>1, <2>3 DEF EInv, Pruned
  <2>4. QED  BY <2>2, <2>3
<1>14. Pruned'
  <2> SUFFICES ASSUME ~blind' PROVE Pruned'  BY DEF Pruned
  <2>1. ~blind /\ \A s \in shards : s < at => Clean(s) \/ s \in recycled
    BY <1>1 DEF EInv, Pruned
  <2>2. \A s \in shards : s < at => Clean(s)' \/ s \in recycled
    BY <1>1, <1>5, <1>6, <2>1 DEF Clean
  <2>3. meta[at] \ desired \subseteq Slugs(todo)  BY <1>13
  <2> HIDE DEF todo
  <2>4. CASE todo = {} \/ ~ws[at]
    <3>1. now = todo  BY <2>4
    <3>2. meta'[at] \subseteq desired  BY <1>4, <2>3, <3>1
    <3>3. \A s \in shards : s = at => Clean(s)'  BY <1>1, <3>2 DEF Clean
    <3>4. Advance("prune", "add") /\ recycled \subseteq recycled'  BY <1>2, <2>4
    <3>5. \A s \in shards : s <= at => Clean(s)' \/ s \in recycled'
      BY <1>3, <1>6, <2>2, <3>3, <3>4 DEF Shard
    <3>6. QED  BY <1>1, <1>3, <3>4, <3>5, TurnClean
  <2>5. CASE recycled' = recycled \cup {at} /\ Advance("prune", "add")
    <3>1. \A s \in shards : s <= at => Clean(s)' \/ s \in recycled'
      BY <1>3, <1>6, <2>2, <2>5 DEF Shard
    <3>2. QED  BY <1>1, <1>3, <2>5, <3>1, TurnClean
  <2>6. CASE todo # {} /\ ws[at] /\ rpc' = "ack" /\ stale' = todo /\ at' = at /\ recycled' = recycled
    <3>1. now = {First(todo)}  BY <2>6
    <3>2. meta'[at] \ desired \subseteq Slugs(todo \ {First(todo)})
      BY <1>4, <2>3, <3>1 DEF Slugs
    <3>3. Slugs(stale \ {First(stale)})' = Slugs(todo \ {First(todo)})
      BY <2>6 DEF Slugs, First
    <3>4. QED  BY <1>1, <2>2, <2>6, <3>2, <3>3 DEF Pruned
  <2>7. QED  BY <1>2, <2>4, <2>5, <2>6
<1>15. QED  BY <1>9, <1>10, <1>11, <1>12, <1>14 DEF EInv

\* An acknowledged batch is off the list; without the acknowledgement the shard is to be
\* recycled; and a send on a socket that is gone ends the resync.
LEMMA AckExact ==
  ASSUME EInv, Acknowledged \/ AckTimeout
  PROVE  EInv'
<1>1. /\ rpc = "ack" /\ shards' = shards /\ meta' = meta /\ desired' = desired
      /\ pending' = pending /\ blind' = blind /\ doubled' = doubled
  BY DEF Acknowledged, AckTimeout, shardVars
<1>2. \/ /\ rpc' = "prune" /\ stale' = stale \ {First(stale)}
         /\ at' = at /\ recycled' = recycled /\ applied' = applied
      \/ rpc' = "idle" /\ applied' = "failed" /\ at' = at
      \/ recycled' = recycled \cup {at} /\ Advance("prune", "add") /\ applied' = applied
  BY DEF Acknowledged, AckTimeout, GiveUpOn
<1>3. Shaped  BY DEF EInv
<1>4. Current' = Current  BY <1>1 DEF Current
<1>5. rpc' \in {"idle", "prune", "add"} /\ at' \in Shard
  BY <1>2, <1>3, TurnPasses DEF Shaped
<1>6. Shaped'  BY <1>1, <1>3, <1>5 DEF Shaped
<1>7. Asked'
  <2>1. rpc' = "idle" => applied' = "failed"
    BY <1>2 DEF Advance
  <2>2. QED  BY <1>1, <1>4, <1>5, <2>1 DEF EInv, Asked
<1>8. Apart'  BY <1>1, <1>4 DEF EInv, Apart
<1>9. Told'  BY <1>1, <1>2 DEF EInv, Told
<1>10. Pruned'
  <2> SUFFICES ASSUME ~blind' PROVE Pruned'  BY DEF Pruned
  <2>1. \A s \in shards : s < at => Clean(s)' \/ s \in recycled
    BY <1>1 DEF EInv, Pruned, Clean
  <2>2. meta[at] \ desired \subseteq Slugs(stale \ {First(stale)})
    BY <1>1 DEF EInv, Pruned
  <2>3. CASE rpc' = "prune" /\ stale' = stale \ {First(stale)} /\ at' = at /\ recycled' = recycled
    <3>1. Slugs(stale)' = Slugs(stale \ {First(stale)})  BY <2>3 DEF Slugs
    <3>2. QED  BY <1>1, <2>1, <2>2, <2>3, <3>1 DEF Pruned
  <2>4. CASE rpc' = "idle"  BY <2>4 DEF Pruned
  <2>5. CASE recycled' = recycled \cup {at} /\ Advance("prune", "add")
    <3>1. \A s \in shards : s <= at => Clean(s)' \/ s \in recycled'
      BY <1>3, <2>1, <2>5 DEF Shaped, Shard
    <3>2. QED  BY <1>1, <1>3, <2>5, <3>1, TurnClean
  <2>6. QED  BY <1>2, <2>3, <2>4, <2>5
<1>11. QED  BY <1>6, <1>7, <1>8, <1>9, <1>10 DEF EInv

\* What a shard takes is still to be placed, and the shard exists.
LEMMA TakeWanted ==
  ASSUME Shaped
  PROVE  Take \subseteq pending /\ (Take # {} => at \in shards)
<1>1. CASE Take = {}  BY <1>1
<1>2. CASE Take # {}
  <2>1. /\ pending # {} /\ at \in shards /\ ~(Room <= 0)
        /\ Take = Pieces(pending, Room)[1]
    BY <1>2 DEF Take
  <2>2. Room \in Nat \ {0}
    <3>1. meta[at] \in SUBSET Slug  BY DEF Shaped
    <3>2. Cardinality(meta[at]) \in Nat  BY <3>1, OrderedOnce
    <3>3. QED  BY <2>1, <3>2, PolymarketAssumption DEF Room
  <2>3. pending \in SUBSET Slug  BY PolymarketAssumption DEF Shaped
  <2> DEFINE p == Pieces(pending, Room)
  <2>4. Len(p) \in Nat /\ p \in [1..Len(p) -> SUBSET pending] /\ Len(p) # 0
    BY <2>1, <2>2, <2>3, PiecesCut
  <2>5. p[1] \subseteq pending  BY <2>4
  <2>6. QED  BY <2>1, <2>5
<1>3. QED  BY <1>1, <1>2

LEMMA PlaceExact ==
  ASSUME EInv, PlaceAdds
  PROVE  EInv'
<1>1. /\ rpc = "add" /\ shards' = shards /\ desired' = desired /\ pending' = pending \ Take
      /\ blind' = blind /\ doubled' = doubled /\ applied' = applied
      /\ meta' = [meta EXCEPT ![at] = @ \cup Take]
      /\ recycled \subseteq recycled' /\ Advance("add", "overflow")
  BY DEF PlaceAdds
<1>2. Shaped  BY DEF EInv
<1>3. Take \subseteq pending /\ (Take # {} => at \in shards)  BY <1>2, TakeWanted
<1> HIDE DEF Take
<1>4. rpc' \in {"add", "overflow"} /\ at' \in Shard  BY <1>1, <1>2, TurnPasses
<1>5. Take \subseteq desired /\ Take \subseteq Slug
  BY <1>2, <1>3, PolymarketAssumption DEF Shaped
<1>6. /\ meta' \in [Shard -> SUBSET Slug] /\ shards \subseteq Shard
      /\ \A s \in Shard : meta'[s] = IF s = at THEN meta[s] \cup Take ELSE meta[s]
  BY <1>1, <1>2, <1>5 DEF Shaped
<1>7. Current' = Current \cup Take
  BY <1>1, <1>3, <1>6 DEF Current
<1>8. Shaped'  BY <1>1, <1>2, <1>4, <1>6 DEF Shaped
<1>9. Pruned'
  <2> SUFFICES ASSUME ~blind' PROVE \A s \in shards' : Clean(s)' \/ s \in recycled'
    BY <1>4 DEF Pruned
  <2>1. \A s \in shards : Clean(s) \/ s \in recycled  BY <1>1 DEF EInv, Pruned
  <2>2. QED  BY <1>1, <1>5, <1>6, <2>1 DEF Clean
<1>10. Asked'  BY <1>1, <1>4, <1>7 DEF EInv, Asked
<1>11. Apart'
  <2> SUFFICES ASSUME ~doubled' PROVE Apart'  BY DEF Apart
  <2>1. /\ \A s, t \in shards : s # t => meta[s] \cap meta[t] = {}
        /\ pending \cap Current = {}
    BY <1>1 DEF EInv, Apart
  <2>2. \A s \in shards : meta[s] \cap Take = {}  BY <1>3, <2>1 DEF Current
  <2>3. \A s, t \in shards : s # t => meta'[s] \cap meta'[t] = {}
    BY <1>6, <2>1, <2>2
  <2>4. pending' \cap Current' = {}  BY <1>1, <1>7, <2>1
  <2>5. QED  BY <1>1, <2>3, <2>4 DEF Apart
<1>12. Told'  BY <1>1 DEF EInv, Told
<1>13. QED  BY <1>8, <1>9, <1>10, <1>11, <1>12 DEF EInv

\* What is left over is cut up among new shards, if there is a stream at all.
LEMMA ChunksExact ==
  ASSUME Shaped
  PROVE  /\ Len(Chunks) \in Nat /\ Chunks \in [1..Len(Chunks) -> SUBSET pending]
         /\ \A i, j \in 1..Len(Chunks) : i # j => Chunks[i] \cap Chunks[j] = {}
         /\ shards # {} => \A x \in pending : \E i \in 1..Len(Chunks) : x \in Chunks[i]
         /\ shards = {} => Len(Chunks) = 0
<1>1. pending \in SUBSET Slug  BY PolymarketAssumption DEF Shaped
<1>2. CASE shards = {}
  <2>1. Chunks = <<>>  BY <1>2 DEF Chunks
  <2>2. Len(Chunks) = 0 /\ Chunks \in [1..0 -> SUBSET pending]  BY <2>1
  <2>3. QED  BY <1>2, <2>2
<1>3. CASE shards # {}
  <2>1. Chunks = Pieces(pending, MaxSubs)  BY <1>3 DEF Chunks
  <2>2. QED  BY <1>1, <1>3, <2>1, PiecesCut, PolymarketAssumption
<1>4. QED  BY <1>2, <1>3

LEMMA OverflowExact ==
  ASSUME EInv, Overflow
  PROVE  EInv'
<1> DEFINE n == Cardinality(shards) k == Len(Chunks)
<1>1. /\ rpc = "overflow" /\ rpc' = "grace" /\ pending' = {} /\ desired' = desired
      /\ recycled' = recycled /\ at' = at /\ applied' = applied /\ blind' = blind
      /\ doubled' = doubled /\ n + k <= MaxShards /\ shards' = shards \cup n..(n + k - 1)
      /\ meta' = [s \in Shard |-> IF s \in shards' \ shards THEN Chunks[s - n + 1] ELSE meta[s]]
  BY DEF Overflow
<1>2. Shaped  BY DEF EInv
<1>3. n \in Nat /\ shards = 0..(n - 1)
  <2>1. PICK m \in Nat : shards = 0..(m - 1)  BY <1>2 DEF Shaped
  <2>2. n = m  BY <2>1, FS_Interval
  <2>3. QED  BY <2>1, <2>2
<1>4. /\ k \in Nat /\ Chunks \in [1..k -> SUBSET pending]
      /\ \A i, j \in 1..k : i # j => Chunks[i] \cap Chunks[j] = {}
      /\ shards # {} => \A x \in pending : \E i \in 1..k : x \in Chunks[i]
      /\ shards = {} => k = 0
  BY <1>2, ChunksExact
<1> HIDE DEF n, k
<1>5. /\ shards' = 0..(n + k - 1) /\ shards' \subseteq Shard
      /\ shards' \ shards = n..(n + k - 1)
  BY <1>1, <1>3, <1>4, PolymarketAssumption DEF Shard
<1>6. \A s \in shards' \ shards : s - n + 1 \in 1..k /\ meta'[s] = Chunks[s - n + 1]
  BY <1>1, <1>3, <1>4, <1>5
<1>7. \A s \in shards : meta'[s] = meta[s]  BY <1>1, <1>5
<1>8. pending \subseteq desired /\ desired \subseteq Slug
  BY <1>2, PolymarketAssumption DEF Shaped
<1>9. \A s \in shards' \ shards : meta'[s] \subseteq pending  BY <1>4, <1>6
<1>10. Shaped'
  <2>1. meta' \in [Shard -> SUBSET Slug]  BY <1>1, <1>2, <1>5, <1>8, <1>9 DEF Shaped
  <2>2. n + k \in Nat /\ shards' = 0..((n + k) - 1)  BY <1>3, <1>4, <1>5
  <2>3. \E m \in Nat : shards' = 0..(m - 1)  BY <2>2
  <2>4. at' \in Shard /\ desired' \in MatchSet /\ pending' \subseteq desired'
    BY <1>1, <1>2 DEF Shaped
  <2>5. QED  BY <1>5, <2>1, <2>3, <2>4 DEF Shaped
<1>11. Pruned'
  <2> SUFFICES ASSUME ~blind' PROVE \A s \in shards' : Clean(s)' \/ s \in recycled'
    BY <1>1 DEF Pruned
  <2>1. \A s \in shards : Clean(s) \/ s \in recycled  BY <1>1 DEF EInv, Pruned
  <2>2. QED  BY <1>1, <1>7, <1>8, <1>9, <2>1 DEF Clean
<1>12. Asked'
  <2> SUFFICES ASSUME shards' # {}, NEW x \in desired PROVE x \in Current'
    BY <1>1 DEF Asked
  <2>1. shards # {}
    <3>1. shards = {} => n = 0 /\ k = 0  BY <1>3, <1>4
    <3>2. QED  BY <1>5, <3>1
  <2>2. CASE x \in Current  BY <1>5, <1>7, <1>1, <2>2 DEF Current
  <2>3. CASE x \in pending
    <3>1. PICK i \in 1..k : x \in Chunks[i]  BY <1>4, <2>1, <2>3
    <3>2. \E s \in shards' \ shards : s - n + 1 = i
      <4>1. n + i - 1 \in shards' \ shards  BY <1>3, <1>4, <1>5
      <4>2. (n + i - 1) - n + 1 = i  BY <1>3, <1>4
      <4>3. QED  BY <4>1, <4>2
    <3>3. PICK s \in shards' \ shards : s - n + 1 = i  BY <3>2
    <3>4. x \in meta'[s]  BY <1>6, <3>1, <3>3
    <3>5. QED  BY <3>3, <3>4 DEF Current
  <2>4. QED  BY <1>1, <2>1, <2>2, <2>3 DEF EInv, Asked
<1>13. Apart'
  <2> SUFFICES ASSUME ~doubled, NEW s \in shards', NEW t \in shards', s # t
               PROVE  meta'[s] \cap meta'[t] = {}
    BY <1>1 DEF Apart
  <2>1. /\ \A u, v \in shards : u # v => meta[u] \cap meta[v] = {}
        /\ \A u \in shards : meta[u] \cap pending = {}
    BY <1>1 DEF EInv, Apart, Current
  <2>2. CASE s \in shards /\ t \in shards  BY <1>7, <2>1, <2>2
  <2>3. CASE s \in shards /\ t \notin shards  BY <1>7, <1>9, <2>1, <2>3
  <2>4. CASE s \notin shards /\ t \in shards  BY <1>7, <1>9, <2>1, <2>4
  <2>5. CASE s \notin shards /\ t \notin shards
    <3>1. s - n + 1 # t - n + 1  BY <1>3, <1>4, <1>5
    <3>2. QED  BY <1>4, <1>6, <2>5, <3>1
  <2>6. QED  BY <2>2, <2>3, <2>4, <2>5
<1>14. Told'  BY <1>1 DEF EInv, Told
<1>15. QED  BY <1>10, <1>11, <1>12, <1>13, <1>14 DEF EInv

LEMMA GraceExact ==
  ASSUME EInv, GraceOver
  PROVE  EInv'
<1>1. /\ rpc = "grace" /\ shards' = shards /\ meta' = meta /\ desired' = desired
      /\ pending' = pending /\ at' = at /\ blind' = blind /\ doubled' = doubled
      /\ recycled \subseteq recycled'
      /\ applied' = "live" => recycled' = {}
      /\ rpc' = IF recycled' = {} THEN "idle" ELSE "recycle"
  BY DEF GraceOver, shardVars
<1>2. Current' = Current  BY <1>1 DEF Current
<1>3. Shaped' /\ Pruned' /\ Asked'  BY <1>1, <1>2 DEF EInv, Shaped, Pruned, Asked
<1>4. Apart'  BY <1>1, <1>2 DEF EInv, Apart
<1>5. Told'
  <2> SUFFICES ASSUME applied' = "live", ~blind, shards # {} PROVE Current = desired
    BY <1>1, <1>2 DEF Told
  <2>1. recycled = {}  BY <1>1
  <2>2. \A s \in shards : meta[s] \subseteq desired
    BY <1>1, <2>1 DEF EInv, Pruned, Clean
  <2>3. desired \subseteq Current  BY <1>1 DEF EInv, Asked
  <2>4. QED  BY <2>2, <2>3 DEF Current
<1>6. QED  BY <1>3, <1>4, <1>5 DEF EInv

LEMMA RecycleExact ==
  ASSUME EInv, NEW s \in Shard, Recycle(s)
  PROVE  EInv'
<1>1. /\ rpc = "recycle" /\ shards' = shards /\ meta' = meta /\ desired' = desired
      /\ pending' = pending /\ at' = at /\ blind' = blind /\ doubled' = doubled
      /\ applied' = applied /\ rpc' \in {"idle", "recycle"}
  BY DEF Recycle
<1>2. Current' = Current  BY <1>1 DEF Current
<1>3. Shaped' /\ Pruned' /\ Asked'  BY <1>1, <1>2 DEF EInv, Shaped, Pruned, Asked
<1>4. Apart' /\ Told'  BY <1>1, <1>2 DEF EInv, Apart, Told
<1>5. QED  BY <1>3, <1>4 DEF EInv

-----------------------------------------------------------------------------
(* The end of a stream and the next one                                    *)

LEMMA OrphansExact ==
  ASSUME EInv, OrphansPruned
  PROVE  EInv'
<1>1. /\ rpc = "orphan" /\ rpc' = "add" /\ at' = 0 /\ shards' = shards /\ meta' = meta
      /\ desired' = desired /\ pending' = pending /\ recycled' = recycled
      /\ blind' = blind /\ doubled' = doubled /\ applied' = applied
  BY DEF OrphansPruned, shardVars
<1>2. Current' = Current  BY <1>1 DEF Current
<1>3. Shaped'
  <2>1. 0 \in Shard  BY PolymarketAssumption DEF Shard
  <2>2. QED  BY <1>1, <2>1 DEF EInv, Shaped
<1>4. Pruned'  BY <1>1 DEF EInv, Pruned, Clean
<1>5. Asked' /\ Apart' /\ Told'  BY <1>1, <1>2 DEF EInv, Asked, Apart, Told
<1>6. QED  BY <1>3, <1>4, <1>5 DEF EInv

\* A stream ends only while the resync is suspended, if one is under way.
LEMMA TornExact ==
  ASSUME EInv, Torn, ~Running
  PROVE  EInv'
<1>1. /\ shards' = {} /\ meta' = [s \in Shard |-> {}] /\ at' = 0 /\ desired' = desired
      /\ pending' = pending /\ blind' = blind /\ doubled' = doubled /\ applied' = applied
  BY DEF Torn
<1>2. rpc' = IF rpc = "ack" THEN "orphan" ELSE IF rpc = "recycle" THEN "idle" ELSE rpc
  BY DEF Torn
<1>3. rpc' \notin {"prune", "ack"}  BY <1>2 DEF Running
<1>4. Shaped'
  <2>1. 0 \in Shard /\ {} = 0..(0 - 1)  BY PolymarketAssumption DEF Shard
  <2>2. meta' \in [Shard -> SUBSET Slug]  BY <1>1
  <2>3. QED  BY <1>1, <2>1, <2>2 DEF EInv, Shaped
<1>5. Current' = {}  BY <1>1 DEF Current
<1>6. Pruned' /\ Asked' /\ Apart'  BY <1>1, <1>3, <1>5 DEF Pruned, Asked, Apart
<1>7. Told'  BY <1>1, <1>2 DEF EInv, Told
<1>8. QED  BY <1>4, <1>6, <1>7 DEF EInv

LEMMA StartExact ==
  ASSUME EInv, StreamStarts, ~Running
  PROVE  EInv'
<1>1. /\ shards = {} /\ shards' = FirstShards(desired) /\ meta' = FirstMeta(desired)
      /\ desired' = desired /\ pending' = pending /\ rpc' = rpc /\ at' = at
      /\ recycled' = recycled /\ stale' = stale /\ blind' = blind /\ applied' = applied
      /\ doubled' = (rpc # "idle" /\ pending # {})
  BY DEF StreamStarts, callVars
<1>2. desired \in MatchSet  BY DEF EInv, Shaped
<1>3. Current' = desired  BY <1>1, <1>2, FirstExact DEF Current
<1>4. Shaped'  BY <1>1, <1>2, FirstExact DEF EInv, Shaped
<1>5. meta' \in [Shard -> SUBSET desired] /\ shards' \subseteq Shard
  BY <1>1, <1>2, FirstExact
<1>6. \A s \in Shard : meta'[s] \subseteq desired'  BY <1>1, <1>5
<1>7. Pruned'
  <2>1. \A s \in shards' : Clean(s)'  BY <1>5, <1>6 DEF Clean
  <2>2. meta'[at'] \ desired' = {}  BY <1>1, <1>6 DEF EInv, Shaped
  <2>3. QED  BY <2>1, <2>2 DEF Pruned
<1>8. Asked' /\ Told'  BY <1>1, <1>3 DEF EInv, Asked, Told
<1>9. Apart'
  <2> SUFFICES ASSUME ~doubled' PROVE Apart'  BY DEF Apart
  <2>1. \A s, t \in shards' : s # t => meta'[s] \cap meta'[t] = {}
    BY <1>1, <1>2, FirstExact
  <2>2. rpc' # "idle" => pending' \cap Current' = {}  BY <1>1
  <2>3. QED  BY <2>1, <2>2 DEF Apart
<1>10. QED  BY <1>4, <1>7, <1>8, <1>9 DEF EInv

-----------------------------------------------------------------------------
(* The theorem                                                             *)

\* The readers, the venue and the network leave the lists alone.
LEMMA ReadersExact ==
  ASSUME EInv,
         \/ \E s \in Shard : Reader(s) \/ Venue(s)
         \/ \E s \in shards : ReaderEnds(s)
         \/ \E s \in Shard, how \in {"closed", "stalled"} : LinkFails(s, how)
  PROVE  EInv'
<1>1. ASSUME NEW s \in Shard, Reader(s) PROVE UNCHANGED told
  BY <1>1 DEF Reader, LoopHead, Connected, SubscribeNext, ReaderRaises, BackoffOver,
     IdleTimeout, OnControl, CallUnchanged, told, shardVars, callVars
<1>2. ASSUME NEW s \in Shard, Venue(s) PROVE UNCHANGED told
  BY <1>2 DEF Venue, VenueSubscribe, VenueUnsubscribe, told, shardVars, callVars
<1>3. ASSUME NEW s \in shards, ReaderEnds(s) PROVE UNCHANGED told
  BY <1>3 DEF ReaderEnds, told, shardVars, callVars
<1>4. ASSUME NEW s \in Shard, NEW how \in {"closed", "stalled"}, LinkFails(s, how)
      PROVE  UNCHANGED told
  BY <1>4 DEF LinkFails, told, shardVars, callVars
<1>5. UNCHANGED told  BY <1>1, <1>2, <1>3, <1>4
<1>6. QED  BY <1>5, Unmoved

LEMMA EInvNext == EInv /\ [Next]_vars => EInv'
<1> SUFFICES ASSUME EInv, [Next]_vars PROVE EInv'  OBVIOUS
<1>1. CASE UNCHANGED vars
  BY <1>1, Unmoved DEF vars, told, shardVars, callVars
<1>2. CASE (\E s \in Shard : Reader(s) \/ Venue(s)) \/ (\E s \in shards : ReaderEnds(s))
           \/ (\E s \in Shard, how \in {"closed", "stalled"} : LinkFails(s, how))
  BY <1>2, ReadersExact
<1>3. CASE Refresher
  BY <1>3, PruneExact, AckExact, OrphansExact, PlaceExact, OverflowExact, GraceExact,
     RecycleExact DEF Refresher
<1>4. CASE Stream \/ (~Running /\ ConsumerRaises)
  BY <1>4, TornExact, StartExact DEF Stream, StreamEnds, ConsumerRaises
<1>5. CASE \E M \in MatchSet : Resync(M)  BY <1>5, ResyncExact
<1>6. QED  BY <1>1, <1>2, <1>3, <1>4, <1>5 DEF Next

LEMMA EInvImplies == EInv => LiveMeansExact /\ Placed
BY DEF EInv, Told, Apart, Asked, LiveMeansExact, Placed

\* Whatever the readers, the venue, the network and the consumer do and however often the
\* set changes: a resync that says "live" and saw every list has left the shards wanting
\* exactly the set it was given, and no slug is on two shards unless the stream was
\* started under a resync that still had slugs to place.
THEOREM PolymarketLiveMeansExact == Spec => []LiveMeansExact
BY EInvInit, EInvNext, EInvImplies, PTL DEF Spec

\* And whatever it says, unless it raised, every market it was given is on a shard: failed
\* removals, full shards and a stream that ends under it included.
THEOREM PolymarketPlacesAll == Spec => []Placed
BY EInvInit, EInvNext, EInvImplies, PTL DEF Spec

-----------------------------------------------------------------------------
(* Type correctness and the limit on a shard's list                        *)

LEMMA Smallest ==
  ASSUME NEW T \in SUBSET Nat, T # {}
  PROVE  \E x \in T : \A y \in T : x <= y
<1> DEFINE R == OpToRel(<, Nat)
<1>1. IsWellFoundedOn(R, Nat)  BY NatLessThanWellFounded
<1> HIDE DEF R
<1>2. PICK x \in T : \A y \in T : ~(<<y, x>> \in R)  BY <1>1, WFMin
<1>3. \A y \in T : y < x => <<y, x>> \in R
  <2> SUFFICES ASSUME NEW y \in T, y < x PROVE <<y, x>> \in R  OBVIOUS
  <2>1. <<y, x>> \in Nat \X Nat  OBVIOUS
  <2>2. QED  BY <2>1 DEF R, OpToRel
<1>4. \A y \in T : ~(y < x)  BY <1>2, <1>3
<1>5. QED  BY <1>4

LEMMA FirstIn ==
  ASSUME NEW bs \in SUBSET Batch, bs # {}
  PROVE  First(bs) \in bs
<1>1. {b.rid : b \in bs} \in SUBSET Nat /\ {b.rid : b \in bs} # {}  BY DEF Batch
<1>2. PICK x \in {b.rid : b \in bs} : \A y \in {b.rid : b \in bs} : x <= y
  BY <1>1, Smallest
<1>3. \E b \in bs : \A c \in bs : b.rid <= c.rid  BY <1>2
<1>4. QED  BY <1>3 DEF First

\* A piece has at most n elements.
LEMMA PieceSized ==
  ASSUME NEW S \in SUBSET Slug, NEW n \in Nat \ {0}, NEW i \in 1..Len(Pieces(S, n))
  PROVE  Cardinality(Pieces(S, n)[i]) <= n
<1> DEFINE s == Ordered[S] c == Cardinality(S) m == (c + n - 1) \div n
           D == (n * (i - 1) + 1)..(IF n * i < c THEN n * i ELSE c)
           T == {s[j] : j \in D}
           f == [j \in D |-> s[j]]
<1>1. c \in Nat /\ Len(s) = c  BY OrderedOnce
<1>2. c + n - 1 \in Nat  BY <1>1
<1>3. m \in Nat  BY <1>2, Quotient
<1>4. Pieces(S, n) = [k \in 1..m |->
         {s[j] : j \in (n * (k - 1) + 1)..(IF n * k < c THEN n * k ELSE c)}]
  BY <1>1 DEF Pieces
<1>5. Len(Pieces(S, n)) = m  BY <1>3, <1>4
<1>6. Pieces(S, n)[i] = T  BY <1>4, <1>5
<1>7. IsFiniteSet(D) /\ Cardinality(D) <= n
  <2>1. i \in Int /\ n * (i - 1) \in Int /\ n * i \in Int /\ n * i = n * (i - 1) + n
    BY <1>3, <1>5
  <2> DEFINE lo == n * (i - 1) + 1 hi == IF n * i < c THEN n * i ELSE c
  <2>2. lo \in Int /\ hi \in Int /\ hi <= lo + n - 1  BY <1>1, <2>1
  <2>3. D = lo..hi  OBVIOUS
  <2> HIDE DEF lo, hi
  <2>4. QED  BY <2>2, <2>3, FS_Interval
<1> HIDE DEF D
<1>8. f \in Surjection(D, T)  BY DEF Surjection
<1>9. Cardinality(T) <= Cardinality(D) /\ IsFiniteSet(T)  BY <1>7, <1>8, FS_Surjection
<1>10. Cardinality(T) \in Nat /\ Cardinality(D) \in Nat  BY <1>7, <1>9, FS_CardinalityType
<1>11. QED  BY <1>6, <1>7, <1>9, <1>10

Command == [op : {"subscribe", "unsubscribe"}, batch : Batch]

\* The shards' readers and connections.
ReadersTyped ==
  /\ batches \in [Shard -> SUBSET Batch] /\ ws \in [Shard -> BOOLEAN]
  /\ errors \in [Shard -> Nat] /\ ridSeq \in [Shard -> Nat]
  /\ pc \in [Shard -> {"off", "top", "connecting", "subscribing", "recv", "backoff",
                    "ended"}]
  /\ toSend \in [Shard -> Seq(SUBSET Slug)] /\ sent \in [Shard -> Batch]
  /\ link \in [Shard -> {"none", "up", "stalled", "closed"}]
  /\ cmds \in [Shard -> Seq(Command)] /\ sub \in [Shard -> SUBSET Batch]

\* The resync: what it recycles and watches are shards, and so is the one whose turn it
\* is while it prunes.
CallTyped ==
  /\ rpc \in {"idle", "prune", "ack", "orphan", "add", "overflow", "grace", "recycle"}
  /\ recycled \subseteq shards /\ DOMAIN before \subseteq shards
  /\ ghosts \in BOOLEAN /\ stale \subseteq Batch
  /\ fut \in {"none", "pending", "failed", "done"}
  /\ applied \in {"none", "live", "recycled", "unchanged", "on_reconnect", "failed"}
  /\ rpc \in {"prune", "ack"} => at \in shards
  /\ rpc = "ack" => stale # {}

Sized == \A s \in Shard : Cardinality(meta[s]) <= MaxSubs

Counted == faults \in 0..MaxFault /\ resyncs \in 0..MaxResync

TInv == EInv /\ ReadersTyped /\ CallTyped /\ Sized /\ Counted

LEMMA TInvImplies == TInv => TypeOK
<1> SUFFICES ASSUME TInv PROVE TypeOK  OBVIOUS
<1>1. desired \subseteq Slug  BY PolymarketAssumption DEF TInv, EInv, Shaped
<1>2. QED  BY <1>1 DEF TInv, EInv, Shaped, ReadersTyped, CallTyped, Sized, Counted, TypeOK

LEMMA NoShardsTyped ==
  /\ NoShards.batches \in [Shard -> SUBSET Batch] /\ NoShards.ws \in [Shard -> BOOLEAN]
  /\ NoShards.errors \in [Shard -> Nat] /\ NoShards.ridSeq \in [Shard -> Nat]
  /\ NoShards.toSend \in [Shard -> Seq(SUBSET Slug)] /\ NoShards.sent \in [Shard -> Batch]
  /\ NoShards.link \in [Shard -> {"none", "up", "stalled", "closed"}]
  /\ NoShards.cmds \in [Shard -> Seq(Command)] /\ NoShards.sub \in [Shard -> SUBSET Batch]
<1>1. NoBatch \in Batch  BY DEF NoBatch, Batch
<1>2. QED  BY <1>1 DEF NoShards

LEMMA FirstSized ==
  ASSUME NEW M \in MatchSet
  PROVE  \A s \in Shard : Cardinality(FirstMeta(M)[s]) <= MaxSubs
<1> DEFINE p == Pieces(M, MaxSubs)
<1>1. M \in SUBSET Slug /\ MaxSubs \in Nat \ {0}  BY PolymarketAssumption
<1>2. Len(p) \in Nat /\ \A i \in 1..Len(p) : Cardinality(p[i]) <= MaxSubs
  BY <1>1, PiecesCut, PieceSized
<1>3. Cardinality({}) <= MaxSubs  BY <1>1, FS_EmptySet
<1>4. FirstShards(M) = 0..(Len(p) - 1)  BY DEF FirstShards, Parts
<1>5. FirstMeta(M) = [s \in Shard |-> IF s \in FirstShards(M) THEN p[s + 1] ELSE {}]
  BY DEF FirstMeta, Parts
<1> HIDE DEF p
<1>6. \A s \in FirstShards(M) : s + 1 \in 1..Len(p)  BY <1>2, <1>4
<1>7. QED  BY <1>2, <1>3, <1>5, <1>6

LEMMA TInvInit == Init => TInv
<1> SUFFICES ASSUME Init PROVE TInv  OBVIOUS
<1>1. EInv  BY EInvInit
<1>2. ReadersTyped  BY NoShardsTyped DEF Init, ReadersTyped, FirstPc
<1>3. CallTyped
  <2>1. NotRead \subseteq Batch  BY DEF NotRead, NoBatch, Batch
  <2>2. DOMAIN before = {}  BY DEF Init
  <2>3. QED  BY <2>1, <2>2 DEF Init, CallTyped
<1>4. Sized  BY FirstSized DEF Init, Sized
<1>5. Counted  BY PolymarketAssumption DEF Init, Counted
<1>6. QED  BY <1>1, <1>2, <1>3, <1>4, <1>5 DEF TInv

-----------------------------------------------------------------------------
(* The readers, the venue and the network keep the types                   *)

\* The variables of CallTyped and of Sized.
asked == <<shards, meta, rpc, recycled, before, ghosts, at, stale, applied>>

LEMMA CallKept ==
  ASSUME CallTyped, Sized, UNCHANGED asked,
         fut' \in {"none", "pending", "failed", "done"}
  PROVE  CallTyped' /\ Sized'
BY DEF CallTyped, Sized, asked

\* Some set of slugs, cut into batches, is a list of sets of slugs.
LEMMA PiecesTyped ==
  ASSUME NEW S \in SUBSET Slug, NEW n \in Nat \ {0}
  PROVE  Pieces(S, n) \in Seq(SUBSET Slug)
<1> DEFINE p == Pieces(S, n)
<1>1. Len(p) \in Nat /\ p \in [1..Len(p) -> SUBSET S]  BY PiecesCut
<1> HIDE DEF p
<1>2. p \in [1..Len(p) -> SUBSET Slug]  BY <1>1
<1>3. p \in Seq(SUBSET Slug)  BY <1>1, <1>2
<1>4. QED  BY <1>3 DEF p

LEMMA ReaderTyped ==
  ASSUME TInv, NEW s \in Shard, Reader(s)
  PROVE  ReadersTyped' /\ CallTyped' /\ Sized' /\ Counted'
<1> USE DEF TInv
<1>1. /\ meta[s] \in SUBSET Slug /\ SubBatch \in Nat \ {0} /\ NoBatch \in Batch
      /\ MaxFault \in Nat
  BY PolymarketAssumption DEF EInv, Shaped, NoBatch, Batch
<1>2. UNCHANGED asked
  BY DEF Reader, LoopHead, Connected, SubscribeNext, ReaderRaises, BackoffOver,
     IdleTimeout, OnControl, CallUnchanged, asked, shardVars, callVars
<1>3. fut' \in {"none", "pending", "failed", "done"}
  BY DEF Reader, LoopHead, Connected, SubscribeNext, ReaderRaises, BackoffOver, CallTyped,
     IdleTimeout, OnControl, FailPendingAcks, callVars
<1>4. CallTyped' /\ Sized'  BY <1>2, <1>3, CallKept
<1>5. CASE LoopHead(s)
  BY <1>4, <1>5 DEF LoopHead, ReadersTyped, netVars, Counted
<1>6. CASE Connected(s)
  <2>1. Pieces(meta[s], SubBatch) \in Seq(SUBSET Slug)  BY <1>1, PiecesTyped
  <2>2. <<>> \in Seq(Command)  OBVIOUS
  <2>3. QED  BY <1>4, <1>6, <2>1, <2>2 DEF Connected, ReadersTyped, Counted
<1>7. CASE SubscribeNext(s)
  <2>1. {sent[s]} \ NotRead \in SUBSET Batch /\ batches[s] \in SUBSET Batch
    BY DEF ReadersTyped
  <2>2. batches' \in [Shard -> SUBSET Batch]  BY <1>7, <2>1 DEF SubscribeNext, ReadersTyped
  <2>3. CASE toSend[s] = <<>>
    BY <1>1, <1>4, <1>7, <2>2, <2>3 DEF SubscribeNext, ReadersTyped, Counted
  <2>4. CASE toSend[s] # <<>>
    <3> DEFINE b == [rid |-> ridSeq[s] + 1, slugs |-> Head(toSend[s])]
               c == [op |-> "subscribe", batch |-> b]
    <3>1. toSend[s] \in Seq(SUBSET Slug) /\ ridSeq[s] \in Nat /\ cmds[s] \in Seq(Command)
      BY DEF ReadersTyped
    <3>2. Head(toSend[s]) \in SUBSET Slug /\ Tail(toSend[s]) \in Seq(SUBSET Slug)
      BY <2>4, <3>1
    <3>3. b \in Batch  BY <3>1, <3>2 DEF Batch
    <3>4. c \in Command  BY <3>3 DEF Command
    <3>5. Append(cmds[s], c) \in Seq(Command)  BY <3>1, <3>4
    <3>6. /\ ridSeq' = [ridSeq EXCEPT ![s] = @ + 1] /\ sent' = [sent EXCEPT ![s] = b]
          /\ cmds' = [cmds EXCEPT ![s] = Append(@, c)]
          /\ toSend' = [toSend EXCEPT ![s] = Tail(@)]
          /\ UNCHANGED <<pc, ws, errors, link, sub, faults, resyncs>>
      BY <1>7, <2>4 DEF SubscribeNext
    <3> HIDE DEF b, c
    <3>7. QED  BY <1>4, <2>2, <3>1, <3>2, <3>3, <3>5, <3>6 DEF ReadersTyped, Counted
  <2>5. QED  BY <2>3, <2>4
<1>8. CASE ReaderRaises(s)
  BY <1>1, <1>4, <1>8 DEF ReaderRaises, ReadersTyped, netVars, Counted
<1>9. CASE BackoffOver(s)
  BY <1>4, <1>9 DEF BackoffOver, ReadersTyped, shardVars, netVars, Counted
<1>10. CASE IdleTimeout(s)
  BY <1>4, <1>10 DEF IdleTimeout, ReadersTyped, shardVars, Counted
<1>11. CASE OnControl(s)
  BY <1>4, <1>11 DEF OnControl, ReadersTyped, readerVars, Counted
<1>12. QED  BY <1>5, <1>6, <1>7, <1>8, <1>9, <1>10, <1>11 DEF Reader

LEMMA VenueTyped ==
  ASSUME TInv, NEW s \in Shard, Venue(s)
  PROVE  ReadersTyped' /\ CallTyped' /\ Sized' /\ Counted'
<1> USE DEF TInv
<1>1. PICK yes \in BOOLEAN : VenueSubscribe(s, yes) \/ VenueUnsubscribe(s, yes)
  BY DEF Venue
<1>2. /\ cmds[s] \in Seq(Command) /\ sub[s] \in SUBSET Batch /\ MaxFault \in Nat
      /\ cmds[s] # <<>>
  BY <1>1, PolymarketAssumption DEF ReadersTyped, VenueSubscribe, VenueUnsubscribe
<1>3. Head(cmds[s]) \in Command /\ Tail(cmds[s]) \in Seq(Command)  BY <1>2
<1>4. Head(cmds[s]).batch \in Batch  BY <1>3 DEF Command
<1>5. /\ cmds' = [cmds EXCEPT ![s] = Tail(@)]
      /\ UNCHANGED <<shardVars, readerVars, callVars, link, resyncs>>
      /\ sub' = sub \/ sub' = [sub EXCEPT ![s] = @ \cup {Head(cmds[s]).batch}]
         \/ sub' = [sub EXCEPT ![s] = @ \ {Head(cmds[s]).batch}]
  BY <1>1 DEF VenueSubscribe, VenueUnsubscribe
<1>6. faults' = faults \/ (faults < MaxFault /\ faults' = faults + 1)
  BY <1>1 DEF VenueSubscribe, VenueUnsubscribe
<1>7. sub' \in [Shard -> SUBSET Batch]
  <2> DEFINE b == Head(cmds[s]).batch
  <2>1. b \in Batch /\ sub \in [Shard -> SUBSET Batch]  BY <1>4 DEF ReadersTyped
  <2>2. sub' = sub \/ sub' = [sub EXCEPT ![s] = @ \cup {b}] \/ sub' = [sub EXCEPT ![s] = @ \ {b}]
    BY <1>5
  <2> HIDE DEF b
  <2>3. QED  BY <2>1, <2>2
<1>8. ReadersTyped'  BY <1>2, <1>3, <1>5, <1>7 DEF ReadersTyped, shardVars, readerVars
<1>9. CallTyped' /\ Sized'
  BY <1>5, CallKept DEF asked, shardVars, callVars, CallTyped
<1>10. Counted'  BY <1>2, <1>5, <1>6 DEF Counted
<1>11. QED  BY <1>8, <1>9, <1>10

LEMMA NetworkTyped ==
  ASSUME TInv, \/ \E s \in shards : ReaderEnds(s)
               \/ \E s \in Shard, how \in {"closed", "stalled"} : LinkFails(s, how)
  PROVE  ReadersTyped' /\ CallTyped' /\ Sized' /\ Counted'
<1> USE DEF TInv
<1>1. MaxFault \in Nat  BY PolymarketAssumption
<1>2. CASE \E s \in shards : ReaderEnds(s)
  <2>1. PICK s \in shards : ReaderEnds(s)  BY <1>2
  <2>2. ReadersTyped'  BY <2>1 DEF ReaderEnds, ReadersTyped, shardVars
  <2>3. faults' = faults \/ (faults < MaxFault /\ faults' = faults + 1)
    BY <2>1 DEF ReaderEnds
  <2>4. Counted'  BY <1>1, <2>1, <2>3 DEF ReaderEnds, Counted
  <2>5. UNCHANGED asked /\ fut' = fut
    BY <2>1 DEF ReaderEnds, asked, shardVars, callVars
  <2>6. QED  BY <2>2, <2>4, <2>5, CallKept DEF CallTyped
<1>3. CASE \E s \in Shard, how \in {"closed", "stalled"} : LinkFails(s, how)
  <2>1. PICK s \in Shard, how \in {"closed", "stalled"} : LinkFails(s, how)  BY <1>3
  <2>2. ReadersTyped' /\ Counted'
    BY <1>1, <2>1 DEF LinkFails, ReadersTyped, shardVars, readerVars, Counted
  <2>3. UNCHANGED asked /\ fut' = fut
    BY <2>1 DEF LinkFails, asked, shardVars, callVars
  <2>4. QED  BY <2>2, <2>3, CallKept DEF CallTyped
<1>4. QED  BY <1>2, <1>3

-----------------------------------------------------------------------------
(* The resync and the stream keep the types                                *)

LEMMA SendTyped ==
  ASSUME ReadersTyped, at \in Shard, NEW pieces \in Seq(SUBSET Slug), SendSubscribe(pieces)
  PROVE  /\ ridSeq' \in [Shard -> Nat] /\ batches' \in [Shard -> SUBSET Batch]
         /\ cmds' \in [Shard -> Seq(Command)]
<1> DEFINE n == Len(pieces) bs == Numbered(pieces)
           cs == [i \in 1..Len(bs) |-> [op |-> "subscribe", batch |-> bs[i]]]
<1>1. ridSeq[at] \in Nat /\ n \in Nat  BY DEF ReadersTyped
<1>2. bs = [i \in 1..n |-> [rid |-> ridSeq[at] + i, slugs |-> pieces[i]]]
  BY DEF Numbered
<1>3. \A i \in 1..n : ridSeq[at] + i \in Nat /\ pieces[i] \in SUBSET Slug  BY <1>1
<1>4. bs \in [1..n -> Batch] /\ Len(bs) = n  BY <1>1, <1>2, <1>3 DEF Batch
<1> HIDE DEF bs
<1>5. cs \in [1..n -> Command]  BY <1>4 DEF Command
<1>6. cs \in Seq(Command)  BY <1>1, <1>5
<1>7. ToSet(bs) \in SUBSET Batch  BY <1>4 DEF ToSet
<1>8. /\ ridSeq' = [ridSeq EXCEPT ![at] = @ + n]
      /\ batches' = [batches EXCEPT ![at] = @ \cup ToSet(bs)]
      /\ cmds' = [cmds EXCEPT ![at] = @ \o cs]
  BY <1>4 DEF SendSubscribe, bs
<1> HIDE DEF cs, n
<1>9. ridSeq' \in [Shard -> Nat]  BY <1>1, <1>8 DEF ReadersTyped
<1>10. batches' \in [Shard -> SUBSET Batch]  BY <1>7, <1>8 DEF ReadersTyped
<1>11. cmds' \in [Shard -> Seq(Command)]
  <2>1. cmds[at] \in Seq(Command)  BY DEF ReadersTyped
  <2>2. cmds[at] \o cs \in Seq(Command)  BY <1>6, <2>1
  <2>3. QED  BY <1>8, <2>2 DEF ReadersTyped
<1>12. QED  BY <1>9, <1>10, <1>11

\* A shorter list is within the limit a longer one is within.
LEMMA SmallerSized ==
  ASSUME NEW S \in SUBSET Slug, NEW T \in SUBSET S, Cardinality(S) <= MaxSubs
  PROVE  Cardinality(T) <= MaxSubs
<1>1. IsFiniteSet(S) /\ IsFiniteSet(T)  BY FS_Subset, PolymarketAssumption
<1>2. Cardinality(T) <= Cardinality(S)  BY <1>1, FS_Subset
<1>3. Cardinality(S) \in Nat /\ Cardinality(T) \in Nat /\ MaxSubs \in Nat
  BY <1>1, FS_CardinalityType, PolymarketAssumption
<1>4. QED  BY <1>2, <1>3

LEMMA ResyncTyped ==
  ASSUME TInv, NEW M \in MatchSet, Resync(M)
  PROVE  ReadersTyped' /\ CallTyped' /\ Sized' /\ Counted'
<1> USE DEF TInv
<1>1. ReadersTyped'
  BY DEF Resync, ReadersTyped, shardVars, readerVars, netVars
<1>2. Sized' /\ Counted'
  BY PolymarketAssumption DEF Resync, Sized, Counted, shardVars
<1>3. CallTyped'
  <2>1. shards # {} => 0 \in shards  BY DEF EInv, Shaped
  <2>2. NotRead \subseteq Batch  BY DEF NotRead, NoBatch, Batch
  <2>3. DOMAIN before' = {} /\ recycled' = {} /\ stale' = NotRead /\ at' = 0
        /\ shards' = shards /\ ghosts' = FALSE /\ fut' = "none"
    BY DEF Resync, shardVars
  <2>4. rpc' = "idle" \/ (rpc' = "prune" /\ shards # {})  BY DEF Resync
  <2>5. applied' \in {"none", "unchanged", "on_reconnect"}  BY DEF Resync
  <2>6. QED  BY <2>1, <2>2, <2>3, <2>4, <2>5 DEF CallTyped
<1>4. QED  BY <1>1, <1>2, <1>3

LEMMA PruneTyped ==
  ASSUME TInv, PruneNext
  PROVE  ReadersTyped' /\ CallTyped' /\ Sized' /\ Counted'
<1> DEFINE todo == IF stale = NotRead THEN Stale ELSE stale
           now  == IF todo = {} THEN {} ELSE IF ws[at] THEN {First(todo)} ELSE todo
           c    == [op |-> "unsubscribe", batch |-> First(todo)]
<1> USE DEF TInv
<1>1. rpc = "prune" /\ at \in Shard /\ at \in shards  BY DEF PruneNext, CallTyped, EInv, Shaped
<1>2. todo \in SUBSET Batch
  BY <1>1 DEF ReadersTyped, CallTyped, Stale, StaleOn
<1>3. /\ meta' = [meta EXCEPT ![at] = @ \ (Slugs(now) \ desired)]
      /\ batches' = [batches EXCEPT ![at] = @ \ now]
      /\ UNCHANGED <<shards, ws, errors, ridSeq, readerVars, before, ghosts, applied,
                     link, sub, faults, resyncs>>
  BY DEF PruneNext
<1>4. \/ /\ Advance("prune", "add")
         /\ recycled' = recycled \/ recycled' = recycled \cup {at}
         /\ fut' = fut /\ cmds' = cmds
      \/ /\ todo # {} /\ rpc' = "ack" /\ stale' = todo /\ fut' = "pending"
         /\ cmds' = [cmds EXCEPT ![at] = Append(@, c)] /\ UNCHANGED <<recycled, at>>
  BY DEF PruneNext, GiveUpOn
<1> HIDE DEF todo, now
<1>5. cmds' \in [Shard -> Seq(Command)]
  <2>1. cmds[at] \in Seq(Command) /\ cmds \in [Shard -> Seq(Command)]
    BY <1>1 DEF ReadersTyped
  <2>2. CASE todo # {}
    <3>1. First(todo) \in Batch  BY <1>2, <2>2, FirstIn
    <3>2. Append(cmds[at], c) \in Seq(Command)  BY <2>1, <3>1 DEF Command
    <3> HIDE DEF c
    <3>3. QED  BY <1>4, <2>1, <3>2
  <2>3. CASE todo = {}  BY <1>4, <2>1, <2>3
  <2>4. QED  BY <2>2, <2>3
<1>6. ReadersTyped'  BY <1>3, <1>5 DEF ReadersTyped, readerVars
<1>7. Sized'
  <2>1. meta \in [Shard -> SUBSET Slug] /\ \A s \in Shard : Cardinality(meta[s]) <= MaxSubs
    BY DEF EInv, Shaped, Sized
  <2>2. \A s \in Shard : meta'[s] \in SUBSET meta[s]  BY <1>1, <1>3, <2>1
  <2>3. QED  BY <2>1, <2>2, SmallerSized DEF Sized
<1>8. Counted'  BY <1>3 DEF Counted
<1>9. NotRead \subseteq Batch  BY DEF NotRead, NoBatch, Batch
<1>10. CASE Advance("prune", "add")
  <2>1. /\ stale' = NotRead /\ rpc' \in {"prune", "add"}
        /\ rpc' = "prune" => at' \in shards
    BY <1>10 DEF Advance
  <2>2. recycled' = recycled \/ recycled' = recycled \cup {at}
    BY <1>1, <1>4
  <2>3. fut' \in {"none", "pending", "failed", "done"}  BY <1>4 DEF CallTyped
  <2>4. CallTyped'  BY <1>1, <1>3, <1>9, <2>1, <2>2, <2>3 DEF CallTyped
  <2>5. QED  BY <1>6, <1>7, <1>8, <2>4
<1>11. CASE rpc' = "ack" /\ todo # {} /\ stale' = todo /\ fut' = "pending" /\ UNCHANGED <<recycled, at>>
  <2>1. CallTyped'  BY <1>1, <1>2, <1>3, <1>11 DEF CallTyped
  <2>2. QED  BY <1>6, <1>7, <1>8, <2>1
<1>12. QED  BY <1>4, <1>10, <1>11

LEMMA AckTyped ==
  ASSUME TInv, Acknowledged \/ AckTimeout
  PROVE  ReadersTyped' /\ CallTyped' /\ Sized' /\ Counted'
<1> USE DEF TInv
<1>1. /\ rpc = "ack" /\ at \in shards /\ at \in Shard
      /\ UNCHANGED <<shards, meta, ws, errors, readerVars, before, ghosts, link, sub,
                     faults, resyncs>>
      /\ fut' = "none"
  BY DEF Acknowledged, AckTimeout, CallTyped, EInv, Shaped, shardVars, netVars
<1>2. \/ rpc' = "prune" /\ stale' = stale \ {First(stale)} /\ UNCHANGED <<at, recycled, applied>>
      \/ rpc' = "idle" /\ applied' = "failed" /\ UNCHANGED <<recycled, at, stale>>
      \/ Advance("prune", "add") /\ recycled' = recycled \cup {at} /\ applied' = applied
  BY DEF Acknowledged, AckTimeout, GiveUpOn
<1>3. ReadersTyped'
  <2>1. CASE UNCHANGED <<ridSeq, batches, cmds>>
    BY <1>1, <2>1 DEF ReadersTyped, readerVars
  <2>2. CASE SendSubscribe(<<Survivors>>)
    <3>1. Survivors \in SUBSET Slug
      BY PolymarketAssumption DEF Survivors, EInv, Shaped
    <3>2. <<Survivors>> \in Seq(SUBSET Slug)  BY <3>1
    <3>3. QED  BY <1>1, <2>2, <3>2, SendTyped DEF ReadersTyped, readerVars
  <2>3. QED  BY <2>1, <2>2 DEF Acknowledged, AckTimeout, shardVars, netVars
<1>4. Sized' /\ Counted'  BY <1>1 DEF Sized, Counted
<1>5. NotRead \subseteq Batch  BY DEF NotRead, NoBatch, Batch
<1>6. CallTyped'
  <2>1. CASE Advance("prune", "add") /\ recycled' = recycled \cup {at} /\ applied' = applied
    <3>1. /\ stale' = NotRead /\ rpc' \in {"prune", "add"}
          /\ rpc' = "prune" => at' \in shards
      BY <2>1 DEF Advance
    <3>2. QED  BY <1>1, <1>5, <2>1, <3>1 DEF CallTyped
  <2>2. CASE rpc' \in {"prune", "idle"} /\ stale' \subseteq stale /\ at' = at
             /\ recycled' = recycled /\ applied' \in {applied, "failed"}
    BY <1>1, <2>2 DEF CallTyped
  <2>3. QED  BY <1>2, <2>1, <2>2
<1>7. QED  BY <1>3, <1>4, <1>6

\* What a shard takes fits.
LEMMA TakeSized ==
  ASSUME Shaped, Sized
  PROVE  Cardinality(meta[at] \cup Take) <= MaxSubs
<1>1. meta[at] \in SUBSET Slug /\ Cardinality(meta[at]) <= MaxSubs /\ MaxSubs \in Nat
  BY PolymarketAssumption DEF Shaped, Sized
<1>2. CASE Take = {}  BY <1>1, <1>2
<1>3. CASE Take # {}
  <2>1. pending # {} /\ ~(Room <= 0) /\ Take = Pieces(pending, Room)[1]
    BY <1>3 DEF Take
  <2>2. Cardinality(meta[at]) \in Nat  BY <1>1, OrderedOnce
  <2>3. Room \in Nat \ {0} /\ Room = MaxSubs - Cardinality(meta[at])
    BY <1>1, <2>1, <2>2 DEF Room
  <2>4. pending \in SUBSET Slug  BY PolymarketAssumption DEF Shaped
  <2>5. 1 \in 1..Len(Pieces(pending, Room)) /\ Take \in SUBSET Slug
    <3> DEFINE p == Pieces(pending, Room)
    <3>1. Len(p) \in Nat /\ p \in [1..Len(p) -> SUBSET pending] /\ Len(p) # 0
      BY <2>1, <2>3, <2>4, PiecesCut
    <3>2. 1 \in 1..Len(p) /\ Take = p[1]  BY <2>1, <3>1
    <3> HIDE DEF p
    <3>3. Take \in SUBSET pending  BY <3>1, <3>2
    <3>4. QED  BY <2>4, <3>2, <3>3 DEF p
  <2>6. Cardinality(Take) <= Room  BY <2>1, <2>3, <2>4, <2>5, PieceSized
  <2>7. IsFiniteSet(meta[at]) /\ IsFiniteSet(Take)
    BY <1>1, <2>5, FS_Subset, PolymarketAssumption
  <2>8. Cardinality(meta[at] \cup Take)
          = Cardinality(meta[at]) + Cardinality(Take) - Cardinality(meta[at] \cap Take)
    BY <2>7, FS_Union
  <2>9. Cardinality(meta[at] \cap Take) \in Nat /\ Cardinality(Take) \in Nat
    BY <2>7, FS_Intersection, FS_CardinalityType
  <2>10. QED  BY <1>1, <2>2, <2>3, <2>6, <2>8, <2>9
<1>4. QED  BY <1>2, <1>3

LEMMA PlaceTyped ==
  ASSUME TInv, PlaceAdds
  PROVE  ReadersTyped' /\ CallTyped' /\ Sized' /\ Counted'
<1> USE DEF TInv
<1>1. Shaped /\ at \in Shard /\ rpc = "add"  BY DEF EInv, Shaped, PlaceAdds
<1>2. Take \subseteq Slug /\ (Take # {} => at \in shards)
  BY <1>1, TakeWanted, PolymarketAssumption DEF Shaped
<1>3. /\ UNCHANGED <<shards, ws, errors, readerVars, before, ghosts, fut, applied, link, sub,
                     faults, resyncs>>
      /\ meta' = [meta EXCEPT ![at] = @ \cup Take]
      /\ recycled' = recycled \/ (Take # {} /\ recycled' = recycled \cup {at})
      /\ Advance("add", "overflow")
  BY DEF PlaceAdds
<1>4. SendSubscribe(Pieces(Take, SubBatch)) \/ UNCHANGED <<ridSeq, batches, cmds>>
  BY DEF PlaceAdds
<1>5. Cardinality(meta[at] \cup Take) <= MaxSubs  BY <1>1, TakeSized
<1> HIDE DEF Take
<1>6. Pieces(Take, SubBatch) \in Seq(SUBSET Slug)
  BY <1>2, PiecesTyped, PolymarketAssumption
<1>7. ReadersTyped'
  <2>1. CASE UNCHANGED <<ridSeq, batches, cmds>>
    BY <1>3, <2>1 DEF ReadersTyped, readerVars
  <2>2. CASE SendSubscribe(Pieces(Take, SubBatch))
    BY <1>1, <1>3, <1>6, <2>2, SendTyped DEF ReadersTyped, readerVars
  <2>3. QED  BY <1>4, <2>1, <2>2
<1>8. Sized'  BY <1>1, <1>3, <1>5 DEF Shaped, Sized
<1>9. Counted'  BY <1>3 DEF Counted
<1>10. CallTyped'
  <2>1. stale' = NotRead /\ rpc' \in {"add", "overflow"}  BY <1>3 DEF Advance
  <2>2. NotRead \subseteq Batch  BY DEF NotRead, NoBatch, Batch
  <2>3. QED  BY <1>2, <1>3, <2>1, <2>2 DEF CallTyped
<1>11. QED  BY <1>7, <1>8, <1>9, <1>10

LEMMA OverflowTyped ==
  ASSUME TInv, Overflow
  PROVE  ReadersTyped' /\ CallTyped' /\ Sized' /\ Counted'
<1> DEFINE n == Cardinality(shards) k == Len(Chunks)
<1> USE DEF TInv
<1>1. /\ rpc' = "grace" /\ n + k <= MaxShards /\ shards' = shards \cup n..(n + k - 1)
      /\ meta' = [s \in Shard |-> IF s \in shards' \ shards THEN Chunks[s - n + 1] ELSE meta[s]]
      /\ pc' = [s \in Shard |-> IF s \in shards' \ shards THEN "top" ELSE pc[s]]
      /\ before' = [s \in shards' \ recycled |-> errors[s]]
      /\ UNCHANGED <<batches, ws, errors, ridSeq, toSend, sent, recycled, ghosts, stale, fut,
                     applied, link, cmds, sub, faults, resyncs>>
  BY DEF Overflow, netVars
<1>2. ReadersTyped'  BY <1>1 DEF ReadersTyped
<1>3. Counted'  BY <1>1 DEF Counted
<1>4. CallTyped'
  <2>1. DOMAIN before' \subseteq shards' /\ shards \subseteq shards'  BY <1>1
  <2>2. QED  BY <1>1, <2>1 DEF CallTyped
<1>5. Sized'
  <2>1. Shaped  BY DEF EInv
  <2>2. n \in Nat
    <3>1. PICK m \in Nat : shards = 0..(m - 1)  BY <2>1 DEF Shaped
    <3>2. QED  BY <3>1, FS_Interval
  <2>3. k \in Nat  BY <2>1, ChunksExact
  <2>4. \A i \in 1..k : Cardinality(Chunks[i]) <= MaxSubs
    <3>1. CASE shards = {}  BY <2>1, <3>1, ChunksExact
    <3>2. CASE shards # {}
      <4>1. Chunks = Pieces(pending, MaxSubs)  BY <3>2 DEF Chunks
      <4>2. pending \in SUBSET Slug /\ MaxSubs \in Nat \ {0}
        BY <2>1, PolymarketAssumption DEF Shaped
      <4>3. QED  BY <4>1, <4>2, PieceSized
    <3>3. QED  BY <3>1, <3>2
  <2> HIDE DEF n, k
  <2>5. \A s \in shards' \ shards : s - n + 1 \in 1..k  BY <1>1, <2>2, <2>3
  <2>6. QED  BY <1>1, <2>4, <2>5 DEF Sized
<1>6. QED  BY <1>2, <1>3, <1>4, <1>5

LEMMA EndTyped ==
  ASSUME TInv, GraceOver \/ OrphansPruned \/ \E s \in Shard : Recycle(s)
  PROVE  ReadersTyped' /\ CallTyped' /\ Sized' /\ Counted'
<1> USE DEF TInv
<1>1. CASE GraceOver
  <2>1. ReadersTyped' /\ Sized' /\ Counted'
    BY <1>1 DEF GraceOver, ReadersTyped, Sized, Counted, shardVars, readerVars, netVars
  <2>2. DOMAIN before' = {}  BY <1>1 DEF GraceOver
  <2>3. recycled' \subseteq shards /\ rpc' \in {"idle", "recycle"}
        /\ applied' \in {"live", "recycled"} /\ UNCHANGED <<shards, ghosts, stale, fut>>
    BY <1>1 DEF GraceOver, CallTyped, shardVars
  <2>4. CallTyped'  BY <2>2, <2>3 DEF CallTyped
  <2>5. QED  BY <2>1, <2>4
<1>2. CASE OrphansPruned
  BY <1>2 DEF OrphansPruned, ReadersTyped, CallTyped, Sized, Counted, shardVars, readerVars,
     netVars
<1>3. CASE \E s \in Shard : Recycle(s)
  <2>1. PICK s \in Shard : Recycle(s)  BY <1>3
  <2>2. ReadersTyped' /\ Sized' /\ Counted'
    BY <2>1 DEF Recycle, LinkAfterRecycle, ReadersTyped, Sized, Counted, readerVars
  <2>3. CallTyped'  BY <2>1 DEF Recycle, CallTyped
  <2>4. QED  BY <2>2, <2>3
<1>4. QED  BY <1>1, <1>2, <1>3

LEMMA StreamTyped ==
  ASSUME TInv, Stream \/ (~Running /\ ConsumerRaises)
  PROVE  ReadersTyped' /\ CallTyped' /\ Sized' /\ Counted'
<1> USE DEF TInv
<1>1. MaxFault \in Nat  BY PolymarketAssumption
<1>2. CASE Torn /\ ~Running
  <2>1. ReadersTyped'  BY <1>2, NoShardsTyped DEF Torn, ReadersTyped
  <2>2. Sized'
    <3>1. Cardinality({}) <= MaxSubs  BY FS_EmptySet, PolymarketAssumption
    <3>2. QED  BY <1>2, <3>1 DEF Torn, Sized
  <2>3. resyncs' = resyncs /\ (faults' = faults \/ (faults < MaxFault /\ faults' = faults + 1))
    BY <1>2, <1>1 DEF Torn, Stream, StreamEnds, StreamStarts, ConsumerRaises
  <2>4. Counted'  BY <1>1, <2>3 DEF Counted
  <2>5. ghosts' \in BOOLEAN  BY <1>2 DEF Torn, LeavesGhosts, CallTyped
  <2>6. rpc' \in {"idle", "orphan", "grace"}  BY <1>2 DEF Torn, Running, CallTyped
  <2>7. DOMAIN before' = {} /\ recycled' = {} /\ stale' = NotRead /\ fut' = "none"
        /\ applied' = applied
    BY <1>2 DEF Torn
  <2>8. NotRead \subseteq Batch  BY DEF NotRead, NoBatch, Batch
  <2>9. CallTyped'  BY <2>5, <2>6, <2>7, <2>8 DEF CallTyped
  <2>10. QED  BY <2>1, <2>2, <2>4, <2>9
<1>3. CASE StreamStarts /\ ~Running
  <2>1. ReadersTyped' /\ Counted'
    BY <1>3 DEF StreamStarts, ReadersTyped, FirstPc, netVars, Counted
  <2>2. Sized'  BY <1>3, FirstSized DEF StreamStarts, EInv, Shaped, Sized
  <2>3. CallTyped'  BY <1>3 DEF StreamStarts, CallTyped, callVars
  <2>4. QED  BY <2>1, <2>2, <2>3
<1>4. QED  BY <1>2, <1>3 DEF Stream, StreamEnds, ConsumerRaises

LEMMA TInvNext == TInv /\ [Next]_vars => TInv'
<1> SUFFICES ASSUME TInv, [Next]_vars PROVE ReadersTyped' /\ CallTyped' /\ Sized' /\ Counted'
  BY EInvNext DEF TInv
<1>1. CASE UNCHANGED vars
  BY <1>1 DEF vars, TInv, ReadersTyped, CallTyped, Sized, Counted, shardVars, readerVars,
     callVars, netVars
<1>2. CASE \E s \in Shard : Reader(s) \/ Venue(s)  BY <1>2, ReaderTyped, VenueTyped
<1>3. CASE (\E s \in shards : ReaderEnds(s))
           \/ (\E s \in Shard, how \in {"closed", "stalled"} : LinkFails(s, how))
  BY <1>3, NetworkTyped
<1>4. CASE Refresher
  BY <1>4, PruneTyped, AckTyped, PlaceTyped, OverflowTyped, EndTyped DEF Refresher
<1>5. CASE Stream \/ (~Running /\ ConsumerRaises)  BY <1>5, StreamTyped
<1>6. CASE \E M \in MatchSet : Resync(M)  BY <1>6, ResyncTyped
<1>7. QED  BY <1>1, <1>2, <1>3, <1>4, <1>5, <1>6 DEF Next

\* Every variable keeps its type, whatever happens: no shard's list ever exceeds what a
\* connection may carry, only shards of the stream are recycled or watched, and a resync
\* prunes none that is gone.
THEOREM PolymarketTypeCorrect == Spec => []TypeOK
BY TInvInit, TInvNext, TInvImplies, PTL DEF Spec

-----------------------------------------------------------------------------
(* Coverage: the connections                                               *)

Frame == [kind : {"error", "unsubscribed"}, rid : Nat]

Open(s) == link[s] \in {"up", "stalled"}

\* A socket that is not closed is the one its reader subscribes on or reads; a reader that
\* does neither has nothing left to send; and a shard that is gone has left nothing.
Wired(s) ==
  /\ Open(s) => ws[s] /\ pc[s] \in {"subscribing", "recv"}
  /\ ws[s] => link[s] # "none" /\ pc[s] # "connecting"
  /\ pc[s] \notin {"subscribing", "ended"} => toSend[s] = <<>> /\ sent[s] = NoBatch
  /\ s \notin shards => pc[s] = "off" /\ sub[s] = {} /\ cmds[s] = <<>> /\ toSend[s] = <<>>

\* The shards given up on come before the one whose turn it is, which records the batches
\* still to prune, and does not connect again while it awaits an acknowledgement.
InTurn ==
  /\ rpc \in {"prune", "ack"} => \A r \in recycled : r < at
  /\ rpc = "ack" /\ pc[at] = "connecting" => fut # "pending"
  /\ rpc = "prune" /\ stale # NotRead => stale \subseteq batches[at]
  /\ rpc = "ack" => stale \ {First(stale)} \subseteq batches[at]

WInv == TInv /\ chan \in [Shard -> Seq(Frame)] /\ (\A s \in Shard : Wired(s)) /\ InTurn

LEMMA NothingWired ==
  ASSUME NEW s \in Shard
  PROVE  /\ NoShards.ws[s] = FALSE /\ NoShards.link[s] = "none" /\ NoShards.batches[s] = {}
         /\ NoShards.toSend[s] = <<>> /\ NoShards.sent[s] = NoBatch
         /\ NoShards.sub[s] = {} /\ NoShards.cmds[s] = <<>> /\ NoShards.chan[s] = <<>>
         /\ NoShards.chan \in [Shard -> Seq(Frame)]
         /\ NoShards.errors[s] = 0 /\ NoShards.ridSeq[s] = 0
BY DEF NoShards

LEMMA WInvInit == Init => WInv
<1> SUFFICES ASSUME Init PROVE WInv  OBVIOUS
<1>1. TInv  BY TInvInit
<1>2. chan \in [Shard -> Seq(Frame)]  BY DEF Init, NoShards
<1>3. ASSUME NEW s \in Shard PROVE Wired(s)
  <2>1. pc[s] = IF s \in shards THEN "top" ELSE "off"  BY DEF Init, FirstPc
  <2>2. QED  BY <2>1, NothingWired DEF Init, Wired, Open
<1>4. InTurn  BY DEF Init, InTurn
<1>5. QED  BY <1>1, <1>2, <1>3, <1>4 DEF WInv

LEMMA ReaderWired ==
  ASSUME WInv, NEW s \in Shard, Reader(s)
  PROVE  chan' \in [Shard -> Seq(Frame)] /\ (\A t \in Shard : Wired(t)') /\ InTurn'
<1> USE DEF WInv
<1>0. ReadersTyped /\ chan \in [Shard -> Seq(Frame)] /\ ~Running /\ Wired(s) /\ (rpc = "ack" => at \in Shard)
      /\ (pc[s] # "off" => s \in shards)
  BY DEF TInv, EInv, Shaped, Reader, Wired
<1>2. ASSUME NEW t \in Shard \ {s} PROVE Wired(t)' = Wired(t)
  <2> DEFINE wires == <<link[t], ws[t], pc[t], toSend[t], sent[t], sub[t], cmds[t], shards>>
  <2>1. LoopHead(s) => wires' = wires
    BY <1>0 DEF LoopHead, ReadersTyped, netVars
  <2>2. Connected(s) => wires' = wires
    BY <1>0 DEF Connected, ReadersTyped
  <2>3. SubscribeNext(s) => wires' = wires
    BY <1>0 DEF SubscribeNext, ReadersTyped
  <2>4. ReaderRaises(s) => wires' = wires
    BY <1>0 DEF ReaderRaises, ReadersTyped, netVars
  <2>5. BackoffOver(s) => wires' = wires
    BY <1>0 DEF BackoffOver, ReadersTyped, shardVars, netVars
  <2>6. IdleTimeout(s) => wires' = wires
    BY <1>0 DEF IdleTimeout, ReadersTyped, shardVars
  <2>7. OnControl(s) => wires' = wires
    BY <1>0 DEF OnControl, ReadersTyped, readerVars
  <2>8. wires' = wires
    BY <2>1, <2>2, <2>3, <2>4, <2>5, <2>6, <2>7 DEF Reader
  <2>9. QED  BY <2>8 DEF Wired, Open
<1>3. CASE LoopHead(s)
  <2>1. Wired(s)'  BY <1>0, <1>3 DEF LoopHead, ReadersTyped, netVars, Wired, Open
  <2>2. InTurn'  BY <1>0, <1>3 DEF LoopHead, ReadersTyped, CallUnchanged, FailPendingAcks, InTurn, First, Running
  <2>3. QED  BY <1>0, <1>2, <1>3, <2>1, <2>2 DEF LoopHead, netVars
<1>4. CASE Connected(s)
  <2>1. Wired(s)'  BY <1>0, <1>4 DEF Connected, ReadersTyped, Wired, Open
  <2>2. ~(rpc = "ack" /\ at = s)  BY <1>0, <1>4 DEF Connected, ReaderMayWait, InTurn
  <2>3. InTurn'  BY <1>0, <1>4, <2>2 DEF Connected, ReadersTyped, callVars, InTurn, First, Running
  <2>4. chan' \in [Shard -> Seq(Frame)]
    <3>1. <<>> \in Seq(Frame)  OBVIOUS
    <3>2. QED  BY <1>0, <1>4, <3>1 DEF Connected
  <2>5. QED  BY <1>2, <2>1, <2>3, <2>4
<1>5. CASE SubscribeNext(s)
  <2>1. Wired(s)'
    <3>1. CASE toSend[s] = <<>>
      BY <1>0, <1>5, <3>1 DEF SubscribeNext, ReadersTyped, Wired, Open
    <3>2. CASE toSend[s] # <<>>
      BY <1>0, <1>5, <3>2 DEF SubscribeNext, ReadersTyped, Wired, Open
    <3>3. QED  BY <3>1, <3>2
  <2>2. batches' = [batches EXCEPT ![s] = @ \cup ({sent[s]} \ NotRead)] /\ pc' \in {pc, [pc EXCEPT ![s] = "recv"]}
    BY <1>5 DEF SubscribeNext
  <2>3. UNCHANGED <<rpc, recycled, at, stale, fut, chan>>  BY <1>5 DEF SubscribeNext, callVars
  <2>4. InTurn'
    <3>1. \A t \in Shard : batches[t] \subseteq batches'[t]  BY <1>0, <2>2 DEF ReadersTyped
    <3>2. \A t \in Shard : pc'[t] = "connecting" => pc[t] = "connecting"
      BY <1>0, <2>2 DEF ReadersTyped
    <3>3. rpc # "prune" /\ rpc' # "prune"  BY <1>0, <2>3 DEF Running
    <3>4. First(stale)' = First(stale)  BY <2>3 DEF First
    <3>5. QED  BY <1>0, <2>3, <3>1, <3>2, <3>3, <3>4 DEF InTurn
  <2>5. QED  BY <1>0, <1>2, <2>1, <2>3, <2>4
<1>6. CASE ReaderRaises(s)
  <2>1. Wired(s)'  BY <1>0, <1>6 DEF ReaderRaises, ReadersTyped, netVars, Wired, Open
  <2>2. InTurn'  BY <1>0, <1>6 DEF ReaderRaises, ReadersTyped, callVars, InTurn, First
  <2>3. QED  BY <1>0, <1>2, <1>6, <2>1, <2>2 DEF ReaderRaises, netVars
<1>7. CASE BackoffOver(s)
  <2>1. Wired(s)'  BY <1>0, <1>7 DEF BackoffOver, ReadersTyped, shardVars, netVars, Wired, Open
  <2>2. InTurn'  BY <1>0, <1>7 DEF BackoffOver, ReadersTyped, shardVars, callVars, InTurn, First
  <2>3. QED  BY <1>0, <1>2, <1>7, <2>1, <2>2 DEF BackoffOver, netVars
<1>8. CASE IdleTimeout(s)
  <2>1. Wired(s)'  BY <1>0, <1>8 DEF IdleTimeout, ReadersTyped, shardVars, Wired, Open
  <2>2. InTurn'  BY <1>0, <1>8 DEF IdleTimeout, ReadersTyped, shardVars, callVars, InTurn, First
  <2>3. QED  BY <1>0, <1>2, <1>8, <2>1, <2>2 DEF IdleTimeout
<1>9. CASE OnControl(s)
  <2>1. Wired(s)'  BY <1>0, <1>9 DEF OnControl, ReadersTyped, readerVars, Wired, Open
  <2>2. pc' = pc /\ batches' = batches /\ UNCHANGED <<rpc, recycled, at, stale>> /\ (fut' = fut \/ fut' = "done")
    BY <1>9 DEF OnControl, CallUnchanged, readerVars
  <2>3. InTurn'  BY <2>2 DEF InTurn, First
  <2>4. chan' \in [Shard -> Seq(Frame)]
    <3>1. chan[s] \in Seq(Frame) /\ chan[s] # <<>>  BY <1>0, <1>9 DEF OnControl
    <3>2. Tail(chan[s]) \in Seq(Frame)  BY <3>1
    <3>3. QED  BY <1>0, <1>9, <3>2 DEF OnControl
  <2>5. QED  BY <1>2, <2>1, <2>3, <2>4
<1>10. QED  BY <1>3, <1>4, <1>5, <1>6, <1>7, <1>8, <1>9 DEF Reader

LEMMA VenueWired ==
  ASSUME WInv, NEW s \in Shard, Venue(s)
  PROVE  chan' \in [Shard -> Seq(Frame)] /\ (\A t \in Shard : Wired(t)') /\ InTurn'
<1> USE DEF WInv
<1>1. PICK yes \in BOOLEAN : VenueSubscribe(s, yes) \/ VenueUnsubscribe(s, yes)
  BY DEF Venue
<1>2. /\ ReadersTyped /\ chan \in [Shard -> Seq(Frame)] /\ Wired(s)
      /\ cmds[s] \in Seq(Command) /\ cmds[s] # <<>> /\ link[s] = "up"
  BY <1>1 DEF TInv, ReadersTyped, VenueSubscribe, VenueUnsubscribe
<1>3. /\ UNCHANGED <<shards, batches, ws, pc, toSend, sent, rpc, recycled, at, stale, fut, link>>
      /\ cmds' = [cmds EXCEPT ![s] = Tail(@)]
      /\ \A t \in Shard : t # s => sub'[t] = sub[t]
  BY <1>1, <1>2 DEF VenueSubscribe, VenueUnsubscribe, shardVars, readerVars, callVars, ReadersTyped
<1>4. \A t \in Shard : t # s => cmds'[t] = cmds[t]  BY <1>2, <1>3 DEF ReadersTyped
<1>5. s \in shards  BY <1>2 DEF Wired, Open
<1>6. \A t \in Shard : Wired(t)'  BY <1>3, <1>4, <1>5 DEF Wired, Open
<1>7. InTurn'  BY <1>3 DEF InTurn, First
<1>8. chan' \in [Shard -> Seq(Frame)]
  <2>1. Head(cmds[s]) \in Command  BY <1>2
  <2>2. Head(cmds[s]).batch.rid \in Nat  BY <2>1 DEF Command, Batch
  <2> DEFINE r == Head(cmds[s]).batch.rid
             e == [kind |-> "error", rid |-> r]
             u == [kind |-> "unsubscribed", rid |-> r]
  <2>3. e \in Frame /\ u \in Frame  BY <2>2 DEF Frame
  <2>4. \/ chan' = chan \/ chan' = [chan EXCEPT ![s] = Append(@, e)]
        \/ chan' = [chan EXCEPT ![s] = Append(@, u)]
    BY <1>1 DEF VenueSubscribe, VenueUnsubscribe
  <2> HIDE DEF e, u
  <2>5. chan[s] \in Seq(Frame)  BY <1>2
  <2>6. Append(chan[s], e) \in Seq(Frame) /\ Append(chan[s], u) \in Seq(Frame)  BY <2>3, <2>5
  <2>7. QED  BY <1>2, <2>4, <2>6
<1>9. QED  BY <1>6, <1>7, <1>8

LEMMA NetworkWired ==
  ASSUME WInv, \/ \E s \in shards : ReaderEnds(s)
               \/ \E s \in Shard, how \in {"closed", "stalled"} : LinkFails(s, how)
  PROVE  chan' \in [Shard -> Seq(Frame)] /\ (\A t \in Shard : Wired(t)') /\ InTurn'
<1> USE DEF WInv
<1>1. ReadersTyped /\ shards \subseteq Shard /\ at \in Shard  BY DEF TInv, EInv, Shaped
<1>2. ASSUME NEW s \in shards, ReaderEnds(s)
      PROVE  chan' \in [Shard -> Seq(Frame)] /\ (\A t \in Shard : Wired(t)') /\ InTurn'
  <2>1. \A t \in Shard : Wired(t)'
    BY <1>1, <1>2 DEF ReaderEnds, ReadersTyped, shardVars, Wired, Open
  <2>2. InTurn'  BY <1>1, <1>2 DEF ReaderEnds, ReadersTyped, shardVars, callVars, InTurn, First
  <2>3. QED  BY <1>2, <2>1, <2>2 DEF ReaderEnds
<1>3. ASSUME NEW s \in Shard, NEW how \in {"closed", "stalled"}, LinkFails(s, how)
      PROVE  chan' \in [Shard -> Seq(Frame)] /\ (\A t \in Shard : Wired(t)') /\ InTurn'
  <2>1. \A t \in Shard : Wired(t)'
    BY <1>1, <1>3 DEF LinkFails, ReadersTyped, shardVars, readerVars, Wired, Open
  <2>2. InTurn'  BY <1>3 DEF LinkFails, shardVars, readerVars, callVars, InTurn, First
  <2>3. QED  BY <1>3, <2>1, <2>2 DEF LinkFails
<1>4. QED  BY <1>2, <1>3

\* When the turn passes, the shards given up on are those before it and the one it left.
LEMMA TurnInTurn ==
  ASSUME WInv, rpc \in {"prune", "ack"}, Advance("prune", "add"),
         recycled' \subseteq recycled \cup {at}
  PROVE  InTurn'
<1>1. Shaped /\ at \in Nat /\ recycled \subseteq Nat
  BY DEF WInv, TInv, EInv, CallTyped, Shaped, Shard
<1>2. /\ stale' = NotRead /\ rpc' \in {"prune", "add"}
      /\ rpc' = "prune" => at' = at + 1
  BY DEF Advance
<1>3. \A r \in recycled : r < at  BY DEF WInv, InTurn
<1>4. \A r \in recycled' : r < at + 1
  <2> SUFFICES ASSUME NEW r \in recycled' PROVE r < at + 1  OBVIOUS
  <2>1. r \in recycled \/ r = at  OBVIOUS
  <2>2. QED  BY <1>1, <1>3, <2>1
<1>5. rpc' \notin {"ack"}  BY <1>2
<1>6. QED  BY <1>2, <1>4, <1>5 DEF InTurn

LEMMA PruneWired ==
  ASSUME WInv, PruneNext
  PROVE  chan' = chan /\ (\A t \in Shard : Wired(t)') /\ InTurn'
<1> DEFINE todo == IF stale = NotRead THEN Stale ELSE stale
           now  == IF todo = {} THEN {} ELSE IF ws[at] THEN {First(todo)} ELSE todo
           c    == [op |-> "unsubscribe", batch |-> First(todo)]
<1> USE DEF WInv
<1>1. /\ rpc = "prune" /\ at \in Shard /\ at \in shards /\ ReadersTyped /\ Wired(at)
  BY DEF PruneNext, TInv, CallTyped, EInv, Shaped
<1>2. /\ batches' = [batches EXCEPT ![at] = @ \ now]
      /\ UNCHANGED <<shards, ws, pc, toSend, sent, link, chan, sub>>
  BY DEF PruneNext, readerVars
<1>3. \/ /\ Advance("prune", "add")
         /\ recycled' \subseteq recycled \cup {at}
         /\ cmds' = cmds
      \/ /\ ws[at] /\ todo # {} /\ rpc' = "ack" /\ stale' = todo
         /\ cmds' = [cmds EXCEPT ![at] = Append(@, c)] /\ UNCHANGED <<recycled, at>>
  BY DEF PruneNext, GiveUpOn, Sendable
<1>4. todo \subseteq batches[at]  BY <1>1 DEF InTurn, Stale, StaleOn
<1> HIDE DEF todo, c
<1>5. \A t \in Shard : t # at => cmds'[t] = cmds[t]  BY <1>1, <1>3 DEF ReadersTyped
<1>6. \A t \in Shard : Wired(t)'  BY <1>1, <1>2, <1>5 DEF Wired, Open
<1>7. InTurn'
  <2>1. CASE Advance("prune", "add") /\ recycled' \subseteq recycled \cup {at}
    BY <1>1, <2>1, TurnInTurn
  <2>2. CASE ws[at] /\ todo # {} /\ rpc' = "ack" /\ stale' = todo /\ UNCHANGED <<recycled, at>>
    <3>1. First(stale)' = First(todo)  BY <2>2 DEF First
    <3>2. now = {First(todo)}  BY <2>2
    <3>3. batches'[at] = batches[at] \ {First(todo)}  BY <1>1, <1>2, <3>2 DEF ReadersTyped
    <3>4. pc'[at] # "connecting"  BY <1>1, <1>2, <2>2 DEF Wired
    <3>5. QED  BY <1>1, <1>4, <2>2, <3>1, <3>3, <3>4 DEF InTurn
  <2>3. QED  BY <1>3, <2>1, <2>2
<1>8. QED  BY <1>2, <1>6, <1>7

\* A batch of subscribes is written on the connection of the shard whose turn it is.
LEMMA SentWired ==
  ASSUME WInv, at \in shards, NEW pieces, SendSubscribe(pieces) \/ UNCHANGED <<ridSeq, batches, cmds>>
  PROVE  /\ \A t \in Shard : t # at => cmds'[t] = cmds[t] /\ batches'[t] = batches[t]
         /\ batches[at] \subseteq batches'[at]
BY DEF SendSubscribe, WInv, TInv, EInv, Shaped, ReadersTyped

LEMMA AckWired ==
  ASSUME WInv, Acknowledged \/ AckTimeout
  PROVE  chan' = chan /\ (\A t \in Shard : Wired(t)') /\ InTurn'
<1> USE DEF WInv
<1>1. /\ rpc = "ack" /\ at \in shards /\ at \in Shard /\ fut' = "none"
      /\ UNCHANGED <<shards, ws, pc, toSend, sent, link, chan, sub>>
  BY DEF Acknowledged, AckTimeout, TInv, CallTyped, EInv, Shaped, shardVars, readerVars, netVars
<1>2. \/ rpc' = "prune" /\ stale' = stale \ {First(stale)} /\ UNCHANGED <<at, recycled>>
      \/ rpc' = "idle"
      \/ Advance("prune", "add") /\ recycled' = recycled \cup {at}
  BY DEF Acknowledged, AckTimeout, GiveUpOn
<1>3. SendSubscribe(<<Survivors>>) \/ UNCHANGED <<ridSeq, batches, cmds>>
  BY DEF Acknowledged, AckTimeout, shardVars, netVars
<1>4. /\ \A t \in Shard : t # at => cmds'[t] = cmds[t] /\ batches'[t] = batches[t]
      /\ batches[at] \subseteq batches'[at]
  BY <1>1, <1>3, SentWired
<1>5. \A t \in Shard : Wired(t)'
  BY <1>1, <1>4 DEF Wired, Open
<1>6. InTurn'
  <2>1. CASE rpc' = "prune" /\ stale' = stale \ {First(stale)} /\ UNCHANGED <<at, recycled>>
    <3>1. stale' \subseteq batches'[at]  BY <1>1, <1>4, <2>1 DEF InTurn
    <3>2. QED  BY <1>1, <2>1, <3>1 DEF InTurn
  <2>2. CASE rpc' = "idle"  BY <2>2 DEF InTurn
  <2>3. CASE Advance("prune", "add") /\ recycled' = recycled \cup {at}
    BY <1>1, <2>3, TurnInTurn
  <2>4. QED  BY <1>2, <2>1, <2>2, <2>3
<1>7. QED  BY <1>1, <1>5, <1>6

LEMMA PlaceWired ==
  ASSUME WInv, PlaceAdds
  PROVE  chan' = chan /\ (\A t \in Shard : Wired(t)') /\ InTurn'
<1> USE DEF WInv
<1>1. /\ rpc = "add" /\ at \in Shard /\ rpc' \in {"add", "overflow"}
      /\ UNCHANGED <<shards, ws, pc, toSend, sent, link, chan, sub>>
  BY DEF PlaceAdds, Advance, TInv, EInv, Shaped, readerVars
<1>2. Take # {} => at \in shards  BY TakeWanted DEF TInv, EInv
<1>3. IF Take # {} /\ Sendable THEN SendSubscribe(Pieces(Take, SubBatch))
      ELSE UNCHANGED <<ridSeq, batches, cmds>>
  BY DEF PlaceAdds
<1>4. \A t \in Shard : t # at => cmds'[t] = cmds[t]
  BY <1>1, <1>3 DEF SendSubscribe, TInv, ReadersTyped
<1>5. at \notin shards => cmds' = cmds  BY <1>2, <1>3
<1>6. \A t \in Shard : Wired(t)'  BY <1>1, <1>4, <1>5 DEF Wired, Open
<1>7. InTurn'  BY <1>1 DEF InTurn
<1>8. QED  BY <1>1, <1>6, <1>7

LEMMA RefresherWired ==
  ASSUME WInv, NEW M \in MatchSet, NEW s \in Shard,
         Resync(M) \/ OrphansPruned \/ Overflow \/ GraceOver \/ Recycle(s)
  PROVE  chan' = chan /\ (\A t \in Shard : Wired(t)') /\ InTurn'
<1> USE DEF WInv
<1>1. ReadersTyped  BY DEF TInv
<1>2. CASE Resync(M)
  <2>1. \A t \in Shard : Wired(t)'
    BY <1>2 DEF Resync, shardVars, readerVars, netVars, Wired, Open
  <2>2. InTurn'  BY <1>2 DEF Resync, InTurn
  <2>3. QED  BY <1>2, <2>1, <2>2 DEF Resync, netVars
<1>3. CASE OrphansPruned
  BY <1>3 DEF OrphansPruned, shardVars, readerVars, netVars, Wired, Open, InTurn
<1>4. CASE Overflow
  <2>1. /\ shards \subseteq shards' /\ rpc' = "grace"
        /\ pc' = [t \in Shard |-> IF t \in shards' \ shards THEN "top" ELSE pc[t]]
        /\ UNCHANGED <<ws, toSend, sent, link, cmds, chan, sub>>
    BY <1>4 DEF Overflow, netVars
  <2>2. \A t \in Shard : Wired(t)'  BY <2>1 DEF Wired, Open
  <2>3. InTurn'  BY <2>1 DEF InTurn
  <2>4. QED  BY <2>1, <2>2, <2>3
<1>5. CASE GraceOver
  <2>1. rpc' \in {"idle", "recycle"}  BY <1>5 DEF GraceOver
  <2>2. \A t \in Shard : Wired(t)'
    BY <1>5 DEF GraceOver, shardVars, readerVars, netVars, Wired, Open
  <2>3. InTurn'  BY <2>1 DEF InTurn
  <2>4. QED  BY <1>5, <2>2, <2>3 DEF GraceOver, netVars
<1>6. CASE Recycle(s)
  <2>1. rpc' \in {"idle", "recycle"}  BY <1>6 DEF Recycle
  <2>2. \A t \in Shard : Wired(t)'
    BY <1>1, <1>6 DEF Recycle, LinkAfterRecycle, ReadersTyped, readerVars, Wired, Open
  <2>3. InTurn'  BY <2>1 DEF InTurn
  <2>4. QED  BY <1>6, <2>2, <2>3 DEF Recycle
<1>7. QED  BY <1>2, <1>3, <1>4, <1>5, <1>6

LEMMA StreamWired ==
  ASSUME WInv, ~Running, Torn \/ StreamStarts
  PROVE  chan' \in [Shard -> Seq(Frame)] /\ (\A t \in Shard : Wired(t)') /\ InTurn'
<1> USE DEF WInv
<1>1. CASE Torn
  <2>1. \A t \in Shard : Wired(t)'  BY <1>1, NothingWired DEF Torn, Wired, Open
  <2>2. chan' \in [Shard -> Seq(Frame)]
    <3>1. 0 \in Shard  BY PolymarketAssumption DEF Shard
    <3>2. QED  BY <1>1, <3>1, NothingWired DEF Torn
  <2>3. rpc' \notin {"prune", "ack"}  BY <1>1 DEF Torn, Running
  <2>4. InTurn'  BY <2>3 DEF InTurn
  <2>5. QED  BY <2>1, <2>2, <2>4
<1>2. CASE StreamStarts
  <2>1. \A t \in Shard : pc[t] = "off" /\ pc'[t] \in {"top", "off"}
                          /\ (t \notin shards' => pc'[t] = "off")
    BY <1>2 DEF StreamStarts, FirstPc, Wired
  <2>2. \A t \in Shard : Wired(t)'
    BY <1>2, <2>1 DEF StreamStarts, netVars, Wired, Open
  <2>3. rpc \notin {"prune", "ack"} /\ rpc' = rpc
    BY <1>2 DEF StreamStarts, callVars, Running, TInv, CallTyped
  <2>4. InTurn'  BY <2>3 DEF InTurn
  <2>5. QED  BY <1>2, <2>2, <2>4 DEF StreamStarts, netVars
<1>3. QED  BY <1>1, <1>2

LEMMA WInvNext == WInv /\ [Next]_vars => WInv'
<1> SUFFICES ASSUME WInv, [Next]_vars
             PROVE  chan' \in [Shard -> Seq(Frame)] /\ (\A t \in Shard : Wired(t)') /\ InTurn'
  BY TInvNext DEF WInv
<1>1. chan \in [Shard -> Seq(Frame)]  BY DEF WInv
<1>2. CASE UNCHANGED vars
  <2>1. \A t \in Shard : Wired(t)'
    BY <1>2 DEF vars, WInv, Wired, Open, shardVars, readerVars, netVars
  <2>2. InTurn'
    BY <1>2 DEF vars, WInv, InTurn, First, shardVars, readerVars, callVars
  <2>3. QED  BY <1>1, <1>2, <2>1, <2>2 DEF vars, netVars
<1>3. CASE \E s \in Shard : Reader(s) \/ Venue(s)  BY <1>3, ReaderWired, VenueWired
<1>4. CASE (\E s \in shards : ReaderEnds(s))
           \/ (\E s \in Shard, how \in {"closed", "stalled"} : LinkFails(s, how))
  BY <1>4, NetworkWired
<1>5. desired \in MatchSet /\ at \in Shard  BY DEF WInv, TInv, EInv, Shaped
<1>6. CASE Refresher
  BY <1>1, <1>5, <1>6, PruneWired, AckWired, PlaceWired, RefresherWired DEF Refresher
<1>7. CASE \E M \in MatchSet : Resync(M)  BY <1>1, <1>5, <1>7, RefresherWired
<1>8. CASE Stream \/ (~Running /\ ConsumerRaises)
  BY <1>8, StreamWired DEF Stream, StreamEnds, ConsumerRaises
<1>9. QED  BY <1>2, <1>3, <1>4, <1>6, <1>7, <1>8 DEF Next

-----------------------------------------------------------------------------
(* Coverage: the request ids                                               *)

LEMMA CommandsAre ==
  ASSUME NEW q \in Seq(Command)
  PROVE  /\ DOMAIN q = 1..Len(q) /\ Len(q) \in Nat
         /\ \A i \in 1..Len(q) : q[i].batch \in Batch /\ q[i].batch.rid \in Nat
<1>1. \A i \in 1..Len(q) : q[i] \in Command  OBVIOUS
<1>2. QED  BY <1>1 DEF Command, Batch

LEMMA FramesAre ==
  ASSUME NEW q \in Seq(Frame)
  PROVE  Len(q) \in Nat /\ \A i \in 1..Len(q) : q[i].rid \in Nat
<1>1. \A i \in 1..Len(q) : q[i] \in Frame  OBVIOUS
<1>2. QED  BY <1>1 DEF Frame

LEMMA Joined ==
  ASSUME NEW S, NEW q \in Seq(S), NEW r \in Seq(S)
  PROVE  /\ q \o r \in Seq(S) /\ Len(q \o r) = Len(q) + Len(r)
         /\ \A i \in 1..Len(q) : (q \o r)[i] = q[i]
         /\ \A i \in 1..Len(r) : (q \o r)[Len(q) + i] = r[i]
         /\ Len(q) \in Nat /\ Len(r) \in Nat
OBVIOUS

\* Subscribes of some batches are put at the end of a queue of commands.
Adds(q, bs, p) ==
  /\ q \in Seq(Command) /\ bs \in Seq(Batch) /\ p \in Seq(Command)
  /\ Len(p) = Len(q) + Len(bs)
  /\ \A i \in 1..Len(q) : p[i] = q[i]
  /\ \A i \in 1..Len(bs) : p[Len(q) + i].op = "subscribe" /\ p[Len(q) + i].batch = bs[i]

LEMMA SubscribingMore ==
  ASSUME NEW q, NEW bs, NEW p, Adds(q, bs, p)
  PROVE  Subscribing(p) = Subscribing(q) \cup ToSet(bs)
<1>0. /\ q \in Seq(Command) /\ bs \in Seq(Batch) /\ p \in Seq(Command)
      /\ Len(p) = Len(q) + Len(bs)
      /\ \A i \in 1..Len(q) : p[i] = q[i]
      /\ \A i \in 1..Len(bs) : p[Len(q) + i].op = "subscribe" /\ p[Len(q) + i].batch = bs[i]
  BY DEF Adds
<1>1. Len(q) \in Nat /\ Len(bs) \in Nat  BY <1>0
<1>2. DOMAIN p = 1..(Len(q) + Len(bs)) /\ DOMAIN q = 1..Len(q) /\ DOMAIN bs = 1..Len(bs)  BY <1>0, <1>1
<1>3. Subscribing(p) \subseteq Subscribing(q) \cup ToSet(bs)
  <2>1. ASSUME NEW k \in 1..(Len(q) + Len(bs)), p[k].op = "subscribe"
        PROVE  p[k].batch \in Subscribing(q) \cup ToSet(bs)
    <3>1. CASE k \in 1..Len(q)  BY <1>0, <1>1, <1>2, <2>1, <3>1 DEF Subscribing, ToSet
    <3>2. CASE k \notin 1..Len(q)
      <4>1. k - Len(q) \in 1..Len(bs) /\ k = Len(q) + (k - Len(q))  BY <1>0, <1>1, <3>2
      <4>2. p[k].batch = bs[k - Len(q)]  BY <1>0, <1>1, <4>1
      <4>3. QED  BY <1>2, <4>1, <4>2 DEF ToSet
    <3>3. QED  BY <3>1, <3>2
  <2>2. QED  BY ONLY <1>2, <2>1 DEF Subscribing, ToSet
<1>4. ASSUME NEW k \in 1..Len(q), q[k].op = "subscribe"
      PROVE  q[k].batch \in Subscribing(p)
  <2>1. k \in DOMAIN p /\ p[k] = q[k]  BY <1>0, <1>1, <1>2
  <2>2. QED  BY ONLY <2>1, <1>4 DEF Subscribing, ToSet
<1>5. Subscribing(q) \subseteq Subscribing(p)  BY ONLY <1>2, <1>4 DEF Subscribing, ToSet
<1>6. ASSUME NEW i \in 1..Len(bs) PROVE bs[i] \in Subscribing(p)
  <2>1. Len(q) + i \in DOMAIN p /\ p[Len(q) + i].batch = bs[i] /\ p[Len(q) + i].op = "subscribe"
    BY <1>0, <1>1, <1>2
  <2>2. QED  BY ONLY <2>1 DEF Subscribing, ToSet
<1>7. ToSet(bs) \subseteq Subscribing(p)  BY <1>2, <1>6 DEF ToSet
<1>8. QED  BY <1>3, <1>5, <1>7

\* The commands SendSubscribe writes.
LEMMA CommandsAdded ==
  ASSUME NEW q \in Seq(Command), NEW bs \in Seq(Batch)
  PROVE  Adds(q, bs, q \o [i \in 1..Len(bs) |-> [op |-> "subscribe", batch |-> bs[i]]])
<1> DEFINE cs == [i \in 1..Len(bs) |-> [op |-> "subscribe", batch |-> bs[i]]]
           p == q \o cs
<1>1. /\ cs \in Seq(Command) /\ Len(cs) = Len(bs)
      /\ \A i \in 1..Len(bs) : cs[i].op = "subscribe" /\ cs[i].batch = bs[i]
  BY DEF Command
<1>4. p = q \o cs /\ q \in Seq(Command)  OBVIOUS
<1> HIDE DEF cs, p
<1>2. /\ p \in Seq(Command) /\ Len(p) = Len(q) + Len(bs)
      /\ \A i \in 1..Len(q) : p[i] = q[i]
      /\ \A i \in 1..Len(bs) : p[Len(q) + i] = cs[i]
  BY ONLY <1>1, <1>4, Joined
<1>3. Adds(q, bs, p)  BY ONLY <1>1, <1>2, q \in Seq(Command), bs \in Seq(Batch) DEF Adds
<1>5. QED  BY <1>3 DEF p, cs

LEMMA CommandAdded ==
  ASSUME NEW q \in Seq(Command), NEW b \in Batch
  PROVE  Adds(q, <<b>>, Append(q, [op |-> "subscribe", batch |-> b]))
<1> DEFINE c == [op |-> "subscribe", batch |-> b]
           p == Append(q, c)
<1>1. c \in Command /\ c.op = "subscribe" /\ c.batch = b  BY DEF Command
<1> HIDE DEF c
<1>2. /\ p \in Seq(Command) /\ Len(p) = Len(q) + 1
      /\ \A i \in 1..Len(q) : p[i] = q[i]
      /\ p[Len(q) + 1] = c
  BY <1>1
<1>3. <<b>> \in Seq(Batch) /\ Len(<<b>>) = 1 /\ <<b>>[1] = b  OBVIOUS
<1>4. \A i \in 1..1 : i = 1  OBVIOUS
<1> HIDE DEF p
<1> DEFINE u == <<b>>
<1>5. u \in Seq(Batch) /\ Len(u) = 1 /\ u[1] = b  BY <1>3
<1> HIDE DEF u
<1>6. Adds(q, u, p)  BY ONLY <1>1, <1>2, <1>4, <1>5, q \in Seq(Command) DEF Adds
<1>7. QED  BY <1>6 DEF p, c, u

LEMMA SubscribingStop ==
  ASSUME NEW q \in Seq(Command), NEW b \in Batch
  PROVE  Subscribing(Append(q, [op |-> "unsubscribe", batch |-> b])) = Subscribing(q)
<1> DEFINE c == [op |-> "unsubscribe", batch |-> b]  p == Append(q, c)
<1>1. c.op # "subscribe" /\ c \in Command  BY DEF Command
<1> HIDE DEF c
<1>2. /\ Len(q) \in Nat /\ DOMAIN p = 1..(Len(q) + 1) /\ DOMAIN q = 1..Len(q)
      /\ \A i \in 1..Len(q) : p[i] = q[i]
      /\ p[Len(q) + 1] = c
  BY <1>1
<1> HIDE DEF p
<1>3. ToSet(p) = ToSet(q) \cup {c}
  <2>1. \A i \in 1..(Len(q) + 1) : i \in 1..Len(q) \/ i = Len(q) + 1  BY <1>2
  <2>2. ToSet(p) \subseteq ToSet(q) \cup {c}  BY <1>2, <2>1 DEF ToSet
  <2>3. \A i \in 1..Len(q) : i \in 1..(Len(q) + 1)  BY <1>2
  <2>4. Len(q) + 1 \in 1..(Len(q) + 1)  BY <1>2
  <2>5. ToSet(q) \cup {c} \subseteq ToSet(p)  BY <1>2, <2>3, <2>4 DEF ToSet
  <2>6. QED  BY <2>2, <2>5
<1>4. QED  BY <1>1, <1>3 DEF Subscribing, p, c

LEMMA SubscribingTail ==
  ASSUME NEW q \in Seq(Command), q # <<>>
  PROVE  /\ Head(q) = q[1] /\ Tail(q) \in Seq(Command) /\ Len(Tail(q)) = Len(q) - 1
         /\ \A i \in 1..Len(Tail(q)) : Tail(q)[i] = q[i + 1] /\ i + 1 \in 1..Len(q)
         /\ 1 \in 1..Len(q)
         /\ Head(q).op = "subscribe" => Subscribing(q) = {Head(q).batch} \cup Subscribing(Tail(q))
         /\ Head(q).op # "subscribe" => Subscribing(q) = Subscribing(Tail(q))
<1> DEFINE r == Tail(q)
<1>1. /\ Head(q) = q[1] /\ r \in Seq(Command) /\ Len(r) = Len(q) - 1 /\ Len(q) \in Nat /\ Len(q) > 0
      /\ \A i \in 1..Len(r) : r[i] = q[i + 1]
  OBVIOUS
<1> HIDE DEF r
<1>2. DOMAIN q = 1..Len(q) /\ DOMAIN r = 1..Len(r)  BY <1>1
<1>3. ToSet(q) = {q[1]} \cup ToSet(r)
  <2>1. ASSUME NEW i \in 1..Len(q) PROVE q[i] \in {q[1]} \cup ToSet(r)
    <3>1. i = 1 \/ (i - 1 \in 1..Len(r) /\ i = (i - 1) + 1)  BY <1>1
    <3>2. QED  BY <1>1, <1>2, <3>1 DEF ToSet
  <2>2. ASSUME NEW i \in 1..Len(r) PROVE r[i] \in ToSet(q)
    <3>1. i + 1 \in 1..Len(q) /\ r[i] = q[i + 1]  BY <1>1
    <3>2. QED  BY <1>2, <3>1 DEF ToSet
  <2>3. q[1] \in ToSet(q)  BY <1>1, <1>2 DEF ToSet
  <2>4. QED  BY <1>2, <2>1, <2>2, <2>3 DEF ToSet
<1>4. Subscribing(q) = {c.batch : c \in {d \in {q[1]} \cup ToSet(r) : d.op = "subscribe"}}
  BY <1>3 DEF Subscribing
<1>5. \A i \in 1..Len(r) : i + 1 \in 1..Len(q)  BY <1>1
<1>6. q[1].op = "subscribe" => Subscribing(q) = {q[1].batch} \cup Subscribing(r)
  BY <1>4 DEF Subscribing
<1>7. q[1].op # "subscribe" => Subscribing(q) = Subscribing(r)  BY <1>4 DEF Subscribing
<1>8. 1 \in 1..Len(q)  BY <1>1
<1>9. QED  BY <1>1, <1>5, <1>6, <1>7, <1>8 DEF r

\* The batches a shard has recorded, and the one written and not yet recorded.
Written(s) == batches[s] \cup ({sent[s]} \ NotRead)

\* Every request id in use has been handed out.
Fresh(s) ==
  /\ \A b \in batches[s] : b.rid \in 1..ridSeq[s]
  /\ sent[s] = NoBatch \/ sent[s].rid \in 1..ridSeq[s]
  /\ \A b \in sub[s] : b.rid <= ridSeq[s]
  /\ \A i \in 1..Len(cmds[s]) : cmds[s][i].batch.rid <= ridSeq[s]
  /\ \A i \in 1..Len(chan[s]) : chan[s][i].rid <= ridSeq[s]

\* A request id names one batch.  A batch is unsubscribed after it was subscribed and taken
\* off the list, and an acknowledged one is no longer asked for.
Once(s) ==
  /\ sent[s] \notin batches[s]
  /\ \A b, c \in Requested(s) : b.rid = c.rid => b = c
  /\ \A i \in 1..Len(cmds[s]) : cmds[s][i].op = "unsubscribe" => cmds[s][i].batch \notin Written(s)
  /\ \A i, j \in 1..Len(cmds[s]) :
       i < j /\ cmds[s][i].op = "unsubscribe" /\ cmds[s][j].op = "subscribe"
         => cmds[s][i].batch # cmds[s][j].batch
  /\ \A i \in 1..Len(chan[s]) : chan[s][i].kind = "unsubscribed" =>
       \A b \in Requested(s) : b.rid # chan[s][i].rid

Awaited == rpc = "ack" => First(stale).rid <= ridSeq[at]

NInv == WInv /\ (\A s \in Shard : Fresh(s) /\ Once(s)) /\ Awaited

\* The request ids of a connection, which the steps that do not write on it keep.
numbers(s) == <<batches[s], sent[s], ridSeq[s], sub[s], cmds[s], chan[s]>>

LEMMA NumbersKept ==
  ASSUME NEW s \in Shard, Fresh(s), Once(s), numbers(s)' = numbers(s)
  PROVE  Fresh(s)' /\ Once(s)' /\ Requested(s)' = Requested(s)
<1>1. Requested(s)' = Requested(s) /\ Written(s)' = Written(s)
  BY DEF numbers, Requested, Subscribing, Written
<1>2. QED  BY <1>1 DEF numbers, Fresh, Once

\* What a shard holds has its type.
LEMMA ConnectionTyped ==
  ASSUME WInv, NEW s \in Shard
  PROVE  /\ batches[s] \in SUBSET Batch /\ sent[s] \in Batch /\ sub[s] \in SUBSET Batch
         /\ ridSeq[s] \in Nat /\ errors[s] \in Nat /\ cmds[s] \in Seq(Command)
         /\ chan[s] \in Seq(Frame) /\ Written(s) \in SUBSET Batch
         /\ Requested(s) \in SUBSET Batch /\ toSend[s] \in Seq(SUBSET Slug)
         /\ meta[s] \in SUBSET Slug
<1>1. /\ batches[s] \in SUBSET Batch /\ sent[s] \in Batch /\ sub[s] \in SUBSET Batch
      /\ ridSeq[s] \in Nat /\ errors[s] \in Nat /\ cmds[s] \in Seq(Command)
      /\ chan[s] \in Seq(Frame) /\ toSend[s] \in Seq(SUBSET Slug) /\ meta[s] \in SUBSET Slug
  BY DEF WInv, TInv, ReadersTyped, EInv, Shaped
<1>2. Subscribing(cmds[s]) \in SUBSET Batch
  <2>1. \A c \in ToSet(cmds[s]) : c.batch \in Batch  BY <1>1, CommandsAre DEF ToSet
  <2>2. QED  BY <2>1 DEF Subscribing
<1>3. QED  BY <1>1, <1>2 DEF Written, Requested

\* A connection that has just been made, or none.
LEMMA NumbersReset ==
  ASSUME NEW s \in Shard, batches'[s] = {}, sent'[s] = NoBatch, sub'[s] = {},
         cmds'[s] = <<>>, chan'[s] = <<>>
  PROVE  Fresh(s)' /\ Once(s)' /\ Requested(s)' = {}
<1>1. Requested(s)' = {}  BY DEF Requested, Subscribing, ToSet
<1>2. QED  BY <1>1 DEF Fresh, Once

\* Some batches are written on the connection under the next request ids.
Writes(s, bs) ==
  /\ Adds(cmds[s], bs, cmds'[s])
  /\ \A i \in 1..Len(bs) : bs[i].rid = ridSeq[s] + i
  /\ ridSeq'[s] = ridSeq[s] + Len(bs)
  /\ UNCHANGED <<sub[s], chan[s]>>
  /\ batches'[s] \subseteq Written(s) \cup ToSet(bs)
  /\ sent'[s] \in {sent[s], NoBatch} \cup ToSet(bs)
  /\ sent'[s] \notin batches'[s]

LEMMA NumbersGrow ==
  ASSUME WInv, NEW s \in Shard, Fresh(s), Once(s), NEW bs, Writes(s, bs)
  PROVE  Fresh(s)' /\ Once(s)' /\ Requested(s)' = Requested(s) \cup ToSet(bs)
<1> DEFINE N == ToSet(bs)
           q == cmds[s]
           p == cmds'[s]
           n == Len(bs)
<1>1. /\ batches[s] \in SUBSET Batch /\ sent[s] \in Batch /\ sub[s] \in SUBSET Batch
      /\ ridSeq[s] \in Nat /\ q \in Seq(Command) /\ chan[s] \in Seq(Frame)
      /\ Requested(s) \in SUBSET Batch
  BY ConnectionTyped
<1>0. /\ bs \in Seq(Batch) /\ n \in Nat /\ DOMAIN bs = 1..n
      /\ \A i \in 1..n : bs[i].rid = ridSeq[s] + i
      /\ ridSeq'[s] = ridSeq[s] + n /\ sub'[s] = sub[s] /\ chan'[s] = chan[s]
      /\ batches'[s] \subseteq Written(s) \cup N
      /\ sent'[s] \in {sent[s], NoBatch} \cup N
      /\ sent'[s] \notin batches'[s]
  BY DEF Writes, Adds
<1>2. /\ Len(p) = Len(q) + n /\ Len(q) \in Nat
      /\ \A i \in 1..Len(q) : p[i] = q[i]
      /\ \A i \in 1..n : p[Len(q) + i].op = "subscribe" /\ p[Len(q) + i].batch = bs[i]
      /\ Subscribing(p) = Subscribing(q) \cup N
  <2>1. Adds(q, bs, p)  BY DEF Writes
  <2>2. Subscribing(p) = Subscribing(q) \cup N  BY <2>1, SubscribingMore
  <2>3. QED  BY <1>1, <2>1, <2>2 DEF Adds
<1> HIDE DEF n
<1>3. Requested(s)' = Requested(s) \cup N  BY <1>0, <1>2 DEF Requested
<1>4. \A b \in N : b.rid \in (ridSeq[s] + 1)..(ridSeq[s] + n)
  <2> SUFFICES ASSUME NEW i \in 1..n PROVE bs[i].rid \in (ridSeq[s] + 1)..(ridSeq[s] + n)
    BY <1>0 DEF ToSet
  <2>1. bs[i].rid = ridSeq[s] + i  BY <1>0
  <2>2. QED  BY <1>0, <1>1, <2>1
<1>5. \A b \in Written(s) : b.rid \in 1..ridSeq[s]  BY DEF Fresh, Written, NotRead
<1>6. \A b \in Requested(s) : b \in sub[s] \/ \E i \in 1..Len(q) : b = q[i].batch
  BY <1>1 DEF Requested, Subscribing, ToSet
<1>7. \A b \in Requested(s) : b.rid <= ridSeq[s]  BY <1>6 DEF Fresh
<1>8. \A i \in 1..Len(p) : i \in 1..Len(q) \/ (i - Len(q) \in 1..n /\ i = Len(q) + (i - Len(q)))
  BY <1>0, <1>2
<1>9. \A i \in 1..Len(p) : \/ i \in 1..Len(q) /\ p[i] = q[i]
                           \/ i > Len(q) /\ p[i].op = "subscribe" /\ p[i].batch \in N
  <2>1. \A k \in 1..n : bs[k] \in N  BY <1>0 DEF ToSet
  <2> HIDE DEF N, p, q
  <2> SUFFICES ASSUME NEW i \in 1..Len(p), i \notin 1..Len(q)
               PROVE  i > Len(q) /\ p[i].op = "subscribe" /\ p[i].batch \in N
    BY <1>2
  <2> DEFINE k == i - Len(q)
  <2>2. k \in 1..n /\ i = Len(q) + k /\ i > Len(q)  BY <1>0, <1>2, <1>8
  <2> HIDE DEF k
  <2>3. QED  BY <1>2, <2>1, <2>2
<1> HIDE DEF N, p, q
<1>10. Written(s)' \subseteq Written(s) \cup N
  <2>1. batches'[s] \subseteq Written(s) \cup N  BY <1>0
  <2>2. {sent'[s]} \ NotRead \subseteq Written(s) \cup N  BY <1>0 DEF Written, NotRead
  <2>3. QED  BY <2>1, <2>2 DEF Written
<1>11. Fresh(s)'
  <2>1. \A b \in batches'[s] : b.rid \in 1..ridSeq'[s]  BY <1>1, <1>4, <1>5, <1>0
  <2>2. sent'[s] = NoBatch \/ sent'[s].rid \in 1..ridSeq'[s]  BY <1>0, <1>1, <1>4 DEF Fresh
  <2>3. \A b \in sub'[s] : b.rid <= ridSeq'[s]
    <3>1. \A b \in sub[s] : b.rid \in Nat /\ b.rid <= ridSeq[s]  BY <1>1 DEF Fresh, Batch
    <3>2. QED  BY <1>0, <1>1, <3>1
  <2>4. \A i \in 1..Len(p) : p[i].batch.rid <= ridSeq'[s]
    <3>1. \A i \in 1..Len(q) : q[i].batch.rid \in Nat /\ q[i].batch.rid <= ridSeq[s]
      BY <1>1, CommandsAre DEF Fresh, q
    <3>2. QED  BY <1>0, <1>1, <1>4, <1>9, <3>1
  <2>5. \A i \in 1..Len(chan'[s]) : chan'[s][i].rid <= ridSeq'[s]
    <3>1. \A i \in 1..Len(chan[s]) : chan[s][i].rid \in Nat /\ chan[s][i].rid <= ridSeq[s]
      BY <1>1, FramesAre DEF Fresh
    <3>2. QED  BY <1>0, <1>1, <3>1
  <2>6. QED  BY <2>1, <2>2, <2>3, <2>4, <2>5 DEF Fresh, p
<1>12. Once(s)'
  <2>1. \A b, c \in Requested(s)' : b.rid = c.rid => b = c
    <3>1. \A b \in Requested(s), c \in N : b.rid < c.rid
      <4>1. \A b \in Requested(s) : b.rid \in Nat  BY <1>1 DEF Batch
      <4>2. QED  BY <1>1, <1>4, <1>7, <4>1
    <3>2. \A b, c \in N : b.rid = c.rid => b = c
      BY <1>0, <1>1 DEF N, ToSet
    <3>3. \A b, c \in Requested(s) : b.rid = c.rid => b = c  BY DEF Once
    <3>4. \A b \in Requested(s) : b.rid \in Nat  BY <1>1 DEF Batch
    <3>5. \A b \in N : b.rid \in Nat  BY <1>1, <1>4
    <3>6. \A b \in Requested(s), c \in N : b.rid # c.rid /\ c.rid # b.rid
      BY <3>1, <3>4, <3>5
    <3>7. QED  BY <1>3, <3>2, <3>3, <3>6
  <2>2. \A i \in 1..Len(p) : p[i].op = "unsubscribe" => p[i].batch \notin Written(s)'
    <3> SUFFICES ASSUME NEW i \in 1..Len(p), p[i].op = "unsubscribe" PROVE p[i].batch \notin Written(s)'
      OBVIOUS
    <3>1. i \in 1..Len(q) /\ p[i] = q[i]  BY <1>9
    <3>2. p[i].batch \notin Written(s)  BY <3>1 DEF Once, q
    <3>3. p[i].batch.rid <= ridSeq[s] /\ p[i].batch.rid \in Nat
      BY <1>1, <3>1, CommandsAre DEF Fresh, q
    <3>4. p[i].batch \notin N  BY <1>1, <1>4, <3>3
    <3>5. QED  BY <1>10, <3>2, <3>4
  <2>3. \A i, j \in 1..Len(p) : i < j /\ p[i].op = "unsubscribe" /\ p[j].op = "subscribe"
           => p[i].batch # p[j].batch
    <3> SUFFICES ASSUME NEW i \in 1..Len(p), NEW j \in 1..Len(p), i < j,
                        p[i].op = "unsubscribe", p[j].op = "subscribe"
                 PROVE  p[i].batch # p[j].batch
      OBVIOUS
    <3>1. i \in 1..Len(q) /\ p[i] = q[i]  BY <1>9
    <3>2. CASE j \in 1..Len(q)
      <4>1. p[j] = q[j]  BY <1>2, <3>2
      <4>2. \A k, l \in 1..Len(q) :
              k < l /\ q[k].op = "unsubscribe" /\ q[l].op = "subscribe" => q[k].batch # q[l].batch
        BY DEF Once, q
      <4>3. QED  BY <3>1, <3>2, <4>1, <4>2
    <3>3. CASE j \notin 1..Len(q)
      <4>1. p[j].batch \in N  BY <1>9, <3>3
      <4>2. p[i].batch.rid <= ridSeq[s] /\ p[i].batch.rid \in Nat
        BY <1>1, <3>1, CommandsAre DEF Fresh, q
      <4>3. QED  BY <1>1, <1>4, <4>1, <4>2
    <3>4. QED  BY <3>2, <3>3
  <2>4. \A i \in 1..Len(chan'[s]) : chan'[s][i].kind = "unsubscribed" =>
          \A b \in Requested(s)' : b.rid # chan'[s][i].rid
    <3> SUFFICES ASSUME NEW i \in 1..Len(chan[s]), chan[s][i].kind = "unsubscribed",
                        NEW b \in Requested(s)'
                 PROVE  b.rid # chan[s][i].rid
      BY <1>0
    <3>1. CASE b \in Requested(s)  BY <3>1 DEF Once
    <3>2. CASE b \in N
      <4>1. chan[s][i].rid <= ridSeq[s] /\ chan[s][i].rid \in Nat  BY <1>1, FramesAre DEF Fresh
      <4>2. QED  BY <1>1, <1>4, <3>2, <4>1
    <3>3. QED  BY <1>3, <3>1, <3>2
  <2>5. QED  BY <1>0, <2>1, <2>2, <2>3, <2>4 DEF Once, p
<1>13. QED  BY <1>3, <1>11, <1>12 DEF N

\* The ways a step moves the numbers of a connection.
Resets(s) ==
  batches'[s] = {} /\ sent'[s] = NoBatch /\ sub'[s] = {} /\ cmds'[s] = <<>> /\ chan'[s] = <<>>

Less(s) ==
  /\ Written(s)' \subseteq Written(s) /\ sent'[s] \notin batches'[s]
  /\ UNCHANGED <<ridSeq[s], sub[s], cmds[s]>>
  /\ chan'[s] = chan[s] \/ (chan[s] # <<>> /\ chan'[s] = Tail(chan[s]))

Stops(s, b) ==
  /\ b \in batches[s] /\ batches'[s] = batches[s] \ {b}
  /\ cmds'[s] = Append(cmds[s], [op |-> "unsubscribe", batch |-> b])
  /\ UNCHANGED <<sent[s], ridSeq[s], sub[s], chan[s]>>

Takes(s, c) ==
  /\ c.op = "subscribe"
  /\ \/ sub'[s] = sub[s] \cup {c.batch} /\ chan'[s] = chan[s]
     \/ sub'[s] = sub[s] /\ chan'[s] = Append(chan[s], [kind |-> "error", rid |-> c.batch.rid])

Drops(s, c) ==
  /\ c.op = "unsubscribe"
  /\ \/ /\ c.batch \in sub[s] /\ sub'[s] = sub[s] \ {c.batch}
        /\ chan'[s] = Append(chan[s], [kind |-> "unsubscribed", rid |-> c.batch.rid])
     \/ sub'[s] = sub[s] /\ chan'[s] = chan[s]

Serves(s) ==
  /\ cmds[s] # <<>> /\ cmds'[s] = Tail(cmds[s])
  /\ UNCHANGED <<batches[s], sent[s], ridSeq[s]>>
  /\ Takes(s, Head(cmds[s])) \/ Drops(s, Head(cmds[s]))

LEMMA FrameAdded ==
  ASSUME NEW q \in Seq(Frame), NEW f
  PROVE  /\ Len(Append(q, f)) = Len(q) + 1 /\ Len(q) \in Nat
         /\ \A i \in 1..Len(Append(q, f)) : (i \in 1..Len(q) /\ Append(q, f)[i] = q[i]) \/ Append(q, f)[i] = f
         /\ \A i \in 1..Len(q) : i \in 1..Len(Append(q, f)) /\ Append(q, f)[i] = q[i]
         /\ Len(q) + 1 \in 1..Len(Append(q, f)) /\ Append(q, f)[Len(q) + 1] = f
OBVIOUS

LEMMA FrameRead ==
  ASSUME NEW q \in Seq(Frame), q # <<>>
  PROVE  /\ \A i \in 1..Len(Tail(q)) : i + 1 \in 1..Len(q) /\ Tail(q)[i] = q[i + 1]
         /\ Head(q) = q[1] /\ 1 \in 1..Len(q)
         /\ \A i \in 1..Len(q) : i = 1 \/ (i - 1 \in 1..Len(Tail(q)) /\ q[i] = Tail(q)[i - 1])
OBVIOUS

LEMMA NumbersLess ==
  ASSUME WInv, NEW s \in Shard, Fresh(s), Once(s), Less(s)
  PROVE  Fresh(s)' /\ Once(s)' /\ Requested(s)' = Requested(s)
<1>1. /\ Written(s)' \subseteq Written(s) /\ sent'[s] \notin batches'[s]
      /\ ridSeq'[s] = ridSeq[s] /\ sub'[s] = sub[s] /\ cmds'[s] = cmds[s]
  BY DEF Less
<1>2. Requested(s)' = Requested(s)  BY <1>1 DEF Requested, Subscribing
<1>3. \A b \in Written(s) : b.rid \in 1..ridSeq[s]  BY DEF Fresh, Written, NotRead
<1>4. \A i \in 1..Len(chan'[s]) : \E j \in 1..Len(chan[s]) : chan'[s][i] = chan[s][j]
  <2>1. CASE chan'[s] = chan[s]  BY <2>1
  <2>2. CASE chan[s] # <<>> /\ chan'[s] = Tail(chan[s])
    <3>1. chan[s] \in Seq(Frame)  BY ConnectionTyped
    <3>2. \A i \in 1..Len(Tail(chan[s])) : i + 1 \in 1..Len(chan[s]) /\ Tail(chan[s])[i] = chan[s][i + 1]
      BY <2>2, <3>1, FrameRead
    <3>3. \A i \in 1..Len(chan'[s]) : i + 1 \in 1..Len(chan[s]) /\ chan'[s][i] = chan[s][i + 1]
      BY <2>2, <3>2
    <3>4. QED  BY <3>3
  <2>3. QED  BY <2>1, <2>2 DEF Less
<1>5. Fresh(s)'
  <2>1. \A b \in Written(s)' : b.rid \in 1..ridSeq[s]  BY <1>1, <1>3
  <2>2. (\A b \in batches'[s] : b.rid \in 1..ridSeq[s]) /\ (sent'[s] = NoBatch \/ sent'[s].rid \in 1..ridSeq[s])
    BY <2>1 DEF Written, NotRead
  <2>3. QED  BY <1>1, <1>4, <2>2 DEF Fresh
<1>6. Once(s)'
  <2>1. \A i \in 1..Len(cmds'[s]) : cmds'[s][i].op = "unsubscribe" => cmds'[s][i].batch \notin Written(s)'
    BY <1>1 DEF Once
  <2>2. \A i, j \in 1..Len(cmds'[s]) :
          i < j /\ cmds'[s][i].op = "unsubscribe" /\ cmds'[s][j].op = "subscribe"
            => cmds'[s][i].batch # cmds'[s][j].batch
    BY <1>1 DEF Once
  <2>3. \A i \in 1..Len(chan'[s]) : chan'[s][i].kind = "unsubscribed" =>
          \A b \in Requested(s)' : b.rid # chan'[s][i].rid
    BY <1>2, <1>4 DEF Once
  <2>4. \A b, c \in Requested(s)' : b.rid = c.rid => b = c  BY <1>2 DEF Once
  <2>5. QED  BY <1>1, <2>1, <2>2, <2>3, <2>4 DEF Once
<1>7. QED  BY <1>2, <1>5, <1>6

\* A batch is taken off the list and its unsubscribe written.
LEMMA NumbersStop ==
  ASSUME WInv, NEW s \in Shard, Fresh(s), Once(s), NEW b \in Batch, Stops(s, b)
  PROVE  Fresh(s)' /\ Once(s)' /\ Requested(s)' = Requested(s)
<1> DEFINE q == cmds[s]  c == [op |-> "unsubscribe", batch |-> b]  p == cmds'[s]
<1>1. /\ b \in batches[s] /\ batches'[s] = batches[s] \ {b} /\ p = Append(q, c)
      /\ sent'[s] = sent[s] /\ ridSeq'[s] = ridSeq[s] /\ sub'[s] = sub[s] /\ chan'[s] = chan[s]
  BY DEF Stops
<1>2. q \in Seq(Command) /\ batches[s] \in SUBSET Batch /\ ridSeq[s] \in Nat  BY ConnectionTyped
<1>3. c \in Command /\ c.op = "unsubscribe" /\ c.batch = b  BY DEF Command
<1>4. Subscribing(p) = Subscribing(q)  BY <1>1, <1>2, SubscribingStop
<1>5. Requested(s)' = Requested(s)  BY <1>1, <1>4 DEF Requested
<1> HIDE DEF c, p, q
<1>6. /\ Len(p) = Len(q) + 1 /\ Len(q) \in Nat
      /\ \A i \in 1..Len(p) : \/ i \in 1..Len(q) /\ p[i] = q[i]
                              \/ i = Len(q) + 1 /\ p[i] = c
  BY <1>1, <1>2, <1>3
<1>7. Fresh(s)'
  <2>1. b.rid \in 1..ridSeq[s]  BY <1>1 DEF Fresh
  <2>2. b.rid <= ridSeq[s]  BY <1>2, <2>1
  <2>3. \A i \in 1..Len(p) : p[i].batch.rid <= ridSeq[s]  BY <1>3, <1>6, <2>2 DEF Fresh, q
  <2>4. QED  BY <1>1, <2>3 DEF Fresh, p
<1>8. Once(s)'
  <2>1. Written(s)' = Written(s) \ {b}
    <3>1. b # sent[s]  BY <1>1 DEF Once
    <3>2. QED  BY <1>1, <3>1 DEF Written
  <2>2. \A i \in 1..Len(p) : p[i].op = "unsubscribe" => p[i].batch \notin Written(s)'
    BY <1>3, <1>6, <2>1 DEF Once, q
  <2>3. \A i, j \in 1..Len(p) : i < j /\ p[i].op = "unsubscribe" /\ p[j].op = "subscribe"
           => p[i].batch # p[j].batch
    <3> SUFFICES ASSUME NEW i \in 1..Len(p), NEW j \in 1..Len(p), i < j,
                        p[i].op = "unsubscribe", p[j].op = "subscribe"
                 PROVE  p[i].batch # p[j].batch
      OBVIOUS
    <3>1. j \in 1..Len(q) /\ p[j] = q[j]  BY <1>3, <1>6
    <3>2. i \in 1..Len(q) /\ p[i] = q[i]  BY <1>6, <3>1
    <3>3. QED  BY <3>1, <3>2 DEF Once, q
  <2>4. sent'[s] \notin batches'[s]  BY <1>1 DEF Once
  <2>5. QED  BY <1>1, <1>5, <2>2, <2>3, <2>4 DEF Once, p
<1>9. QED  BY <1>5, <1>7, <1>8

\* The venue takes the first command.
LEMMA NumbersServe ==
  ASSUME WInv, NEW s \in Shard, Fresh(s), Once(s), Serves(s)
  PROVE  /\ Fresh(s)' /\ Once(s)' /\ Requested(s)' \subseteq Requested(s)
         /\ Written(s)' = Written(s) /\ Head(cmds[s]).batch.rid \in Nat
         /\ Requested(s) \ {Head(cmds[s]).batch} \subseteq Requested(s)'
         /\ Head(cmds[s]).op = "unsubscribe" => Head(cmds[s]).batch \notin Written(s)
<1> DEFINE q == cmds[s]  p == cmds'[s]  c == Head(q)  b == c.batch
<1>1. /\ q # <<>> /\ p = Tail(q) /\ (Takes(s, c) \/ Drops(s, c))
      /\ batches'[s] = batches[s] /\ sent'[s] = sent[s] /\ ridSeq'[s] = ridSeq[s]
  BY DEF Serves
<1>2. /\ q \in Seq(Command) /\ chan[s] \in Seq(Frame) /\ Requested(s) \in SUBSET Batch
      /\ sub[s] \in SUBSET Batch /\ ridSeq[s] \in Nat
  BY ConnectionTyped
<1>3. /\ c = q[1] /\ p \in Seq(Command) /\ 1 \in 1..Len(q) /\ Len(q) \in Nat
      /\ \A i \in 1..Len(p) : p[i] = q[i + 1] /\ i + 1 \in 1..Len(q)
      /\ c.op = "subscribe" => Subscribing(q) = {b} \cup Subscribing(p)
      /\ c.op # "subscribe" => Subscribing(q) = Subscribing(p)
  BY <1>1, <1>2, SubscribingTail
<1>4. b \in Batch /\ b.rid \in Nat  BY <1>2, <1>3, CommandsAre
<1>5. Written(s)' = Written(s)  BY <1>1 DEF Written
<1>6. Requested(s)' \subseteq Requested(s) /\ Requested(s) \ {b} \subseteq Requested(s)'
  <2>1. Requested(s)' = sub'[s] \cup Subscribing(p) /\ Requested(s) = sub[s] \cup Subscribing(q)
    BY DEF Requested
  <2>2. CASE Takes(s, c)  BY <1>3, <2>1, <2>2 DEF Takes
  <2>3. CASE Drops(s, c)  BY <1>3, <2>1, <2>3 DEF Drops
  <2>4. QED  BY <1>1, <2>2, <2>3
<1>7. b.rid <= ridSeq[s]  BY <1>3 DEF Fresh
<1>8. c.op = "unsubscribe" => b \notin Written(s)  BY <1>3 DEF Once
<1>9. c.op = "unsubscribe" => b \notin Subscribing(p)
  <2> SUFFICES ASSUME c.op = "unsubscribe", NEW i \in 1..Len(p), p[i].op = "subscribe"
               PROVE  p[i].batch # b
    <3>1. DOMAIN p = 1..Len(p)  BY <1>3
    <3>2. QED  BY <3>1 DEF Subscribing, ToSet
  <2>1. i + 1 \in 1..Len(q) /\ p[i] = q[i + 1] /\ 1 < i + 1  BY <1>3
  <2>2. QED  BY <1>3, <2>1 DEF Once
<1>10. \A i \in 1..Len(chan'[s]) :
         \/ \E j \in 1..Len(chan[s]) : chan'[s][i] = chan[s][j]
         \/ chan'[s][i].rid = b.rid /\ (chan'[s][i].kind = "unsubscribed" => \A r \in Requested(s)' : r.rid # b.rid)
  <2> DEFINE e == [kind |-> "error", rid |-> b.rid]
             u == [kind |-> "unsubscribed", rid |-> b.rid]
  <2>1. CASE chan'[s] = chan[s]  BY <2>1
  <2>2. CASE Takes(s, c) /\ chan'[s] = Append(chan[s], e)
    <3>1. e.rid = b.rid /\ e.kind # "unsubscribed"  OBVIOUS
    <3> HIDE DEF e
    <3>2. QED  BY <1>2, <2>2, <3>1, FrameAdded
  <2>3. CASE Drops(s, c) /\ b \in sub[s] /\ sub'[s] = sub[s] \ {b} /\ chan'[s] = Append(chan[s], u)
    <3>1. u.rid = b.rid  OBVIOUS
    <3> HIDE DEF u
    <3>2. b \notin Requested(s)'  BY <1>9, <2>3 DEF Requested, Drops
    <3>3. b \in Requested(s)  BY <2>3 DEF Requested
    <3>4. \A r \in Requested(s)' : r.rid # b.rid  BY <1>6, <3>2, <3>3 DEF Once
    <3>5. QED  BY <1>2, <2>3, <3>1, <3>4, FrameAdded
  <2>4. QED  BY <1>1, <2>1, <2>2, <2>3 DEF Takes, Drops
<1> HIDE DEF q, p, c, b
<1>11. Fresh(s)'
  <2>1. \A d \in sub'[s] : d.rid <= ridSeq[s]
    <3>1. sub'[s] \subseteq sub[s] \cup {b}  BY <1>1 DEF Takes, Drops, b
    <3>2. QED  BY <1>7, <3>1 DEF Fresh
  <2>2. \A i \in 1..Len(p) : p[i].batch.rid <= ridSeq[s]  BY <1>3 DEF Fresh, q
  <2>3. \A i \in 1..Len(chan'[s]) : chan'[s][i].rid <= ridSeq[s]  BY <1>7, <1>10 DEF Fresh
  <2>4. QED  BY <1>1, <2>1, <2>2, <2>3 DEF Fresh, p
<1>12. Once(s)'
  <2>1. \A d, e \in Requested(s)' : d.rid = e.rid => d = e  BY <1>6 DEF Once
  <2>2. \A i \in 1..Len(p) : p[i].op = "unsubscribe" => p[i].batch \notin Written(s)'
    BY <1>3, <1>5 DEF Once, q
  <2>3. \A i, j \in 1..Len(p) : i < j /\ p[i].op = "unsubscribe" /\ p[j].op = "subscribe"
           => p[i].batch # p[j].batch
    <3>1. \A i, j \in 1..Len(p) : i < j => i + 1 < j + 1  OBVIOUS
    <3>2. \A k, l \in 1..Len(q) : k < l /\ q[k].op = "unsubscribe" /\ q[l].op = "subscribe"
            => q[k].batch # q[l].batch
      BY DEF Once, q
    <3> SUFFICES ASSUME NEW i \in 1..Len(p), NEW j \in 1..Len(p), i < j,
                        p[i].op = "unsubscribe", p[j].op = "subscribe"
                 PROVE  p[i].batch # p[j].batch
      OBVIOUS
    <3>3. i + 1 \in 1..Len(q) /\ j + 1 \in 1..Len(q) /\ p[i] = q[i + 1] /\ p[j] = q[j + 1] /\ i + 1 < j + 1
      BY <1>3, <3>1
    <3>4. QED  BY <3>2, <3>3
  <2>4. \A i \in 1..Len(chan'[s]) : chan'[s][i].kind = "unsubscribed" =>
          \A r \in Requested(s)' : r.rid # chan'[s][i].rid
    BY <1>6, <1>10 DEF Once
  <2>5. sent'[s] \notin batches'[s]  BY <1>1 DEF Once
  <2>6. QED  BY <2>1, <2>2, <2>3, <2>4, <2>5 DEF Once, p
<1>13. QED  BY <1>4, <1>5, <1>6, <1>8, <1>11, <1>12 DEF b, c, q

\* A reader subscribes the next batch, or has none left.
LEMMA SubscribeWrites ==
  ASSUME WInv, NEW s \in Shard, Fresh(s), Once(s), SubscribeNext(s)
  PROVE  \/ /\ toSend[s] = <<>> /\ toSend' = toSend /\ Less(s) /\ Written(s)' = Written(s)
         \/ /\ toSend[s] # <<>> /\ toSend'[s] = Tail(toSend[s])
            /\ \E b \in Batch : /\ b.slugs = Head(toSend[s]) /\ Writes(s, <<b>>)
                                /\ Written(s)' = Written(s) \cup {b}
<1>1. /\ batches[s] \in SUBSET Batch /\ sent[s] \in Batch /\ ridSeq[s] \in Nat
      /\ cmds[s] \in Seq(Command) /\ toSend[s] \in Seq(SUBSET Slug) /\ ReadersTyped
  BY ConnectionTyped DEF WInv, TInv
<1>2. /\ batches'[s] = batches[s] \cup ({sent[s]} \ NotRead)
      /\ UNCHANGED <<sub[s], chan[s]>>
  BY <1>1 DEF SubscribeNext, ReadersTyped
<1>3. \A b \in batches[s] : b # NoBatch
  BY <1>1 DEF Fresh, NoBatch
<1>4. CASE toSend[s] = <<>>
  <2>1. sent'[s] = NoBatch /\ ridSeq' = ridSeq /\ cmds' = cmds /\ toSend' = toSend
    BY <1>1, <1>4 DEF SubscribeNext, ReadersTyped
  <2>2. Written(s)' = Written(s)  BY <1>2, <2>1 DEF Written, NotRead
  <2>3. sent'[s] \notin batches'[s]  BY <1>2, <1>3, <2>1 DEF NotRead
  <2>4. QED  BY <1>2, <1>4, <2>1, <2>2, <2>3 DEF Less
<1>5. CASE toSend[s] # <<>>
  <2> DEFINE b == [rid |-> ridSeq[s] + 1, slugs |-> Head(toSend[s])]
  <2>1. Head(toSend[s]) \in SUBSET Slug  BY <1>1, <1>5
  <2>2. b \in Batch /\ b.rid = ridSeq[s] + 1 /\ b.slugs = Head(toSend[s])
    BY <1>1, <2>1 DEF Batch
  <2>3. /\ ridSeq'[s] = ridSeq[s] + 1 /\ sent'[s] = b /\ toSend'[s] = Tail(toSend[s])
        /\ cmds'[s] = Append(cmds[s], [op |-> "subscribe", batch |-> b])
    BY <1>1, <1>5 DEF SubscribeNext, ReadersTyped
  <2> HIDE DEF b
  <2>4. Adds(cmds[s], <<b>>, cmds'[s])  BY <1>1, <2>2, <2>3, CommandAdded
  <2>5. ToSet(<<b>>) = {b} /\ Len(<<b>>) = 1 /\ <<b>>[1] = b  BY DEF ToSet
  <2>6. b # NoBatch /\ \A d \in batches'[s] : d.rid <= ridSeq[s] /\ d.rid \in Nat
    <3>1. \A d \in batches[s] : d.rid <= ridSeq[s] /\ d.rid \in Nat  BY <1>1 DEF Fresh, Batch
    <3>2. sent[s] # NoBatch => sent[s].rid <= ridSeq[s] /\ sent[s].rid \in Nat
      BY <1>1 DEF Fresh, Batch
    <3>3. b # NoBatch  BY <1>1, <2>2 DEF NoBatch
    <3>4. QED  BY <1>2, <3>1, <3>2, <3>3 DEF NotRead
  <2>7. sent'[s] \notin batches'[s]  BY <1>1, <2>2, <2>3, <2>6
  <2>8. Written(s)' = Written(s) \cup {b}  BY <1>2, <2>3, <2>6 DEF Written, NotRead
  <2>9. \A i \in 1..1 : i = 1  OBVIOUS
  <2>10. batches'[s] \subseteq Written(s) \cup {b}  BY <1>2 DEF Written
  <2>11. Writes(s, <<b>>)
    <3>1. \A i \in 1..Len(<<b>>) : <<b>>[i].rid = ridSeq[s] + i  BY <2>2, <2>5, <2>9
    <3>2. QED  BY <1>2, <2>3, <2>4, <2>5, <2>7, <2>10, <3>1 DEF Writes
  <2>12. QED  BY <1>5, <2>2, <2>3, <2>8, <2>11
<1>6. QED  BY <1>4, <1>5

\* The refresher subscribes some sets of slugs on the shard whose turn it is.
LEMMA RefresherWrites ==
  ASSUME WInv, NEW s \in Shard, s = at, Fresh(s), Once(s), NEW pieces \in Seq(SUBSET Slug),
         SendSubscribe(pieces), UNCHANGED <<sent, sub, chan>>
  PROVE  /\ \E bs : /\ Writes(s, bs) /\ Len(bs) = Len(pieces)
                    /\ \A i \in 1..Len(bs) : bs[i].slugs = pieces[i]
                    /\ Written(s)' = Written(s) \cup ToSet(bs)
         /\ \A t \in Shard : t # s => numbers(t)' = numbers(t)
<1> DEFINE bs == Numbered(pieces)
           cs == [i \in 1..Len(bs) |-> [op |-> "subscribe", batch |-> bs[i]]]
<1>1. /\ batches[s] \in SUBSET Batch /\ sent[s] \in Batch /\ ridSeq[s] \in Nat
      /\ cmds[s] \in Seq(Command) /\ ReadersTyped
  BY ConnectionTyped DEF WInv, TInv
<1>2. /\ ridSeq' = [ridSeq EXCEPT ![s] = @ + Len(bs)]
      /\ batches' = [batches EXCEPT ![s] = @ \cup ToSet(bs)]
      /\ cmds' = [cmds EXCEPT ![s] = @ \o cs]
  BY DEF SendSubscribe
<1>3. /\ bs \in Seq(Batch) /\ Len(bs) = Len(pieces) /\ Len(bs) \in Nat
      /\ \A i \in 1..Len(bs) : bs[i].rid = ridSeq[s] + i /\ bs[i].slugs = pieces[i]
  <2>1. Len(pieces) \in Nat /\ \A i \in 1..Len(pieces) : pieces[i] \in SUBSET Slug  OBVIOUS
  <2>2. \A i \in 1..Len(pieces) : [rid |-> ridSeq[s] + i, slugs |-> pieces[i]] \in Batch
    BY <1>1, <2>1 DEF Batch
  <2>3. QED  BY <2>1, <2>2 DEF Numbered
<1>4. \A t \in Shard : t # s => numbers(t)' = numbers(t)
  BY <1>1, <1>2 DEF numbers, ReadersTyped
<1>5. ridSeq'[s] = ridSeq[s] + Len(bs) /\ batches'[s] = batches[s] \cup ToSet(bs)
      /\ cmds'[s] = cmds[s] \o cs
  BY <1>1, <1>2 DEF ReadersTyped
<1> HIDE DEF bs
<1>6. Adds(cmds[s], bs, cmds'[s])  BY <1>1, <1>3, <1>5, CommandsAdded
<1>7. DOMAIN bs = 1..Len(bs)  BY <1>3
<1>8. sent'[s] \notin batches'[s]
  <2>1. \A b \in ToSet(bs) : b.rid > ridSeq[s]  BY <1>1, <1>3, <1>7 DEF ToSet
  <2>2. sent[s].rid <= ridSeq[s]  BY <1>1 DEF Fresh, NoBatch
  <2>3. sent[s] \notin ToSet(bs)  BY <1>1, <2>1, <2>2 DEF Batch
  <2>4. sent[s] \notin batches[s]  BY DEF Once
  <2>5. QED  BY <1>5, <2>3, <2>4
<1>9. Written(s)' = Written(s) \cup ToSet(bs)  BY <1>5 DEF Written
<1>10. batches'[s] \subseteq Written(s) \cup ToSet(bs)  BY <1>5 DEF Written
<1>11. Writes(s, bs)  BY <1>3, <1>5, <1>6, <1>8, <1>10 DEF Writes
<1>12. QED  BY <1>3, <1>4, <1>9, <1>11

Moved(s) ==
  \/ numbers(s)' = numbers(s) \/ Resets(s) \/ Less(s) \/ Serves(s)
  \/ (\E b \in Batch : Stops(s, b)) \/ (\E bs : Writes(s, bs))

LEMMA NumbersMoved ==
  ASSUME WInv, NEW s \in Shard, Fresh(s), Once(s), Moved(s)
  PROVE  Fresh(s)' /\ Once(s)'
<1>1. CASE numbers(s)' = numbers(s)  BY <1>1, NumbersKept
<1>2. CASE Resets(s)  BY <1>2, NumbersReset DEF Resets
<1>3. CASE Less(s)  BY <1>3, NumbersLess
<1>4. CASE Serves(s)  BY <1>4, NumbersServe
<1>5. CASE \E b \in Batch : Stops(s, b)  BY <1>5, NumbersStop
<1>6. CASE \E bs : Writes(s, bs)
  <2>1. PICK bs : Writes(s, bs)  BY <1>6
  <2>2. QED  BY <2>1, NumbersGrow
<1>7. QED  BY <1>1, <1>2, <1>3, <1>4, <1>5, <1>6 DEF Moved

LEMMA ReaderMoves ==
  ASSUME NInv, NEW s \in Shard, Reader(s)
  PROVE  \A t \in Shard : IF t = s THEN Moved(t) ELSE numbers(t)' = numbers(t)
<1>1. WInv /\ Fresh(s) /\ Once(s) /\ Wired(s) /\ ReadersTyped /\ chan \in [Shard -> Seq(Frame)]
  BY DEF NInv, WInv, TInv
<1>2. \A t \in Shard : t # s => numbers(t)' = numbers(t)
  BY <1>1 DEF Reader, LoopHead, Connected, SubscribeNext, ReaderRaises, BackoffOver,
     IdleTimeout, OnControl, CallUnchanged, ReadersTyped, shardVars, readerVars, netVars, numbers
<1>3. CASE LoopHead(s) \/ BackoffOver(s) \/ IdleTimeout(s)
  <2>1. numbers(s)' = numbers(s)
    BY <1>3 DEF LoopHead, BackoffOver, IdleTimeout, shardVars, netVars, numbers
  <2>2. QED  BY <1>2, <2>1 DEF Moved
<1>4. CASE Connected(s)
  <2>1. Resets(s)  BY <1>1, <1>4 DEF Connected, Resets, ReadersTyped, Wired
  <2>2. QED  BY <1>2, <2>1 DEF Moved
<1>5. CASE SubscribeNext(s)
  <2>1. Moved(s)  BY <1>1, <1>5, SubscribeWrites DEF Moved
  <2>2. QED  BY <1>2, <2>1
<1>6. CASE ReaderRaises(s)
  <2>1. batches' = batches /\ sent'[s] = NoBatch /\ UNCHANGED <<ridSeq, sub, cmds, chan>>
    BY <1>1, <1>6 DEF ReaderRaises, ReadersTyped, netVars
  <2>2. sent'[s] \notin batches'[s]  BY <1>1, <2>1, ConnectionTyped DEF Fresh, NoBatch
  <2>3. Less(s)  BY <2>1, <2>2 DEF Less, Written, NotRead
  <2>4. QED  BY <1>2, <2>3 DEF Moved
<1>7. CASE OnControl(s)
  <2>1. /\ UNCHANGED <<batches, sent, ridSeq, sub, cmds>> /\ chan[s] # <<>>
        /\ chan'[s] = Tail(chan[s])
    BY <1>1, <1>7 DEF OnControl, readerVars
  <2>2. sent'[s] \notin batches'[s]  BY <1>1, <2>1 DEF Once
  <2>3. Less(s)  BY <2>1, <2>2 DEF Less, Written, NotRead
  <2>4. QED  BY <1>2, <2>3 DEF Moved
<1>8. QED  BY <1>3, <1>4, <1>5, <1>6, <1>7 DEF Reader

LEMMA VenueMoves ==
  ASSUME NInv, NEW s \in Shard, Venue(s)
  PROVE  /\ Serves(s) /\ link[s] = "up" /\ \A t \in Shard : t # s => numbers(t)' = numbers(t)
         /\ UNCHANGED <<shardVars, readerVars, callVars, link, blind, doubled, spared, resyncs>>
<1>1. PICK yes \in BOOLEAN : VenueSubscribe(s, yes) \/ VenueUnsubscribe(s, yes)
  BY DEF Venue
<1>2. ReadersTyped /\ chan \in [Shard -> Seq(Frame)]  BY DEF NInv, WInv, TInv
<1>3. CASE VenueSubscribe(s, yes)
  <2>1. Serves(s)
    BY <1>2, <1>3 DEF VenueSubscribe, Serves, Takes, shardVars, readerVars, ReadersTyped
  <2>2. QED
    BY <1>2, <1>3, <2>1 DEF VenueSubscribe, shardVars, readerVars, ReadersTyped, numbers
<1>4. CASE VenueUnsubscribe(s, yes)
  <2>1. Serves(s)
    BY <1>2, <1>4 DEF VenueUnsubscribe, Serves, Drops, shardVars, readerVars, ReadersTyped
  <2>2. QED
    BY <1>2, <1>4, <2>1 DEF VenueUnsubscribe, shardVars, readerVars, ReadersTyped, numbers
<1>5. QED  BY <1>1, <1>3, <1>4

LEMMA PruneMoves ==
  ASSUME NInv, NEW s \in Shard, s = at, PruneNext
  PROVE  \A t \in Shard : IF t = s THEN Moved(t) ELSE numbers(t)' = numbers(t)
<1> DEFINE todo == IF stale = NotRead THEN Stale ELSE stale
           now  == IF todo = {} THEN {} ELSE IF ws[at] THEN {First(todo)} ELSE todo
<1>1. /\ WInv /\ ReadersTyped /\ Fresh(s) /\ Once(s) /\ rpc = "prune"
  BY DEF NInv, WInv, TInv, EInv, Shaped, PruneNext
<1>2. /\ batches' = [batches EXCEPT ![s] = @ \ now]
      /\ UNCHANGED <<sent, ridSeq, sub, chan>>
  BY DEF PruneNext, readerVars
<1>3. \/ cmds' = cmds
      \/ /\ todo # {} /\ ws[s]
         /\ cmds' = [cmds EXCEPT ![s] = Append(@, [op |-> "unsubscribe", batch |-> First(todo)])]
  BY DEF PruneNext, Sendable
<1>4. todo \subseteq batches[s]  BY <1>1 DEF WInv, InTurn, Stale, StaleOn
<1> HIDE DEF todo
<1>5. \A t \in Shard : t # s => numbers(t)' = numbers(t)
  BY <1>1, <1>2, <1>3 DEF ReadersTyped, numbers
<1>6. batches'[s] = batches[s] \ now /\ batches[s] \in SUBSET Batch
  BY <1>1, <1>2 DEF ReadersTyped
<1>7. CASE cmds' = cmds
  <2>1. Less(s)
    <3>1. batches'[s] \subseteq batches[s]  BY <1>6
    <3>2. Written(s)' \subseteq Written(s)
      <4>1. Written(s)' = batches'[s] \cup ({sent[s]} \ NotRead)
        BY <1>2 DEF Written
      <4>2. QED  BY <3>1, <4>1 DEF Written
    <3>3. QED  BY <1>1, <1>2, <1>7, <3>1, <3>2 DEF Less, Once
  <2>2. QED  BY <1>5, <2>1 DEF Moved
<1>8. CASE todo # {} /\ ws[s] /\ cmds' = [cmds EXCEPT ![s] = Append(@, [op |-> "unsubscribe", batch |-> First(todo)])]
  <2>1. First(todo) \in batches[s] /\ First(todo) \in Batch  BY <1>4, <1>6, <1>8, FirstIn
  <2>2. now = {First(todo)}  BY <1>8
  <2>3. cmds'[s] = Append(cmds[s], [op |-> "unsubscribe", batch |-> First(todo)])
    BY <1>1, <1>8 DEF ReadersTyped
  <2>4. Stops(s, First(todo))  BY <1>2, <1>6, <2>1, <2>2, <2>3 DEF Stops
  <2>5. QED  BY <1>5, <2>1, <2>4 DEF Moved
<1>9. QED  BY <1>3, <1>7, <1>8

\* What is written again after an acknowledgement, and what is written for additions.
LEMMA AckWrites ==
  ASSUME NInv, NEW s \in Shard, s = at, Acknowledged \/ AckTimeout
  PROVE  /\ \A t \in Shard : t # s => numbers(t)' = numbers(t)
         /\ \/ numbers(s)' = numbers(s)
            \/ /\ Survivors # {} /\ ws[s] /\ Sendable /\ Acknowledged
               /\ rpc' = "prune" /\ stale' = stale \ {First(stale)} /\ UNCHANGED <<recycled, at, applied, spared>>
               /\ \E bs : /\ Writes(s, bs) /\ Len(bs) = 1 /\ bs[1].slugs = Survivors
                          /\ Written(s)' = Written(s) \cup ToSet(bs)
<1>1. WInv /\ Fresh(s) /\ Once(s) /\ UNCHANGED <<sent, sub, chan>>
  BY DEF NInv, Acknowledged, AckTimeout, readerVars, netVars
<1>2. CASE UNCHANGED <<ridSeq, batches, cmds>>  BY <1>1, <1>2 DEF numbers
<1>3. CASE ~UNCHANGED <<ridSeq, batches, cmds>>
  <2>1. /\ SendSubscribe(<<Survivors>>) /\ Survivors # {} /\ Sendable /\ Acknowledged
        /\ rpc' = "prune" /\ stale' = stale \ {First(stale)} /\ UNCHANGED <<recycled, at, applied, spared>>
    BY <1>3 DEF Acknowledged, AckTimeout, shardVars, netVars
  <2> DEFINE S == Survivors
  <2>2. S \in SUBSET Slug
    BY PolymarketAssumption DEF NInv, WInv, TInv, EInv, Shaped, Survivors
  <2> HIDE DEF S
  <2>3. <<S>> \in Seq(SUBSET Slug) /\ Len(<<S>>) = 1 /\ <<S>>[1] = S  BY <2>2
  <2>4. SendSubscribe(<<S>>)  BY <2>1 DEF S
  <2>5. /\ \E bs : /\ Writes(s, bs) /\ Len(bs) = Len(<<S>>)
                   /\ \A i \in 1..Len(bs) : bs[i].slugs = <<S>>[i]
                   /\ Written(s)' = Written(s) \cup ToSet(bs)
        /\ \A t \in Shard : t # s => numbers(t)' = numbers(t)
    BY <1>1, <2>3, <2>4, RefresherWrites
  <2>6. PICK bs : /\ Writes(s, bs) /\ Len(bs) = 1
                  /\ \A i \in 1..Len(bs) : bs[i].slugs = <<S>>[i]
                  /\ Written(s)' = Written(s) \cup ToSet(bs)
    BY <2>3, <2>5
  <2>7. 1 \in 1..1  OBVIOUS
  <2>8. bs[1].slugs = S  BY <2>3, <2>6, <2>7
  <2>9. QED  BY <2>1, <2>5, <2>6, <2>8 DEF Sendable, S
<1>4. QED  BY <1>2, <1>3

LEMMA PlaceWrites ==
  ASSUME NInv, NEW s \in Shard, s = at, PlaceAdds
  PROVE  /\ \A t \in Shard : t # s => numbers(t)' = numbers(t)
         /\ \/ numbers(s)' = numbers(s) /\ ~(Take # {} /\ Sendable)
            \/ /\ Take # {} /\ Sendable
               /\ \E bs : /\ Writes(s, bs) /\ Len(bs) = Len(Pieces(Take, SubBatch))
                          /\ \A i \in 1..Len(bs) : bs[i].slugs = Pieces(Take, SubBatch)[i]
                          /\ Written(s)' = Written(s) \cup ToSet(bs)
<1>1. WInv /\ Fresh(s) /\ Once(s) /\ UNCHANGED <<sent, sub, chan>>
  BY DEF NInv, PlaceAdds, readerVars
<1>2. CASE ~(Take # {} /\ Sendable)
  BY <1>1, <1>2 DEF numbers, PlaceAdds
<1>3. CASE Take # {} /\ Sendable
  <2>1. SendSubscribe(Pieces(Take, SubBatch))  BY <1>3 DEF PlaceAdds
  <2>2. Take \in SUBSET Slug
    BY TakeWanted, PolymarketAssumption DEF NInv, WInv, TInv, EInv, Shaped
  <2>3. Pieces(Take, SubBatch) \in Seq(SUBSET Slug)  BY <2>2, PiecesTyped, PolymarketAssumption
  <2>4. QED  BY <1>1, <1>3, <2>1, <2>3, RefresherWrites
<1>4. QED  BY <1>2, <1>3

LEMMA OthersKeep ==
  ASSUME NInv, NEW s \in Shard, NEW M \in MatchSet,
         \/ Resync(M) \/ OrphansPruned \/ Overflow \/ GraceOver \/ Recycle(s) \/ StreamStarts
         \/ ReaderEnds(s) \/ (\E how \in {"closed", "stalled"} : LinkFails(s, how))
  PROVE  UNCHANGED <<batches, sent, ridSeq, sub, cmds, chan>>
BY DEF Resync, OrphansPruned, Overflow, GraceOver, Recycle, StreamStarts, ReaderEnds, LinkFails,
   shardVars, readerVars, netVars

LEMMA TornResets ==
  ASSUME Torn, NEW s \in Shard
  PROVE  Resets(s)
BY NothingWired DEF Torn, Resets

LEMMA NInvInit == Init => NInv
<1> SUFFICES ASSUME Init PROVE NInv  OBVIOUS
<1>1. ASSUME NEW s \in Shard PROVE Fresh(s) /\ Once(s)
  <2>1. /\ batches[s] = {} /\ sent[s] = NoBatch /\ sub[s] = {} /\ cmds[s] = <<>> /\ chan[s] = <<>>
    BY NothingWired DEF Init
  <2>2. Requested(s) = {}  BY <2>1 DEF Requested, Subscribing, ToSet
  <2>3. QED  BY <2>1, <2>2 DEF Fresh, Once
<1>2. Awaited  BY DEF Init, Awaited
<1>3. QED  BY WInvInit, <1>1, <1>2 DEF NInv

\* The command awaited keeps an id handed out.
LEMMA AwaitedKept ==
  ASSUME NInv, Next
  PROVE  Awaited'
<1>1. WInv /\ Awaited /\ ReadersTyped /\ at \in Shard /\ (rpc = "ack" => stale # {} /\ stale \subseteq Batch)
  BY DEF NInv, WInv, TInv, EInv, Shaped, CallTyped
<1>2. rpc = "ack" => First(stale).rid \in Nat  BY <1>1, FirstIn DEF Batch
<1>3. CASE PruneNext
  <2> DEFINE todo == IF stale = NotRead THEN Stale ELSE stale
  <2>1. rpc' # "ack" \/ (rpc' = "ack" /\ stale' = todo /\ at' = at /\ todo # {} /\ ridSeq' = ridSeq)
    BY <1>3 DEF PruneNext, GiveUpOn, Advance
  <2>2. todo \subseteq batches[at]
    BY <1>1, <1>3 DEF WInv, InTurn, Stale, StaleOn, PruneNext
  <2> HIDE DEF todo
  <2>3. batches[at] \subseteq Batch /\ ridSeq[at] \in Nat /\ \A b \in batches[at] : b.rid \in 1..ridSeq[at]
    BY <1>1 DEF ReadersTyped, NInv, Fresh
  <2>4. todo # {} => First(todo) \in batches[at]  BY <2>2, <2>3, FirstIn
  <2>5. stale' = todo => First(stale)' = First(todo)  BY DEF First
  <2>6. QED  BY <2>1, <2>3, <2>4, <2>5 DEF Awaited
<1>4. CASE rpc' # "ack"  BY <1>4 DEF Awaited
<1>5. ASSUME rpc' = "ack", ~PruneNext
      PROVE  rpc = "ack" /\ UNCHANGED <<at, stale>> /\ (ridSeq' = ridSeq \/ ridSeq'[at] >= ridSeq[at])
  <2>1. CASE \E s \in Shard : Reader(s) \/ Venue(s)
    <3>1. PICK s \in Shard : Reader(s) \/ Venue(s)  BY <2>1
    <3>2. CASE SubscribeNext(s)
      <4>1. ridSeq' = ridSeq \/ ridSeq' = [ridSeq EXCEPT ![s] = @ + 1]  BY <3>2 DEF SubscribeNext
      <4>2. ridSeq \in [Shard -> Nat]  BY <1>1 DEF ReadersTyped
      <4>3. ridSeq' = ridSeq \/ ridSeq'[at] >= ridSeq[at]  BY <1>1, <4>1, <4>2
      <4>4. QED  BY <1>5, <3>2, <4>3 DEF SubscribeNext, callVars
    <3>3. CASE Venue(s)
      BY <1>5, <3>3 DEF Venue, VenueSubscribe, VenueUnsubscribe, callVars, shardVars
    <3>4. CASE Reader(s) /\ ~SubscribeNext(s)
      BY <1>5, <3>4 DEF Reader, LoopHead, Connected, ReaderRaises, BackoffOver, IdleTimeout,
         OnControl, CallUnchanged, callVars, shardVars
    <3>5. QED  BY <3>1, <3>2, <3>3, <3>4
  <2>2. CASE Refresher
    <3>1. ~(Acknowledged \/ AckTimeout \/ OrphansPruned \/ PlaceAdds \/ Overflow \/ GraceOver \/ \E s \in Shard : Recycle(s))
      BY <1>5 DEF Acknowledged, AckTimeout, OrphansPruned, PlaceAdds, Overflow, GraceOver,
         Recycle, GiveUpOn, Advance
    <3>2. QED  BY <1>5, <2>2, <3>1 DEF Refresher
  <2>3. CASE Stream \/ ConsumerRaises
    BY <1>5, <2>3 DEF Stream, StreamEnds, ConsumerRaises, StreamStarts, Torn, callVars
  <2>4. CASE \E s \in shards : ReaderEnds(s)
    BY <1>5, <2>4 DEF ReaderEnds, callVars, shardVars
  <2>5. CASE \E M \in MatchSet : Resync(M)  BY <1>5, <2>5 DEF Resync
  <2>6. CASE \E s \in Shard, how \in {"closed", "stalled"} : LinkFails(s, how)
    BY <1>5, <2>6 DEF LinkFails, callVars, shardVars
  <2>7. QED  BY <2>1, <2>2, <2>3, <2>4, <2>5, <2>6 DEF Next
<1>6. CASE rpc' = "ack" /\ ~PruneNext
  <2>1. rpc = "ack" /\ at' = at /\ stale' = stale /\ (ridSeq' = ridSeq \/ ridSeq'[at] >= ridSeq[at])
    BY <1>5, <1>6
  <2>2. First(stale)' = First(stale) /\ First(stale).rid <= ridSeq[at]
    BY <1>1, <2>1 DEF First, Awaited
  <2>3. ridSeq[at] \in Nat /\ ridSeq'[at] \in Nat
    <3>1. WInv'  BY <1>1, WInvNext
    <3>2. QED  BY <1>1, <3>1 DEF WInv, TInv, ReadersTyped
  <2>4. First(stale).rid <= ridSeq'[at]  BY <1>2, <2>1, <2>2, <2>3
  <2>5. QED  BY <2>1, <2>2, <2>4 DEF Awaited
<1>7. QED  BY <1>3, <1>4, <1>6

LEMMA NInvNext == NInv /\ [Next]_vars => NInv'
<1> SUFFICES ASSUME NInv, [Next]_vars PROVE NInv'  OBVIOUS
<1>1. WInv'  BY WInvNext DEF NInv
<1>2. WInv /\ at \in Shard /\ desired \in MatchSet  BY DEF NInv, WInv, TInv, EInv, Shaped
<1>3. CASE UNCHANGED vars
  <2>1. \A s \in Shard : numbers(s)' = numbers(s)
    BY <1>3 DEF vars, numbers, shardVars, readerVars, netVars
  <2>2. \A s \in Shard : (Fresh(s) /\ Once(s))'  BY <2>1, NumbersKept DEF NInv
  <2>3. Awaited'
    <3>1. UNCHANGED <<rpc, stale, ridSeq, at>>  BY <1>3 DEF vars, shardVars, callVars
    <3>2. QED  BY <3>1 DEF NInv, Awaited, First
  <2>4. QED  BY <1>1, <2>2, <2>3 DEF NInv
<1>4. CASE Next
  <2>1. ASSUME NEW s \in Shard PROVE Moved(s)
    <3>1. CASE \E t \in Shard : Reader(t) \/ Venue(t)
      <4>1. PICK t \in Shard : Reader(t) \/ Venue(t)  BY <3>1
      <4>2. QED  BY <4>1, ReaderMoves, VenueMoves DEF Moved
    <3>2. CASE PruneNext
      <4>1. PICK t \in Shard : t = at  BY <1>2
      <4>2. QED  BY <3>2, <4>1, PruneMoves DEF Moved
    <3>3. CASE Acknowledged \/ AckTimeout
      <4>1. PICK t \in Shard : t = at  BY <1>2
      <4>2. QED  BY <3>3, <4>1, AckWrites DEF Moved
    <3>4. CASE PlaceAdds
      <4>1. PICK t \in Shard : t = at  BY <1>2
      <4>2. QED  BY <3>4, <4>1, PlaceWrites DEF Moved
    <3>5. CASE Torn  BY <3>5, TornResets DEF Moved
    <3>6. CASE \/ \E M \in MatchSet : Resync(M)
               \/ OrphansPruned \/ Overflow \/ GraceOver \/ StreamStarts
               \/ \E t \in Shard : Recycle(t) \/ \E how \in {"closed", "stalled"} : LinkFails(t, how)
               \/ \E t \in shards : ReaderEnds(t)
      <4>1. shards \subseteq Shard  BY DEF NInv, WInv, TInv, EInv, Shaped
      <4>2. UNCHANGED <<batches, sent, ridSeq, sub, cmds, chan>>
        BY <1>2, <3>6, <4>1, OthersKeep
      <4>3. QED  BY <4>2 DEF numbers, Moved
    <3>7. QED
      BY <1>4, <3>1, <3>2, <3>3, <3>4, <3>5, <3>6
      DEF Next, Refresher, Stream, StreamEnds, ConsumerRaises
  <2>2. \A s \in Shard : Fresh(s)' /\ Once(s)'  BY <1>2, <2>1, NumbersMoved DEF NInv
  <2>3. QED  BY <1>1, <1>4, <2>2, AwaitedKept DEF NInv
<1>5. QED  BY <1>3, <1>4

-----------------------------------------------------------------------------
(* Coverage: what a shard asked for                                        *)

\* A connection no resync has given up on.
Trusted(s) == Open(s) /\ s \notin spared /\ (rpc = "idle" \/ s \notin recycled)

\* The batch whose unsubscribe is awaited on this shard.
Leaving(s) == IF rpc = "ack" /\ at = s THEN {First(stale)} ELSE {}

Refused(s) == errors[s] > 0 \/ \E i \in 1..Len(chan[s]) : chan[s][i].kind = "error"

\* The venue has, or is on its way to have, the batches the shard believes it asked for, but
\* for the one it awaits the end of; once that is acknowledged it is gone.
Answered(s) ==
  Trusted(s) =>
    /\ Requested(s) \subseteq Written(s) \cup Leaving(s)
    /\ Refused(s) \/ Written(s) \subseteq Requested(s)
    /\ rpc = "ack" /\ at = s /\ fut = "done" => First(stale) \notin Requested(s)

AInv == NInv /\ \A s \in Shard : Answered(s)

\* A step that leaves the connection alone, and awaits nothing new on it.
Calm(s) ==
  /\ Trusted(s)' => Trusted(s)
  /\ Trusted(s)' /\ rpc = "ack" /\ at = s =>
       fut = "done" \/ (rpc' = "ack" /\ at' = s /\ stale' = stale)
  /\ Trusted(s)' /\ rpc' = "ack" /\ at' = s =>
       rpc = "ack" /\ at = s /\ stale' = stale /\ (fut' = "done" => fut = "done")

LEMMA AnsweredKept ==
  ASSUME NEW s \in Shard, Answered(s), numbers(s)' = numbers(s), errors'[s] = errors[s], Calm(s)
  PROVE  Answered(s)'
<1> SUFFICES ASSUME Trusted(s)'
             PROVE  /\ Requested(s)' \subseteq Written(s)' \cup Leaving(s)'
                    /\ Refused(s)' \/ Written(s)' \subseteq Requested(s)'
                    /\ rpc' = "ack" /\ at' = s /\ fut' = "done" => First(stale)' \notin Requested(s)'
  BY DEF Answered
<1>1. /\ Requested(s)' = Requested(s) /\ Written(s)' = Written(s) /\ Refused(s)' = Refused(s)
  BY DEF numbers, Requested, Written, Refused, Subscribing
<1>2. Trusted(s)  BY DEF Calm
<1>3. stale' = stale => First(stale)' = First(stale)  BY DEF First
<1>4. Leaving(s)' = Leaving(s) \/ (Leaving(s) = {First(stale)} /\ fut = "done" /\ rpc = "ack" /\ at = s)
  BY <1>3 DEF Calm, Leaving
<1>5. Requested(s) \subseteq Written(s) \cup Leaving(s) /\ (Refused(s) \/ Written(s) \subseteq Requested(s))
      /\ (rpc = "ack" /\ at = s /\ fut = "done" => First(stale) \notin Requested(s))
  BY <1>2 DEF Answered
<1>6. Requested(s) \subseteq Written(s) \cup Leaving(s)'
  BY <1>4, <1>5
<1>7. rpc' = "ack" /\ at' = s /\ fut' = "done" => First(stale)' \notin Requested(s)
  BY <1>3, <1>5 DEF Calm
<1>8. QED  BY <1>1, <1>5, <1>6, <1>7

\* Some batches are written, and nothing is awaited afterwards.
LEMMA AnsweredGrows ==
  ASSUME NInv, NEW s \in Shard, Answered(s), NEW bs, Writes(s, bs),
         Written(s)' = Written(s) \cup ToSet(bs), errors'[s] = errors[s], Trusted(s)' => Trusted(s),
         \/ Leaving(s) = {First(stale)} /\ fut = "done" /\ rpc = "ack" /\ at = s
         \/ Leaving(s) = {},
         rpc' # "ack" \/ at' # s
  PROVE  Answered(s)'
<1> SUFFICES ASSUME Trusted(s)'
             PROVE  /\ Requested(s)' \subseteq Written(s)'
                    /\ Refused(s)' \/ Written(s)' \subseteq Requested(s)'
  BY DEF Answered
<1>1. Requested(s)' = Requested(s) \cup ToSet(bs)  BY NumbersGrow DEF NInv
<1>2. Refused(s)' = Refused(s)  BY DEF Refused, Writes
<1>3. Requested(s) \subseteq Written(s) /\ (Refused(s) \/ Written(s) \subseteq Requested(s))
  BY DEF Answered
<1>4. QED  BY <1>1, <1>2, <1>3

LEMMA AnsweredServed ==
  ASSUME NInv, NEW s \in Shard, Answered(s), Serves(s), UNCHANGED <<errors, rpc, at, stale, fut>>,
         Trusted(s)' => Trusted(s)
  PROVE  Answered(s)'
<1> SUFFICES ASSUME Trusted(s)'
             PROVE  /\ Requested(s)' \subseteq Written(s)' \cup Leaving(s)'
                    /\ Refused(s)' \/ Written(s)' \subseteq Requested(s)'
                    /\ rpc' = "ack" /\ at' = s /\ fut' = "done" => First(stale)' \notin Requested(s)'
  BY DEF Answered
<1> DEFINE c == Head(cmds[s])
<1>1. WInv /\ Fresh(s) /\ Once(s)  BY DEF NInv
<1>2. /\ Requested(s)' \subseteq Requested(s) /\ Written(s)' = Written(s)
      /\ Requested(s) \ {c.batch} \subseteq Requested(s)'
      /\ c.op = "unsubscribe" => c.batch \notin Written(s)
  BY <1>1, NumbersServe
<1>3. Leaving(s)' = Leaving(s) /\ First(stale)' = First(stale)  BY DEF Leaving, First
<1>4. /\ Requested(s) \subseteq Written(s) \cup Leaving(s)
      /\ Refused(s) \/ Written(s) \subseteq Requested(s)
      /\ rpc = "ack" /\ at = s /\ fut = "done" => First(stale) \notin Requested(s)
  BY DEF Answered
<1>5. chan[s] \in Seq(Frame) /\ cmds[s] \in Seq(Command) /\ cmds[s] # <<>> /\ (Takes(s, c) \/ Drops(s, c))
  BY <1>1, ConnectionTyped DEF Serves
<1> HIDE DEF c
<1>6. \A f : chan'[s] = Append(chan[s], f) =>
        /\ Refused(s) => Refused(s)'
        /\ f.kind = "error" => Refused(s)'
  <2> SUFFICES ASSUME NEW f, chan'[s] = Append(chan[s], f)
               PROVE  (Refused(s) => Refused(s)') /\ (f.kind = "error" => Refused(s)')
    OBVIOUS
  <2>1. /\ \A i \in 1..Len(chan[s]) : i \in 1..Len(chan'[s]) /\ chan'[s][i] = chan[s][i]
        /\ Len(chan[s]) + 1 \in 1..Len(chan'[s]) /\ chan'[s][Len(chan[s]) + 1] = f
    BY <1>5, FrameAdded
  <2>2. QED  BY <2>1 DEF Refused
<1>7. chan'[s] = chan[s] => Refused(s)' = Refused(s)  BY DEF Refused
<1>8. Refused(s)' \/ Written(s) \subseteq Requested(s)'
  <2>1. CASE Takes(s, c) /\ sub'[s] = sub[s] \cup {c.batch} /\ chan'[s] = chan[s]
    <3>1. c.op = "subscribe" => Subscribing(cmds[s]) = {c.batch} \cup Subscribing(Tail(cmds[s]))
      BY <1>5, SubscribingTail DEF c
    <3>2. Requested(s)' = Requested(s)
      BY <2>1, <3>1 DEF Requested, Takes, Serves
    <3>3. QED  BY <1>4, <1>7, <2>1, <3>2
  <2>2. CASE Takes(s, c) /\ chan'[s] = Append(chan[s], [kind |-> "error", rid |-> c.batch.rid])
    BY <1>6, <2>2
  <2>3. CASE Drops(s, c)
    <3>1. Refused(s) => Refused(s)'  BY <1>6, <1>7, <2>3 DEF Drops
    <3>2. c.batch \notin Written(s)  BY <1>2, <2>3 DEF Drops
    <3>3. QED  BY <1>2, <1>4, <3>1, <3>2
  <2>4. QED  BY <1>5, <2>1, <2>2, <2>3 DEF Takes
<1>9. QED  BY <1>2, <1>3, <1>4, <1>8

LEMMA ReaderAnswered ==
  ASSUME AInv, NEW s \in Shard, Reader(s), NEW t \in Shard
  PROVE  Answered(t)'
<1>1. /\ NInv /\ WInv /\ NInv' /\ Answered(t) /\ Wired(t)' /\ Wired(t) /\ ReadersTyped /\ Fresh(t) /\ Once(t)
      /\ chan \in [Shard -> Seq(Frame)]
  <2>1. Next  BY DEF Next
  <2>2. NInv'  BY <2>1, NInvNext DEF AInv
  <2>3. QED  BY <2>2 DEF AInv, NInv, WInv, TInv
<1>2. UNCHANGED <<rpc, recycled, at, stale>> /\ (fut' = "done" /\ fut # "done" => OnControl(s))
  BY DEF Reader, LoopHead, Connected, SubscribeNext, ReaderRaises, BackoffOver,
     IdleTimeout, OnControl, CallUnchanged, FailPendingAcks, callVars
<1>3. CASE t # s
  <2>1. numbers(t)' = numbers(t)  BY <1>1, <1>3, ReaderMoves
  <2>2. errors'[t] = errors[t] /\ link'[t] = link[t] /\ (t \notin spared' => t \notin spared)
    BY <1>1, <1>3 DEF Reader, LoopHead, Connected, SubscribeNext, ReaderRaises, BackoffOver,
     IdleTimeout, OnControl, ReadersTyped, shardVars, netVars
  <2>3. at = t /\ rpc = "ack" /\ fut' = "done" => fut = "done"
    BY <1>3 DEF Reader, LoopHead, Connected, SubscribeNext, ReaderRaises, BackoffOver,
     IdleTimeout, OnControl, FailPendingAcks, callVars
  <2>4. Calm(t)  BY <1>2, <2>2, <2>3 DEF Calm, Trusted, Open
  <2>5. QED  BY <1>1, <2>1, <2>2, <2>4, AnsweredKept
<1>4. CASE t = s /\ Connected(s)
  <2>1. Resets(t)  BY <1>1, <1>4 DEF Connected, Resets, ReadersTyped, Wired
  <2>2. Requested(t)' = {} /\ Written(t)' = {}  BY <2>1, NumbersReset DEF Resets, Written, NotRead
  <2>3. QED  BY <2>2 DEF Answered
<1>5. CASE t = s /\ ~Open(t)'  BY <1>5 DEF Answered, Trusted
<1>6. CASE t = s /\ SubscribeNext(s)
  <2>1. errors' = errors /\ Trusted(t)' = Trusted(t) /\ fut' = fut
    BY <1>6 DEF SubscribeNext, Trusted, Open, callVars
  <2>2. CASE Less(t) /\ Written(t)' = Written(t)
    <3>1. Requested(t)' = Requested(t)  BY <1>1, <2>2, NumbersLess
    <3>2. chan' = chan  BY <1>6 DEF SubscribeNext
    <3>3. Refused(t)' = Refused(t)  BY <2>1, <3>2 DEF Refused
    <3>4. Leaving(t)' = Leaving(t) /\ First(stale)' = First(stale)  BY <1>2 DEF Leaving, First
    <3>5. QED  BY <1>1, <1>2, <2>1, <2>2, <3>1, <3>3, <3>4 DEF Answered
  <2>3. CASE \E b \in Batch : Writes(t, <<b>>) /\ Written(t)' = Written(t) \cup {b}
    <3>1. PICK b \in Batch : Writes(t, <<b>>) /\ Written(t)' = Written(t) \cup {b}  BY <2>3
    <3>2. ToSet(<<b>>) = {b}  BY DEF ToSet
    <3>3. Requested(t)' = Requested(t) \cup {b}  BY <1>1, <3>1, <3>2, NumbersGrow
    <3>4. chan' = chan  BY <1>6 DEF SubscribeNext
    <3>5. Refused(t)' = Refused(t)  BY <2>1, <3>4 DEF Refused
    <3>6. Leaving(t)' = Leaving(t) /\ First(stale)' = First(stale)  BY <1>2 DEF Leaving, First
    <3>7. rpc = "ack" /\ at = t => First(stale) # b
      <4>1. rpc = "ack" /\ at = t => First(stale).rid <= ridSeq[t]  BY <1>1 DEF NInv, Awaited
      <4>2. b.rid = ridSeq[t] + 1 /\ ridSeq[t] \in Nat
        <5>1. Len(<<b>>) = 1 /\ <<b>>[1] = b /\ 1 \in 1..1  OBVIOUS
        <5>2. QED  BY <1>1, <3>1, <5>1, ConnectionTyped DEF Writes
      <4>3. QED  BY <4>1, <4>2
    <3>8. QED  BY <1>1, <1>2, <2>1, <3>1, <3>3, <3>5, <3>6, <3>7 DEF Answered
  <2>4. QED  BY <1>1, <1>6, <2>2, <2>3, SubscribeWrites
<1>7. CASE t = s /\ OnControl(s)
  <2>1. /\ UNCHANGED <<batches, sent, ridSeq, sub, cmds, link, spared>> /\ chan[s] # <<>>
        /\ chan'[s] = Tail(chan[s])
        /\ errors' = IF Head(chan[s]).kind = "error" THEN [errors EXCEPT ![s] = @ + 1] ELSE errors
        /\ fut' = "done" => \/ fut = "done"
                            \/ /\ Head(chan[s]).kind = "unsubscribed"
                               /\ Head(chan[s]).rid = First(stale).rid
    BY <1>1, <1>7 DEF OnControl, readerVars
  <2>2. Requested(t)' = Requested(t) /\ Written(t)' = Written(t) /\ Trusted(t)' = Trusted(t)
    BY <1>2, <1>7, <2>1 DEF Requested, Written, Subscribing, Trusted, Open
  <2>3. Leaving(t)' = Leaving(t) /\ First(stale)' = First(stale)  BY <1>2 DEF Leaving, First
  <2>4. chan[s] \in Seq(Frame) /\ errors[s] \in Nat /\ errors'[s] \in Nat
        /\ errors \in [Shard -> Nat]
    BY <1>1, <1>7, ConnectionTyped DEF ReadersTyped, NInv, WInv, TInv
  <2>5. Refused(t) => Refused(t)'
    <3> SUFFICES ASSUME Refused(t) PROVE Refused(t)'  OBVIOUS
    <3>1. errors'[s] >= errors[s] /\ (Head(chan[s]).kind = "error" => errors'[s] > 0)
      BY <2>1, <2>4
    <3>2. CASE errors[s] > 0  BY <1>7, <2>4, <3>1, <3>2 DEF Refused
    <3>3. CASE \E i \in 1..Len(chan[s]) : chan[s][i].kind = "error"
      <4>1. PICK i \in 1..Len(chan[s]) : chan[s][i].kind = "error"  BY <3>3
      <4>2. i = 1 \/ (i - 1 \in 1..Len(Tail(chan[s])) /\ chan[s][i] = Tail(chan[s])[i - 1])
        BY <2>1, <2>4, FrameRead
      <4>3. Head(chan[s]) = chan[s][1]  BY <2>1, <2>4, FrameRead
      <4>4. CASE i = 1  BY <1>7, <3>1, <4>1, <4>3, <4>4 DEF Refused
      <4>5. CASE i - 1 \in 1..Len(Tail(chan[s])) /\ chan[s][i] = Tail(chan[s])[i - 1]
        BY <1>7, <2>1, <4>1, <4>5 DEF Refused
      <4>6. QED  BY <4>2, <4>4, <4>5
    <3>4. QED  BY <1>7, <3>2, <3>3 DEF Refused
  <2>6. Head(chan[s]).kind = "unsubscribed" /\ Head(chan[s]).rid = First(stale).rid
          => First(stale) \notin Requested(t)
    <3>1. Head(chan[s]) = chan[s][1] /\ 1 \in 1..Len(chan[s])  BY <2>1, <2>4, FrameRead
    <3>2. QED  BY <1>1, <1>7, <3>1 DEF Once
  <2>7. QED  BY <1>1, <1>2, <2>1, <2>2, <2>3, <2>5, <2>6 DEF Answered
<1>8. CASE t = s /\ (LoopHead(s) \/ BackoffOver(s) \/ IdleTimeout(s) \/ ReaderRaises(s))
  <2>1. ~Open(t)'
    BY <1>1, <1>8 DEF LoopHead, BackoffOver, IdleTimeout, ReaderRaises, ReadersTyped, shardVars,
       netVars, Wired, Open
  <2>2. QED  BY <1>5, <1>8, <2>1
<1>9. QED  BY <1>3, <1>4, <1>6, <1>7, <1>8 DEF Reader

LEMMA VenueAnswered ==
  ASSUME AInv, NEW s \in Shard, Venue(s), NEW t \in Shard
  PROVE  Answered(t)'
<1>1. NInv /\ Answered(t)  BY DEF AInv
<1>2. /\ Serves(s) /\ \A u \in Shard : u # s => numbers(u)' = numbers(u)
      /\ UNCHANGED <<errors, rpc, recycled, at, stale, fut, link, spared>>
  BY <1>1, VenueMoves DEF shardVars, callVars
<1>3. Trusted(t)' = Trusted(t)  BY <1>2 DEF Trusted, Open
<1>4. CASE t = s  BY <1>1, <1>2, <1>3, <1>4, AnsweredServed
<1>5. CASE t # s
  <2>1. Calm(t)  BY <1>2, <1>3 DEF Calm
  <2>2. QED  BY <1>1, <1>2, <1>5, <2>1, AnsweredKept
<1>6. QED  BY <1>4, <1>5

LEMMA PruneAnswered ==
  ASSUME AInv, PruneNext, NEW t \in Shard
  PROVE  Answered(t)'
<1> DEFINE todo == IF stale = NotRead THEN Stale ELSE stale
           now  == IF todo = {} THEN {} ELSE IF ws[at] THEN {First(todo)} ELSE todo
<1>1. /\ NInv /\ WInv /\ ReadersTyped /\ at \in Shard /\ Fresh(t) /\ Once(t) /\ Answered(t) /\ Wired(t)
      /\ rpc = "prune"
  BY DEF AInv, NInv, WInv, TInv, EInv, Shaped, PruneNext
<1>2. /\ batches' = [batches EXCEPT ![at] = @ \ now]
      /\ UNCHANGED <<sent, ridSeq, sub, chan, errors, link, ws, spared, desired>>
  BY DEF PruneNext, readerVars
<1>3. \/ /\ todo = {} \/ ~ws[at]
         /\ Advance("prune", "add") /\ UNCHANGED <<recycled, cmds>>
      \/ GiveUpOn
      \/ /\ todo # {} /\ ws[at] /\ rpc' = "ack" /\ stale' = todo /\ fut' = "pending" /\ UNCHANGED <<recycled, at>>
         /\ cmds' = [cmds EXCEPT ![at] = Append(@, [op |-> "unsubscribe", batch |-> First(todo)])]
  BY DEF PruneNext, Sendable
<1>4. todo \subseteq batches[at]  BY <1>1 DEF WInv, InTurn, Stale, StaleOn
<1> HIDE DEF todo
<1>5. recycled \subseteq recycled' /\ rpc' # "idle" /\ (rpc' = "ack" => at' = at)
  BY <1>3 DEF GiveUpOn, Advance
<1>6. Trusted(t)' => Trusted(t)  BY <1>2, <1>5 DEF Trusted, Open
<1>7. CASE t # at
  <2>1. numbers(t)' = numbers(t)  BY <1>1, <1>7, PruneMoves
  <2>2. Calm(t)  BY <1>1, <1>5, <1>6, <1>7 DEF Calm
  <2>3. QED  BY <1>1, <1>2, <2>1, <2>2, AnsweredKept
<1>8. CASE t = at
  <2>1. CASE GiveUpOn
    <3>1. t \in recycled'  BY <1>8, <2>1 DEF GiveUpOn
    <3>2. QED  BY <1>5, <3>1 DEF Answered, Trusted
  <2>2. CASE ~ws[at]
    <3>1. ~Open(t)'  BY <1>1, <1>2, <1>8, <2>2 DEF Wired, Open
    <3>2. QED  BY <3>1 DEF Answered, Trusted
  <2>3. CASE todo = {} /\ Advance("prune", "add") /\ cmds' = cmds
    <3>1. numbers(t)' = numbers(t)  BY <1>1, <1>2, <1>8, <2>3 DEF numbers, ReadersTyped
    <3>2. rpc' \in {"prune", "add"}  BY <2>3 DEF Advance
    <3>3. Calm(t)  BY <1>1, <1>6, <3>2 DEF Calm
    <3>4. QED  BY <1>1, <1>2, <3>1, <3>3, AnsweredKept
  <2>4. CASE /\ todo # {} /\ ws[at] /\ rpc' = "ack" /\ stale' = todo /\ fut' = "pending" /\ at' = at
             /\ cmds' = [cmds EXCEPT ![at] = Append(@, [op |-> "unsubscribe", batch |-> First(todo)])]
    <3> DEFINE b == First(todo)
    <3>1. batches[t] \in SUBSET Batch  BY <1>1, ConnectionTyped
    <3>2. b \in batches[t] /\ b \in Batch  BY <1>4, <1>8, <2>4, <3>1, FirstIn
    <3>3. now = {b}  BY <2>4
    <3>4. Stops(t, b)  BY <1>1, <1>2, <1>8, <2>4, <3>2, <3>3 DEF Stops, ReadersTyped
    <3>5. Requested(t)' = Requested(t)  BY <1>1, <3>2, <3>4, NumbersStop
    <3>6. First(stale)' = b  BY <2>4 DEF First
    <3> HIDE DEF b
    <3>7. Leaving(t)' = {b} /\ Leaving(t) = {}  BY <1>1, <1>8, <2>4, <3>6 DEF Leaving
    <3>8. Written(t)' \subseteq Written(t) /\ Written(t) \subseteq Written(t)' \cup {b}
      BY <1>2, <3>4 DEF Written, Stops
    <3>9. Refused(t)' = Refused(t)  BY <1>2 DEF Refused
    <3>10. QED  BY <1>1, <1>6, <2>4, <3>5, <3>7, <3>8, <3>9 DEF Answered
  <2>5. QED  BY <1>3, <2>1, <2>2, <2>3, <2>4
<1>9. QED  BY <1>7, <1>8

LEMMA AckAnswered ==
  ASSUME AInv, Acknowledged \/ AckTimeout, NEW t \in Shard
  PROVE  Answered(t)'
<1>1. /\ NInv /\ WInv /\ at \in Shard /\ Answered(t) /\ Wired(t) /\ rpc = "ack"
      /\ UNCHANGED <<errors, link>>
  BY DEF AInv, NInv, WInv, TInv, EInv, Shaped, Acknowledged, AckTimeout, shardVars, netVars
<1>2. \/ /\ Acknowledged /\ rpc' = "prune" /\ UNCHANGED <<recycled, at, spared>>
      \/ Acknowledged /\ rpc' = "idle" /\ spared' = spared \cup recycled
      \/ GiveUpOn /\ spared' = spared
  BY DEF Acknowledged, AckTimeout
<1>3. rpc' # "ack" /\ (Acknowledged => fut = "done")
  BY DEF Acknowledged, AckTimeout, GiveUpOn, Advance
<1>4. Trusted(t)' => Trusted(t)
  BY <1>1, <1>2 DEF Trusted, Open, GiveUpOn, Advance
<1>5. CASE GiveUpOn /\ t = at
  <2>1. t \in recycled' /\ rpc' # "idle"  BY <1>5 DEF GiveUpOn, Advance
  <2>2. QED  BY <2>1 DEF Answered, Trusted
<1>6. CASE numbers(t)' = numbers(t) /\ ~(GiveUpOn /\ t = at)
  <2>1. rpc = "ack" /\ at = t => fut = "done"  BY <1>2, <1>3, <1>6
  <2>2. Calm(t)  BY <1>3, <1>4, <2>1 DEF Calm
  <2>3. QED  BY <1>1, <1>6, <2>2, AnsweredKept
<1>7. CASE t = at /\ numbers(t)' # numbers(t)
  <2>1. /\ Acknowledged
        /\ \E bs : Writes(t, bs) /\ Written(t)' = Written(t) \cup ToSet(bs)
    BY <1>1, <1>7, AckWrites
  <2>2. PICK bs : Writes(t, bs) /\ Written(t)' = Written(t) \cup ToSet(bs)  BY <2>1
  <2>3. Leaving(t) = {First(stale)} /\ fut = "done"  BY <1>1, <1>3, <1>7, <2>1 DEF Leaving
  <2>4. QED  BY <1>1, <1>3, <1>4, <1>7, <2>2, <2>3, AnsweredGrows
<1>8. CASE t # at
  <2>1. numbers(t)' = numbers(t)  BY <1>1, <1>8, AckWrites
  <2>2. QED  BY <1>6, <1>8, <2>1
<1>9. QED  BY <1>5, <1>6, <1>7, <1>8

LEMMA PlaceAnswered ==
  ASSUME AInv, PlaceAdds, NEW t \in Shard
  PROVE  Answered(t)'
<1>1. /\ NInv /\ WInv /\ at \in Shard /\ Answered(t) /\ rpc = "add" /\ rpc' \in {"add", "overflow"}
      /\ recycled \subseteq recycled' /\ UNCHANGED <<errors, link, spared>>
  BY DEF AInv, NInv, WInv, TInv, EInv, Shaped, PlaceAdds, Advance
<1>2. Trusted(t)' => Trusted(t)  BY <1>1 DEF Trusted, Open
<1>3. CASE numbers(t)' = numbers(t)
  <2>1. Calm(t)  BY <1>1, <1>2 DEF Calm
  <2>2. QED  BY <1>1, <1>3, <2>1, AnsweredKept
<1>4. CASE t = at /\ numbers(t)' # numbers(t)
  <2>1. \E bs : Writes(t, bs) /\ Written(t)' = Written(t) \cup ToSet(bs)
    BY <1>1, <1>4, PlaceWrites
  <2>2. PICK bs : Writes(t, bs) /\ Written(t)' = Written(t) \cup ToSet(bs)  BY <2>1
  <2>3. Leaving(t) = {}  BY <1>1 DEF Leaving
  <2>4. QED  BY <1>1, <1>2, <2>2, <2>3, AnsweredGrows
<1>5. CASE t # at  BY <1>1, <1>3, <1>5, PlaceWrites
<1>6. QED  BY <1>3, <1>4, <1>5

LEMMA OthersAnswered ==
  ASSUME AInv, NEW t \in Shard, NEW s \in Shard, NEW M \in MatchSet,
         \/ Resync(M) \/ OrphansPruned \/ Overflow \/ GraceOver \/ Recycle(s)
         \/ StreamStarts \/ (s \in shards /\ ReaderEnds(s)) \/ (\E how \in {"closed", "stalled"} : LinkFails(s, how))
  PROVE  Answered(t)'
<1>1. /\ NInv /\ WInv /\ Answered(t) /\ Wired(t) /\ ReadersTyped /\ UNCHANGED <<errors, spared>>
      /\ recycled \subseteq shards
  BY DEF AInv, NInv, WInv, TInv, CallTyped, Resync, OrphansPruned, Overflow, GraceOver, Recycle,
     StreamStarts, ReaderEnds, LinkFails, shardVars
<1>2. numbers(t)' = numbers(t)
  <2>1. UNCHANGED <<batches, sent, ridSeq, sub, cmds, chan>>  BY <1>1, OthersKeep
  <2>2. QED  BY <2>1 DEF numbers
<1>3. Open(t)' => Open(t)
  BY <1>1 DEF Resync, OrphansPruned, Overflow, GraceOver, Recycle, LinkAfterRecycle, StreamStarts,
     ReaderEnds, LinkFails, netVars, ReadersTyped, Open, Wired
<1>4. Calm(t)
  <2>1. CASE Resync(M)  BY <1>1, <1>3, <2>1 DEF Resync, Calm, Trusted
  <2>2. CASE OrphansPruned  BY <1>1, <1>3, <2>2 DEF OrphansPruned, Calm, Trusted
  <2>3. CASE Overflow  BY <1>1, <1>3, <2>3 DEF Overflow, Calm, Trusted
  <2>4. CASE GraceOver  BY <1>1, <1>3, <2>4 DEF GraceOver, Calm, Trusted
  <2>5. CASE Recycle(s)
    <3>1. /\ rpc = "recycle" /\ recycled' = recycled \ {s} /\ rpc' \in {"idle", "recycle"}
          /\ rpc' = "idle" => recycled' = {}
      BY <2>5 DEF Recycle
    <3>2. Open(s)' => FALSE
      BY <1>1, <2>5 DEF Recycle, LinkAfterRecycle, ReadersTyped, Open, NInv, WInv, Wired
    <3>3. QED  BY <1>1, <1>3, <3>1, <3>2 DEF Calm, Trusted
  <2>6. CASE StreamStarts  BY <1>1, <1>3, <2>6 DEF StreamStarts, callVars, Calm, Trusted
  <2>7. CASE s \in shards /\ ReaderEnds(s)  BY <1>1, <1>3, <2>7 DEF ReaderEnds, callVars, Calm, Trusted
  <2>8. CASE \E how \in {"closed", "stalled"} : LinkFails(s, how)
    BY <1>1, <1>3, <2>8 DEF LinkFails, callVars, Calm, Trusted
  <2>9. QED  BY <2>1, <2>2, <2>3, <2>4, <2>5, <2>6, <2>7, <2>8
<1>5. QED  BY <1>1, <1>2, <1>4, AnsweredKept

LEMMA AInvInit == Init => AInv
<1> SUFFICES ASSUME Init PROVE AInv  OBVIOUS
<1>1. \A s \in Shard : ~Open(s)  BY NothingWired DEF Init, Open
<1>2. QED  BY <1>1, NInvInit DEF AInv, Answered, Trusted

LEMMA AInvNext == AInv /\ [Next]_vars => AInv'
<1> SUFFICES ASSUME AInv, [Next]_vars, NEW t \in Shard PROVE Answered(t)'
  BY NInvNext DEF AInv
<1>1. NInv /\ Answered(t) /\ desired \in MatchSet /\ shards \subseteq Shard
  BY DEF AInv, NInv, WInv, TInv, EInv, Shaped
<1>2. CASE UNCHANGED vars
  <2>1. numbers(t)' = numbers(t) /\ errors' = errors
    BY <1>2 DEF vars, numbers, shardVars, readerVars, netVars
  <2>2. Calm(t)  BY <1>2 DEF vars, callVars, netVars, Calm, Trusted, Open
  <2>3. QED  BY <1>1, <2>1, <2>2, AnsweredKept
<1>3. CASE \E s \in Shard : Reader(s) \/ Venue(s)  BY <1>3, ReaderAnswered, VenueAnswered
<1>4. CASE PruneNext  BY <1>4, PruneAnswered
<1>5. CASE Acknowledged \/ AckTimeout  BY <1>5, AckAnswered
<1>6. CASE PlaceAdds  BY <1>6, PlaceAnswered
<1>7. CASE Torn
  <2>1. ~Open(t)'  BY <1>7, NothingWired DEF Torn, Open
  <2>2. QED  BY <2>1 DEF Answered, Trusted
<1>8. CASE \/ \E M \in MatchSet : Resync(M)
           \/ OrphansPruned \/ Overflow \/ GraceOver \/ StreamStarts
           \/ \E s \in Shard : Recycle(s) \/ \E how \in {"closed", "stalled"} : LinkFails(s, how)
           \/ \E s \in shards : ReaderEnds(s)
  <2>1. PICK s \in Shard, M \in MatchSet :
          \/ Resync(M) \/ OrphansPruned \/ Overflow \/ GraceOver \/ Recycle(s) \/ StreamStarts
          \/ (s \in shards /\ ReaderEnds(s)) \/ (\E how \in {"closed", "stalled"} : LinkFails(s, how))
    BY <1>1, <1>8
  <2>2. QED  BY <2>1, OthersAnswered
<1>9. QED
  BY <1>2, <1>3, <1>4, <1>5, <1>6, <1>7, <1>8
  DEF Next, Refresher, Stream, StreamEnds, ConsumerRaises

-----------------------------------------------------------------------------
(* Coverage: what a shard streams                                          *)

All(q) == UNION ToSet(q)

\* The slugs a shard has still to subscribe.
Unsent(s) == All(toSend[s])

Disjoint(bs) == \A b, c \in bs : b # c => b.slugs \cap c.slugs = {}
Cut(q) == \A i, j \in 1..Len(q) : i # j => q[i] \cap q[j] = {}

\* Is this shard being pruned, and what will it no longer want?
Turn(s) == rpc \in {"prune", "ack"} /\ at = s
Dying(s) == IF Turn(s) THEN Slugs(stale) \ desired ELSE {}

Held(s) == Written(s) \cup Leaving(s)

\* A shard wants what its batches name or are still to name, and nothing else but what it
\* is being pruned of; no two of them name one slug.
Listed(s) ==
  Trusted(s) =>
    /\ meta[s] \subseteq Slugs(Held(s)) \cup Unsent(s)
    /\ rpc = "ack" /\ at = s =>
         First(stale) \notin Written(s) /\ meta[s] \cap First(stale).slugs \subseteq desired
    /\ ~doubled =>
         /\ Slugs(Held(s)) \cup Unsent(s) \subseteq meta[s] \cup Dying(s)
         /\ Disjoint(Held(s)) /\ \A b \in Held(s) : b.slugs \cap Unsent(s) = {}
         /\ Turn(s) => Cardinality(meta[s] \cup Slugs(stale)) <= MaxSubs

\* What is asked of a connection, and is still to be asked of it, is asked for once and
\* within the limit.
Fits(s) ==
  ~doubled /\ s \notin spared =>
    /\ Disjoint(Requested(s)) /\ \A b \in Requested(s) : b.slugs \cap Unsent(s) = {}
    /\ Cut(toSend[s])
    /\ Cardinality(Slugs(Requested(s)) \cup Unsent(s)) <= MaxSubs

LInv == AInv /\ \A s \in Shard : Listed(s) /\ Fits(s)

LEMMA SlugsOf ==
  /\ Slugs({}) = {} /\ Slugs(NotRead) = {}
  /\ \A b : Slugs({b}) = b.slugs
  /\ \A A, B : Slugs(A \cup B) = Slugs(A) \cup Slugs(B)
  /\ \A A, B : A \subseteq B => Slugs(A) \subseteq Slugs(B)
  /\ \A A : \A b \in A : b.slugs \subseteq Slugs(A)
BY DEF Slugs, NotRead, NoBatch

LEMMA SlugsTyped ==
  ASSUME NEW A \in SUBSET Batch
  PROVE  Slugs(A) \in SUBSET Slug
BY DEF Slugs, Batch

LEMMA AllTyped ==
  ASSUME NEW q \in Seq(SUBSET Slug)
  PROVE  All(q) \in SUBSET Slug
<1>1. DOMAIN q = 1..Len(q) /\ \A i \in 1..Len(q) : q[i] \in SUBSET Slug  OBVIOUS
<1>2. QED  BY <1>1 DEF All, ToSet

LEMMA AllNone == All(<<>>) = {} /\ Cut(<<>>)
BY DEF All, ToSet, Cut

LEMMA AllTail ==
  ASSUME NEW q \in Seq(SUBSET Slug), q # <<>>
  PROVE  /\ All(q) = Head(q) \cup All(Tail(q)) /\ Tail(q) \in Seq(SUBSET Slug)
         /\ Head(q) \in SUBSET Slug
         /\ Cut(q) => Cut(Tail(q)) /\ Head(q) \cap All(Tail(q)) = {}
<1> DEFINE r == Tail(q)
<1>1. /\ Head(q) = q[1] /\ r \in Seq(SUBSET Slug) /\ Len(r) = Len(q) - 1 /\ Len(q) \in Nat /\ Len(q) > 0
      /\ \A i \in 1..Len(r) : r[i] = q[i + 1] /\ Head(q) \in SUBSET Slug
      /\ q[1] \in SUBSET Slug
  OBVIOUS
<1> HIDE DEF r
<1>2. DOMAIN q = 1..Len(q) /\ DOMAIN r = 1..Len(r)  BY <1>1
<1>3. \A i \in 1..Len(r) : i + 1 \in 1..Len(q) /\ r[i] = q[i + 1] /\ i + 1 # 1  BY <1>1
<1>4. \A i \in 1..Len(q) : i = 1 \/ \E j \in 1..Len(r) : i = j + 1
  <2> SUFFICES ASSUME NEW i \in 1..Len(q), i # 1 PROVE \E j \in 1..Len(r) : i = j + 1
    OBVIOUS
  <2>1. i - 1 \in 1..Len(r) /\ i = (i - 1) + 1  BY <1>1
  <2>2. QED  BY <2>1
<1>5. 1 \in 1..Len(q)  BY <1>1
<1>6. All(q) = q[1] \cup All(r)
  <2>1. ASSUME NEW i \in 1..Len(q) PROVE q[i] \subseteq q[1] \cup All(r)
    <3>1. CASE i = 1  BY <3>1
    <3>2. CASE \E j \in 1..Len(r) : i = j + 1
      <4>1. PICK j \in 1..Len(r) : i = j + 1  BY <3>2
      <4>2. q[i] = r[j]  BY <1>3, <4>1
      <4>3. QED  BY <1>2, <4>2 DEF All, ToSet
    <3>3. QED  BY <1>4, <3>1, <3>2
  <2>2. ASSUME NEW j \in 1..Len(r) PROVE r[j] \subseteq All(q)
    BY <1>2, <1>3 DEF All, ToSet
  <2>3. All(q) \subseteq q[1] \cup All(r)  BY <1>2, <2>1 DEF All, ToSet
  <2>4. All(r) \subseteq All(q)  BY <1>2, <2>2 DEF All, ToSet
  <2>5. q[1] \subseteq All(q)  BY <1>2, <1>5 DEF All, ToSet
  <2>6. QED  BY <2>3, <2>4, <2>5
<1>7. ASSUME Cut(q) PROVE Cut(r) /\ q[1] \cap All(r) = {}
  <2>1. ASSUME NEW i \in 1..Len(r), NEW j \in 1..Len(r), i # j PROVE r[i] \cap r[j] = {}
    <3>1. i + 1 # j + 1  BY <2>1
    <3>2. QED  BY <1>3, <1>7, <3>1 DEF Cut
  <2>2. \A j \in 1..Len(r) : q[1] \cap r[j] = {}  BY <1>3, <1>5, <1>7 DEF Cut
  <2>3. q[1] \cap All(r) = {}  BY <1>2, <2>2 DEF All, ToSet
  <2>4. QED  BY <2>1, <2>3 DEF Cut
<1>8. QED  BY <1>1, <1>6, <1>7 DEF r

\* What a shard speaks of are slugs.
LEMMA SlugsHeld ==
  ASSUME WInv, NEW s \in Shard
  PROVE  /\ Unsent(s) \in SUBSET Slug /\ Slugs(Requested(s)) \in SUBSET Slug
         /\ meta[s] \in SUBSET Slug /\ Slugs(stale) \in SUBSET Slug /\ Slugs(Written(s)) \in SUBSET Slug
<1>1. /\ toSend[s] \in Seq(SUBSET Slug) /\ Requested(s) \in SUBSET Batch /\ meta[s] \in SUBSET Slug
      /\ Written(s) \in SUBSET Batch /\ stale \in SUBSET Batch
  BY ConnectionTyped DEF WInv, TInv, CallTyped
<1>2. QED  BY <1>1, SlugsTyped, AllTyped DEF Unsent

\* Nothing this shard is listed for moves, and its turn does not come, go, or end half way.
LEMMA ListedKept ==
  ASSUME NEW s \in Shard, Listed(s), Trusted(s)' => Trusted(s), meta'[s] = meta[s],
         Written(s)' = Written(s), toSend'[s] = toSend[s], doubled' = doubled, Sized',
         \/ UNCHANGED <<rpc, at, stale, desired>>
         \/ ~Turn(s) /\ (Turn(s)' => rpc' = "prune" /\ stale' = NotRead)
  PROVE  Listed(s)'
<1>1. CASE UNCHANGED <<rpc, at, stale, desired>>
  <2>1. /\ First(stale)' = First(stale) /\ Leaving(s)' = Leaving(s) /\ Dying(s)' = Dying(s)
        /\ Held(s)' = Held(s) /\ Unsent(s)' = Unsent(s) /\ Turn(s)' = Turn(s)
        /\ Slugs(stale)' = Slugs(stale)
    BY <1>1 DEF First, Leaving, Dying, Held, Unsent, Slugs, Turn
  <2>2. QED  BY <1>1, <2>1 DEF Listed
<1>2. CASE ~Turn(s) /\ (Turn(s)' => rpc' = "prune" /\ stale' = NotRead)
  <2>1. Leaving(s) = {} /\ Dying(s) = {}  BY <1>2 DEF Leaving, Dying, Turn
  <2>2. Leaving(s)' = {}  BY <1>2 DEF Leaving, Turn
  <2>3. Turn(s)' => Slugs(stale)' = {}  BY <1>2, SlugsOf
  <2>4. Dying(s)' = {}  BY <2>3 DEF Dying
  <2>5. Held(s)' = Held(s) /\ Unsent(s)' = Unsent(s)  BY <2>1, <2>2 DEF Held, Unsent
  <2>6. ~(rpc' = "ack" /\ at' = s)  BY <1>2 DEF Turn
  <2>7. Turn(s)' => Cardinality(meta'[s] \cup Slugs(stale)') <= MaxSubs  BY <2>3 DEF Sized
  <2>8. QED  BY <2>1, <2>4, <2>5, <2>6, <2>7 DEF Listed
<1>3. QED  BY <1>1, <1>2

LEMMA FitsKept ==
  ASSUME WInv, NEW s \in Shard, Fits(s), Requested(s)' \subseteq Requested(s),
         toSend'[s] \in {toSend[s], <<>>}, doubled' = doubled, s \notin spared' => s \notin spared
  PROVE  Fits(s)'
<1> SUFFICES ASSUME ~doubled, s \notin spared PROVE Fits(s)'  BY DEF Fits
<1>1. Unsent(s)' \subseteq Unsent(s) /\ Cut(toSend'[s])  BY AllNone DEF Fits, Unsent
<1>2. Disjoint(Requested(s)')  BY DEF Fits, Disjoint
<1>3. \A b \in Requested(s)' : b.slugs \cap Unsent(s)' = {}  BY <1>1 DEF Fits
<1>4. Cardinality(Slugs(Requested(s)') \cup Unsent(s)') <= MaxSubs
  <2> DEFINE T == Slugs(Requested(s)) \cup Unsent(s)
             S == Slugs(Requested(s)') \cup Unsent(s)'
  <2>1. T \in SUBSET Slug  BY SlugsHeld
  <2>2. Slugs(Requested(s)') \subseteq Slugs(Requested(s))  BY SlugsOf
  <2>3. S \in SUBSET T  BY <1>1, <2>2
  <2>4. Cardinality(T) <= MaxSubs  BY DEF Fits
  <2> HIDE DEF S, T
  <2>5. QED  BY <2>1, <2>3, <2>4, SmallerSized DEF S
<1>5. Disjoint(Requested(s))' /\ Cut(toSend[s])' /\ Slugs(Requested(s))' = Slugs(Requested(s)')
  BY <1>1, <1>2 DEF Disjoint, Cut, Slugs
<1>6. QED  BY <1>3, <1>4, <1>5 DEF Fits

\* A reader subscribes the next batch: what was still to be asked for is asked for.
LEMMA SubscribeListed ==
  ASSUME LInv, NEW s \in Shard, NEW b \in Batch, toSend[s] # <<>>, b.slugs = Head(toSend[s]),
         toSend'[s] = Tail(toSend[s]), Written(s)' = Written(s) \cup {b},
         Requested(s)' = Requested(s) \cup {b}, b.rid > ridSeq[s],
         UNCHANGED <<meta, rpc, at, stale, desired, doubled, spared>>, Trusted(s)' = Trusted(s)
  PROVE  Listed(s)' /\ Fits(s)'
<1>1. Listed(s) /\ Fits(s) /\ WInv /\ Awaited  BY DEF LInv, AInv, NInv
<1>2. toSend[s] \in Seq(SUBSET Slug) /\ ridSeq[s] \in Nat  BY <1>1, ConnectionTyped
<1>3. /\ Unsent(s) = b.slugs \cup Unsent(s)'
      /\ Cut(toSend[s]) => Cut(toSend[s])' /\ b.slugs \cap Unsent(s)' = {}
  <2> DEFINE q == toSend[s]
  <2>1. /\ All(q) = Head(q) \cup All(Tail(q))
        /\ Cut(q) => Cut(Tail(q)) /\ Head(q) \cap All(Tail(q)) = {}
    BY <1>2, AllTail
  <2>2. Unsent(s)' = All(Tail(q)) /\ (Cut(toSend[s])' <=> Cut(Tail(q)))  BY DEF Unsent, All, Cut
  <2>3. QED  BY <2>1, <2>2 DEF Unsent
<1>4. /\ First(stale)' = First(stale) /\ Leaving(s)' = Leaving(s) /\ Dying(s)' = Dying(s)
      /\ Turn(s)' = Turn(s) /\ Slugs(stale)' = Slugs(stale)
  BY DEF First, Leaving, Dying, Slugs, Turn
<1>5. Held(s)' = Held(s) \cup {b}  BY <1>4 DEF Held
<1>6. Slugs(Held(s))' = Slugs(Held(s)) \cup b.slugs
  BY <1>5 DEF Slugs
<1>7. Slugs(Held(s))' \cup Unsent(s)' = Slugs(Held(s)) \cup Unsent(s)  BY <1>3, <1>6
<1>8. ASSUME ~doubled, s \notin spared PROVE Cut(toSend[s]) BY <1>1, <1>8 DEF Fits
<1>9. Listed(s)'
  <2> SUFFICES ASSUME Trusted(s) PROVE Listed(s)'  BY DEF Listed
  <2>1. meta[s] \subseteq Slugs(Held(s))' \cup Unsent(s)'  BY <1>1, <1>7 DEF Listed
  <2>2. rpc = "ack" /\ at = s => First(stale) \notin Written(s)' /\ meta[s] \cap First(stale).slugs \subseteq desired
    <3>1. rpc = "ack" /\ at = s => First(stale) # b
      <4> SUFFICES ASSUME rpc = "ack", at = s, First(stale) = b PROVE FALSE  OBVIOUS
      <4>1. b.rid <= ridSeq[s] /\ b.rid \in Nat  BY <1>1 DEF Awaited, Batch
      <4>2. QED  BY <1>2, <4>1
    <3>2. QED  BY <1>1, <3>1 DEF Listed
  <2>3. ASSUME ~doubled
        PROVE  /\ Disjoint(Held(s) \cup {b}) /\ \A c \in Held(s) \cup {b} : c.slugs \cap Unsent(s)' = {}
               /\ Slugs(Held(s)) \cup Unsent(s) \subseteq meta[s] \cup Dying(s)
               /\ Turn(s) => Cardinality(meta[s] \cup Slugs(stale)) <= MaxSubs
    <3>1. /\ Disjoint(Held(s)) /\ \A c \in Held(s) : c.slugs \cap Unsent(s) = {}
          /\ Slugs(Held(s)) \cup Unsent(s) \subseteq meta[s] \cup Dying(s)
          /\ Turn(s) => Cardinality(meta[s] \cup Slugs(stale)) <= MaxSubs
      BY <1>1, <2>3 DEF Listed
    <3>2. b.slugs \cap Unsent(s)' = {}  BY <1>3, <1>8, <2>3 DEF Trusted
    <3>3. \A c \in Held(s) : c.slugs \cap b.slugs = {} /\ c.slugs \cap Unsent(s)' = {}
      BY <1>3, <3>1
    <3>4. QED  BY <3>1, <3>2, <3>3 DEF Disjoint
  <2>4. Disjoint(Held(s))' = Disjoint(Held(s) \cup {b})  BY <1>5 DEF Disjoint
  <2>5. QED  BY <1>4, <1>5, <1>7, <2>1, <2>2, <2>3, <2>4 DEF Listed
<1>10. Fits(s)'
  <2> SUFFICES ASSUME ~doubled, s \notin spared PROVE Fits(s)'  BY DEF Fits
  <2>1. /\ Disjoint(Requested(s)) /\ \A c \in Requested(s) : c.slugs \cap Unsent(s) = {}
        /\ Cut(toSend[s])
        /\ Cardinality(Slugs(Requested(s)) \cup Unsent(s)) <= MaxSubs
    BY <1>1 DEF Fits
  <2>2. Slugs(Requested(s))' = Slugs(Requested(s)) \cup b.slugs
    BY DEF Slugs
  <2>3. Slugs(Requested(s))' \cup Unsent(s)' = Slugs(Requested(s)) \cup Unsent(s)  BY <1>3, <2>2
  <2>4. \A c \in Requested(s) : c.slugs \cap b.slugs = {} /\ c.slugs \cap Unsent(s)' = {}
    BY <1>3, <2>1
  <2>5. Disjoint(Requested(s))'  BY <2>1, <2>4 DEF Disjoint
  <2>6. \A c \in Requested(s)' : c.slugs \cap Unsent(s)' = {}  BY <1>3, <2>1, <2>4
  <2>7. QED  BY <1>3, <2>1, <2>3, <2>5, <2>6 DEF Fits
<1>11. QED  BY <1>9, <1>10

LEMMA ConnectedListed ==
  ASSUME LInv, NEW s \in Shard, Connected(s), ~Running
  PROVE  Listed(s)' /\ Fits(s)'
<1>1. /\ WInv /\ ReadersTyped /\ Wired(s) /\ ~(rpc = "ack" /\ at = s)
      /\ UNCHANGED <<meta, rpc, at, doubled>> /\ chan \in [Shard -> Seq(Frame)]
  BY DEF LInv, AInv, NInv, WInv, TInv, Connected, ReaderMayWait, InTurn, callVars
<1>2. Resets(s)  BY <1>1 DEF Connected, Resets, ReadersTyped, Wired
<1>3. Requested(s)' = {} /\ Written(s)' = {}  BY <1>2, NumbersReset DEF Resets, Written, NotRead
<1>4. rpc # "prune"  BY DEF Running
<1>5. ~Turn(s) /\ ~Turn(s)' /\ Leaving(s)' = {} /\ Dying(s)' = {}
  BY <1>1, <1>4 DEF Turn, Leaving, Dying
<1>6. meta[s] \in SUBSET Slug /\ Cardinality(meta[s]) <= MaxSubs
  BY <1>1, SlugsHeld DEF WInv, TInv, Sized
<1>7. Unsent(s)' = meta[s] /\ Cut(toSend[s])'
  <2> DEFINE p == Pieces(meta[s], SubBatch)
  <2>1. toSend'[s] = p  BY <1>1 DEF Connected, ReadersTyped
  <2>2. /\ Len(p) \in Nat /\ p \in [1..Len(p) -> SUBSET meta[s]]
        /\ \A i, j \in 1..Len(p) : i # j => p[i] \cap p[j] = {}
        /\ \A x \in meta[s] : \E i \in 1..Len(p) : x \in p[i]
    BY <1>6, PiecesCut, PolymarketAssumption
  <2> HIDE DEF p
  <2>3. All(p) = meta[s]
    <3>1. All(p) \subseteq meta[s]  BY <2>2 DEF All, ToSet
    <3>2. meta[s] \subseteq All(p)  BY <2>2 DEF All, ToSet
    <3>3. QED  BY <3>1, <3>2
  <2>4. Unsent(s)' = All(p) /\ (Cut(toSend[s])' <=> Cut(p))  BY <2>1 DEF Unsent, All, Cut
  <2>5. QED  BY <2>2, <2>3, <2>4 DEF Cut
<1>8. Held(s)' = {} /\ Slugs(Held(s))' = {}
  <2>1. Held(s)' = {}  BY <1>3, <1>5 DEF Held
  <2>2. QED  BY <2>1 DEF Slugs
<1>9. Listed(s)'
  <2>1. ~(rpc' = "ack" /\ at' = s)  BY <1>1
  <2>2. QED  BY <1>1, <1>5, <1>7, <1>8, <2>1 DEF Listed, Disjoint
<1>10. Slugs(Requested(s))' = {}  BY <1>3 DEF Slugs
<1>11. Fits(s)'  BY <1>3, <1>6, <1>7, <1>10 DEF Fits, Disjoint
<1>12. QED  BY <1>9, <1>11

LEMMA ReaderListed ==
  ASSUME LInv, NEW s \in Shard, Reader(s), NEW t \in Shard
  PROVE  Listed(t)' /\ Fits(t)'
<1>1. /\ NInv /\ WInv /\ NInv' /\ Listed(t) /\ Fits(t) /\ Wired(t)' /\ Wired(t) /\ ReadersTyped
      /\ Fresh(t) /\ Once(t) /\ Sized'
  <2>1. Next  BY DEF Next
  <2>2. NInv'  BY <2>1, NInvNext DEF LInv, AInv
  <2>3. QED  BY <2>2 DEF LInv, AInv, NInv, WInv, TInv
<1>2. UNCHANGED <<meta, rpc, recycled, at, stale, desired, doubled>>
  BY DEF Reader, LoopHead, Connected, SubscribeNext, ReaderRaises, BackoffOver,
     IdleTimeout, OnControl, CallUnchanged, callVars, shardVars
<1>3. CASE t # s
  <2>1. numbers(t)' = numbers(t)  BY <1>1, <1>3, ReaderMoves
  <2>2. link'[t] = link[t] /\ (t \notin spared' => t \notin spared) /\ toSend'[t] = toSend[t]
    BY <1>1, <1>3 DEF Reader, LoopHead, Connected, SubscribeNext, ReaderRaises, BackoffOver,
     IdleTimeout, OnControl, ReadersTyped, netVars, readerVars
  <2>3. Requested(t)' = Requested(t) /\ Written(t)' = Written(t)
    BY <2>1 DEF numbers, Requested, Subscribing, Written
  <2>4. Trusted(t)' => Trusted(t)  BY <1>2, <2>2 DEF Trusted, Open
  <2>5. Listed(t)'  BY <1>1, <1>2, <2>2, <2>3, <2>4, ListedKept
  <2>6. Fits(t)'  BY <1>1, <1>2, <2>2, <2>3, FitsKept
  <2>7. QED  BY <2>5, <2>6
<1>4. CASE t = s /\ Connected(s)  BY <1>4, ConnectedListed DEF Reader
<1>5. CASE t = s /\ SubscribeNext(s)
  <2>1. UNCHANGED <<spared, link, chan>> /\ Trusted(t)' = Trusted(t)
    BY <1>5 DEF SubscribeNext, Trusted, Open, callVars
  <2>2. CASE Less(t) /\ Written(t)' = Written(t) /\ toSend' = toSend
    <3>1. Requested(t)' = Requested(t)  BY <1>1, <2>2, NumbersLess
    <3>2. Listed(t)'  BY <1>1, <1>2, <2>1, <2>2, ListedKept
    <3>3. Fits(t)'  BY <1>1, <1>2, <2>1, <2>2, <3>1, FitsKept
    <3>4. QED  BY <3>2, <3>3
  <2>3. CASE /\ toSend[t] # <<>> /\ toSend'[t] = Tail(toSend[t])
             /\ \E b \in Batch : /\ b.slugs = Head(toSend[t]) /\ Writes(t, <<b>>)
                                 /\ Written(t)' = Written(t) \cup {b}
    <3>1. PICK b \in Batch : /\ b.slugs = Head(toSend[t]) /\ Writes(t, <<b>>)
                             /\ Written(t)' = Written(t) \cup {b}
      BY <2>3
    <3>2. ToSet(<<b>>) = {b} /\ Len(<<b>>) = 1 /\ <<b>>[1] = b /\ 1 \in 1..1  BY DEF ToSet
    <3>3. Requested(t)' = Requested(t) \cup {b}  BY <1>1, <3>1, <3>2, NumbersGrow
    <3>4. b.rid > ridSeq[t]  BY <1>1, <3>1, <3>2, ConnectionTyped DEF Writes
    <3>5. QED  BY <1>2, <2>1, <2>3, <3>1, <3>3, <3>4, SubscribeListed
  <2>4. QED  BY <1>1, <1>5, <2>2, <2>3, SubscribeWrites
<1>6. CASE t = s /\ OnControl(s)
  <2>1. UNCHANGED <<batches, sent, ridSeq, sub, cmds, link, spared, toSend>>
    BY <1>6 DEF OnControl, readerVars
  <2>2. Requested(t)' = Requested(t) /\ Written(t)' = Written(t) /\ Trusted(t)' = Trusted(t)
    BY <1>2, <2>1 DEF Requested, Written, Subscribing, Trusted, Open
  <2>3. Listed(t)'  BY <1>1, <1>2, <2>1, <2>2, ListedKept
  <2>4. Fits(t)'  BY <1>1, <1>2, <2>1, <2>2, FitsKept
  <2>5. QED  BY <2>3, <2>4
<1>7. CASE t = s /\ (LoopHead(s) \/ BackoffOver(s) \/ IdleTimeout(s) \/ ReaderRaises(s))
  <2>1. ~Open(t)'
    BY <1>1, <1>7 DEF LoopHead, BackoffOver, IdleTimeout, ReaderRaises, ReadersTyped, shardVars,
       netVars, Wired, Open
  <2>2. Listed(t)'  BY <2>1 DEF Listed, Trusted
  <2>3. UNCHANGED <<spared, sub, cmds>> /\ toSend'[t] \in {toSend[t], <<>>}
    BY <1>1, <1>7 DEF LoopHead, BackoffOver, IdleTimeout, ReaderRaises, ReadersTyped, netVars
  <2>4. Requested(t)' = Requested(t)  BY <2>3 DEF Requested, Subscribing
  <2>5. Fits(t)'  BY <1>1, <1>2, <2>3, <2>4, FitsKept
  <2>6. QED  BY <2>2, <2>5
<1>8. QED  BY <1>3, <1>4, <1>5, <1>6, <1>7 DEF Reader

LEMMA VenueListed ==
  ASSUME LInv, NEW s \in Shard, Venue(s), NEW t \in Shard
  PROVE  Listed(t)' /\ Fits(t)'
<1>1. NInv /\ WInv /\ Listed(t) /\ Fits(t) /\ Fresh(t) /\ Once(t) /\ Sized'
  <2>1. Next  BY DEF Next
  <2>2. NInv'  BY <2>1, NInvNext DEF LInv, AInv
  <2>3. QED  BY <2>2 DEF LInv, AInv, NInv, WInv, TInv
<1>2. /\ Serves(s) /\ \A u \in Shard : u # s => numbers(u)' = numbers(u)
      /\ UNCHANGED <<meta, toSend, desired, rpc, recycled, at, stale, link, spared, doubled>>
  BY <1>1, VenueMoves DEF shardVars, callVars, readerVars
<1>3. Trusted(t)' = Trusted(t)  BY <1>2 DEF Trusted, Open
<1>4. Requested(t)' \subseteq Requested(t) /\ Written(t)' = Written(t)
  <2>1. CASE t = s  BY <1>1, <1>2, <2>1, NumbersServe
  <2>2. CASE t # s  BY <1>2, <2>2 DEF numbers, Requested, Subscribing, Written
  <2>3. QED  BY <2>1, <2>2
<1>5. Listed(t)'  BY <1>1, <1>2, <1>3, <1>4, ListedKept
<1>6. Fits(t)'  BY <1>1, <1>2, <1>4, FitsKept
<1>7. QED  BY <1>5, <1>6

LEMMA PruneAsks ==
  ASSUME NInv, PruneNext, NEW t \in Shard
  PROVE  Requested(t)' = Requested(t)
<1> DEFINE todo == IF stale = NotRead THEN Stale ELSE stale
<1>1. /\ WInv /\ ReadersTyped /\ at \in Shard /\ rpc = "prune" /\ sub' = sub /\ batches[at] \in SUBSET Batch
      /\ cmds[at] \in Seq(Command) /\ Stale \subseteq batches[at]
  BY ConnectionTyped DEF NInv, WInv, TInv, EInv, Shaped, PruneNext, Stale, StaleOn
<1>2. \/ cmds' = cmds
      \/ /\ todo # {}
         /\ cmds' = [cmds EXCEPT ![at] = Append(@, [op |-> "unsubscribe", batch |-> First(todo)])]
  BY DEF PruneNext, Sendable
<1>3. todo \subseteq batches[at]  BY <1>1 DEF WInv, InTurn, Stale, StaleOn
<1> HIDE DEF todo
<1>4. CASE cmds' = cmds  BY <1>1, <1>4 DEF Requested, Subscribing
<1>5. CASE /\ todo # {}
           /\ cmds' = [cmds EXCEPT ![at] = Append(@, [op |-> "unsubscribe", batch |-> First(todo)])]
  <2>1. First(todo) \in Batch  BY <1>1, <1>3, <1>5, FirstIn
  <2>2. cmds'[at] = Append(cmds[at], [op |-> "unsubscribe", batch |-> First(todo)])
        /\ (t # at => cmds'[t] = cmds[t])
    BY <1>1, <1>5 DEF ReadersTyped
  <2>3. Subscribing(cmds'[at]) = Subscribing(cmds[at])  BY <1>1, <2>1, <2>2, SubscribingStop
  <2>4. Subscribing(cmds'[t]) = Subscribing(cmds[t])  BY <2>2, <2>3
  <2>5. QED  BY <1>1, <2>4 DEF Requested
<1>6. QED  BY <1>2, <1>4, <1>5

\* The batch taken off the list is the one the shard leaves.
LEMMA StopListed ==
  ASSUME LInv, Sized', NEW t \in Shard, Trusted(t), at = t, at' = t, rpc = "prune", rpc' = "ack",
         NEW todo \in SUBSET Batch, todo \subseteq batches[t], stale = NotRead \/ stale = todo, stale' = todo,
         NEW b, b = First(todo), b \in todo, batches'[t] = batches[t] \ {b}, sent' = sent,
         meta'[t] = meta[t] \ (b.slugs \ desired), UNCHANGED <<toSend, desired, doubled>>
  PROVE  Listed(t)'
<1>1. Listed(t) /\ WInv /\ Once(t)  BY DEF LInv, AInv, NInv
<1>2. Written(t) = Written(t)' \cup {b} /\ b \notin Written(t)'
  <2>1. b \in batches[t] /\ b # sent[t]  BY <1>1 DEF Once
  <2>2. QED  BY <2>1 DEF Written
<1>3. First(stale)' = b  BY DEF First
<1>4. Leaving(t) = {} /\ Leaving(t)' = {b}  BY <1>3 DEF Leaving
<1>5. Held(t)' = Held(t) /\ Unsent(t)' = Unsent(t)  BY <1>2, <1>4 DEF Held, Unsent
<1>6. Slugs(Held(t))' = Slugs(Held(t)) /\ Slugs(stale)' = Slugs(todo)  BY <1>5 DEF Slugs
<1>7. Turn(t) /\ Turn(t)'  BY DEF Turn
<1>8. Dying(t)' = Slugs(todo) \ desired /\ Dying(t) \subseteq Slugs(todo) \ desired
  <2>1. Dying(t)' = Slugs(todo) \ desired  BY <1>6, <1>7 DEF Dying
  <2>2. Slugs(stale) \subseteq Slugs(todo)  BY SlugsOf
  <2>3. QED  BY <1>7, <2>1, <2>2 DEF Dying
<1>9. b.slugs \subseteq Slugs(todo)  BY DEF Slugs
<1>10. meta'[t] \subseteq Slugs(Held(t)) \cup Unsent(t)  BY <1>1 DEF Listed
<1>11. meta'[t] \cap b.slugs \subseteq desired  OBVIOUS
<1>12. ASSUME ~doubled
       PROVE  /\ Slugs(Held(t)) \cup Unsent(t) \subseteq meta'[t] \cup Dying(t)'
              /\ Disjoint(Held(t)) /\ \A c \in Held(t) : c.slugs \cap Unsent(t) = {}
              /\ Cardinality(meta'[t] \cup Slugs(todo)) <= MaxSubs
  <2>1. /\ Slugs(Held(t)) \cup Unsent(t) \subseteq meta[t] \cup Dying(t)
        /\ Disjoint(Held(t)) /\ \A c \in Held(t) : c.slugs \cap Unsent(t) = {}
        /\ Cardinality(meta[t] \cup Slugs(stale)) <= MaxSubs
    BY <1>1, <1>7, <1>12 DEF Listed
  <2>2. Slugs(Held(t)) \cup Unsent(t) \subseteq meta'[t] \cup Dying(t)'  BY <1>8, <1>9, <2>1
  <2>3. meta'[t] \cup Slugs(todo) \subseteq meta[t] \cup Slugs(stale)
    <3>1. CASE stale = todo  BY <3>1
    <3>2. CASE stale = NotRead
      <4>1. Dying(t) = {}  BY <3>2, SlugsOf DEF Dying
      <4>2. Slugs(todo) \subseteq Slugs(Held(t))  BY DEF Slugs, Held, Written
      <4>3. QED  BY <2>1, <4>1, <4>2
    <3>3. QED  BY <3>1, <3>2
  <2>4. meta[t] \cup Slugs(stale) \in SUBSET Slug  BY <1>1, SlugsHeld
  <2>5. Cardinality(meta'[t] \cup Slugs(todo)) <= MaxSubs  BY <2>1, <2>3, <2>4, SmallerSized
  <2>6. QED  BY <2>1, <2>2, <2>5
<1>13. Disjoint(Held(t))' = Disjoint(Held(t))  BY <1>5 DEF Disjoint
<1>14. QED  BY <1>2, <1>3, <1>5, <1>6, <1>10, <1>11, <1>12, <1>13 DEF Listed

LEMMA PruneListed ==
  ASSUME LInv, PruneNext, NEW t \in Shard
  PROVE  Listed(t)' /\ Fits(t)'
<1> DEFINE todo == IF stale = NotRead THEN Stale ELSE stale
           now  == IF todo = {} THEN {} ELSE IF ws[at] THEN {First(todo)} ELSE todo
<1>1. /\ NInv /\ WInv /\ ReadersTyped /\ Shaped /\ at \in Shard /\ Listed(t) /\ Fits(t) /\ Wired(t)
      /\ rpc = "prune" /\ Sized' /\ batches[at] \in SUBSET Batch
  <2>1. Next  BY DEF Next, Refresher
  <2>2. NInv'  BY <2>1, NInvNext DEF LInv, AInv
  <2>3. QED  BY <2>2 DEF LInv, AInv, NInv, WInv, TInv, EInv, Shaped, PruneNext, ReadersTyped
<1>2. /\ batches' = [batches EXCEPT ![at] = @ \ now]
      /\ meta' = [meta EXCEPT ![at] = @ \ (Slugs(now) \ desired)]
      /\ UNCHANGED <<sent, link, ws, spared, desired, doubled, toSend>>
  BY DEF PruneNext, readerVars
<1>3. \/ /\ todo = {} \/ ~ws[at]
         /\ Advance("prune", "add") /\ UNCHANGED recycled
      \/ GiveUpOn
      \/ todo # {} /\ ws[at] /\ rpc' = "ack" /\ stale' = todo /\ UNCHANGED <<recycled, at>>
  BY DEF PruneNext, Sendable
<1>4. todo \subseteq batches[at] /\ (stale = NotRead \/ stale = todo)
  BY <1>1 DEF WInv, InTurn, Stale, StaleOn
<1> HIDE DEF todo
<1>5. recycled \subseteq recycled' /\ rpc' # "idle" /\ (rpc' = "ack" => at' = at)
      /\ (rpc' # "ack" => stale' = NotRead)
  BY <1>3 DEF GiveUpOn, Advance
<1>6. Trusted(t)' => Trusted(t)  BY <1>2, <1>5 DEF Trusted, Open
<1>7. Fits(t)'
  <2>1. Requested(t)' = Requested(t)  BY <1>1, PruneAsks
  <2>2. QED  BY <1>1, <1>2, <2>1, FitsKept
<1>8. CASE t # at
  <2>1. meta'[t] = meta[t] /\ Written(t)' = Written(t)
    BY <1>1, <1>2, <1>8 DEF Shaped, ReadersTyped, Written
  <2>2. ~Turn(t) /\ (Turn(t)' => rpc' = "prune" /\ stale' = NotRead)
    BY <1>5, <1>8 DEF Turn
  <2>3. Listed(t)'  BY <1>1, <1>2, <1>6, <2>1, <2>2, ListedKept
  <2>4. QED  BY <1>7, <2>3
<1>9. CASE t = at
  <2>1. CASE GiveUpOn
    <3>1. t \in recycled'  BY <1>9, <2>1 DEF GiveUpOn
    <3>2. QED  BY <1>5, <1>7, <3>1 DEF Listed, Trusted
  <2>2. CASE ~ws[at]
    <3>1. ~Open(t)'  BY <1>1, <1>2, <1>9, <2>2 DEF Wired, Open
    <3>2. QED  BY <1>7, <3>1 DEF Listed, Trusted
  <2>3. CASE todo = {} /\ Advance("prune", "add")
    <3>1. meta'[t] = meta[t] /\ batches'[t] = batches[t]
      BY <1>1, <1>2, <1>9, <2>3, SlugsOf DEF Shaped, ReadersTyped
    <3>2. Written(t)' = Written(t) /\ Unsent(t)' = Unsent(t)  BY <1>2, <3>1 DEF Written, Unsent
    <3>3. rpc' # "ack" /\ ~Turn(t)'
      <4>1. rpc' = "add" \/ (rpc' = "prune" /\ at' = at + 1)  BY <2>3 DEF Advance
      <4>2. at \in Nat  BY <1>1 DEF Shard
      <4>3. QED  BY <1>9, <4>1, <4>2 DEF Turn
    <3>4. Leaving(t) = {} /\ Leaving(t)' = {} /\ Dying(t)' = {}
      BY <1>1, <3>3 DEF Leaving, Dying
    <3>5. Dying(t) = {}
      <4>1. Slugs(stale) = {}  BY <1>4, <2>3, SlugsOf
      <4>2. QED  BY <4>1 DEF Dying
    <3>6. Held(t)' = Held(t)  BY <3>2, <3>4 DEF Held
    <3>7. Slugs(Held(t))' = Slugs(Held(t)) /\ Disjoint(Held(t))' = Disjoint(Held(t))
      BY <3>6 DEF Slugs, Disjoint
    <3>8. Listed(t)'
      BY <1>1, <1>2, <1>6, <3>1, <3>2, <3>3, <3>4, <3>5, <3>6, <3>7 DEF Listed
    <3>9. QED  BY <1>7, <3>8
  <2>4. CASE todo # {} /\ ws[at] /\ rpc' = "ack" /\ stale' = todo /\ at' = at
    <3> DEFINE b == First(todo)
    <3>1. todo \in SUBSET Batch /\ b \in todo  BY <1>1, <1>4, <2>4, FirstIn
    <3>2. now = {b}  BY <2>4
    <3>3. batches'[t] = batches[t] \ {b} /\ meta'[t] = meta[t] \ (b.slugs \ desired)
      BY <1>1, <1>2, <1>9, <3>2, SlugsOf DEF Shaped, ReadersTyped
    <3> HIDE DEF b, now
    <3>4. b = First(todo)  BY DEF b
    <3>5. ASSUME Trusted(t) PROVE Listed(t)'
      BY <1>1, <1>2, <1>4, <1>9, <2>4, <3>1, <3>3, <3>4, <3>5, StopListed
    <3>6. QED  BY <1>6, <1>7, <3>5 DEF Listed
  <2>5. QED  BY <1>3, <2>1, <2>2, <2>3, <2>4
<1>10. QED  BY <1>8, <1>9

\* The batch awaited is gone, and what is still wanted of it is written again.
LEMMA TurnListed ==
  ASSUME LInv, NEW t \in Shard, Trusted(t), rpc = "ack", at = t, NEW N,
         (N = {} /\ Survivors = {}) \/ \E c : N = {c} /\ c.slugs = Survivors,
         Written(t)' = Written(t) \cup N, rpc' = "prune", at' = at, stale' = stale \ {First(stale)},
         UNCHANGED <<meta, toSend, desired, doubled>>
  PROVE  Listed(t)'
<1> DEFINE b == First(stale) W == Written(t) S == Survivors rest == stale \ {b}
<1>1. Listed(t) /\ WInv /\ stale \in SUBSET Batch
  BY DEF LInv, AInv, NInv, WInv, TInv, CallTyped
<1>2. Held(t) = W \cup {b} /\ Turn(t) /\ S = b.slugs \cap desired
  BY DEF Held, Leaving, Turn, Survivors
<1>3. Slugs(Held(t)) = Slugs(W) \cup b.slugs  BY <1>2 DEF Slugs
<1>4. Slugs(N) = S
  <2>1. CASE N = {} /\ S = {}  BY <2>1 DEF Slugs
  <2>2. CASE \E c : N = {c} /\ c.slugs = S  BY <2>2 DEF Slugs
  <2>3. QED  BY <2>1, <2>2
<1>5. Slugs(stale) \subseteq Slugs(rest) \cup b.slugs /\ Slugs(rest) \subseteq Slugs(stale)
  BY DEF Slugs
<1>6. /\ meta[t] \subseteq Slugs(W) \cup b.slugs \cup Unsent(t)
      /\ b \notin W /\ meta[t] \cap b.slugs \subseteq desired
  BY <1>1, <1>3 DEF Listed
<1>7. ASSUME ~doubled
      PROVE  /\ Slugs(W) \cup b.slugs \cup Unsent(t) \subseteq meta[t] \cup (Slugs(stale) \ desired)
             /\ Disjoint(W \cup {b}) /\ \A c \in W \cup {b} : c.slugs \cap Unsent(t) = {}
             /\ Cardinality(meta[t] \cup Slugs(stale)) <= MaxSubs
  BY <1>1, <1>2, <1>3, <1>7 DEF Listed, Dying
<1>8. Leaving(t)' = {} /\ Held(t)' = W \cup N /\ Unsent(t)' = Unsent(t) /\ Turn(t)'
  BY DEF Leaving, Held, Unsent, Turn
<1>9. Slugs(Held(t))' = Slugs(W) \cup S
  <2>1. Slugs(Held(t)') = Slugs(W) \cup Slugs(N)  BY <1>8, SlugsOf
  <2>2. Slugs(Held(t))' = Slugs(Held(t)')  BY DEF Slugs
  <2>3. QED  BY <1>4, <2>1, <2>2
<1>10. Slugs(stale)' = Slugs(rest)  BY DEF Slugs
<1>11. Dying(t)' = Slugs(rest) \ desired  BY <1>8, <1>10 DEF Dying
<1> HIDE DEF b, W, S, rest
<1>12. meta[t] \subseteq Slugs(W) \cup S \cup Unsent(t)  BY <1>2, <1>6
<1>13. ASSUME ~doubled
       PROVE  /\ Slugs(W) \cup S \cup Unsent(t) \subseteq meta[t] \cup (Slugs(rest) \ desired)
              /\ Disjoint(W \cup N) /\ \A c \in W \cup N : c.slugs \cap Unsent(t) = {}
              /\ Cardinality(meta[t] \cup Slugs(rest)) <= MaxSubs
  <2>1. \A c \in W : c.slugs \cap b.slugs = {}  BY <1>6, <1>7, <1>13 DEF Disjoint
  <2>2. Slugs(W) \cap b.slugs = {} /\ Unsent(t) \cap b.slugs = {}
    BY <1>7, <1>13, <2>1 DEF Slugs
  <2>3. Slugs(W) \cup S \cup Unsent(t) \subseteq meta[t] \cup (Slugs(rest) \ desired)
    BY <1>2, <1>5, <1>7, <1>13, <2>2
  <2>4. \A c \in N : c.slugs = S /\ \A d \in N : d = c  BY DEF S
  <2>5. Disjoint(W \cup N)
    <3>1. \A c, d \in W : c # d => c.slugs \cap d.slugs = {}  BY <1>7, <1>13 DEF Disjoint
    <3>2. \A c \in W, d \in N : c.slugs \cap d.slugs = {} /\ d.slugs \cap c.slugs = {}
      BY <1>2, <2>1, <2>4
    <3>3. QED  BY <2>4, <3>1, <3>2 DEF Disjoint
  <2>6. \A c \in W \cup N : c.slugs \cap Unsent(t) = {}  BY <1>2, <1>7, <1>13, <2>2, <2>4
  <2>7. meta[t] \in SUBSET Slug /\ Slugs(stale) \in SUBSET Slug  BY <1>1, SlugsHeld
  <2>8. meta[t] \cup Slugs(rest) \subseteq meta[t] \cup Slugs(stale)  BY <1>5
  <2>9. meta[t] \cup Slugs(stale) \in SUBSET Slug /\ Cardinality(meta[t] \cup Slugs(stale)) <= MaxSubs
    BY <1>7, <1>13, <2>7
  <2>10. Cardinality(meta[t] \cup Slugs(rest)) <= MaxSubs  BY <2>8, <2>9, SmallerSized
  <2>11. QED  BY <2>3, <2>5, <2>6, <2>10
<1>14. Disjoint(Held(t))' = Disjoint(W \cup N)  BY <1>8 DEF Disjoint
<1>15. QED  BY <1>8, <1>9, <1>10, <1>11, <1>12, <1>13, <1>14 DEF Listed

\* What is written again fits where the batch was.
LEMMA AgainFits ==
  ASSUME LInv, NEW t \in Shard, rpc = "ack", at = t, fut = "done", Sendable, NEW c,
         c.slugs = Survivors, Requested(t)' = Requested(t) \cup {c},
         UNCHANGED <<toSend, doubled, spared>>
  PROVE  Fits(t)'
<1> SUFFICES ASSUME ~doubled, t \notin spared PROVE Fits(t)'  BY DEF Fits
<1> DEFINE b == First(stale)
<1>1. Listed(t) /\ Fits(t) /\ Answered(t) /\ Wired(t) /\ InTurn /\ WInv /\ ReadersTyped /\ Shard \subseteq Int
  BY DEF LInv, AInv, NInv, WInv, TInv, Shard
<1>2. Trusted(t)
  <2>1. Open(t)  BY <1>1 DEF Sendable, Wired, Open, ReadersTyped
  <2>2. t \notin recycled  BY <1>1 DEF InTurn
  <2>3. QED  BY <2>1, <2>2 DEF Trusted
<1>3. Leaving(t) = {b} /\ Turn(t) /\ c.slugs \subseteq b.slugs  BY DEF Leaving, Turn, Survivors
<1> HIDE DEF b
<1>4. Requested(t) \subseteq Written(t)  BY <1>1, <1>2, <1>3 DEF Answered, b
<1>5. /\ Slugs(Held(t)) \cup Unsent(t) \subseteq meta[t] \cup Dying(t)
      /\ Disjoint(Held(t)) /\ \A d \in Held(t) : d.slugs \cap Unsent(t) = {}
      /\ Cardinality(meta[t] \cup Slugs(stale)) <= MaxSubs
      /\ b \notin Written(t)
  BY <1>1, <1>2, <1>3 DEF Listed, b
<1>6. Held(t) = Written(t) \cup {b}  BY <1>3 DEF Held
<1>7. \A d \in Requested(t) : d.slugs \cap c.slugs = {}  BY <1>3, <1>4, <1>5, <1>6 DEF Disjoint
<1>8. Disjoint(Requested(t)) /\ Cut(toSend[t])  BY <1>1 DEF Fits
<1>9. Disjoint(Requested(t))'  BY <1>7, <1>8 DEF Disjoint
<1>10. Unsent(t)' = Unsent(t) /\ Cut(toSend[t])' = Cut(toSend[t])  BY DEF Unsent, All, Cut
<1>11. \A d \in Requested(t)' : d.slugs \cap Unsent(t)' = {}  BY <1>3, <1>4, <1>5, <1>6, <1>10
<1>12. Slugs(Requested(t))' \subseteq Slugs(Held(t))
  <2>1. Slugs(Requested(t))' = Slugs(Requested(t)) \cup c.slugs  BY DEF Slugs
  <2>2. Slugs(Held(t)) = Slugs(Written(t)) \cup b.slugs  BY <1>6 DEF Slugs
  <2>3. Slugs(Requested(t)) \subseteq Slugs(Written(t))  BY <1>4, SlugsOf
  <2>4. QED  BY <1>3, <2>1, <2>2, <2>3
<1>13. Dying(t) \subseteq Slugs(stale)  BY DEF Dying
<1>14. Cardinality(Slugs(Requested(t))' \cup Unsent(t)') <= MaxSubs
  <2> DEFINE S == meta[t] \cup Slugs(stale) T == Slugs(Requested(t))' \cup Unsent(t)'
  <2>1. S \in SUBSET Slug  BY <1>1, SlugsHeld
  <2>2. T \in SUBSET S  BY <1>5, <1>10, <1>12, <1>13
  <2>3. Cardinality(S) <= MaxSubs  BY <1>5
  <2> HIDE DEF S, T
  <2>4. QED  BY <2>1, <2>2, <2>3, SmallerSized DEF T
<1>15. QED  BY <1>8, <1>9, <1>10, <1>11, <1>14 DEF Fits

LEMMA AckListed ==
  ASSUME LInv, Acknowledged \/ AckTimeout, NEW t \in Shard
  PROVE  Listed(t)' /\ Fits(t)'
<1>1. /\ NInv /\ WInv /\ Listed(t) /\ Fits(t) /\ at \in Shard /\ rpc = "ack" /\ Sized' /\ Wired(t)
      /\ UNCHANGED <<meta, toSend, desired, doubled, link, ws>> /\ spared \subseteq spared'
      /\ Fresh(t) /\ Once(t)
  <2>1. Next  BY DEF Next, Refresher
  <2>2. NInv'  BY <2>1, NInvNext DEF LInv, AInv
  <2>3. QED
    BY <2>2 DEF LInv, AInv, NInv, WInv, TInv, EInv, Shaped, Acknowledged, AckTimeout, readerVars, netVars, shardVars
<1>2. \/ /\ Acknowledged /\ rpc' = "prune" /\ stale' = stale \ {First(stale)}
         /\ UNCHANGED <<recycled, at, spared>>
         /\ (Survivors = {} /\ UNCHANGED <<ridSeq, batches, cmds>>) \/ (Survivors # {} /\ Sendable)
      \/ /\ Acknowledged /\ rpc' = "idle" /\ ~ws[at]
         /\ UNCHANGED <<at, stale, cmds, batches, ridSeq>> /\ spared' = spared \cup recycled
      \/ GiveUpOn /\ UNCHANGED <<cmds, batches, ridSeq, spared>>
  <2>1. CASE Acknowledged  BY <2>1 DEF Acknowledged
  <2>2. CASE AckTimeout  BY <2>2 DEF AckTimeout, shardVars, netVars
  <2>3. QED  BY <2>1, <2>2
<1>3. Trusted(t)' => Trusted(t)
  BY <1>1, <1>2 DEF Trusted, Open, GiveUpOn, Advance
<1>4. CASE numbers(t)' = numbers(t)
  <2>1. Requested(t)' = Requested(t) /\ Written(t)' = Written(t)
    BY <1>4 DEF numbers, Requested, Subscribing, Written
  <2>2. Fits(t)'  BY <1>1, <2>1, FitsKept
  <2>3. CASE t # at
    <3>1. rpc' # "ack" /\ (rpc' = "prune" /\ at' = t => stale' = NotRead)
      BY <1>2, <2>3 DEF GiveUpOn, Advance
    <3>2. ~Turn(t) /\ (Turn(t)' => rpc' = "prune" /\ stale' = NotRead)
      BY <2>3, <3>1 DEF Turn
    <3>3. QED  BY <1>1, <1>3, <2>1, <2>2, <3>2, ListedKept
  <2>4. CASE t = at /\ GiveUpOn
    <3>1. t \in recycled' /\ rpc' # "idle"  BY <2>4 DEF GiveUpOn, Advance
    <3>2. QED  BY <2>2, <3>1 DEF Listed, Trusted
  <2>5. CASE t = at /\ ~ws[at]
    <3>1. ~Open(t)'  BY <1>1, <2>5 DEF Wired, Open
    <3>2. QED  BY <2>2, <3>1 DEF Listed, Trusted
  <2>6. CASE /\ t = at /\ rpc' = "prune" /\ stale' = stale \ {First(stale)} /\ at' = at
             /\ Survivors = {}
    <3>1. Written(t)' = Written(t) \cup {}  BY <2>1
    <3>2. ASSUME Trusted(t) PROVE Listed(t)'
      BY <1>1, <2>6, <3>1, <3>2, TurnListed
    <3>3. QED  BY <1>3, <2>2, <3>2 DEF Listed
  <2>7. CASE t = at /\ Survivors # {} /\ Sendable /\ Acknowledged /\ ~GiveUpOn
    <3>1. SendSubscribe(<<Survivors>>)  BY <1>2, <2>7 DEF Acknowledged, Sendable
    <3>2. ridSeq' = [ridSeq EXCEPT ![at] = @ + 1]
      BY <3>1 DEF SendSubscribe, Numbered
    <3>3. ridSeq[t] \in Nat /\ ridSeq \in [Shard -> Nat]  BY <1>1, ConnectionTyped DEF WInv, TInv, ReadersTyped
    <3>4. ridSeq'[t] = ridSeq[t]  BY <1>4 DEF numbers
    <3>5. QED  BY <1>1, <2>7, <3>2, <3>3, <3>4
  <2>8. QED  BY <1>2, <2>3, <2>4, <2>5, <2>6, <2>7
<1>5. CASE t = at /\ numbers(t)' # numbers(t)
  <2>1. /\ Sendable /\ Acknowledged /\ rpc' = "prune" /\ stale' = stale \ {First(stale)}
        /\ UNCHANGED <<recycled, at, applied, spared>>
        /\ \E bs : /\ Writes(t, bs) /\ Len(bs) = 1 /\ bs[1].slugs = Survivors
                   /\ Written(t)' = Written(t) \cup ToSet(bs)
    BY <1>1, <1>5, AckWrites
  <2>2. PICK bs : /\ Writes(t, bs) /\ Len(bs) = 1 /\ bs[1].slugs = Survivors
                  /\ Written(t)' = Written(t) \cup ToSet(bs)
    BY <2>1
  <2> DEFINE c == bs[1]
  <2>3. ToSet(bs) = {c}
    <3>1. bs \in Seq(Batch)  BY <2>2 DEF Writes, Adds
    <3>2. DOMAIN bs = 1..1  BY <2>2, <3>1
    <3>3. QED  BY <3>2 DEF ToSet
  <2>4. Requested(t)' = Requested(t) \cup {c}  BY <1>1, <2>2, <2>3, NumbersGrow
  <2> HIDE DEF c
  <2>5. c.slugs = Survivors  BY <2>2 DEF c
  <2>6. fut = "done"  BY <2>1 DEF Acknowledged
  <2>7. Fits(t)'  BY <1>1, <1>5, <2>1, <2>4, <2>5, <2>6, AgainFits
  <2>8. Written(t)' = Written(t) \cup {c}  BY <2>2, <2>3
  <2>9. ASSUME Trusted(t) PROVE Listed(t)'
    BY <1>1, <1>5, <2>1, <2>5, <2>8, <2>9, TurnListed
  <2>10. QED  BY <1>3, <2>7, <2>9 DEF Listed
<1>6. CASE t # at  BY <1>1, <1>4, <1>6, AckWrites
<1>7. QED  BY <1>4, <1>5, <1>6

\* The batches a set is added in name it, each slug once.
LEMMA PiecesAdded ==
  ASSUME NEW S \in SUBSET Slug, NEW bs \in Seq(Batch), Len(bs) = Len(Pieces(S, SubBatch)),
         \A i \in 1..Len(bs) : bs[i].slugs = Pieces(S, SubBatch)[i]
  PROVE  Slugs(ToSet(bs)) = S /\ Disjoint(ToSet(bs))
<1> DEFINE p == Pieces(S, SubBatch) N == ToSet(bs)
<1>1. /\ Len(p) \in Nat /\ p \in [1..Len(p) -> SUBSET S]
      /\ \A i, j \in 1..Len(p) : i # j => p[i] \cap p[j] = {}
      /\ \A x \in S : \E i \in 1..Len(p) : x \in p[i]
  BY PiecesCut, PolymarketAssumption
<1>2. Len(bs) = Len(p) /\ \A i \in 1..Len(p) : bs[i].slugs = p[i]  OBVIOUS
<1>3. DOMAIN bs = 1..Len(p)  BY <1>2
<1> HIDE DEF p
<1>4. \A b \in N : \E i \in 1..Len(p) : b = bs[i]  BY <1>3 DEF ToSet
<1>5. \A i \in 1..Len(p) : bs[i] \in N  BY <1>3 DEF ToSet
<1> HIDE DEF N
<1>6. Slugs(N) \subseteq S
  <2>1. \A b \in N : b.slugs \subseteq S  BY <1>1, <1>2, <1>4
  <2>2. QED  BY <2>1 DEF Slugs
<1>7. S \subseteq Slugs(N)
  <2>1. \A x \in S : \E b \in N : x \in b.slugs  BY <1>1, <1>2, <1>5
  <2>2. QED  BY <2>1 DEF Slugs
<1>8. Disjoint(N)
  <2> SUFFICES ASSUME NEW b \in N, NEW c \in N, b # c PROVE b.slugs \cap c.slugs = {}
    BY DEF Disjoint
  <2>1. PICK i \in 1..Len(p) : b = bs[i]  BY <1>4
  <2>2. PICK j \in 1..Len(p) : c = bs[j]  BY <1>4
  <2>3. i # j  BY <2>1, <2>2
  <2>4. p[i] \cap p[j] = {}  BY <1>1, <2>3
  <2>5. b.slugs = p[i] /\ c.slugs = p[j]  BY <1>2, <2>1, <2>2
  <2>6. QED  BY <2>4, <2>5
<1>9. QED  BY <1>6, <1>7, <1>8 DEF N

\* What is added to a shard's list is asked for, and neither was before.
LEMMA AddListed ==
  ASSUME LInv, NEW t \in Shard, rpc = "add", at = t, t \notin recycled, Sendable, NEW T, NEW N,
         Slugs(N) = T, Disjoint(N), Written(t)' = Written(t) \cup N,
         Requested(t)' = Requested(t) \cup N, meta'[t] = meta[t] \cup T,
         ~doubled => meta[t] \cap T = {}, meta[t] \cup T \in SUBSET Slug,
         Cardinality(meta[t] \cup T) <= MaxSubs, rpc' \in {"add", "overflow"},
         UNCHANGED <<toSend, doubled, spared, link, desired>>
  PROVE  Listed(t)' /\ Fits(t)'
<1>1. Listed(t) /\ Fits(t) /\ Answered(t) /\ Wired(t) /\ WInv /\ ReadersTyped
  BY DEF LInv, AInv, NInv, WInv, TInv
<1>2. Open(t)  BY <1>1 DEF Sendable, Wired, Open, ReadersTyped
<1>3. t \notin spared => Trusted(t)  BY <1>2 DEF Trusted
<1>4. Leaving(t) = {} /\ Dying(t) = {} /\ ~Turn(t)  BY DEF Leaving, Dying, Turn
<1>5. Leaving(t)' = {} /\ Dying(t)' = {} /\ ~Turn(t)'  BY DEF Leaving, Dying, Turn
<1>6. Held(t) = Written(t) /\ Held(t)' = Written(t) \cup N /\ Unsent(t)' = Unsent(t)
  BY <1>4, <1>5 DEF Held, Unsent
<1>7. Slugs(Held(t))' = Slugs(Written(t)) \cup T
  <2>1. Slugs(Held(t)') = Slugs(Written(t)) \cup Slugs(N)  BY <1>6, SlugsOf
  <2>2. QED  BY <2>1 DEF Slugs
<1>8. Slugs(Requested(t))' = Slugs(Requested(t)) \cup T
  <2>1. Slugs(Requested(t)') = Slugs(Requested(t)) \cup Slugs(N)  BY SlugsOf
  <2>2. QED  BY <2>1 DEF Slugs
<1>9. Disjoint(Held(t))' = Disjoint(Written(t) \cup N)
      /\ Disjoint(Requested(t))' = Disjoint(Requested(t) \cup N)
  BY <1>6 DEF Disjoint
<1>10. ASSUME t \notin spared PROVE meta[t] \subseteq Slugs(Written(t)) \cup Unsent(t)
  BY <1>1, <1>3, <1>6, <1>10 DEF Listed
<1>11. ASSUME t \notin spared, ~doubled
       PROVE  /\ Slugs(Written(t)) \cup Unsent(t) \subseteq meta[t]
              /\ Disjoint(Written(t)) /\ \A b \in Written(t) : b.slugs \cap Unsent(t) = {}
              /\ Requested(t) \subseteq Written(t)
  BY <1>1, <1>3, <1>4, <1>6, <1>11 DEF Listed, Answered
<1>12. \A b \in N : b.slugs \subseteq T  BY DEF Slugs
<1>13. ASSUME t \notin spared, ~doubled
       PROVE  /\ Disjoint(Written(t) \cup N)
              /\ \A b \in Written(t) \cup N : b.slugs \cap Unsent(t) = {}
  <2>1. \A b \in Written(t) : b.slugs \subseteq meta[t]  BY <1>11, <1>13 DEF Slugs
  <2>2. \A b \in Written(t), c \in N : b.slugs \cap c.slugs = {} /\ c.slugs \cap b.slugs = {}
    BY <1>12, <1>13, <2>1
  <2>3. \A b \in N : b.slugs \cap Unsent(t) = {}  BY <1>11, <1>12, <1>13
  <2>4. QED  BY <1>11, <1>13, <2>2, <2>3 DEF Disjoint
<1>14. Listed(t)'
  <2> SUFFICES ASSUME t \notin spared PROVE Listed(t)'  BY DEF Listed, Trusted
  <2>1. ~(rpc' = "ack" /\ at' = t)  OBVIOUS
  <2>2. meta'[t] \subseteq Slugs(Held(t))' \cup Unsent(t)'  BY <1>6, <1>7, <1>10
  <2>3. ~doubled => Slugs(Held(t))' \cup Unsent(t)' \subseteq meta'[t] \cup Dying(t)'
    BY <1>6, <1>7, <1>11
  <2>4. QED  BY <1>5, <1>6, <1>9, <1>13, <2>1, <2>2, <2>3 DEF Listed
<1>15. Fits(t)'
  <2> SUFFICES ASSUME ~doubled, t \notin spared PROVE Fits(t)'  BY DEF Fits
  <2>1. Disjoint(Requested(t) \cup N)  BY <1>11, <1>13 DEF Disjoint
  <2>2. \A b \in Requested(t)' : b.slugs \cap Unsent(t)' = {}  BY <1>6, <1>11, <1>13
  <2>3. Cut(toSend[t])' = Cut(toSend[t]) /\ Cut(toSend[t])  BY <1>1 DEF Fits, Cut
  <2>4. Cardinality(Slugs(Requested(t))' \cup Unsent(t)') <= MaxSubs
    <3> DEFINE S == meta[t] \cup T R == Slugs(Requested(t))' \cup Unsent(t)'
    <3>1. Slugs(Requested(t)) \subseteq Slugs(Written(t))  BY <1>11, SlugsOf
    <3>2. R \in SUBSET S  BY <1>6, <1>8, <1>11, <3>1
    <3>3. S \in SUBSET Slug /\ Cardinality(S) <= MaxSubs  OBVIOUS
    <3> HIDE DEF S, R
    <3>4. QED  BY <3>2, <3>3, SmallerSized DEF R
  <2>5. QED  BY <1>9, <2>1, <2>2, <2>3, <2>4 DEF Fits
<1>16. QED  BY <1>14, <1>15

LEMMA PlaceListed ==
  ASSUME LInv, PlaceAdds, NEW t \in Shard
  PROVE  Listed(t)' /\ Fits(t)'
<1>1. /\ NInv /\ WInv /\ Listed(t) /\ Fits(t) /\ at \in Shard /\ rpc = "add" /\ Sized' /\ Wired(t)
      /\ Shaped /\ Sized /\ ReadersTyped /\ Apart /\ Fresh(t) /\ Once(t)
  <2>1. Next  BY DEF Next, Refresher
  <2>2. NInv'  BY <2>1, NInvNext DEF LInv, AInv
  <2>3. QED  BY <2>2 DEF LInv, AInv, NInv, WInv, TInv, EInv, Shaped, PlaceAdds
<1>2. /\ UNCHANGED <<toSend, desired, doubled, spared, link, ws>>
      /\ rpc' \in {"add", "overflow"} /\ recycled \subseteq recycled'
      /\ meta' = [meta EXCEPT ![at] = @ \cup Take]
      /\ recycled' = IF Take # {} /\ ws[at] /\ ~Sendable THEN recycled \cup {at} ELSE recycled
  BY DEF PlaceAdds, Advance, readerVars
<1>3. Trusted(t)' => Trusted(t)  BY <1>1, <1>2 DEF Trusted, Open
<1>4. ~Turn(t) /\ ~Turn(t)'  BY <1>1, <1>2 DEF Turn
<1>5. CASE numbers(t)' = numbers(t)
  <2>1. Requested(t)' = Requested(t) /\ Written(t)' = Written(t)
    BY <1>5 DEF numbers, Requested, Subscribing, Written
  <2>2. Fits(t)'  BY <1>1, <1>2, <2>1, FitsKept
  <2>3. CASE t # at \/ Take = {}
    <3>1. meta'[t] = meta[t]  BY <1>1, <1>2, <2>3 DEF Shaped
    <3>2. Listed(t)'  BY <1>1, <1>2, <1>3, <1>4, <2>1, <3>1, ListedKept
    <3>3. QED  BY <2>2, <3>2
  <2>4. CASE t = at /\ ~ws[at]
    <3>1. ~Open(t)'  BY <1>1, <1>2, <2>4 DEF Wired, Open
    <3>2. QED  BY <2>2, <3>1 DEF Listed, Trusted
  <2>5. CASE t = at /\ Take # {} /\ ws[at] /\ ~Sendable
    <3>1. t \in recycled'  BY <1>2, <2>5
    <3>2. QED  BY <1>2, <2>2, <3>1 DEF Listed, Trusted
  <2>6. CASE t = at /\ Take # {} /\ Sendable
    <3>1. \E bs : Writes(t, bs) /\ Len(bs) = Len(Pieces(Take, SubBatch))
      BY <1>1, <2>6, PlaceWrites
    <3>2. PICK bs : Writes(t, bs) /\ Len(bs) = Len(Pieces(Take, SubBatch))  BY <3>1
    <3>3. Take \in SUBSET Slug /\ SubBatch \in Nat \ {0}
      BY <1>1, TakeWanted, PolymarketAssumption DEF Shaped
    <3> DEFINE T == Take
    <3>4. T \in SUBSET Slug /\ T # {} /\ Len(bs) = Len(Pieces(T, SubBatch))  BY <2>6, <3>2, <3>3
    <3> HIDE DEF T
    <3>5. /\ T = {} <=> Len(Pieces(T, SubBatch)) = 0
          /\ Len(Pieces(T, SubBatch)) \in Nat
      BY <3>3, <3>4, PiecesCut
    <3>6. Len(bs) # 0 /\ Len(bs) \in Nat  BY <3>4, <3>5
    <3>7. ridSeq'[t] = ridSeq[t] + Len(bs) /\ ridSeq[t] \in Nat
      BY <1>1, <3>2, ConnectionTyped DEF Writes
    <3>8. ridSeq'[t] = ridSeq[t]  BY <1>5 DEF numbers
    <3>9. QED  BY <3>6, <3>7, <3>8
  <2>7. QED  BY <2>3, <2>4, <2>5, <2>6 DEF Sendable
<1>6. CASE t = at /\ numbers(t)' # numbers(t)
  <2>1. /\ Take # {} /\ Sendable
        /\ \E bs : /\ Writes(t, bs) /\ Len(bs) = Len(Pieces(Take, SubBatch))
                   /\ \A i \in 1..Len(bs) : bs[i].slugs = Pieces(Take, SubBatch)[i]
                   /\ Written(t)' = Written(t) \cup ToSet(bs)
    BY <1>1, <1>6, PlaceWrites
  <2>2. PICK bs : /\ Writes(t, bs) /\ Len(bs) = Len(Pieces(Take, SubBatch))
                  /\ \A i \in 1..Len(bs) : bs[i].slugs = Pieces(Take, SubBatch)[i]
                  /\ Written(t)' = Written(t) \cup ToSet(bs)
    BY <2>1
  <2> DEFINE T == Take N == ToSet(bs)
  <2>3. T \subseteq pending /\ t \in shards /\ T \in SUBSET Slug
    BY <1>1, <1>6, <2>1, TakeWanted, PolymarketAssumption DEF Shaped
  <2>4. t \notin recycled /\ recycled' = recycled  BY <1>2, <1>6, <2>1 DEF Take
  <2>5. bs \in Seq(Batch)  BY <2>2 DEF Writes, Adds
  <2>6. Slugs(N) = T /\ Disjoint(N)  BY <2>2, <2>3, <2>5, PiecesAdded
  <2>7. Requested(t)' = Requested(t) \cup N  BY <1>1, <2>2, NumbersGrow
  <2>8. ~doubled => meta[t] \cap T = {}  BY <1>1, <2>3 DEF Apart, Current
  <2>9. Cardinality(meta[t] \cup T) <= MaxSubs  BY <1>1, <1>6, TakeSized
  <2>10. meta'[t] = meta[t] \cup T /\ meta[t] \cup T \in SUBSET Slug
    BY <1>1, <1>2, <1>6, <2>3 DEF Shaped
  <2> HIDE DEF T, N
  <2>11. Written(t)' = Written(t) \cup N  BY <2>2 DEF N
  <2>12. QED
    BY <1>1, <1>2, <1>6, <2>1, <2>4, <2>6, <2>7, <2>8, <2>9, <2>10, <2>11, AddListed
<1>7. CASE t # at  BY <1>1, <1>5, <1>7, PlaceWrites
<1>8. QED  BY <1>5, <1>6, <1>7

\* A shard that is gone, or not there yet, asks for nothing.
LEMMA NothingFits ==
  ASSUME NEW s \in Shard, sub'[s] = {}, cmds'[s] = <<>>, toSend'[s] = <<>>
  PROVE  Fits(s)'
<1>1. Requested(s)' = {}  BY DEF Requested, Subscribing, ToSet
<1>2. Slugs(Requested(s))' = {} /\ Unsent(s)' = {} /\ Cut(toSend[s])'
  BY <1>1, AllNone DEF Slugs, Unsent, All, Cut, ToSet
<1>3. Slugs(Requested(s))' \cup Unsent(s)' = {}  BY <1>2
<1>4. Cardinality({}) = 0 /\ 0 <= MaxSubs  BY FS_EmptySet, PolymarketAssumption
<1>5. Cardinality(Slugs(Requested(s))' \cup Unsent(s)') <= MaxSubs  BY <1>3, <1>4
<1>6. QED  BY <1>1, <1>2, <1>5 DEF Fits, Disjoint

LEMMA OthersListed ==
  ASSUME LInv, Sized', NEW t \in Shard, NEW s \in Shard, NEW M \in MatchSet,
         \/ Resync(M) \/ OrphansPruned \/ Overflow \/ GraceOver \/ Recycle(s)
         \/ (s \in shards /\ ReaderEnds(s)) \/ (\E how \in {"closed", "stalled"} : LinkFails(s, how))
  PROVE  Listed(t)' /\ Fits(t)'
<1>1. /\ NInv /\ WInv /\ Listed(t) /\ Fits(t) /\ Wired(t) /\ ReadersTyped /\ Shaped
      /\ UNCHANGED <<spared, toSend, doubled>> /\ recycled \subseteq shards
  BY DEF LInv, AInv, NInv, WInv, TInv, EInv, CallTyped, Resync, OrphansPruned, Overflow, GraceOver,
     Recycle, ReaderEnds, LinkFails, readerVars
<1>2. Requested(t)' = Requested(t) /\ Written(t)' = Written(t)
  <2>1. UNCHANGED <<batches, sent, ridSeq, sub, cmds, chan>>  BY <1>1, OthersKeep
  <2>2. QED  BY <2>1 DEF Requested, Subscribing, Written
<1>3. Fits(t)'  BY <1>1, <1>2, FitsKept
<1>4. Open(t)' => Open(t)
  BY <1>1 DEF Resync, OrphansPruned, Overflow, GraceOver, Recycle, LinkAfterRecycle,
     ReaderEnds, LinkFails, netVars, ReadersTyped, Open, Wired
<1>5. CASE Resync(M)
  <2>1. Trusted(t)' => Trusted(t)  BY <1>1, <1>4, <1>5 DEF Resync, Trusted
  <2>2. ~Turn(t) /\ (Turn(t)' => rpc' = "prune" /\ stale' = NotRead) /\ meta' = meta
    BY <1>5 DEF Resync, Turn, shardVars
  <2>3. Listed(t)'  BY <1>1, <1>2, <2>1, <2>2, ListedKept
  <2>4. QED  BY <1>3, <2>3
<1>6. CASE OrphansPruned \/ GraceOver
  <2>1. ~Turn(t) /\ ~Turn(t)' /\ meta' = meta  BY <1>6 DEF OrphansPruned, GraceOver, Turn, shardVars
  <2>2. Trusted(t)' => Trusted(t)
    <3>1. CASE OrphansPruned  BY <1>1, <1>4, <3>1 DEF OrphansPruned, Trusted
    <3>2. CASE GraceOver  BY <1>1, <1>4, <3>2 DEF GraceOver, Trusted
    <3>3. QED  BY <1>6, <3>1, <3>2
  <2>3. Listed(t)'  BY <1>1, <1>2, <2>1, <2>2, ListedKept
  <2>4. QED  BY <1>3, <2>3
<1>7. CASE Overflow
  <2>1. ~Turn(t) /\ ~Turn(t)'  BY <1>7 DEF Overflow, Turn
  <2>2. Trusted(t)' => Trusted(t) /\ t \in shards
    <3>1. Open(t) => t \in shards  BY <1>1 DEF Wired
    <3>2. QED  BY <1>1, <1>4, <1>7, <3>1 DEF Overflow, Trusted
  <2>3. t \in shards => meta'[t] = meta[t]  BY <1>7 DEF Overflow
  <2>4. t \in shards => Listed(t)'  BY <1>1, <1>2, <2>1, <2>2, <2>3, ListedKept
  <2>5. QED  BY <1>3, <2>2, <2>4 DEF Listed
<1>8. CASE Recycle(s)
  <2>1. ~Turn(t) /\ ~Turn(t)' /\ meta' = meta  BY <1>8 DEF Recycle, Turn
  <2>2. Trusted(t)' => Trusted(t)
    <3>1. /\ rpc = "recycle" /\ recycled' = recycled \ {s} /\ rpc' \in {"idle", "recycle"}
          /\ rpc' = "idle" => recycled' = {}
      BY <1>8 DEF Recycle
    <3>2. Open(s)' => FALSE
      BY <1>1, <1>8 DEF Recycle, LinkAfterRecycle, ReadersTyped, Open, NInv, WInv, Wired
    <3>3. QED  BY <1>1, <1>4, <3>1, <3>2 DEF Trusted
  <2>3. Listed(t)'  BY <1>1, <1>2, <2>1, <2>2, ListedKept
  <2>4. QED  BY <1>3, <2>3
<1>9. CASE (s \in shards /\ ReaderEnds(s)) \/ (\E how \in {"closed", "stalled"} : LinkFails(s, how))
  <2>1. UNCHANGED <<meta, rpc, recycled, at, stale, desired>>
    BY <1>9 DEF ReaderEnds, LinkFails, shardVars, callVars
  <2>2. Trusted(t)' => Trusted(t)  BY <1>1, <1>4, <2>1 DEF Trusted
  <2>3. Listed(t)'  BY <1>1, <1>2, <2>1, <2>2, ListedKept
  <2>4. QED  BY <1>3, <2>3
<1>10. QED  BY <1>5, <1>6, <1>7, <1>8, <1>9

LEMMA LInvInit == Init => LInv
<1> SUFFICES ASSUME Init PROVE LInv  OBVIOUS
<1>1. ASSUME NEW s \in Shard PROVE Listed(s) /\ Fits(s)
  <2>1. ~Open(s) /\ sub[s] = {} /\ cmds[s] = <<>> /\ toSend[s] = <<>>  BY NothingWired DEF Init, Open
  <2>2. Requested(s) = {}  BY <2>1 DEF Requested, Subscribing, ToSet
  <2>3. Slugs(Requested(s)) \cup Unsent(s) = {} /\ Cut(toSend[s])
    BY <2>1, <2>2, AllNone DEF Slugs, Unsent
  <2>4. Cardinality(Slugs(Requested(s)) \cup Unsent(s)) <= MaxSubs
    BY <2>3, FS_EmptySet, PolymarketAssumption
  <2>5. QED  BY <2>1, <2>2, <2>3, <2>4 DEF Listed, Trusted, Fits, Disjoint
<1>2. QED  BY <1>1, AInvInit DEF LInv

LEMMA LInvNext == LInv /\ [Next]_vars => LInv'
<1> SUFFICES ASSUME LInv, [Next]_vars, NEW t \in Shard PROVE Listed(t)' /\ Fits(t)'
  BY AInvNext DEF LInv
<1>1. /\ NInv /\ WInv /\ Listed(t) /\ Fits(t) /\ Wired(t) /\ desired \in MatchSet
      /\ shards \subseteq Shard /\ Sized'
  <2>1. NInv'  BY NInvNext DEF LInv, AInv
  <2>2. QED  BY <2>1 DEF LInv, AInv, NInv, WInv, TInv, EInv, Shaped
<1>2. CASE UNCHANGED vars
  <2>1. /\ Requested(t)' = Requested(t) /\ Written(t)' = Written(t) /\ Trusted(t)' = Trusted(t)
        /\ UNCHANGED <<meta, toSend, doubled, spared, rpc, at, stale, desired>>
    BY <1>2 DEF vars, shardVars, readerVars, callVars, netVars, Requested, Subscribing, Written,
       Trusted, Open
  <2>2. Listed(t)'  BY <1>1, <2>1, ListedKept
  <2>3. Fits(t)'  BY <1>1, <2>1, FitsKept
  <2>4. QED  BY <2>2, <2>3
<1>3. CASE \E s \in Shard : Reader(s) \/ Venue(s)  BY <1>3, ReaderListed, VenueListed
<1>4. CASE PruneNext  BY <1>4, PruneListed
<1>5. CASE Acknowledged \/ AckTimeout  BY <1>5, AckListed
<1>6. CASE PlaceAdds  BY <1>6, PlaceListed
<1>7. CASE Torn
  <2>1. ~Open(t)' /\ sub'[t] = {} /\ cmds'[t] = <<>> /\ toSend'[t] = <<>>
    BY <1>7, NothingWired DEF Torn, Open
  <2>2. Fits(t)'  BY <2>1, NothingFits
  <2>3. QED  BY <2>1, <2>2 DEF Listed, Trusted
<1>8. CASE StreamStarts
  <2>1. t \notin shards /\ UNCHANGED <<link, sub, cmds, toSend>>  BY <1>8 DEF StreamStarts, netVars
  <2>2. ~Open(t)' /\ sub'[t] = {} /\ cmds'[t] = <<>> /\ toSend'[t] = <<>>
    BY <1>1, <2>1 DEF Wired, Open
  <2>3. Fits(t)'  BY <2>2, NothingFits
  <2>4. QED  BY <2>2, <2>3 DEF Listed, Trusted
<1>9. CASE \/ \E M \in MatchSet : Resync(M)
           \/ OrphansPruned \/ Overflow \/ GraceOver
           \/ \E s \in Shard : Recycle(s) \/ \E how \in {"closed", "stalled"} : LinkFails(s, how)
           \/ \E s \in shards : ReaderEnds(s)
  <2>1. PICK s \in Shard, M \in MatchSet :
          \/ Resync(M) \/ OrphansPruned \/ Overflow \/ GraceOver \/ Recycle(s)
          \/ (s \in shards /\ ReaderEnds(s)) \/ (\E how \in {"closed", "stalled"} : LinkFails(s, how))
    BY <1>1, <1>9
  <2>2. QED  BY <1>1, <2>1, OthersListed
<1>10. QED
  BY <1>2, <1>3, <1>4, <1>5, <1>6, <1>7, <1>8, <1>9
  DEF Next, Refresher, Stream, StreamEnds, ConsumerRaises

LEMMA LInvImplies == LInv => CoveredWhenQuiet /\ PlacedWithinCap
<1> SUFFICES ASSUME LInv PROVE CoveredWhenQuiet /\ PlacedWithinCap  OBVIOUS
<1>1. AInv /\ NInv /\ WInv /\ EInv /\ shards \subseteq Shard
  BY DEF LInv, AInv, NInv, WInv, TInv, EInv, Shaped
<1>2. CoveredWhenQuiet
  <2> SUFFICES ASSUME NEW s \in shards \ spared, rpc = "idle", pc[s] = "recv", link[s] = "up",
                      chan[s] = <<>>, cmds[s] = <<>>, errors[s] = 0
               PROVE  Covered(s)
    BY DEF CoveredWhenQuiet
  <2>1. Listed(s) /\ Fits(s) /\ Answered(s) /\ Wired(s)  BY <1>1 DEF LInv, AInv, WInv, NInv
  <2>2. Trusted(s)  BY DEF Trusted, Open
  <2>3. Unsent(s) = {} /\ Leaving(s) = {} /\ Dying(s) = {} /\ Held(s) = Written(s)
    BY <2>1, AllNone DEF Wired, Unsent, Leaving, Dying, Turn, Held
  <2>4. ~Refused(s) /\ Requested(s) = sub[s]  BY DEF Refused, Requested, Subscribing, ToSet
  <2>5. Written(s) = sub[s]  BY <2>1, <2>2, <2>3, <2>4 DEF Answered
  <2>6. Held(s) = sub[s]  BY <2>3, <2>5
  <2>7. /\ meta[s] \subseteq Slugs(Held(s)) \cup Unsent(s)
        /\ ~doubled => Slugs(Held(s)) \cup Unsent(s) \subseteq meta[s] \cup Dying(s)
    BY <2>1, <2>2 DEF Listed
  <2>8. QED  BY <2>3, <2>6, <2>7 DEF Covered
<1>3. PlacedWithinCap
  <2>1. Placed  BY <1>1, EInvImplies
  <2> SUFFICES ASSUME ~doubled, NEW s \in Shard \ spared
               PROVE  Cardinality(Slugs(Requested(s))) <= MaxSubs /\ Disjoint(Requested(s))
    BY <2>1 DEF PlacedWithinCap, Disjoint
  <2>2. Fits(s)  BY DEF LInv
  <2> DEFINE S == Slugs(Requested(s)) \cup Unsent(s) R == Slugs(Requested(s))
  <2>3. Disjoint(Requested(s)) /\ Cardinality(S) <= MaxSubs  BY <2>2 DEF Fits
  <2>4. S \in SUBSET Slug /\ R \in SUBSET S  BY <1>1, SlugsHeld
  <2> HIDE DEF S, R
  <2>5. Cardinality(R) <= MaxSubs  BY <2>3, <2>4, SmallerSized
  <2>6. QED  BY <2>3, <2>5 DEF R
<1>4. QED  BY <1>2, <1>3

\* Whatever a resync found half done, lost or gave up on, and however readers, refusals, faults
\* and restarts interleave with it: a shard no resync raised before it recycled, with nothing in
\* flight and nothing refused, streams what it wants (_stream_shard, _prune_shard, resync), and
\* unless the stream was started under a resync with slugs to place it streams nothing else.
THEOREM PolymarketCoveredWhenQuiet == Spec => []CoveredWhenQuiet
BY LInvInit, LInvNext, LInvImplies, PTL DEF Spec

\* On such a shard the venue is never asked for more than its limit or for a slug twice, at any
\* moment, and what a resync that did not raise was given is placed (resync).
THEOREM PolymarketPlacedWithinCap == Spec => []PlacedWithinCap
BY LInvInit, LInvNext, LInvImplies, PTL DEF Spec
=============================================================================
