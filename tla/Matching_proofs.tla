-------------------------- MODULE Matching_proofs --------------------------
(***************************************************************************)
(* What is proved of the names for every vocabulary (the first section:    *)
(* align_competitors never inverts two teams), and of the pipeline for any *)
(* two catalogs: dedupe_one_to_one keeps an assignment, and drops nothing  *)
(* without a cause.                                                        *)
(***************************************************************************)
EXTENDS Matching, FiniteSetTheorems, TLAPS

-----------------------------------------------------------------------------
(* The names of competitors                                              *)

\* A score is one of three.
LEMMA ScoreType == \A a, b : CompetitorScore(a, b) \in {0, Subset, Exact}
BY DEF CompetitorScore

\* An alignment that is not refused is one of two.
LEMMA AlignType == \A s : Align(s) \in {<<1, 2>>, <<2, 1>>, Refused}
BY DEF Align

\* Which of the two assignments scores better decides which one is chosen, if any.
LEMMA AlignPrefers ==
  ASSUME NEW s, s[1][1] * s[2][2] >= s[1][2] * s[2][1]
  PROVE  Align(s) \in {<<1, 2>>, Refused}
BY DEF Align

LEMMA AlignPrefersSwap ==
  ASSUME NEW s, s[1][2] * s[2][1] \in Int, s[1][1] * s[2][2] \in Int,
         s[1][2] * s[2][1] >= s[1][1] * s[2][2]
  PROVE  Align(s) \in {<<2, 1>>, Refused}
BY DEF Align

\* What stands in the matrix of scores.
LEMMA ScoresAre ==
  ASSUME NEW k, NEW p, NEW i \in {1, 2}, NEW j \in {1, 2}
  PROVE  Scores(k, p)[i][j] = CompetitorScore(k[i], p[j])
BY DEF Scores

\* A name written short agrees with the full one, initials and all.
LEMMA ShortAgrees ==
  ASSUME NEW n, NEW f, ShortFor(n, f), Full(f)
  PROVE  InitialsAgree(n, f)
<1>1. \A ch \in n.initials : \E w \in f.words \ n.words : First[w] = ch
  BY DEF ShortFor
<1>2. \A ch \in f.initials : FALSE  BY DEF Full
<1>3. QED  BY <1>1, <1>2 DEF InitialsAgree

\* A short name that fits the other team, which is no part of its own, fits it by its
\* words alone and keeps every discriminator of that team.
LEMMA FitsOther ==
  ASSUME NEW n, NEW own, NEW other, ShortFor(n, own), Full(other),
         ~(other.words \subseteq own.words), CompetitorScore(n, other) # 0
  PROVE  /\ CompetitorScore(n, other) = Subset
         /\ n.words \subseteq other.words
         /\ other.words \cap Discriminator \subseteq n.words
<1>1. n.words \subseteq own.words  BY DEF ShortFor
<1>2. n.words # other.words /\ ~(other.words \subseteq n.words)  BY <1>1
<1>3. CompetitorScore(n, other) = Subset /\ SubsetOf(n, other)
  BY <1>2 DEF CompetitorScore
<1>4. QED  BY <1>2, <1>3 DEF SubsetOf

\* A short name that keeps the discriminators of its team fits it.
LEMMA FitsOwn ==
  ASSUME NEW n, NEW own, ShortFor(n, own), Full(own),
         own.words \cap Discriminator \subseteq n.words
  PROVE  CompetitorScore(n, own) \in {Subset, Exact}
<1>1. n.words # {} /\ own.words # {} /\ n.words \subseteq own.words  BY DEF ShortFor
<1>2. InitialsAgree(n, own)  BY ShortAgrees
<1>3. SubsetOf(n, own)  BY <1>1 DEF SubsetOf
<1>4. QED  BY <1>1, <1>2, <1>3 DEF CompetitorScore

\* The scores of two short names with their own teams outdo those with each other's.
LEMMA OwnOutscores ==
  ASSUME NEW n1, NEW n2, NEW f1, NEW f2, ShortFor(n1, f1), ShortFor(n2, f2), Full(f1), Full(f2),
         ~(f1.words \subseteq f2.words), ~(f2.words \subseteq f1.words)
  PROVE  CompetitorScore(n1, f1) * CompetitorScore(n2, f2) >= CompetitorScore(n1, f2) * CompetitorScore(n2, f1)
<1> DEFINE s11 == CompetitorScore(n1, f1)
           s22 == CompetitorScore(n2, f2)
           s12 == CompetitorScore(n1, f2)
           s21 == CompetitorScore(n2, f1)
<1>1. s11 \in {0, Subset, Exact} /\ s22 \in {0, Subset, Exact} /\ s12 \in {0, Subset, Exact} /\ s21 \in {0, Subset, Exact}
  BY ScoreType
<1>2. CASE s12 = 0 \/ s21 = 0
  <2> HIDE DEF s11, s22, s12, s21
  <2>1. s12 * s21 = 0  BY <1>1, <1>2 DEF Subset, Exact
  <2>2. s11 * s22 >= 0  BY <1>1 DEF Subset, Exact
  <2>3. s11 * s22 >= s12 * s21  BY <2>1, <2>2
  <2>4. QED  BY <2>3 DEF s11, s22, s12, s21
<1>3. CASE s12 # 0 /\ s21 # 0
  <2>1. s12 = Subset /\ n1.words \subseteq f2.words /\ f2.words \cap Discriminator \subseteq n1.words
    BY <1>3, FitsOther
  <2>2. s21 = Subset /\ n2.words \subseteq f1.words /\ f1.words \cap Discriminator \subseteq n2.words
    BY <1>3, FitsOther
  <2>3. n1.words \subseteq f1.words /\ n2.words \subseteq f2.words  BY DEF ShortFor
  <2>4. f1.words \cap Discriminator \subseteq n1.words /\ f2.words \cap Discriminator \subseteq n2.words
    BY <2>1, <2>2, <2>3
  <2>5. s11 \in {Subset, Exact} /\ s22 \in {Subset, Exact}  BY <2>4, FitsOwn
  <2> HIDE DEF s11, s22, s12, s21
  <2>6. s11 * s22 >= s12 * s21  BY <2>1, <2>2, <2>5 DEF Subset, Exact
  <2>7. QED  BY <2>6 DEF s11, s22, s12, s21
<1>4. QED  BY <1>2, <1>3

\* However Kalshi shortens the names of two teams, neither of whose full names contains
\* the other's, and in whichever order the venues name them, align_competitors never takes
\* one team for the other: at worst it refuses.
THEOREM AlignNeverInverts ==
  ASSUME NEW n1, NEW n2, NEW f1, NEW f2, ShortFor(n1, f1), ShortFor(n2, f2), Full(f1), Full(f2),
         ~(f1.words \subseteq f2.words), ~(f2.words \subseteq f1.words)
  PROVE  /\ Align(Scores(<<n1, n2>>, <<f1, f2>>)) \in {<<1, 2>>, Refused}
         /\ Align(Scores(<<n1, n2>>, <<f2, f1>>)) \in {<<2, 1>>, Refused}
<1>1. CompetitorScore(n1, f1) * CompetitorScore(n2, f2) >= CompetitorScore(n1, f2) * CompetitorScore(n2, f1)
  BY OwnOutscores
<1>2. \A k, p : /\ Scores(k, p)[1][1] = CompetitorScore(k[1], p[1])
                /\ Scores(k, p)[1][2] = CompetitorScore(k[1], p[2])
                /\ Scores(k, p)[2][1] = CompetitorScore(k[2], p[1])
                /\ Scores(k, p)[2][2] = CompetitorScore(k[2], p[2])
  BY ScoresAre
<1>3. Align(Scores(<<n1, n2>>, <<f1, f2>>)) \in {<<1, 2>>, Refused}
  <2> DEFINE s == Scores(<<n1, n2>>, <<f1, f2>>)
  <2>1. s[1][1] * s[2][2] >= s[1][2] * s[2][1]  BY <1>1, <1>2
  <2> HIDE DEF s
  <2>2. Align(s) \in {<<1, 2>>, Refused}  BY <2>1, AlignPrefers
  <2>3. QED  BY <2>2 DEF s
<1>4. Align(Scores(<<n1, n2>>, <<f2, f1>>)) \in {<<2, 1>>, Refused}
  <2> DEFINE s == Scores(<<n1, n2>>, <<f2, f1>>)
  <2>1. s[1][2] * s[2][1] >= s[1][1] * s[2][2]  BY <1>1, <1>2
  <2>2. s[1][1] \in Int /\ s[1][2] \in Int /\ s[2][1] \in Int /\ s[2][2] \in Int
    BY <1>2, ScoreType DEF Subset, Exact
  <2> HIDE DEF s
  <2>3. s[1][1] * s[2][2] \in Int /\ s[1][2] * s[2][1] \in Int  BY <2>2
  <2>4. Align(s) \in {<<2, 1>>, Refused}  BY <2>1, <2>3, AlignPrefersSwap
  <2>5. QED  BY <2>4 DEF s
<1>5. QED  BY <1>3, <1>4

-----------------------------------------------------------------------------
(* The pipeline                                                            *)

\* A candidate has a score and a difference of dates, perhaps unknown.
Ranked(c) == c.score \in Int /\ c.delta \in Int

Dated(m) == m.date \in Int /\ IsFiniteSet(m.competition.words)

Ranks ==
  /\ \A m \in kalshi \cup poly : Dated(m)
  /\ \A x \in DOMAIN similar : similar[x] \in Int
  /\ \A c \in claims : c.score \in Int /\ Dated(c.k) /\ Dated(c.p)
  /\ \A c \in group : Ranked(c)
  /\ \A x \in offered : Ranked(x.cand)

\* Whose turn it was.  What is being walked has been offered.
Turns ==
  /\ at \in 1..(Len(Layers) + 1) /\ phase \in {"match", "claim", "walk"}
  /\ phase # "match" => at <= Len(Layers)
  /\ kept \subseteq offered
  /\ \A x \in offered : /\ x = [layer |-> x.layer, cand |-> x.cand]
                        /\ x.layer \in Int /\ x.layer <= at
                        /\ phase # "walk" => x.layer < at
  /\ phase = "walk" => Tagged(group) \subseteq offered

\* The two sets of claimed markets are those of the kept candidates.
Claimed ==
  /\ \A x \in kept : x.cand.k \in kClaimed /\ x.cand.p \in pClaimed
  /\ \A i \in kClaimed : \E x \in kept : x.cand.k = i
  /\ \A i \in pClaimed : \E x \in kept : x.cand.p = i

\* The candidates of the layer at work that have been walked.
Walked == {x \in offered : phase = "walk" /\ x.layer = at /\ x.cand \notin group}

\* They all outrank those that have not, and what is kept has been walked.
Ahead ==
  /\ \A x \in Walked : \A c \in group : OutRanks(x.cand, c)
  /\ phase = "walk" => \A x \in kept : x.layer = at => x \in Walked

Cause(x) ==
  \/ Beaten(x)
  \/ \E y \in offered \ {x} :
       /\ y.layer = x.layer /\ Rivals(x.cand, y.cand) /\ ~Beaten(y)
       /\ ~OutRanks(x.cand, y.cand) /\ ~OutRanks(y.cand, x.cand)

Causes == \A x \in offered \ kept : x.layer < at \/ x \in Walked => Cause(x)

IInv == Ranks /\ Turns /\ Claimed /\ OneToOne /\ Ahead /\ Causes

-----------------------------------------------------------------------------
(* Ranks                                                                   *)

\* A candidate that outranks another is not outranked by it.
LEMMA OutRanksAsymmetric ==
  ASSUME NEW a, NEW b, Ranked(a), Ranked(b), OutRanks(a, b) PROVE ~OutRanks(b, a)
BY DEF Ranked, OutRanks, None

\* A third candidate is outranked by the first or outranks the second.
LEMMA OutRanksSplits ==
  ASSUME NEW a, NEW b, NEW c, Ranked(a), Ranked(b), Ranked(c), OutRanks(a, b)
  PROVE  OutRanks(a, c) \/ OutRanks(c, b)
BY DEF Ranked, OutRanks, None

\* The best rank outranks every other.
LEMMA BlockOutRanks ==
  ASSUME \A g \in group : Ranked(g), NEW c \in Block, NEW d \in group \ Block
  PROVE  OutRanks(c, d)
<1>1. PICK e \in group : OutRanks(e, d)  BY DEF Block
<1>2. c \in group /\ ~OutRanks(e, c)  BY <1>1 DEF Block
<1>3. QED  BY <1>1, <1>2, OutRanksSplits

\* A difference of dates is a number.
LEMMA DeltaType == ASSUME NEW k, NEW p, Dated(k), Dated(p)
                   PROVE  DeltaDays(k, p) \in Int /\ Highest(DeltaDays(k, p), 0) \in Int
BY DEF Dated, DeltaDays, None, Abs, Highest

LEMMA ScoreInt == \A a, b : CompetitorScore(a, b) \in Int
BY ScoreType DEF Subset, Exact

LEMMA CandidateRanked ==
  ASSUME NEW k, NEW p, NEW score \in Int, NEW delta \in Int, NEW inverted
  PROVE  Ranked(Candidate(k, p, score, delta, inverted))
BY DEF Ranked, Candidate

\* So is how well two competitions fit: their words are not many.
LEMMA CompetitionType ==
  ASSUME NEW k, NEW p, Dated(k), Dated(p)
  PROVE  CompetitionScore(k.competition, p.competition) \in Int
<1> DEFINE a == k.competition.words
           b == p.competition.words
<1>1. CASE a = {} \/ b = {}
  BY <1>1 DEF CompetitionScore
<1>2. CASE a # {} /\ b # {}
  <2>1. IsFiniteSet(a) /\ IsFiniteSet(b)  BY DEF Dated
  <2>2. IsFiniteSet(a \cap b) /\ IsFiniteSet(a \cup b)
    BY <2>1, FS_Intersection, FS_Union
  <2>3. Cardinality(a \cap b) \in Nat /\ Cardinality(a \cup b) \in Nat
    BY <2>2, FS_CardinalityType
  <2>4. Cardinality(a \cup b) # 0
    BY <1>2, <2>2, FS_EmptySet
  <2>5. (100 * Cardinality(a \cap b)) \div Cardinality(a \cup b) \in Int
    BY <2>3, <2>4
  <2>6. QED  BY <2>5 DEF CompetitionScore
<1>3. QED  BY <1>1, <1>2

\* Whatever a matcher proposes has a rank.
LEMMA StructuredRanked == Ranks => \A c \in StructuredMatch : Ranked(c)
<1> SUFFICES ASSUME Ranks, NEW c \in StructuredMatch PROVE Ranked(c)  OBVIOUS
<1> DEFINE On(p, g) == {Candidate(m, p, g.score, DeltaDays(m, p), FALSE) : m \in FiledUnder(g.event, YesName(g, p))}
           Of(p) == UNION {On(p, g) : g \in Chosen(ScoredGames(p))}
<1>1. StructuredMatch = UNION {Of(p) : p \in Listed(poly, "structured")}  BY DEF StructuredMatch
<1> HIDE DEF Of
<1>2. PICK p \in Listed(poly, "structured") : c \in Of(p)  BY <1>1
<1> HIDE DEF On
<1>3. PICK g \in Chosen(ScoredGames(p)) : c \in On(p, g)  BY <1>2 DEF Of
<1>4. PICK m \in FiledUnder(g.event, YesName(g, p)) : c = Candidate(m, p, g.score, DeltaDays(m, p), FALSE)
  BY <1>3 DEF On
<1>5. Dated(m) /\ Dated(p)
  BY DEF Ranks, FiledUnder, Members, Listed
<1>6. g.score \in Int
  <2>1. g \in ScoredGames(p)  BY DEF Chosen
  <2>1a. PICK e \in GameEvents : \E n :
          LET s == GameScores(e, n, p)
          IN  Align(s) # Refused /\ g.score = s[Align(s)[1]][1] * s[Align(s)[2]][2]
    BY <2>1 DEF ScoredGames
  <2>2. PICK n :
          LET s == GameScores(e, n, p)
          IN  Align(s) # Refused /\ g.score = s[Align(s)[1]][1] * s[Align(s)[2]][2]
    BY <2>1a
  <2> DEFINE s == GameScores(e, n, p)
  <2>3. \A i, j \in {1, 2} : s[i][j] \in Int
    BY ScoreInt DEF GameScores, Exact
  <2>4. Align(s) \in {<<1, 2>>, <<2, 1>>}  BY <2>2, AlignType
  <2> HIDE DEF s
  <2>5. Align(s)[1] \in {1, 2} /\ Align(s)[2] \in {1, 2}  BY <2>4
  <2>6. s[Align(s)[1]][1] \in Int /\ s[Align(s)[2]][2] \in Int  BY <2>3, <2>5
  <2>7. g.score = s[Align(s)[1]][1] * s[Align(s)[2]][2]  BY <2>2 DEF s
  <2>8. QED  BY <2>6, <2>7
<1>7. QED  BY <1>4, <1>5, <1>6, DeltaType, CandidateRanked

LEMMA FuturesRanked == Ranks => \A c \in FuturesMatch : Ranked(c)
<1> SUFFICES ASSUME Ranks, NEW c \in FuturesMatch PROVE Ranked(c)  OBVIOUS
<1>0. PICK k \in Listed(kalshi, "futures") : \E o \in Chosen(ScoredOutrights(k)) :
        c = Candidate(k, o.market, o.score, Highest(DeltaDays(k, o.market), 0), FALSE)
  BY DEF FuturesMatch
<1>1. PICK o \in Chosen(ScoredOutrights(k)) :
        c = Candidate(k, o.market, o.score, Highest(DeltaDays(k, o.market), 0), FALSE)
  BY <1>0
<1>2. PICK p \in Listed(poly, "futures") :
        /\ o.market = p
        /\ o.score = CompetitorScore(k.yes, p.yes) * CompetitionScore(k.competition, p.competition)
  BY DEF Chosen, ScoredOutrights
<1>3. Dated(k) /\ Dated(p)  BY DEF Ranks, Listed
<1>4. o.score \in Int  BY <1>2, <1>3, ScoreInt, CompetitionType
<1>5. QED  BY <1>1, <1>2, <1>3, <1>4, DeltaType, CandidateRanked

LEMMA LexicalRanked == Ranks => \A c \in LexicalMatch : Ranked(c)
<1> SUFFICES ASSUME Ranks, NEW c \in LexicalMatch PROVE Ranked(c)  OBVIOUS
<1>1. PICK k \in TextMarkets(kalshi), p \in TextMarkets(poly) :
        c = Candidate(k, p, Likeness(k, p), DeltaDays(k, p), FALSE)
  BY DEF LexicalMatch
<1>2. Dated(k) /\ Dated(p)  BY DEF Ranks, TextMarkets
<1>3. Likeness(k, p) \in Int  BY DEF Likeness, Ranks
<1>4. QED  BY <1>1, <1>2, <1>3, DeltaType, CandidateRanked

\* What the matchers of lines and props score, and how.
LEMMA LineScored ==
  \A k, d : d \in ScoredLines(k) <=>
    \E p \in Listed(poly, "line"), i \in BOOLEAN :
      /\ LineFits(k, p, i) /\ d = [score |-> LineScore(k, p), hours |-> Hours(k, p), market |-> p, inverted |-> i]
BY DEF ScoredLines

LEMMA PropScored ==
  \A k, d : d \in ScoredProps(k) <=>
    \E p \in Listed(poly, "prop") :
      /\ PropFits(k, p) /\ d = [score |-> PropScore(k, p), hours |-> Hours(k, p), market |-> p, inverted |-> FALSE]
BY DEF ScoredProps

LEMMA LineScoreType == ASSUME NEW k, NEW p, Aligned(k, p) # Refused PROVE LineScore(k, p) \in Int
<1> DEFINE s == Scores(k.names, p.names)
           a == Aligned(k, p)
<1>1. \A i, j \in {1, 2} : s[i][j] \in Int  BY ScoreInt, ScoresAre
<1>2. a \in {<<1, 2>>, <<2, 1>>}  BY AlignType DEF Aligned
<1>3. LineScore(k, p) \in {s[a[1]][1], s[a[2]][2]}  BY DEF LineScore, Lowest
<1> HIDE DEF s, a
<1>4. a[1] \in {1, 2} /\ a[2] \in {1, 2}  BY <1>2
<1>5. QED  BY <1>1, <1>3, <1>4

LEMMA PropScoreType == ASSUME NEW k, NEW p PROVE PropScore(k, p) \in Int
<1> DEFINE s == Scores(k.names, p.names)
<1>1. s[1][1] \in Int /\ s[2][2] \in Int /\ s[1][2] \in Int /\ s[2][1] \in Int  BY ScoreInt, ScoresAre
<1>2. SameGame(k.names, p.names) \in {s[1][1] * s[2][2], s[1][2] * s[2][1]}  BY DEF SameGame, Highest
<1> HIDE DEF s
<1>3. s[1][1] * s[2][2] \in Int /\ s[1][2] * s[2][1] \in Int  BY <1>1
<1>4. SameGame(k.names, p.names) \in Int /\ CompetitorScore(k.yes, p.yes) \in Int  BY <1>2, <1>3, ScoreInt
<1> DEFINE g == SameGame(k.names, p.names)
           c == CompetitorScore(k.yes, p.yes)
<1>5. PropScore(k, p) = c * g  BY DEF PropScore
<1> HIDE DEF g, c
<1>6. g \in Int /\ c \in Int  BY <1>4 DEF g, c
<1>7. QED  BY <1>5, <1>6

\* So has a claim on a line or a prop a score, and its markets are of the catalogs.
LEMMA ClaimsRanked ==
  Ranks => \A layer \in {"line", "prop"} : \A c \in ClaimsOf(layer) :
             c.score \in Int /\ Dated(c.k) /\ Dated(c.p)
<1> SUFFICES ASSUME Ranks, NEW layer \in {"line", "prop"}, NEW c \in ClaimsOf(layer)
             PROVE  c.score \in Int /\ Dated(c.k) /\ Dated(c.p)
  OBVIOUS
<1>0. PICK k \in Listed(kalshi, layer) : \E d \in Chosen(Scored(k)) :
        c.score = d.score /\ c.k = k /\ c.p = d.market
  BY DEF ClaimsOf
<1>1. PICK d \in Chosen(Scored(k)) : c.score = d.score /\ c.k = k /\ c.p = d.market
  BY <1>0
<1>2. d \in Scored(k)  BY DEF Chosen
<1>3. Dated(k)  BY DEF Ranks, Listed
<1>4. CASE k.layer = "line"
  <2>1. d \in ScoredLines(k)  BY <1>2, <1>4 DEF Scored
  <2>2. PICK p \in Listed(poly, "line"), i \in BOOLEAN :
          LineFits(k, p, i) /\ d.market = p /\ d.score = LineScore(k, p)
    BY <2>1, LineScored
  <2>3. d.score \in Int  BY <2>2, LineScoreType DEF LineFits
  <2>4. Dated(p)  BY DEF Ranks, Listed
  <2>5. QED  BY <1>1, <1>3, <2>2, <2>3, <2>4
<1>5. CASE k.layer # "line"
  <2>1. d \in ScoredProps(k)  BY <1>2, <1>5 DEF Scored
  <2>2. PICK p \in Listed(poly, "prop") : d.market = p /\ d.score = PropScore(k, p)
    BY <2>1, PropScored
  <2>3. Dated(p)  BY DEF Ranks, Listed
  <2>4. QED  BY <1>1, <1>3, <2>2, <2>3, PropScoreType
<1>6. QED  BY <1>4, <1>5

-----------------------------------------------------------------------------
(* One action at a time                                                    *)

LEMMA LayersLen == Len(Layers) = 5 /\ \A i \in 1..5 : Layers[i] \in {"structured", "futures", "line", "prop", "lexical"}
BY DEF Layers

LEMMA InvInit == Init => IInv
<1> SUFFICES ASSUME Init PROVE IInv  OBVIOUS
<1>1. Ranks
  <2>1. PICK family \in Catalogs : \E c \in family :
          kalshi = c.kalshi /\ poly = c.poly /\ similar = c.similar
    BY DEF Init
  <2>2. PICK c \in family : kalshi = c.kalshi /\ poly = c.poly /\ similar = c.similar
    BY <2>1
  <2>3. QED  BY <2>2, MatchingAssumption DEF Ranks, Dated, Init
<1>2. Turns  BY LayersLen DEF Init, Turns
<1>3. Claimed /\ OneToOne /\ Ahead /\ Causes
  BY DEF Init, Claimed, OneToOne, Written, Ahead, Walked, Causes
<1>4. QED  BY <1>1, <1>2, <1>3 DEF IInv

\* Candidates offered anew are all still to be walked, and nothing else changes.
LEMMA Offer ==
  ASSUME IInv, phase # "walk", phase' = "walk", UNCHANGED <<catalogs, at, claims, kClaimed, pClaimed, kept>>,
         at <= Len(Layers), offered' = offered \cup Tagged(group'),
         \A c \in group' : Ranked(c)
  PROVE  IInv'
<1>1. \A x \in offered : x.layer < at /\ x.layer # at  BY DEF IInv, Turns
<1>2. \A x \in Tagged(group') : x.layer = at /\ x.cand \in group' /\ x = [layer |-> x.layer, cand |-> x.cand]
  BY DEF Tagged
<1>3. Walked' = {}
  BY <1>1, <1>2 DEF Walked
<1>4. Ranks'
  BY <1>2 DEF IInv, Ranks, catalogs
<1>5. Turns'
  <2>1. Tagged(group)' = Tagged(group')  BY DEF Tagged
  <2>2. QED  BY <1>2, <2>1 DEF IInv, Turns
<1>6. Claimed' /\ OneToOne'
  BY DEF IInv, Claimed, OneToOne, Written
<1>7. Ahead'
  BY <1>1, <1>3 DEF IInv, Turns, Ahead
<1>8. Causes'
  <2> SUFFICES ASSUME NEW x \in offered' \ kept', x.layer < at' \/ x \in Walked' PROVE Cause(x)'
    BY DEF Causes
  <2>1. x.layer < at  BY <1>3
  <2>2. at \in Int  BY DEF IInv, Turns
  <2>3. x \in offered \ kept  BY <1>2, <2>1, <2>2
  <2>4. Cause(x)  BY <2>1, <2>3 DEF IInv, Causes
  <2>5. QED  BY <2>4 DEF Cause, Beaten
<1>9. QED  BY <1>4, <1>5, <1>6, <1>7, <1>8 DEF IInv

LEMMA RunMatcherStep == IInv /\ RunMatcher => IInv'
<1> SUFFICES ASSUME IInv, RunMatcher PROVE IInv'  OBVIOUS
<1>1. CASE Layers[at] \in {"line", "prop"}
  <2>1. /\ claims' = ClaimsOf(Layers[at]) /\ phase = "match" /\ phase' = "claim" /\ at <= Len(Layers)
        /\ UNCHANGED <<catalogs, at, group, kClaimed, pClaimed, kept, offered>>
    BY <1>1 DEF RunMatcher
  <2>2. Ranks'  BY <1>1, <2>1, ClaimsRanked DEF IInv, Ranks, catalogs
  <2>3. Turns'  BY <2>1 DEF IInv, Turns
  <2>4. Claimed' /\ OneToOne'  BY <2>1 DEF IInv, Claimed, OneToOne, Written
  <2>5. Walked = {} /\ Walked' = {}  BY <2>1 DEF Walked
  <2>6. Ahead'  BY <2>1, <2>5 DEF Ahead
  <2>7. Causes'  BY <2>1, <2>5 DEF IInv, Causes, Cause, Beaten
  <2>8. QED  BY <2>2, <2>3, <2>4, <2>6, <2>7 DEF IInv
<1>2. CASE Layers[at] \notin {"line", "prop"}
  <2>1. /\ phase = "match" /\ phase' = "walk" /\ at <= Len(Layers)
        /\ group' = Match(Layers[at]) /\ offered' = offered \cup Tagged(group')
        /\ UNCHANGED <<claims, catalogs, at, kClaimed, pClaimed, kept>>
    BY <1>2 DEF RunMatcher
  <2>2. Layers[at] \in {"structured", "futures", "lexical"}
    BY <1>2, <2>1, LayersLen DEF IInv, Turns
  <2>3. \A c \in group' : Ranked(c)
    BY <2>1, <2>2, StructuredRanked, FuturesRanked, LexicalRanked DEF Match, IInv
  <2>4. QED  BY <2>1, <2>3, Offer
<1>3. QED  BY <1>1, <1>2

LEMMA TakeClaimStep == IInv /\ TakeClaim => IInv'
<1> SUFFICES ASSUME IInv, TakeClaim PROVE IInv'  OBVIOUS
<1>1. PICK c \in claims :
        /\ claims' = claims \ {c}
        /\ group' = IF \E g \in group : g.k = c.k.id \/ g.p = c.p.id THEN group
                    ELSE group \cup {Candidate(c.k, c.p, c.score, Highest(DeltaDays(c.k, c.p), 0), c.inverted)}
  BY DEF TakeClaim
<1>2. phase = "claim" /\ UNCHANGED <<catalogs, at, phase, kClaimed, pClaimed, kept, offered>>
  BY DEF TakeClaim
<1>3. Ranked(Candidate(c.k, c.p, c.score, Highest(DeltaDays(c.k, c.p), 0), c.inverted))
  BY DeltaType, CandidateRanked DEF IInv, Ranks
<1>4. \A g \in group' : Ranked(g)  BY <1>1, <1>3 DEF IInv, Ranks
<1>5. Ranks'  BY <1>1, <1>2, <1>4 DEF IInv, Ranks, catalogs
<1>6. Turns'  BY <1>2 DEF IInv, Turns
<1>7. Claimed' /\ OneToOne'  BY <1>2 DEF IInv, Claimed, OneToOne, Written
<1>8. Walked = {} /\ Walked' = {}  BY <1>2 DEF Walked
<1>9. Ahead' /\ Causes'  BY <1>2, <1>8 DEF IInv, Ahead, Causes, Cause, Beaten
<1>10. QED  BY <1>5, <1>6, <1>7, <1>9 DEF IInv

LEMMA ClaimsTakenStep == IInv /\ ClaimsTaken => IInv'
<1> SUFFICES ASSUME IInv, ClaimsTaken PROVE IInv'  OBVIOUS
<1>1. /\ phase = "claim" /\ phase' = "walk" /\ offered' = offered \cup Tagged(group')
      /\ UNCHANGED <<catalogs, at, claims, group, kClaimed, pClaimed, kept>>
  BY DEF ClaimsTaken, Tagged
<1>2. at <= Len(Layers) /\ \A c \in group' : Ranked(c)  BY <1>1 DEF IInv, Turns, Ranks
<1>3. QED  BY <1>1, <1>2, Offer

LEMMA NextLayerStep == IInv /\ NextLayer => IInv'
<1> SUFFICES ASSUME IInv, NextLayer PROVE IInv'  OBVIOUS
<1>1. /\ phase = "walk" /\ group = {} /\ phase' = "match" /\ at' = at + 1
      /\ UNCHANGED <<catalogs, claims, group, kClaimed, pClaimed, kept, offered>>
  BY DEF NextLayer
<1>2. Ranks'  BY <1>1 DEF IInv, Ranks, catalogs
<1>3. Turns'  BY <1>1, LayersLen DEF IInv, Turns
<1>4. Claimed' /\ OneToOne'  BY <1>1 DEF IInv, Claimed, OneToOne, Written
<1>5. Walked' = {}  BY <1>1 DEF Walked
<1>6. Ahead'  BY <1>1, <1>5 DEF Ahead
<1>7. Causes'
  <2> SUFFICES ASSUME NEW x \in offered \ kept, x.layer < at + 1 PROVE Cause(x)'
    BY <1>1, <1>5 DEF Causes
  <2>1. x.layer < at \/ x \in Walked  BY <1>1 DEF IInv, Turns, Walked
  <2>2. Cause(x)  BY <2>1 DEF IInv, Causes
  <2>3. QED  BY <1>1, <2>2 DEF Cause, Beaten
<1>8. QED  BY <1>2, <1>3, <1>4, <1>6, <1>7 DEF IInv

LEMMA WalkBlockStep == IInv /\ WalkBlock => IInv'
<1> SUFFICES ASSUME IInv, WalkBlock PROVE IInv'  OBVIOUS
<1> DEFINE new == Uncontested(Block)
<1>1. /\ phase = "walk" /\ group' = group \ Block /\ kept' = kept \cup Tagged(new)
      /\ kClaimed' = kClaimed \cup {c.k : c \in new} /\ pClaimed' = pClaimed \cup {c.p : c \in new}
      /\ UNCHANGED <<catalogs, at, phase, claims, offered>>
  BY DEF WalkBlock
<1>2. Block \subseteq group /\ Free(Block) \subseteq Block /\ new \subseteq Free(Block)
  BY DEF Block, Free, Uncontested
<1>3. /\ \A c \in Block : [layer |-> at, cand |-> c] \in offered
      /\ \A x \in Tagged(new) : x \in offered /\ x.layer = at /\ x.cand \in new
      /\ \A c \in new : [layer |-> at, cand |-> c] \in kept'
  BY <1>1, <1>2 DEF IInv, Turns, Tagged
<1>4. \A c, d \in new : c # d => ~Rivals(c, d)
  BY DEF Uncontested, Rivals
<1>5. \A c \in Free(Block), x \in kept : ~Rivals(x.cand, c)
  BY DEF Free, Rivals, IInv, Claimed
<1>6. Ranks'  BY <1>1 DEF IInv, Ranks, catalogs
<1>7. Turns'
  <2>1. Tagged(group)' \subseteq Tagged(group)  BY <1>1 DEF Tagged
  <2>2. QED  BY <1>1, <1>3, <2>1 DEF IInv, Turns
<1>8. Claimed'
  <2>1. \A x \in kept' : x.cand.k \in kClaimed' /\ x.cand.p \in pClaimed'
    BY <1>1, <1>3 DEF IInv, Claimed
  <2>2. ASSUME NEW i \in kClaimed' PROVE \E x \in kept' : x.cand.k = i
    <3>1. CASE i \in kClaimed  BY <1>1, <3>1 DEF IInv, Claimed
    <3>2. ASSUME NEW c \in new, i = c.k PROVE \E x \in kept' : x.cand.k = i
      BY <1>3, <3>2
    <3>3. QED  BY <1>1, <3>1, <3>2
  <2>3. ASSUME NEW i \in pClaimed' PROVE \E x \in kept' : x.cand.p = i
    <3>1. CASE i \in pClaimed  BY <1>1, <3>1 DEF IInv, Claimed
    <3>2. ASSUME NEW c \in new, i = c.p PROVE \E x \in kept' : x.cand.p = i
      BY <1>3, <3>2
    <3>3. QED  BY <1>1, <3>1, <3>2
  <2>4. QED  BY <2>1, <2>2, <2>3 DEF Claimed
<1>9. OneToOne'
  <2>1. \A c \in Written' : c \in Written \/ c \in new
    BY <1>1, <1>3 DEF Written
  <2>2. \A c \in Written, d \in new : ~Rivals(c, d) /\ ~Rivals(d, c)
    BY <1>2, <1>5 DEF Written, Rivals
  <2>3. QED  BY <1>4, <2>1, <2>2 DEF IInv, OneToOne
\* Who is walked now: who was, and the block.
<1>10. \A x \in Walked' : x \in Walked \/ (x \in offered /\ x.layer = at /\ x.cand \in Block)
  BY <1>1 DEF Walked
<1>11. Walked \subseteq Walked'  BY <1>1 DEF Walked
<1>12. \A x \in offered : x.layer = at /\ x.cand \in Block => x \in Walked'
  BY <1>1 DEF Walked
<1>13. Ahead'
  <2>1. ASSUME NEW x \in Walked', NEW c \in group' PROVE OutRanks(x.cand, c)
    <3>1. CASE x \in Walked  BY <1>1, <3>1 DEF IInv, Ahead
    <3>2. CASE x.cand \in Block  BY <1>1, <3>2, BlockOutRanks DEF IInv, Ranks
    <3>3. QED  BY <1>10, <2>1, <3>1, <3>2
  <2>2. ASSUME NEW x \in kept', x.layer = at PROVE x \in Walked'
    <3>1. CASE x \in kept  BY <1>1, <1>11, <2>2, <3>1 DEF IInv, Ahead
    <3>2. CASE x \in Tagged(new)  BY <1>2, <1>3, <1>12, <3>2
    <3>3. QED  BY <1>1, <2>2, <3>1, <3>2
  <2>3. QED  BY <1>1, <2>1, <2>2 DEF Ahead
\* Beating is for good, and those who were walked unbeaten are not beaten by the block.
<1>14. \A x : Beaten(x) => Beaten(x)'
  BY <1>1 DEF Beaten
<1>15. ASSUME NEW y \in offered, y.layer < at \/ y \in Walked, ~Beaten(y) PROVE ~Beaten(y)'
  <2> SUFFICES ASSUME NEW z \in kept', Rivals(y.cand, z.cand),
                      z.layer < y.layer \/ (z.layer = y.layer /\ OutRanks(z.cand, y.cand))
               PROVE  FALSE
    BY DEF Beaten
  <2>1. z \in Tagged(new)  BY <1>1, <1>15 DEF Beaten
  <2>2. z.layer = at /\ z.cand \in group /\ z \in offered  BY <1>2, <1>3, <2>1
  <2>3. y.layer = at /\ OutRanks(z.cand, y.cand) /\ y \in Walked
    BY <1>15, <2>2 DEF IInv, Turns
  <2>4. OutRanks(y.cand, z.cand)  BY <2>2, <2>3 DEF IInv, Ahead
  <2>5. QED  BY <2>2, <2>3, <2>4, OutRanksAsymmetric DEF IInv, Ranks
\* One of the block that is free is not beaten by the rest of it.
<1>16. ASSUME NEW y, y.layer = at, y.cand \in Free(Block) PROVE ~Beaten(y)'
  <2> DEFINE d == y.cand
  <2> SUFFICES ASSUME NEW z \in kept', Rivals(d, z.cand),
                      z.layer < at \/ (z.layer = at /\ OutRanks(z.cand, d))
               PROVE  FALSE
    BY <1>16 DEF Beaten
  <2>0. d \in Free(Block)  BY <1>16
  <2> HIDE DEF d
  <2>1. z \in Tagged(new)  BY <1>1, <1>5, <2>0 DEF Rivals
  <2>2. z.layer = at /\ z.cand \in Block /\ d \in Block  BY <1>2, <1>3, <2>0, <2>1
  <2>3. ~OutRanks(z.cand, d)  BY <2>2 DEF Block
  <2>4. QED  BY <2>2, <2>3 DEF IInv, Turns
<1>17. Causes'
  <2> SUFFICES ASSUME NEW x \in offered, x \notin kept', x.layer < at \/ x \in Walked'
               PROVE  Cause(x)'
    BY <1>1 DEF Causes
  <2>1. CASE x.layer < at \/ x \in Walked
    <3>1. Cause(x)  BY <1>1, <2>1 DEF IInv, Causes
    <3>2. CASE Beaten(x)  BY <1>14, <3>2 DEF Cause
    <3>3. ASSUME NEW y \in offered \ {x}, y.layer = x.layer, Rivals(x.cand, y.cand), ~Beaten(y),
                 ~OutRanks(x.cand, y.cand), ~OutRanks(y.cand, x.cand)
          PROVE  Cause(x)'
      <4>1. y.layer < at \/ y \in Walked
        <5>1. CASE x.layer < at  BY <3>3, <5>1
        <5>2. CASE x \in Walked
          <6>1. x.layer = at /\ phase = "walk"  BY <5>2 DEF Walked
          <6>2. y.cand \notin group  BY <3>3, <5>2 DEF IInv, Ahead
          <6>3. QED  BY <3>3, <6>1, <6>2 DEF Walked
        <5>3. QED  BY <2>1, <5>1, <5>2
      <4>2. ~Beaten(y)'  BY <1>15, <3>3, <4>1
      <4>3. QED  BY <1>1, <3>3, <4>2 DEF Cause
    <3>4. QED  BY <3>1, <3>2, <3>3 DEF Cause
  <2>2. CASE x.layer = at /\ x.cand \in Block
    <3>1. x = [layer |-> at, cand |-> x.cand]  BY <2>2 DEF IInv, Turns
    <3>2. x.cand \notin new  BY <1>1, <3>1 DEF Tagged
    <3>3. CASE x.cand \notin Free(Block)
      <4>1. PICK y \in kept : Rivals(x.cand, y.cand)
        BY <2>2, <3>3 DEF Free, IInv, Claimed, Rivals
      <4>2. y.layer < at \/ y.layer = at  BY DEF IInv, Turns
      <4>3. y.layer = at => OutRanks(y.cand, x.cand)
        BY <1>1, <1>2, <2>2 DEF IInv, Ahead
      <4>4. Beaten(x)  BY <2>2, <4>1, <4>2, <4>3 DEF Beaten
      <4>5. QED  BY <1>14, <4>4 DEF Cause
    <3>4. CASE x.cand \in Free(Block)
      <4>1. PICK d \in Free(Block) \ {x.cand} : d.k = x.cand.k \/ d.p = x.cand.p
        BY <3>2, <3>4 DEF Uncontested
      <4>2. PICK y \in offered : y # x /\ y.layer = x.layer /\ y.cand = d
        <5>1. [layer |-> at, cand |-> d] \in offered /\ d # x.cand  BY <1>2, <1>3, <4>1
        <5> USE <5>1
        <5> WITNESS [layer |-> at, cand |-> d] \in offered
        <5>2. QED  BY <2>2, <5>1
      <4>3. ~OutRanks(x.cand, d) /\ ~OutRanks(d, x.cand)
        BY <1>2, <2>2, <4>1 DEF Block
      <4>4. ~Beaten(y)'  BY <1>16, <2>2, <4>1, <4>2
      <4>5. Rivals(x.cand, d)  BY <4>1 DEF Rivals
      <4>6. QED  BY <1>1, <4>2, <4>3, <4>4, <4>5 DEF Cause
    <3>5. QED  BY <3>3, <3>4
  <2>3. QED  BY <1>10, <2>1, <2>2
<1>18. QED  BY <1>6, <1>7, <1>8, <1>9, <1>13, <1>17 DEF IInv

-----------------------------------------------------------------------------
(* The theorems                                                            *)

LEMMA InvStep == IInv /\ [Next]_vars => IInv'
<1>1. IInv /\ UNCHANGED vars => IInv'
  BY DEF vars, catalogs, IInv, Ranks, Turns, Tagged, Claimed, OneToOne, Written, Ahead, Walked, Causes, Cause, Beaten
<1>2. QED
  BY <1>1, RunMatcherStep, TakeClaimStep, ClaimsTakenStep, WalkBlockStep, NextLayerStep DEF Next

LEMMA Invariance == Spec => []IInv
BY InvInit, InvStep, PTL DEF Spec

\* Whatever the venues list and however well it fits, no market is in two pairs of
\* matches.json.
THEOREM MatchingOneToOne == Spec => []OneToOne
<1>1. IInv => OneToOne  BY DEF IInv
<1>2. QED  BY Invariance, <1>1, PTL

\* A candidate of any layer that is not in matches.json lost a market to a better one, or
\* to a rival of its own rank that had itself not lost.
THEOREM MatchingLostForCause == Spec => []LostForCause
<1>1. IInv => LostForCause
  BY DEF IInv, Causes, Cause, LostForCause
<1>2. QED  BY Invariance, <1>1, PTL

-----------------------------------------------------------------------------
(* Hedges                                                                  *)

\* An alignment of two listings of one game, if it is not refused, puts each team in its
\* place.
LEMMA AlignFinds ==
  ASSUME NEW kn, NEW pn, NEW i \in {1, 2}, NEW j \in {1, 2}, FullNames(pn),
         \A t \in {1, 2} : ShortFor(kn[Place(j, t)], pn[Place(i, t)]),
         Align(Scores(kn, pn)) # Refused
  PROVE  \A t \in {1, 2} : Align(Scores(kn, pn))[Place(i, t)] = Place(j, t)
<1> DEFINE f1 == pn[Place(i, 1)]
           f2 == pn[Place(i, 2)]
           n1 == kn[Place(j, 1)]
           n2 == kn[Place(j, 2)]
<1>1. Place(i, 1) = i /\ Place(i, 2) = 3 - i /\ Place(j, 1) = j /\ Place(j, 2) = 3 - j  BY DEF Place
<1>2. ShortFor(n1, f1) /\ ShortFor(n2, f2)  OBVIOUS
<1>3. Full(f1) /\ Full(f2) /\ ~(f1.words \subseteq f2.words) /\ ~(f2.words \subseteq f1.words)
  BY <1>1 DEF FullNames
<1>4. /\ CompetitorScore(n1, f1) * CompetitorScore(n2, f2) >= CompetitorScore(n1, f2) * CompetitorScore(n2, f1)
  BY <1>2, <1>3, OwnOutscores
<1>5. /\ Scores(kn, pn)[j][i] = CompetitorScore(n1, f1) /\ Scores(kn, pn)[3 - j][3 - i] = CompetitorScore(n2, f2)
      /\ Scores(kn, pn)[j][3 - i] = CompetitorScore(n1, f2) /\ Scores(kn, pn)[3 - j][i] = CompetitorScore(n2, f1)
  BY <1>1, ScoresAre
<1> DEFINE s == Scores(kn, pn)
<1>6. \A a, b \in {1, 2} : s[a][b] \in {0, Subset, Exact}  BY ScoresAre, ScoreType
<1>7. s[j][i] * s[3 - j][3 - i] >= s[j][3 - i] * s[3 - j][i]  BY <1>4, <1>5
<1> HIDE DEF s, f1, f2, n1, n2
<1>8. \A a, b, c, d \in {1, 2} : s[a][b] * s[c][d] \in Int  BY <1>6 DEF Subset, Exact
<1>9. Align(s) \in {IF i = j THEN <<1, 2>> ELSE <<2, 1>>, Refused}
  <2>1. CASE i = j
    <3>1. s[1][1] * s[2][2] >= s[1][2] * s[2][1]
      <4>1. CASE i = 1  BY <1>7, <2>1, <4>1
      <4>2. CASE i = 2
        <5>1. s[2][2] * s[1][1] >= s[2][1] * s[1][2]  BY <1>7, <2>1, <4>2
        <5>2. s[2][2] * s[1][1] = s[1][1] * s[2][2] /\ s[2][1] * s[1][2] = s[1][2] * s[2][1]
          BY <1>6 DEF Subset, Exact
        <5>3. QED  BY <5>1, <5>2
      <4>3. QED  BY <4>1, <4>2
    <3>2. QED  BY <2>1, <3>1, AlignPrefers
  <2>2. CASE i # j
    <3>1. s[1][2] * s[2][1] >= s[1][1] * s[2][2]
      <4>1. CASE j = 1  BY <1>7, <2>2, <4>1
      <4>2. CASE j = 2
        <5>1. s[2][1] * s[1][2] >= s[2][2] * s[1][1]  BY <1>7, <2>2, <4>2
        <5>2. s[2][2] * s[1][1] = s[1][1] * s[2][2] /\ s[2][1] * s[1][2] = s[1][2] * s[2][1]
          BY <1>6 DEF Subset, Exact
        <5>3. QED  BY <5>1, <5>2
      <4>3. QED  BY <4>1, <4>2
    <3>2. QED  BY <1>8, <2>2, <3>1, AlignPrefersSwap
  <2>3. QED  BY <2>1, <2>2
<1>10. Align(s) # Refused  BY DEF s
<1>11. \A t \in {1, 2} : Align(s)[Place(i, t)] = Place(j, t)
  BY <1>9, <1>10 DEF Place
<1>12. QED  BY <1>11 DEF s

\* An alignment is of names that fit.
LEMMA AlignMeets ==
  ASSUME NEW s
  PROVE  /\ Align(s) = <<1, 2>> => ~(s[1][1] < MinSide) /\ ~(s[2][2] < MinSide)
         /\ Align(s) = <<2, 1>> => ~(s[2][1] < MinSide) /\ ~(s[1][2] < MinSide)
<1> DEFINE best == IF s[1][1] * s[2][2] >= s[1][2] * s[2][1] THEN <<1, 2>> ELSE <<2, 1>>
<1>1. best \in {<<1, 2>>, <<2, 1>>}  OBVIOUS
<1>2. Align(s) # Refused =>
        Align(s) = best /\ ~(s[best[1]][1] < MinSide) /\ ~(s[best[2]][2] < MinSide)
  BY DEF Align
<1> HIDE DEF best
<1>3. <<1, 2>> # Refused /\ <<2, 1>> # Refused  BY DEF Refused
<1>4. /\ best = <<1, 2>> => best[1] = 1 /\ best[2] = 2
      /\ best = <<2, 1>> => best[1] = 2 /\ best[2] = 1
  OBVIOUS
<1>5. QED  BY <1>2, <1>3, <1>4

\* A name fits itself, and fits another as that fits it.
LEMMA FitsItself == ASSUME NEW a, a.words # {} PROVE CompetitorScore(a, a) = Exact
BY DEF CompetitorScore, InitialsAgree

LEMMA ScoreSymmetric == \A a, b : CompetitorScore(a, b) = CompetitorScore(b, a)
<1> SUFFICES ASSUME NEW a, NEW b PROVE CompetitorScore(a, b) = CompetitorScore(b, a)  OBVIOUS
<1>1. InitialsAgree(a, b) <=> InitialsAgree(b, a)
  <2>1. {<<a, b>>, <<b, a>>} = {<<b, a>>, <<a, b>>}  OBVIOUS
  <2>2. QED  BY <2>1 DEF InitialsAgree
<1>2. SubsetOf(a, b) <=> SubsetOf(b, a)
  <2>1. (a.words \ b.words) \cup (b.words \ a.words) = (b.words \ a.words) \cup (a.words \ b.words)  OBVIOUS
  <2>2. QED  BY <2>1 DEF SubsetOf
<1>3. QED  BY <1>1, <1>2 DEF CompetitorScore

\* Which name of the title p's YES has.
LEMMA YesPlace ==
  ASSUME NEW p, NEW i \in {1, 2}, FullNames(p.names), p.team \in {1, 2}, p.yes = p.names[Place(i, p.team)]
  PROVE  (IF p.yes = p.names[1] THEN 1 ELSE 2) = Place(i, p.team)
<1>1. p.names[1] # p.names[2]  BY DEF FullNames
<1>2. QED  BY <1>1 DEF Place

\* A moneyline found under a name of its title is that team's.
LEMMA FiledUnderOwn ==
  ASSUME NEW k, NEW p, NEW i \in {1, 2}, NEW j \in {1, 2}, NEW t \in {1, 2}, k.team \in {1, 2},
         FullNames(p.names),
         \A u \in {1, 2} : ShortFor(k.names[Place(j, u)], p.names[Place(i, u)]),
         \A u \in {1, 2} : CompetitorScore(k.names[Place(j, u)], p.names[Place(i, 3 - u)]) = 0,
         k.yes = p.names[Place(i, k.team)], TitleName(k) = k.names[Place(j, t)]
  PROVE  k.team = t
<1> DEFINE own == Place(j, k.team)
           s1 == CompetitorScore(k.names[1], k.yes)
           s2 == CompetitorScore(k.names[2], k.yes)
<1>1. CompetitorScore(k.names[3 - own], k.yes) = 0
  <2>1. 3 - own = Place(j, 3 - k.team) /\ 3 - k.team \in {1, 2} /\ 3 - (3 - k.team) = k.team
    BY DEF Place
  <2>2. CompetitorScore(k.names[Place(j, 3 - k.team)], p.names[Place(i, 3 - (3 - k.team))]) = 0
    BY <2>1
  <2>3. QED  BY <2>1, <2>2
<1>2. own \in {1, 2} /\ {own, 3 - own} = {1, 2}  BY DEF Place
<1>3. s1 \in {0, Subset, Exact} /\ s2 \in {0, Subset, Exact}  BY ScoreType
<1>4. CompetitorScore(k.yes, k.yes) = Exact
  <2>1. Place(i, k.team) \in {1, 2}  BY DEF Place
  <2>2. k.yes.words # {}
    <3>1. ShortFor(k.names[own], k.yes)  OBVIOUS
    <3>2. QED  BY <3>1 DEF ShortFor
  <2>3. QED  BY <2>2, FitsItself
<1>5. TitleName(k) = k.names[own] \/ TitleName(k) = k.yes
  <2>1. TitleName(k) = IF s1 >= s2 THEN (IF s1 < MinSide THEN k.yes ELSE k.names[1])
                       ELSE (IF s2 < MinSide THEN k.yes ELSE k.names[2])
    BY DEF TitleName
  <2>2. CASE own = 1
    <3>1. s2 = 0  BY <1>1, <2>2
    <3> HIDE DEF own, s1, s2
    <3>2. s1 >= s2  BY <1>3, <3>1 DEF Subset, Exact
    <3>3. QED  BY <2>1, <2>2, <3>2
  <2>3. CASE own = 2
    <3>1. s1 = 0  BY <1>1, <2>3
    <3> HIDE DEF own, s1, s2
    <3>2. s1 < MinSide  BY <3>1 DEF MinSide
    <3>3. QED  BY <2>1, <2>3, <3>2
  <2>4. QED  BY <1>2, <2>2, <2>3
<1>6. CompetitorScore(TitleName(k), k.yes) # 0 \/ (TitleName(k) = k.names[own] /\ TitleName(k) # k.yes)
  <2>1. CASE TitleName(k) = k.yes
    <3>1. CompetitorScore(TitleName(k), k.yes) = Exact  BY <1>4, <2>1
    <3>2. QED  BY <3>1 DEF Exact
  <2>2. CASE TitleName(k) # k.yes  BY <1>5, <2>2
  <2>3. QED  BY <2>1, <2>2
<1>7. ASSUME k.team # t PROVE FALSE
  <2>1. Place(j, t) = 3 - own  BY <1>7 DEF Place
  <2>2. CompetitorScore(TitleName(k), k.yes) = 0  BY <1>1, <2>1
  <2>3. TitleName(k) = k.names[own] /\ TitleName(k) # k.yes  BY <1>6, <2>2
  <2>4. k.names[1] = k.names[2]  BY <1>2, <2>1, <2>3
  <2>5. s1 = 0 /\ s2 = 0  BY <1>1, <1>2, <2>4
  <2>6. TitleName(k) = k.yes
    <3>1. TitleName(k) = IF s1 >= s2 THEN (IF s1 < MinSide THEN k.yes ELSE k.names[1])
                         ELSE (IF s2 < MinSide THEN k.yes ELSE k.names[2])
      BY DEF TitleName
    <3>2. QED  BY <2>5, <3>1 DEF MinSide
  <2>7. QED  BY <2>3, <2>6
<1>8. QED  BY <1>7

\* The two listings of a spread pay as one contract, or as its complement, when the matcher
\* says so: the line is no whole number.
LEMMA SpreadPays ==
  ASSUME NEW k, NEW p, NEW inverted, k.layer = "line", p.layer = "line", p.key = k.key,
         k.key[3] \in Int, k.key[3] % 2 = 1, k.favored = TRUE, k.team \in {1, 2}, p.team \in {1, 2},
         inverted = ~p.favored, (k.team = p.team) = p.favored, p.favored \in BOOLEAN
  PROVE  IsHedge(k, p, inverted)
<1> SUFFICES ASSUME NEW margin \in Margins \ {0} PROVE Pays(k, margin) = OrientedPays(p, inverted, margin)
  BY DEF IsHedge
<1> DEFINE L == k.key[3]
           own(m) == IF m.team = 1 THEN margin ELSE -margin
<1>1. margin \in Int  BY DEF Margins
<1>2. Pays(k, margin) = (2 * own(k) > L)  BY DEF Pays
<1>3. Pays(p, margin) = (2 * own(p) > (IF p.favored THEN L ELSE -L))  BY DEF Pays
<1>4. own(k) \in Int /\ own(p) \in Int  BY <1>1
<1>5. CASE p.favored
  <2>1. own(k) = own(p)  BY <1>5
  <2>2. inverted = FALSE  BY <1>5
  <2>3. QED  BY <1>2, <1>3, <1>5, <2>1, <2>2 DEF OrientedPays
<1>6. CASE ~p.favored
  <2>1. own(p) = -own(k)  BY <1>1, <1>6
  <2>2. inverted = TRUE  BY <1>6
  <2>3. Pays(p, margin) = (2 * own(p) > -L)  BY <1>3, <1>6
  <2>4. OrientedPays(p, inverted, margin) = ~(2 * own(p) > -L)  BY <2>2, <2>3 DEF OrientedPays
  <2>5. L \in Int /\ L % 2 = 1  OBVIOUS
  <2> HIDE DEF own, L
  <2>6. 2 * own(k) # L  BY <1>4, <2>5
  <2>7. (2 * own(k) > L) = ~(2 * own(p) > -L)  BY <1>4, <2>1, <2>5, <2>6
  <2>8. QED  BY <1>2, <2>4, <2>7
<1>7. QED  BY <1>5, <1>6

\* Of two listings of one game the matchers claim only hedges.
LEMMA LineHedges ==
  ASSUME Truthful(kalshi, poly), NEW k \in Listed(kalshi, "line"), NEW d \in ScoredLines(k),
         OnMargin(k), k.game = d.market.game
  PROVE  d.market \in poly /\ IsHedge(k, d.market, d.inverted)
<1>1. PICK p \in Listed(poly, "line") : LineFits(k, p, d.inverted) /\ d.market = p
  BY LineScored
<1> DEFINE a == Align(Scores(k.names, p.names))
<1>2. k \in kalshi /\ p \in poly /\ k.layer = "line" /\ p.layer = "line"  BY DEF Listed
<1>3. p.key = k.key /\ a # Refused /\ d.market = p /\ d.inverted \in Orientation(k, p, a) /\ p.game = k.game
  BY <1>1 DEF LineFits, Aligned
<1>4. k.key[2] = "spread" /\ OnMargin(p)  BY <1>2, <1>3 DEF OnMargin
<1>5. OneListing(k, p)  BY <1>2, <1>3 DEF Truthful
<1>6. /\ k.team \in {1, 2} /\ p.team \in {1, 2} /\ p.favored \in BOOLEAN
      /\ k.favored = TRUE /\ k.key[3] \in Int /\ k.key[3] % 2 = 1
  BY <1>2, <1>4 DEF Truthful
<1>7. PICK i \in {1, 2}, j \in {1, 2} :
        /\ \A t \in {1, 2} : ShortFor(k.names[Place(j, t)], p.names[Place(i, t)])
        /\ p.yes = p.names[Place(i, p.team)]
        /\ k.yes = k.names[Place(j, k.team)] /\ CompetitorScore(k.names[1], k.names[2]) = 0
  BY <1>2, <1>5 DEF OneListing
<1>8. FullNames(p.names)  BY <1>5 DEF OneListing
<1>9. a[Place(i, p.team)] = Place(j, p.team)  BY <1>3, <1>6, <1>7, <1>8, AlignFinds
<1> DEFINE name == k.names[a[IF p.yes = p.names[1] THEN 1 ELSE 2]]
           sameTeam == CompetitorScore(name, k.yes) >= MinSide
<1>10. name = k.names[Place(j, p.team)]  BY <1>6, <1>7, <1>8, <1>9, YesPlace
<1>11. sameTeam = (k.team = p.team)
  <2>1. CASE k.team = p.team
    <3>1. name = k.yes  BY <1>7, <1>10, <2>1
    <3>2. ShortFor(name, p.names[Place(i, p.team)])  BY <1>6, <1>7, <1>10
    <3>3. CompetitorScore(name, name) = Exact  BY <3>2, FitsItself DEF ShortFor
    <3>4. sameTeam  BY <3>1, <3>3 DEF Exact, MinSide
    <3>5. QED  BY <2>1, <3>4
  <2>2. CASE k.team # p.team
    <3>1. \/ name = k.names[1] /\ k.yes = k.names[2]
          \/ name = k.names[2] /\ k.yes = k.names[1]
      BY <1>6, <1>7, <1>10, <2>2 DEF Place
    <3>2. CompetitorScore(name, k.yes) = 0  BY <1>7, <3>1, ScoreSymmetric
    <3>3. ~sameTeam  BY <3>2 DEF MinSide
    <3>4. QED  BY <2>2, <3>3
  <2>3. QED  BY <2>1, <2>2
<1>12. d.inverted = ~p.favored /\ sameTeam = p.favored
  <2>1. Orientation(k, p, a) = {inverted \in BOOLEAN : inverted = ~p.favored /\ sameTeam = p.favored}
    BY <1>4 DEF Orientation
  <2> HIDE DEF sameTeam
  <2>2. QED  BY <1>3, <2>1
<1> HIDE DEF sameTeam
<1>13. (k.team = p.team) = p.favored  BY <1>11, <1>12
<1>14. IsHedge(k, p, d.inverted)
  BY <1>2, <1>3, <1>6, <1>12, <1>13, SpreadPays
<1>15. QED  BY <1>2, <1>3, <1>14

LEMMA GameHedges ==
  ASSUME Truthful(kalshi, poly), NEW p \in Listed(poly, "structured"), NEW g \in ScoredGames(p),
         NEW k \in FiledUnder(g.event, YesName(g, p)), k.game = p.game
  PROVE  IsHedge(k, p, FALSE)
<1> DEFINE of == CHOOSE m \in Members(g.event) : TRUE
           S == GameScores(g.event, of.names, p)
<1>1. /\ g.names = of.names /\ g.align = Align(S) /\ g.align # Refused /\ of.key = p.key
  BY DEF ScoredGames
<1>2. k \in Members(g.event) /\ TitleName(k) = YesName(g, p)  BY DEF FiledUnder
<1>3. of \in Members(g.event)  BY <1>2
<1> HIDE DEF of
<1>4. k.names = of.names /\ k.key = p.key
  BY <1>1, <1>2, <1>3 DEF Members, Listed, Truthful
<1>5. k \in kalshi /\ p \in poly /\ k.layer = "structured" /\ p.layer = "structured" /\ OnMargin(k) /\ OnMargin(p)
  BY <1>2 DEF Members, Listed, OnMargin
<1>6. OneListing(k, p) /\ FullNames(p.names)  BY <1>4, <1>5 DEF Truthful, OneListing
<1>7. k.team \in {1, 2} /\ p.team \in {1, 2}  BY <1>5 DEF Truthful
<1>8. PICK i \in {1, 2}, j \in {1, 2} :
        /\ \A t \in {1, 2} : ShortFor(k.names[Place(j, t)], p.names[Place(i, t)])
        /\ p.yes = p.names[Place(i, p.team)]
        /\ k.yes = p.names[Place(i, k.team)]
        /\ \A t \in {1, 2} : CompetitorScore(k.names[Place(j, t)], p.names[Place(i, 3 - t)]) = 0
  BY <1>5, <1>6 DEF OneListing
\* The codes lift no score of a name with the other team's.
<1>9. S[Place(j, 1)][Place(i, 2)] = 0 /\ S[Place(j, 2)][Place(i, 1)] = 0
  <2>1. \A a, b \in {1, 2} : CompetitorScore(k.names[a], p.names[b]) = 0 => S[a][b] = 0
    BY <1>4 DEF GameScores
  <2>2. Place(j, 1) \in {1, 2} /\ Place(i, 2) \in {1, 2} /\ Place(j, 2) \in {1, 2} /\ Place(i, 1) \in {1, 2}
    BY DEF Place
  <2>3. 3 - 1 = 2 /\ 3 - 2 = 1  OBVIOUS
  <2>4. CompetitorScore(k.names[Place(j, 1)], p.names[Place(i, 2)]) = 0
    BY <1>8, <2>3
  <2>5. CompetitorScore(k.names[Place(j, 2)], p.names[Place(i, 1)]) = 0
    BY <1>8, <2>3
  <2>6. QED  BY <2>1, <2>2, <2>4, <2>5
<1>10. g.align[Place(i, p.team)] = Place(j, p.team)
  <2>1. Align(S) \in {<<1, 2>>, <<2, 1>>}  BY <1>1, AlignType
  <2> HIDE DEF S
  <2>2. Align(S) = <<1, 2>> => ~(S[1][1] < MinSide) /\ ~(S[2][2] < MinSide)
    BY AlignMeets
  <2>3. Align(S) = <<2, 1>> => ~(S[2][1] < MinSide) /\ ~(S[1][2] < MinSide)
    BY AlignMeets
  <2>4. Align(S) = IF i = j THEN <<1, 2>> ELSE <<2, 1>>
    BY <1>9, <2>1, <2>2, <2>3 DEF Place, MinSide
  <2>5. QED  BY <1>1, <1>7, <2>4 DEF Place
<1>11. YesName(g, p) = k.names[Place(j, p.team)]
  BY <1>1, <1>4, <1>6, <1>7, <1>8, <1>10, YesPlace DEF YesName
<1>12. k.team = p.team
  BY <1>2, <1>6, <1>7, <1>8, <1>11, FiledUnderOwn
<1>13. \A margin : Pays(k, margin) = Pays(p, margin) /\ Pays(k, margin) \in BOOLEAN
  BY <1>5, <1>12 DEF Pays
<1>14. \A margin : OrientedPays(p, FALSE, margin) = Pays(p, margin)
  BY <1>13 DEF OrientedPays
<1>15. QED  BY <1>13, <1>14 DEF IsHedge

-----------------------------------------------------------------------------
(* What was found stays what it is                                         *)

\* A candidate of two sided listings of one game is a hedge.
Hedged(layer, c) ==
  Layers[layer] \in {"structured", "line"} =>
    \A k \in kalshi, p \in poly :
       k.id = c.k /\ p.id = c.p /\ OnMargin(k) /\ k.game = p.game => IsHedge(k, p, c.inverted)

\* So is a claim.
Claim(c) ==
  /\ c.k \in kalshi /\ c.p \in poly
  /\ OnMargin(c.k) /\ c.k.game = c.p.game => IsHedge(c.k, c.p, c.inverted)

Listing(c) == \E k \in kalshi, p \in poly : c.k = k.id /\ c.p = p.id

HInv ==
  /\ Truthful(kalshi, poly)
  /\ phase = "match" => group = {}
  /\ phase = "claim" => \A c \in claims : Claim(c)
  /\ \A c \in group : Listing(c) /\ Hedged(at, c)
  /\ \A x \in kept : Listing(x.cand) /\ Hedged(x.layer, x.cand)

\* Nothing is a hedge but by its two markets.
LEMMA ByMarkets ==
  ASSUME Truthful(kalshi, poly), NEW layer, NEW c, NEW k \in kalshi, NEW p \in poly, c.k = k.id, c.p = p.id,
         Layers[layer] \in {"structured", "line"} /\ OnMargin(k) /\ k.game = p.game => IsHedge(k, p, c.inverted)
  PROVE  Hedged(layer, c)
BY DEF Hedged, Truthful

LEMMA CandidateIs ==
  ASSUME NEW k, NEW p, NEW score, NEW delta, NEW inverted
  PROVE  LET c == Candidate(k, p, score, delta, inverted)
         IN  c.k = k.id /\ c.p = p.id /\ c.inverted = inverted
BY DEF Candidate

LEMMA LayersAre == /\ Layers[1] = "structured" /\ Layers[2] = "futures" /\ Layers[3] = "line"
                   /\ Layers[4] = "prop" /\ Layers[5] = "lexical" /\ Len(Layers) = 5
BY DEF Layers

LEMMA HInit == TruthfulCatalogs /\ Init => HInv
<1> SUFFICES ASSUME TruthfulCatalogs, Init PROVE HInv  OBVIOUS
<1>1. PICK family \in Catalogs : \E c \in family : kalshi = c.kalshi /\ poly = c.poly /\ similar = c.similar
  BY DEF Init
<1>2. PICK c \in family : kalshi = c.kalshi /\ poly = c.poly  BY <1>1
<1>3. Truthful(kalshi, poly)  BY <1>2 DEF TruthfulCatalogs
<1>4. QED  BY <1>3 DEF HInv, Init

\* What a matcher proposes.
LEMMA StructuredHedged ==
  ASSUME Truthful(kalshi, poly) PROVE \A c \in StructuredMatch : Listing(c) /\ Hedged(1, c)
<1> SUFFICES ASSUME NEW c \in StructuredMatch PROVE Listing(c) /\ Hedged(1, c)  OBVIOUS
<1> DEFINE On(p, g) == {Candidate(m, p, g.score, DeltaDays(m, p), FALSE) : m \in FiledUnder(g.event, YesName(g, p))}
           Of(p) == UNION {On(p, g) : g \in Chosen(ScoredGames(p))}
<1>1. StructuredMatch = UNION {Of(p) : p \in Listed(poly, "structured")}  BY DEF StructuredMatch
<1> HIDE DEF Of
<1>2. PICK p \in Listed(poly, "structured") : c \in Of(p)  BY <1>1
<1> HIDE DEF On
<1>3. PICK g \in Chosen(ScoredGames(p)) : c \in On(p, g)  BY <1>2 DEF Of
<1>4. PICK k \in FiledUnder(g.event, YesName(g, p)) : c = Candidate(k, p, g.score, DeltaDays(k, p), FALSE)
  BY <1>3 DEF On
<1>5. c.k = k.id /\ c.p = p.id /\ c.inverted = FALSE  BY <1>4 DEF Candidate
<1>6. k \in kalshi /\ p \in poly  BY DEF FiledUnder, Members, Listed
<1>7. g \in ScoredGames(p)  BY DEF Chosen
<1>8. k.game = p.game => IsHedge(k, p, c.inverted)  BY <1>5, <1>7, GameHedges
<1>9. QED  BY <1>5, <1>6, <1>8, ByMarkets DEF Listing

LEMMA FuturesHedged ==
  ASSUME Truthful(kalshi, poly) PROVE \A c \in FuturesMatch : Listing(c) /\ Hedged(2, c)
<1> SUFFICES ASSUME NEW c \in FuturesMatch PROVE Listing(c) /\ Hedged(2, c)  OBVIOUS
<1>1. PICK k \in Listed(kalshi, "futures") : \E o \in Chosen(ScoredOutrights(k)) :
        c = Candidate(k, o.market, o.score, Highest(DeltaDays(k, o.market), 0), FALSE)
  BY DEF FuturesMatch
<1>2. PICK o \in Chosen(ScoredOutrights(k)) :
        c = Candidate(k, o.market, o.score, Highest(DeltaDays(k, o.market), 0), FALSE)
  BY <1>1
<1>3. o.market \in poly /\ k \in kalshi  BY DEF Chosen, ScoredOutrights, Listed
<1>4. c.k = k.id /\ c.p = o.market.id  BY <1>2 DEF Candidate
<1>5. QED  BY <1>3, <1>4, LayersAre DEF Listing, Hedged

LEMMA LexicalHedged ==
  ASSUME Truthful(kalshi, poly) PROVE \A c \in LexicalMatch : Listing(c) /\ Hedged(5, c)
<1> SUFFICES ASSUME NEW c \in LexicalMatch PROVE Listing(c) /\ Hedged(5, c)  OBVIOUS
<1>1. PICK k \in TextMarkets(kalshi), p \in TextMarkets(poly) :
        c = Candidate(k, p, Likeness(k, p), DeltaDays(k, p), FALSE)
  BY DEF LexicalMatch
<1>2. k \in kalshi /\ p \in poly /\ c.k = k.id /\ c.p = p.id  BY <1>1 DEF Candidate, TextMarkets
<1>3. QED  BY <1>2, LayersAre DEF Listing, Hedged

LEMMA ClaimsHedged ==
  ASSUME Truthful(kalshi, poly), NEW layer \in {"line", "prop"}, NEW c \in ClaimsOf(layer)
  PROVE  Claim(c)
<1>1. PICK k \in Listed(kalshi, layer) : \E d \in Chosen(Scored(k)) :
        c.k = k /\ c.p = d.market /\ c.inverted = d.inverted
  BY DEF ClaimsOf
<1>2. PICK d \in Chosen(Scored(k)) : c.k = k /\ c.p = d.market /\ c.inverted = d.inverted
  BY <1>1
<1>3. d \in Scored(k)  BY DEF Chosen
<1>4. k \in kalshi /\ k.layer = layer  BY DEF Listed
<1>5. CASE layer = "line"
  <2>1. d \in ScoredLines(k) /\ k \in Listed(kalshi, "line")  BY <1>3, <1>4, <1>5 DEF Scored
  <2>2. d.market \in poly  BY <2>1, LineScored DEF Listed
  <2>3. OnMargin(k) /\ k.game = d.market.game => IsHedge(k, d.market, d.inverted)
    BY <2>1, LineHedges
  <2>4. QED  BY <1>2, <1>4, <2>2, <2>3 DEF Claim
<1>6. CASE layer = "prop"
  <2>1. d \in ScoredProps(k)  BY <1>3, <1>4, <1>6 DEF Scored
  <2>2. d.market \in poly  BY <2>1, PropScored DEF Listed
  <2>3. ~OnMargin(k)  BY <1>4, <1>6 DEF OnMargin
  <2>4. QED  BY <1>2, <1>4, <2>2, <2>3 DEF Claim
<1>7. QED  BY <1>5, <1>6

LEMMA HStep == IInv /\ HInv /\ [Next]_vars => HInv'
<1> SUFFICES ASSUME IInv, HInv, [Next]_vars PROVE HInv'  OBVIOUS
<1>1. UNCHANGED catalogs /\ Truthful(kalshi, poly)'
  <2>1. UNCHANGED catalogs
    BY DEF vars, Next, RunMatcher, TakeClaim, ClaimsTaken, WalkBlock, NextLayer
  <2>2. QED  BY <2>1 DEF HInv, catalogs
<1>2. \A c, layer : /\ Hedged(layer, c) => Hedged(layer, c)'
                    /\ Listing(c) => Listing(c)'
                    /\ Claim(c) => Claim(c)'
  BY <1>1 DEF catalogs, Hedged, Listing, Claim
<1>3. at \in 1..6 /\ (phase # "match" => at <= 5)  BY LayersAre DEF IInv, Turns
<1>4. CASE RunMatcher
  <2>0. phase = "match" /\ at \in 1..5 /\ kept' = kept /\ at' = at
    BY <1>3, <1>4, LayersAre DEF RunMatcher
  <2>1. CASE Layers[at] \in {"line", "prop"}
    <3>1. claims' = ClaimsOf(Layers[at]) /\ phase' = "claim" /\ group' = group
      BY <1>4, <2>1 DEF RunMatcher
    <3>2. \A c \in claims' : Claim(c)'  BY <1>2, <2>1, <3>1, ClaimsHedged DEF HInv
    <3>3. group' = {}  BY <2>0, <3>1 DEF HInv
    <3>4. QED  BY <1>1, <1>2, <2>0, <3>1, <3>2, <3>3 DEF HInv
  <2>2. CASE Layers[at] \notin {"line", "prop"}
    <3>1. group' = Match(Layers[at]) /\ phase' = "walk"
      BY <1>4, <2>2 DEF RunMatcher
    <3>2. at \in {1, 2, 5}  BY <2>0, <2>2, LayersAre
    <3>3. \A c \in group' : Listing(c) /\ Hedged(at, c)
      BY <3>1, <3>2, LayersAre, StructuredHedged, FuturesHedged, LexicalHedged DEF Match, HInv
    <3>4. \A c \in group' : Listing(c)' /\ Hedged(at, c)'  BY <1>2, <2>0, <3>3
    <3>5. QED  BY <1>1, <1>2, <2>0, <3>1, <3>4 DEF HInv
  <2>3. QED  BY <2>1, <2>2
<1>5. CASE TakeClaim
  <2>1. PICK c \in claims :
          /\ claims' = claims \ {c}
          /\ group' \subseteq group \cup {Candidate(c.k, c.p, c.score, Highest(DeltaDays(c.k, c.p), 0), c.inverted)}
    BY <1>5 DEF TakeClaim
  <2>2. phase = "claim" /\ UNCHANGED <<at, phase, kept>>  BY <1>5 DEF TakeClaim
  <2> DEFINE d == Candidate(c.k, c.p, c.score, Highest(DeltaDays(c.k, c.p), 0), c.inverted)
  <2>3. d.k = c.k.id /\ d.p = c.p.id /\ d.inverted = c.inverted  BY CandidateIs
  <2>4. group' \subseteq group \cup {d}  BY <2>1
  <2> HIDE DEF d
  <2>5. Claim(c)  BY <2>2 DEF HInv
  <2>6. Listing(d) /\ Hedged(at, d)
    <3>1. c.k \in kalshi /\ c.p \in poly  BY <2>5 DEF Claim
    <3>2. Hedged(at, d)  BY <2>3, <2>5, <3>1, ByMarkets DEF Claim, HInv
    <3>3. QED  BY <2>3, <3>1, <3>2 DEF Listing
  <2>7. \A e \in group' : Listing(e)' /\ Hedged(at, e)'  BY <1>2, <2>2, <2>4, <2>6 DEF HInv
  <2>8. QED  BY <1>1, <1>2, <2>1, <2>2, <2>7 DEF HInv
<1>6. CASE ClaimsTaken
  <2>1. phase' = "walk" /\ UNCHANGED <<at, group, kept>>  BY <1>6 DEF ClaimsTaken
  <2>2. QED  BY <1>1, <1>2, <2>1 DEF HInv
<1>7. CASE WalkBlock
  <2>1. phase' = phase /\ phase = "walk" /\ at' = at /\ group' \subseteq group /\ kept' = kept \cup Tagged(Uncontested(Block))
    BY <1>7 DEF WalkBlock
  <2>2. Uncontested(Block) \subseteq group  BY DEF Uncontested, Free, Block
  <2>3. \A x \in Tagged(Uncontested(Block)) : x.layer = at /\ x.cand \in group
    BY <2>2 DEF Tagged
  <2>4. \A x \in kept' : Listing(x.cand) /\ Hedged(x.layer, x.cand)  BY <2>1, <2>3 DEF HInv
  <2>5. QED  BY <1>1, <1>2, <2>1, <2>4 DEF HInv
<1>8. CASE NextLayer
  <2>1. phase' = "match" /\ group = {} /\ group' = {} /\ kept' = kept  BY <1>8 DEF NextLayer
  <2>2. QED  BY <1>1, <1>2, <2>1 DEF HInv
<1>9. CASE UNCHANGED vars
  BY <1>1, <1>2, <1>9 DEF HInv, vars, catalogs
<1>10. QED  BY <1>4, <1>5, <1>6, <1>7, <1>8, <1>9 DEF Next

\* If ids, titles and terms are true, every pair on one game that the structured or the line
\* layer wrote is a hedge, whatever the names, the schedule and the order of the claims.
THEOREM MatchingHedgePays == TruthfulCatalogs => (Spec => []HedgePays)
<1>1. IInv /\ HInv => HedgePays
  <2> SUFFICES ASSUME HInv, NEW c \in KeptOf({"structured", "line"}),
                      OnMargin(KalshiOf(c)), KalshiOf(c).game = PolyOf(c).game
               PROVE  IsHedge(KalshiOf(c), PolyOf(c), c.inverted)
    BY DEF HedgePays
  <2>1. PICK x \in kept : Layers[x.layer] \in {"structured", "line"} /\ x.cand = c  BY DEF KeptOf
  <2>2. Listing(c) /\ Hedged(x.layer, c)  BY <2>1 DEF HInv
  <2>3. KalshiOf(c) \in kalshi /\ KalshiOf(c).id = c.k  BY <2>2 DEF Listing, KalshiOf
  <2>4. PolyOf(c) \in poly /\ PolyOf(c).id = c.p  BY <2>2 DEF Listing, PolyOf
  <2>5. QED  BY <2>1, <2>2, <2>3, <2>4 DEF Hedged
<1>2. QED  BY <1>1, HInit, HStep, Invariance, PTL DEF Spec

-----------------------------------------------------------------------------
(* Every game its own listing                                              *)

\* What is scored for a market of a line or a prop.
LEMMA ScoredIs ==
  ASSUME NEW k, k.layer \in {"line", "prop"}, NEW d \in Scored(k)
  PROVE  /\ d.market \in poly /\ d.market.layer = k.layer /\ Fits(k, d.market)
         /\ d.score = FitScore(k, d.market) /\ d.score \in Int /\ d.hours = Hours(k, d.market)
<1>1. CASE k.layer = "line"
  <2>1. PICK p \in Listed(poly, "line"), i \in BOOLEAN :
          LineFits(k, p, i) /\ d = [score |-> LineScore(k, p), hours |-> Hours(k, p), market |-> p, inverted |-> i]
    BY <1>1, LineScored DEF Scored
  <2>2. d.market = p /\ d.score = LineScore(k, p) /\ d.hours = Hours(k, p)  BY <2>1
  <2>3. p \in poly /\ p.layer = "line"  BY DEF Listed
  <2>4. LineScore(k, p) \in Int  BY <2>1, LineScoreType DEF LineFits
  <2>5. QED  BY <1>1, <2>1, <2>2, <2>3, <2>4 DEF Fits, FitScore
<1>2. CASE k.layer = "prop"
  <2>1. PICK p \in Listed(poly, "prop") :
          PropFits(k, p) /\ d = [score |-> PropScore(k, p), hours |-> Hours(k, p), market |-> p, inverted |-> FALSE]
    BY <1>2, PropScored DEF Scored
  <2>2. d.market = p /\ d.score = PropScore(k, p) /\ d.hours = Hours(k, p)  BY <2>1
  <2>3. p \in poly /\ p.layer = "prop"  BY DEF Listed
  <2>4. QED  BY <1>2, <2>1, <2>2, <2>3, PropScoreType DEF Fits, FitScore
<1>3. QED  BY <1>1, <1>2

\* And whatever fits is.
LEMMA FitsScored ==
  ASSUME NEW k, NEW p \in poly, Fits(k, p)
  PROVE  \E d \in Scored(k) : d.market = p
<1>1. CASE k.layer = "line"
  <2>1. PICK i \in BOOLEAN : LineFits(k, p, i)  BY <1>1 DEF Fits
  <2> DEFINE d == [score |-> LineScore(k, p), hours |-> Hours(k, p), market |-> p, inverted |-> i]
  <2>2. p \in Listed(poly, "line")  BY <1>1 DEF Fits, Listed
  <2>3. d \in ScoredLines(k)  BY <2>1, <2>2, LineScored
  <2>4. d.market = p  OBVIOUS
  <2>5. QED  BY <1>1, <2>3, <2>4 DEF Scored
<1>2. CASE k.layer = "prop"
  <2> DEFINE d == [score |-> PropScore(k, p), hours |-> Hours(k, p), market |-> p, inverted |-> FALSE]
  <2>1. p \in Listed(poly, "prop") /\ PropFits(k, p)  BY <1>2 DEF Fits, Listed
  <2>2. d \in ScoredProps(k)  BY <2>1, PropScored
  <2>3. d.market = p  OBVIOUS
  <2>4. QED  BY <1>2, <2>2, <2>3 DEF Scored
<1>3. QED  BY <1>1, <1>2 DEF Fits

\* A market is scored once.
LEMMA ScoredOnce ==
  ASSUME NEW k, k.layer \in {"line", "prop"}, NEW d \in Scored(k), NEW e \in Scored(k), d.market = e.market
  PROVE  d = e
<1>1. CASE k.layer = "line"
  <2>1. PICK p \in Listed(poly, "line"), i \in BOOLEAN :
          LineFits(k, p, i) /\ d = [score |-> LineScore(k, p), hours |-> Hours(k, p), market |-> p, inverted |-> i]
    BY <1>1, LineScored DEF Scored
  <2>2. PICK q \in Listed(poly, "line"), j \in BOOLEAN :
          LineFits(k, q, j) /\ e = [score |-> LineScore(k, q), hours |-> Hours(k, q), market |-> q, inverted |-> j]
    BY <1>1, LineScored DEF Scored
  <2>3. d.market = p /\ e.market = q  BY <2>1, <2>2
  <2>4. p = q  BY <2>3
  <2>5. i \in Orientation(k, p, Aligned(k, p)) /\ j \in Orientation(k, p, Aligned(k, p))
    BY <2>1, <2>2, <2>4 DEF LineFits
  <2>6. i = j
    <3>1. CASE k.key[2] = "total"  BY <2>5, <3>1 DEF Orientation
    <3>2. CASE k.key[2] # "total"
      <4>1. i = ~p.favored /\ j = ~p.favored  BY <2>5, <3>2 DEF Orientation
      <4>2. QED  BY <4>1
    <3>3. QED  BY <3>1, <3>2
  <2>7. QED  BY <2>1, <2>2, <2>4, <2>6
<1>2. CASE k.layer = "prop"
  <2>1. PICK p \in Listed(poly, "prop") :
          d = [score |-> PropScore(k, p), hours |-> Hours(k, p), market |-> p, inverted |-> FALSE]
    BY <1>2, PropScored DEF Scored
  <2>2. PICK q \in Listed(poly, "prop") :
          e = [score |-> PropScore(k, q), hours |-> Hours(k, q), market |-> q, inverted |-> FALSE]
    BY <1>2, PropScored DEF Scored
  <2>3. d.market = p /\ e.market = q  BY <2>1, <2>2
  <2>4. QED  BY <2>1, <2>2, <2>3
<1>3. QED  BY <1>1, <1>2

Started == \A m \in kalshi \cup poly : m.start \in Int

LEMMA HoursType == ASSUME Started, NEW k \in kalshi, NEW p \in poly PROVE Hours(k, p) \in Int
BY DEF Started, Hours, Abs

\* A market's own listing is chosen for it.
LEMMA OwnChosen ==
  ASSUME Started, Spaced(kalshi, poly), NEW k \in kalshi, NEW p \in poly, k.layer \in {"line", "prop"},
         SameContract(k, p), Fits(k, p), NEW d \in Scored(k), d.market = p
  PROVE  d \in Chosen(Scored(k))
<1>1. OwnListing(k, p, kalshi, poly)  BY DEF Spaced
<1>2. ASSUME NEW e \in Scored(k) \ {d}
      PROVE  e.score <= d.score /\ e.hours > d.hours + 1 /\ e.score \in Int /\ d.score \in Int
             /\ e.hours \in Int /\ d.hours \in Int
  <2>1. e.market # p  BY <1>2, ScoredOnce
  <2>2. /\ e.market \in poly /\ Fits(k, e.market)
        /\ e.score = FitScore(k, e.market) /\ e.score \in Int /\ e.hours = Hours(k, e.market)
    BY ScoredIs
  <2>3. d.score = FitScore(k, p) /\ d.score \in Int /\ d.hours = Hours(k, p)  BY ScoredIs
  <2>4. FitScore(k, e.market) <= FitScore(k, p) /\ Hours(k, e.market) > Hours(k, p) + 1
    BY <1>1, <2>1, <2>2 DEF OwnListing
  <2>5. QED  BY <2>2, <2>3, <2>4, HoursType
<1>3. \A e \in Scored(k) : ~Better(e, d)
  <2> SUFFICES ASSUME NEW e \in Scored(k), Better(e, d) PROVE FALSE  OBVIOUS
  <2>1. CASE e = d
    <3>1. d.score \in Int /\ d.hours \in Int  BY ScoredIs, HoursType
    <3>2. QED  BY <2>1, <3>1 DEF Better
  <2>2. CASE e # d  BY <1>2, <2>2 DEF Better
  <2>3. QED  BY <2>1, <2>2
<1>4. \A e \in Scored(k) \ {d} : e.score = d.score => Abs(e.hours - d.hours) > 1
  BY <1>2 DEF Abs
<1>5. QED  BY <1>3, <1>4 DEF Chosen

\* Nothing else is.
LEMMA ChosenOne ==
  ASSUME NEW S, \A d \in S : d.score \in Int /\ d.hours \in Int, NEW d \in Chosen(S), NEW e \in Chosen(S)
  PROVE  d = e
<1> SUFFICES ASSUME d # e PROVE FALSE  OBVIOUS
<1>1. d \in S /\ e \in S /\ ~Better(d, e) /\ ~Better(e, d)  BY DEF Chosen
<1>2. d.score = e.score /\ d.hours = e.hours  BY <1>1 DEF Better
<1>3. Abs(d.hours - e.hours) > 1 \/ Abs(e.hours - d.hours) > 1  BY <1>1, <1>2 DEF Chosen
<1>4. QED  BY <1>1, <1>2, <1>3 DEF Abs

\* What a claim is.
Claims == ClaimsOf(Layers[at])

LEMMA ClaimIs ==
  ASSUME Started, NEW layer \in {"line", "prop"}, NEW c \in ClaimsOf(layer)
  PROVE  /\ c.k \in kalshi /\ c.k.layer = layer /\ c.p \in poly /\ c.p.layer = layer /\ Fits(c.k, c.p)
         /\ c.score = FitScore(c.k, c.p) /\ c.score \in Int /\ c.hours = Hours(c.k, c.p) /\ c.hours \in Int
         /\ \E d \in Chosen(Scored(c.k)) : d.market = c.p
<1>1. PICK k \in Listed(kalshi, layer) : \E d \in Chosen(Scored(k)) :
        c = [score |-> d.score, hours |-> d.hours, k |-> k, p |-> d.market, inverted |-> d.inverted]
  BY DEF ClaimsOf
<1>2. PICK d \in Chosen(Scored(k)) :
        c = [score |-> d.score, hours |-> d.hours, k |-> k, p |-> d.market, inverted |-> d.inverted]
  BY <1>1
<1>3. c.k = k /\ c.p = d.market /\ c.score = d.score /\ c.hours = d.hours  BY <1>2
<1>4. d \in Scored(k) /\ k \in kalshi /\ k.layer = layer  BY DEF Chosen, Listed
<1>5. QED  BY <1>3, <1>4, ScoredIs, HoursType

\* There is one for what is chosen, and no other of the same market.
LEMMA ChosenClaimed ==
  ASSUME NEW layer, NEW k \in kalshi, k.layer = layer, NEW d \in Chosen(Scored(k))
  PROVE  \E c \in ClaimsOf(layer) : c.k = k /\ c.p = d.market /\ c.score = d.score /\ c.hours = d.hours
<1> DEFINE c == [score |-> d.score, hours |-> d.hours, k |-> k, p |-> d.market, inverted |-> d.inverted]
<1>1. k \in Listed(kalshi, layer)  BY DEF Listed
<1>2. c \in ClaimsOf(layer)  BY <1>1 DEF ClaimsOf
<1>3. c.k = k /\ c.p = d.market /\ c.score = d.score /\ c.hours = d.hours  OBVIOUS
<1>4. QED  BY <1>2, <1>3

LEMMA OneClaim ==
  ASSUME Started, NEW layer \in {"line", "prop"}, NEW c \in ClaimsOf(layer), NEW e \in ClaimsOf(layer), c.k = e.k
  PROVE  c.p = e.p
<1>1. PICK d \in Chosen(Scored(c.k)) : d.market = c.p  BY ClaimIs
<1>2. PICK f \in Chosen(Scored(c.k)) : f.market = e.p  BY ClaimIs
<1>3. c.k.layer \in {"line", "prop"} /\ c.k \in kalshi  BY ClaimIs
<1>4. \A g \in Scored(c.k) : g.score \in Int /\ g.hours \in Int  BY <1>3, ScoredIs, HoursType
<1>5. d = f  BY <1>4, ChosenOne
<1>6. QED  BY <1>1, <1>2, <1>5

\* A claim on a market of another game is not made by one whose own listing there is; and
\* the market's own counterpart, if there is one, has a better claim on it.
LEMMA OwnClaimFirst ==
  ASSUME Started, Spaced(kalshi, poly), NEW layer \in {"line", "prop"}, NEW c \in ClaimsOf(layer), c.k.game # c.p.game
  PROVE  /\ \A q \in poly : ~SameContract(c.k, q)
         /\ \A m \in kalshi : SameContract(m, c.p) =>
              \E e \in ClaimsOf(layer) : e.k = m /\ e.p = c.p /\ Better(e, c)
<1>1. /\ c.k \in kalshi /\ c.k.layer = layer /\ c.p \in poly /\ c.p.layer = layer /\ Fits(c.k, c.p)
      /\ c.score = FitScore(c.k, c.p) /\ c.score \in Int /\ c.hours = Hours(c.k, c.p) /\ c.hours \in Int
  BY ClaimIs
<1>2. PICK d \in Chosen(Scored(c.k)) : d.market = c.p  BY ClaimIs
<1>3. d \in Scored(c.k) /\ \A e \in Scored(c.k) : ~Better(e, d)  BY <1>2 DEF Chosen
<1>4. d.score = FitScore(c.k, c.p) /\ d.hours = Hours(c.k, c.p)  BY <1>1, <1>2, <1>3, ScoredIs
<1>5. ASSUME NEW q \in poly, SameContract(c.k, q) PROVE FALSE
  <2>1. OwnListing(c.k, q, kalshi, poly)  BY <1>1, <1>5 DEF Spaced
  <2>2. c.p # q  BY <1>5 DEF SameContract
  <2>3. Fits(c.k, q) /\ FitScore(c.k, c.p) <= FitScore(c.k, q) /\ Hours(c.k, c.p) > Hours(c.k, q) + 1
    BY <1>1, <2>1, <2>2 DEF OwnListing
  <2>4. PICK e \in Scored(c.k) : e.market = q  BY <2>3, FitsScored
  <2>5. e.score = FitScore(c.k, q) /\ e.score \in Int /\ e.hours = Hours(c.k, q) /\ e.hours \in Int
    BY <1>1, <2>4, ScoredIs, HoursType
  <2>6. Better(e, d)  BY <1>1, <1>4, <2>3, <2>5 DEF Better
  <2>7. QED  BY <1>3, <2>4, <2>6
<1>6. ASSUME NEW m \in kalshi, SameContract(m, c.p)
      PROVE  \E e \in ClaimsOf(layer) : e.k = m /\ e.p = c.p /\ Better(e, c)
  <2>1. m.layer = layer /\ OwnListing(m, c.p, kalshi, poly)  BY <1>1, <1>6 DEF Spaced, SameContract
  <2>2. Fits(m, c.p) /\ FitScore(c.k, c.p) <= FitScore(m, c.p) /\ Hours(c.k, c.p) > Hours(m, c.p)
    BY <1>1, <2>1 DEF OwnListing
  <2>3. PICK f \in Scored(m) : f.market = c.p  BY <1>1, <2>2, FitsScored
  <2>4. f.score = FitScore(m, c.p) /\ f.score \in Int /\ f.hours = Hours(m, c.p) /\ f.hours \in Int
    BY <1>1, <2>1, <2>3, ScoredIs, HoursType
  <2>5. f \in Chosen(Scored(m))  BY <1>1, <1>6, <2>1, <2>2, <2>3, OwnChosen
  <2>6. PICK e \in ClaimsOf(layer) : e.k = m /\ e.p = f.market /\ e.score = f.score /\ e.hours = f.hours
    BY <2>1, <2>5, ChosenClaimed
  <2>7. Better(e, c)  BY <1>1, <2>2, <2>4, <2>6 DEF Better
  <2>8. QED  BY <2>3, <2>6, <2>7
<1>7. QED  BY <1>5, <1>6

\* A candidate on two games takes nobody's own listing.
Own(layer, c) ==
  Layers[layer] \in {"line", "prop"} =>
    \A k \in kalshi, p \in poly :
       k.id = c.k /\ p.id = c.p /\ k.game # p.game =>
         /\ \A m \in kalshi : ~SameContract(m, p)
         /\ \A m \in poly : ~SameContract(k, m)

\* The walk of the claims: of those already looked at one market is taken, and by one of them.
Looked ==
  /\ claims \subseteq Claims
  /\ \A e \in Claims \ claims : \E g \in group : g.k = e.k.id \/ g.p = e.p.id
  /\ \A g \in group : \E e \in Claims \ claims : g.k = e.k.id /\ g.p = e.p.id

OInv ==
  /\ Started /\ Spaced(kalshi, poly)
  /\ phase = "match" => group = {}
  /\ phase = "claim" => Layers[at] \in {"line", "prop"} /\ Looked
  /\ \A c \in group : Listing(c) /\ Own(at, c)
  /\ \A x \in kept : Listing(x.cand) /\ Own(x.layer, x.cand)

\* The claims of a layer are of the catalogs alone.
LEMMA ClaimsKept == UNCHANGED catalogs /\ UNCHANGED at => Claims' = Claims
BY DEF catalogs, Claims, ClaimsOf, Listed, Scored, ScoredLines, ScoredProps

LEMMA OInit == SpacedCatalogs /\ Init => OInv
<1> SUFFICES ASSUME SpacedCatalogs, Init PROVE OInv  OBVIOUS
<1>1. PICK family \in Catalogs : \E c \in family : kalshi = c.kalshi /\ poly = c.poly /\ similar = c.similar
  BY DEF Init
<1>2. PICK c \in family : kalshi = c.kalshi /\ poly = c.poly  BY <1>1
<1>3. Spaced(kalshi, poly)  BY <1>2 DEF SpacedCatalogs
<1>4. Started  BY <1>2, MatchingAssumption DEF Started
<1>5. QED  BY <1>3, <1>4 DEF OInv, Init

\* Every matcher proposes listed markets.
LEMMA MatchLists ==
  ASSUME NEW layer \in {"structured", "futures", "lexical"} PROVE \A c \in Match(layer) : Listing(c)
<1> SUFFICES ASSUME NEW c \in Match(layer) PROVE Listing(c)  OBVIOUS
<1>1. CASE layer = "structured"
  <2> DEFINE On(p, g) == {Candidate(m, p, g.score, DeltaDays(m, p), FALSE) : m \in FiledUnder(g.event, YesName(g, p))}
             Of(p) == UNION {On(p, g) : g \in Chosen(ScoredGames(p))}
  <2>1. c \in UNION {Of(p) : p \in Listed(poly, "structured")}  BY <1>1 DEF StructuredMatch, Match
  <2> HIDE DEF Of
  <2>2. PICK p \in Listed(poly, "structured") : c \in Of(p)  BY <2>1
  <2> HIDE DEF On
  <2>3. PICK g \in Chosen(ScoredGames(p)) : c \in On(p, g)  BY <2>2 DEF Of
  <2>4. PICK k \in FiledUnder(g.event, YesName(g, p)) : c = Candidate(k, p, g.score, DeltaDays(k, p), FALSE)
    BY <2>3 DEF On
  <2>5. c.k = k.id /\ c.p = p.id  BY <2>4 DEF Candidate
  <2>6. k \in kalshi /\ p \in poly  BY DEF FiledUnder, Members, Listed
  <2>7. QED  BY <2>5, <2>6 DEF Listing
<1>2. CASE layer = "futures"
  <2>0. c \in FuturesMatch  BY <1>2 DEF Match
  <2>1. PICK k \in Listed(kalshi, "futures") : \E o \in Chosen(ScoredOutrights(k)) :
          c = Candidate(k, o.market, o.score, Highest(DeltaDays(k, o.market), 0), FALSE)
    BY <2>0 DEF FuturesMatch
  <2>2. PICK o \in Chosen(ScoredOutrights(k)) :
          c = Candidate(k, o.market, o.score, Highest(DeltaDays(k, o.market), 0), FALSE)
    BY <2>1
  <2>3. o.market \in poly /\ k \in kalshi  BY DEF Chosen, ScoredOutrights, Listed
  <2>4. c.k = k.id /\ c.p = o.market.id  BY <2>2 DEF Candidate
  <2>5. QED  BY <2>3, <2>4 DEF Listing
<1>3. CASE layer = "lexical"
  <2>0. c \in LexicalMatch  BY <1>3 DEF Match
  <2>1. PICK k \in TextMarkets(kalshi), p \in TextMarkets(poly) :
          c = Candidate(k, p, Likeness(k, p), DeltaDays(k, p), FALSE)
    BY <2>0 DEF LexicalMatch
  <2>2. k \in kalshi /\ p \in poly /\ c.k = k.id /\ c.p = p.id  BY <2>1 DEF Candidate, TextMarkets
  <2>3. QED  BY <2>2 DEF Listing
<1>4. QED  BY <1>1, <1>2, <1>3

LEMMA OStep == IInv /\ OInv /\ [Next]_vars => OInv'
<1> SUFFICES ASSUME IInv, OInv, [Next]_vars PROVE OInv'  OBVIOUS
<1>1. UNCHANGED catalogs
  BY DEF vars, Next, RunMatcher, TakeClaim, ClaimsTaken, WalkBlock, NextLayer
<1>2. Started' /\ Spaced(kalshi, poly)'  BY <1>1 DEF OInv, catalogs, Started
<1>3. \A c, layer : /\ Own(layer, c) => Own(layer, c)'
                    /\ Listing(c) => Listing(c)'
  BY <1>1 DEF catalogs, Own, Listing
<1>4. at \in 1..6 /\ (phase # "match" => at <= 5)  BY LayersAre DEF IInv, Turns
<1>5. CASE RunMatcher
  <2>0. phase = "match" /\ at \in 1..5 /\ kept' = kept /\ at' = at
    BY <1>4, <1>5, LayersAre DEF RunMatcher
  <2>1. CASE Layers[at] \in {"line", "prop"}
    <3>1. claims' = Claims /\ phase' = "claim" /\ group' = {}
      BY <1>5, <2>0, <2>1 DEF RunMatcher, Claims, OInv
    <3>2. Claims' = Claims  BY <1>1, <1>5, <2>0, ClaimsKept
    <3>3. Looked'  BY <3>1, <3>2 DEF Looked
    <3>4. QED  BY <1>2, <1>3, <2>0, <2>1, <3>1, <3>3 DEF OInv
  <2>2. CASE Layers[at] \notin {"line", "prop"}
    <3>1. group' = Match(Layers[at]) /\ phase' = "walk"
      BY <1>5, <2>2 DEF RunMatcher
    <3>2. Layers[at] \in {"structured", "futures", "lexical"}  BY <2>0, <2>2, LayersAre
    <3>3. \A c \in group' : Listing(c) /\ Own(at, c)
      BY <3>1, <3>2, MatchLists DEF Own
    <3>4. \A c \in group' : Listing(c)' /\ Own(at, c)'  BY <1>3, <2>0, <3>3
    <3>5. QED  BY <1>2, <1>3, <2>0, <3>1, <3>4 DEF OInv
  <2>3. QED  BY <2>1, <2>2
<1>6. CASE TakeClaim
  <2>1. PICK c \in claims :
          /\ \A d \in claims : ~Better(d, c)
          /\ claims' = claims \ {c}
          /\ group' = IF \E g \in group : g.k = c.k.id \/ g.p = c.p.id THEN group
                      ELSE group \cup {Candidate(c.k, c.p, c.score, Highest(DeltaDays(c.k, c.p), 0), c.inverted)}
    BY <1>6 DEF TakeClaim
  <2>2. phase = "claim" /\ UNCHANGED <<at, phase, kept>>  BY <1>6 DEF TakeClaim
  <2>3. Looked /\ Started /\ Spaced(kalshi, poly) /\ Layers[at] \in {"line", "prop"}  BY <2>2 DEF OInv
  <2>4. c \in Claims /\ Claims' = Claims  BY <1>1, <2>2, <2>3, ClaimsKept DEF Looked
  <2> DEFINE taken == \E g \in group : g.k = c.k.id \/ g.p = c.p.id
             cand == Candidate(c.k, c.p, c.score, Highest(DeltaDays(c.k, c.p), 0), c.inverted)
  <2>5. cand.k = c.k.id /\ cand.p = c.p.id  BY DEF Candidate
  <2>6. group' = IF taken THEN group ELSE group \cup {cand}  BY <2>1
  <2> HIDE DEF cand
  <2>7. Looked'
    <3>1. claims' \subseteq Claims'  BY <2>1, <2>3, <2>4 DEF Looked
    <3>2. ASSUME NEW e \in Claims' \ claims' PROVE \E g \in group' : g.k = e.k.id \/ g.p = e.p.id
      <4>1. CASE e = c
        <5>1. CASE taken  BY <2>6, <4>1, <5>1
        <5>2. CASE ~taken
          <6>1. cand \in group'  BY <2>6, <5>2
          <6>2. QED  BY <2>5, <4>1, <6>1
        <5>3. QED  BY <5>1, <5>2
      <4>2. CASE e # c
        <5>1. e \in Claims \ claims  BY <2>1, <2>4, <4>2
        <5>2. PICK g \in group : g.k = e.k.id \/ g.p = e.p.id  BY <2>3, <5>1 DEF Looked
        <5>3. g \in group'  BY <2>6
        <5>4. QED  BY <5>2, <5>3
      <4>3. QED  BY <4>1, <4>2
    <3>3. ASSUME NEW g \in group' PROVE \E e \in Claims' \ claims' : g.k = e.k.id /\ g.p = e.p.id
      <4>1. CASE g \in group
        <5>1. PICK e \in Claims \ claims : g.k = e.k.id /\ g.p = e.p.id  BY <2>3, <4>1 DEF Looked
        <5>2. e \in Claims' \ claims'  BY <2>1, <2>4
        <5>3. QED  BY <5>1, <5>2
      <4>2. CASE g = cand
        <5>1. c \in Claims' \ claims'  BY <2>1, <2>4
        <5>2. QED  BY <2>5, <4>2, <5>1
      <4>3. QED  BY <2>6, <4>1, <4>2
    <3>4. QED  BY <3>1, <3>2, <3>3 DEF Looked
  <2>8. /\ c.k \in kalshi /\ c.p \in poly
    BY <2>3, <2>4, ClaimIs DEF Claims
  <2>9. ~taken => Own(at, cand)
    <3> SUFFICES ASSUME ~taken, c.k.game # c.p.game
                 PROVE  (\A m \in kalshi : ~SameContract(m, c.p)) /\ (\A m \in poly : ~SameContract(c.k, m))
      BY <2>3, <2>5, <2>8 DEF Own, Spaced
    <3>1. /\ \A q \in poly : ~SameContract(c.k, q)
          /\ \A m \in kalshi : SameContract(m, c.p) =>
               \E e \in Claims : e.k = m /\ e.p = c.p /\ Better(e, c)
      BY <2>3, <2>4, OwnClaimFirst DEF Claims
    <3>2. ASSUME NEW m \in kalshi, SameContract(m, c.p) PROVE FALSE
      <4>1. PICK e \in Claims : e.k = m /\ e.p = c.p /\ Better(e, c)  BY <3>1, <3>2
      <4>2. e \in Claims \ claims  BY <2>1, <4>1
      <4>3. PICK g \in group : g.k = e.k.id \/ g.p = e.p.id  BY <2>3, <4>2 DEF Looked
      <4>4. g.p # c.p.id  OBVIOUS
      <4>5. g.k = e.k.id  BY <4>1, <4>3, <4>4
      <4>6. PICK f \in Claims \ claims : g.k = f.k.id /\ g.p = f.p.id  BY <2>3 DEF Looked
      <4>7. f.k \in kalshi /\ e.k \in kalshi  BY <2>3, ClaimIs DEF Claims
      <4>8. f.k = e.k  BY <2>3, <4>5, <4>6, <4>7 DEF Spaced
      <4>9. f.p = e.p  BY <2>3, <4>8, OneClaim DEF Claims
      <4>10. QED  BY <4>1, <4>4, <4>6, <4>9
    <3>3. QED  BY <3>1, <3>2
  <2>10. Listing(cand)  BY <2>5, <2>8 DEF Listing
  <2>11. \A x \in group' : Listing(x)' /\ Own(at, x)'
    <3>1. \A x \in group' : Listing(x) /\ Own(at, x)
      <4>1. CASE taken  BY <2>6, <4>1 DEF OInv
      <4>2. CASE ~taken
        <5> HIDE DEF taken
        <5>1. group' = group \cup {cand} /\ Own(at, cand)  BY <2>6, <2>9, <4>2
        <5>2. QED  BY <2>10, <5>1 DEF OInv
      <4>3. QED  BY <4>1, <4>2
    <3>2. at' = at  BY <2>2
    <3>3. QED  BY <1>3, <3>1, <3>2
  <2>12. QED  BY <1>2, <1>3, <2>2, <2>3, <2>7, <2>11 DEF OInv
<1>7. CASE ClaimsTaken
  <2>1. phase' = "walk" /\ UNCHANGED <<at, group, kept>>  BY <1>7 DEF ClaimsTaken
  <2>2. QED  BY <1>2, <1>3, <2>1 DEF OInv
<1>8. CASE WalkBlock
  <2>1. phase' = phase /\ phase = "walk" /\ at' = at /\ group' \subseteq group /\ kept' = kept \cup Tagged(Uncontested(Block))
    BY <1>8 DEF WalkBlock
  <2>2. Uncontested(Block) \subseteq group  BY DEF Uncontested, Free, Block
  <2>3. \A x \in Tagged(Uncontested(Block)) : x.layer = at /\ x.cand \in group
    BY <2>2 DEF Tagged
  <2>4. \A x \in kept' : Listing(x.cand) /\ Own(x.layer, x.cand)  BY <2>1, <2>3 DEF OInv
  <2>5. QED  BY <1>2, <1>3, <2>1, <2>4 DEF OInv
<1>9. CASE NextLayer
  <2>1. phase' = "match" /\ group' = {} /\ kept' = kept  BY <1>9 DEF NextLayer
  <2>2. QED  BY <1>2, <1>3, <2>1 DEF OInv
<1>10. CASE UNCHANGED vars
  <2>1. UNCHANGED <<at, phase, claims, group, kept>>  BY <1>10 DEF vars
  <2>2. Claims' = Claims  BY <1>1, <2>1, ClaimsKept
  <2>3. Looked => Looked'  BY <2>1, <2>2 DEF Looked
  <2>4. QED  BY <1>2, <1>3, <2>1, <2>3 DEF OInv
<1>11. QED  BY <1>5, <1>6, <1>7, <1>8, <1>9, <1>10 DEF Next

\* If every contract both venues list starts closest, by more than an hour, to its own
\* listing and is named no worse there, no pair of the line or prop layer takes a market
\* from its own counterpart for that of another game: of all the claims on it the
\* counterpart's is the best, and it is not refused.
THEOREM MatchingLinesKeepTheirGame == SpacedCatalogs => (Spec => []LinesKeepTheirGame)
<1>1. IInv /\ OInv => LinesKeepTheirGame
  <2> SUFFICES ASSUME OInv, NEW c \in KeptOf({"line", "prop"}), KalshiOf(c).game # PolyOf(c).game
               PROVE  /\ \A m \in kalshi : ~SameContract(m, PolyOf(c))
                      /\ \A m \in poly : ~SameContract(KalshiOf(c), m)
    BY DEF LinesKeepTheirGame, OwnGame
  <2>1. PICK x \in kept : Layers[x.layer] \in {"line", "prop"} /\ x.cand = c  BY DEF KeptOf
  <2>2. Listing(c) /\ Own(x.layer, c)  BY <2>1 DEF OInv
  <2>3. KalshiOf(c) \in kalshi /\ KalshiOf(c).id = c.k  BY <2>2 DEF Listing, KalshiOf
  <2>4. PolyOf(c) \in poly /\ PolyOf(c).id = c.p  BY <2>2 DEF Listing, PolyOf
  <2>5. QED  BY <2>1, <2>2, <2>3, <2>4 DEF Own
<1>2. QED  BY <1>1, OInit, OStep, Invariance, PTL DEF Spec
=============================================================================
