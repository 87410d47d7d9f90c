------------------------------ MODULE Matching ------------------------------
(***************************************************************************)
(* From two catalogs to matches.json (scripts/export_candidates.py): five  *)
(* layers of matchers, most precise first, each reduced to a one-to-one    *)
(* assignment that the next ones respect; and what the collector makes of  *)
(* a pair (main.oriented).                                                 *)
(*                                                                         *)
(* A market is its structured identity.  key is what has to be equal: the  *)
(* league, with the kind and the line of a spread or total, or with the    *)
(* statistic and the threshold of a prop.  names are the two competitors   *)
(* of its game; yes is the competitor, player or entity its YES pays on.   *)
(* id is its place in the catalog; game and team (or player) are the truth *)
(* about it, which no matcher sees.                                        *)
(***************************************************************************)
EXTENDS Names, Sequences, FiniteSets

CONSTANTS
  Catalogs,       \* families of [kalshi, poly, similar]: what the two venues may list
  StartTolerance, \* hours: START_TOLERANCE_HOURS
  EditionDays,    \* FUTURES_DATE_TOLERANCE_DAYS
  TextDays        \* RESOLUTION_DATE_TOLERANCE_DAYS

ASSUME MatchingAssumption ==
  \A family \in Catalogs : \A c \in family :
    /\ \A m \in c.kalshi \cup c.poly : /\ m.date \in Int /\ m.start \in Int
                                      /\ IsFiniteSet(m.competition.words)
    /\ \A x \in DOMAIN c.similar : c.similar[x] \in Int

None == -1   \* an unknown start or date

Layers == <<"structured", "futures", "line", "prop", "lexical">>

VARIABLES
  kalshi, poly,  \* the catalogs
  similar,       \* <<Kalshi id, Polymarket id>> to how alike the texts are; 0 is below the threshold
  at,            \* the layer at work; past the last one the file is written
  phase,         \* of it: "match", "claim", "walk"
  claims,        \* of its matcher, not yet looked at
  group,         \* its candidates, not yet walked by dedupe_one_to_one
  kClaimed, pClaimed,
  kept,          \* the candidates kept, each with its layer
  offered        \* history: every candidate any layer produced

catalogs == <<kalshi, poly, similar>>
vars == <<catalogs, at, phase, claims, group, kClaimed, pClaimed, kept, offered>>

Abs(n) == IF n < 0 THEN -n ELSE n
Highest(a, b) == IF a > b THEN a ELSE b
Lowest(a, b) == IF a < b THEN a ELSE b

Listed(catalog, layer) == {m \in catalog : m.layer = layer}

-----------------------------------------------------------------------------
(* What the matchers share                                                 *)

Hours(a, b) == Abs(a.start - b.start)

InWindow(a, b) == a.start # None /\ b.start # None /\ Hours(a, b) <= StartTolerance

DeltaDays(k, p) == IF k.date = None \/ p.date = None THEN None ELSE Abs(k.date - p.date)

\* Mutant of Better: the start is not looked at.
BetterByScore(a, b) == a.score > b.score

Better(a, b) == a.score > b.score \/ (a.score = b.score /\ a.hours < b.hours)

\* The best score and among those the closest start, refused when another is as good
\* and starts within the hour.
Chosen(scored) ==
  {a \in scored : /\ \A b \in scored : ~Better(b, a)
                  /\ \A b \in scored \ {a} : b.score = a.score => Abs(b.hours - a.hours) > 1}

Candidate(k, p, score, delta, inverted) ==
  [k |-> k.id, p |-> p.id, score |-> score, delta |-> delta, inverted |-> inverted]

-----------------------------------------------------------------------------
(* The structured layer: a game of Polymarket looks for its game of Kalshi *)

GameEvents == {m.event : m \in Listed(kalshi, "structured")}

Members(e) == {m \in Listed(kalshi, "structured") : m.event = e}

\* The title names the teams in short, YES names one in full.
TitleName(m) ==
  LET s == [i \in {1, 2} |-> CompetitorScore(m.names[i], m.yes)]
      i == IF s[1] >= s[2] THEN 1 ELSE 2
  IN  IF s[i] < MinSide THEN m.yes ELSE m.names[i]

\* The market of a game that is filed under a name: of several the last in the catalog.
FiledUnder(e, name) ==
  LET named == {m \in Members(e) : TitleName(m) = name}
  IN  {m \in named : \A n \in named : n.id <= m.id}

\* The venues' own codes for a team confirm a pair of names.
Codes(e, name, p, other) ==
  \E m \in FiledUnder(e, name) : p.yes = other /\ m.abbrev = p.abbrev /\ p.abbrev # ""

GameScores(e, names, p) ==
  [i \in {1, 2} |-> [j \in {1, 2} |->
     LET s == CompetitorScore(names[i], p.names[j])
     IN  IF s > 0 /\ Codes(e, names[i], p, p.names[j]) THEN Exact ELSE s]]

\* The games of Kalshi that may be p's.
ScoredGames(p) ==
  LET Of(e) == CHOOSE m \in Members(e) : TRUE
      S(e)  == GameScores(e, Of(e).names, p)
  IN  {[score |-> S(e)[Align(S(e))[1]][1] * S(e)[Align(S(e))[2]][2],
        hours |-> Hours(Of(e), p), event |-> e, names |-> Of(e).names, align |-> Align(S(e))] :
         e \in {e \in GameEvents : /\ Of(e).key = p.key /\ InWindow(Of(e), p)
                                   /\ Align(S(e)) # Refused}}

\* Kalshi's name for the team that p's YES pays on.
YesName(g, p) == g.names[g.align[IF p.yes = p.names[1] THEN 1 ELSE 2]]

StructuredMatch ==
  UNION {UNION {{Candidate(m, p, g.score, DeltaDays(m, p), FALSE) : m \in FiledUnder(g.event, YesName(g, p))} :
                  g \in Chosen(ScoredGames(p))} : p \in Listed(poly, "structured")}

-----------------------------------------------------------------------------
(* The futures layer: an entity in a competition, for one edition          *)

CompetitionScore(a, b) ==
  IF a.selectors # b.selectors \/ a.words = {} \/ b.words = {} THEN 0
  ELSE (100 * Cardinality(a.words \cap b.words)) \div Cardinality(a.words \cup b.words)

\* Stated years decide when both sides state one, else the dates.
SamePeriod(k, p) ==
  IF k.competition.years # {} /\ p.competition.years # {}
    THEN k.competition.years \cap p.competition.years # {}
    ELSE DeltaDays(k, p) \in 0..EditionDays

EntityMin == 60
CompetitionMin == 75

ScoredOutrights(k) ==
  {[score |-> CompetitorScore(k.yes, p.yes) * CompetitionScore(k.competition, p.competition),
    hours |-> 0, market |-> p] :
     p \in {p \in Listed(poly, "futures") :
              /\ k.yes.words \cap p.yes.words # {} /\ SamePeriod(k, p)
              /\ CompetitorScore(k.yes, p.yes) >= EntityMin
              /\ CompetitionScore(k.competition, p.competition) >= CompetitionMin}}

\* An unknown date is written down as a difference of no days.
FuturesMatch ==
  UNION {{Candidate(k, o.market, o.score, Highest(DeltaDays(k, o.market), 0), FALSE) :
            o \in Chosen(ScoredOutrights(k))} : k \in Listed(kalshi, "futures")}

-----------------------------------------------------------------------------
(* Lines and props                                                         *)

\* Mutant of Orientation: the team alone decides.
OrientationByTeam(k, p, align) ==
  LET name == k.names[align[IF p.yes = p.names[1] THEN 1 ELSE 2]]
  IN  {k.key[2] = "spread" /\ CompetitorScore(name, k.yes) < MinSide}

\* Is Polymarket's YES the complement of Kalshi's?  "T at -L" is Kalshi's market for T,
\* "T at +L" the complement of that for T's opponent, anything else another bet: {}.
Orientation(k, p, align) ==
  LET name     == k.names[align[IF p.yes = p.names[1] THEN 1 ELSE 2]]
      sameTeam == CompetitorScore(name, k.yes) >= MinSide
  IN  IF k.key[2] = "total" THEN {FALSE}
      ELSE {inverted \in BOOLEAN : inverted = ~p.favored /\ sameTeam = p.favored}

Aligned(k, p) == Align(Scores(k.names, p.names))

LineFits(k, p, inverted) ==
  /\ p.key = k.key /\ InWindow(k, p) /\ Aligned(k, p) # Refused
  /\ inverted \in Orientation(k, p, Aligned(k, p))

LineScore(k, p) ==
  LET s == Scores(k.names, p.names) a == Aligned(k, p) IN Lowest(s[a[1]][1], s[a[2]][2])

ScoredLines(k) ==
  UNION {{[score |-> LineScore(k, p), hours |-> Hours(k, p), market |-> p, inverted |-> i] :
            i \in {i \in BOOLEAN : LineFits(k, p, i)}} : p \in Listed(poly, "line")}

\* How well two pairs of names describe one game.
SameGame(k, p) ==
  LET s == Scores(k, p) IN Highest(s[1][1] * s[2][2], s[1][2] * s[2][1])

PropFits(k, p) ==
  /\ p.key = k.key /\ InWindow(k, p)
  /\ CompetitorScore(k.yes, p.yes) >= MinSide
  /\ SameGame(k.names, p.names) >= MinPair

PropScore(k, p) == CompetitorScore(k.yes, p.yes) * SameGame(k.names, p.names)

ScoredProps(k) ==
  {[score |-> PropScore(k, p), hours |-> Hours(k, p), market |-> p, inverted |-> FALSE] :
     p \in {p \in Listed(poly, "prop") : PropFits(k, p)}}

Scored(k) == IF k.layer = "line" THEN ScoredLines(k) ELSE ScoredProps(k)

\* Every Kalshi market's claim, for the matcher's own walk.
ClaimsOf(layer) ==
  UNION {{[score |-> c.score, hours |-> c.hours, k |-> k, p |-> c.market,
           inverted |-> c.inverted] : c \in Chosen(Scored(k))} : k \in Listed(kalshi, layer)}

\* The text matcher skips games and outrights, but not lines and props.
TextMarkets(catalog) == {m \in catalog : m.layer \notin {"structured", "futures"}}

Likeness(k, p) == IF <<k.id, p.id>> \in DOMAIN similar THEN similar[<<k.id, p.id>>] ELSE 0

Alike(k, p) == Likeness(k, p) > 0 /\ DeltaDays(k, p) \in 0..TextDays

\* It keeps every pair that is alike enough.
LexicalMatch ==
  {Candidate(kp[1], kp[2], Likeness(kp[1], kp[2]), DeltaDays(kp[1], kp[2]), FALSE) :
     kp \in {kp \in TextMarkets(kalshi) \X TextMarkets(poly) : Alike(kp[1], kp[2])}}

Match(layer) ==
  CASE layer = "structured" -> StructuredMatch
    [] layer = "futures"    -> FuturesMatch
    [] layer = "lexical"    -> LexicalMatch

-----------------------------------------------------------------------------
(* The pipeline                                                            *)

Init ==
  /\ \E family \in Catalogs : \E c \in family :
       kalshi = c.kalshi /\ poly = c.poly /\ similar = c.similar
  /\ at = 1 /\ phase = "match" /\ claims = {} /\ group = {}
  /\ kClaimed = {} /\ pClaimed = {} /\ kept = {} /\ offered = {}

Tagged(cs) == {[layer |-> at, cand |-> c] : c \in cs}

\* A matcher runs; that of lines and of props then walks its own claims.
RunMatcher ==
  /\ at <= Len(Layers) /\ phase = "match"
  /\ IF Layers[at] \in {"line", "prop"}
       THEN /\ claims' = ClaimsOf(Layers[at]) /\ phase' = "claim"
            /\ UNCHANGED <<group, offered>>
       ELSE /\ group' = Match(Layers[at]) /\ phase' = "walk"
            /\ offered' = offered \cup Tagged(group') /\ UNCHANGED claims
  /\ UNCHANGED <<catalogs, at, kClaimed, pClaimed, kept>>

\* Best claim first, and a market taken is taken.  Between equals the order of the
\* catalog decides.
TakeClaim ==
  /\ phase = "claim"
  /\ \E c \in claims :
       /\ \A d \in claims : ~Better(d, c)
       /\ claims' = claims \ {c}
       /\ group' = IF \E g \in group : g.k = c.k.id \/ g.p = c.p.id THEN group
                   ELSE group \cup {Candidate(c.k, c.p, c.score,
                                              Highest(DeltaDays(c.k, c.p), 0), c.inverted)}
  /\ UNCHANGED <<catalogs, at, phase, kClaimed, pClaimed, kept, offered>>

ClaimsTaken ==
  /\ phase = "claim" /\ claims = {} /\ phase' = "walk"
  /\ offered' = offered \cup Tagged(group)
  /\ UNCHANGED <<catalogs, at, claims, group, kClaimed, pClaimed, kept>>

\* dedupe_one_to_one ranks by score, then by the dates' difference, unknown last.
OutRanks(a, b) ==
  \/ a.score > b.score
  \/ a.score = b.score /\ a.delta # None /\ (b.delta = None \/ a.delta < b.delta)

\* The candidates of the best rank that are left.
Block == {c \in group : \A d \in group : ~OutRanks(d, c)}

\* Mutant of Free: what another layer's Polymarket legs are is forgotten.
FreeKalshi(cs) == {c \in cs : c.k \notin kClaimed}

\* Those whose two markets nobody has claimed.
Free(cs) == {c \in cs : c.k \notin kClaimed /\ c.p \notin pClaimed}

\* Mutant of Uncontested: candidates that are already out contest too.
UncontestedByAny(cs) ==
  {c \in Free(cs) : ~\E d \in cs \ {c} : d.k = c.k \/ d.p = c.p}

\* Of two that claim one market at the same rank neither is kept.
Uncontested(cs) ==
  {c \in Free(cs) : ~\E d \in Free(cs) \ {c} : d.k = c.k \/ d.p = c.p}

WalkBlock ==
  /\ phase = "walk" /\ group # {}
  /\ group' = group \ Block
  /\ kept' = kept \cup Tagged(Uncontested(Block))
  /\ kClaimed' = kClaimed \cup {c.k : c \in Uncontested(Block)}
  /\ pClaimed' = pClaimed \cup {c.p : c \in Uncontested(Block)}
  /\ UNCHANGED <<catalogs, at, phase, claims, offered>>

NextLayer ==
  /\ phase = "walk" /\ group = {} /\ phase' = "match" /\ at' = at + 1
  /\ UNCHANGED <<catalogs, claims, group, kClaimed, pClaimed, kept, offered>>

Next == RunMatcher \/ TakeClaim \/ ClaimsTaken \/ WalkBlock \/ NextLayer

Spec == Init /\ [][Next]_vars

-----------------------------------------------------------------------------
(* Properties                                                              *)

Written == {x.cand : x \in kept}
KalshiOf(c) == CHOOSE m \in kalshi : m.id = c.k
PolyOf(c) == CHOOSE m \in poly : m.id = c.p
Rivals(a, b) == a.k = b.k \/ a.p = b.p

\* No market anchors two hedges, whichever layers found them.
OneToOne == \A a, b \in Written : a # b => ~Rivals(a, b)

\* x is kept, or out because of an earlier layer or a better rank.
Beaten(x) ==
  \E y \in kept :
     /\ Rivals(x.cand, y.cand)
     /\ y.layer < x.layer \/ (y.layer = x.layer /\ OutRanks(y.cand, x.cand))

\* A candidate is lost for cause only: one of its markets went to an earlier layer or
\* to a better rank, or is claimed at its own rank by another that had not lost either.
LostForCause ==
  \A x \in offered : (x.layer < at /\ x \notin kept) =>
     \/ Beaten(x)
     \/ \E y \in offered \ {x} :
          /\ y.layer = x.layer /\ Rivals(x.cand, y.cand) /\ ~Beaten(y)
          /\ ~OutRanks(x.cand, y.cand) /\ ~OutRanks(y.cand, x.cand)

\* Does YES of a moneyline or spread pay when team 1 wins by margin?
Pays(m, margin) ==
  LET own == IF m.team = 1 THEN margin ELSE -margin
  IN  IF m.layer = "structured" THEN own > 0
      ELSE 2 * own > (IF m.favored THEN m.key[3] ELSE -m.key[3])

\* The YES of Polymarket as main.oriented hands it to the detector: an inverted leg
\* has its ladders swapped.
OrientedPays(p, inverted, margin) == Pays(p, margin) # inverted

Margins == -3..3

\* Kalshi's YES and Polymarket's NO pay once in every outcome.
IsHedge(k, p, inverted) ==
  \A margin \in Margins \ {0} : Pays(k, margin) = OrientedPays(p, inverted, margin)

OnMargin(m) == m.layer = "structured" \/ (m.layer = "line" /\ m.key[2] = "spread")

\* The candidates kept of some layers.
KeptOf(layers) == {x.cand : x \in {x \in kept : Layers[x.layer] \in layers}}

\* Two legs on one game are a hedge, if the names or the terms found them: the teams are
\* never taken for each other, nor a spread for its complement or for another bet of the
\* same team and number.  (The text matcher, which sees spreads too, knows no sides.)
HedgePays ==
  \A c \in KeptOf({"structured", "line"}) :
     LET k == KalshiOf(c) p == PolyOf(c)
     IN  OnMargin(k) /\ k.game = p.game => IsHedge(k, p, c.inverted)

\* One contract on one game.
SameContract(k, p) ==
  /\ k.layer = p.layer /\ k.key = p.key /\ k.game = p.game
  /\ k.layer = "prop" => k.team = p.team
  /\ OnMargin(k) => \E inverted \in {FALSE, k.layer = "line"} : IsHedge(k, p, inverted)

\* A market whose own counterpart is listed is not paired with that of another game.
OwnGame(layers) ==
  \A c \in KeptOf(layers) :
     LET k == KalshiOf(c) p == PolyOf(c)
     IN  k.game # p.game =>
           /\ \A m \in kalshi : ~SameContract(m, p)
           /\ \A m \in poly : ~SameContract(k, m)

\* For lines and props the closest start decides between the games of a series, and so
\* each is paired with its own listing.
LinesKeepTheirGame == OwnGame({"line", "prop"})

\* Of two Polymarket games that claim one game of Kalshi "the one whose date matches
\* the Kalshi ticker is the right game" (matching/matcher.py:224-225).
GamesKeepTheirGame == OwnGame({"structured"})

-----------------------------------------------------------------------------
(* What HedgePays takes of the catalogs                                    *)

\* Where the names of a game have a team, if they have team 1 at i.
Place(i, team) == IF team = 1 THEN i ELSE 3 - i

\* Two full names, of which neither contains the other.
FullNames(f) ==
  /\ Full(f[1]) /\ Full(f[2])
  /\ ~(f[1].words \subseteq f[2].words) /\ ~(f[2].words \subseteq f[1].words)

\* Two listings of one game: p names the teams in full and k in short, in orders of their
\* own.  A moneyline of Kalshi pays on a full name, and its title fits no team but its own;
\* a spread pays on a name of its title, whose two are not alike.
OneListing(k, p) ==
  /\ FullNames(p.names)
  /\ \E i, j \in {1, 2} :
       /\ \A t \in {1, 2} : ShortFor(k.names[Place(j, t)], p.names[Place(i, t)])
       /\ p.yes = p.names[Place(i, p.team)]
       /\ k.layer = "structured" =>
            /\ k.yes = p.names[Place(i, k.team)]
            /\ \A t \in {1, 2} : CompetitorScore(k.names[Place(j, t)], p.names[Place(i, 3 - t)]) = 0
       /\ k.layer = "line" =>
            /\ k.yes = k.names[Place(j, k.team)]
            /\ CompetitorScore(k.names[1], k.names[2]) = 0

\* An id is of one market, and the markets of one event have one title and league; a spread is of half
\* a point, and Kalshi's are of the side that gives it; what is listed of one game is listed
\* under its names.
Truthful(ks, ps) ==
  /\ \A m, n \in ks : m.id = n.id => m = n
  /\ \A m, n \in ps : m.id = n.id => m = n
  /\ \A m, n \in ks : m.layer = "structured" /\ n.layer = "structured" /\ m.event = n.event => m.names = n.names /\ m.key = n.key
  /\ \A m \in ks \cup ps : OnMargin(m) => m.team \in {1, 2} /\ m.favored \in BOOLEAN
  /\ \A m \in ks : OnMargin(m) /\ m.layer = "line" => m.favored /\ m.key[3] \in Int /\ m.key[3] % 2 = 1
  /\ \A k \in ks, p \in ps : OnMargin(k) /\ p.layer = k.layer /\ p.key = k.key /\ p.game = k.game => OneListing(k, p)

TruthfulCatalogs == \A family \in Catalogs : \A c \in family : Truthful(c.kalshi, c.poly)

-----------------------------------------------------------------------------
(* What LinesKeepTheirGame takes of them                                   *)

\* May the matcher of lines or of props pair them, and how good would that be?
Fits(k, p) ==
  /\ p.layer = k.layer
  /\ \/ k.layer = "line" /\ \E inverted \in BOOLEAN : LineFits(k, p, inverted)
     \/ k.layer = "prop" /\ PropFits(k, p)
FitScore(k, p) == IF k.layer = "line" THEN LineScore(k, p) ELSE PropScore(k, p)

\* p is k's own listing.  Whatever else k could be paired with is of another game, names it
\* no better, and starts further off by more than the hour within which the matcher refuses
\* to guess; and whatever else p could be paired with is no better and further off.
OwnListing(k, p, ks, ps) ==
  /\ \A q \in ps \ {p} : Fits(k, q) =>
       q.game # k.game /\ Fits(k, p) /\ FitScore(k, q) <= FitScore(k, p) /\ Hours(k, q) > Hours(k, p) + 1
  /\ \A m \in ks : m.game # p.game /\ Fits(m, p) =>
       Fits(k, p) /\ FitScore(m, p) <= FitScore(k, p) /\ Hours(m, p) > Hours(k, p)

\* An id is of one market, and a contract listed by both venues has its own listing.
Spaced(ks, ps) ==
  /\ \A m, n \in ks : m.id = n.id => m = n
  /\ \A m, n \in ps : m.id = n.id => m = n
  /\ \A k \in ks, p \in ps : k.layer \in {"line", "prop"} /\ SameContract(k, p) => OwnListing(k, p, ks, ps)

SpacedCatalogs == \A family \in Catalogs : \A c \in family : Spaced(c.kalshi, c.poly)
=============================================================================
