----------------------------- MODULE MCMatching -----------------------------
(***************************************************************************)
(* Small catalogs: a series of two games between two teams of one city or  *)
(* state, the outrights of a competition, and texts.                       *)
(***************************************************************************)
EXTENDS Matching

MCWord == {"york", "yankees", "mets", "kansas", "jayhawks", "state"}
MCLetter == {"y", "m", "k", "j", "s"}
MCFirst == [w \in MCWord |-> CASE w \in {"york", "yankees"} -> "y" [] w = "mets" -> "m"
                              [] w = "kansas" -> "k" [] w = "jayhawks" -> "j" [] w = "state" -> "s"]

Named(words, initials) == [words |-> words, initials |-> initials]
\* Two clubs of one city, two schools of one state.
Teams == {<<Named({"york", "yankees"}, {}), Named({"york", "mets"}, {})>>,
          <<Named({"kansas", "jayhawks"}, {}), Named({"kansas", "state"}, {})>>}

\* The ways to write a team, and the titles whose names are two teams.  Moneylines are
\* filed by full name, so that neither may also be short for the other team.
Short(full) == {n \in {Named(w, l) : w \in SUBSET full.words, l \in {{}, {"y"}, {"m"}}} :
                  ShortFor(n, full)}
Titles == {t \in UNION {{[full |-> f, short |-> n] : n \in Short(f[1]) \X Short(f[2])} : f \in Teams} :
             CompetitorScore(t.short[1], t.short[2]) = 0}
ClearTitles == {t \in Titles : /\ CompetitorScore(t.short[1], t.full[2]) = 0
                               /\ CompetitorScore(t.short[2], t.full[1]) = 0}

Nobody == Named({}, {})
Market == [id |-> 0, layer |-> "lexical", key |-> <<>>, event |-> 0, names |-> <<Nobody, Nobody>>, yes |-> Nobody,
           team |-> 1, game |-> 0, start |-> None, date |-> None, favored |-> TRUE, abbrev |-> "",
           competition |-> [selectors |-> {}, words |-> {}, years |-> {}]]

\* A series: a double header, two days, or a weekly sport whose tickers have no hour.
Schedules == {[k |-> <<13, 18>>, p |-> <<14, 19>>], [k |-> <<13, 37>>, p |-> <<13, 37>>],
              [k |-> <<0, 72>>, p |-> <<19, 91>>]}

OnGame(m, s, g, pad) == [m EXCEPT !.event = g, !.game = g, !.start = s[g], !.date = (s[g] \div 24) + pad]
Kalshi(m, t, s, g) == OnGame([m EXCEPT !.names = t.short], s.k, g, 3)
\* Polymarket names the second game the other way round.
Poly(m, t, s, g) ==
  OnGame([m EXCEPT !.names = IF g = 1 THEN t.full ELSE <<t.full[2], t.full[1]>>], s.p, g, 14)

\* The markets at some places of a catalog.
At(markets, on) == {[markets[i] EXCEPT !.id = i] : i \in on}
\* Of two games with n possible markets each at most one is listed.
OneEach(n) == {on \in SUBSET (1..(2 * n)) :
                 Cardinality(on \cap (1..n)) <= 1 /\ Cardinality(on \ (1..n)) <= 1}
\* Kalshi has a market for either team.
BothTeams == {{}, {1, 2}, {3, 4}, {1, 2, 3, 4}}

Team(m, t, i) == [m EXCEPT !.yes = t.full[i], !.team = i, !.abbrev = IF i = 1 THEN "one" ELSE "two"]
\* Kalshi names the team of a spread as in its title.
KalshiTeam(m, t, i) == [Team(m, t, i) EXCEPT !.yes = IF m.layer = "line" THEN t.short[i] ELSE @]

Moneyline == [Market EXCEPT !.layer = "structured", !.key = <<"mlb">>]
Spread == [Market EXCEPT !.layer = "line", !.key = <<"mlb", "spread", 3>>]
Total == [Market EXCEPT !.layer = "line", !.key = <<"mlb", "total", 17>>]
Prop == [Market EXCEPT !.layer = "prop", !.key = <<"mlb", "hits", 2>>, !.yes = Named({"kansas"}, {})]

Catalog(k, p) == [kalshi |-> k, poly |-> p, similar |-> <<>>]

Games(m, titles, onKalshi, polys(_, _), n) ==
  {Catalog(At(<<Kalshi(KalshiTeam(m, t, 1), t, s, 1), Kalshi(KalshiTeam(m, t, 2), t, s, 1),
                Kalshi(KalshiTeam(m, t, 1), t, s, 2), Kalshi(KalshiTeam(m, t, 2), t, s, 2)>>, k),
           At(polys(t, s), p)) :
     t \in titles, s \in Schedules, k \in onKalshi, p \in OneEach(n)}

\* Totals and props, of which a game has one.
Singles(m) ==
  {Catalog(At(<<Kalshi(m, t, s, 1), Kalshi(m, t, s, 2)>>, k), At(<<Poly(m, t, s, 1), Poly(m, t, s, 2)>>, p)) :
     t \in Titles, s \in Schedules, k \in SUBSET (1..2), p \in SUBSET (1..2)}

Outright(words, selectors, years, date) ==
  [Market EXCEPT !.layer = "futures", !.date = date, !.yes = Named({"jayhawks"}, {}),
     !.competition = [words |-> words, selectors |-> selectors, years |-> years]]

Outrights ==
  {Catalog({[a EXCEPT !.id = 1], [b EXCEPT !.id = 2]}, {[c EXCEPT !.id = 1], [d EXCEPT !.id = 2]}) :
     a \in {Outright({"tour", "winner"}, {}, {2026}, date) : date \in {None, 0}},
     b \in {Outright(w, {}, {2026}, 40) : w \in {{"tour", "winner"}, {"tour", "green", "winner"}}},
     c \in {Outright(w, {}, y, 1) : w \in {{"tour", "winner"}, {"tour", "green", "winner"}}, y \in {{}, {2026}}},
     d \in {Outright({"tour", "winner"}, sel, {2027}, date) : sel \in {{}, {"stage"}}, date \in {1, 40}}}

\* A total of a game among texts that may be like it.
Texts ==
  {[kalshi |-> {[Market EXCEPT !.id = i, !.date = i] : i \in 1..2} \cup
               {[Kalshi(Total, t, s, 1) EXCEPT !.id = 3]},
    poly |-> {[Market EXCEPT !.id = 1, !.date = date], [Poly(Total, t, s, 1) EXCEPT !.id = 2, !.date = 2]},
    similar |-> [kp \in (1..3) \X (1..2) |-> alike[kp[1]][kp[2]]]] :
     date \in 1..2, alike \in [1..3 -> (0..2) \X (0..2)],
     t \in {CHOOSE t \in Titles : TRUE}, s \in Schedules}

\* Polymarket has one moneyline of a game and one spread, of either side and sign.
Moneylines ==
  Games(Moneyline, ClearTitles, BothTeams,
        LAMBDA t, s : <<Poly(Team(Moneyline, t, 1), t, s, 1), Poly(Team(Moneyline, t, 2), t, s, 1),
                        Poly(Team(Moneyline, t, 1), t, s, 2), Poly(Team(Moneyline, t, 2), t, s, 2)>>, 2)

Signed(t, s, g) ==
  LET Of(i, favored) == Poly([Team(Spread, t, i) EXCEPT !.favored = favored], t, s, g)
  IN  <<Of(1, TRUE), Of(1, FALSE), Of(2, TRUE), Of(2, FALSE)>>

Spreads ==
  Games(Spread, Titles, SUBSET (1..4), LAMBDA t, s : Signed(t, s, 1) \o Signed(t, s, 2), 4)

MCCatalogs == {Moneylines, Spreads, Singles(Total), Singles(Prop), Outrights, Texts}

\* The hypotheses of the theorems about HedgePays and LinesKeepTheirGame hold of these.
ASSUME MCTruthful == TruthfulCatalogs
ASSUME MCSpaced == SpacedCatalogs
=============================================================================
