----------------------------- MODULE MCFillWalk -----------------------------
(***************************************************************************)
(* A small instance of FillWalk: sizes in half shares, every ladder of at  *)
(* most two levels to buy YES on Kalshi and NO on Polymarket, and a few    *)
(* for the other direction.                                                *)
(***************************************************************************)
EXTENDS FillWalk

MCPrice == {3900, 4000, 4600, 4800, 4900, 5500, 6100}

Level(price, size) == [price |-> price, size |-> size]

\* The ladders of at most two levels, cheapest first.
Ladders(prices, sizes) ==
  LET Levels == [price : prices, size : sizes]
  IN  {<<>>} \cup {<<a>> : a \in Levels}
             \cup {l \in Levels \X Levels : l[1].price < l[2].price}

Uncrossed(book) ==
  book.yes # <<>> /\ book.no # <<>> => book.yes[1].price + book.no[1].price >= One

MCKalshi ==
  {book \in [yes : Ladders({4000, 4900, 5500}, {1, 3, 4}),
             no  : {<<>>, <<Level(6100, 4)>>, <<Level(4600, 3)>>}] : Uncrossed(book)}

MCPolymarket ==
  {book \in [yes : {<<>>, <<Level(3900, 3)>>, <<Level(4800, 2)>>},
             no  : Ladders({4900, 5500, 6100}, {2, 5})] : Uncrossed(book)}

MCPairs ==
  {[v \in Venue |-> IF v = "kalshi" THEN k ELSE p] : k \in MCKalshi, p \in MCPolymarket}
=============================================================================
