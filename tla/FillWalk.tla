------------------------------- MODULE FillWalk -------------------------------
(***************************************************************************)
(* detection/spread.py: the evaluation of a pair of markets.  In each of   *)
(* the two directions evaluate_pair walks the YES ladder of one venue and  *)
(* the NO ladder of the other, a whole share of each per step, and keeps   *)
(* the largest size whose average still clears the gate; the better        *)
(* direction becomes the row.                                              *)
(*                                                                         *)
(* Money is counted in hundredths of a cent (One is a dollar), which is    *)
(* what fees are rounded to, and an average is compared by multiplying     *)
(* out, so there is no rounding but the code's own.  A size is counted in  *)
(* Unit-ths of a share: venues quote fractions of a share.                 *)
(***************************************************************************)
EXTENDS Integers, Sequences, SequencesExt

CONSTANTS
  Price,        \* prices a level may have
  KalshiRate,   \* the venues' taker fee coefficients, in percent
  PolyRate,
  Buffer,       \* headroom asked per share
  Cap,          \* the largest size looked for
  Unit,         \* what a size of one share is counted as
  Pairs         \* the pairs of books evaluated

One == 10000
Venue == {"kalshi", "polymarket_us"}

\* The fraction of a share at the end of a level is bought whole.
SharesRoundedUp(depth) ==
  FlattenSeq([i \in 1..Len(depth) |->
                [s \in 1..((depth[i].size + Unit - 1) \div Unit) |-> depth[i].price]])

\* The prices of a ladder share by share: the fraction of a share at the end of a
\* level is left out.
WholeShares(depth) ==
  FlattenSeq([i \in 1..Len(depth) |->
                [s \in 1..(depth[i].size \div Unit) |-> depth[i].price]])

\* Cheapest level first.
Sorted(depth) ==
  \A i, j \in 1..Len(depth) : i <= j => depth[i].price <= depth[j].price

\* A ladder is sorted cheapest first, and no venue offers both sides of a market for
\* less than the dollar one of them pays.
ASSUME FillAssumption ==
  /\ Price \subseteq 0..One
  /\ KalshiRate \in 0..100 /\ PolyRate \in 0..100
  /\ Buffer \in Nat /\ Cap \in Nat /\ Unit \in Nat \ {0}
  /\ Pairs \subseteq [Venue -> [yes : Seq([price : Price, size : Nat]),
                                no : Seq([price : Price, size : Nat])]]
  /\ \A books \in Pairs, v \in Venue :
       LET yes == books[v].yes  no == books[v].no IN
       /\ Sorted(yes) /\ Sorted(no)
       /\ yes # <<>> /\ no # <<>> => yes[1].price + no[1].price >= One

VARIABLES
  books,    \* the two markets
  turn,     \* the direction looked at: 1 buys YES on Kalshi, 2 on Polymarket
  pc,       \* "turn", "walk" or "compare"
  filled,   \* shares bought of each leg
  cost,     \* paid for them
  fee,      \* and the fees
  edges,    \* what is left of the dollars after each share, below the early exit
  best,     \* the largest size that cleared
  row       \* the better evaluation so far

vars == <<books, turn, pc, filled, cost, fee, edges, best, row>>

Nothing == [size |-> 0, cost |-> 0, fee |-> 0]
NoRow == [turn |-> 0, size |-> 0, shares |-> 1, raw |-> 0, edge |-> 0, frontier |-> <<>>]

YesVenue(d) == IF d = 1 THEN "kalshi" ELSE "polymarket_us"
NoVenue(d)  == IF d = 1 THEN "polymarket_us" ELSE "kalshi"
YesDepth(d) == books[YesVenue(d)].yes
NoDepth(d)  == books[NoVenue(d)].no

-----------------------------------------------------------------------------
(* Fees                                                                    *)

Rate(v) == IF v = "kalshi" THEN KalshiRate ELSE PolyRate

\* coefficient * price * (1 - price), rounded to a hundredth of a cent.
QuadraticFee(rate, price) == (rate * price * (One - price) + 50 * One) \div (100 * One)

FeesOf(d, yes, no) ==
  QuadraticFee(Rate(YesVenue(d)), yes) + QuadraticFee(Rate(NoVenue(d)), no)

-----------------------------------------------------------------------------
(* max_fillable_size                                                       *)

Exhausted(n, paid) == paid >= (One - Buffer) * n

Edge(n, paid, fees) == One * n - paid - fees

\* What all the shares leave is compared with the buffer of one.
ClearsInTotal(n, edge) == edge > Buffer

Clears(n, edge) == edge > Buffer * n

\* A share more than the cap.
MoreSharesPastCap ==
  /\ filled <= Cap
  /\ filled < Len(WholeShares(YesDepth(turn)))
  /\ filled < Len(WholeShares(NoDepth(turn)))

MoreShares ==
  /\ filled < Cap
  /\ filled < Len(WholeShares(YesDepth(turn)))
  /\ filled < Len(WholeShares(NoDepth(turn)))

\* One turn of the loop: a share of each leg.
BuyShare ==
  /\ pc = "walk" /\ MoreShares
  /\ filled' = filled + 1
  /\ LET yes == WholeShares(YesDepth(turn))[filled']
         no  == WholeShares(NoDepth(turn))[filled']
     IN  /\ cost' = cost + yes + no
         /\ fee' = fee + FeesOf(turn, yes, no)
  /\ IF Exhausted(filled', cost')
     THEN pc' = "compare" /\ UNCHANGED <<edges, best>>
     ELSE LET edge == Edge(filled', cost', fee') IN
          /\ edges' = Append(edges, edge)
          /\ best' = IF Clears(filled', edge)
                     THEN [size |-> filled', cost |-> cost', fee |-> fee'] ELSE best
          /\ UNCHANGED pc
  /\ UNCHANGED <<books, turn, row>>

\* The cap is reached or a leg has run out.
RunsOut ==
  /\ pc = "walk" /\ ~MoreShares
  /\ pc' = "compare"
  /\ UNCHANGED <<books, turn, filled, cost, fee, edges, best, row>>

\* Rounded down, which for a small walk is no share at all.
SampleSizeDown(size, pct) == (size * pct) \div 100

\* The shares at a percentage of the size, rounded up.
SampleSize(size, pct) == (size * pct + 99) \div 100

\* (Position 0 of a Python list is its last element when counted from 1.)
Frontier(size) ==
  [i \in 1..3 |-> LET n == SampleSize(size, 25 * i) IN
                  [shares |-> n, edge |-> edges[IF n = 0 THEN Len(edges) ELSE n]]]

-----------------------------------------------------------------------------
(* evaluate_pair                                                           *)

Init ==
  /\ books \in Pairs
  /\ turn = 1 /\ pc = "turn" /\ row = NoRow
  /\ filled = 0 /\ cost = 0 /\ fee = 0 /\ edges = <<>> /\ best = Nothing

\* A direction with an offer on both legs is walked; any other is passed over.
NextDirection ==
  /\ pc = "turn" /\ turn <= 2
  /\ filled' = 0 /\ cost' = 0 /\ fee' = 0 /\ edges' = <<>> /\ best' = Nothing
  /\ IF YesDepth(turn) = <<>> \/ NoDepth(turn) = <<>>
     THEN turn' = turn + 1 /\ UNCHANGED pc
     ELSE pc' = "walk" /\ UNCHANGED turn
  /\ UNCHANGED <<books, row>>

YesAsk == YesDepth(turn)[1].price
NoAsk  == NoDepth(turn)[1].price
RawTop == One - YesAsk - NoAsk

\* What is left of a dollar when one contract is bought at the top of the book.
OneContract == RawTop - FeesOf(turn, YesAsk, NoAsk)

Evaluation ==
  IF best.size > 0
  THEN [turn |-> turn, size |-> best.size, shares |-> best.size, raw |-> RawTop,
        edge |-> edges[best.size], frontier |-> Frontier(best.size)]
  ELSE [turn |-> turn, size |-> 0, shares |-> 1, raw |-> RawTop,
        edge |-> OneContract, frontier |-> <<>>]

\* Mutant of Better: the first direction that can be evaluated is the row.
FirstIsBest(ev) == row = NoRow

\* ev leaves more per share than the row so far.
Better(ev) == row = NoRow \/ ev.edge * row.shares > row.edge * ev.shares

Compare ==
  /\ pc = "compare"
  /\ row' = IF Better(Evaluation) THEN Evaluation ELSE row
  /\ turn' = turn + 1 /\ pc' = "turn"
  /\ UNCHANGED <<books, filled, cost, fee, edges, best>>

Next == NextDirection \/ BuyShare \/ RunsOut \/ Compare

Spec == Init /\ [][Next]_vars

-----------------------------------------------------------------------------
(* The reference: the same economics by size, without walking.             *)

Shares(d) ==
  LET yes == Len(WholeShares(YesDepth(d)))
      no  == Len(WholeShares(NoDepth(d)))
      thinner == IF yes <= no THEN yes ELSE no
  IN  IF Cap <= thinner THEN Cap ELSE thinner

Outlays(d) ==
  [i \in 1..Shares(d) |-> WholeShares(YesDepth(d))[i] + WholeShares(NoDepth(d))[i]]
Charges(d) ==
  [i \in 1..Shares(d) |->
     FeesOf(d, WholeShares(YesDepth(d))[i], WholeShares(NoDepth(d))[i])]

\* The totals of the first 0, 1, 2, ... elements of a sequence.
Totals(s) ==
  LET total[n \in 0..Len(s)] == IF n = 0 THEN 0 ELSE total[n - 1] + s[n]
  IN  total

EdgeAt(d, n) == One * n - Totals(Outlays(d))[n] - Totals(Charges(d))[n]
SizeClears(d, n) == EdgeAt(d, n) > Buffer * n

\* compute_fill_price: the cost of buying shares whole ones of a ladder of which
\* fractions may be used, and what the ladder is short of.
Fill(depth, shares) ==
  LET Take(have, level) ==
        LET take == IF have.left <= level.size THEN have.left ELSE level.size
        IN  [left |-> have.left - take, cost |-> have.cost + take * level.price]
      have[n \in 0..Len(depth)] ==
        IF n = 0 THEN [left |-> shares * Unit, cost |-> 0]
        ELSE Take(have[n - 1], depth[n])
  IN  have[Len(depth)]

-----------------------------------------------------------------------------
(* Properties                                                              *)

TypeOK ==
  /\ books \in Pairs
  /\ turn \in 1..3 /\ pc \in {"turn", "walk", "compare"}
  /\ pc # "turn" => turn \in 1..2
  /\ filled \in 0..Cap /\ cost \in Nat /\ fee \in Nat
  /\ edges \in Seq(Int) /\ Len(edges) <= filled
  /\ best \in [size : 0..Cap, cost : Nat, fee : Nat] /\ best.size <= Len(edges)
  /\ row.turn \in 0..2 /\ row.size \in 0..Cap /\ row.shares \in Nat \ {0}
  /\ row.raw \in Int /\ row.edge \in Int /\ Len(row.frontier) \in {0, 3}

\* spread.py:125, "Largest hedge size whose average per-share economics still clear
\* the gate": when a walk ends, however it ends, the size it kept clears and no
\* larger one does, up to the cap and the thinner leg.  The early exit (spread.py:155)
\* never cuts off a size that would have cleared.
LargestSize ==
  pc = "compare" =>
    /\ best.size > 0 => best.size <= Shares(turn) /\ SizeClears(turn, best.size)
    /\ \A n \in 1..Shares(turn) : SizeClears(turn, n) => n <= best.size

\* spread.py:90, "the edge decays along the walk and the final point [...] is its
\* worst": what a share leaves on average never grows with the size, although fees
\* fall with the price beyond fifty cents; so every quarter point of a row lies within
\* its size and is at least as good as the row's own edge.
EdgeDecays ==
  /\ \A m, n \in 1..Len(edges) : m <= n => edges[m] * n >= edges[n] * m
  /\ row.size > 0 =>
       \A i \in 1..3 :
         LET point == row.frontier[i] IN
         /\ point.shares \in 1..row.size
         /\ point.edge = EdgeAt(row.turn, point.shares)
         /\ point.edge * row.size >= row.edge * point.shares

\* The size of a plan can be bought: compute_fill_price, which walks the same ladders
\* but uses fractions of a share, has the liquidity for it and pays no more.
PlanIsFillable ==
  pc = "compare" /\ best.size > 0 =>
    LET yes == Fill(YesDepth(turn), best.size)
        no  == Fill(NoDepth(turn), best.size)
    IN  /\ yes.left = 0 /\ no.left = 0
        /\ yes.cost + no.cost <= best.cost * Unit

\* main.py:263 takes estimated_fillable_size > 0 of the one row as "the pair is
\* viable": a row of size 0 means that no size clears in either direction, whichever
\* direction looked better at a single contract; and it is the loss of one contract to
\* fees (spread.py:257), its edge within the buffer, unless the top of a leg holds less
\* than one share (the one contract is priced there, the walk is not) or no share is
\* looked for.
ZeroIsNoTrade ==
  /\ turn = 3 /\ row.size = 0 =>
       \A d \in 1..2 : YesDepth(d) # <<>> /\ NoDepth(d) # <<>> =>
         \A n \in 1..Shares(d) : ~SizeClears(d, n)
  /\ row.turn # 0 /\ row.size = 0 /\ Cap > 0
     /\ YesDepth(row.turn)[1].size >= Unit /\ NoDepth(row.turn)[1].size >= Unit
       => row.edge <= Buffer
=============================================================================
