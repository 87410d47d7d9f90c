---------------------------- MODULE MCCollector ----------------------------
(* A small instance of Collector: one Kalshi ticker paired with two slugs, both live     *)
(* games, so that the slugs are interchangeable.                                         *)
EXTENDS Collector, TLC

CONSTANTS k1, p1, p2

MCMatch == {<<k1, p1>>, <<k1, p2>>}
Symmetry == Permutations({p1, p2})
=============================================================================
