---------------------------- MODULE MCKalshiFeed ----------------------------
(* A small instance of KalshiFeed: a venue that answers every way but with a *)
(* bare ok for a change it did not make.                                     *)
EXTENDS KalshiFeed

MCAnswers == {"ok", "bare", "noop", "error", "silent"}
=============================================================================
