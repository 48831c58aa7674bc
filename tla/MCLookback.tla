----------------------------- MODULE MCLookback -----------------------------
(* The instance of Lookback for TLC: see MCLookback.cfg for the sizes. *)
EXTENDS Lookback
=============================================================================
