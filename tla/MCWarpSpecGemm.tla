--------------------------- MODULE MCWarpSpecGemm ---------------------------
(* Instances of WarpSpecGemm for TLC: see the .cfg files for the sizes. *)
EXTENDS WarpSpecGemm
=============================================================================
