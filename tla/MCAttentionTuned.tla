--------------------------- MODULE MCAttentionTuned ---------------------------
(***************************************************************************)
(* The attention kernel with blocks of keys longer than blocks of queries, *)
(* as the commented-out values of its autotune lists would give.           *)
(***************************************************************************)
EXTENDS ThreadGrid

Attention == INSTANCE AttentionKernels

TunedKernels == [attention |-> Attention!attn_fwd(1, 4, 1, 2)]
=============================================================================
