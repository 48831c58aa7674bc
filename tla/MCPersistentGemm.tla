-------------------------- MODULE MCPersistentGemm --------------------------
(***************************************************************************)
(* Instances of PersistentGemm for TLC.  TimelySpec adds what the kernel   *)
(* does not enforce: warp 0 initialises the barriers for its next tile     *)
(* only after the other warps have left the tile before.  With it the      *)
(* runs check everything else; MCGemmRace drops it.                        *)
(***************************************************************************)
EXTENDS PersistentGemm

AllLeft == \A w \in Warp : pc[w] \in {"top", "sync"}
Timely == pc'[0] = "sync" /\ pc[0] = "top" => AllLeft

TimelySpec ==
  /\ Init /\ [][Next /\ Timely]_vars
  /\ WF_vars(Release) /\ WF_vars(LandTma)
  /\ \A w \in Warp : WF_vars(WarpStep(w) /\ Timely)
=============================================================================
