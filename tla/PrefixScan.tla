----------------------------- MODULE PrefixScan -----------------------------
(***************************************************************************)
(* What a global exclusive scan promises: in every launch each tile is     *)
(* finished once, in any order, with the sum of exactly the tiles before   *)
(* it, and a launch starts only when the one before it has finished.       *)
(***************************************************************************)
EXTENDS Contributions

VARIABLES launch,    \* launches started so far
          finished,  \* tiles the current launch has finished
          offset     \* the value a finished tile added to its elements

scanVars == <<launch, finished, offset>>

ScanInit ==
  /\ launch = 0
  /\ finished = Tile
  /\ offset = [t \in Tile |-> Zero]

StartScan ==
  /\ launch < LAUNCHES
  /\ finished = Tile
  /\ launch' = launch + 1
  /\ finished' = {}
  /\ UNCHANGED offset

FinishTile(t) ==
  /\ t \notin finished
  /\ finished' = finished \cup {t}
  /\ offset' = [offset EXCEPT ![t] = Exactly(launch, 0, t)]
  /\ UNCHANGED launch

ScanNext == StartScan \/ \E t \in Tile : FinishTile(t)

ScanSpec ==
  /\ ScanInit /\ [][ScanNext]_scanVars
  /\ WF_scanVars(ScanNext)
=============================================================================
