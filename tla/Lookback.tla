------------------------------ MODULE Lookback ------------------------------
(***************************************************************************)
(* The single-pass scan with decoupled lookback of scan/v5 (v6 keeps the   *)
(* same protocol).  One thread block per tile.  A block scans its own tile,*)
(* publishes the tile's total as AGGREGATE, then its warp 0 walks windows  *)
(* of WARP predecessors backwards until one of them shows a PREFIX, and    *)
(* publishes its own PREFIX.  The lanes of a window load their slots one   *)
(* by one, so the slots of other blocks may change between two loads.      *)
(***************************************************************************)
EXTENDS Contributions, Integers

CONSTANTS WARP,      \* lanes of a warp, the width of a lookback window
          RESIDENT   \* blocks the GPU keeps resident at a time

ASSUME WarpAssumption == WARP \in Nat \ {0}
ASSUME ResidentAssumption == RESIDENT \in Nat \ {0}

FLAG_INVALID == 0
FLAG_AGGREGATE == 1
FLAG_PREFIX == 2

Lane == 0 .. WARP - 1

\* A TileState is one aligned 8-byte word: value and flag change together.
TileState == [value : Value, flag : {FLAG_INVALID, FLAG_AGGREGATE, FLAG_PREFIX}]
Slot(v, f) == [value |-> v, flag |-> f]
\* Mutant: cudaMemset fills the flags with ones instead of zeros.
ClearedWithOnes == Slot(Zero, -1)
Cleared == Slot(Zero, FLAG_INVALID)
BeforeArray == Slot(Zero, FLAG_PREFIX)   \* what a lane sees left of tile 0
Unread == [value |-> Zero, flag |-> -1]  \* the lane has yet to load this round

VARIABLES launch,     \* launches started so far
          pc,         \* where the block of each tile is
          state,      \* the global array of TileState
          window,     \* block-local: first tile of the window being polled
          seen,       \* block-local: what each lane loaded in this round
          exclusive,  \* block-local: the sum gathered so far
          out         \* the offset the block added to its tile

vars == <<launch, pc, state, window, seen, exclusive, out>>

Dispatched == {t \in Tile : pc[t] \notin {"idle", "pending", "done"}}

\* The slots a window starting at w has to load; lanes left of tile 0 load nothing.
FreshWindow(w) == [l \in Lane |-> IF w + l < 0 THEN BeforeArray ELSE Unread]

Total(t) == Exactly(launch, t, t + 1)

Init ==
  /\ launch = 0
  /\ pc = [t \in Tile |-> "idle"]
  /\ state = [t \in Tile |-> Cleared]
  /\ window = [t \in Tile |-> 0]
  /\ seen = [t \in Tile |-> [l \in Lane |-> Unread]]
  /\ exclusive = [t \in Tile |-> Zero]
  /\ out = [t \in Tile |-> Zero]

\* Mutant: the flags of the launch before are not cleared.
LaunchWithoutMemset ==
  /\ launch < LAUNCHES
  /\ \A t \in Tile : pc[t] \in {"idle", "done"}
  /\ launch' = launch + 1
  /\ pc' = [t \in Tile |-> "pending"]
  /\ UNCHANGED <<state, window, seen, exclusive, out>>

\* Mutant: the launches are not ordered behind each other.
LaunchOverlapping ==
  /\ launch < LAUNCHES
  /\ launch' = launch + 1
  /\ state' = [t \in Tile |-> Cleared]
  /\ pc' = [t \in Tile |-> "pending"]
  /\ UNCHANGED <<window, seen, exclusive, out>>

\* The host clears the flags and launches the kernel again; both are ordered in
\* one stream, behind every block of the launch before.
Launch ==
  /\ launch < LAUNCHES
  /\ \A t \in Tile : pc[t] \in {"idle", "done"}
  /\ launch' = launch + 1
  /\ state' = [t \in Tile |-> Cleared]
  /\ pc' = [t \in Tile |-> "pending"]
  /\ UNCHANGED <<window, seen, exclusive, out>>

\* Mutant: blocks start in any order.
DispatchAnyOrder(t) ==
  /\ pc[t] = "pending"
  /\ Cardinality(Dispatched) < RESIDENT
  /\ pc' = [pc EXCEPT ![t] = "scan"]
  /\ UNCHANGED <<launch, state, window, seen, exclusive, out>>

\* The GPU starts blocks in blockIdx order as residency allows.
Dispatch(t) ==
  /\ pc[t] = "pending"
  /\ \A u \in Tile : u < t => pc[u] # "pending"
  /\ Cardinality(Dispatched) < RESIDENT
  /\ pc' = [pc EXCEPT ![t] = "scan"]
  /\ UNCHANGED <<launch, state, window, seen, exclusive, out>>

\* Mutant: tile 0 publishes its AGGREGATE like every other tile.
SkipLookbackAfterAggregate(t) ==
  /\ pc[t] = "scan"
  /\ t = 0
  /\ pc' = [pc EXCEPT ![t] = "publish"]
  /\ state' = [state EXCEPT ![t] = Slot(Total(t), FLAG_AGGREGATE)]
  /\ exclusive' = [exclusive EXCEPT ![t] = Zero]
  /\ UNCHANGED <<launch, window, seen, out>>

\* Tile 0 has nobody before it: it publishes no AGGREGATE and does not look back.
SkipLookback(t) ==
  /\ pc[t] = "scan"
  /\ t = 0
  /\ pc' = [pc EXCEPT ![t] = "publish"]
  /\ exclusive' = [exclusive EXCEPT ![t] = Zero]
  /\ UNCHANGED <<launch, state, window, seen, out>>

PublishAggregate(t) ==
  /\ pc[t] = "scan"
  /\ t > 0
  /\ pc' = [pc EXCEPT ![t] = "lookback"]
  /\ state' = [state EXCEPT ![t] = Slot(Total(t), FLAG_AGGREGATE)]
  /\ window' = [window EXCEPT ![t] = t - WARP]
  /\ seen' = [seen EXCEPT ![t] = FreshWindow(t - WARP)]
  /\ exclusive' = [exclusive EXCEPT ![t] = Zero]
  /\ UNCHANGED <<launch, out>>

\* One lane's 8-byte volatile load.
LoadLane(t, l) ==
  /\ pc[t] = "lookback"
  /\ seen[t][l] = Unread
  /\ seen' = [seen EXCEPT ![t][l] = state[window[t] + l]]
  /\ UNCHANGED <<launch, pc, state, window, exclusive, out>>

WindowLoaded(t) == pc[t] = "lookback" /\ \A l \in Lane : seen[t][l] # Unread
\* Mutant: the lanes do not wait for every slot of the window.
WindowTakenAsIs(t) == WindowLoaded(t)
WindowValid(t) == WindowLoaded(t) /\ \A l \in Lane : seen[t][l].flag # FLAG_INVALID
PrefixLanes(t) == {l \in Lane : seen[t][l].flag = FLAG_PREFIX}

\* Mutant: the compiler keeps the first load and the loop never loads again.
RetryWithoutReload(t) ==
  /\ WindowLoaded(t) /\ ~WindowValid(t)
  /\ UNCHANGED vars

\* __any_sync found an INVALID slot: every lane loads again.
Retry(t) ==
  /\ WindowLoaded(t) /\ ~WindowValid(t)
  /\ seen' = [seen EXCEPT ![t] = FreshWindow(window[t])]
  /\ UNCHANGED <<launch, pc, state, window, exclusive, out>>

\* Mutant: the lane with the PREFIX itself is left out.
GatheredAboveCut(t, cut) ==
  Plus(exclusive[t], SumOver({l \in Lane : l > cut}, [l \in Lane |-> seen[t][l].value]))

\* The lanes from cut upwards are added to what earlier windows gave.
Gathered(t, cut) ==
  Plus(exclusive[t], SumOver({l \in Lane : l >= cut}, [l \in Lane |-> seen[t][l].value]))

\* No PREFIX in the window: take all of it and move one window back.
MoveWindow(t) ==
  /\ WindowValid(t) /\ PrefixLanes(t) = {}
  /\ exclusive' = [exclusive EXCEPT ![t] = Gathered(t, 0)]
  /\ window' = [window EXCEPT ![t] = @ - WARP]
  /\ seen' = [seen EXCEPT ![t] = FreshWindow(window[t] - WARP)]
  /\ UNCHANGED <<launch, pc, state, out>>

\* The last PREFIX of the window already covers everything before it.
Resolve(t) ==
  /\ WindowValid(t)
  /\ \E cut \in PrefixLanes(t) :
       /\ \A l \in PrefixLanes(t) : l <= cut
       /\ exclusive' = [exclusive EXCEPT ![t] = Gathered(t, cut)]
  /\ pc' = [pc EXCEPT ![t] = "publish"]
  /\ UNCHANGED <<launch, state, window, seen, out>>

PublishPrefix(t) ==
  /\ pc[t] = "publish"
  /\ pc' = [pc EXCEPT ![t] = "write"]
  /\ state' = [state EXCEPT ![t] = Slot(Plus(exclusive[t], Total(t)), FLAG_PREFIX)]
  /\ UNCHANGED <<launch, window, seen, exclusive, out>>

\* Behind the barrier all threads of the block add the offset and write out.
WriteOut(t) ==
  /\ pc[t] = "write"
  /\ pc' = [pc EXCEPT ![t] = "done"]
  /\ out' = [out EXCEPT ![t] = exclusive[t]]
  /\ UNCHANGED <<launch, state, window, seen, exclusive>>

BlockStep(t) ==
  \/ SkipLookback(t) \/ PublishAggregate(t)
  \/ \E l \in Lane : LoadLane(t, l)
  \/ Retry(t) \/ MoveWindow(t) \/ Resolve(t)
  \/ PublishPrefix(t) \/ WriteOut(t)

Next == Launch \/ \E t \in Tile : Dispatch(t) \/ BlockStep(t)

Spec == Init /\ [][Next]_vars

\* Every block that is resident keeps running, the GPU fills a free place and
\* the host runs its loop of launches.
FairSpec ==
  /\ Spec
  /\ WF_vars(Launch)
  /\ \A t \in Tile : WF_vars(Dispatch(t)) /\ WF_vars(BlockStep(t))

-----------------------------------------------------------------------------
(* Properties *)

\* The shape of every variable of the kernel and of the host's loop.
TypeOK ==
  /\ launch \in 0 .. LAUNCHES
  /\ pc \in [Tile -> {"idle", "pending", "scan", "lookback", "publish", "write", "done"}]
  /\ state \in [Tile -> TileState]
  /\ window \in [Tile -> Int]
  /\ seen \in [Tile -> [Lane -> TileState \cup {Unread}]]
  /\ exclusive \in [Tile -> Value]
  /\ out \in [Tile -> Value]

\* Whatever a block may read is right at the moment it reads it: an AGGREGATE
\* slot counts its own tile once, a PREFIX slot counts every tile up to its own
\* once, and both count this launch only, never one whose flags should be gone.
PublishedRight ==
  \A t \in Tile :
    /\ state[t].flag = FLAG_AGGREGATE => state[t].value = Exactly(launch, t, t + 1)
    /\ state[t].flag = FLAG_PREFIX => state[t].value = Exactly(launch, 0, t + 1)

\* A finished tile has been offset by every tile before it, once each, whichever
\* mix of AGGREGATE and PREFIX slots its lanes happened to see.
OffsetRight == \A t \in Tile : pc[t] = "done" => out[t] = Exactly(launch, 0, t)

\* The walk ends inside the array: no window lies wholly before tile 0, though
\* nothing in the loop bounds it (it rests on tile 0 never showing an AGGREGATE).
WalkEndsAtHead == \A t \in Tile : pc[t] = "lookback" => window[t] + WARP > 0

\* The inductive invariant: what each slot holds by the place of its block, ...
SlotByPc ==
  \A t \in Tile :
    /\ pc[t] \in {"idle", "pending", "scan"} => state[t] = Cleared
    /\ pc[t] \in {"lookback", "publish"} =>
         state[t] = IF t = 0 THEN Cleared ELSE Slot(Total(t), FLAG_AGGREGATE)
    /\ pc[t] \in {"write", "done"} => state[t] = Slot(Exactly(launch, 0, t + 1), FLAG_PREFIX)

\* ... what a lane that watches tile p may hold, however old its load is, ...
MayHold(p) ==
  IF p < 0 THEN {BeforeArray}
  ELSE {Unread, Cleared, Slot(Exactly(launch, 0, p + 1), FLAG_PREFIX)}
       \cup (IF p = 0 THEN {} ELSE {Slot(Total(p), FLAG_AGGREGATE)})

\* ... and how much of the prefix the block has gathered.
WalkByWindow ==
  \A t \in Tile :
    /\ pc[t] = "lookback" =>
         /\ t > 0
         /\ 0 < window[t] + WARP /\ window[t] + WARP <= t
         /\ exclusive[t] = Exactly(launch, window[t] + WARP, t)
         /\ \A l \in Lane : seen[t][l] \in MayHold(window[t] + l)
    /\ pc[t] \in {"publish", "write"} => exclusive[t] = Exactly(launch, 0, t)

IndInv == TypeOK /\ SlotByPc /\ WalkByWindow /\ OffsetRight

\* Each launch of the host's loop finishes every tile: no block spins for ever on
\* a predecessor that cannot run.
EveryLaunchFinishes == \A n \in 1 .. LAUNCHES : <>(launch = n /\ \A t \in Tile : pc[t] = "done")

\* The kernel implements the global exclusive scan.
Scan == INSTANCE PrefixScan WITH
          finished <- {t \in Tile : pc[t] \in {"idle", "done"}},
          offset <- out
ScanSafety == Scan!ScanInit /\ [][Scan!ScanNext]_(Scan!scanVars)
ScanFull == Scan!ScanSpec
=============================================================================
