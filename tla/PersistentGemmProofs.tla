------------------------ MODULE PersistentGemmProofs ------------------------
(***************************************************************************)
(* Proofs about the persistent GEMM for every number of warps, slots,      *)
(* k tiles and output tiles.  They are about TimelySpec: warp 0 resets the *)
(* barriers for its next tile after the others have left the tile before,  *)
(* which the kernel does not enforce.  What it does enforce is enough for  *)
(* all the rest: no warp multiplies from a slot that is not whole or of    *)
(* another tile, nothing is in flight at exit, and the kernel implements   *)
(* the abstract pipeline.  The last part is about the schedule that gives  *)
(* the CTAs their tiles, for every grid, number of CTAs and swizzle: each  *)
(* output tile is computed exactly once.                                   *)
(***************************************************************************)
EXTENDS MCPersistentGemm, TileSchedule, TmaRingProofs

\* The output tile the ring is at, the loads issued for it, and the loads each warp is
\* done with: all of them, once it has left for the next tile.
RingTile == IF pc[0] = "top" THEN tile[0] - 1 ELSE tile[0]
Loads ==
  CASE pc[0] = "top" -> READS
    [] pc[0] = "sync" -> 0
    [] OTHER -> k_tile
Done ==
  [w \in Warp |-> IF tile[w] > RingTile THEN READS
                  ELSE IF pc[w] = "refill" THEN iter[w] + 1 ELSE iter[w]]

\* What a slot may hold.
Contents == {Torn} \cup {Loaded(t, n) : t \in 1 .. TILES, n \in 0 .. READS - 1}

States == {"top", "sync", "prologue", "wait", "mma", "refill", "epilogue", "exit"}

Shapes ==
  /\ smem \in [Stage -> [Operand -> Contents]]
  /\ pc \in [Warp -> States]
  /\ tile \in [Warp -> 1 .. TILES]
  /\ iter \in [Warp -> 0 .. READS]
  /\ k_tile \in 0 .. READS

\* Before the first tile nothing has happened to the ring; then it is where the loads
\* issued for its tile and the warps' progress have it.
Ring ==
  IF RingTile = 0
  THEN /\ RingShape /\ inflight = {}
       /\ producer = FreshProducers /\ consumer = FreshConsumers(WARPS)
  ELSE RingInv(Warp, RingTile, Loads, Done)

\* A warp works on the ring's tile or waits to begin with the next one; while warp 0
\* waits for all, all wait.
Together ==
  \A w \in Warp :
    /\ tile[w] \in {RingTile, RingTile + 1}
    /\ tile[w] = RingTile + 1 => pc[w] \in {"top", "sync"}
    /\ pc[w] \in {"top", "sync"} => iter[w] = 0
    /\ IF pc[0] = "sync" THEN tile[w] = RingTile /\ pc[w] \in {"top", "sync"}
                         ELSE pc[w] \in {"top", "sync"} => tile[w] = RingTile + 1
    /\ pc[0] = "top" /\ w = 0 => tile[w] = RingTile + 1

\* Where a warp is in its loop, and how far warp 0 is ahead with its loads.
InLoop ==
  /\ \A w \in Warp :
       /\ pc[w] \in {"wait", "mma"} => iter[w] < READS
       /\ pc[w] \in {"epilogue", "exit"} => iter[w] = READS
       /\ pc[w] = "exit" => tile[w] = TILES
       /\ pc[w] \in {"prologue", "refill"} => w = 0
       /\ pc[w] = "mma" => Landed(RingTile, Loads, iter[w])
  /\ pc[0] = "prologue" => k_tile < STAGES /\ iter[0] = 0
  /\ pc[0] = "refill" => iter[0] < NK
  /\ pc[0] \in {"wait", "mma", "refill", "epilogue", "exit"} =>
       k_tile = STAGES + (IF iter[0] <= NK THEN iter[0] ELSE NK)

IndInv == Shapes /\ Ring /\ Together /\ InLoop

(***************************************************************************)
(* What all steps need.                                                    *)
(***************************************************************************)

LEMMA Sizes ==
  /\ STAGES \in Nat \ {0} /\ NK \in Nat \ {0} /\ TILES \in Nat \ {0}
  /\ READS \in Nat /\ READS = NK + STAGES
  /\ 0 \in Warp /\ Warp # {} /\ IsFiniteSet(Warp) /\ Cardinality(Warp) = WARPS
<1>1. STAGES \in Nat \ {0} /\ NK \in Nat \ {0} /\ TILES \in Nat \ {0} /\ WARPS \in Nat \ {0}
  BY StagesAssumption, GemmAssumption
<1>2. IsFiniteSet(0 .. WARPS - 1) /\ Cardinality(0 .. WARPS - 1) = WARPS
  <2>1. WARPS - 1 \in Int /\ 0 <= WARPS - 1 /\ (WARPS - 1) - 0 + 1 = WARPS
    BY <1>1
  <2> QED BY <2>1, FS_Interval
<1>3. 0 \in 0 .. WARPS - 1 /\ NK + STAGES \in Nat
  BY <1>1
<1> QED BY <1>1, <1>2, <1>3 DEF READS, Warp

LEMMA Derived ==
  ASSUME IndInv
  PROVE  /\ RingTile \in 0 .. TILES /\ Loads \in 0 .. READS /\ Done \in [Warp -> Nat]
         /\ RingTile = 0 => pc[0] = "top"
         /\ pc[0] # "top" => RingTile \in 1 .. TILES /\ RingTile = tile[0]
<1>1. RingTile \in 0 .. TILES /\ (RingTile = 0 => pc[0] = "top")
  BY Sizes DEF IndInv, Shapes, RingTile
<1>2. pc[0] # "top" => RingTile \in 1 .. TILES /\ RingTile = tile[0]
  BY Sizes DEF IndInv, Shapes, RingTile
<1>3. Loads \in 0 .. READS
  BY Sizes DEF IndInv, Shapes, Loads
<1>4. Done \in [Warp -> Nat]
  BY Sizes DEF IndInv, Shapes, Done
<1> QED BY <1>1, <1>2, <1>3, <1>4

\* The ring is as before when neither it nor what it stands for has changed.
LEMMA RingStays ==
  ASSUME Ring, UNCHANGED <<ringVars, RingTile, Loads, Done>>
  PROVE  Ring'
BY DEF Ring, ringVars, RingInv, RingShape, SlotsUsed, SlotAfter, ProducerAfter, ConsumerAfter,
       Moving, SlotsFresh, CopiesNewest

\* Nothing is in flight once some warp is done with all loads.
LEMMA Drained ==
  ASSUME IndInv, NEW w \in Warp, Done[w] >= Loads
  PROVE  inflight = {}
<1>1. CASE RingTile = 0
  BY <1>1 DEF IndInv, Ring
<1>2. CASE RingTile # 0
  <2>1. CopiesNewest(Warp, RingTile, Loads, Done)
    BY <1>2 DEF IndInv, Ring, RingInv
  <2>2. Done[w] \in Nat /\ Loads \in Nat
    BY Derived
  <2> QED BY <2>1, <2>2 DEF CopiesNewest, Newest
<1> QED BY <1>1, <1>2

\* A warp in its loop works on the ring's tile, and what it is done with is what it
\* counts.
LEMMA WorksOnRing ==
  ASSUME IndInv, NEW w \in Warp, pc[w] \notin {"top", "sync"}
  PROVE  /\ pc[0] # "sync" /\ tile[w] = RingTile /\ RingTile \in 1 .. TILES
         /\ RingInv(Warp, RingTile, Loads, Done)
         /\ Done[w] = IF pc[w] = "refill" THEN iter[w] + 1 ELSE iter[w]
<1>1. RingTile \in 0 .. TILES
  BY Derived
<1>2. tile[w] = RingTile /\ tile[w] \in 1 .. TILES /\ pc[0] # "sync"
  BY DEF IndInv, Together, Shapes
<1>3. Done[w] = IF pc[w] = "refill" THEN iter[w] + 1 ELSE iter[w]
  BY <1>1, <1>2 DEF Done
<1> QED BY <1>1, <1>2, <1>3, Sizes DEF IndInv, Ring

(***************************************************************************)
(* The steps of a warp that leave the ring alone.                          *)
(***************************************************************************)

LEMMA InitInv == Init => IndInv
<1> SUFFICES ASSUME Init PROVE IndInv
  OBVIOUS
<1> USE Sizes
<1>1. Shapes
  BY DEF Init, RingInit, Shapes, Contents, States
<1>2. RingTile = 0 /\ RingShape
  BY DEF Init, RingInit, RingTile, RingShape, FreshProducers, FreshConsumers
<1>3. Ring /\ Together /\ InLoop
  BY <1>2 DEF Init, RingInit, Ring, Together, InLoop
<1> QED BY <1>1, <1>3 DEF IndInv

LEMMA EnterSyncKeepsInv ==
  ASSUME IndInv, NEW w \in Warp, EnterSync(w)
  PROVE  IndInv' /\ UNCHANGED <<inflight, RingTile, Loads, Done>>
<1> USE Sizes
<1>1. Shapes'
  BY DEF EnterSync, IndInv, Shapes, ringVars, States
<1>2. UNCHANGED <<ringVars, RingTile, Loads>>
  BY DEF EnterSync, IndInv, Shapes, RingTile, Loads
<1>3. Done' = Done
  BY <1>2 DEF EnterSync, IndInv, Shapes, Done
<1>4. Ring'
  BY <1>2, <1>3, RingStays DEF IndInv
<1>5. Together'
  BY <1>2 DEF EnterSync, IndInv, Shapes, Together
<1>6. InLoop'
  BY <1>2 DEF EnterSync, IndInv, Shapes, InLoop, Landed, Moving, ringVars
<1> QED BY <1>1, <1>2, <1>3, <1>4, <1>5, <1>6 DEF IndInv, ringVars

\* All warps begin with the ring's tile.
LEMMA ReleaseKeepsInv ==
  ASSUME IndInv, Release
  PROVE  IndInv' /\ UNCHANGED <<inflight, RingTile, Loads, Done>>
<1> USE Sizes
<1>1. Shapes'
  BY DEF Release, IndInv, Shapes, ringVars, States
<1>2. /\ pc[0] = "sync" /\ pc'[0] = "prologue" /\ tile' = tile /\ iter' = iter /\ k_tile' = 0
      /\ \A w \in Warp : pc[w] = "sync" /\ pc'[w] \in {"prologue", "wait"} /\ (w # 0 => pc'[w] = "wait")
      /\ \A w \in Warp : tile[w] = RingTile /\ iter[w] = 0
  BY DEF Release, IndInv, Together
<1>3. UNCHANGED <<ringVars, RingTile, Loads>>
  BY <1>2 DEF Release, RingTile, Loads
<1>4. Done' = Done
  BY <1>2, <1>3, Derived DEF Done
<1>5. Ring'
  BY <1>3, <1>4, RingStays DEF IndInv
<1>6. Together'
  BY <1>2, <1>3, Derived DEF Together
<1>7. InLoop'
  BY <1>2, <1>3 DEF InLoop
<1> QED BY <1>1, <1>3, <1>4, <1>5, <1>6, <1>7 DEF IndInv, ringVars

\* A warp starts on a load it has seen full.
LEMMA StartKeepsInv ==
  ASSUME IndInv, NEW w \in Warp, StartMma(w)
  PROVE  IndInv' /\ UNCHANGED <<inflight, RingTile, Loads, Done>>
<1> USE Sizes
<1>1. Shapes'
  BY DEF StartMma, IndInv, Shapes, ringVars, States
<1>2. UNCHANGED <<ringVars, RingTile, Loads>>
  BY DEF StartMma, IndInv, Shapes, RingTile, Loads
<1>3. Done' = Done
  BY <1>2 DEF StartMma, IndInv, Shapes, Done
<1>4. Ring'
  BY <1>2, <1>3, RingStays DEF IndInv
<1>5. Together'
  BY <1>2 DEF StartMma, IndInv, Shapes, Together
<1>6. Landed(RingTile, Loads, iter[w])
  <2>1. RingInv(Warp, RingTile, Loads, Done) /\ Done[w] = iter[w]
    BY WorksOnRing DEF StartMma
  <2>2. Loads \in Nat /\ Done \in [Warp -> Nat] /\ Full(Done[w])
    BY <2>1, Derived DEF StartMma
  <2>3. Landed(RingTile, Loads, Done[w])
    BY <2>1, <2>2, FullMeansLanded
  <2> QED BY <2>1, <2>3
<1>7. InLoop'
  BY <1>2, <1>6 DEF StartMma, IndInv, Shapes, InLoop, Landed, Moving, ringVars
<1> QED BY <1>1, <1>2, <1>3, <1>4, <1>5, <1>7 DEF IndInv, ringVars

\* A warp is done with its tile; warp 0 leaves the ring where all loads are issued.
LEMMA EpilogueKeepsInv ==
  ASSUME IndInv, NEW w \in Warp, Epilogue(w)
  PROVE  IndInv' /\ UNCHANGED <<inflight, RingTile, Loads, Done>>
<1> USE Sizes
<1>1. Shapes'
  BY DEF Epilogue, IndInv, Shapes, ringVars, States
<1>2. iter[w] = READS /\ tile[w] = RingTile /\ RingTile \in 1 .. TILES /\ pc[0] # "sync"
  BY WorksOnRing DEF Epilogue, IndInv, InLoop
<1>3. w = 0 => k_tile = READS
  BY <1>2 DEF Epilogue, IndInv, InLoop
<1>4. UNCHANGED <<ringVars, RingTile, Loads>>
  BY <1>2, <1>3 DEF Epilogue, IndInv, Shapes, RingTile, Loads
<1>5. Done' = Done
  BY <1>2, <1>4 DEF Epilogue, IndInv, Shapes, Done
<1>6. Ring'
  BY <1>4, <1>5, RingStays DEF IndInv
<1>7. Together'
  BY <1>2, <1>4 DEF Epilogue, IndInv, Shapes, Together
<1>8. InLoop'
  BY <1>2, <1>4 DEF Epilogue, IndInv, Shapes, InLoop, Landed, Moving, ringVars
<1> QED BY <1>1, <1>4, <1>5, <1>6, <1>7, <1>8 DEF IndInv, ringVars

(***************************************************************************)
(* The steps that work on the ring.                                        *)
(***************************************************************************)

\* Warp 0 initialises the barriers when all warps have left: for each of them the loads
\* of the tile before are over and nothing of them is in flight.
LEMMA ReInitKeepsInv ==
  ASSUME IndInv, ReInit, Timely
  PROVE  IndInv'
<1> USE Sizes
<1>1. Shapes'
  BY DEF ReInit, IndInv, Shapes, States
<1>2. pc[0] = "top" /\ pc'[0] = "sync" /\ UNCHANGED <<smem, inflight, tile, iter, k_tile>>
      /\ \A w \in Warp : pc[w] \in {"top", "sync"} /\ (w # 0 => pc'[w] = pc[w])
  BY DEF ReInit, Timely, AllLeft, IndInv, Shapes
<1>3. /\ Loads = READS /\ tile[0] = RingTile + 1
      /\ \A w \in Warp : tile[w] = RingTile + 1 /\ iter[w] = 0
  BY <1>2 DEF IndInv, Together, Loads
<1>4. inflight = {}
  <2>1. Done[0] = READS
    BY <1>3, Derived DEF Done
  <2> QED BY <1>3, <2>1, Drained
<1>5. RingTile' = RingTile + 1 /\ Loads' = 0 /\ RingTile' \in Nat \ {0}
  BY <1>2, <1>3, Derived DEF RingTile, Loads
<1>6. \A w \in Warp : Done'[w] = 0
  BY <1>2, <1>3, <1>5, Derived DEF Done
<1>7. RingInv(Warp, RingTile, Loads, Done)'
  <2>1. PICK t, done : t = RingTile' /\ done = Done'
    OBVIOUS
  <2>2. RingShape' /\ inflight' = {}
    BY <1>2, <1>4 DEF ReInit, FreshProducers, FreshConsumers, IndInv, Shapes, RingShape
  <2>3. /\ producer' = FreshProducers /\ consumer' = FreshConsumers(Cardinality(Warp))
        /\ \A w \in Warp : done[w] = 0
    BY <1>6, <2>1 DEF ReInit
  <2>4. RingInv(Warp, t, 0, done)'
    BY <2>2, <2>3, RingStartsNext
  <2> QED BY <1>5, <2>1, <2>4
<1>8. Ring'
  BY <1>5, <1>7 DEF Ring
<1>9. Together'
  BY <1>2, <1>3, <1>5 DEF Together
<1>10. InLoop'
  BY <1>2 DEF InLoop
<1> QED BY <1>1, <1>8, <1>9, <1>10 DEF IndInv

\* A load that is issued leaves alone what others have landed.
LEMMA IssueKeepsLanded ==
  ASSUME NEW t, NEW i \in Nat, IssueLoad(Index(i), t, i), NEW n \in Nat, Landed(t, i, n)
  PROVE  Landed(t, i + 1, n)'
<1>1. \A o \in Operand, p \in Operand : Part(t, n, o) # Part(t, i, p)
  BY PartsApart DEF Landed
<1>2. inflight' = inflight \cup {Part(t, i, p) : p \in Operand}
  BY DEF IssueLoad, Part
<1>3. Moving(t, n)' = Moving(t, n)
  BY <1>1, <1>2 DEF Moving, Part
<1> QED BY <1>3 DEF Landed

\* Warp 0's two ways to load k tile k_tile.
LEMMA LoadKeepsInv ==
  ASSUME IndInv, pc[0] \in {"prologue", "refill"}, k_tile < READS,
         IssueLoad(Index(k_tile), tile[0], k_tile), UNCHANGED <<consumer, tile>>,
         \A w \in Warp : Done[w] > k_tile - STAGES,
         k_tile' = k_tile + 1, Done' = Done, pc'[0] \in {"prologue", "wait"},
         pc' = [pc EXCEPT ![0] = pc'[0]], iter' \in [Warp -> 0 .. READS],
         \A w \in Warp : w # 0 => iter'[w] = iter[w]
  PROVE  /\ Shapes' /\ Ring' /\ Together'
         /\ \A w \in Warp : pc'[w] = "mma" => Landed(RingTile, Loads, iter[w])'
<1> USE Sizes
<1>1. /\ RingTile = tile[0] /\ RingTile \in 1 .. TILES /\ Loads = k_tile /\ Done \in [Warp -> Nat]
      /\ RingInv(Warp, RingTile, Loads, Done) /\ k_tile \in Nat
  BY WorksOnRing, Derived DEF RingTile, Loads, IndInv, Shapes
<1>2. /\ RingTile' = RingTile /\ Loads' = k_tile + 1
      /\ \A w \in Warp : w # 0 => pc'[w] = pc[w]
  BY <1>1 DEF RingTile, Loads, IndInv, Shapes
<1>3. Ring'
  <2>1. PICK t, i \in Nat, done \in [Warp -> Nat] : t = RingTile /\ i = k_tile /\ done = Done
    BY <1>1
  <2>2. RingInv(Warp, t, i + 1, done)'
    <3>1. RingInv(Warp, t, i, done) /\ IssueLoad(Index(i), t, i)
      BY <1>1, <2>1
    <3> QED BY <2>1, <3>1, IssueKeepsRing
  <2>3. t = RingTile' /\ i + 1 = Loads' /\ done = Done' /\ RingTile' # 0
    BY <1>1, <1>2, <2>1
  <2>4. RingInv(Warp, RingTile, Loads, Done)'
    BY <2>2, <2>3
  <2> QED BY <2>3, <2>4 DEF Ring
<1>4. smem' \in [Stage -> [Operand -> Contents]]
  <2>1. Index(k_tile) \in Stage /\ Torn \in Contents
    BY <1>1, UseOfRing DEF Contents
  <2> QED BY <2>1 DEF IssueLoad, IndInv, Shapes
<1>5. Shapes'
  <2>1. pc' \in [Warp -> States]
    BY DEF IndInv, Shapes, States
  <2>2. tile' \in [Warp -> 1 .. TILES] /\ k_tile' \in 0 .. READS
    BY <1>1 DEF IndInv, Shapes
  <2> QED BY <1>4, <2>1, <2>2 DEF Shapes
<1>6. Together'
  BY <1>1, <1>2 DEF IndInv, Together
<1>7. ASSUME NEW w \in Warp, pc'[w] = "mma" PROVE Landed(RingTile, Loads, iter[w])'
  <2>1. w # 0 /\ pc[w] = "mma" /\ iter'[w] = iter[w] /\ iter[w] \in Nat
    BY <1>2, <1>7 DEF IndInv, Shapes
  <2>2. PICK t, i \in Nat, n \in Nat : t = RingTile /\ i = k_tile /\ n = iter[w]
    BY <1>1, <2>1
  <2>3. Landed(t, i, n) /\ IssueLoad(Index(i), t, i)
    BY <1>1, <2>1, <2>2 DEF IndInv, InLoop
  <2>4. Landed(t, i + 1, n)'
    BY <2>3, IssueKeepsLanded
  <2> QED BY <1>2, <2>1, <2>2, <2>4
<1> QED BY <1>3, <1>5, <1>6, <1>7

LEMMA PrologueKeepsInv ==
  ASSUME IndInv, Prologue
  PROVE  /\ IndInv' /\ UNCHANGED <<RingTile, Done>> /\ Loads' = Loads + 1
         /\ IssueLoad(Index(Loads), RingTile, Loads)
<1> USE Sizes
<1>1. /\ pc[0] = "prologue" /\ k_tile \in Nat /\ k_tile < STAGES /\ iter[0] = 0
      /\ Index(k_tile) = k_tile /\ Done \in [Warp -> Nat] /\ RingTile = tile[0]
  BY Derived, UseOfRing DEF Prologue, IndInv, Shapes, InLoop
<1>2. pc'[0] = IF k_tile + 1 = STAGES THEN "wait" ELSE "prologue"
  BY DEF Prologue, IndInv, Shapes
<1>3. Done' = Done
  BY <1>1, <1>2 DEF Prologue, Done, RingTile, IndInv, Shapes
<1>4. \A w \in Warp : Done[w] > k_tile - STAGES
  BY <1>1
<1>5. /\ Shapes' /\ Ring' /\ Together'
      /\ \A w \in Warp : pc'[w] = "mma" => Landed(RingTile, Loads, iter[w])'
  BY <1>1, <1>2, <1>3, <1>4, LoadKeepsInv DEF Prologue, IndInv, Shapes
<1>6. InLoop'
  BY <1>1, <1>2, <1>5 DEF Prologue, IndInv, InLoop, Shapes
<1>7. UNCHANGED RingTile /\ Loads = k_tile /\ Loads' = k_tile + 1
  BY <1>1, <1>2 DEF Prologue, RingTile, Loads
<1> QED BY <1>1, <1>3, <1>5, <1>6, <1>7 DEF IndInv, Prologue

\* A refill waits for the release of the load a ring earlier.
LEMMA RefillKeepsInv ==
  ASSUME IndInv, Refill
  PROVE  /\ IndInv' /\ UNCHANGED <<RingTile, Done>> /\ Loads' = Loads + 1
         /\ IssueLoad(Index(Loads), RingTile, Loads)
<1> USE Sizes
<1>1. /\ pc[0] = "refill" /\ iter[0] \in Nat /\ iter[0] < NK /\ k_tile = STAGES + iter[0]
      /\ k_tile \in Nat /\ k_tile < READS /\ Done \in [Warp -> Nat] /\ Loads = k_tile
      /\ RingInv(Warp, RingTile, Loads, Done) /\ RingTile = tile[0]
  BY Derived, WorksOnRing DEF Refill, IndInv, Shapes, InLoop, Loads
<1>2. Index(k_tile) = Index(iter[0])
  <2>1. k_tile = iter[0] + STAGES
    BY <1>1
  <2> QED BY <1>1, <2>1, NextRound
<1>3. \A w \in Warp : iter[0] <= Done[w]
  BY <1>1 DEF RingInv, ReadersInside
<1>4. \A w \in Warp : Done[w] > iter[0]
  BY <1>1, <1>3, FreeMeansRead DEF Refill
<1>5. \A w \in Warp : Done[w] > k_tile - STAGES
  BY <1>1, <1>4
<1>6. pc'[0] = "wait" /\ iter'[0] = iter[0] + 1 /\ iter[0] + 1 <= NK
  BY <1>1 DEF Refill, AfterIteration, IndInv, Shapes
<1>7. Done' = Done
  BY <1>1, <1>6 DEF Refill, Done, RingTile, IndInv, Shapes
<1>8. pc' = [pc EXCEPT ![0] = pc'[0]] /\ iter' \in [Warp -> 0 .. READS]
  BY <1>1, <1>6 DEF Refill, IndInv, Shapes
<1>9. /\ Shapes' /\ Ring' /\ Together'
      /\ \A w \in Warp : pc'[w] = "mma" => Landed(RingTile, Loads, iter[w])'
  BY <1>1, <1>2, <1>5, <1>6, <1>7, <1>8, LoadKeepsInv DEF Refill, IndInv, Shapes
<1>10. InLoop'
  <2>1. ASSUME NEW w \in Warp, w # 0
        PROVE  pc'[w] = pc[w] /\ iter'[w] = iter[w] /\ tile'[w] = tile[w]
    BY <2>1 DEF Refill, IndInv, Shapes
  <2>2. k_tile' = STAGES + iter'[0] /\ iter'[0] <= NK /\ iter'[0] < READS
    BY <1>1, <1>6 DEF Refill
  <2>3. \A w \in Warp :
          /\ pc'[w] \in {"wait", "mma"} => iter'[w] < READS
          /\ pc'[w] \in {"epilogue", "exit"} => iter'[w] = READS
          /\ pc'[w] = "exit" => tile'[w] = TILES
          /\ pc'[w] \in {"prologue", "refill"} => w = 0
    BY <1>6, <2>1, <2>2 DEF IndInv, InLoop
  <2> QED BY <1>6, <1>9, <2>2, <2>3 DEF InLoop
<1>11. UNCHANGED RingTile /\ Loads' = Loads + 1
  BY <1>1, <1>6 DEF Refill, RingTile, Loads
<1> QED BY <1>1, <1>2, <1>7, <1>9, <1>10, <1>11 DEF IndInv, Refill

\* A warp is done with its load and says so.
LEMMA FinishKeepsInv ==
  ASSUME IndInv, NEW w \in Warp, FinishMma(w)
  PROVE  IndInv' /\ UNCHANGED <<inflight, RingTile, Loads>> /\ Done' = [Done EXCEPT ![w] = @ + 1]
<1> USE Sizes
<1>1. /\ pc[w] = "mma" /\ iter[w] \in Nat /\ iter[w] < READS /\ Landed(RingTile, Loads, iter[w])
      /\ pc[0] # "sync" /\ tile[w] = RingTile /\ RingTile \in 1 .. TILES
      /\ RingInv(Warp, RingTile, Loads, Done) /\ Done[w] = iter[w]
      /\ Loads \in Nat /\ Done \in [Warp -> Nat]
  BY WorksOnRing, Derived DEF FinishMma, IndInv, Shapes, InLoop
<1>2. /\ UNCHANGED <<producer, smem, inflight, tile, k_tile>> /\ ArriveConsumer(iter[w])
      /\ \A v \in Warp : v # w => pc'[v] = pc[v] /\ iter'[v] = iter[v]
      /\ \/ w = 0 /\ iter[w] < NK /\ pc'[w] = "refill" /\ iter'[w] = iter[w]
         \/ /\ ~(w = 0 /\ iter[w] < NK) /\ iter'[w] = iter[w] + 1
            /\ pc'[w] = IF iter[w] + 1 = READS THEN "epilogue" ELSE "wait"
  BY DEF FinishMma, MustRefill, AfterIteration, IndInv, Shapes
<1>3. Shapes'
  BY <1>1 DEF FinishMma, MustRefill, AfterIteration, IndInv, Shapes, States
<1>4. RingTile' = RingTile /\ Loads' = Loads
  BY <1>1, <1>2 DEF RingTile, Loads
<1>5. Done' = [Done EXCEPT ![w] = @ + 1]
  BY <1>1, <1>2, <1>4 DEF Done
<1>6. Ring'
  <2>1. PICK t, i \in Nat, done \in [Warp -> Nat] : t = RingTile /\ i = Loads /\ done = Done
    BY <1>1
  <2>2. RingInv(Warp, t, i, done) /\ Landed(t, i, done[w]) /\ ArriveConsumer(done[w])
    BY <1>1, <1>2, <2>1
  <2>3. RingInv(Warp, t, i, [done EXCEPT ![w] = @ + 1])'
    BY <1>2, <2>1, <2>2, ArriveKeepsRing
  <2>4. [done EXCEPT ![w] = @ + 1] = Done'
    BY <1>5, <2>1
  <2>5. t = RingTile' /\ i = Loads'
    BY <1>4, <2>1
  <2>6. RingInv(Warp, RingTile, Loads, Done)'
    BY <2>3, <2>4, <2>5
  <2>7. RingTile' # 0
    <3>1. RingTile # 0
      BY <1>1
    <3> QED BY <1>4, <3>1
  <2> QED BY <2>6, <2>7 DEF Ring
<1>7. Together'
  BY <1>1, <1>2, <1>4 DEF IndInv, Together
<1>8. InLoop'
  BY <1>1, <1>2, <1>4 DEF IndInv, Shapes, InLoop, Landed, Moving
<1> QED BY <1>2, <1>3, <1>4, <1>5, <1>6, <1>7, <1>8 DEF IndInv

LEMMA LandKeepsInv ==
  ASSUME IndInv, LandTma
  PROVE  IndInv' /\ UNCHANGED <<RingTile, Loads, Done>>
<1> USE Sizes
<1>1. PICK c \in inflight : Land(c)
  BY DEF LandTma
<1>2. /\ RingInv(Warp, RingTile, Loads, Done) /\ RingTile \in 1 .. TILES
      /\ Loads \in 0 .. READS /\ Done \in [Warp -> Nat]
  BY <1>1, Derived DEF IndInv, Ring
<1>3. UNCHANGED <<pc, tile, iter, k_tile, RingTile, Loads, Done>>
  BY DEF LandTma, RingTile, Loads, Done
<1>4. Ring'
  <2>1. PICK t, i \in Nat, done \in [Warp -> Nat] : t = RingTile /\ i = Loads /\ done = Done
    BY <1>2
  <2>2. RingInv(Warp, t, i, done)
    BY <1>2, <2>1
  <2>3. RingInv(Warp, t, i, done)'
    BY <1>1, <2>2, LandKeepsRing
  <2>4. RingInv(Warp, RingTile, Loads, Done)'
    BY <1>3, <2>1, <2>3
  <2> QED BY <1>2, <1>3, <2>4 DEF Ring
<1>5. smem' \in [Stage -> [Operand -> Contents]]
  <2>1. PICK n \in Newest(Loads), o \in Operand : c = Part(RingTile, n, o)
    BY <1>1, <1>2 DEF RingInv, CopiesNewest
  <2>2. c.data \in Contents
    BY <1>2, <2>1 DEF Newest, Part, Contents
  <2> QED BY <1>1, <2>2 DEF Land, IndInv, Shapes
<1>6. InLoop'
  BY <1>1, <1>3 DEF Land, IndInv, InLoop, Landed, Moving
<1> QED BY <1>3, <1>4, <1>5, <1>6 DEF IndInv, Shapes, Together

(***************************************************************************)
(* The theorems.                                                           *)
(***************************************************************************)

\* The invariant holds in every state, whatever the order of warps and copies.
THEOREM Invariance == TimelySpec => []IndInv
<1>1. IndInv /\ [Next /\ Timely]_vars => IndInv'
  <2> SUFFICES ASSUME IndInv, [Next /\ Timely]_vars PROVE IndInv'
    OBVIOUS
  <2>1. CASE UNCHANGED vars
    <3>1. UNCHANGED <<ringVars, RingTile, Loads, Done>>
      BY <2>1 DEF vars, ringVars, RingTile, Loads, Done
    <3>2. Ring'
      BY <3>1, RingStays DEF IndInv
    <3>3. Shapes' /\ Together' /\ InLoop'
      BY <2>1, <3>1 DEF vars, ringVars, IndInv, Shapes, Together, InLoop, Landed, Moving
    <3> QED BY <3>2, <3>3 DEF IndInv
  <2>2. CASE Next /\ Timely
    BY <2>2, ReleaseKeepsInv, LandKeepsInv, ReInitKeepsInv, PrologueKeepsInv, RefillKeepsInv,
       EnterSyncKeepsInv, StartKeepsInv, FinishKeepsInv, EpilogueKeepsInv DEF Next, WarpStep
  <2> QED BY <2>1, <2>2
<1> QED BY InitInv, <1>1, PTL DEF TimelySpec

\* Every variable keeps its type: no barrier ever counts below zero, over any number of
\* output tiles.
THEOREM TypeCorrect == TimelySpec => []TypeOK
<1>1. IndInv => TypeOK
  <2> USE Sizes
  <2> SUFFICES ASSUME IndInv PROVE TypeOK
    OBVIOUS
  <2> DEFINE tiles == 1 .. TILES
             ks == 0 .. READS - 1
  <2>1. \A s \in Stage, o \in Operand : smem[s][o] \in {Torn} \cup {Loaded(u, n) : u \in tiles, n \in ks}
    BY DEF IndInv, Shapes, Contents
  <2>2. CASE RingTile # 0
    <3>1. RingTile \in tiles /\ 0 .. Loads - 1 \subseteq ks /\ Loads \in Nat
      BY <2>2, Derived
    <3>2. RingInv(Warp, RingTile, Loads, Done)
      BY <2>2 DEF IndInv, Ring
    <3> HIDE DEF tiles, ks
    <3>3. RingType(Cardinality(Warp), tiles, ks)
      BY <2>1, <3>1, <3>2, RingTyped
    <3> QED BY <3>3 DEF tiles, ks, TypeOK, IndInv, Shapes, States
  <2>3. CASE RingTile = 0
    <3>1. RingType(WARPS, tiles, ks)
      <4>1. producer = FreshProducers /\ consumer = FreshConsumers(WARPS) /\ inflight = {}
        BY <2>3 DEF IndInv, Ring
      <4>2. Cardinality(Operand) = 2 /\ WARPS \in Nat \ {0}
        BY TwoOperands, GemmAssumption
      <4> HIDE DEF tiles, ks
      <4> QED BY <2>1, <4>1, <4>2 DEF RingType, FreshProducers, FreshConsumers, FreshBarrier
    <3> QED BY <3>1 DEF TypeOK, IndInv, Shapes, States
  <2> QED BY <2>2, <2>3
<1> QED BY Invariance, <1>1, PTL

\* While a warp multiplies, its slot holds both operands of its own k tile of its own
\* output tile, whole and not yet replaced.
THEOREM ReadsCorrect == TimelySpec => []ReadsRight
<1>1. IndInv => ReadsRight
  <2> SUFFICES ASSUME IndInv, NEW w \in Warp, pc[w] = "mma" PROVE Holds(iter[w], tile[w], iter[w])
    BY DEF ReadsRight
  <2>1. /\ RingInv(Warp, RingTile, Loads, Done) /\ tile[w] = RingTile /\ Done[w] = iter[w]
        /\ Landed(RingTile, Loads, iter[w]) /\ iter[w] \in Nat /\ Loads \in Nat
    BY WorksOnRing, Derived, Sizes DEF IndInv, InLoop, Shapes
  <2>2. iter[w] \in Newest(Loads)
    BY <2>1, Sizes DEF RingInv, ReadersInside, Landed, Newest
  <2> QED BY <2>1, <2>2, LandedHolds
<1> QED BY Invariance, <1>1, PTL

\* Nothing is on its way into shared memory once a warp has left its last main loop.
THEOREM Drain == TimelySpec => []DrainedAtExit
<1>1. IndInv => DrainedAtExit
  <2> SUFFICES ASSUME IndInv, NEW w \in Warp, pc[w] \in {"epilogue", "exit"} PROVE inflight = {}
    BY DEF DrainedAtExit
  <2>1. Done[w] = READS /\ Loads \in 0 .. READS
    BY WorksOnRing, Derived DEF IndInv, InLoop
  <2> QED BY <2>1, Sizes, Drained
<1> QED BY Invariance, <1>1, PTL

(***************************************************************************)
(* The refinement.  The abstract pipeline numbers the loads of all tiles   *)
(* through; the ring's tile begins at load Base.                           *)
(***************************************************************************)

Base == (RingTile - 1) * READS
Arrivals == {0} \X ((0 .. Issued - 1) \ OnItsWay)

Numbers ==
  /\ Issued = Base + Loads
  /\ \A w \in Warp : ReadsDone(w) = Base + Done[w]
  /\ \A n \in Nat : Base + n \in OnItsWay <=> Moving(RingTile, n) # {}

LEMMA BaseInside ==
  ASSUME IndInv
  PROVE  /\ Base \in Int
         /\ RingTile # 0 => Base \in Nat /\ Base + READS <= TILES * READS
<1>1. READS \in Nat /\ TILES \in Nat /\ RingTile \in 0 .. TILES
  BY Sizes, Derived
<1>2. ASSUME NEW t \in 0 .. TILES PROVE (t - 1) * READS \in Int
  BY <1>1
<1>3. ASSUME NEW t \in 1 .. TILES
      PROVE  (t - 1) * READS \in Nat /\ (t - 1) * READS + READS <= TILES * READS
  <2>1. PICK a \in Nat, b \in Nat : a = t - 1 /\ b = TILES - t
    BY <1>1
  <2>2. TILES * READS = a * READS + READS + b * READS
    <3>1. TILES = a + 1 + b
      BY <1>1, <2>1
    <3> QED BY <1>1, <3>1
  <2>3. a * READS \in Nat /\ b * READS \in Nat
    BY <1>1
  <2> QED BY <1>1, <2>1, <2>2, <2>3
<1> QED BY <1>1, <1>2, <1>3 DEF Base

LEMMA OneTileOn ==
  ASSUME NEW t \in Nat
  PROVE  (t + 1 - 1) * READS + 0 = (t - 1) * READS + READS
<1>1. READS \in Nat
  BY Sizes
<1> QED BY <1>1

LEMMA Numbering == IndInv => Numbers
<1> SUFFICES ASSUME IndInv PROVE Numbers
  OBVIOUS
<1>1. RingTile \in 0 .. TILES /\ Base \in Int /\ READS \in Nat /\ TILES \in Nat
  BY Sizes, Derived, BaseInside
<1>2. Issued = Base + Loads
  <2>1. CASE pc[0] = "top"
    <3>1. tile[0] = RingTile + 1 /\ Loads = READS /\ Issued = LoadNumber(RingTile + 1, 0)
      BY <2>1, Sizes DEF IndInv, Together, Loads, Issued
    <3> QED BY <1>1, <3>1, OneTileOn DEF LoadNumber, Base
  <2>2. CASE pc[0] # "top"
    BY <2>2, Derived DEF LoadNumber, Base, Issued, Loads
  <2> QED BY <2>1, <2>2
<1>3. ASSUME NEW w \in Warp PROVE ReadsDone(w) = Base + Done[w]
  <2>1. CASE tile[w] = RingTile + 1
    <3>1. Done[w] = READS /\ ReadsDone(w) = LoadNumber(RingTile + 1, 0)
      BY <1>1, <2>1, Derived DEF IndInv, Together, Done, ReadsDone
    <3> QED BY <1>1, <3>1, OneTileOn DEF LoadNumber, Base
  <2>2. CASE tile[w] = RingTile
    BY <1>1, <2>2 DEF Done, ReadsDone, LoadNumber, Base
  <2> QED BY <2>1, <2>2 DEF IndInv, Together
<1>4. ASSUME NEW n \in Nat PROVE Base + n \in OnItsWay <=> Moving(RingTile, n) # {}
  <2>1. ASSUME NEW c \in inflight
        PROVE  \E m \in Nat, o \in Operand :
                 c = Part(RingTile, m, o) /\ LoadNumber(c.data[2], c.data[3]) = Base + m
    <3>1. PICK m \in Newest(Loads), o \in Operand : c = Part(RingTile, m, o)
      BY <2>1 DEF IndInv, Ring, RingInv, CopiesNewest
    <3> QED BY <3>1 DEF Newest, Part, Loaded, LoadNumber, Base
  <2>2. ASSUME Base + n \in OnItsWay PROVE Moving(RingTile, n) # {}
    <3>1. PICK c \in inflight : LoadNumber(c.data[2], c.data[3]) = Base + n
      BY <2>2 DEF OnItsWay
    <3>2. PICK m \in Nat, o \in Operand : c = Part(RingTile, m, o) /\ Base + m = Base + n
      BY <2>1, <3>1
    <3> QED BY <1>1, <3>1, <3>2 DEF Moving
  <2>3. ASSUME NEW o \in Moving(RingTile, n) PROVE Base + n \in OnItsWay
    <3>1. Part(RingTile, n, o) \in inflight
      BY DEF Moving
    <3>2. LoadNumber(Part(RingTile, n, o).data[2], Part(RingTile, n, o).data[3]) = Base + n
      BY DEF Part, Loaded, LoadNumber, Base
    <3> QED BY <3>1, <3>2 DEF OnItsWay
  <2> QED BY <2>2, <2>3
<1> QED BY <1>2, <1>3, <1>4 DEF Numbers

\* The same of the next state.
LEMMA NumberingNext == IndInv' => Numbers'
BY Numbering, PTL

\* The abstract pipeline's state is what the numbers make of the kernel's.
LEMMA PipeStays ==
  ASSUME Numbers, Numbers', UNCHANGED <<inflight, Base, Loads, Done>>
  PROVE  UNCHANGED Pipe!pipeVars
<1>1. Issued' = Issued /\ \A w \in Warp : ReadsDone(w)' = ReadsDone(w)
  BY DEF Numbers
<1>2. [w \in Warp |-> ReadsDone(w)]' = [w \in Warp |-> ReadsDone(w)]
  BY <1>1
<1>3. OnItsWay' = OnItsWay
  BY DEF OnItsWay
<1> QED BY <1>1, <1>2, <1>3 DEF Pipe!pipeVars

\* A load is issued when all warps are done with the one a ring earlier.
LEMMA LoadIssues ==
  ASSUME IndInv, IndInv', UNCHANGED <<RingTile, Done>>, Loads' = Loads + 1, RingTile # 0,
         IssueLoad(Index(Loads), RingTile, Loads)
  PROVE  Pipe!Issue(0)
<1>1. Numbers /\ Numbers' /\ Base' = Base
  BY Numbering, NumberingNext DEF Base
<1>2. /\ STAGES \in Nat /\ READS \in Nat /\ Base \in Nat /\ Base + READS <= TILES * READS
      /\ Loads \in 0 .. READS /\ Loads' \in 0 .. READS /\ Done \in [Warp -> Nat]
  <2>1. Loads' \in 0 .. READS
    BY Sizes DEF IndInv, Shapes, Loads
  <2> QED BY <2>1, Sizes, Derived, BaseInside
<1>3. \A w \in Warp : Loads - Done[w] < STAGES
  <2>1. RingInv(Warp, RingTile, Loads, Done)'
    BY DEF IndInv, Ring
  <2>2. \A w \in Warp : Loads' - STAGES <= Done'[w]
    BY <2>1 DEF RingInv, ReadersInside
  <2> QED BY <1>2, <2>2
<1>4. Issued' = Issued + 1 /\ Issued \in Nat /\ Issued < TILES * READS
  <2>1. PICK whole : whole = TILES * READS
    OBVIOUS
  <2>2. whole \in Nat
    BY <1>2, <2>1, Sizes
  <2>3. Issued = Base + Loads /\ Issued' = Base + Loads + 1 /\ Base + READS <= whole
    BY <1>1, <1>2, <2>1 DEF Numbers
  <2> HIDE DEF Base
  <2>4. Issued' = Issued + 1 /\ Issued \in Nat /\ Issued < whole
    BY <1>2, <2>2, <2>3
  <2> QED BY <2>1, <2>4
<1>5. \A w \in Warp : ReadsDone(w)' = ReadsDone(w) /\ Issued - ReadsDone(w) < STAGES
  BY <1>1, <1>2, <1>3 DEF Numbers
<1>6. OnItsWay' = OnItsWay \cup {Issued}
  <2>1. inflight' = inflight \cup {Part(RingTile, Loads, o) : o \in Operand}
    BY DEF IssueLoad, Part
  <2>2. \A o \in Operand :
          LoadNumber(Part(RingTile, Loads, o).data[2], Part(RingTile, Loads, o).data[3]) = Issued
    BY <1>1 DEF Part, Loaded, LoadNumber, Base, Numbers
  <2>3. "A" \in Operand
    BY DEF Operand
  <2> QED BY <2>1, <2>2, <2>3 DEF OnItsWay
<1>7. Arrivals' = Arrivals
  BY <1>4, <1>6 DEF Arrivals
<1>8. [w \in Warp |-> ReadsDone(w)]' = [w \in Warp |-> ReadsDone(w)]
  BY <1>5
<1>9. [i \in {0} |-> Issued]' = [[i \in {0} |-> Issued] EXCEPT ![0] = @ + 1]
  BY <1>4
<1> QED BY <1>4, <1>5, <1>7, <1>8, <1>9 DEF Pipe!Issue, Arrivals

\* A load has landed when the second of its copies has.
LEMMA LandingLands ==
  ASSUME IndInv, IndInv', LandTma, UNCHANGED <<RingTile, Loads, Done>>
  PROVE  [Pipe!PipeNext]_(Pipe!pipeVars)
<1>1. PICK c \in inflight : Land(c)
  BY DEF LandTma
<1>2. Numbers /\ Numbers' /\ Base' = Base /\ RingTile # 0
  BY <1>1, Numbering, NumberingNext DEF Base, IndInv, Ring
<1>3. /\ RingInv(Warp, RingTile, Loads, Done) /\ Loads \in 0 .. READS /\ READS \in Nat
      /\ Base \in Nat /\ Base + READS <= TILES * READS
  BY <1>2, Sizes, Derived, BaseInside DEF IndInv, Ring
<1>4. PICK m \in Newest(Loads), o \in Operand : c = Part(RingTile, m, o)
  BY <1>1, <1>3 DEF RingInv, CopiesNewest
<1>5. PICK n : n = Base + m
  OBVIOUS
<1>6. m \in 0 .. Loads - 1 /\ n \in 0 .. Issued - 1 /\ n < Issued /\ n \in 0 .. TILES * READS - 1
  <2>1. PICK whole : whole = TILES * READS
    OBVIOUS
  <2>2. whole \in Nat
    BY <1>3, <2>1, Sizes
  <2>3. Issued = Base + Loads /\ Base + READS <= whole /\ m \in 0 .. Loads - 1
    BY <1>2, <1>3, <2>1 DEF Numbers, Newest
  <2> HIDE DEF Base
  <2>4. n \in 0 .. Issued - 1 /\ n < Issued /\ n \in 0 .. whole - 1
    BY <1>3, <1>5, <2>2, <2>3
  <2> QED BY <2>1, <2>3, <2>4
<1>7. LoadNumber(c.data[2], c.data[3]) = n
  BY <1>4, <1>5 DEF Part, Loaded, LoadNumber, Base
<1>8. inflight' = inflight \ {c} /\ Issued' = Issued /\ \A w \in Warp : ReadsDone(w)' = ReadsDone(w)
  BY <1>1, <1>2 DEF Land, Numbers
<1>9. n \in OnItsWay /\ OnItsWay' \subseteq OnItsWay /\ OnItsWay \subseteq OnItsWay' \cup {n}
  BY <1>7, <1>8 DEF OnItsWay
<1>10. [w \in Warp |-> ReadsDone(w)]' = [w \in Warp |-> ReadsDone(w)]
  BY <1>8
<1>11. CASE n \in OnItsWay'
  <2>1. OnItsWay' = OnItsWay
    BY <1>9, <1>11
  <2> QED BY <1>8, <1>10, <2>1 DEF Pipe!pipeVars
<1>12. CASE n \notin OnItsWay'
  <2>1. Arrivals' = Arrivals \cup {<<0, n>>} /\ <<0, n>> \notin Arrivals
    BY <1>6, <1>8, <1>9, <1>12 DEF Arrivals
  <2>2. n < [i \in {0} |-> Issued][0]
    BY <1>6
  <2>3. [i \in {0} |-> Issued]' = [i \in {0} |-> Issued]
    BY <1>8
  <2>4. Pipe!Land(0, n)
    BY <1>10, <2>1, <2>2, <2>3 DEF Pipe!Land, Arrivals
  <2> QED BY <1>6, <2>4 DEF Pipe!PipeNext
<1> QED BY <1>11, <1>12

\* A load is read when both of its copies have landed.
LEMMA FinishConsumes ==
  ASSUME IndInv, IndInv', NEW w \in Warp, FinishMma(w), UNCHANGED <<inflight, RingTile, Loads>>,
         Done' = [Done EXCEPT ![w] = @ + 1]
  PROVE  Pipe!Consume(w)
<1>1. Numbers /\ Numbers' /\ Base' = Base
  BY Numbering, NumberingNext DEF Base
<1>2. /\ RingTile # 0 /\ Done[w] \in Nat /\ Done \in [Warp -> Nat] /\ Landed(RingTile, Loads, Done[w])
      /\ Base \in Nat /\ Loads \in 0 .. READS /\ READS \in Nat
  BY Sizes, WorksOnRing, Derived, BaseInside DEF FinishMma, IndInv, InLoop
<1>3. ReadsDone(w) = Base + Done[w] /\ Issued = Base + Loads
  BY <1>1 DEF Numbers
<1>4. ReadsDone(w) \in 0 .. Issued - 1
  BY <1>2, <1>3 DEF Landed
<1>5. ReadsDone(w) \notin OnItsWay
  BY <1>1, <1>2, <1>3 DEF Landed, Numbers
<1>6. <<0, ReadsDone(w)>> \in Arrivals
  BY <1>4, <1>5 DEF Arrivals
<1>7. Issued' = Issued /\ OnItsWay' = OnItsWay
  BY <1>1 DEF Numbers, OnItsWay
<1>8. \A v \in Warp : ReadsDone(v)' = IF v = w THEN ReadsDone(v) + 1 ELSE ReadsDone(v)
  BY <1>1, <1>2 DEF Numbers
<1>9. [v \in Warp |-> ReadsDone(v)]' = [[v \in Warp |-> ReadsDone(v)] EXCEPT ![w] = @ + 1]
  BY <1>8
<1> QED BY <1>6, <1>7, <1>9 DEF Pipe!Consume, Arrivals

\* Every step of the kernel is one of the abstract pipeline or leaves it alone, across
\* all of its output tiles.
THEOREM Refinement == TimelySpec => ImplementsPipeline
<1>1. Init => Pipe!PipeInit
  <2> SUFFICES ASSUME Init PROVE Pipe!PipeInit
    OBVIOUS
  <2>1. READS \in Nat /\ 0 \in Warp
    BY Sizes
  <2>2. LoadNumber(1, 0) = 0
    BY <2>1 DEF LoadNumber
  <2>3. Issued = 0 /\ \A w \in Warp : ReadsDone(w) = 0
    BY <2>1, <2>2 DEF Init, Issued, ReadsDone
  <2>4. 0 .. Issued - 1 = {}
    BY <2>3
  <2> QED BY <2>3, <2>4 DEF Pipe!PipeInit
<1>2. IndInv /\ IndInv' /\ [Next /\ Timely]_vars => [Pipe!PipeNext]_(Pipe!pipeVars)
  <2> SUFFICES ASSUME IndInv, IndInv', [Next /\ Timely]_vars PROVE [Pipe!PipeNext]_(Pipe!pipeVars)
    OBVIOUS
  <2>1. Numbers /\ Numbers'
    BY Numbering, NumberingNext
  <2>2. ASSUME UNCHANGED <<inflight, RingTile, Loads, Done>> PROVE UNCHANGED Pipe!pipeVars
    BY <2>1, <2>2, PipeStays DEF Base
  <2>3. CASE UNCHANGED vars
    BY <2>2, <2>3 DEF vars, ringVars, RingTile, Loads, Done
  <2>4. CASE ReInit
    <3>1. Issued' = Issued
      BY <2>4, Sizes DEF ReInit, IndInv, Shapes, Issued
    <3>2. \A w \in Warp : ReadsDone(w)' = ReadsDone(w)
      BY <2>4 DEF ReInit, IndInv, Shapes, ReadsDone
    <3>3. [w \in Warp |-> ReadsDone(w)]' = [w \in Warp |-> ReadsDone(w)]
      BY <3>2
    <3>4. OnItsWay' = OnItsWay
      BY <2>4 DEF ReInit, OnItsWay
    <3> QED BY <3>1, <3>3, <3>4 DEF Pipe!pipeVars
  <2>5. CASE Prologue \/ Refill
    <3>1. RingTile # 0
      BY <2>5, Derived DEF Prologue, Refill
    <3>2. Pipe!Issue(0)
      BY <2>5, <3>1, PrologueKeepsInv, RefillKeepsInv, LoadIssues
    <3> QED BY <3>2 DEF Pipe!PipeNext
  <2>6. CASE LandTma
    BY <2>6, LandKeepsInv, LandingLands
  <2>7. ASSUME NEW w \in Warp, FinishMma(w) PROVE Pipe!PipeNext
    <3>1. Pipe!Consume(w)
      BY <2>7, FinishKeepsInv, FinishConsumes
    <3> QED BY <3>1 DEF Pipe!PipeNext
  <2>8. CASE Release \/ \E w \in Warp : EnterSync(w) \/ StartMma(w) \/ Epilogue(w)
    BY <2>2, <2>8, ReleaseKeepsInv, EnterSyncKeepsInv, StartKeepsInv, EpilogueKeepsInv
  <2> QED BY <2>3, <2>4, <2>5, <2>6, <2>7, <2>8 DEF Next, WarpStep
<1> QED BY Invariance, <1>1, <1>2, PTL DEF TimelySpec, ImplementsPipeline, Pipe!PipeSpec

-----------------------------------------------------------------------------
\* A cell's number is below rows * columns and gives the cell back.
LEMMA NumberOfCell ==
  ASSUME NEW m \in Nat, NEW n \in Nat \ {0}, NEW q \in 0 .. m - 1, NEW r \in 0 .. n - 1
  PROVE  /\ n * q + r \in 0 .. m * n - 1
         /\ (n * q + r) \div n = q /\ (n * q + r) % n = r
BY SMTT(30)

\* A number below rows * columns is that of a cell.
LEMMA CellOfNumber ==
  ASSUME NEW m \in Nat, NEW n \in Nat \ {0}, NEW id \in 0 .. m * n - 1
  PROVE  /\ id \in Nat /\ id = n * (id \div n) + (id % n)
         /\ id \div n \in 0 .. m - 1 /\ id % n \in 0 .. n - 1
BY SMTT(30)

-----------------------------------------------------------------------------
(* The schedule: tile_coord is a bijection *)

\* What the host guarantees the kernel.
Launched ==
  /\ num_tiles_m \in Nat \ {0} /\ num_tiles_n \in Nat \ {0}
  /\ mode \in {RowMajor, Swizzled}
  /\ CheckSwizzle(num_tiles_m, num_tiles_n, mode)

\* The number of the tile at a place: the inverse of TileCoord.
TileAt(p) ==
  IF mode = RowMajor
  THEN num_tiles_n * p[1] + p[2]
  ELSE SWIZ * (num_tiles_n * (p[1] \div SWIZ) + p[2]) + (p[1] % SWIZ)

\* Where the swizzle is allowed the rows come in whole groups.
LEMMA WholeGroups ==
  ASSUME Launched, mode = Swizzled
  PROVE  \E M \in Nat : num_tiles_m = SWIZ * M /\ num_tiles = (M * num_tiles_n) * SWIZ
<1> DEFINE M == num_tiles_m \div SWIZ
<1>1. num_tiles_m % SWIZ = 0
  BY DEF Launched, CheckSwizzle, RowMajor, Swizzled
<1>2. M \in Nat /\ num_tiles_m = SWIZ * M + 0
  BY <1>1, DivMod, ScheduleAssumption DEF Launched
<1> HIDE DEF M
<1>3. num_tiles_m = SWIZ * M
  BY <1>2, ScheduleAssumption
<1>4. (SWIZ * M) * num_tiles_n = (M * num_tiles_n) * SWIZ
  BY <1>2, ScheduleAssumption DEF Launched
<1> QED BY <1>2, <1>3, <1>4 DEF num_tiles

\* Every tile number is that of a place of the grid.
LEMMA CoordInGrid ==
  ASSUME Launched, NEW id \in 0 .. num_tiles - 1
  PROVE  TileCoord(id) \in Grid /\ TileAt(TileCoord(id)) = id
<1> DEFINE n == num_tiles_n
<1> USE ScheduleAssumption
<1>1. CASE mode = RowMajor
  <2>1. /\ id = n * (id \div n) + (id % n)
        /\ id \div n \in 0 .. num_tiles_m - 1 /\ id % n \in 0 .. n - 1
    BY CellOfNumber DEF Launched, num_tiles
  <2> QED BY <1>1, <2>1 DEF TileCoord, TileAt, Grid
<1>2. CASE mode = Swizzled
  <2> DEFINE g == id \div SWIZ
             w == id % SWIZ
             q == g \div n
             r == g % n
  <2>1. PICK M \in Nat : num_tiles_m = SWIZ * M /\ num_tiles = (M * n) * SWIZ
    BY <1>2, WholeGroups
  <2>2. M * n \in Nat /\ n \in Nat \ {0}
    BY DEF Launched
  <2>3. id = SWIZ * g + w /\ g \in 0 .. M * n - 1 /\ w \in 0 .. SWIZ - 1
    <3>1. id \in 0 .. (M * n) * SWIZ - 1
      BY <2>1
    <3> QED BY <2>2, <3>1, CellOfNumber
  <2>4. g = n * q + r /\ q \in 0 .. M - 1 /\ r \in 0 .. n - 1
    BY <2>2, <2>3, CellOfNumber
  <2> HIDE DEF g, w, q, r
  <2>5. /\ SWIZ * q + w \in 0 .. M * SWIZ - 1
        /\ (SWIZ * q + w) \div SWIZ = q /\ (SWIZ * q + w) % SWIZ = w
    <3>1. q \in 0 .. M - 1
      BY <2>4
    <3>2. w \in 0 .. SWIZ - 1
      BY <2>3
    <3> QED BY <3>1, <3>2, NumberOfCell
  <2>6. M * SWIZ = num_tiles_m /\ q * SWIZ = SWIZ * q
    BY <2>1, <2>4
  <2>7. TileCoord(id) = <<SWIZ * q + w, r>>
    BY <1>2, <2>6 DEF TileCoord, RowMajor, Swizzled, g, w, q, r
  <2>8. TileAt(<<SWIZ * q + w, r>>) = SWIZ * g + w
    BY <1>2, <2>4, <2>5 DEF TileAt, RowMajor, Swizzled
  <2> QED BY <2>3, <2>4, <2>5, <2>6, <2>7, <2>8 DEF Grid
<1> QED BY <1>1, <1>2 DEF Launched

\* Every place of the grid is that of a tile number.
LEMMA GridHasNumbers ==
  ASSUME Launched, NEW p \in Grid
  PROVE  TileAt(p) \in 0 .. num_tiles - 1 /\ TileCoord(TileAt(p)) = p
<1> DEFINE n == num_tiles_n
           by == p[1]
           bx == p[2]
<1> USE ScheduleAssumption
<1>0. by \in 0 .. num_tiles_m - 1 /\ bx \in 0 .. n - 1 /\ p = <<by, bx>>
  BY DEF Grid
<1> HIDE DEF by, bx
<1>1. CASE mode = RowMajor
  <2>1. /\ n * by + bx \in 0 .. num_tiles_m * n - 1
        /\ (n * by + bx) \div n = by /\ (n * by + bx) % n = bx
    BY <1>0, NumberOfCell DEF Launched
  <2> QED BY <1>0, <1>1, <2>1 DEF TileCoord, TileAt, num_tiles
<1>2. CASE mode = Swizzled
  <2> DEFINE q == by \div SWIZ
             w == by % SWIZ
             g == n * q + bx
  <2>1. PICK M \in Nat : num_tiles_m = SWIZ * M /\ num_tiles = (M * n) * SWIZ
    BY <1>2, WholeGroups
  <2>2. M * n \in Nat /\ n \in Nat \ {0}
    BY DEF Launched
  <2>3. by = SWIZ * q + w /\ q \in 0 .. M - 1 /\ w \in 0 .. SWIZ - 1
    <3>1. by \in 0 .. M * SWIZ - 1
      BY <1>0, <2>1
    <3> QED BY <3>1, CellOfNumber
  <2> HIDE DEF q, w
  <2>4. g \in 0 .. M * n - 1 /\ g \div n = q /\ g % n = bx
    BY <1>0, <2>2, <2>3, NumberOfCell
  <2> HIDE DEF g
  <2>5. /\ SWIZ * g + w \in 0 .. (M * n) * SWIZ - 1
        /\ (SWIZ * g + w) \div SWIZ = g /\ (SWIZ * g + w) % SWIZ = w
    BY <2>2, <2>3, <2>4, NumberOfCell
  <2>6. TileAt(p) = SWIZ * g + w
    BY <1>0, <1>2 DEF TileAt, RowMajor, Swizzled, g, q, w
  <2>7. TileCoord(SWIZ * g + w) = <<q * SWIZ + w, bx>>
    BY <1>2, <2>4, <2>5 DEF TileCoord, RowMajor, Swizzled
  <2>8. q * SWIZ + w = by
    BY <2>3
  <2> QED BY <1>0, <2>1, <2>5, <2>6, <2>7, <2>8
<1> QED BY <1>1, <1>2 DEF Launched

-----------------------------------------------------------------------------
(* The schedule: its invariant *)

\* The inductive invariant holds in every reachable state.
THEOREM ScheduleInvariance == ScheduleSpec => []ScheduleInv
<1> USE ScheduleAssumption
<1>1. ScheduleInit => ScheduleInv
  <2> SUFFICES ASSUME ScheduleInit PROVE ScheduleInv
    OBVIOUS
  <2>1. \A c \in CTA : c \in Nat /\ tile_id[c] = c /\ c % CTAS = c
    BY SmallMod DEF ScheduleInit, CTA
  <2>2. {i \in 0 .. num_tiles - 1 : i < tile_id[i % CTAS]} = {}
    <3> SUFFICES ASSUME NEW i \in 0 .. num_tiles - 1, i < tile_id[i % CTAS] PROVE FALSE
      OBVIOUS
    <3>1. i \in Nat
      OBVIOUS
    <3>2. i % CTAS \in CTA /\ tile_id[i % CTAS] = i % CTAS
      BY <3>1, <2>1, DivMod DEF CTA
    <3>3. i < CTAS
      BY <3>1, <3>2 DEF CTA
    <3> QED BY <3>1, <3>2, <3>3, SmallMod
  <2>3. /\ num_tiles_m \in Nat \ {0} /\ num_tiles_n \in Nat \ {0} /\ mode \in {RowMajor, Swizzled}
        /\ CheckSwizzle(num_tiles_m, num_tiles_n, mode) /\ written = {}
    BY DEF ScheduleInit
  <2>4. tile_id \in [CTA -> Nat]
    BY <2>1 DEF ScheduleInit
  <2> QED BY <2>1, <2>2, <2>3, <2>4 DEF ScheduleInv
<1>2. ScheduleInv /\ [ScheduleNext]_scheduleVars => ScheduleInv'
  <2> SUFFICES ASSUME ScheduleInv, [ScheduleNext]_scheduleVars PROVE ScheduleInv'
    OBVIOUS
  <2>1. ASSUME NEW c \in CTA, Take(c) PROVE ScheduleInv'
    <3> DEFINE own(i) == i % CTAS
    <3>1. /\ UNCHANGED <<num_tiles_m, num_tiles_n, mode>>
          /\ tile_id' = [tile_id EXCEPT ![c] = @ + CTAS]
          /\ tile_id[c] \in 0 .. num_tiles - 1 /\ tile_id[c] % CTAS = c
          /\ tile_id \in [CTA -> Nat] /\ num_tiles \in Nat
      BY <2>1 DEF Take, ScheduleInv, num_tiles
    <3>2. tile_id' \in [CTA -> Nat]
      BY <3>1
    <3>3. \A d \in CTA : tile_id'[d] % CTAS = d
      <4>1. tile_id[c] + CTAS \in Nat /\ (tile_id[c] + CTAS) % CTAS = tile_id[c] % CTAS
        <5> DEFINE q == tile_id[c] \div CTAS
                   r == tile_id[c] % CTAS
        <5>1. q \in Nat /\ r \in 0 .. CTAS - 1 /\ tile_id[c] = CTAS * q + r
          BY <3>1, DivMod
        <5> HIDE DEF q, r
        <5>2. CTAS * (q + 1) = CTAS * q + CTAS
          BY <5>1
        <5>3. tile_id[c] + CTAS = CTAS * (q + 1) + r
          BY <5>1, <5>2
        <5>4. (CTAS * (q + 1) + r) % CTAS = r
          BY <5>1, DivModUnique
        <5> QED BY <3>1, <5>3, <5>4 DEF r
      <4> QED BY <3>1, <4>1 DEF ScheduleInv
    <3>4. {i \in 0 .. num_tiles - 1 : i < tile_id'[own(i)]}
            = {i \in 0 .. num_tiles - 1 : i < tile_id[own(i)]} \cup {tile_id[c]}
      <4> SUFFICES ASSUME NEW i \in 0 .. num_tiles - 1
                   PROVE  i < tile_id'[own(i)] <=> i < tile_id[own(i)] \/ i = tile_id[c]
        BY <3>1
      <4>1. i \in Nat /\ own(i) \in CTA
        BY DivMod DEF CTA
      <4>2. CASE own(i) # c
        BY <3>1, <4>1, <4>2
      <4>3. CASE own(i) = c
        <5>1. tile_id'[c] = tile_id[c] + CTAS
          BY <3>1
        <5>2. tile_id[c] < i => ~(i < tile_id[c] + CTAS)
          BY <3>1, <4>1, <4>3, ModsDiffer
        <5> QED BY <3>1, <4>1, <4>3, <5>1, <5>2
      <4> QED BY <4>2, <4>3
    <3>5. written' = {TileCoord(id) : id \in {i \in 0 .. num_tiles - 1 : i < tile_id[own(i)]}}
                       \cup {TileCoord(tile_id[c])}
      BY <2>1 DEF Take, ScheduleInv
    <3>6. (\A id : TileCoord(id)' = TileCoord(id)) /\ num_tiles' = num_tiles
      BY <3>1 DEF TileCoord, num_tiles
    <3>7. written' = {TileCoord(id) : id \in {i \in 0 .. num_tiles - 1 : i < tile_id'[own(i)]}}
      BY <3>4, <3>5
    <3>8. written' = {TileCoord(id) : id \in {i \in 0 .. num_tiles - 1 : i < tile_id[own(i)]}}'
      BY <3>6, <3>7
    <3> QED BY <3>1, <3>2, <3>3, <3>8 DEF ScheduleInv, CheckSwizzle
  <2>2. CASE UNCHANGED scheduleVars
    BY <2>2 DEF scheduleVars, ScheduleInv, CheckSwizzle, TileCoord, num_tiles
  <2> QED BY <2>1, <2>2 DEF ScheduleNext
<1> QED BY <1>1, <1>2, PTL DEF ScheduleSpec

\* Nothing outside the output is ever written.
THEOREM ScheduleTyped == ScheduleSpec => []ScheduleTypeOK
<1>1. ScheduleInv => ScheduleTypeOK
  <2> SUFFICES ASSUME ScheduleInv PROVE ScheduleTypeOK
    OBVIOUS
  <2>1. Launched
    BY DEF ScheduleInv, Launched
  <2>2. written \subseteq Grid
    BY <2>1, CoordInGrid DEF ScheduleInv
  <2> QED BY <2>2 DEF ScheduleInv, ScheduleTypeOK
<1> QED BY ScheduleInvariance, <1>1, PTL

\* When the CTAs are done, no tile is missing.
THEOREM ScheduleComplete == ScheduleSpec => []NothingMissing
<1>1. ScheduleInv => NothingMissing
  <2> SUFFICES ASSUME ScheduleInv, \A c \in CTA : tile_id[c] >= num_tiles PROVE written = Grid
    BY DEF NothingMissing
  <2>1. Launched /\ num_tiles \in Nat /\ tile_id \in [CTA -> Nat]
    BY DEF ScheduleInv, Launched, num_tiles
  <2>2. \A i \in 0 .. num_tiles - 1 : i < tile_id[i % CTAS]
    <3> SUFFICES ASSUME NEW i \in 0 .. num_tiles - 1 PROVE i < tile_id[i % CTAS]
      OBVIOUS
    <3>1. i \in Nat /\ i % CTAS \in CTA
      BY ScheduleAssumption, DivMod DEF CTA
    <3>2. tile_id[i % CTAS] \in Nat /\ tile_id[i % CTAS] >= num_tiles
      BY <3>1, <2>1
    <3> QED BY <2>1, <3>1, <3>2
  <2>3. written = {TileCoord(id) : id \in 0 .. num_tiles - 1}
    BY <2>2 DEF ScheduleInv
  <2>4. \A p \in Grid : p \in written
    BY <2>1, <2>3, GridHasNumbers
  <2>5. \A p \in written : p \in Grid
    BY <2>1, <2>3, CoordInGrid
  <2> QED BY <2>4, <2>5
<1> QED BY ScheduleInvariance, <1>1, PTL

\* No tile is computed twice.
THEOREM ScheduledOnce == ScheduleSpec => WritesOnce
<1>1. ScheduleInv => \A c \in CTA : Take(c) => TileCoord(tile_id[c]) \in Grid \ written
  <2> SUFFICES ASSUME ScheduleInv, NEW c \in CTA, Take(c)
               PROVE  TileCoord(tile_id[c]) \in Grid \ written
    OBVIOUS
  <2>1. /\ Launched /\ tile_id[c] \in 0 .. num_tiles - 1 /\ tile_id[c] % CTAS = c
    BY DEF ScheduleInv, Launched, Take, num_tiles
  <2>2. TileCoord(tile_id[c]) \in Grid
    BY <2>1, CoordInGrid
  <2>3. ASSUME NEW i \in 0 .. num_tiles - 1, i < tile_id[i % CTAS],
               TileCoord(i) = TileCoord(tile_id[c])
        PROVE  FALSE
    <3>1. i = tile_id[c]
      BY <2>1, <2>3, CoordInGrid
    <3> QED BY <2>1, <2>3, <3>1
  <2> QED BY <2>2, <2>3 DEF ScheduleInv
<1>2. ScheduleInv /\ [ScheduleNext]_scheduleVars
        => [\A c \in CTA : Take(c) => TileCoord(tile_id[c]) \in Grid \ written]_scheduleVars
  BY <1>1
<1> QED BY ScheduleInvariance, <1>2, PTL DEF ScheduleSpec, WritesOnce
=============================================================================
