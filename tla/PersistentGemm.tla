--------------------------- MODULE PersistentGemm ---------------------------
(***************************************************************************)
(* One CTA of the persistent GEMM (cute_07 p0, p1, capstone) and, with     *)
(* TILES = 1, of the one-tile GEMM it is built on (cute_06 v3).  Warp 0    *)
(* issues the loads; every warp waits for a slot to be full, multiplies    *)
(* and arrives at the slot's consumer barrier; warp 0 waits for that one   *)
(* before it refills the slot.  The barriers are initialised again for     *)
(* every output tile.                                                      *)
(*                                                                         *)
(* A warp is one agent: wgmma and the barrier waits keep its lanes         *)
(* together, while nothing in the main loop keeps the warps together.      *)
(* With WARPS = 1 the agent stands for warps that stay in step.            *)
(***************************************************************************)
EXTENDS TmaRing

CONSTANTS WARPS,   \* warps of the CTA
          NK,      \* k tiles of the GEMM
          TILES    \* output tiles this CTA takes, one after another

ASSUME GemmAssumption == WARPS \in Nat \ {0} /\ NK \in Nat \ {0} /\ TILES \in Nat \ {0}

Warp == 0 .. WARPS - 1

\* k_tile_count runs from nk down to -STAGES: the loop reads NK + STAGES loads,
\* the last STAGES of them beyond the matrix, which TMA fills with zeros.
READS == NK + STAGES

VARIABLES pc,      \* where each warp is
          tile,    \* the output tile each warp works on
          iter,    \* main-loop iterations the warp has finished for it
          k_tile   \* warp 0: the next k tile to load

vars == <<ringVars, pc, tile, iter, k_tile>>

Init ==
  /\ RingInit(WARPS)
  /\ pc = [w \in Warp |-> "top"]
  /\ tile = [w \in Warp |-> 1]
  /\ iter = [w \in Warp |-> 0]
  /\ k_tile = 0

\* Mutant: the barriers keep the phases the tile before left them in.
ReInitSkipped ==
  /\ pc[0] = "top"
  /\ pc' = [pc EXCEPT ![0] = "sync"]
  /\ UNCHANGED <<ringVars, tile, iter, k_tile>>

\* Warp 0 resets the barriers for its next tile; nothing makes it wait for the
\* other warps to leave the tile before.
ReInit ==
  /\ pc[0] = "top"
  /\ producer' = FreshProducers
  /\ consumer' = FreshConsumers(WARPS)
  /\ pc' = [pc EXCEPT ![0] = "sync"]
  /\ UNCHANGED <<smem, inflight, tile, iter, k_tile>>

EnterSync(w) ==
  /\ w # 0 /\ pc[w] = "top"
  /\ pc' = [pc EXCEPT ![w] = "sync"]
  /\ UNCHANGED <<ringVars, tile, iter, k_tile>>

\* __syncthreads: all warps leave together.
Release ==
  /\ \A w \in Warp : pc[w] = "sync"
  /\ pc' = [w \in Warp |-> IF w = 0 THEN "prologue" ELSE "wait"]
  /\ k_tile' = 0
  /\ UNCHANGED <<ringVars, tile, iter>>

Prologue ==
  /\ pc[0] = "prologue"
  /\ IssueLoad(k_tile, tile[0], k_tile)
  /\ k_tile' = k_tile + 1
  /\ pc' = [pc EXCEPT ![0] = IF k_tile + 1 = STAGES THEN "wait" ELSE "prologue"]
  /\ UNCHANGED <<consumer, tile, iter>>

\* ProducerBar::wait returns and the warp starts to multiply from the slot.
StartMma(w) ==
  /\ pc[w] = "wait"
  /\ Full(iter[w])
  /\ pc' = [pc EXCEPT ![w] = "mma"]
  /\ UNCHANGED <<ringVars, tile, iter, k_tile>>

\* Mutant: the loop ends one iteration early.
AfterIterationShort(n) == IF n = READS - 1 THEN "epilogue" ELSE "wait"

\* Where a warp goes with n iterations of its tile behind it.
AfterIteration(n) == IF n = READS THEN "epilogue" ELSE "wait"

\* Mutant: the loads go on for one more iteration (k_tile_count >= 0).
MustRefillOnce(w) == w = 0 /\ iter[w] <= NK

\* The issuing lane of warp 0 refills while k_tile_count > 0.
MustRefill(w) == w = 0 /\ iter[w] < NK

\* warpgroup_wait returns: the warp is done with the slot and says so.
FinishMma(w) ==
  /\ pc[w] = "mma"
  /\ ArriveConsumer(iter[w])
  /\ IF MustRefill(w)
     THEN pc' = [pc EXCEPT ![w] = "refill"] /\ UNCHANGED iter
     ELSE /\ pc' = [pc EXCEPT ![w] = AfterIteration(iter[w] + 1)]
          /\ iter' = [iter EXCEPT ![w] = @ + 1]
  /\ UNCHANGED <<producer, smem, inflight, tile, k_tile>>

\* Mutant: the refill does not wait for the other warps.
RefillUnchecked ==
  /\ pc[0] = "refill"
  /\ IssueLoad(Index(iter[0]), tile[0], k_tile)
  /\ k_tile' = k_tile + 1
  /\ pc' = [pc EXCEPT ![0] = AfterIteration(iter[0] + 1)]
  /\ iter' = [iter EXCEPT ![0] = @ + 1]
  /\ UNCHANGED <<consumer, tile>>

\* Warp 0 waits until all warps are done with the slot, then loads into it.
Refill ==
  /\ pc[0] = "refill"
  /\ Free(iter[0])
  /\ IssueLoad(Index(iter[0]), tile[0], k_tile)
  /\ k_tile' = k_tile + 1
  /\ pc' = [pc EXCEPT ![0] = AfterIteration(iter[0] + 1)]
  /\ iter' = [iter EXCEPT ![0] = @ + 1]
  /\ UNCHANGED <<consumer, tile>>

\* The warp writes its part of C and takes the next tile, if there is one.
Epilogue(w) ==
  /\ pc[w] = "epilogue"
  /\ IF tile[w] < TILES
     THEN /\ pc' = [pc EXCEPT ![w] = "top"]
          /\ tile' = [tile EXCEPT ![w] = @ + 1]
          /\ iter' = [iter EXCEPT ![w] = 0]
     ELSE /\ pc' = [pc EXCEPT ![w] = "exit"]
          /\ UNCHANGED <<tile, iter>>
  /\ UNCHANGED <<ringVars, k_tile>>

LandTma == (\E c \in inflight : Land(c)) /\ UNCHANGED <<pc, tile, iter, k_tile>>

WarpStep(w) ==
  \/ w = 0 /\ (ReInit \/ Prologue \/ Refill)
  \/ EnterSync(w) \/ StartMma(w) \/ FinishMma(w) \/ Epilogue(w)

Next == Release \/ LandTma \/ \E w \in Warp : WarpStep(w)

Spec == Init /\ [][Next]_vars

\* The SM runs every warp that can go on, and every copy lands some time.
FairSpec ==
  /\ Spec
  /\ WF_vars(Release) /\ WF_vars(LandTma)
  /\ \A w \in Warp : WF_vars(WarpStep(w))

-----------------------------------------------------------------------------
(* Properties *)

\* The shape of every variable.
TypeOK ==
  /\ RingType(WARPS, 1 .. TILES, 0 .. READS - 1)
  /\ pc \in [Warp -> {"top", "sync", "prologue", "wait", "mma", "refill", "epilogue", "exit"}]
  /\ tile \in [Warp -> 1 .. TILES]
  /\ iter \in [Warp -> 0 .. READS]
  /\ k_tile \in 0 .. READS

\* While a warp multiplies, its slot holds A and B of exactly the k tile the warp
\* is at, of its own output tile: landed, not overwritten, not left over.
ReadsRight == \A w \in Warp : pc[w] = "mma" => Holds(iter[w], tile[w], iter[w])

\* No copy is still writing into shared memory when a warp has left its last main
\* loop: the CTA may exit and give the memory away.
DrainedAtExit ==
  (\E w \in Warp : pc[w] \in {"epilogue", "exit"} /\ tile[w] = TILES) => inflight = {}

\* The kernel comes to its end: every warp finishes every tile.
AllTilesFinish == <>(\A w \in Warp : pc[w] = "exit")

\* The kernel implements the abstract pipeline: the loads of all tiles are
\* numbered through, and a load has landed when both its operands have.
LoadNumber(t, k) == (t - 1) * READS + k
Issued == LoadNumber(tile[0], IF pc[0] \in {"top", "sync"} THEN 0 ELSE k_tile)
ReadsDone(w) == LoadNumber(tile[w], IF pc[w] = "refill" THEN iter[w] + 1 ELSE iter[w])
OnItsWay == {LoadNumber(c.data[2], c.data[3]) : c \in inflight}

Pipe == INSTANCE StagedPipeline WITH
          Issuers <- {0},
          Readers <- Warp,
          LOADS <- TILES * READS,
          issued <- [i \in {0} |-> Issued],
          landed <- {0} \X ((0 .. Issued - 1) \ OnItsWay),
          consumed <- [w \in Warp |-> ReadsDone(w)]
ImplementsPipeline == Pipe!PipeSpec
=============================================================================
