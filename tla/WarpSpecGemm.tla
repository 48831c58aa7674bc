---------------------------- MODULE WarpSpecGemm ----------------------------
(***************************************************************************)
(* The warp-specialised GEMM (cute_06 v4).  Consumer warps only multiply.  *)
(* One elected lane of warp 4 issues all loads; the other threads of the   *)
(* producer warps run the same loop and wait at the same consumer barriers *)
(* without issuing.  The prologue advances k_tile in the issuing lane only,*)
(* so the others make NK waits while it makes NK - STAGES.                 *)
(***************************************************************************)
EXTENDS TmaRing

CONSTANTS CONSUMERS,  \* consumer warps
          FOLLOWERS,  \* groups of producer threads that issue nothing
          NK          \* k tiles of the GEMM

\* The kernel is launched with at least as many k tiles as slots.
ASSUME WarpSpecAssumption ==
  CONSUMERS \in Nat \ {0} /\ FOLLOWERS \in Nat /\ NK \in Nat /\ NK >= STAGES

Consumer == 0 .. CONSUMERS - 1
Follower == 0 .. FOLLOWERS - 1

VARIABLES mma,      \* consumers that are multiplying
          k,        \* per consumer: k tiles it is done with
          k_tile,   \* the issuing lane's k_tile
          write,    \* the issuing lane's write_state: waits it has done
          waits     \* per follower: waits done, its k_tile and write_state alike

vars == <<ringVars, mma, k, k_tile, write, waits>>

Init ==
  /\ RingInit(CONSUMERS)
  /\ mma = {}
  /\ k = [c \in Consumer |-> 0]
  /\ k_tile = 0
  /\ write = 0
  /\ waits = [f \in Follower |-> 0]

\* The issuing lane fills the ring without waiting for anybody.
Prologue ==
  /\ k_tile < STAGES
  /\ IssueLoad(k_tile, 1, k_tile)
  /\ k_tile' = k_tile + 1
  /\ UNCHANGED <<consumer, mma, k, write, waits>>

\* Mutant: the issuing lane reuses a slot without waiting for its readers.
RefillUnchecked ==
  /\ STAGES <= k_tile /\ k_tile < NK
  /\ IssueLoad(Index(write), 1, k_tile)
  /\ k_tile' = k_tile + 1
  /\ write' = write + 1
  /\ UNCHANGED <<consumer, mma, k, waits>>

\* Mutant: the issuing lane counts the prologue's loads in write_state too.
RefillAhead ==
  /\ STAGES <= k_tile /\ k_tile < NK
  /\ Free(k_tile)
  /\ IssueLoad(Index(k_tile), 1, k_tile)
  /\ k_tile' = k_tile + 1
  /\ write' = write + 1
  /\ UNCHANGED <<consumer, mma, k, waits>>

\* It then refills each slot as its readers release it.
Refill ==
  /\ STAGES <= k_tile /\ k_tile < NK
  /\ Free(write)
  /\ IssueLoad(Index(write), 1, k_tile)
  /\ k_tile' = k_tile + 1
  /\ write' = write + 1
  /\ UNCHANGED <<consumer, mma, k, waits>>

\* The other producer threads wait for each release as well, from k_tile = 0 on.
\* They hold nobody up: the ring goes on whether or not they have looked.
Follow(f) ==
  /\ waits[f] < NK
  /\ Free(waits[f])
  /\ waits' = [waits EXCEPT ![f] = @ + 1]
  /\ UNCHANGED <<ringVars, mma, k, k_tile, write>>

\* Mutant: the slot is released as soon as the multiplication is issued.
StartMmaReleasing(c) ==
  /\ c \notin mma /\ k[c] < NK
  /\ Full(k[c])
  /\ ArriveConsumer(k[c])
  /\ mma' = mma \cup {c}
  /\ UNCHANGED <<producer, smem, inflight, k, k_tile, write, waits>>

StartMma(c) ==
  /\ c \notin mma /\ k[c] < NK
  /\ Full(k[c])
  /\ mma' = mma \cup {c}
  /\ UNCHANGED <<ringVars, k, k_tile, write, waits>>

\* Mutant: the slot is never released.
FinishMmaKeeping(c) ==
  /\ c \in mma
  /\ mma' = mma \ {c}
  /\ k' = [k EXCEPT ![c] = @ + 1]
  /\ UNCHANGED <<ringVars, k_tile, write, waits>>

FinishMma(c) ==
  /\ c \in mma
  /\ ArriveConsumer(k[c])
  /\ mma' = mma \ {c}
  /\ k' = [k EXCEPT ![c] = @ + 1]
  /\ UNCHANGED <<producer, smem, inflight, k_tile, write, waits>>

LandTma == (\E c \in inflight : Land(c)) /\ UNCHANGED <<mma, k, k_tile, write, waits>>

Leader == Prologue \/ Refill
Multiply(c) == StartMma(c) \/ FinishMma(c)

Next ==
  \/ Leader \/ LandTma
  \/ \E c \in Consumer : Multiply(c)
  \/ \E f \in Follower : Follow(f)

Spec == Init /\ [][Next]_vars

\* Every thread that can go on is run some time, and every copy lands.
FairSpec ==
  /\ Spec
  /\ WF_vars(Leader) /\ WF_vars(LandTma)
  /\ \A c \in Consumer : WF_vars(Multiply(c))
  /\ \A f \in Follower : WF_vars(Follow(f))

-----------------------------------------------------------------------------
(* Properties *)

\* The shape of every variable.
TypeOK ==
  /\ RingType(CONSUMERS, {1}, 0 .. NK - 1)
  /\ mma \subseteq Consumer
  /\ k \in [Consumer -> 0 .. NK]
  /\ k_tile \in 0 .. NK
  /\ write \in 0 .. NK - STAGES
  /\ waits \in [Follower -> 0 .. NK]

\* While a consumer multiplies, the slot holds A and B of its k tile, complete.
ReadsRight == \A c \in mma : Holds(k[c], 1, k[c])

\* A thread that waits for a release never gets past one that has not happened,
\* although a barrier shows it one bit of its phase.
NoEarlyRelease == \A f \in Follower, c \in Consumer : waits[f] <= k[c]

\* The consumers get through the whole K dimension and every load has landed.
ConsumersFinish == <>(inflight = {} /\ \A c \in Consumer : k[c] = NK)

\* The kernel comes to its end: all of its threads, the producer warps' idle ones
\* included, leave their loops.
EveryThreadFinishes ==
  <>(k_tile = NK /\ (\A c \in Consumer : k[c] = NK) /\ (\A f \in Follower : waits[f] = NK))

\* The kernel implements the abstract pipeline.
Pipe == INSTANCE StagedPipeline WITH
          Issuers <- {0},
          Readers <- Consumer,
          LOADS <- NK,
          issued <- [i \in {0} |-> k_tile],
          landed <- {0} \X ((0 .. k_tile - 1) \ {c.data[3] : c \in inflight}),
          consumed <- k
ImplementsPipeline == Pipe!PipeSpec
=============================================================================
