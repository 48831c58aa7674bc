------------------------- MODULE WarpSpecGemmProofs -------------------------
(***************************************************************************)
(* Proofs about cute_06 v4 that hold for every number of consumers, idle   *)
(* producer threads, slots and k tiles: no consumer multiplies from a slot *)
(* that is not whole, no thread gets past a release that has not happened, *)
(* and the kernel implements the abstract pipeline.                        *)
(***************************************************************************)
EXTENDS WarpSpecGemm, TmaRingProofs

\* What a slot may hold.
Contents == {Torn} \cup {Loaded(1, n) : n \in 0 .. NK - 1}

(***************************************************************************)
(* The inductive invariant.  After k_tile loads the ring is where the      *)
(* consumers' progress has it; a consumer that multiplies does so from a   *)
(* load that has landed; the issuing lane has waited once for each load    *)
(* behind the prologue.                                                    *)
(***************************************************************************)
IndInv ==
  /\ RingInv(Consumer, 1, k_tile, k)
  /\ smem \in [Stage -> [Operand -> Contents]]
  /\ mma \subseteq Consumer /\ k \in [Consumer -> Nat]
  /\ k_tile \in 0 .. NK
  /\ write = IF k_tile < STAGES THEN 0 ELSE k_tile - STAGES
  /\ \A c \in mma : Landed(1, k_tile, k[c])
  /\ waits \in [Follower -> 0 .. NK]
  /\ NoEarlyRelease

LEMMA Consumers == IsFiniteSet(Consumer) /\ Cardinality(Consumer) = CONSUMERS /\ Consumer # {}
<1>1. CONSUMERS \in Nat \ {0}
  BY WarpSpecAssumption
<1>2. 0 - 0 + (CONSUMERS - 1) + 1 = CONSUMERS /\ 0 <= CONSUMERS - 1 /\ CONSUMERS - 1 \in Int
  BY <1>1
<1>3. IsFiniteSet(0 .. CONSUMERS - 1) /\ Cardinality(0 .. CONSUMERS - 1) = CONSUMERS
  BY <1>1, <1>2, FS_Interval
<1> QED BY <1>2, <1>3 DEF Consumer

\* A load that is issued leaves alone what others have landed.
LEMMA IssueKeepsLanded ==
  ASSUME NEW i \in Nat, IssueLoad(Index(i), 1, i), NEW n \in Nat, Landed(1, i, n)
  PROVE  Landed(1, i + 1, n)'
<1>1. \A o \in Operand, p \in Operand : Part(1, n, o) # Part(1, i, p)
  BY PartsApart DEF Landed
<1>2. inflight' = inflight \cup {Part(1, i, p) : p \in Operand}
  BY DEF IssueLoad, Part
<1>3. Moving(1, n)' = Moving(1, n)
  BY <1>1, <1>2 DEF Moving, Part
<1> QED BY <1>3 DEF Landed

\* The issuing lane's two ways to load k tile k_tile.
LEMMA LoadKeepsInv ==
  ASSUME IndInv, k_tile < NK, IssueLoad(Index(k_tile), 1, k_tile),
         \A c \in Consumer : k[c] > k_tile - STAGES,
         k_tile' = k_tile + 1, UNCHANGED <<consumer, mma, k, waits>>,
         write' = IF k_tile' < STAGES THEN 0 ELSE k_tile' - STAGES
  PROVE  IndInv'
<1>1. k_tile \in Nat /\ NK \in Nat /\ k \in [Consumer -> Nat]
  BY WarpSpecAssumption DEF IndInv
<1>2. PICK i \in Nat, done \in [Consumer -> Nat] : i = k_tile /\ done = k
  BY <1>1
<1>3. RingInv(Consumer, 1, k_tile, k)'
  <2>1. RingInv(Consumer, 1, i, done)
    BY <1>2 DEF IndInv
  <2>2. RingInv(Consumer, 1, i + 1, done)'
    BY <1>2, <2>1, Consumers, IssueKeepsRing
  <2>3. i + 1 = k_tile' /\ done = k'
    BY <1>2
  <2> QED BY <2>2, <2>3
<1>4. smem' \in [Stage -> [Operand -> Contents]]
  <2>1. Index(k_tile) \in Stage /\ Torn \in Contents
    BY <1>1, UseOfRing DEF Contents
  <2> QED BY <2>1 DEF IssueLoad, IndInv
<1>5. \A c \in mma : Landed(1, k_tile, k[c])'
  BY <1>1, IssueKeepsLanded DEF IndInv
<1> QED BY <1>1, <1>3, <1>4, <1>5 DEF IndInv, NoEarlyRelease

LEMMA InitInv == Init => IndInv
<1> SUFFICES ASSUME Init PROVE IndInv
  OBVIOUS
<1>1. STAGES \in Nat \ {0} /\ NK \in Nat
  BY StagesAssumption, WarpSpecAssumption
<1>2. RingShape
  BY DEF Init, RingInit, RingShape, FreshProducers, FreshConsumers
<1>3. RingInv(Consumer, 1, k_tile, k)
  BY <1>2, Consumers, RingStarts DEF Init, RingInit
<1>4. smem \in [Stage -> [Operand -> Contents]]
  BY DEF Init, RingInit, Contents
<1> QED BY <1>1, <1>3, <1>4 DEF Init, IndInv, NoEarlyRelease

\* A consumer starts on a load it has seen full.
LEMMA StartKeepsInv ==
  ASSUME IndInv, NEW c \in Consumer, StartMma(c)
  PROVE  IndInv'
<1>1. k_tile \in Nat /\ k \in [Consumer -> Nat] /\ RingInv(Consumer, 1, k_tile, k)
  BY WarpSpecAssumption DEF IndInv
<1>2. Landed(1, k_tile, k[c])
  BY <1>1, FullMeansLanded DEF StartMma
<1>3. RingInv(Consumer, 1, k_tile, k)'
  BY <1>1 DEF StartMma, ringVars, RingInv, RingShape, SlotsUsed, SlotAfter, ProducerAfter, ConsumerAfter,
             Moving, SlotsFresh, CopiesNewest
<1>4. \A d \in mma' : Landed(1, k_tile, k[d])'
  BY <1>2 DEF StartMma, ringVars, IndInv, Landed, Moving
<1> QED BY <1>3, <1>4 DEF StartMma, ringVars, IndInv, NoEarlyRelease

\* A consumer is done with its load and says so.
LEMMA FinishKeepsInv ==
  ASSUME IndInv, NEW c \in Consumer, FinishMma(c)
  PROVE  IndInv'
<1>1. PICK i \in Nat, done \in [Consumer -> Nat] : i = k_tile /\ done = k
  BY WarpSpecAssumption DEF IndInv
<1>2. RingInv(Consumer, 1, i, done) /\ Landed(1, i, done[c])
  BY <1>1 DEF IndInv, FinishMma
<1>3. ArriveConsumer(done[c]) /\ UNCHANGED <<producer, smem, inflight>>
  BY <1>1 DEF FinishMma
<1>4. RingInv(Consumer, 1, i, [done EXCEPT ![c] = @ + 1])'
  BY <1>1, <1>2, <1>3, Consumers, ArriveKeepsRing
<1>5. i = k_tile' /\ k' = [done EXCEPT ![c] = @ + 1] /\ mma' = mma \ {c}
  BY <1>1 DEF FinishMma
<1>6. RingInv(Consumer, 1, k_tile, k)'
  BY <1>4, <1>5
<1>7. \A d \in mma' : Landed(1, k_tile, k[d])'
  BY <1>1, <1>3, <1>5 DEF IndInv, Landed, Moving
<1>8. NoEarlyRelease' /\ k' \in [Consumer -> Nat]
  BY <1>1, <1>5 DEF FinishMma, IndInv, NoEarlyRelease
<1> QED BY <1>6, <1>7, <1>8 DEF FinishMma, IndInv

LEMMA LandKeepsInv ==
  ASSUME IndInv, LandTma
  PROVE  IndInv'
<1>1. PICK c \in inflight : Land(c)
  BY DEF LandTma
<1>2. PICK i \in Nat, done \in [Consumer -> Nat] : i = k_tile /\ done = k
  BY WarpSpecAssumption DEF IndInv
<1>3. RingInv(Consumer, 1, i, done)
  BY <1>2 DEF IndInv
<1>4. RingInv(Consumer, 1, i, done)'
  BY <1>1, <1>2, <1>3, LandKeepsRing
<1>5. RingInv(Consumer, 1, k_tile, k)'
  BY <1>2, <1>4 DEF LandTma
<1>6. smem' \in [Stage -> [Operand -> Contents]]
  <2>1. PICK n \in Newest(i), o \in Operand : c = Part(1, n, o)
    BY <1>1, <1>3 DEF RingInv, CopiesNewest
  <2>2. c.data \in Contents
    BY <1>2, <2>1, WarpSpecAssumption DEF IndInv, Newest, Part, Contents
  <2> QED BY <1>1, <2>2 DEF Land, IndInv
<1>7. \A d \in mma' : Landed(1, k_tile, k[d])'
  BY <1>1 DEF LandTma, Land, IndInv, Landed, Moving
<1> QED BY <1>5, <1>6, <1>7 DEF LandTma, IndInv, NoEarlyRelease

\* A producer thread that issues nothing gets past a release that has happened.
LEMMA FollowKeepsInv ==
  ASSUME IndInv, NEW f \in Follower, Follow(f)
  PROVE  IndInv'
<1>1. k_tile \in Nat /\ k \in [Consumer -> Nat] /\ RingInv(Consumer, 1, k_tile, k)
      /\ waits[f] \in 0 .. NK /\ NK \in Nat
  BY WarpSpecAssumption DEF IndInv
<1>2. \A c \in Consumer : k[c] > waits[f]
  BY <1>1, Consumers, FreeMeansRead DEF IndInv, NoEarlyRelease, Follow
<1>3. RingInv(Consumer, 1, k_tile, k)' /\ \A d \in mma' : Landed(1, k_tile, k[d])'
  BY <1>1 DEF Follow, ringVars, RingInv, RingShape, SlotsUsed, SlotAfter, ProducerAfter, ConsumerAfter,
             Moving, SlotsFresh, CopiesNewest, IndInv, Landed
<1>4. waits' \in [Follower -> 0 .. NK] /\ NoEarlyRelease'
  BY <1>1, <1>2 DEF Follow, ringVars, IndInv, NoEarlyRelease
<1> QED BY <1>3, <1>4 DEF Follow, ringVars, IndInv

LEMMA LeaderKeepsInv ==
  ASSUME IndInv, Leader
  PROVE  IndInv'
<1>1. /\ STAGES \in Nat \ {0} /\ NK \in Nat /\ NK >= STAGES /\ k_tile \in Nat
      /\ k \in [Consumer -> Nat] /\ RingInv(Consumer, 1, k_tile, k)
  BY StagesAssumption, WarpSpecAssumption DEF IndInv
<1>2. CASE Prologue
  <2>1. Index(k_tile) = k_tile
    BY <1>1, <1>2, UseOfRing DEF Prologue
  <2>2. \A c \in Consumer : k[c] > k_tile - STAGES
    BY <1>1, <1>2 DEF Prologue
  <2>3. write' = IF k_tile' < STAGES THEN 0 ELSE k_tile' - STAGES
    BY <1>1, <1>2 DEF Prologue, IndInv
  <2> QED BY <1>1, <1>2, <2>1, <2>2, <2>3, LoadKeepsInv DEF Prologue
<1>3. CASE Refill
  <2>1. write \in Nat /\ k_tile = write + STAGES
    BY <1>1, <1>3 DEF Refill, IndInv
  <2>2. Index(k_tile) = Index(write)
    BY <2>1, NextRound
  <2>3. \A c \in Consumer : write <= k[c]
    BY <1>1, <2>1 DEF RingInv, ReadersInside
  <2>4. \A c \in Consumer : k[c] > write
    BY <1>1, <1>3, <2>1, <2>3, Consumers, FreeMeansRead DEF Refill
  <2>5. \A c \in Consumer : k[c] > k_tile - STAGES
    BY <1>1, <2>1, <2>4
  <2>6. write' = IF k_tile' < STAGES THEN 0 ELSE k_tile' - STAGES
    BY <1>1, <1>3, <2>1 DEF Refill
  <2> QED BY <1>1, <1>3, <2>2, <2>5, <2>6, LoadKeepsInv DEF Refill
<1> QED BY <1>2, <1>3 DEF Leader

\* The invariant holds in every state, whatever the order of warps and copies.
THEOREM Invariance == Spec => []IndInv
<1>1. IndInv /\ [Next]_vars => IndInv'
  <2> SUFFICES ASSUME IndInv, [Next]_vars PROVE IndInv'
    OBVIOUS
  <2>1. CASE UNCHANGED vars
    BY <2>1 DEF vars, ringVars, RingInv, RingShape, SlotsUsed, SlotAfter, ProducerAfter, ConsumerAfter,
               Moving, SlotsFresh, CopiesNewest, IndInv, Landed, NoEarlyRelease
  <2> QED BY <2>1, LeaderKeepsInv, LandKeepsInv, StartKeepsInv, FinishKeepsInv, FollowKeepsInv
          DEF Next, Multiply
<1> QED BY InitInv, <1>1, PTL DEF Spec

\* Every variable keeps its type: no barrier ever counts below zero, no consumer or
\* producer runs past the last k tile.
THEOREM TypeCorrect == Spec => []TypeOK
<1>1. IndInv => TypeOK
  <2> SUFFICES ASSUME IndInv PROVE TypeOK
    OBVIOUS
  <2>1. /\ STAGES \in Nat \ {0} /\ NK \in Nat /\ NK >= STAGES /\ k_tile \in 0 .. NK
        /\ RingInv(Consumer, 1, k_tile, k) /\ k \in [Consumer -> Nat]
    BY StagesAssumption, WarpSpecAssumption DEF IndInv
  <2>2. RingType(Cardinality(Consumer), {1}, 0 .. NK - 1)
    <3> DEFINE tiles == {1}
               ks == 0 .. NK - 1
    <3>1. 1 \in tiles /\ 0 .. k_tile - 1 \subseteq ks /\ k_tile \in Nat
      BY <2>1
    <3>2. \A s \in Stage, o \in Operand : smem[s][o] \in {Torn} \cup {Loaded(u, n) : u \in tiles, n \in ks}
      BY DEF IndInv, Contents
    <3> HIDE DEF tiles, ks
    <3>3. RingType(Cardinality(Consumer), tiles, ks)
      BY <2>1, <3>1, <3>2, Consumers, RingTyped
    <3> QED BY <3>3 DEF tiles, ks
  <2>3. k \in [Consumer -> 0 .. NK]
    BY <2>1 DEF RingInv, ReadersInside
  <2>4. write \in 0 .. NK - STAGES
    BY <2>1 DEF IndInv
  <2> QED BY <2>2, <2>3, <2>4, Consumers DEF IndInv, TypeOK
<1> QED BY Invariance, <1>1, PTL

\* While a consumer multiplies, its slot holds both operands of its own k tile, whole
\* and not yet replaced, although a barrier shows one bit of its history.
THEOREM ReadsCorrect == Spec => []ReadsRight
<1>1. IndInv => ReadsRight
  <2> SUFFICES ASSUME IndInv, NEW c \in mma PROVE Holds(k[c], 1, k[c])
    BY DEF ReadsRight
  <2>1. c \in Consumer /\ k[c] \in Nat /\ RingInv(Consumer, 1, k_tile, k) /\ Landed(1, k_tile, k[c])
    BY DEF IndInv
  <2>2. k[c] \in Newest(k_tile)
    BY <2>1, StagesAssumption, WarpSpecAssumption DEF IndInv, RingInv, ReadersInside, Landed, Newest
  <2> QED BY <2>1, <2>2, LandedHolds
<1> QED BY Invariance, <1>1, PTL

\* An idle producer thread, which nobody waits for, never gets past a release that has
\* not happened, however far the ring has gone on without it.
THEOREM NoEarly == Spec => []NoEarlyRelease
<1>1. IndInv => NoEarlyRelease
  BY DEF IndInv
<1> QED BY Invariance, <1>1, PTL

\* The loads under way, as the refinement mapping sees them.
OnItsWay == {c.data[3] : c \in inflight}
Arrivals == {0} \X ((0 .. k_tile - 1) \ OnItsWay)

LEMMA OnItsWayMoves ==
  ASSUME NEW n \in Nat, n \in OnItsWay, IndInv
  PROVE  Moving(1, n) # {}
<1>1. PICK c \in inflight : c.data[3] = n
  BY DEF OnItsWay
<1>2. PICK m \in Newest(k_tile), o \in Operand : c = Part(1, m, o)
  BY <1>1 DEF IndInv, RingInv, CopiesNewest
<1>3. m = n
  BY <1>1, <1>2 DEF Part, Loaded
<1> QED BY <1>1, <1>2, <1>3 DEF Moving

\* Every step of the kernel is one of the abstract pipeline or leaves it alone: a load
\* is issued only when all consumers are done with the one a ring earlier, and read only
\* when both of its copies have landed.
THEOREM Refinement == Spec => ImplementsPipeline
<1>1. Init => Pipe!PipeInit
  <2> SUFFICES ASSUME Init PROVE Pipe!PipeInit
    OBVIOUS
  <2>1. 0 .. k_tile - 1 = {}
    BY DEF Init
  <2> QED BY <2>1 DEF Init, Pipe!PipeInit
<1>2. IndInv /\ [Next]_vars => [Pipe!PipeNext]_(Pipe!pipeVars)
  <2> SUFFICES ASSUME IndInv, [Next]_vars PROVE [Pipe!PipeNext]_(Pipe!pipeVars)
    OBVIOUS
  <2>0. /\ STAGES \in Nat \ {0} /\ NK \in Nat /\ NK >= STAGES /\ k_tile \in 0 .. NK
        /\ k \in [Consumer -> Nat] /\ RingInv(Consumer, 1, k_tile, k)
    BY StagesAssumption, WarpSpecAssumption DEF IndInv
  <2>1. CASE Leader
    <3>1. k_tile < NK /\ IssueLoad(Index(k_tile), 1, k_tile) /\ k_tile' = k_tile + 1 /\ k' = k
      <4>1. CASE Prologue
        BY <2>0, <4>1, UseOfRing DEF Prologue
      <4>2. CASE Refill
        <5>1. write \in Nat /\ k_tile = write + STAGES
          BY <2>0, <4>2 DEF Refill, IndInv
        <5> QED BY <4>2, <5>1, NextRound DEF Refill
      <4> QED BY <2>1, <4>1, <4>2 DEF Leader
    <3>2. \A c \in Consumer : k_tile - k[c] < STAGES
      <4>1. IndInv'
        BY <2>1, LeaderKeepsInv
      <4>2. \A c \in Consumer : k_tile' - STAGES <= k'[c]
        BY <4>1 DEF IndInv, RingInv, ReadersInside
      <4> QED BY <2>0, <3>1, <4>2
    <3>3. OnItsWay' = OnItsWay \cup {k_tile}
      <4>1. inflight' = inflight \cup {Part(1, k_tile, o) : o \in Operand}
        BY <3>1 DEF IssueLoad, Part
      <4>2. \A o \in Operand : Part(1, k_tile, o).data[3] = k_tile
        BY DEF Part, Loaded
      <4>3. "A" \in Operand
        BY DEF Operand
      <4> QED BY <4>1, <4>2, <4>3 DEF OnItsWay
    <3>4. Arrivals' = Arrivals
      BY <2>0, <3>1, <3>3 DEF Arrivals
    <3>5. Pipe!Issue(0)
      BY <2>0, <3>1, <3>2, <3>4 DEF Pipe!Issue, Arrivals, OnItsWay
    <3> QED BY <3>5 DEF Pipe!PipeNext
  <2>2. CASE LandTma
    <3>1. PICK c \in inflight : Land(c)
      BY <2>2 DEF LandTma
    <3>2. PICK n \in Newest(k_tile), o \in Operand : c = Part(1, n, o)
      BY <2>0, <3>1 DEF RingInv, CopiesNewest
    <3>3. n \in 0 .. k_tile - 1 /\ c.data[3] = n /\ inflight' = inflight \ {c}
          /\ k_tile' = k_tile /\ k' = k
      BY <2>0, <2>2, <3>1, <3>2 DEF LandTma, Land, Newest, Part, Loaded
    <3>4. n \in OnItsWay /\ OnItsWay' \subseteq OnItsWay /\ OnItsWay \subseteq OnItsWay' \cup {n}
      BY <3>1, <3>3 DEF OnItsWay
    <3>5. CASE n \in OnItsWay'
      <4>1. Arrivals' = Arrivals
        BY <3>3, <3>4, <3>5 DEF Arrivals
      <4> QED BY <3>3, <4>1 DEF Pipe!pipeVars, Arrivals, OnItsWay
    <3>6. CASE n \notin OnItsWay'
      <4>1. Arrivals' = Arrivals \cup {<<0, n>>} /\ <<0, n>> \notin Arrivals
        BY <3>3, <3>4, <3>6 DEF Arrivals
      <4>2. Pipe!Land(0, n)
        BY <2>0, <3>3, <4>1 DEF Pipe!Land, Arrivals, OnItsWay
      <4>3. n \in 0 .. NK - 1
        BY <2>0, <3>3
      <4> QED BY <4>2, <4>3 DEF Pipe!PipeNext
    <3> QED BY <3>5, <3>6
  <2>3. ASSUME NEW c \in Consumer, FinishMma(c) PROVE Pipe!PipeNext
    <3>1. Landed(1, k_tile, k[c]) /\ k[c] \in Nat
      BY <2>0, <2>3 DEF FinishMma, IndInv
    <3>2. k[c] \in 0 .. k_tile - 1 /\ k[c] \notin OnItsWay
      BY <2>0, <3>1, OnItsWayMoves DEF Landed
    <3>3. <<0, k[c]>> \in Arrivals
      BY <3>2 DEF Arrivals
    <3>4. Pipe!Consume(c)
      BY <2>3, <3>3 DEF FinishMma, Pipe!Consume, Arrivals, OnItsWay
    <3> QED BY <3>4 DEF Pipe!PipeNext
  <2>4. CASE (\E c \in Consumer : StartMma(c)) \/ (\E f \in Follower : Follow(f)) \/ UNCHANGED vars
    BY <2>4 DEF StartMma, Follow, vars, ringVars, Pipe!pipeVars
  <2> QED BY <2>1, <2>2, <2>3, <2>4 DEF Next, Multiply
<1> QED BY Invariance, <1>1, <1>2, PTL DEF Spec, ImplementsPipeline, Pipe!PipeSpec
=============================================================================
