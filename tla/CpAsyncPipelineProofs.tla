----------------------- MODULE CpAsyncPipelineProofs -----------------------
(***************************************************************************)
(* Proofs about matmul v5 that hold for every number of threads, slots and *)
(* k tiles: no thread computes from a slot that is not whole, and the      *)
(* kernel implements the abstract pipeline.                                *)
(***************************************************************************)
EXTENDS CpAsyncPipeline, TLAPS

\* Division with remainder.
LEMMA DivMod ==
  ASSUME NEW n \in Nat, NEW m \in Nat \ {0}
  PROVE  /\ n % m \in 0 .. m - 1 /\ n \div m \in Nat
         /\ n = m * (n \div m) + (n % m)
BY Z3

\* Nothing is left to divide below the divisor.
LEMMA SmallMod ==
  ASSUME NEW n \in Nat, NEW m \in Nat \ {0}, n < m
  PROVE  n % m = n
BY Z3

\* Two multiples of m that differ by less than m are the same.
LEMMA MultiplesApart ==
  ASSUME NEW m \in Nat \ {0}, NEW p \in Int, NEW q \in Int, NEW d \in Int,
         m * p = m * q + d, -m < d, d < m
  PROVE  p = q
BY SMTT(30)

\* Numbers less than m apart have different remainders.
LEMMA ModsDiffer ==
  ASSUME NEW m \in Nat \ {0}, NEW a \in Nat, NEW b \in Nat, a < b, b < a + m
  PROVE  a % m # b % m
<1> DEFINE qa == a \div m
           qb == b \div m
<1>1. /\ a = m * qa + (a % m) /\ b = m * qb + (b % m)
      /\ qa \in Int /\ qb \in Int /\ a % m \in Int
  BY DivMod
<1>2. SUFFICES ASSUME a % m = b % m PROVE FALSE
  OBVIOUS
<1> HIDE DEF qa, qb
<1>3. m * qb = m * qa + (b - a)
  BY <1>1, <1>2
<1>4. qb = qa
  BY <1>1, <1>3, MultiplesApart
<1>5. m * qa \in Int
  BY <1>1
<1> QED BY <1>3, <1>4, <1>5

\* A tile's slot is a slot, and the first STAGES tiles have the slots of their
\* number.
LEMMA SlotOf ==
  ASSUME NEW n \in Nat
  PROVE  n % STAGES \in Slot /\ (n < STAGES => n % STAGES = n)
<1>1. STAGES \in Nat \ {0}
  BY CpAsyncAssumption
<1>2. n % STAGES \in 0 .. STAGES - 1
  BY <1>1, DivMod
<1> QED BY <1>1, <1>2, SmallMod DEF Slot

\* A thread starts the copy of the next tile it has not issued, into the slot of
\* that tile: the tiles in flight and the tiles kept are as they have to be.
LEMMA IssueKeepsSlots ==
  ASSUME TypeOK, InFlight, SlotsKept, NEW t \in Thread, NEW n,
         n = committed[t], n < NK, IssueCopy(t, n % STAGES, n)
  PROVE  SlotsKept'
<1>0. STAGES \in Nat \ {0} /\ NK \in Nat /\ n \in Nat
  BY CpAsyncAssumption DEF TypeOK
<1>1. n % STAGES \in Slot
  BY <1>0, SlotOf
<1> SUFFICES ASSUME NEW u \in Thread, NEW k \in 0 .. NK - 1,
                    k < committed'[u], committed'[u] <= k + STAGES
             PROVE  smem'[k % STAGES][u] = k \/ \E c \in inflight' : c.by = u /\ c.tile = k
  BY DEF SlotsKept
<1>2. k \in Nat /\ k % STAGES \in Slot
  BY <1>0, SlotOf
<1>3. CASE u = t /\ k = n
  <2> DEFINE c == [by |-> t, slot |-> n % STAGES, tile |-> n, group |-> committed[t]]
  <2>1. c \in inflight' /\ c.by = u /\ c.tile = k
    BY <1>3 DEF IssueCopy
  <2> QED BY <2>1
<1>4. CASE u # t \/ k # n
  <2>0. committed[u] \in Nat /\ committed'[u] = IF u = t THEN n + 1 ELSE committed[u]
    BY <1>0 DEF IssueCopy, TypeOK
  <2>1. k < committed[u] /\ committed[u] <= k + STAGES
    BY <1>0, <1>2, <1>4, <2>0
  <2>2. u = t => k % STAGES # n % STAGES
    BY <1>0, <1>2, <1>4, <2>1, ModsDiffer DEF IssueCopy, TypeOK
  <2>3. smem'[k % STAGES][u] = smem[k % STAGES][u]
    BY <1>1, <1>2, <2>2 DEF IssueCopy, TypeOK
  <2>4. inflight \subseteq inflight'
    BY DEF IssueCopy
  <2> QED BY <2>1, <2>3, <2>4 DEF SlotsKept
<1> QED BY <1>3, <1>4

-----------------------------------------------------------------------------
(* The inductive invariant *)

\* It holds in every reachable state.
THEOREM Invariance == Spec => []IndInv
<1> USE CpAsyncAssumption
<1>1. Init => IndInv
  <2> SUFFICES ASSUME Init PROVE IndInv
    OBVIOUS
  <2>1. TypeOK
    BY DEF Init, CopyInit, TypeOK
  <2>2. Lockstep /\ GroupCount
    BY DEF Init, CopyInit, Lockstep, Rounds, GroupCount
  <2>3. InFlight /\ SlotsKept
    BY DEF Init, CopyInit, InFlight, SlotsKept
  <2> QED BY <2>1, <2>2, <2>3 DEF IndInv
<1>2. IndInv /\ [Next]_vars => IndInv'
  <2> SUFFICES ASSUME IndInv, [Next]_vars PROVE IndInv'
    OBVIOUS
  <2> USE DEF IndInv
  <2>1. ASSUME NEW t \in Thread, Prologue(t) PROVE IndInv'
    <3> DEFINE n == committed[t]
    <3>0. n \in Nat /\ n < STAGES - 1 /\ n < NK /\ kt[t] = 0
      BY <2>1 DEF Prologue, GroupCount, TypeOK
    <3>1. n % STAGES = n /\ n \in Slot
      BY <3>0, SlotOf
    <3>2. IssueCopy(t, n % STAGES, n)
      BY <2>1, <3>1 DEF Prologue
    <3>3. TypeOK'
      BY <2>1, <3>0, <3>1, <3>2 DEF Prologue, IssueCopy, TypeOK
    <3>4. Lockstep'
      BY <2>1 DEF Prologue, Lockstep, Rounds, TypeOK
    <3>5. GroupCount'
      <4>1. /\ committed' = [committed EXCEPT ![t] = n + 1] /\ kt' = kt
            /\ pc' = [pc EXCEPT ![t] = IF n + 1 = STAGES - 1 THEN "wait" ELSE "prologue"]
        BY <2>1 DEF Prologue, IssueCopy
      <4> QED BY <3>0, <4>1 DEF GroupCount, TypeOK
    <3>6. InFlight'
      BY <2>1, <3>0, <3>1, <3>2 DEF Prologue, IssueCopy, InFlight, TypeOK
    <3>7. SlotsKept'
      BY <3>0, <3>2, IssueKeepsSlots
    <3> QED BY <3>3, <3>4, <3>5, <3>6, <3>7
  <2>2. ASSUME NEW t \in Thread, Wait(t) PROVE IndInv'
    <3>1. TypeOK'
      BY <2>2 DEF Wait, copyVars, TypeOK
    <3>2. Lockstep'
      BY <2>2 DEF Wait, Lockstep, Rounds, TypeOK
    <3>3. GroupCount'
      BY <2>2 DEF Wait, copyVars, GroupCount, TypeOK
    <3>4. InFlight'
      BY <2>2 DEF Wait, WaitedFor, copyVars, InFlight, GroupCount, TypeOK
    <3>5. SlotsKept'
      BY <2>2 DEF Wait, copyVars, SlotsKept
    <3> QED BY <3>1, <3>2, <3>3, <3>4, <3>5
  <2>3. CASE Sync
    <3>1. TypeOK'
      BY <2>3 DEF Sync, copyVars, TypeOK
    <3>2. Lockstep'
      BY <2>3 DEF Sync, Lockstep, Rounds, TypeOK
    <3>3. GroupCount'
      BY <2>3 DEF Sync, copyVars, GroupCount, TypeOK
    <3>4. InFlight'
      BY <2>3 DEF Sync, copyVars, InFlight, TypeOK
    <3>5. SlotsKept'
      BY <2>3 DEF Sync, copyVars, SlotsKept
    <3> QED BY <3>1, <3>2, <3>3, <3>4, <3>5
  <2>4. ASSUME NEW t \in Thread, Prefetch(t) PROVE IndInv'
    <3>1. /\ committed[t] = Next_tile(t) /\ Next_tile(t) \in Nat
          /\ kt[t] \in Nat /\ kt[t] < NK /\ Next_tile(t) % STAGES \in Slot
      BY <2>4, SlotOf DEF Prefetch, GroupCount, TypeOK, Next_tile
    <3>2. Lockstep'
      BY <2>4 DEF Prefetch, Lockstep, Rounds, TypeOK
    <3>3. GroupCount'
      BY <2>4, <3>1 DEF Prefetch, IssueCopy, CommitEmpty, GroupCount, TypeOK, Next_tile
    <3>4. CASE Next_tile(t) < NK
      <4>1. IssueCopy(t, Next_tile(t) % STAGES, Next_tile(t))
        BY <2>4, <3>4 DEF Prefetch
      <4>2. TypeOK'
        BY <2>4, <3>1, <3>4, <4>1 DEF Prefetch, IssueCopy, TypeOK, Next_tile
      <4>3. InFlight'
        BY <2>4, <3>1, <4>1 DEF Prefetch, IssueCopy, InFlight, TypeOK, Next_tile
      <4>4. SlotsKept'
        BY <3>1, <3>4, <4>1, IssueKeepsSlots
      <4> QED BY <3>2, <3>3, <4>2, <4>3, <4>4
    <3>5. CASE ~(Next_tile(t) < NK)
      <4>1. CommitEmpty(t)
        BY <2>4, <3>5 DEF Prefetch
      <4>2. TypeOK'
        BY <2>4, <3>1, <4>1 DEF Prefetch, CommitEmpty, TypeOK, Next_tile
      <4>3. InFlight'
        BY <2>4, <3>1, <4>1 DEF Prefetch, CommitEmpty, InFlight, TypeOK
      <4>4. SlotsKept'
        <5>1. \A u \in Thread : committed[u] \in Nat
                 /\ committed'[u] = IF u = t THEN committed[u] + 1 ELSE committed[u]
          BY <4>1 DEF CommitEmpty, TypeOK
        <5>2. \A u \in Thread : \A k \in 0 .. NK - 1 :
                k < committed'[u] /\ committed'[u] <= k + STAGES =>
                  k < committed[u] /\ committed[u] <= k + STAGES
          BY <3>1, <3>5, <5>1
        <5> QED BY <4>1, <5>2 DEF CommitEmpty, SlotsKept
      <4> QED BY <3>2, <3>3, <4>2, <4>3, <4>4
    <3> QED BY <3>4, <3>5
  <2>5. ASSUME NEW t \in Thread, Compute(t) PROVE IndInv'
    <3>1. TypeOK'
      BY <2>5 DEF Compute, copyVars, GroupCount, TypeOK
    <3>2. Lockstep'
      BY <2>5 DEF Compute, Lockstep, Rounds, TypeOK
    <3>3. GroupCount'
      BY <2>5 DEF Compute, copyVars, GroupCount, TypeOK
    <3>4. InFlight'
      BY <2>5 DEF Compute, copyVars, InFlight, TypeOK
    <3>5. SlotsKept'
      BY <2>5 DEF Compute, copyVars, SlotsKept
    <3> QED BY <3>1, <3>2, <3>3, <3>4, <3>5
  <2>6. CASE Land
    <3>0. PICK c \in inflight : LandCopy(c)
      BY <2>6 DEF Land
    <3>1. TypeOK'
      BY <2>6, <3>0 DEF Land, LandCopy, TypeOK
    <3>2. Lockstep' /\ GroupCount'
      BY <2>6, <3>0 DEF Land, LandCopy, Lockstep, Rounds, GroupCount
    <3>3. InFlight'
      BY <2>6, <3>0 DEF Land, LandCopy, InFlight
    <3>4. SlotsKept'
      <4> SUFFICES ASSUME NEW u \in Thread, NEW k \in 0 .. NK - 1,
                          k < committed[u], committed[u] <= k + STAGES
                   PROVE  \/ smem'[k % STAGES][u] = k
                          \/ \E d \in inflight' : d.by = u /\ d.tile = k
        BY <3>0 DEF SlotsKept, LandCopy
      <4>1. /\ c.by \in Thread /\ c.slot \in Slot /\ c.tile \in Nat /\ c.slot = c.tile % STAGES
            /\ k \in Nat /\ k % STAGES \in Slot
        BY SlotOf DEF TypeOK, InFlight
      <4>2. c.by = u => c.tile < committed[u] /\ committed[u] <= c.tile + STAGES
        BY DEF InFlight, GroupCount, TypeOK
      <4>3. c.by = u /\ k # c.tile => k % STAGES # c.slot
        <5>1. committed[u] \in Nat /\ STAGES \in Nat \ {0}
          BY DEF TypeOK
        <5>2. c.by = u => k < c.tile + STAGES /\ c.tile < k + STAGES
          BY <4>1, <4>2, <5>1
        <5>3. CASE c.by = u /\ k < c.tile
          BY <4>1, <5>1, <5>2, <5>3, ModsDiffer
        <5>4. CASE c.by = u /\ c.tile < k
          BY <4>1, <5>1, <5>2, <5>4, ModsDiffer
        <5> QED BY <4>1, <5>3, <5>4
      <4>4. CASE c.by = u /\ k = c.tile
        BY <3>0, <4>1, <4>4 DEF LandCopy, TypeOK
      <4>5. CASE c.by # u \/ k # c.tile
        <5>1. smem'[k % STAGES][u] = smem[k % STAGES][u]
          BY <3>0, <4>1, <4>3, <4>5 DEF LandCopy, TypeOK
        <5>2. \A d \in inflight : d.by = u /\ d.tile = k => d \in inflight'
          BY <3>0, <4>5 DEF LandCopy
        <5> QED BY <5>1, <5>2 DEF SlotsKept
      <4> QED BY <4>4, <4>5
    <3> QED BY <3>1, <3>2, <3>3, <3>4
  <2>7. CASE UNCHANGED vars
    BY <2>7 DEF vars, copyVars, TypeOK, Lockstep, Rounds, GroupCount, InFlight, SlotsKept
  <2> QED BY <2>1, <2>2, <2>3, <2>4, <2>5, <2>6, <2>7 DEF Next, ThreadStep
<1> QED BY <1>1, <1>2, PTL DEF Spec

-----------------------------------------------------------------------------
(* What follows from it *)

\* Type correctness of the kernel.
THEOREM TypeCorrect == Spec => []TypeOK
<1>1. IndInv => TypeOK
  BY DEF IndInv
<1> QED BY Invariance, <1>1, PTL

\* Where a thread that computes finds the other threads: past the same barrier, so
\* their copies of its k tile have landed and its slot is still theirs.
LEMMA TileReady ==
  ASSUME IndInv, NEW t \in Thread, pc[t] = "compute"
  PROVE  SlotHolds(kt[t] % STAGES, kt[t]) /\ \A c \in inflight : c.tile # kt[t]
<1> USE CpAsyncAssumption DEF IndInv
<1> DEFINE k == kt[t]
<1>1. k \in 0 .. NK - 1
  BY DEF TypeOK, GroupCount
<1>2. ASSUME NEW u \in Thread
      PROVE  /\ k < committed[u] /\ committed[u] <= k + STAGES
             /\ \A c \in inflight : c.by = u => c.tile # k
  <2>1. Rounds(u) = k + 1
    BY DEF Lockstep, Rounds
  <2>2. \/ pc[u] \in {"prefetch", "compute"} /\ kt[u] = k
        \/ pc[u] \in {"wait", "sync"} /\ kt[u] = k + 1
    BY <1>1, <2>1 DEF Rounds, TypeOK, GroupCount
  <2>3. k < committed[u] /\ committed[u] <= k + STAGES
    BY <1>1, <2>2 DEF GroupCount
  <2>4. \A c \in inflight : c.by = u => c.tile # k
    BY <1>1, <2>2 DEF InFlight, TypeOK
  <2> QED BY <2>3, <2>4
<1>3. \A c \in inflight : c.by \in Thread
  BY DEF TypeOK
<1> QED BY <1>1, <1>2, <1>3 DEF SlotHolds, SlotsKept

\* No thread ever computes from a slot that is not whole.
THEOREM ReadsCorrect == Spec => []ReadsRight
<1>1. IndInv => ReadsRight
  BY TileReady DEF ReadsRight
<1> QED BY Invariance, <1>1, PTL

-----------------------------------------------------------------------------
(* Refinement: the kernel is a staged pipeline *)

\* What the abstract pipeline sees as landed.
LandedParts ==
  {p \in Thread \X (0 .. NK - 1) :
     p[2] < IssuedBy(p[1]) /\ \A c \in inflight : <<c.by, c.tile>> # p}

\* A thread that starts the copy of the next tile issues its part of a load.
LEMMA IssueRefines ==
  ASSUME IndInv, NEW t \in Thread, NEW n, n = committed[t], n < NK,
         IssueCopy(t, n % STAGES, n), kt' = kt,
         \A u \in Thread : n - kt[u] < STAGES
  PROVE  Pipe!Issue(t)
<1> USE CpAsyncAssumption DEF IndInv
<1>1. n \in Nat /\ IssuedBy(t) = n /\ IssuedBy(t)' = n + 1
  BY DEF TypeOK, IssuedBy, Min2, IssueCopy
<1>2. \A u \in Thread : u # t => IssuedBy(u)' = IssuedBy(u)
  BY DEF TypeOK, IssuedBy, Min2, IssueCopy
<1>3. [u \in Thread |-> IssuedBy(u)]' = [[u \in Thread |-> IssuedBy(u)] EXCEPT ![t] = @ + 1]
  BY <1>1, <1>2
<1>4. LandedParts' = LandedParts
  <2>1. ASSUME NEW u \in Thread, NEW k \in 0 .. NK - 1
        PROVE  <<u, k>> \in LandedParts' <=> <<u, k>> \in LandedParts
    <3>1. (\A c \in inflight' : <<c.by, c.tile>> # <<u, k>>)
            <=> (\A c \in inflight : <<c.by, c.tile>> # <<u, k>>) /\ ~(u = t /\ k = n)
      <4> DEFINE new == [by |-> t, slot |-> n % STAGES, tile |-> n, group |-> committed[t]]
      <4>1. inflight' = inflight \cup {new} /\ new.by = t /\ new.tile = n
        BY DEF IssueCopy
      <4> HIDE DEF new
      <4>2. <<new.by, new.tile>> = <<u, k>> <=> u = t /\ k = n
        BY <4>1
      <4> QED BY <4>1, <4>2
    <3>2. k < IssuedBy(u)' <=> k < IssuedBy(u) \/ (u = t /\ k = n)
      BY <1>1, <1>2
    <3>3. u = t => ~(n < IssuedBy(u))
      BY <1>1
    <3> QED BY <3>1, <3>2, <3>3 DEF LandedParts
  <2> QED BY <2>1 DEF LandedParts
<1> QED BY <1>1, <1>3, <1>4 DEF Pipe!Issue, LandedParts

\* Every step issues, lands or consumes a load as the abstract pipeline allows, or
\* leaves it alone.
THEOREM Refinement == Spec => ImplementsPipeline
<1> USE CpAsyncAssumption
<1>1. Init => Pipe!PipeInit
  BY DEF Init, CopyInit, IssuedBy, Min2, Pipe!PipeInit
<1>2. IndInv /\ [Next]_vars => [Pipe!PipeNext]_(Pipe!pipeVars)
  <2> SUFFICES ASSUME IndInv, [Next]_vars PROVE [Pipe!PipeNext]_(Pipe!pipeVars)
    OBVIOUS
  <2> USE DEF IndInv
  <2>1. ASSUME NEW t \in Thread, Prologue(t) PROVE Pipe!PipeNext
    <3>0. committed[t] \in Nat /\ committed[t] < NK /\ committed[t] < STAGES
      BY <2>1 DEF Prologue, GroupCount, TypeOK
    <3>1. committed[t] % STAGES = committed[t]
      BY <3>0, SlotOf
    <3>2. \A u \in Thread : committed[t] - kt[u] < STAGES
      BY <3>0 DEF TypeOK
    <3>3. Pipe!Issue(t)
      BY <2>1, <3>0, <3>1, <3>2, IssueRefines DEF Prologue
    <3> QED BY <3>3 DEF Pipe!PipeNext
  <2>2. ASSUME NEW t \in Thread, Prefetch(t) PROVE [Pipe!PipeNext]_(Pipe!pipeVars)
    <3>1. committed[t] = Next_tile(t) /\ kt[t] \in Nat
      BY <2>2 DEF Prefetch, GroupCount, TypeOK, Next_tile
    <3>2. CASE Next_tile(t) < NK
      <4>1. \A u \in Thread : kt[u] \in Nat /\ kt[u] >= kt[t]
        BY <2>2 DEF Prefetch, Lockstep, Rounds, TypeOK
      <4>2. \A u \in Thread : committed[t] - kt[u] < STAGES
        BY <3>1, <4>1 DEF Next_tile
      <4>3. Pipe!Issue(t)
        BY <2>2, <3>1, <3>2, <4>2, IssueRefines DEF Prefetch
      <4> QED BY <4>3 DEF Pipe!PipeNext
    <3>3. CASE ~(Next_tile(t) < NK)
      <4>1. \A u \in Thread : IssuedBy(u)' = IssuedBy(u)
        BY <2>2, <3>1, <3>3 DEF Prefetch, CommitEmpty, IssuedBy, Min2, TypeOK, Next_tile
      <4>2. inflight' = inflight /\ kt' = kt
        BY <2>2, <3>3 DEF Prefetch, CommitEmpty
      <4> QED BY <4>1, <4>2 DEF Pipe!pipeVars
    <3> QED BY <3>2, <3>3
  <2>3. ASSUME NEW t \in Thread, Compute(t) PROVE Pipe!PipeNext
    <3>1. \A c \in inflight : c.tile # kt[t]
      BY <2>3, TileReady DEF Compute
    <3>2. \A u \in Thread : kt[t] < committed[u]
      <4>1. \A u \in Thread : Rounds(u) = kt[t] + 1
        BY <2>3 DEF Compute, Lockstep, Rounds
      <4> QED BY <4>1 DEF Rounds, GroupCount, TypeOK
    <3>3. kt[t] \in 0 .. NK - 1
      BY <2>3 DEF Compute, GroupCount, TypeOK
    <3>4. \A u \in Thread : <<u, kt[t]>> \in LandedParts
      BY <3>1, <3>2, <3>3 DEF LandedParts, IssuedBy, Min2, TypeOK
    <3>5. \A u \in Thread : IssuedBy(u)' = IssuedBy(u)
      BY <2>3 DEF Compute, copyVars, IssuedBy
    <3>6. Pipe!Consume(t)
      BY <2>3, <3>4, <3>5 DEF Compute, copyVars, LandedParts, Pipe!Consume
    <3> QED BY <3>6 DEF Pipe!PipeNext
  <2>4. CASE Land
    <3>0. PICK c \in inflight : LandCopy(c)
      BY <2>4 DEF Land
    <3>1. /\ c.by \in Thread /\ c.tile \in 0 .. NK - 1 /\ c.tile < IssuedBy(c.by)
      BY DEF TypeOK, InFlight, IssuedBy, Min2
    <3>2. \A u \in Thread : IssuedBy(u)' = IssuedBy(u)
      BY <3>0 DEF LandCopy, IssuedBy
    <3>3. \A d \in inflight : d.by = c.by /\ d.tile = c.tile => d = c
      BY DEF TypeOK, InFlight
    <3>4. LandedParts' = LandedParts \cup {<<c.by, c.tile>>}
      <4>1. ASSUME NEW u \in Thread, NEW k \in 0 .. NK - 1
            PROVE  <<u, k>> \in LandedParts' <=> <<u, k>> \in LandedParts \cup {<<c.by, c.tile>>}
        BY <3>0, <3>1, <3>2, <3>3 DEF LandCopy, LandedParts
      <4> QED BY <3>1, <4>1 DEF LandedParts
    <3>5. <<c.by, c.tile>> \notin LandedParts
      BY DEF LandedParts
    <3>6. Pipe!Land(c.by, c.tile)
      BY <2>4, <3>1, <3>2, <3>4, <3>5 DEF Land, LandedParts, Pipe!Land
    <3> QED BY <3>1, <3>6 DEF Pipe!PipeNext
  <2>5. CASE Sync \/ (\E t \in Thread : Wait(t)) \/ UNCHANGED vars
    <3>1. UNCHANGED <<inflight, committed, kt>>
      BY <2>5 DEF Sync, Wait, vars, copyVars
    <3> QED BY <3>1 DEF IssuedBy, Pipe!pipeVars
  <2> QED BY <2>1, <2>2, <2>3, <2>4, <2>5 DEF Next, ThreadStep
<1> QED BY Invariance, <1>1, <1>2, PTL DEF Spec, ImplementsPipeline, Pipe!PipeSpec
=============================================================================
