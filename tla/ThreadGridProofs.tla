-------------------------- MODULE ThreadGridProofs --------------------------
(***************************************************************************)
(* Proofs about ThreadGrid, for every kernel and grid.                     *)
(*                                                                         *)
(* Threads that meet in a shuffle, a barrier or a launch pass it together  *)
(* (Meetings): this is what the program counters keep of the order of the  *)
(* steps.  With it, the conditions that can be read off a kernel's text    *)
(* carry over to its runs: Declared gives TypeOK, Separated RaceFree,      *)
(* BankFree NoBankConflict.  Of a kernel without atomics and flags more is *)
(* proved: at every moment each cell holds what it would hold if the steps *)
(* had been taken one after another, each by all its threads, as far as    *)
(* its last writer has come (AsInOrder, Settled).  So the outcome is one,  *)
(* and right if it is right in that order.                                 *)
(*                                                                         *)
(* The second half shows that the transpositions meet these conditions,    *)
(* whatever the matrix and the tile; v5 for tiles that are powers of two.  *)
(***************************************************************************)
EXTENDS ThreadGrid, TransposeKernels, FiniteSetTheorems, SequenceTheorems, WellFoundedInduction, TLAPS

-----------------------------------------------------------------------------
(* Where the threads are *)

\* What WellFormed says of the running kernel, step by step.
LEMMA Formed ==
  ASSUME kernel \in DOMAIN Kernel
  PROVE  /\ Len(K.steps) \in Nat /\ DOMAIN K.steps = 1 .. Len(K.steps) /\ K.exit = Len(K.steps) + 1
         /\ IsFiniteSet(K.threads)
         /\ DOMAIN K.result \subseteq DOMAIN K.mem
         /\ \A t \in K.threads, i \in 0 .. Len(K.steps) :
              /\ K.next[t][i] \in i + 1 .. K.exit
              /\ K.next[t][i] # K.exit => t \in DOMAIN K.steps[K.next[t][i]].act
              /\ \A j \in i + 1 .. K.next[t][i] - 1 : t \notin DOMAIN K.steps[j].act
         /\ \A i \in 1 .. Len(K.steps) :
              /\ DOMAIN K.steps[i].act \subseteq K.threads
              /\ K.steps[i].scope = "grid" => DOMAIN K.steps[i].act = K.threads
<1>1. WellFormed(K)
  BY KernelAssumption DEF K
<1> HIDE DEF K
<1> QED BY <1>1 DEF WellFormed, Range

\* What it says of the assignments a thread makes in a step.
LEMMA Statements ==
  ASSUME kernel \in DOMAIN Kernel, NEW i \in 1 .. Len(K.steps), NEW t \in DOMAIN K.steps[i].act
  PROVE  LET mine == K.steps[i].act[t]
         IN /\ Len(mine) \in Nat /\ DOMAIN mine = 1 .. Len(mine)
            /\ K.steps[i].scope = "cas" => Len(mine) = 2
            /\ K.steps[i].writes[t] = {mine[n].to : n \in DOMAIN mine}
            /\ K.steps[i].reads[t] = UNION {Range(mine[n].expr.of) : n \in DOMAIN mine}
<1>1. WellFormed(K)
  BY KernelAssumption DEF K
<1> HIDE DEF K
<1>2. K.steps[i] \in Range(K.steps)
  BY <1>1 DEF WellFormed, Range
<1> DEFINE step == K.steps[i]
<1>3. step \in Range(K.steps) /\ t \in DOMAIN step.act
  BY <1>2
<1> HIDE DEF step
<1>4. LET mine == step.act[t]
      IN /\ Len(mine) \in Nat /\ DOMAIN mine = 1 .. Len(mine)
         /\ step.scope = "cas" => Len(mine) = 2
         /\ step.writes[t] = {mine[n].to : n \in DOMAIN mine}
         /\ step.reads[t] = UNION {Range(mine[n].expr.of) : n \in DOMAIN mine}
  BY <1>1, <1>3 DEF WellFormed
<1> QED BY <1>4 DEF step

\* Every thread is at a step it takes part in, or has left the kernel.
Placed ==
  /\ kernel \in DOMAIN Kernel
  /\ pc \in [K.threads -> 1 .. K.exit]
  /\ \A t \in K.threads : Exited(t) \/ t \in DOMAIN StepOf(t).act

InStep == Placed /\ NobodyAhead

\* The threads ts, all at step p and all who meet there, go on.
Moves(ts, p) ==
  /\ p \in 1 .. Len(K.steps)
  /\ \A t \in ts : t \in DOMAIN K.steps[p].act /\ pc[t] = p
  /\ \A t \in ts, u \in K.threads : MeetIn(K, p, t, u) => u \in ts
  /\ Advance(ts)
  /\ UNCHANGED kernel

\* A thread that goes on passes no step it takes part in.
LEMMA Passes ==
  ASSUME Placed, NEW ts, NEW p, Moves(ts, p), NEW t \in K.threads
  PROVE  /\ pc[t] \in 1 .. K.exit /\ pc'[t] \in 1 .. K.exit /\ pc[t] <= pc'[t]
         /\ t \in ts => pc[t] = p /\ p < pc'[t]
         /\ t \notin ts => pc'[t] = pc[t]
         /\ \A b \in 1 .. Len(K.steps) : t \in DOMAIN K.steps[b].act /\ t \in ts /\ b < pc'[t] => b <= p
         /\ pc'[t] = K.exit \/ t \in DOMAIN K.steps[pc'[t]].act
<1>1. /\ Len(K.steps) \in Nat /\ K.exit = Len(K.steps) + 1
      /\ p \in 1 .. Len(K.steps)
      /\ pc[t] \in 1 .. K.exit
      /\ pc[t] = K.exit \/ t \in DOMAIN K.steps[pc[t]].act
  BY Formed DEF Placed, Moves, Exited, StepOf
<1>2. pc'[t] = IF t \in ts THEN K.next[t][pc[t]] ELSE pc[t]
  BY DEF Moves, Advance
<1>3. CASE t \in ts
  <2>1. pc[t] = p /\ pc'[t] = K.next[t][p] /\ p \in 0 .. Len(K.steps)
    BY <1>1, <1>2, <1>3 DEF Moves
  <2>2. /\ K.next[t][p] \in p + 1 .. K.exit
        /\ K.next[t][p] # K.exit => t \in DOMAIN K.steps[K.next[t][p]].act
        /\ \A j \in p + 1 .. K.next[t][p] - 1 : t \notin DOMAIN K.steps[j].act
    BY <2>1, Formed DEF Placed
  <2> HIDE DEF K
  <2> QED BY <1>1, <1>3, <2>1, <2>2
<1>4. CASE t \notin ts
  BY <1>1, <1>2, <1>4
<1> QED BY <1>3, <1>4

\* Meeting is mutual.
LEMMA Mutual ==
  ASSUME NEW b, NEW t, NEW u, MeetIn(K, b, t, u)
  PROVE  MeetIn(K, b, u, t)
BY DEF MeetIn, SameWarp

\* So nobody gets ahead of a thread it meets.
LEMMA MovesKeepInStep ==
  ASSUME InStep, NEW ts, NEW p, Moves(ts, p)
  PROVE  InStep'
<1> USE DEF InStep
<1>0. kernel' = kernel /\ K' = K /\ Placed
  BY DEF Moves, K
<1>1. Placed'
  <2>1. pc' = [t \in K.threads |-> IF t \in ts THEN K.next[t][pc[t]] ELSE pc[t]]
    BY DEF Moves, Advance
  <2>2. \A t \in K.threads : pc'[t] \in 1 .. K.exit
                             /\ (pc'[t] = K.exit \/ t \in DOMAIN K.steps[pc'[t]].act)
    BY <1>0, Passes
  <2>3. pc' \in [K.threads -> 1 .. K.exit]
    BY <2>1, <2>2
  <2> QED BY <1>0, <2>2, <2>3 DEF Placed, Exited, StepOf
<1>2. ASSUME NEW t \in K.threads, NEW u \in K.threads, NEW b \in pc'[t] .. pc'[u] - 1, MeetIn(K, b, t, u)
      PROVE  FALSE
  <2>1. /\ pc[t] \in Int /\ pc'[t] \in Int /\ pc[t] <= pc'[t] /\ pc[u] \in Int /\ pc'[u] \in 1 .. K.exit
        /\ pc'[t] \in 1 .. K.exit
        /\ t \in ts => p < pc'[t]
        /\ u \in ts => pc[u] = p
        /\ u \notin ts => pc'[u] = pc[u]
    BY <1>0, Passes
  <2>2. b \notin pc[t] .. pc[u] - 1
    BY <1>2 DEF NobodyAhead
  <2>3. b >= pc[t] /\ b \in Int /\ b < pc'[u]
    BY <2>1
  <2>4. u \in ts /\ b >= p /\ p \in Int
    BY <2>1, <2>2, <2>3 DEF Moves
  <2>5. b \in 1 .. Len(K.steps)
    BY <1>0, <2>1, <2>3, Formed DEF Placed
  <2>6. b = p
    <3>1. u \in DOMAIN K.steps[b].act
      BY <1>2 DEF MeetIn
    <3> QED BY <1>0, <2>3, <2>4, <2>5, <3>1, Passes
  <2>7. t \in ts
    BY <1>2, <2>4, <2>6, Mutual DEF Moves
  <2> QED BY <2>1, <2>3, <2>6, <2>7
<1>3. NobodyAhead'
  BY <1>0, <1>2 DEF NobodyAhead
<1> QED BY <1>1, <1>3
\* What a thread at a step knows of it.
LEMMA AtStep ==
  ASSUME Placed, NEW t \in K.threads, ~Exited(t)
  PROVE  /\ pc[t] \in 1 .. Len(K.steps) /\ t \in DOMAIN StepOf(t).act /\ StepOf(t) = K.steps[pc[t]]
         /\ DOMAIN StepOf(t).act \subseteq K.threads
<1>1. pc[t] \in 1 .. K.exit /\ pc[t] # K.exit /\ K.exit = Len(K.steps) + 1 /\ Len(K.steps) \in Nat
  BY Formed DEF Placed, Exited
<1>2. pc[t] \in 1 .. Len(K.steps)
  BY <1>1
<1> QED BY <1>2, Formed DEF Placed, StepOf

\* A step of its own moves a thread alone.
LEMMA MovesAlone ==
  ASSUME InStep, NEW t \in K.threads, ~Exited(t), StepOf(t).scope \notin {"warp", "block", "grid"},
         Advance({t}), UNCHANGED kernel
  PROVE  Moves({t}, pc[t])
<1>1. \A u : ~MeetIn(K, pc[t], t, u)
  BY DEF MeetIn, StepOf
<1> QED BY <1>1, AtStep DEF InStep, Moves

\* The lanes that take thread t's step are those of its warp that take part in it.
LEMMA LanesOfWarp ==
  ASSUME NEW t
  PROVE  Lanes(t) = {u \in DOMAIN StepOf(t).act : SameWarp(K, t, u)}
BY DEF Lanes, SameWarp

\* A shuffle moves its lanes.
LEMMA MovesLanes ==
  ASSUME InStep, NEW t \in K.threads, AtScope(t, "warp"), \A u \in Lanes(t) : pc[u] = pc[t],
         Advance(Lanes(t)), UNCHANGED kernel
  PROVE  Moves(Lanes(t), pc[t])
<1>1. /\ pc[t] \in 1 .. Len(K.steps) /\ StepOf(t) = K.steps[pc[t]]
      /\ StepOf(t).scope = "warp"
  BY AtStep DEF InStep, AtScope
<1>2. ASSUME NEW u \in Lanes(t), NEW v \in K.threads, MeetIn(K, pc[t], u, v)
      PROVE  v \in Lanes(t)
  BY <1>1, <1>2, LanesOfWarp DEF MeetIn, SameWarp
<1>3. \A u \in Lanes(t) : u \in DOMAIN K.steps[pc[t]].act
  BY <1>1, LanesOfWarp
<1> QED BY <1>1, <1>2, <1>3 DEF Moves

\* Two that meet are not on different sides of the meeting.
LEMMA SameSide ==
  ASSUME InStep, NEW t \in K.threads, NEW u \in K.threads, NEW b \in 1 .. Len(K.steps),
         MeetIn(K, b, t, u), b < pc[u]
  PROVE  b < pc[t]
<1>1. pc[t] \in Int /\ pc[u] \in Int /\ b \in Int
  BY Passes, Formed DEF InStep, Placed
<1>2. SUFFICES ASSUME pc[t] <= b PROVE FALSE
  BY <1>1
<1>3. b \in pc[t] .. pc[u] - 1
  BY <1>1, <1>2
<1> QED BY <1>3 DEF InStep, NobodyAhead

\* All wait for the same launch.
LEMMA MovesAll ==
  ASSUME InStep, NextLaunch, NEW t \in K.threads
  PROVE  Moves(K.threads, pc[t]) /\ AtScope(t, "grid") /\ UNCHANGED mem
<1>1. \A u \in K.threads : /\ AtScope(u, "grid") /\ ~Exited(u) /\ StepOf(u) = K.steps[pc[u]]
                           /\ pc[u] \in 1 .. Len(K.steps) /\ DOMAIN StepOf(u).act = K.threads
  <2>1. ASSUME NEW u \in K.threads PROVE /\ AtScope(u, "grid") /\ ~Exited(u) /\ StepOf(u) = K.steps[pc[u]]
                           /\ pc[u] \in 1 .. Len(K.steps) /\ DOMAIN StepOf(u).act = K.threads
    <3>1. AtScope(u, "grid") /\ ~Exited(u)
      BY DEF NextLaunch, AtScope
    <3>2. pc[u] \in 1 .. Len(K.steps) /\ StepOf(u) = K.steps[pc[u]]
      BY <3>1, AtStep DEF InStep
    <3> QED BY <3>1, <3>2, Formed DEF InStep, Placed, AtScope
  <2> QED BY <2>1
<1>2. ASSUME NEW u \in K.threads, NEW v \in K.threads PROVE MeetIn(K, pc[u], u, v)
  BY <1>1 DEF MeetIn, AtScope
<1>3. ASSUME NEW u \in K.threads, NEW v \in K.threads PROVE pc[u] >= pc[v]
  <2>1. /\ pc[u] \in 1 .. Len(K.steps) /\ pc[v] \in 1 .. Len(K.steps) /\ MeetIn(K, pc[u], u, v)
        /\ Len(K.steps) \in Nat
    BY <1>1, <1>2, Formed DEF InStep, Placed
  <2>2. SUFFICES ASSUME pc[u] < pc[v] PROVE FALSE
    BY <2>1
  <2> QED BY <2>1, <2>2, SameSide
<1>4. \A u \in K.threads : pc[u] = pc[t]
  <2>1. ASSUME NEW u \in K.threads PROVE pc[u] = pc[t]
    <3>1. pc[u] >= pc[t] /\ pc[t] >= pc[u] /\ pc[t] \in Int /\ pc[u] \in Int
      BY <1>1, <1>3, Formed DEF InStep, Placed
    <3> QED BY <3>1
  <2> QED BY <2>1
<1> QED BY <1>1, <1>4 DEF Moves, NextLaunch

\* In a __syncthreads that is over everybody who takes part waits.
LEMMA MovesBlock ==
  ASSUME InStep, NEW t \in K.threads, AtScope(t, "block"),
         \A u \in InBlock(Blk(t), K.threads) : pc[u] = pc[t] \/ Returned(u),
         Advance(InBlock(Blk(t), DOMAIN StepOf(t).act)), UNCHANGED kernel
  PROVE  Moves(InBlock(Blk(t), DOMAIN StepOf(t).act), pc[t])
<1> DEFINE b == pc[t]
           ts == InBlock(Blk(t), DOMAIN StepOf(t).act)
<1>1. /\ b \in 1 .. Len(K.steps) /\ StepOf(t) = K.steps[b] /\ Len(K.steps) \in Nat
      /\ t \in DOMAIN K.steps[b].act /\ DOMAIN K.steps[b].act \subseteq K.threads
      /\ K.steps[b].scope = "block" /\ K.exit = Len(K.steps) + 1
  BY AtStep, Formed DEF InStep, AtScope, Placed
<1>2. \A u \in ts : u \in K.threads /\ u \in DOMAIN K.steps[b].act /\ Blk(u) = Blk(t)
  BY <1>1 DEF InBlock
<1>3. ASSUME NEW u \in ts PROVE pc[u] = b
  <2>1. SUFFICES ASSUME pc[u] # b PROVE FALSE
    OBVIOUS
  <2>2. MeetIn(K, b, t, u) /\ u \in K.threads
    BY <1>1, <1>2 DEF MeetIn
  <2>3. pc[u] \in Int /\ pc[u] < b
    <3>1. pc[u] \in Int /\ b \in Int /\ ~(b < pc[t])
      BY <1>1, <2>2, Formed DEF InStep, Placed
    <3>2. ~(b < pc[u])
      BY <1>1, <2>2, <3>1, SameSide
    <3> QED BY <2>1, <3>1, <3>2
  <2>4. u \in InBlock(Blk(t), K.threads)
    BY <1>2 DEF InBlock
  <2>5. ~Exited(u)
    BY <1>1, <2>3 DEF Exited
  <2>6. AtScope(u, "grid")
    BY <2>1, <2>4, <2>5 DEF Returned
  <2>7. pc[u] \in 1 .. Len(K.steps) /\ StepOf(u) = K.steps[pc[u]] /\ K.steps[pc[u]].scope = "grid"
    BY <2>2, <2>5, <2>6, AtStep DEF InStep, AtScope
  <2>8. MeetIn(K, pc[u], u, t)
    BY <2>2, <2>7, Formed DEF MeetIn, InStep, Placed
  <2>9. pc[u] < pc[u]
    BY <2>2, <2>3, <2>7, <2>8, SameSide
  <2> QED BY <2>3, <2>9
<1>4. ASSUME NEW u \in ts, NEW v \in K.threads, MeetIn(K, b, u, v) PROVE v \in ts
  BY <1>1, <1>2, <1>4 DEF MeetIn, InBlock
<1> QED BY <1>1, <1>2, <1>3, <1>4 DEF Moves

\* Every step moves threads that meet, or none.
LEMMA StepMoves ==
  ASSUME InStep, Next
  PROVE  UNCHANGED <<kernel, pc>> \/ \E ts, p : Moves(ts, p)
<1>1. CASE ThreadStep
  BY <1>1, MovesAlone DEF ThreadStep, AtScope, Run
<1>2. CASE WarpStep
  BY <1>2, MovesLanes DEF WarpStep, Run
<1>3. CASE SyncThreads
  BY <1>3, MovesBlock DEF SyncThreads
<1>4. CASE NextLaunch
  <2>1. CASE K.threads = {}
    <3>1. pc = [t \in {} |-> pc[t]] /\ pc' = [t \in {} |-> pc[t]] /\ kernel' = kernel
      BY <1>4, <2>1 DEF NextLaunch, Advance, InStep, Placed
    <3> QED BY <3>1
  <2>2. CASE K.threads # {}
    BY <1>4, <2>2, MovesAll
  <2> QED BY <2>1, <2>2
<1>5. CASE AwaitOver
  BY <1>5, MovesAlone DEF AwaitOver, AtScope, Run
<1>6. CASE CasSucceeds
  BY <1>6, MovesAlone DEF CasSucceeds, AtScope, Run
<1>7. CASE CasRetries
  BY <1>7 DEF CasRetries
<1>8. CASE Finished
  BY <1>8 DEF Finished, vars
<1> QED BY <1>1, <1>2, <1>3, <1>4, <1>5, <1>6, <1>7, <1>8 DEF Next

\* Where no thread is, all are where they should be: at their first step.
LEMMA InitInStep == Init => InStep
<1> SUFFICES ASSUME Init PROVE InStep
  OBVIOUS
<1>1. kernel \in DOMAIN Kernel /\ pc = [t \in K.threads |-> K.next[t][0]]
  BY DEF Init
<1>2. /\ Len(K.steps) \in Nat /\ K.exit = Len(K.steps) + 1
      /\ \A t \in K.threads :
           /\ K.next[t][0] \in 1 .. K.exit
           /\ K.next[t][0] # K.exit => t \in DOMAIN K.steps[K.next[t][0]].act
           /\ \A j \in 1 .. K.next[t][0] - 1 : t \notin DOMAIN K.steps[j].act
  <2>1. Len(K.steps) \in Nat /\ 0 \in 0 .. Len(K.steps)
    BY <1>1, Formed
  <2>2. \A t \in K.threads :
           /\ K.next[t][0] \in 0 + 1 .. K.exit
           /\ K.next[t][0] # K.exit => t \in DOMAIN K.steps[K.next[t][0]].act
           /\ \A j \in 0 + 1 .. K.next[t][0] - 1 : t \notin DOMAIN K.steps[j].act
    BY <1>1, <2>1, Formed
  <2> QED BY <1>1, <2>1, <2>2, Formed
<1>3. Placed
  BY <1>1, <1>2 DEF Placed, Exited, StepOf
<1>4. ASSUME NEW t \in K.threads, NEW u \in K.threads, NEW b \in pc[t] .. pc[u] - 1, MeetIn(K, b, t, u)
      PROVE  FALSE
  <2>1. b \in 1 .. K.next[u][0] - 1
    BY <1>1, <1>2
  <2> QED BY <1>2, <1>4, <2>1 DEF MeetIn
<1> QED BY <1>3, <1>4 DEF InStep, NobodyAhead

\* In every kernel, nobody leaves a shuffle, a barrier or a launch before all who
\* take part have come to it.
THEOREM Meetings == Spec => []InStep
<1>1. ASSUME InStep, [Next]_vars PROVE InStep'
  <2>1. CASE UNCHANGED <<kernel, pc>>
    BY <1>1, <2>1 DEF InStep, Placed, NobodyAhead, Exited, StepOf, K, MeetIn, SameWarp
  <2>2. CASE \E ts, p : Moves(ts, p)
    BY <1>1, <2>2, MovesKeepInStep
  <2>3. CASE UNCHANGED vars
    BY <2>1, <2>3 DEF vars
  <2> QED BY <1>1, <2>1, <2>2, <2>3, StepMoves
<1> QED BY <1>1, InitInStep, PTL DEF Spec

\* In particular nobody is ahead.
THEOREM KeepTogether == Spec => []NobodyAhead
BY Meetings, PTL DEF InStep

-----------------------------------------------------------------------------
(* What a step stores *)

\* Induction: a set that holds 0 and with every number the next holds all of them.
LEMMA InductionOnSet ==
  ASSUME NEW S, 0 \in S, \A n \in Nat : n \in S => n + 1 \in S
  PROVE  Nat \subseteq S
<1> DEFINE R == OpToRel(<, Nat)
           Outside == Nat \ S
<1>1. SUFFICES ASSUME Outside # {} PROVE FALSE
  OBVIOUS
<1>2. Outside \subseteq Nat /\ IsWellFoundedOn(R, Nat)
  BY NatLessThanWellFounded
<1>3. \A i, j \in Nat : i < j => <<i, j>> \in R
  BY DEF OpToRel
<1> HIDE DEF R, Outside
<1>4. PICK m \in Outside : \A y \in Outside : ~ (<<y, m>> \in R)
  BY <1>1, <1>2, WFMin
<1>5. m \in Nat /\ m \notin S /\ m # 0
  BY <1>4 DEF Outside
<1>6. m - 1 \in Nat /\ m - 1 < m
  BY <1>5
<1>7. m - 1 \in S
  BY <1>3, <1>4, <1>5, <1>6 DEF Outside
<1>8. m - 1 + 1 \in S
  BY <1>6, <1>7
<1> QED BY <1>5, <1>8

\* One function over another.
LEMMA OverIs ==
  ASSUME NEW f, NEW g
  PROVE  Over(f, g) = [x \in DOMAIN f \cup DOMAIN g |-> IF x \in DOMAIN f THEN f[x] ELSE g[x]]
BY DEF Over

\* A number no smaller than any of a finite set of them.
LEMMA MaxIs ==
  ASSUME NEW S \in SUBSET Nat, IsFiniteSet(S), S # {}
  PROVE  Max(S) \in S /\ \A i \in S : i <= Max(S)
<1> DEFINE Bounded(T) == T # {} => \E x \in T : \A y \in T : x >= y
           Fine == {n \in Nat : \A T \in SUBSET S : IsFiniteSet(T) /\ Cardinality(T) = n => Bounded(T)}
<1>1. 0 \in Fine
  BY FS_EmptySet
<1>2. ASSUME NEW n \in Nat, n \in Fine PROVE n + 1 \in Fine
  <2>1. SUFFICES ASSUME NEW T \in SUBSET S, IsFiniteSet(T), Cardinality(T) = n + 1 PROVE Bounded(T)
    OBVIOUS
  <2>2. PICK e \in T : TRUE
    <3>1. T # {}
      <4>1. n + 1 # 0
        OBVIOUS
      <4> QED BY <2>1, <4>1, FS_EmptySet
    <3> QED BY <3>1
  <2>3. IsFiniteSet(T \ {e}) /\ Cardinality(T \ {e}) = n
    <3>1. IsFiniteSet(T \ {e}) /\ Cardinality(T \ {e}) = Cardinality(T) - 1
      BY <2>1, <2>2, FS_RemoveElement
    <3> QED BY <2>1, <3>1
  <2>4. Bounded(T \ {e})
    BY <1>2, <2>3
  <2>5. CASE T \ {e} = {}
    BY <2>5
  <2>6. CASE T \ {e} # {}
    <3>1. PICK x \in T \ {e} : \A y \in T \ {e} : x >= y
      BY <2>4, <2>6
    <3>2. x \in Nat /\ e \in Nat /\ \A y \in T : y \in Nat
      OBVIOUS
    <3>3. CASE x >= e
      BY <3>1, <3>2, <3>3
    <3>4. CASE ~(x >= e)
      BY <3>1, <3>2, <3>4
    <3> QED BY <3>3, <3>4
  <2> QED BY <2>5, <2>6
<1> HIDE DEF Fine
<1>3. Cardinality(S) \in Fine
  BY <1>1, <1>2, InductionOnSet, FS_CardinalityType
<1>4. \E x \in S : \A y \in S : x >= y
  BY <1>3 DEF Fine
<1>5. Max(S) \in S /\ \A y \in S : Max(S) >= y
  BY <1>4 DEF Max
<1> QED BY <1>5

\* The k-th assignments of the lanes, and what they add to what was stored before.
Now(ts, act, k) == {act[t][k] : t \in {u \in ts : k <= Len(act[u])}}
Assigned(m, new, now) ==
  Over([c \in {a.to : a \in now} |-> Value(new, m, (CHOOSE a \in now : a.to = c).expr)], new)
Once(m, x, ts, act, k) == CHOOSE y \in {Assigned(m, new, Now(ts, act, k)) : new \in {x}} : TRUE
LongestOf(ts, act) == Max({Len(act[t]) : t \in ts})

\* The stores one after another.
Stored(f, m, ts, act, k) ==
  /\ f[0] = <<>>
  /\ \A i \in 1 .. k : f[i] = Assigned(m, f[i - 1], Now(ts, act, i))

\* Lanes with finitely many assignments.
Finite(ts, act) ==
  /\ ts # {} /\ IsFiniteSet(ts)
  /\ \A t \in ts : Len(act[t]) \in Nat /\ DOMAIN act[t] = 1 .. Len(act[t])

\* The longest lane.
LEMMA LongestIs ==
  ASSUME NEW ts, NEW act, Finite(ts, act)
  PROVE  LongestOf(ts, act) \in Nat /\ \A t \in ts : Len(act[t]) <= LongestOf(ts, act)
<1> DEFINE S == {Len(act[t]) : t \in ts}
<1>1. S \in SUBSET Nat /\ S # {}
  BY DEF Finite
<1>2. IsFiniteSet(S)
  <2>1. [t \in ts |-> Len(act[t])] \in Surjection(ts, S)
    BY DEF Surjection
  <2> QED BY <2>1, FS_Surjection DEF Finite
<1>3. Max(S) \in S /\ \A i \in S : i <= Max(S)
  BY <1>1, <1>2, MaxIs
<1> QED BY <1>1, <1>3 DEF LongestOf

\* The recursion that defines Stores has a result.
LEMMA StoresComputed ==
  ASSUME NEW m, NEW ts, NEW act, Finite(ts, act)
  PROVE  \E f : Stored(f, m, ts, act, LongestOf(ts, act)) /\ Stores(m, ts, act) = f[LongestOf(ts, act)]
<1> DEFINE n == LongestOf(ts, act)
           Fits(f) == f = [k \in 0 .. n |-> IF k = 0 THEN <<>> ELSE Once(m, f[k - 1], ts, act, k)]
           Shaped(f, k) == f = [i \in 0 .. k |-> f[i]] /\ Stored(f, m, ts, act, k)
           Done == {k \in Nat : \E f : Shaped(f, k)}
<1>1. n \in Nat
  BY LongestIs
<1>2. 0 \in Done
  <2> DEFINE f == [i \in 0 .. 0 |-> <<>>]
  <2>1. Shaped(f, 0)
    BY DEF Stored
  <2> QED BY <2>1
<1>3. ASSUME NEW k \in Nat, k \in Done PROVE k + 1 \in Done
  <2>1. PICK f : Shaped(f, k)
    BY <1>3
  <2> DEFINE next == Assigned(m, f[k], Now(ts, act, k + 1))
             g == [i \in 0 .. k + 1 |-> IF i = k + 1 THEN next ELSE f[i]]
  <2> HIDE DEF next
  <2>2. \A i \in 0 .. k : g[i] = f[i]
    OBVIOUS
  <2>3. g[k + 1] = next /\ g = [i \in 0 .. k + 1 |-> g[i]]
    OBVIOUS
  <2> HIDE DEF g
  <2>4. g[0] = <<>>
    BY <2>1, <2>2 DEF Stored
  <2>5. ASSUME NEW i \in 1 .. k + 1 PROVE g[i] = Assigned(m, g[i - 1], Now(ts, act, i))
    <3>1. CASE i = k + 1
      BY <2>2, <2>3, <3>1 DEF next
    <3>2. CASE i # k + 1
      <4>1. i \in 1 .. k /\ i \in 0 .. k /\ i - 1 \in 0 .. k
        BY <3>2
      <4> QED BY <2>1, <2>2, <4>1 DEF Stored
    <3> QED BY <3>1, <3>2
  <2>6. Shaped(g, k + 1)
    BY <2>3, <2>4, <2>5 DEF Stored
  <2> QED BY <2>6
<1> HIDE DEF Done
<1>4. PICK f : Shaped(f, n)
  BY <1>1, <1>2, <1>3, InductionOnSet DEF Done
<1>5. \A i \in 1 .. n : f[i] = Once(m, f[i - 1], ts, act, i)
  BY <1>4 DEF Stored, Once
<1> HIDE DEF n
<1>6. Fits(f)
  <2>1. f = [i \in 0 .. n |-> f[i]] /\ f[0] = <<>>
    BY <1>4 DEF Stored
  <2>2. ASSUME NEW i \in 0 .. n PROVE f[i] = IF i = 0 THEN <<>> ELSE Once(m, f[i - 1], ts, act, i)
    <3>1. CASE i = 0
      BY <2>1, <3>1
    <3>2. CASE i # 0
      <4>1. i \in 1 .. n
        BY <1>1, <3>2
      <4> QED BY <1>5, <3>2, <4>1
    <3> QED BY <3>1, <3>2
  <2> QED BY <2>1, <2>2
<1> DEFINE g == CHOOSE h : Fits(h)
<1>7. Fits(g)
  BY <1>6
<1>8. Stores(m, ts, act) = g[n]
  BY DEF Stores, Assigned, Now, LongestOf, n, Given, Once
<1> HIDE DEF g
<1>9. Stored(g, m, ts, act, n)
  <2>1. g[0] = <<>>
    BY <1>1, <1>7
  <2>2. ASSUME NEW i \in 1 .. n PROVE g[i] = Assigned(m, g[i - 1], Now(ts, act, i))
    <3>1. i \in 0 .. n /\ i # 0
      BY <1>1
    <3>2. g[i] = Once(m, g[i - 1], ts, act, i)
      BY <1>7, <3>1
    <3> QED BY <3>2 DEF Once
  <2> QED BY <2>1, <2>2 DEF Stored
<1> QED BY <1>8, <1>9 DEF n

\* The cells that the lanes write.
Cells(ts, act) == UNION {{act[t][n].to : n \in 1 .. Len(act[t])} : t \in ts}

\* Each of them is stored, and no other.
LEMMA StoredCells ==
  ASSUME NEW m, NEW ts, NEW act, Finite(ts, act)
  PROVE  DOMAIN Stores(m, ts, act) = Cells(ts, act)
<1> DEFINE n == LongestOf(ts, act)
           By(k) == {c \in Cells(ts, act) : \E t \in ts : \E j \in 1 .. Len(act[t]) : j <= k /\ c = act[t][j].to}
<1>1. n \in Nat /\ \A t \in ts : Len(act[t]) \in Nat /\ Len(act[t]) <= n
  BY LongestIs DEF Finite
<1>2. PICK f : Stored(f, m, ts, act, n) /\ Stores(m, ts, act) = f[n]
  BY StoresComputed
<1> HIDE DEF n
<1> DEFINE Done == {k \in Nat : k <= n => DOMAIN f[k] = By(k)}
<1>3. 0 \in Done
  <2>1. DOMAIN f[0] = {}
    BY <1>2 DEF Stored
  <2>2. By(0) = {}
    BY <1>1
  <2> QED BY <2>1, <2>2
<1>4. ASSUME NEW k \in Nat, k \in Done PROVE k + 1 \in Done
  <2>1. SUFFICES ASSUME k + 1 <= n PROVE DOMAIN f[k + 1] = By(k + 1)
    OBVIOUS
  <2>2. DOMAIN f[k] = By(k)
    BY <1>1, <1>4, <2>1
  <2>3. f[k + 1] = Assigned(m, f[k], Now(ts, act, k + 1))
    BY <1>1, <1>2, <2>1 DEF Stored
  <2>4. DOMAIN f[k + 1] = {a.to : a \in Now(ts, act, k + 1)} \cup DOMAIN f[k]
    BY <2>3, OverIs DEF Assigned
  <2>5. ASSUME NEW c \in {a.to : a \in Now(ts, act, k + 1)} PROVE c \in By(k + 1)
    <3>1. PICK t \in ts : k + 1 <= Len(act[t]) /\ c = act[t][k + 1].to
      BY DEF Now
    <3>2. k + 1 \in 1 .. Len(act[t])
      BY <1>1, <3>1
    <3> QED BY <3>1, <3>2 DEF Cells
  <2>6. ASSUME NEW c \in By(k) PROVE c \in By(k + 1)
    BY <1>1
  <2>7. ASSUME NEW c \in By(k + 1) PROVE c \in By(k) \/ c \in {a.to : a \in Now(ts, act, k + 1)}
    <3>1. PICK t \in ts : \E j \in 1 .. Len(act[t]) : j <= k + 1 /\ c = act[t][j].to
      OBVIOUS
    <3>2. PICK j \in 1 .. Len(act[t]) : j <= k + 1 /\ c = act[t][j].to
      BY <3>1
    <3>3. CASE j = k + 1
      <4>1. k + 1 <= Len(act[t]) /\ act[t][k + 1] \in Now(ts, act, k + 1)
        BY <1>1, <3>3 DEF Now
      <4> QED BY <3>2, <3>3, <4>1
    <3>4. CASE j # k + 1
      BY <1>1, <3>2, <3>4
    <3> QED BY <3>3, <3>4
  <2> HIDE DEF By
  <2> QED BY <2>2, <2>4, <2>5, <2>6, <2>7
<1>5. n \in Done
  <2> HIDE DEF Done
  <2> QED BY <1>1, <1>3, <1>4, InductionOnSet
<1>6. By(n) = Cells(ts, act)
  BY <1>1 DEF Cells
<1>7. DOMAIN f[n] = By(n)
  <2> HIDE DEF By
  <2> QED BY <1>1, <1>5
<1> HIDE DEF By, Done
<1> QED BY <1>2, <1>6, <1>7

\* What the lanes store rests only on what they read.
LEMMA SameStores ==
  ASSUME NEW m, NEW o, NEW ts, NEW act, Finite(ts, act),
         \A t \in ts : \A n \in 1 .. Len(act[t]) : \A c \in Range(act[t][n].expr.of) :
           c \in DOMAIN m /\ c \in DOMAIN o /\ m[c] = o[c]
  PROVE  Stores(m, ts, act) = Stores(o, ts, act)
<1> DEFINE n == LongestOf(ts, act)
<1>1. n \in Nat /\ \A t \in ts : Len(act[t]) \in Nat /\ DOMAIN act[t] = 1 .. Len(act[t])
  BY LongestIs DEF Finite
<1>2. PICK f : Stored(f, m, ts, act, n) /\ Stores(m, ts, act) = f[n]
  BY StoresComputed
<1>3. PICK g : Stored(g, o, ts, act, n) /\ Stores(o, ts, act) = g[n]
  BY StoresComputed
<1> HIDE DEF n
<1> DEFINE Done == {k \in Nat : k <= n => f[k] = g[k]}
<1>4. 0 \in Done
  BY <1>2, <1>3 DEF Stored
<1>5. ASSUME NEW k \in Nat, k \in Done PROVE k + 1 \in Done
  <2>1. SUFFICES ASSUME k + 1 <= n PROVE f[k + 1] = g[k + 1]
    OBVIOUS
  <2> DEFINE new == f[k]
             now == Now(ts, act, k + 1)
             x(c) == (CHOOSE a \in now : a.to = c).expr
  <2>2. new = g[k]
    BY <1>1, <1>5, <2>1
  <2>3. f[k + 1] = Assigned(m, new, now) /\ g[k + 1] = Assigned(o, new, now)
    BY <1>1, <1>2, <1>3, <2>1, <2>2 DEF Stored
  <2>4. ASSUME NEW a \in now PROVE Value(new, m, a.expr) = Value(new, o, a.expr)
    <3>1. PICK t \in ts : k + 1 <= Len(act[t]) /\ a = act[t][k + 1]
      BY DEF Now
    <3>2. k + 1 \in 1 .. Len(act[t])
      BY <1>1, <3>1
    <3>3. \A i \in DOMAIN a.expr.of : /\ a.expr.of[i] \in DOMAIN m /\ a.expr.of[i] \in DOMAIN o
                                     /\ m[a.expr.of[i]] = o[a.expr.of[i]]
      BY <3>1, <3>2 DEF Range
    <3>4. \A i \in DOMAIN a.expr.of : Load(new, m, a.expr.of[i]) = Load(new, o, a.expr.of[i])
      BY <3>3 DEF Load
    <3>5. [i \in DOMAIN a.expr.of |-> Load(new, m, a.expr.of[i])]
            = [i \in DOMAIN a.expr.of |-> Load(new, o, a.expr.of[i])]
      BY <3>4
    <3> QED BY <3>5 DEF Value
  <2> HIDE DEF new, now
  <2>5. [c \in {a.to : a \in now} |-> Value(new, m, x(c))] = [c \in {a.to : a \in now} |-> Value(new, o, x(c))]
    <3>1. ASSUME NEW c \in {a.to : a \in now} PROVE Value(new, m, x(c)) = Value(new, o, x(c))
      <4>1. (CHOOSE a \in now : a.to = c) \in now
        OBVIOUS
      <4> QED BY <2>4, <4>1
    <3> QED BY <3>1
  <2> QED BY <2>3, <2>5 DEF Assigned
<1>6. n \in Done
  <2> HIDE DEF Done
  <2> QED BY <1>1, <1>4, <1>5, InductionOnSet
<1> QED BY <1>1, <1>2, <1>3, <1>6

-----------------------------------------------------------------------------
(* No access outside, no race *)

\* The accesses of a declared kernel.
LEMMA Within ==
  ASSUME kernel \in DOMAIN Kernel, Declared(K), NEW i \in 1 .. Len(K.steps), NEW t \in DOMAIN K.steps[i].act
  PROVE  K.steps[i].reads[t] \cup K.steps[i].writes[t] \subseteq DOMAIN K.mem
<1>1. K.steps[i] \in Range(K.steps)
  BY Formed DEF Range
<1> DEFINE step == K.steps[i]
<1>2. step \in Range(K.steps) /\ t \in DOMAIN step.act
  BY <1>1
<1> HIDE DEF step
<1>3. step.reads[t] \cup step.writes[t] \subseteq DOMAIN K.mem
  BY <1>2 DEF Declared
<1> QED BY <1>3 DEF step

\* The cells that lanes of a step write are the step's.
LEMMA CellsOfStep ==
  ASSUME kernel \in DOMAIN Kernel, NEW i \in 1 .. Len(K.steps),
         NEW ts \in SUBSET DOMAIN K.steps[i].act, ts # {}
  PROVE  /\ Finite(ts, K.steps[i].act)
         /\ Cells(ts, K.steps[i].act) = UNION {K.steps[i].writes[t] : t \in ts}
<1> DEFINE act == K.steps[i].act
           writes == K.steps[i].writes
<1>1. \A t \in ts : Len(act[t]) \in Nat /\ DOMAIN act[t] = 1 .. Len(act[t])
                    /\ writes[t] = {act[t][n].to : n \in DOMAIN act[t]}
  BY Statements
<1>2. IsFiniteSet(ts)
  BY Formed, FS_Subset
<1> HIDE DEF act, writes
<1>3. Finite(ts, act)
  BY <1>1, <1>2 DEF Finite
<1>4. Cells(ts, act) = UNION {writes[t] : t \in ts}
  BY <1>1 DEF Cells
<1> QED BY <1>3, <1>4 DEF act, writes

\* A kernel that declares its cells stores in no other.
Contained == Declared(K) => DOMAIN mem = DOMAIN K.mem

\* Whatever lanes of a step store, the memory's cells stay the same.
LEMMA StaysContained ==
  ASSUME InStep, Declared(K), DOMAIN mem = DOMAIN K.mem, NEW t \in K.threads, ~Exited(t),
         NEW ts \in SUBSET DOMAIN StepOf(t).act, ts # {}
  PROVE  DOMAIN Over(Stores(mem, ts, StepOf(t).act), mem) = DOMAIN mem
<1>1. pc[t] \in 1 .. Len(K.steps) /\ StepOf(t) = K.steps[pc[t]] /\ kernel \in DOMAIN Kernel
  BY AtStep DEF InStep, Placed
<1>2. Finite(ts, StepOf(t).act) /\ Cells(ts, StepOf(t).act) = UNION {StepOf(t).writes[u] : u \in ts}
  <2>1. ts \in SUBSET DOMAIN K.steps[pc[t]].act
    BY <1>1
  <2>2. /\ Finite(ts, K.steps[pc[t]].act)
        /\ Cells(ts, K.steps[pc[t]].act) = UNION {K.steps[pc[t]].writes[u] : u \in ts}
    BY <1>1, <2>1, CellsOfStep
  <2> QED BY <1>1, <2>2
<1>3. DOMAIN Stores(mem, ts, StepOf(t).act) \subseteq DOMAIN mem
  BY <1>1, <1>2, StoredCells, Within
<1> QED BY <1>3, OverIs

\* One store of a thread, as atomicCAS does: the first or the second of its step.
LEMMA StaysContainedCas ==
  ASSUME InStep, Declared(K), DOMAIN mem = DOMAIN K.mem, NEW t \in K.threads, AtScope(t, "cas"),
         NEW k \in {1, 2}
  PROVE  DOMAIN Over(Stores(mem, {t}, [u \in {t} |-> <<StepOf(t).act[t][k]>>]), mem) = DOMAIN mem
<1> DEFINE act == [u \in {t} |-> <<StepOf(t).act[t][k]>>]
<1>1. /\ pc[t] \in 1 .. Len(K.steps) /\ StepOf(t) = K.steps[pc[t]] /\ kernel \in DOMAIN Kernel
      /\ t \in DOMAIN StepOf(t).act /\ StepOf(t).scope = "cas"
  BY AtStep DEF InStep, Placed, AtScope
<1>2. Finite({t}, act)
  <2>1. act[t] = <<StepOf(t).act[t][k]>>
    OBVIOUS
  <2>2. Len(act[t]) \in Nat /\ DOMAIN act[t] = 1 .. Len(act[t])
    BY <2>1
  <2> QED BY <2>2, FS_Singleton DEF Finite
<1>3. Cells({t}, act) = {StepOf(t).act[t][k].to}
  BY DEF Cells
<1>4. k \in DOMAIN StepOf(t).act[t] /\ StepOf(t).writes[t] = {StepOf(t).act[t][n].to : n \in DOMAIN StepOf(t).act[t]}
  <2> DEFINE step == K.steps[pc[t]]
  <2>1. /\ DOMAIN step.act[t] = 1 .. Len(step.act[t])
        /\ step.scope = "cas" => Len(step.act[t]) = 2
        /\ step.writes[t] = {step.act[t][n].to : n \in DOMAIN step.act[t]}
    BY <1>1, Statements
  <2>2. 1 \in 1 .. 2 /\ 2 \in 1 .. 2
    OBVIOUS
  <2> HIDE DEF step
  <2>3. step = StepOf(t)
    BY <1>1 DEF step
  <2> QED BY <1>1, <2>1, <2>2, <2>3
<1>5. StepOf(t).act[t][k].to \in DOMAIN mem
  BY <1>1, <1>4, Within
<1>6. DOMAIN Stores(mem, {t}, act) \subseteq DOMAIN mem
  BY <1>2, <1>3, <1>5, StoredCells
<1> QED BY <1>6, OverIs

\* So no step changes which cells there are.
LEMMA ContainedNext == InStep /\ Contained /\ [Next]_vars => Contained'
<1> SUFFICES ASSUME InStep, Contained, [Next]_vars, Declared(K)' PROVE (DOMAIN mem = DOMAIN K.mem)'
  BY DEF Contained
<1>1. kernel' = kernel
  BY StepMoves DEF Moves, vars
<1>2. Declared(K) /\ DOMAIN mem = DOMAIN K.mem /\ K' = K
  BY <1>1 DEF Contained, K, Declared
<1>3. SUFFICES DOMAIN mem' = DOMAIN mem
  BY <1>2
<1>4. CASE ThreadStep
  <2>1. PICK t \in K.threads : AtScope(t, "thread") /\ mem' = Over(Stores(mem, {t}, StepOf(t).act), mem)
    BY <1>4 DEF ThreadStep, Run
  <2>2. ~Exited(t) /\ {t} \in SUBSET DOMAIN StepOf(t).act
    BY <2>1, AtStep DEF InStep, AtScope
  <2> QED BY <1>2, <2>1, <2>2, StaysContained
<1>5. CASE WarpStep
  <2>1. PICK t \in K.threads : AtScope(t, "warp") /\ mem' = Over(Stores(mem, Lanes(t), StepOf(t).act), mem)
    BY <1>5 DEF WarpStep, Run
  <2>2. ~Exited(t) /\ Lanes(t) \in SUBSET DOMAIN StepOf(t).act /\ t \in Lanes(t)
    BY <2>1, AtStep DEF InStep, AtScope, Lanes
  <2> QED BY <1>2, <2>1, <2>2, StaysContained
<1>6. CASE AwaitOver
  <2>1. PICK t \in K.threads : AtScope(t, "await") /\ mem' = Over(Stores(mem, {t}, StepOf(t).act), mem)
    BY <1>6 DEF AwaitOver, Run
  <2>2. ~Exited(t) /\ {t} \in SUBSET DOMAIN StepOf(t).act
    BY <2>1, AtStep DEF InStep, AtScope
  <2> QED BY <1>2, <2>1, <2>2, StaysContained
<1>7. CASE CasSucceeds
  <2>1. PICK t \in K.threads : AtScope(t, "cas") /\ mem' = Over(Stores(mem, {t}, [u \in {t} |-> <<StepOf(t).act[t][1]>>]), mem)
    BY <1>7 DEF CasSucceeds, Run
  <2> QED BY <1>2, <2>1, StaysContainedCas
<1>8. CASE CasRetries
  <2>1. PICK t \in K.threads : AtScope(t, "cas") /\ mem' = Over(Stores(mem, {t}, [u \in {t} |-> <<StepOf(t).act[t][2]>>]), mem)
    BY <1>8 DEF CasRetries
  <2> QED BY <1>2, <2>1, StaysContainedCas
<1>9. CASE SyncThreads \/ NextLaunch \/ Finished \/ UNCHANGED vars
  BY <1>9 DEF SyncThreads, NextLaunch, Finished, vars
<1> QED BY <1>4, <1>5, <1>6, <1>7, <1>8, <1>9 DEF Next

\* A thread that can take a step takes part in it.
LEMMA ReadyStep ==
  ASSUME InStep, NEW t \in K.threads, Ready(t) # {}
  PROVE  /\ ~Exited(t) /\ pc[t] \in 1 .. Len(K.steps) /\ StepOf(t) = K.steps[pc[t]]
         /\ t \in DOMAIN K.steps[pc[t]].act /\ t \in Ready(t) /\ Ready(t) \subseteq DOMAIN K.steps[pc[t]].act
         /\ DOMAIN K.steps[pc[t]].act \subseteq K.threads
         /\ \/ StepOf(t).scope \in {"thread", "cas", "await"} /\ Ready(t) = {t}
            \/ StepOf(t).scope = "warp" /\ Ready(t) = Lanes(t) /\ \A u \in Lanes(t) : pc[u] = pc[t]
<1>1. ~Exited(t)
  BY DEF Ready
<1>2. /\ pc[t] \in 1 .. Len(K.steps) /\ t \in DOMAIN StepOf(t).act /\ StepOf(t) = K.steps[pc[t]]
      /\ DOMAIN StepOf(t).act \subseteq K.threads
  BY <1>1, AtStep DEF InStep
<1>3. \/ StepOf(t).scope \in {"thread", "cas", "await"} /\ Ready(t) = {t}
      \/ StepOf(t).scope = "warp" /\ Ready(t) = Lanes(t) /\ \A u \in Lanes(t) : pc[u] = pc[t]
  <2> DEFINE scope == StepOf(t).scope
  <2>1. Ready(t) = CASE scope \in {"thread", "cas", "await"} -> {t}
                     [] scope = "warp" -> IF \A u \in Lanes(t) : pc[u] = pc[t] THEN Lanes(t) ELSE {}
                     [] OTHER -> {}
    BY <1>1 DEF Ready
  <2> HIDE DEF scope
  <2>2. CASE scope \in {"thread", "cas", "await"}
    BY <2>1, <2>2 DEF scope
  <2>3. CASE scope = "warp"
    BY <2>1, <2>3 DEF scope
  <2>4. scope \in {"thread", "cas", "await"} \/ scope = "warp"
    BY <2>1
  <2> QED BY <2>2, <2>3, <2>4
<1>4. t \in Lanes(t)
  BY <1>2, LanesOfWarp DEF SameWarp
<1>5. Lanes(t) \subseteq DOMAIN StepOf(t).act
  BY LanesOfWarp
<1> QED BY <1>1, <1>2, <1>3, <1>4, <1>5

\* The lanes that take a step together are ready together.
LEMMA ReadyTogether ==
  ASSUME InStep, NEW t \in K.threads, NEW a \in Ready(t)
  PROVE  a \in K.threads /\ pc[a] = pc[t] /\ Ready(a) = Ready(t)
<1>1. CASE StepOf(t).scope \in {"thread", "cas", "await"} /\ Ready(t) = {t}
  BY <1>1
<1>2. CASE StepOf(t).scope = "warp" /\ Ready(t) = Lanes(t) /\ \A u \in Lanes(t) : pc[u] = pc[t]
  <2>1. pc[a] = pc[t] /\ a \in K.threads /\ a \in Lanes(t)
    BY <1>2, ReadyStep
  <2>2. StepOf(a) = StepOf(t) /\ ~Exited(a) /\ SameWarp(K, t, a)
    BY <2>1, LanesOfWarp, ReadyStep DEF StepOf, Exited
  <2>3. Lanes(a) = Lanes(t)
    BY <2>2, LanesOfWarp DEF SameWarp
  <2>4. Ready(a) = Lanes(a)
    BY <1>2, <2>1, <2>2, <2>3 DEF Ready
  <2> QED BY <1>2, <2>1, <2>3, <2>4
<1> QED BY <1>1, <1>2, ReadyStep

\* Who meets a thread in the step that it can take is ready with it.
LEMMA ReadyToMeet ==
  ASSUME InStep, NEW t \in K.threads, Ready(t) # {}, NEW a, MeetIn(K, pc[t], t, a)
  PROVE  a \in Ready(t)
<1>1. StepOf(t).scope = "warp" /\ Ready(t) = Lanes(t)
  BY ReadyStep DEF MeetIn
<1> QED BY <1>1, ReadyStep, LanesOfWarp DEF MeetIn

\* What the proofs about memory rest on.
GridInv == InStep /\ Contained

\* It holds at the start of every launch and from then on.
LEMMA GridInvariance == Spec => []GridInv
<1>1. Init => Contained
  BY DEF Init, Contained
<1>2. InStep /\ Contained /\ [Next]_vars => Contained'
  BY ContainedNext
<1>3. Spec => []InStep
  BY Meetings
<1> QED BY <1>1, <1>2, <1>3, PTL DEF Spec, GridInv

\* In a kernel that declares its cells, no thread can ever access another.
THEOREM TypeCorrect == Spec => [](Declared(K) => TypeOK)
<1>1. ASSUME GridInv, Declared(K) PROVE TypeOK
  <2>1. kernel \in DOMAIN Kernel /\ pc \in [K.threads -> 1 .. K.exit] /\ DOMAIN mem = DOMAIN K.mem
    BY <1>1 DEF GridInv, InStep, Placed, Contained
  <2>2. ASSUME NEW t \in K.threads, Ready(t) # {}
        PROVE  StepOf(t).reads[t] \cup StepOf(t).writes[t] \subseteq DOMAIN mem
    <3>1. pc[t] \in 1 .. Len(K.steps) /\ StepOf(t) = K.steps[pc[t]] /\ t \in DOMAIN K.steps[pc[t]].act
      BY <1>1, <2>2, ReadyStep DEF GridInv
    <3>2. K.steps[pc[t]].reads[t] \cup K.steps[pc[t]].writes[t] \subseteq DOMAIN K.mem
      BY <1>1, <2>1, <3>1, Within
    <3> QED BY <2>1, <3>1, <3>2
  <2> QED BY <2>1, <2>2 DEF TypeOK
<1>2. Spec => []GridInv
  BY GridInvariance
<1>3. GridInv => (Declared(K) => TypeOK)
  BY <1>1
<1> QED BY <1>2, <1>3, PTL

\* Accesses of one cell, one of them at the step a thread can take, and a meeting
\* between them: the other thread is ready with it or on the other side.
LEMMA Apart ==
  ASSUME InStep, Separated(K),
         NEW t \in K.threads, NEW u \in K.threads, Ready(t) # {}, Ready(u) # {}, u \notin Ready(t),
         pc[t] <= pc[u],
         NEW a \in Ready(t), NEW v \in Ready(u), Conflict(StepOf(t), a, StepOf(u), v)
  PROVE  StepOf(t).atomic /\ StepOf(u).atomic
<1> DEFINE i == pc[t]
           j == pc[u]
<1>1. /\ i \in 1 .. Len(K.steps) /\ j \in 1 .. Len(K.steps) /\ Len(K.steps) \in Nat
      /\ DOMAIN K.steps = 1 .. Len(K.steps)
      /\ StepOf(t) = K.steps[i] /\ StepOf(u) = K.steps[j]
      /\ a \in DOMAIN K.steps[i].act /\ v \in DOMAIN K.steps[j].act
      /\ u \in Ready(u)
  BY ReadyStep, Formed DEF InStep, Placed
<1>2. /\ a \in K.threads /\ v \in K.threads /\ pc[a] = i /\ pc[v] = j
      /\ Ready(a) = Ready(t) /\ Ready(v) = Ready(u)
  BY ReadyTogether
<1>3. a # v
  BY <1>1, <1>2
<1> HIDE DEF i, j
<1>4. SUFFICES ASSUME ~(K.steps[i].atomic /\ K.steps[j].atomic) PROVE FALSE
  BY <1>1
<1>5. i <= j /\ j \in i .. Len(K.steps)
  BY <1>1 DEF i, j
<1>6. PICK m \in i .. j : MeetIn(K, m, a, v)
  BY <1>1, <1>3, <1>4, <1>5 DEF Separated
<1>7. m = j
  <2>1. SUFFICES ASSUME m < j PROVE FALSE
    BY <1>1, <1>6
  <2>2. m \in pc[a] .. pc[v] - 1
    BY <1>1, <1>2, <2>1
  <2> QED BY <1>2, <1>6, <2>2 DEF InStep, NobodyAhead
<1>8. MeetIn(K, pc[v], v, a)
  BY <1>2, <1>6, <1>7, Mutual
<1>9. a \in Ready(v)
  BY <1>2, <1>8, ReadyToMeet
<1>10. Ready(a) = Ready(v)
  BY <1>2, <1>9, ReadyTogether
<1> QED BY <1>1, <1>2, <1>10

\* In a kernel whose accesses meetings separate, no two threads race for a cell.
THEOREM NoRace == Spec => [](Separated(K) => RaceFree)
<1>1. ASSUME InStep, Separated(K), NEW t \in K.threads, NEW u \in K.threads,
             Ready(t) # {}, u \notin Ready(t), Writes(t) \cap (Reads(u) \cup Writes(u)) # {}
      PROVE  StepOf(t).atomic /\ StepOf(u).atomic
  <2>1. PICK c : c \in Writes(t) /\ c \in Reads(u) \cup Writes(u)
    BY <1>1
  <2>2. PICK a \in Ready(t) : c \in StepOf(t).writes[a]
    BY <2>1 DEF Writes
  <2>3. PICK v \in Ready(u) : c \in StepOf(u).reads[v] \cup StepOf(u).writes[v]
    BY <2>1 DEF Writes, Reads
  <2>4. Conflict(StepOf(t), a, StepOf(u), v) /\ Conflict(StepOf(u), v, StepOf(t), a)
    BY <2>2, <2>3 DEF Conflict
  <2>5. pc[t] \in Nat /\ pc[u] \in Nat /\ t \in Ready(t) /\ u \in Ready(u)
    BY <1>1, <2>3, ReadyStep
  <2>6. t \notin Ready(u)
    BY <1>1, <2>5, ReadyTogether
  <2>7. CASE pc[t] <= pc[u]
    BY <1>1, <2>3, <2>4, <2>7, Apart
  <2>8. CASE pc[u] <= pc[t]
    BY <1>1, <2>3, <2>4, <2>6, <2>8, Apart
  <2> QED BY <2>5, <2>7, <2>8
<1>2. InStep => (Separated(K) => RaceFree)
  BY <1>1 DEF RaceFree
<1> QED BY <1>2, Meetings, PTL

\* In a kernel whose lanes keep to banks of their own, no warp ever waits for one.
THEOREM BanksFree == Spec => [](BankFree(K) => NoBankConflict)
<1>1. ASSUME InStep, BankFree(K), NEW t \in K.threads, AtScope(t, "thread"), NEW u \in Lanes(t)
      PROVE  BanksApart(K, StepOf(t).act[t], StepOf(t).act[u])
  <2>1. /\ pc[t] \in 1 .. Len(K.steps) /\ StepOf(t) = K.steps[pc[t]] /\ DOMAIN K.steps = 1 .. Len(K.steps)
        /\ t \in DOMAIN StepOf(t).act /\ StepOf(t).scope = "thread"
    BY <1>1, AtStep, Formed DEF InStep, Placed, AtScope
  <2>2. StepOf(t) \in Range(K.steps)
    BY <2>1 DEF Range
  <2>3. u \in DOMAIN StepOf(t).act /\ SameWarp(K, t, u)
    BY LanesOfWarp
  <2> QED BY <1>1, <2>1, <2>2, <2>3 DEF BankFree
<1>2. InStep => (BankFree(K) => NoBankConflict)
  BY <1>1 DEF NoBankConflict
<1> QED BY <1>2, Meetings, PTL

-----------------------------------------------------------------------------
(* One outcome *)

\* The memories that the steps leave one after another.
Taking(f, kern, k) ==
  /\ f[0] = kern.mem
  /\ \A i \in 1 .. k : f[i] = Taken(kern, i, f[i - 1])
OnceTaken(kern, i, x) == CHOOSE y \in {Taken(kern, i, m) : m \in {x}} : TRUE

\* The recursion that defines InOrder has a result.
LEMMA InOrderComputed ==
  ASSUME NEW kern, Len(kern.steps) \in Nat
  PROVE  Taking(InOrder(kern), kern, Len(kern.steps))
<1> DEFINE n == Len(kern.steps)
           Fits(f) == f = [i \in 0 .. n |-> IF i = 0 THEN kern.mem ELSE OnceTaken(kern, i, f[i - 1])]
           Shaped(f, k) == f = [i \in 0 .. k |-> f[i]] /\ Taking(f, kern, k)
           Done == {k \in Nat : \E f : Shaped(f, k)}
<1>1. n \in Nat
  OBVIOUS
<1>2. 0 \in Done
  <2> DEFINE f == [i \in 0 .. 0 |-> kern.mem]
  <2>1. Shaped(f, 0)
    BY DEF Taking
  <2> QED BY <2>1
<1>3. ASSUME NEW k \in Nat, k \in Done PROVE k + 1 \in Done
  <2>1. PICK f : Shaped(f, k)
    BY <1>3
  <2> DEFINE next == Taken(kern, k + 1, f[k])
             g == [i \in 0 .. k + 1 |-> IF i = k + 1 THEN next ELSE f[i]]
  <2> HIDE DEF next
  <2>2. \A i \in 0 .. k : g[i] = f[i]
    OBVIOUS
  <2>3. g[k + 1] = next /\ g = [i \in 0 .. k + 1 |-> g[i]]
    OBVIOUS
  <2> HIDE DEF g
  <2>4. g[0] = kern.mem
    BY <2>1, <2>2 DEF Taking
  <2>5. ASSUME NEW i \in 1 .. k + 1 PROVE g[i] = Taken(kern, i, g[i - 1])
    <3>1. CASE i = k + 1
      <4>1. k \in 0 .. k /\ i - 1 = k
        BY <3>1
      <4> QED BY <2>2, <2>3, <3>1, <4>1 DEF next
    <3>2. CASE i # k + 1
      <4>1. i \in 1 .. k /\ i \in 0 .. k /\ i - 1 \in 0 .. k
        BY <3>2
      <4> QED BY <2>1, <2>2, <4>1 DEF Taking
    <3> QED BY <3>1, <3>2
  <2>6. Shaped(g, k + 1)
    BY <2>3, <2>4, <2>5 DEF Taking
  <2> QED BY <2>6
<1> HIDE DEF Done
<1>4. PICK f : Shaped(f, n)
  BY <1>1, <1>2, <1>3, InductionOnSet DEF Done
<1>5. \A i \in 1 .. n : f[i] = OnceTaken(kern, i, f[i - 1])
  BY <1>4 DEF Taking, OnceTaken
<1> HIDE DEF n
<1>6. Fits(f)
  <2>1. f = [i \in 0 .. n |-> f[i]] /\ f[0] = kern.mem
    BY <1>4 DEF Taking
  <2>2. ASSUME NEW i \in 0 .. n PROVE f[i] = IF i = 0 THEN kern.mem ELSE OnceTaken(kern, i, f[i - 1])
    <3>1. CASE i = 0
      BY <2>1, <3>1
    <3>2. CASE i # 0
      <4>1. i \in 1 .. n
        BY <1>1, <3>2
      <4> QED BY <1>5, <3>2, <4>1
    <3> QED BY <3>1, <3>2
  <2> QED BY <2>1, <2>2
<1> DEFINE g == CHOOSE h : Fits(h)
<1>7. Fits(g)
  BY <1>6
<1>8. InOrder(kern) = g
  BY DEF InOrder, n, Given, OnceTaken
<1> HIDE DEF g
<1>9. Taking(g, kern, n)
  <2>1. g[0] = kern.mem
    BY <1>1, <1>7
  <2>2. ASSUME NEW i \in 1 .. n PROVE g[i] = Taken(kern, i, g[i - 1])
    <3>1. i \in 0 .. n /\ i # 0
      BY <1>1
    <3>2. g[i] = OnceTaken(kern, i, g[i - 1])
      BY <1>7, <3>1
    <3> QED BY <3>2 DEF OnceTaken
  <2> QED BY <2>1, <2>2 DEF Taking
<1> QED BY <1>8, <1>9 DEF n

\* What a step leaves in a cell.
LEMMA TakenIs ==
  ASSUME NEW kern, NEW i, NEW m
  PROVE  /\ DOMAIN Taken(kern, i, m) = DOMAIN m
         /\ \A c \in DOMAIN m :
              /\ Writers(kern.steps[i], c) = {} => Taken(kern, i, m)[c] = m[c]
              /\ Writers(kern.steps[i], c) # {} =>
                   \E w \in Writers(kern.steps[i], c) :
                     Taken(kern, i, m)[c] = Stores(m, Together(kern, i, w), kern.steps[i].act)[c]
<1> DEFINE f == [c \in DOMAIN m |->
                   IF Writers(kern.steps[i], c) = {} THEN m[c]
                   ELSE Stores(m, Together(kern, i, CHOOSE t \in Writers(kern.steps[i], c) : TRUE), kern.steps[i].act)[c]]
<1>1. Taken(kern, i, m) = f
  BY DEF Taken, Table
<1>2. \A c : Writers(kern.steps[i], c) # {} => (CHOOSE t \in Writers(kern.steps[i], c) : TRUE) \in Writers(kern.steps[i], c)
  OBVIOUS
<1> QED BY <1>1, <1>2

\* The same of one cell that is written.
LEMMA TakenFrom ==
  ASSUME NEW kern, NEW i, NEW m, NEW c \in DOMAIN m, Writers(kern.steps[i], c) # {}
  PROVE  \E w \in Writers(kern.steps[i], c) :
           Taken(kern, i, m)[c] = Stores(m, Together(kern, i, w), kern.steps[i].act)[c]
<1>1. DOMAIN Taken(kern, i, m) = DOMAIN m
  BY TakenIs
<1>2. \A d \in DOMAIN m : Writers(kern.steps[i], d) # {} =>
        \E w \in Writers(kern.steps[i], d) :
          Taken(kern, i, m)[d] = Stores(m, Together(kern, i, w), kern.steps[i].act)[d]
  BY <1>1, TakenIs
<1> QED BY <1>2

\* The memories one after another: the same cells, and a step without a writer of
\* a cell leaves it.
LEMMA InOrderCells ==
  ASSUME kernel \in DOMAIN Kernel
  PROVE  \A i \in 0 .. Len(K.steps) : DOMAIN InOrder(K)[i] = DOMAIN K.mem
<1> DEFINE n == Len(K.steps)
           Done == {i \in Nat : i <= n => DOMAIN InOrder(K)[i] = DOMAIN K.mem}
<1>1. n \in Nat /\ Taking(InOrder(K), K, n)
  BY Formed, InOrderComputed
<1> HIDE DEF n
<1>2. 0 \in Done
  BY <1>1 DEF Taking
<1>3. ASSUME NEW i \in Nat, i \in Done PROVE i + 1 \in Done
  <2>1. SUFFICES ASSUME i + 1 <= n PROVE DOMAIN InOrder(K)[i + 1] = DOMAIN K.mem
    OBVIOUS
  <2>2. i + 1 \in 1 .. n /\ i + 1 - 1 = i
    BY <1>1, <2>1
  <2>3. InOrder(K)[i + 1] = Taken(K, i + 1, InOrder(K)[i])
    BY <1>1, <2>2 DEF Taking
  <2>4. DOMAIN InOrder(K)[i] = DOMAIN K.mem
    BY <1>1, <1>3, <2>1
  <2> QED BY <2>3, <2>4, TakenIs
<1>4. Nat \subseteq Done
  <2> HIDE DEF Done
  <2> QED BY <1>2, <1>3, InductionOnSet
<1> QED BY <1>1, <1>4 DEF n

\* From p to i, if nobody writes the cell in between.
LEMMA InOrderUnwritten ==
  ASSUME kernel \in DOMAIN Kernel, NEW c \in DOMAIN K.mem, NEW p \in 0 .. Len(K.steps), NEW i \in p .. Len(K.steps),
         \A q \in p + 1 .. i : Writers(K.steps[q], c) = {}
  PROVE  InOrder(K)[i][c] = InOrder(K)[p][c]
<1> DEFINE n == Len(K.steps)
           Done == {d \in Nat : p + d <= i => InOrder(K)[p + d][c] = InOrder(K)[p][c]}
<1>1. n \in Nat /\ Taking(InOrder(K), K, n) /\ p \in Nat /\ i \in Nat /\ i <= n
  BY Formed, InOrderComputed
<1>2. \A j \in 0 .. n : c \in DOMAIN InOrder(K)[j]
  BY InOrderCells
<1> HIDE DEF n
<1>3. 0 \in Done
  BY <1>1
<1>4. ASSUME NEW d \in Nat, d \in Done PROVE d + 1 \in Done
  <2>1. SUFFICES ASSUME p + (d + 1) <= i PROVE InOrder(K)[p + (d + 1)][c] = InOrder(K)[p][c]
    OBVIOUS
  <2> DEFINE q == p + (d + 1)
  <2>2. q \in 1 .. n /\ q \in p + 1 .. i /\ q - 1 = p + d /\ p + d \in 0 .. n /\ p + d <= i
    BY <1>1, <2>1
  <2> HIDE DEF q
  <2>3. InOrder(K)[q] = Taken(K, q, InOrder(K)[p + d])
    BY <1>1, <2>2 DEF Taking
  <2>4. InOrder(K)[q][c] = InOrder(K)[p + d][c]
    <3>1. c \in DOMAIN InOrder(K)[p + d] /\ Writers(K.steps[q], c) = {}
      BY <1>2, <2>2
    <3> QED BY <2>3, <3>1, TakenIs
  <2> QED BY <1>4, <2>2, <2>4 DEF q
<1>5. i - p \in Done
  <2> HIDE DEF Done
  <2>1. i - p \in Nat
    BY <1>1
  <2> QED BY <1>3, <1>4, <2>1, InductionOnSet
<1>6. p + (i - p) = i
  BY <1>1
<1> QED BY <1>1, <1>5, <1>6

\* The threads ts take step p: they store, or they meet in a barrier.
Takes(ts, p) ==
  /\ Moves(ts, p)
  /\ \/ K.steps[p].scope \in {"block", "grid"} /\ mem' = mem
     \/ /\ K.steps[p].scope \in {"thread", "warp"}
        /\ \E t \in DOMAIN K.steps[p].act : ts = Together(K, p, t)
        /\ mem' = Over(Stores(mem, ts, K.steps[p].act), mem)

\* Every step of a plain kernel is of this kind.
LEMMA PlainTakes ==
  ASSUME InStep, Plain(K), Next
  PROVE  UNCHANGED <<kernel, pc, mem>> \/ \E ts, p : Takes(ts, p)
<1>1. ASSUME NEW t \in K.threads, ~Exited(t) PROVE StepOf(t).scope \in {"thread", "warp", "block", "grid"}
  <2>1. pc[t] \in 1 .. Len(K.steps) /\ StepOf(t) = K.steps[pc[t]] /\ DOMAIN K.steps = 1 .. Len(K.steps)
    BY <1>1, AtStep, Formed DEF InStep, Placed
  <2>2. StepOf(t) \in Range(K.steps)
    BY <2>1 DEF Range
  <2> QED BY <2>2 DEF Plain
<1>2. CASE ThreadStep
  <2>1. PICK t \in K.threads : AtScope(t, "thread") /\ Run({t}, StepOf(t).act)
    BY <1>2 DEF ThreadStep
  <2>2. /\ pc[t] \in 1 .. Len(K.steps) /\ StepOf(t) = K.steps[pc[t]] /\ t \in DOMAIN StepOf(t).act
        /\ StepOf(t).scope = "thread" /\ ~Exited(t)
    BY <2>1, AtStep DEF InStep, AtScope
  <2>3. Moves({t}, pc[t])
    BY <2>1, <2>2, MovesAlone DEF Run
  <2>4. Together(K, pc[t], t) = {t}
    BY <2>2 DEF Together
  <2>5. Takes({t}, pc[t])
    BY <2>1, <2>2, <2>3, <2>4 DEF Takes, Run
  <2> QED BY <2>5
<1>3. CASE WarpStep
  <2>1. PICK t \in K.threads : /\ AtScope(t, "warp") /\ Run(Lanes(t), StepOf(t).act)
                               /\ \A u \in Lanes(t) : pc[u] = pc[t]
    BY <1>3 DEF WarpStep
  <2>2. /\ pc[t] \in 1 .. Len(K.steps) /\ StepOf(t) = K.steps[pc[t]] /\ t \in DOMAIN StepOf(t).act
        /\ StepOf(t).scope = "warp"
    BY <2>1, AtStep DEF InStep, AtScope
  <2>3. Moves(Lanes(t), pc[t])
    BY <2>1, MovesLanes DEF Run
  <2>4. Together(K, pc[t], t) = Lanes(t)
    BY <2>2, LanesOfWarp DEF Together
  <2>5. Takes(Lanes(t), pc[t])
    BY <2>1, <2>2, <2>3, <2>4 DEF Takes, Run
  <2> QED BY <2>5
<1>4. CASE SyncThreads
  <2>1. PICK t \in K.threads : /\ AtScope(t, "block") /\ mem' = mem
                               /\ Moves(InBlock(Blk(t), DOMAIN StepOf(t).act), pc[t])
    BY <1>4, MovesBlock DEF SyncThreads
  <2>2. StepOf(t) = K.steps[pc[t]] /\ StepOf(t).scope = "block"
    BY <2>1, AtStep DEF InStep, AtScope
  <2>3. Takes(InBlock(Blk(t), DOMAIN StepOf(t).act), pc[t])
    BY <2>1, <2>2 DEF Takes
  <2> QED BY <2>3
<1>5. CASE NextLaunch
  <2>1. CASE K.threads = {}
    <3>1. pc = [t \in {} |-> pc[t]] /\ pc' = [t \in {} |-> pc[t]] /\ kernel' = kernel /\ mem' = mem
      BY <1>5, <2>1 DEF NextLaunch, Advance, InStep, Placed
    <3> QED BY <3>1
  <2>2. CASE K.threads # {}
    <3>1. PICK t \in K.threads : TRUE
      BY <2>2
    <3>2. Moves(K.threads, pc[t]) /\ AtScope(t, "grid") /\ mem' = mem
      BY <1>5, MovesAll
    <3>3. StepOf(t) = K.steps[pc[t]] /\ StepOf(t).scope = "grid"
      BY <3>2, AtStep DEF InStep, AtScope
    <3>4. Takes(K.threads, pc[t])
      BY <3>2, <3>3 DEF Takes
    <3> QED BY <3>4
  <2> QED BY <2>1, <2>2
<1>6. CASE AwaitOver
  BY <1>1, <1>6 DEF AwaitOver, AtScope
<1>7. CASE CasSucceeds
  BY <1>1, <1>7 DEF CasSucceeds, AtScope
<1>8. CASE CasRetries
  BY <1>1, <1>8 DEF CasRetries, AtScope
<1>9. CASE Finished
  BY <1>9 DEF Finished, vars
<1> QED BY <1>2, <1>3, <1>4, <1>5, <1>6, <1>7, <1>8, <1>9 DEF Next

\* All writers of the cell up to step i are past it, and none behind.
Settled(c, i) ==
  \A j \in 1 .. Len(K.steps) : \A w \in Writers(K.steps[j], c) :
    (j <= i => j < pc[w]) /\ (i < j => pc[w] <= j)

\* A cell holds what the steps up to i leave in it when taken one after another, if
\* the steps that write it have come just so far.
AsInOrder ==
  \A c \in DOMAIN K.mem, i \in 0 .. Len(K.steps) : Settled(c, i) => mem[c] = InOrder(K)[i][c]

\* The writers are threads that take part.
LEMMA WritersAre ==
  ASSUME kernel \in DOMAIN Kernel, NEW j \in 1 .. Len(K.steps), NEW c, NEW w \in Writers(K.steps[j], c)
  PROVE  w \in DOMAIN K.steps[j].act /\ w \in K.threads /\ c \in K.steps[j].writes[w]
BY Formed DEF Writers

\* Nothing is written in a barrier.
LEMMA NoWritersInBarriers ==
  ASSUME kernel \in DOMAIN Kernel, Plain(K), NEW p \in 1 .. Len(K.steps), K.steps[p].scope \in {"block", "grid"}, NEW c
  PROVE  Writers(K.steps[p], c) = {}
<1>1. K.steps[p] \in Range(K.steps)
  BY Formed DEF Range
<1>2. \A t \in DOMAIN K.steps[p].act : K.steps[p].act[t] = <<>>
  BY <1>1 DEF Plain
<1>3. ASSUME NEW t \in DOMAIN K.steps[p].act PROVE K.steps[p].writes[t] = {}
  <2>1. /\ K.steps[p].writes[t] = {K.steps[p].act[t][n].to : n \in DOMAIN K.steps[p].act[t]}
        /\ DOMAIN K.steps[p].act[t] = 1 .. Len(K.steps[p].act[t])
    BY Statements
  <2>2. DOMAIN K.steps[p].act[t] = {}
    BY <1>2
  <2> QED BY <2>1, <2>2
<1> QED BY <1>3 DEF Writers

\* At which of its other steps a thread has been does not change when it moves.
LEMMA PastBefore ==
  ASSUME InStep, NEW ts, NEW p, Moves(ts, p), NEW j \in 1 .. Len(K.steps), NEW w \in DOMAIN K.steps[j].act,
         ~(w \in ts /\ j = p)
  PROVE  /\ w \in K.threads /\ pc[w] \in Int /\ pc'[w] \in Int /\ j \in Int
         /\ j < pc'[w] <=> j < pc[w]
<1>1. w \in K.threads
  BY Formed DEF InStep, Placed
<1>2. /\ pc[w] \in Int /\ pc'[w] \in Int /\ j \in Int /\ p \in Int
      /\ w \in ts => pc[w] = p /\ p < pc'[w]
      /\ w \notin ts => pc'[w] = pc[w]
      /\ w \in ts /\ j < pc'[w] => j <= p
  <2>1. /\ pc[w] \in 1 .. K.exit /\ pc'[w] \in 1 .. K.exit
        /\ w \in ts => pc[w] = p /\ p < pc'[w]
        /\ w \notin ts => pc'[w] = pc[w]
        /\ w \in ts /\ j < pc'[w] => j <= p
    BY <1>1, Passes DEF InStep
  <2>2. p \in Int /\ j \in Int
    BY DEF Moves
  <2> QED BY <2>1, <2>2
<1> QED BY <1>1, <1>2

\* A cell that the moving threads leave alone was settled before.
LEMMA SettledBefore ==
  ASSUME InStep, NEW ts, NEW p, Moves(ts, p), NEW c, \A w \in ts : w \notin Writers(K.steps[p], c),
         NEW i \in 0 .. Len(K.steps), Settled(c, i)'
  PROVE  Settled(c, i)
<1>1. K' = K /\ kernel \in DOMAIN Kernel /\ Len(K.steps) \in Nat
  BY Formed DEF Moves, K, InStep, Placed
<1>2. ASSUME NEW j \in 1 .. Len(K.steps), NEW w \in Writers(K.steps[j], c)
      PROVE  (j <= i => j < pc[w]) /\ (i < j => pc[w] <= j)
  <2>1. w \in DOMAIN K.steps[j].act /\ ~(w \in ts /\ j = p)
    BY <1>1, WritersAre
  <2>2. /\ pc[w] \in Int /\ pc'[w] \in Int /\ j \in Int
        /\ j < pc'[w] <=> j < pc[w]
    BY <2>1, PastBefore
  <2>3. (j <= i => j < pc'[w]) /\ (i < j => pc'[w] <= j)
    BY <1>1 DEF Settled
  <2> QED BY <2>2, <2>3
<1> QED BY <1>2 DEF Settled

\* What a thread that takes its step reads, is as the steps before have left it.
LEMMA ReadsSettled ==
  ASSUME InStep, Disciplined(K), NEW ts, NEW p, Moves(ts, p), NEW g \in ts, NEW r \in K.steps[p].reads[g]
  PROVE  Settled(r, p - 1)
<1>1. /\ kernel \in DOMAIN Kernel /\ p \in 1 .. Len(K.steps) /\ Len(K.steps) \in Nat
      /\ DOMAIN K.steps = 1 .. Len(K.steps)
      /\ g \in DOMAIN K.steps[p].act /\ g \in K.threads /\ pc[g] = p
  BY Formed DEF InStep, Placed, Moves
<1>2. Separated(K) /\ \A i \in 1 .. Len(K.steps) : ~K.steps[i].atomic
  <2>1. \A i \in 1 .. Len(K.steps) : K.steps[i] \in Range(K.steps)
    BY <1>1 DEF Range
  <2> QED BY <2>1 DEF Disciplined, Plain
<1>3. ASSUME NEW j \in 1 .. Len(K.steps), NEW w \in Writers(K.steps[j], r)
      PROVE  (j <= p - 1 => j < pc[w]) /\ (p - 1 < j => pc[w] <= j)
  <2>1. w \in DOMAIN K.steps[j].act /\ w \in K.threads /\ r \in K.steps[j].writes[w] /\ pc[w] \in Int
    <3>1. w \in DOMAIN K.steps[j].act /\ w \in K.threads /\ r \in K.steps[j].writes[w]
      BY <1>1, WritersAre
    <3> QED BY <1>1, <3>1, Passes, Formed DEF InStep, Placed
  <2>2. CASE w = g
    BY <1>1, <2>2
  <2>3. CASE w # g /\ j < p
    <3>1. Conflict(K.steps[j], w, K.steps[p], g) /\ p \in j .. Len(K.steps)
      BY <1>1, <2>1, <2>3 DEF Conflict
    <3>2. PICK m \in j .. p : MeetIn(K, m, w, g)
      BY <1>1, <1>2, <2>1, <2>3, <3>1 DEF Separated
    <3>3. CASE m = p
      <4>1. w \in ts
        BY <2>1, <3>2, <3>3, Mutual DEF Moves
      <4> QED BY <1>1, <2>3, <4>1 DEF Moves
    <3>4. CASE m # p
      <4>1. m \in 1 .. Len(K.steps) /\ m < pc[g]
        BY <1>1, <3>4
      <4>2. m < pc[w]
        BY <1>1, <2>1, <3>2, <4>1, SameSide
      <4> QED BY <1>1, <2>1, <2>3, <4>2
    <3> QED BY <3>3, <3>4
  <2>4. CASE w # g /\ p <= j
    <3>1. SUFFICES ASSUME j < pc[w] PROVE FALSE
      BY <1>1, <2>1, <2>4
    <3>2. Conflict(K.steps[p], g, K.steps[j], w) /\ j \in p .. Len(K.steps)
      BY <1>1, <2>1, <2>4 DEF Conflict
    <3>3. PICK m \in p .. j : MeetIn(K, m, g, w)
      BY <1>1, <1>2, <2>1, <2>4, <3>2 DEF Separated
    <3>4. m \in 1 .. Len(K.steps) /\ m < pc[w] /\ p <= m
      BY <1>1, <2>1, <3>1
    <3>5. m < pc[g]
      BY <1>1, <2>1, <3>3, <3>4, SameSide
    <3> QED BY <1>1, <3>4, <3>5
  <2> QED BY <1>1, <2>2, <2>3, <2>4
<1> QED BY <1>3 DEF Settled

\* Nobody has written what a thread writes in a step after that step.
LEMMA NobodyAfter ==
  ASSUME InStep, Disciplined(K), NEW ts, NEW p, Moves(ts, p), NEW g \in ts, NEW c \in K.steps[p].writes[g],
         NEW q \in p + 1 .. Len(K.steps), NEW w \in Writers(K.steps[q], c)
  PROVE  pc'[w] <= q
<1>1. /\ kernel \in DOMAIN Kernel /\ p \in 1 .. Len(K.steps) /\ Len(K.steps) \in Nat
      /\ DOMAIN K.steps = 1 .. Len(K.steps)
      /\ g \in DOMAIN K.steps[p].act /\ g \in K.threads /\ pc[g] = p
      /\ q \in 1 .. Len(K.steps) /\ p < q /\ q \in p .. Len(K.steps)
  BY Formed DEF InStep, Placed, Moves
<1>2. Separated(K) /\ ~K.steps[p].atomic
  <2>1. K.steps[p] \in Range(K.steps)
    BY <1>1 DEF Range
  <2> QED BY <2>1 DEF Disciplined, Plain
<1>3. w \in DOMAIN K.steps[q].act /\ w \in K.threads /\ c \in K.steps[q].writes[w]
  BY <1>1, WritersAre
<1>4. /\ pc[w] \in Int /\ pc'[w] \in Int
      /\ w \notin ts => pc'[w] = pc[w]
      /\ w \in ts /\ q < pc'[w] => q <= p
  BY <1>1, <1>3, Passes, Formed DEF InStep, Placed
<1>5. SUFFICES ASSUME q < pc'[w] PROVE FALSE
  BY <1>1, <1>4
<1>6. w \notin ts /\ q < pc[w]
  BY <1>1, <1>4, <1>5
<1>7. Conflict(K.steps[p], g, K.steps[q], w) /\ w # g
  BY <1>3, <1>6 DEF Conflict
<1>8. PICK m \in p .. q : MeetIn(K, m, g, w)
  BY <1>1, <1>2, <1>3, <1>7 DEF Separated
<1>9. m \in 1 .. Len(K.steps) /\ m < pc[w] /\ p <= m
  BY <1>1, <1>4, <1>6
<1>10. m < pc[g]
  BY <1>1, <1>3, <1>8, <1>9, SameSide
<1> QED BY <1>1, <1>9, <1>10

\* Who writes the same cell in the same step, takes it together with them.
LEMMA WritersTogether ==
  ASSUME InStep, Disciplined(K), NEW ts, NEW p, Takes(ts, p), NEW g \in ts, NEW c \in K.steps[p].writes[g],
         NEW w \in Writers(K.steps[p], c)
  PROVE  /\ K.steps[p].scope \in {"thread", "warp"} /\ Together(K, p, w) = ts
         /\ mem' = Over(Stores(mem, ts, K.steps[p].act), mem)
<1>1. /\ kernel \in DOMAIN Kernel /\ p \in 1 .. Len(K.steps) /\ Len(K.steps) \in Nat
      /\ DOMAIN K.steps = 1 .. Len(K.steps) /\ Moves(ts, p) /\ p \in p .. Len(K.steps)
      /\ g \in DOMAIN K.steps[p].act
  BY Formed DEF InStep, Placed, Moves, Takes
<1>2. Separated(K) /\ Plain(K) /\ ~K.steps[p].atomic
  <2>1. K.steps[p] \in Range(K.steps)
    BY <1>1 DEF Range
  <2> QED BY <2>1 DEF Disciplined, Plain
<1>3. w \in DOMAIN K.steps[p].act /\ w \in K.threads /\ c \in K.steps[p].writes[w]
  BY <1>1, WritersAre
<1>4. K.steps[p].scope \in {"thread", "warp"} /\ mem' = Over(Stores(mem, ts, K.steps[p].act), mem)
  BY <1>1, <1>2, NoWritersInBarriers DEF Takes
<1>5. PICK t \in DOMAIN K.steps[p].act : ts = Together(K, p, t)
  BY <1>4 DEF Takes
<1>6. w \in ts
  <2>1. CASE w = g
    BY <2>1
  <2>2. CASE w # g
    <3>1. Conflict(K.steps[p], g, K.steps[p], w)
      BY <1>3 DEF Conflict
    <3>2. PICK m \in p .. p : MeetIn(K, m, g, w)
      BY <1>1, <1>2, <1>3, <2>2, <3>1 DEF Separated
    <3>3. MeetIn(K, p, g, w)
      BY <1>1, <3>2
    <3> QED BY <1>1, <1>3, <3>3 DEF Moves
  <2> QED BY <2>1, <2>2
<1>7. CASE K.steps[p].scope = "warp"
  BY <1>4, <1>5, <1>6, <1>7 DEF Together, SameWarp
<1>8. CASE K.steps[p].scope # "warp"
  BY <1>4, <1>5, <1>6, <1>8 DEF Together
<1> QED BY <1>4, <1>7, <1>8

\* So threads that store in a step store what all store when they take it at once.
LEMMA StoresAsInOrder ==
  ASSUME InStep, Contained, Disciplined(K), AsInOrder, NEW ts, NEW p, Takes(ts, p),
         NEW g \in ts, NEW c \in K.steps[p].writes[g]
  PROVE  mem'[c] = InOrder(K)[p][c]
<1> DEFINE act == K.steps[p].act
           before == InOrder(K)[p - 1]
<1>1. /\ kernel \in DOMAIN Kernel /\ p \in 1 .. Len(K.steps) /\ Len(K.steps) \in Nat /\ Moves(ts, p)
      /\ g \in DOMAIN act /\ ts \in SUBSET DOMAIN act /\ ts # {}
      /\ p - 1 \in 0 .. Len(K.steps) /\ p \in 0 .. Len(K.steps)
      /\ Declared(K) /\ DOMAIN mem = DOMAIN K.mem
  BY Formed DEF InStep, Placed, Moves, Takes, Disciplined, Contained
<1>2. c \in DOMAIN K.mem /\ DOMAIN before = DOMAIN K.mem
  BY <1>1, Within, InOrderCells
<1>3. Finite(ts, act) /\ c \in DOMAIN Stores(mem, ts, act)
  <2>1. Finite(ts, act) /\ Cells(ts, act) = UNION {K.steps[p].writes[t] : t \in ts}
    BY <1>1, CellsOfStep
  <2>2. c \in Cells(ts, act)
    BY <2>1
  <2> HIDE DEF act
  <2> QED BY <2>1, <2>2, StoredCells
<1>4. Writers(K.steps[p], c) # {}
  BY <1>1 DEF Writers
<1>5. mem'[c] = Stores(mem, ts, act)[c]
  <2>1. mem' = Over(Stores(mem, ts, act), mem)
    BY <1>4, WritersTogether
  <2> HIDE DEF act
  <2> QED BY <1>3, <2>1, OverIs
<1>6. Stores(mem, ts, act) = Stores(before, ts, act)
  <2>1. ASSUME NEW t \in ts, NEW n \in 1 .. Len(act[t]), NEW r \in Range(act[t][n].expr.of)
        PROVE  r \in DOMAIN mem /\ r \in DOMAIN before /\ mem[r] = before[r]
    <3>1. /\ DOMAIN act[t] = 1 .. Len(act[t])
          /\ K.steps[p].reads[t] = UNION {Range(act[t][k].expr.of) : k \in DOMAIN act[t]}
      BY <1>1, Statements
    <3>2. r \in K.steps[p].reads[t] /\ t \in DOMAIN act
      BY <1>1, <3>1
    <3>3. r \in DOMAIN K.mem
      BY <1>1, <3>2, Within
    <3>4. Settled(r, p - 1)
      BY <1>1, <3>2, ReadsSettled
    <3> QED BY <1>1, <1>2, <3>3, <3>4 DEF AsInOrder
  <2> HIDE DEF act, before
  <2> QED BY <1>3, <2>1, SameStores
<1>7. InOrder(K)[p][c] = Stores(before, ts, act)[c]
  <2>1. InOrder(K)[p] = Taken(K, p, before)
    BY <1>1, InOrderComputed DEF Taking
  <2>2. PICK w \in Writers(K.steps[p], c) : Taken(K, p, before)[c] = Stores(before, Together(K, p, w), act)[c]
    <3>1. c \in DOMAIN before
      BY <1>2
    <3> HIDE DEF before
    <3> QED BY <1>4, <3>1, TakenFrom
  <2>3. Together(K, p, w) = ts
    BY WritersTogether
  <2> QED BY <2>1, <2>2, <2>3
<1> QED BY <1>5, <1>6, <1>7

\* Whatever the order in which the threads come to their steps, the memory goes
\* through what the steps leave one after another.
LEMMA AsInOrderNext ==
  ASSUME InStep, Contained, Disciplined(K), AsInOrder, NEW ts, NEW p, Takes(ts, p)
  PROVE  AsInOrder'
<1>1. /\ kernel \in DOMAIN Kernel /\ p \in 1 .. Len(K.steps) /\ Len(K.steps) \in Nat /\ Moves(ts, p)
      /\ K' = K /\ Plain(K) /\ DOMAIN mem = DOMAIN K.mem
      /\ \A t \in ts : t \in DOMAIN K.steps[p].act
  BY Formed DEF InStep, Placed, Moves, Takes, Disciplined, Contained, K
<1>2. ASSUME NEW c \in DOMAIN K.mem, NEW i \in 0 .. Len(K.steps), Settled(c, i)'
      PROVE  mem'[c] = InOrder(K)[i][c]
  <2>1. CASE \A w \in ts : w \notin Writers(K.steps[p], c)
    <3>1. Settled(c, i)
      BY <1>1, <1>2, <2>1, SettledBefore
    <3>2. mem[c] = InOrder(K)[i][c]
      BY <3>1 DEF AsInOrder
    <3>3. mem'[c] = mem[c]
      <4>1. CASE mem' = mem
        BY <4>1
      <4>2. CASE mem' = Over(Stores(mem, ts, K.steps[p].act), mem) /\ ts # {}
        <5>1. DOMAIN Stores(mem, ts, K.steps[p].act) = UNION {K.steps[p].writes[t] : t \in ts}
          <6>1. ts \in SUBSET DOMAIN K.steps[p].act
            BY <1>1
          <6> QED BY <1>1, <4>2, <6>1, CellsOfStep, StoredCells
        <5>2. c \notin DOMAIN Stores(mem, ts, K.steps[p].act)
          BY <1>1, <2>1, <5>1 DEF Writers
        <5> QED BY <1>1, <4>2, <5>2, OverIs
      <4>3. mem' = mem \/ (mem' = Over(Stores(mem, ts, K.steps[p].act), mem) /\ ts # {})
        BY DEF Takes, Together, SameWarp
      <4> QED BY <4>1, <4>2, <4>3
    <3> QED BY <3>2, <3>3
  <2>2. CASE \E w \in ts : w \in Writers(K.steps[p], c)
    <3>1. PICK g \in ts : g \in Writers(K.steps[p], c)
      BY <2>2
    <3>2. g \in K.threads /\ g \in DOMAIN K.steps[p].act /\ c \in K.steps[p].writes[g]
      BY <1>1, <3>1, WritersAre
    <3>3. p \in Int /\ pc'[g] \in Int /\ p < pc'[g]
      BY <1>1, <3>2, Passes, Formed DEF InStep, Placed
    <3>4. p <= i
      <4>1. i < p => pc'[g] <= p
        BY <1>1, <1>2, <3>1 DEF Settled
      <4> QED BY <3>3, <4>1
    <3>5. ASSUME NEW q \in p + 1 .. i PROVE Writers(K.steps[q], c) = {}
      <4>1. SUFFICES ASSUME NEW w \in Writers(K.steps[q], c) PROVE FALSE
        OBVIOUS
      <4>2. q \in 1 .. Len(K.steps) /\ q \in p + 1 .. Len(K.steps) /\ q <= i /\ q \in Int
        BY <1>1
      <4>3. q < pc'[w]
        BY <1>1, <1>2, <4>1, <4>2 DEF Settled
      <4>4. pc'[w] <= q
        BY <1>1, <3>2, <4>1, <4>2, NobodyAfter
      <4>5. pc'[w] \in Int
        <5>1. w \in K.threads
          BY <1>1, <4>1, <4>2, WritersAre
        <5> QED BY <1>1, <5>1, Passes, Formed DEF InStep, Placed
      <4> QED BY <4>2, <4>3, <4>4, <4>5
    <3>6. p \in 0 .. Len(K.steps) /\ i \in p .. Len(K.steps)
      BY <1>1, <3>4
    <3>7. InOrder(K)[i][c] = InOrder(K)[p][c]
      BY <1>1, <3>5, <3>6, InOrderUnwritten
    <3> QED BY <3>2, <3>7, StoresAsInOrder
  <2> QED BY <2>1, <2>2
<1> QED BY <1>1, <1>2 DEF AsInOrder

\* At the start of a kernel nothing has been written.
LEMMA InitAsInOrder == Init => AsInOrder
<1> SUFFICES ASSUME Init PROVE AsInOrder
  OBVIOUS
<1>1. /\ kernel \in DOMAIN Kernel /\ Len(K.steps) \in Nat /\ mem = K.mem /\ 0 \in 0 .. Len(K.steps)
      /\ InStep
  BY Formed, InitInStep DEF Init
<1>2. InOrder(K)[0] = K.mem
  BY <1>1, InOrderComputed DEF Taking
<1>3. ASSUME NEW c \in DOMAIN K.mem, NEW i \in 0 .. Len(K.steps), Settled(c, i)
      PROVE  mem[c] = InOrder(K)[i][c]
  <2>1. ASSUME NEW q \in 0 + 1 .. i PROVE Writers(K.steps[q], c) = {}
    <3>1. SUFFICES ASSUME NEW w \in Writers(K.steps[q], c) PROVE FALSE
      OBVIOUS
    <3>2. q \in 1 .. Len(K.steps) /\ q <= i
      BY <1>1
    <3>3. w \in K.threads /\ w \in DOMAIN K.steps[q].act
      BY <1>1, <3>2, WritersAre
    <3>4. q < pc[w]
      BY <1>3, <3>2 DEF Settled
    <3>5. /\ pc[w] = K.next[w][0] /\ K.next[w][0] \in 0 + 1 .. K.exit /\ K.exit = Len(K.steps) + 1
          /\ \A j \in 0 + 1 .. K.next[w][0] - 1 : w \notin DOMAIN K.steps[j].act
      BY <1>1, <3>3, Formed DEF Init
    <3>6. q \in 0 + 1 .. K.next[w][0] - 1
      BY <1>1, <3>2, <3>4, <3>5
    <3> QED BY <3>3, <3>5, <3>6
  <2>2. i \in 0 .. Len(K.steps) /\ InOrder(K)[i][c] = InOrder(K)[0][c]
    BY <1>1, <2>1, InOrderUnwritten
  <2> QED BY <1>1, <1>2, <2>2
<1> QED BY <1>3 DEF AsInOrder

\* In every state of a disciplined kernel, each cell that its writers have left
\* alone for now holds what the steps leave in it one after another.
THEOREM Serializable == Spec => [](Disciplined(K) => AsInOrder)
<1>1. Init => (Disciplined(K) => AsInOrder)
  BY InitAsInOrder
<1>2. ASSUME GridInv, Disciplined(K) => AsInOrder, [Next]_vars
      PROVE  (Disciplined(K) => AsInOrder)'
  <2>1. kernel' = kernel
    BY <1>2, StepMoves DEF GridInv, Moves, vars
  <2>2. SUFFICES ASSUME Disciplined(K) PROVE AsInOrder'
    <3>1. K' = K
      BY ONLY <2>1 DEF K
    <3>2. Disciplined(K)' => Disciplined(K)
      BY ONLY <3>1
    <3> QED BY <3>2
  <2>3. AsInOrder /\ Plain(K) /\ InStep /\ Contained
    BY <1>2, <2>2 DEF Disciplined, GridInv
  <2>4. CASE UNCHANGED <<kernel, pc, mem>>
    BY <2>3, <2>4 DEF AsInOrder, Settled, K
  <2>5. CASE \E ts, p : Takes(ts, p)
    BY <2>2, <2>3, <2>5, AsInOrderNext
  <2> QED BY <1>2, <2>3, <2>4, <2>5, PlainTakes DEF vars
<1> QED BY <1>1, <1>2, GridInvariance, PTL DEF Spec

\* When all have left, every cell is settled.
LEMMA AtTheEnd ==
  ASSUME InStep, \A t \in K.threads : Exited(t), NEW c
  PROVE  Settled(c, Len(K.steps)) /\ Len(K.steps) \in 0 .. Len(K.steps)
<1>1. kernel \in DOMAIN Kernel /\ Len(K.steps) \in Nat /\ K.exit = Len(K.steps) + 1
  BY Formed DEF InStep, Placed
<1>2. ASSUME NEW j \in 1 .. Len(K.steps), NEW w \in Writers(K.steps[j], c)
      PROVE  pc[w] = Len(K.steps) + 1
  BY <1>1, WritersAre DEF Exited
<1> QED BY <1>1, <1>2 DEF Settled

\* So whatever the order, a disciplined kernel leaves one outcome.
THEOREM Determinism == Spec => [](Disciplined(K) => OneOutcome)
<1>1. ASSUME GridInv, Disciplined(K), AsInOrder PROVE OneOutcome
  <2>1. SUFFICES ASSUME \A t \in K.threads : Exited(t)
                 PROVE  /\ DOMAIN mem = DOMAIN K.mem
                        /\ \A c \in DOMAIN mem : mem[c] = InOrder(K)[Len(K.steps)][c]
    BY DEF OneOutcome
  <2>2. DOMAIN mem = DOMAIN K.mem
    BY <1>1 DEF GridInv, Contained, Disciplined
  <2> QED BY <1>1, <2>1, <2>2, AtTheEnd DEF GridInv, AsInOrder
<1>2. GridInv /\ (Disciplined(K) => AsInOrder) => (Disciplined(K) => OneOutcome)
  BY <1>1
<1> QED BY <1>2, GridInvariance, Serializable, PTL

\* And if the steps one after another compute what the CPU reference does, then so
\* do the threads, however they interleave.
THEOREM ResultsRight == Spec => [](Disciplined(K) /\ RightInOrder(K) => ResultRight)
<1>1. ASSUME GridInv, Disciplined(K), OneOutcome, RightInOrder(K) PROVE ResultRight
  <2>1. SUFFICES ASSUME \A t \in K.threads : Exited(t), NEW c \in DOMAIN K.result
                 PROVE  mem[c] = K.result[c]
    BY DEF ResultRight
  <2>2. DOMAIN mem = DOMAIN K.mem /\ DOMAIN K.result \subseteq DOMAIN K.mem
    BY <1>1, Formed DEF GridInv, InStep, Placed, Contained, Disciplined
  <2>3. mem[c] = InOrder(K)[Len(K.steps)][c]
    BY <1>1, <2>1, <2>2 DEF OneOutcome
  <2>4. InOrder(K)[Len(K.steps)][c] = K.result[c]
    BY <1>1 DEF RightInOrder
  <2> QED BY <2>3, <2>4
<1>2. GridInv /\ (Disciplined(K) => OneOutcome) => (Disciplined(K) /\ RightInOrder(K) => ResultRight)
  BY <1>1
<1> QED BY <1>2, GridInvariance, Determinism, PTL

-----------------------------------------------------------------------------
(* Copies and barriers *)

\* The steps of the transpositions, written out.
CopyStep(to, from) ==
  [scope |-> "thread", atomic |-> FALSE,
   act |-> [t \in DOMAIN to |-> <<to[t] := Val(from[t])>>],
   writes |-> [t \in DOMAIN to |-> {to[t]}], reads |-> [t \in DOMAIN to |-> {from[t]}]]
SyncStep(T) ==
  [scope |-> "block", atomic |-> FALSE, act |-> [t \in T |-> <<>>],
   writes |-> [t \in T |-> {}], reads |-> [t \in T |-> {}]]

\* A copy is one step.
LEMMA CopyIs ==
  ASSUME NEW to, NEW from
  PROVE  Copy(to, from) = <<CopyStep(to, from)>>
<1> DEFINE act == [t \in DOMAIN to |-> <<to[t] := Val(from[t])>>]
           Body(t) == <<to[t] := Val(from[t])>>
           who == {t \in DOMAIN to : Body(t) # <<>>}
<1>1. who = DOMAIN to
  <2>1. \A t : Body(t) # <<>>
    OBVIOUS
  <2> QED BY <2>1
<1>2. \A t : Body(t) \o <<>> = Body(t)
  OBVIOUS
<1>3. [t \in who |-> Body(t) \o <<>>] = act
  BY <1>1, <1>2
<1>4. \A t \in DOMAIN to : act[t] = <<to[t] := Val(from[t])>>
  OBVIOUS
<1>5. \A t \in DOMAIN to : {act[t][k] : k \in DOMAIN act[t]} = {to[t] := Val(from[t])}
  BY <1>4
<1>6. [t \in who |-> {a.to : a \in {act[t][k] : k \in DOMAIN act[t]}}] = [t \in DOMAIN to |-> {to[t]}]
  BY <1>1, <1>5 DEF :=
<1>7. [t \in who |-> UNION {Range(a.expr.of) : a \in {act[t][k] : k \in DOMAIN act[t]}}] = [t \in DOMAIN to |-> {from[t]}]
  <2>1. \A t \in DOMAIN to : Range((to[t] := Val(from[t])).expr.of) = {from[t]}
    BY DEF :=, Val, Sum, Op, Range
  <2> QED BY <1>1, <1>5, <2>1
<1> DEFINE table == Table([t \in who |-> Body(t) \o <<>>])
<1>8. Copy(to, from) =
        << [scope |-> "thread", atomic |-> FALSE, act |-> table,
            writes |-> Table([t \in who |-> {a.to : a \in {table[t][k] : k \in DOMAIN table[t]}}]),
            reads |-> Table([t \in who |-> UNION {Range(a.expr.of) : a \in {table[t][k] : k \in DOMAIN table[t]}}])] >>
  BY DEF Copy, Each, Step, Busy
<1>9. \A f : Table(f) = f
  BY DEF Table
<1>10. table = act
  BY <1>3, <1>9
<1> HIDE DEF who, Body, table
<1>11. Copy(to, from) =
        << [scope |-> "thread", atomic |-> FALSE, act |-> act,
            writes |-> Table([t \in who |-> {a.to : a \in {act[t][k] : k \in DOMAIN act[t]}}]),
            reads |-> Table([t \in who |-> UNION {Range(a.expr.of) : a \in {act[t][k] : k \in DOMAIN act[t]}}])] >>
  <2> HIDE DEF act
  <2> QED BY <1>8, <1>10
<1>12. Copy(to, from) =
        << [scope |-> "thread", atomic |-> FALSE, act |-> act,
            writes |-> [t \in DOMAIN to |-> {to[t]}], reads |-> [t \in DOMAIN to |-> {from[t]}]] >>
  <2> HIDE DEF act
  <2> QED BY <1>6, <1>7, <1>9, <1>11
<1> QED BY <1>12 DEF CopyStep

\* So is a barrier.
LEMMA SyncIs ==
  ASSUME NEW T
  PROVE  Sync(T) = <<SyncStep(T)>>
<1> DEFINE act == [t \in T |-> <<>>]
           table == Table([t \in T |-> Nothing(t) \o <<>>])
<1>1. \A f : Table(f) = f
  BY DEF Table
<1>2. table = act
  <2>1. \A t : Nothing(t) \o <<>> = <<>>
    BY DEF Nothing
  <2> QED BY <1>1, <2>1
<1>3. Sync(T) = << [scope |-> "block", atomic |-> FALSE, act |-> table,
         writes |-> Table([t \in T |-> {a.to : a \in {table[t][k] : k \in DOMAIN table[t]}}]),
         reads |-> Table([t \in T |-> UNION {Range(a.expr.of) : a \in {table[t][k] : k \in DOMAIN table[t]}}])] >>
  BY DEF Sync, Step
<1> HIDE DEF table
<1>4. Sync(T) = << [scope |-> "block", atomic |-> FALSE, act |-> act,
         writes |-> Table([t \in T |-> {a.to : a \in {act[t][k] : k \in DOMAIN act[t]}}]),
         reads |-> Table([t \in T |-> UNION {Range(a.expr.of) : a \in {act[t][k] : k \in DOMAIN act[t]}}])] >>
  <2> HIDE DEF act
  <2> QED BY <1>2, <1>3
<1>5. \A t \in T : {act[t][k] : k \in DOMAIN act[t]} = {}
  OBVIOUS
<1>6. [t \in T |-> {a.to : a \in {act[t][k] : k \in DOMAIN act[t]}}] = [t \in T |-> {}]
  BY <1>5
<1>7. [t \in T |-> UNION {Range(a.expr.of) : a \in {act[t][k] : k \in DOMAIN act[t]}}] = [t \in T |-> {}]
  BY <1>5
<1>8. Sync(T) = << [scope |-> "block", atomic |-> FALSE, act |-> act, writes |-> [t \in T |-> {}],
                    reads |-> [t \in T |-> {}]] >>
  <2> HIDE DEF act
  <2> QED BY <1>1, <1>4, <1>6, <1>7
<1> QED BY <1>8 DEF SyncStep

\* The value of a copy is the cell's.
LEMMA ValueOfCopy ==
  ASSUME NEW m, NEW c \in DOMAIN m
  PROVE  Value(<<>>, m, Val(c)) = m[c]
<1>1. Val(c).op = "sum" /\ Val(c).of = <<c>>
  BY DEF Val, Sum, Op
<1>2. Load(<<>>, m, c) = m[c]
  BY DEF Load
<1>3. [i \in DOMAIN Val(c).of |-> Load(<<>>, m, Val(c).of[i])] = <<m[c]>>
  BY <1>1, <1>2
<1>4. Value(<<>>, m, Val(c)) = Evaluate("sum", <<m[c]>>)
  BY <1>1, <1>3 DEF Value
<1>5. \A v : DisjointUnion(<<v>>) = v
  <2> SUFFICES ASSUME NEW v PROVE DisjointUnion(<<v>>) = v
    OBVIOUS
  <2> DEFINE one == <<v>>
  <2>1. DOMAIN one = {1} /\ one[1] = v
    OBVIOUS
  <2>2. UNION {one[i] : i \in DOMAIN one} = v
    BY <2>1
  <2>3. \A i, j \in DOMAIN one : i < j => one[i] \cap one[j] = {}
    BY <2>1
  <2> HIDE DEF one
  <2>4. DisjointUnion(one) = v
    BY <2>2, <2>3 DEF DisjointUnion
  <2> QED BY <2>4 DEF one
<1>6. \A v : Evaluate("sum", <<v>>) = v
  <2> SUFFICES ASSUME NEW v PROVE Evaluate("sum", <<v>>) = v
    OBVIOUS
  <2>1. Evaluate("sum", <<v>>) = IF \E i \in DOMAIN <<v>> : <<v>>[i] = Wrong THEN Wrong ELSE DisjointUnion(<<v>>)
    BY DEF Evaluate
  <2>2. (\E i \in DOMAIN <<v>> : <<v>>[i] = Wrong) <=> v = Wrong
    OBVIOUS
  <2> QED BY <1>5, <2>1, <2>2
<1> QED BY <1>4, <1>6

\* Two sequences with the same elements are the same.
LEMMA SameElements ==
  ASSUME NEW S, NEW p \in Seq(S), NEW q \in Seq(S), Len(p) = Len(q), \A i \in 1 .. Len(p) : p[i] = q[i]
  PROVE  p = q
<1>1. p \in [1 .. Len(p) -> S] /\ q \in [1 .. Len(p) -> S]
  BY LenProperties
<1> QED BY <1>1

\* An element appended to one, and to two.
LEMMA AppendTwo ==
  ASSUME NEW a, NEW b
  PROVE  Append(<<a>>, b) = <<a, b>>
<1> DEFINE S == {a, b}
           one == <<a>>
           two == <<a, b>>
<1>1. one \in Seq(S) /\ two \in Seq(S) /\ b \in S
  OBVIOUS
<1>2. Len(one) = 1 /\ one[1] = a /\ Len(two) = 2 /\ two[1] = a /\ two[2] = b
  OBVIOUS
<1> HIDE DEF S, one, two
<1> DEFINE p == Append(one, b)
<1>3. p \in Seq(S) /\ Len(p) = 2 /\ p[1] = a /\ p[2] = b
  <2>1. /\ p \in Seq(S) /\ Len(p) = Len(one) + 1
        /\ \A i \in 1 .. Len(one) : p[i] = one[i]
        /\ p[Len(one) + 1] = b
    BY <1>1, AppendProperties
  <2> QED BY <1>2, <2>1
<1> HIDE DEF p
<1>4. p = two
  <2>1. \A i \in 1 .. Len(p) : p[i] = two[i]
    BY <1>2, <1>3
  <2> QED BY <1>1, <1>2, <1>3, <2>1, SameElements
<1> QED BY <1>4 DEF p, one, two

\* The same of two.
LEMMA AppendThree ==
  ASSUME NEW a, NEW b, NEW c
  PROVE  Append(<<a, b>>, c) = <<a, b, c>>
<1> DEFINE S == {a, b, c}
           two == <<a, b>>
           three == <<a, b, c>>
<1>1. two \in Seq(S) /\ three \in Seq(S) /\ c \in S
  OBVIOUS
<1>2. Len(two) = 2 /\ two[1] = a /\ two[2] = b /\ Len(three) = 3 /\ three[1] = a /\ three[2] = b /\ three[3] = c
  OBVIOUS
<1> HIDE DEF S, two, three
<1> DEFINE p == Append(two, c)
<1>3. p \in Seq(S) /\ Len(p) = 3 /\ p[1] = a /\ p[2] = b /\ p[3] = c
  <2>1. /\ p \in Seq(S) /\ Len(p) = Len(two) + 1
        /\ \A i \in 1 .. Len(two) : p[i] = two[i]
        /\ p[Len(two) + 1] = c
    BY <1>1, AppendProperties
  <2> HIDE DEF p
  <2> QED BY <1>2, <2>1
<1> HIDE DEF p
<1>4. p = three
  <2>1. \A i \in 1 .. Len(p) : p[i] = three[i]
    BY <1>2, <1>3
  <2> QED BY <1>1, <1>2, <1>3, <2>1, SameElements
<1> QED BY <1>4 DEF p, two, three

\* Three steps put together.
LEMMA ThreeTogether ==
  ASSUME NEW a, NEW b, NEW c
  PROVE  (<<a>> \o <<b>>) \o <<c>> = <<a, b, c>>
<1> DEFINE S == {a, b, c}
<1>1. <<a>> \o <<b>> = <<a, b>>
  <2>1. <<a>> \in Seq(S) /\ b \in S
    OBVIOUS
  <2> HIDE DEF S
  <2> QED BY <2>1, AppendTwo, AppendIsConcat
<1>2. <<a, b>> \o <<c>> = <<a, b, c>>
  <2>1. <<a, b>> \in Seq(S) /\ c \in S
    OBVIOUS
  <2> HIDE DEF S
  <2> QED BY <2>1, AppendThree, AppendIsConcat
<1> QED BY <1>1, <1>2

\* The steps joined so far, with one more.
Joined(done, step) ==
  IF done # <<>> /\ Fusable(Last(done), step) THEN Front(done) \o Join(Last(done), step)
  ELSE Append(done, step)
Joining(f, steps, k) == f[0] = <<>> /\ \A i \in 1 .. k : f[i] = Joined(f[i - 1], steps[i])

\* The recursion that defines Fuse has a result.
LEMMA FuseComputed ==
  ASSUME NEW steps, Len(steps) \in Nat
  PROVE  \E f : Joining(f, steps, Len(steps)) /\ Fuse(steps) = f[Len(steps)]
<1> DEFINE n == Len(steps)
           Fits(f) == f = [i \in 0 .. n |-> IF i = 0 THEN <<>> ELSE Joined(f[i - 1], steps[i])]
           Shaped(f, k) == f = [i \in 0 .. k |-> f[i]] /\ Joining(f, steps, k)
           Done == {k \in Nat : \E f : Shaped(f, k)}
<1>1. n \in Nat
  OBVIOUS
<1>2. 0 \in Done
  <2> DEFINE f == [i \in 0 .. 0 |-> <<>>]
  <2>1. Shaped(f, 0)
    BY DEF Joining
  <2> QED BY <2>1
<1>3. ASSUME NEW k \in Nat, k \in Done PROVE k + 1 \in Done
  <2>1. PICK f : Shaped(f, k)
    BY <1>3
  <2> DEFINE next == Joined(f[k], steps[k + 1])
             g == [i \in 0 .. k + 1 |-> IF i = k + 1 THEN next ELSE f[i]]
  <2> HIDE DEF next
  <2>2. \A i \in 0 .. k : g[i] = f[i]
    OBVIOUS
  <2>3. g[k + 1] = next /\ g = [i \in 0 .. k + 1 |-> g[i]]
    OBVIOUS
  <2> HIDE DEF g
  <2>4. g[0] = <<>>
    BY <2>1, <2>2 DEF Joining
  <2>5. ASSUME NEW i \in 1 .. k + 1 PROVE g[i] = Joined(g[i - 1], steps[i])
    <3>1. CASE i = k + 1
      <4>1. k \in 0 .. k /\ i - 1 = k
        BY <3>1
      <4> QED BY <2>2, <2>3, <3>1, <4>1 DEF next
    <3>2. CASE i # k + 1
      <4>1. i \in 1 .. k /\ i \in 0 .. k /\ i - 1 \in 0 .. k
        BY <3>2
      <4> QED BY <2>1, <2>2, <4>1 DEF Joining
    <3> QED BY <3>1, <3>2
  <2>6. Shaped(g, k + 1)
    BY <2>3, <2>4, <2>5 DEF Joining
  <2> QED BY <2>6
<1> HIDE DEF Done
<1>4. PICK f : Shaped(f, n)
  BY <1>1, <1>2, <1>3, InductionOnSet DEF Done
<1> HIDE DEF n
<1>5. Fits(f)
  <2>1. f = [i \in 0 .. n |-> f[i]] /\ f[0] = <<>>
    BY <1>4 DEF Joining
  <2>2. ASSUME NEW i \in 0 .. n PROVE f[i] = IF i = 0 THEN <<>> ELSE Joined(f[i - 1], steps[i])
    <3>1. CASE i = 0
      BY <2>1, <3>1
    <3>2. CASE i # 0
      <4>1. i \in 1 .. n
        BY <1>1, <3>2
      <4> QED BY <1>4, <3>2, <4>1 DEF Joining
    <3> QED BY <3>1, <3>2
  <2> QED BY <2>1, <2>2
<1> DEFINE g == CHOOSE h : Fits(h)
<1>6. Fits(g)
  BY <1>5
<1>7. Fuse(steps) = g[n]
  BY DEF Fuse, Joined, n
<1> HIDE DEF g
<1>8. Joining(g, steps, n)
  <2>1. g[0] = <<>>
    BY <1>1, <1>6
  <2>2. ASSUME NEW i \in 1 .. n PROVE g[i] = Joined(g[i - 1], steps[i])
    <3>1. i \in 0 .. n /\ i # 0
      BY <1>1
    <3> QED BY <1>6, <3>1
  <2> QED BY <2>1, <2>2 DEF Joining
<1> QED BY <1>7, <1>8 DEF n

\* One step stays as it is.
LEMMA FuseOne ==
  ASSUME NEW a
  PROVE  Fuse(<<a>>) = <<a>>
<1> DEFINE steps == <<a>>
<1>1. Len(steps) = 1 /\ steps[1] = a
  OBVIOUS
<1> HIDE DEF steps
<1>2. PICK f : Joining(f, steps, 1) /\ Fuse(steps) = f[1]
  <2>1. Len(steps) \in Nat
    BY <1>1
  <2>2. \E f : Joining(f, steps, Len(steps)) /\ Fuse(steps) = f[Len(steps)]
    BY <2>1, FuseComputed
  <2> QED BY <1>1, <2>2
<1>3. f[0] = <<>> /\ f[1] = Joined(f[0], a)
  BY <1>1, <1>2 DEF Joining
<1>4. f[1] = Append(<<>>, a)
  BY <1>3 DEF Joined
<1> QED BY <1>2, <1>4 DEF steps

\* A barrier keeps the steps around it apart.
LEMMA FuseThree ==
  ASSUME NEW a, NEW b, NEW c, b.scope = "block"
  PROVE  Fuse(<<a, b, c>>) = <<a, b, c>>
<1> DEFINE steps == <<a, b, c>>
<1>1. Len(steps) = 3 /\ steps[1] = a /\ steps[2] = b /\ steps[3] = c
  OBVIOUS
<1> HIDE DEF steps
<1>2. PICK f : Joining(f, steps, 3) /\ Fuse(steps) = f[3]
  <2>1. Len(steps) \in Nat
    BY <1>1
  <2>2. \E f : Joining(f, steps, Len(steps)) /\ Fuse(steps) = f[Len(steps)]
    BY <2>1, FuseComputed
  <2> QED BY <1>1, <2>2
<1>3. f[0] = <<>> /\ f[1] = Joined(f[0], a) /\ f[2] = Joined(f[1], b) /\ f[3] = Joined(f[2], c)
  BY <1>1, <1>2 DEF Joining
<1>4. f[1] = <<a>>
  BY <1>3 DEF Joined
<1>5. f[2] = Append(<<a>>, b)
  <2>1. ~Fusable(Last(<<a>>), b)
    BY DEF Fusable
  <2> QED BY <1>3, <1>4, <2>1 DEF Joined
<1>6. f[2] = <<a, b>> /\ Last(<<a, b>>) = b
  <2> DEFINE two == <<a, b>>
  <2>1. Append(<<a>>, b) = two
    BY AppendTwo
  <2>2. Len(two) = 2 /\ two[2] = b
    OBVIOUS
  <2> HIDE DEF two
  <2>3. f[2] = two /\ Last(two) = b
    BY <1>5, <2>1, <2>2 DEF Last
  <2> QED BY <2>3 DEF two
<1>7. f[3] = Append(<<a, b>>, c)
  <2>1. ~Fusable(Last(<<a, b>>), c)
    BY <1>6 DEF Fusable
  <2> QED BY <1>3, <1>6, <2>1 DEF Joined
<1> QED BY <1>2, <1>7, AppendThree DEF steps

\* What a copying thread stores: its cell's value in the other.
LEMMA CopyStores ==
  ASSUME NEW m, NEW to, NEW from, NEW t \in DOMAIN to, from[t] \in DOMAIN m
  PROVE  Stores(m, {t}, CopyStep(to, from).act)[to[t]] = m[from[t]]
<1> DEFINE act == CopyStep(to, from).act
           a == to[t] := Val(from[t])
<1>1. act[t] = <<a>>
  BY DEF CopyStep
<1>2. Len(act[t]) = 1 /\ DOMAIN act[t] = 1 .. 1 /\ act[t][1] = a
  BY <1>1
<1>3. a.to = to[t] /\ a.expr = Val(from[t])
  BY DEF :=
<1> HIDE DEF act, a
<1>4. Finite({t}, act)
  <2>1. IsFiniteSet({t})
    BY FS_Singleton
  <2>2. \A u \in {t} : Len(act[u]) \in Nat /\ DOMAIN act[u] = 1 .. Len(act[u])
    BY <1>2
  <2> QED BY <2>1, <2>2 DEF Finite
<1>5. LongestOf({t}, act) = 1
  <2>1. {Len(act[u]) : u \in {t}} = {1}
    BY <1>2
  <2>2. {1} \in SUBSET Nat /\ IsFiniteSet({1}) /\ {1} # {}
    BY FS_Singleton
  <2>3. Max({1}) \in {1}
    BY <2>2, MaxIs
  <2> QED BY <2>1, <2>3 DEF LongestOf
<1>6. PICK f : Stored(f, m, {t}, act, 1) /\ Stores(m, {t}, act) = f[1]
  BY <1>4, <1>5, StoresComputed
<1>7. f[1] = Assigned(m, <<>>, Now({t}, act, 1))
  BY <1>6 DEF Stored
<1>8. Now({t}, act, 1) = {a}
  BY <1>2 DEF Now
<1>9. (CHOOSE x \in {a} : x.to = to[t]) = a /\ {x.to : x \in {a}} = {to[t]}
  BY <1>3
<1> DEFINE g == [c \in {x.to : x \in {a}} |-> Value(<<>>, m, (CHOOSE x \in {a} : x.to = c).expr)]
<1>10. DOMAIN g = {to[t]} /\ g[to[t]] = Value(<<>>, m, Val(from[t]))
  BY <1>3, <1>9
<1>11. f[1] = Over(g, <<>>)
  <2>1. Assigned(m, <<>>, {a}) = Over(g, <<>>)
    BY DEF Assigned
  <2> QED BY <1>7, <1>8, <2>1
<1> HIDE DEF g
<1>12. f[1][to[t]] = g[to[t]]
  BY <1>10, <1>11, OverIs
<1> QED BY <1>6, <1>10, <1>12, ValueOfCopy DEF act

\* What a copy leaves: every thread's cell in the other, the rest as it was.
LEMMA CopyTaken ==
  ASSUME NEW kern, NEW i, NEW m, NEW to, NEW from, kern.steps[i] = CopyStep(to, from),
         \A t \in DOMAIN to : from[t] \in DOMAIN m /\ to[t] \in DOMAIN m,
         \A t, u \in DOMAIN to : to[t] = to[u] => t = u
  PROVE  /\ DOMAIN Taken(kern, i, m) = DOMAIN m
         /\ \A t \in DOMAIN to : Taken(kern, i, m)[to[t]] = m[from[t]]
         /\ \A c \in DOMAIN m : (\A t \in DOMAIN to : to[t] # c) => Taken(kern, i, m)[c] = m[c]
<1>0. ASSUME NEW t \in DOMAIN to
      PROVE  Stores(m, {t}, CopyStep(to, from).act)[to[t]] = m[from[t]]
  <2>1. from[t] \in DOMAIN m
    OBVIOUS
  <2> QED BY ONLY <2>1, t \in DOMAIN to, CopyStores
<1> DEFINE step == CopyStep(to, from)
<1>1. /\ step.scope = "thread" /\ DOMAIN step.act = DOMAIN to
      /\ \A t \in DOMAIN to : step.writes[t] = {to[t]}
  BY DEF CopyStep
<1> HIDE DEF step
<1>2. \A c : Writers(step, c) = {t \in DOMAIN to : to[t] = c}
  BY <1>1 DEF Writers
<1>3. ASSUME NEW t \in DOMAIN to PROVE Taken(kern, i, m)[to[t]] = m[from[t]]
  <2>1. Writers(step, to[t]) = {t}
    BY <1>2
  <2>2. PICK w \in Writers(step, to[t]) : Taken(kern, i, m)[to[t]] = Stores(m, Together(kern, i, w), step.act)[to[t]]
    <3>1. to[t] \in DOMAIN m /\ Writers(kern.steps[i], to[t]) # {}
      BY <2>1 DEF step
    <3>2. \E w \in Writers(kern.steps[i], to[t]) : Taken(kern, i, m)[to[t]] = Stores(m, Together(kern, i, w), kern.steps[i].act)[to[t]]
      BY <3>1, TakenFrom
    <3> QED BY <3>2 DEF step
  <2>3. Together(kern, i, w) = {w} /\ w = t
    BY <1>1, <2>1 DEF Together, step
  <2>4. Stores(m, {t}, step.act)[to[t]] = m[from[t]]
    BY <1>0 DEF step
  <2> QED BY <2>2, <2>3, <2>4
<1>4. ASSUME NEW c \in DOMAIN m, \A t \in DOMAIN to : to[t] # c PROVE Taken(kern, i, m)[c] = m[c]
  <2>1. Writers(kern.steps[i], c) = {}
    BY <1>2, <1>4 DEF step
  <2> QED BY <2>1, TakenIs
<1>5. DOMAIN Taken(kern, i, m) = DOMAIN m
  BY TakenIs
<1> QED BY <1>3, <1>4, <1>5

\* And a barrier: everything as it was.
LEMMA SyncTaken ==
  ASSUME NEW kern, NEW i, NEW m, NEW T, kern.steps[i] = SyncStep(T)
  PROVE  DOMAIN Taken(kern, i, m) = DOMAIN m /\ \A c \in DOMAIN m : Taken(kern, i, m)[c] = m[c]
<1>1. \A c : Writers(kern.steps[i], c) = {}
  BY DEF Writers, SyncStep
<1> QED BY <1>1, TakenIs

\* A compiled kernel: its steps, and what it holds at first.
LEMMA Compiled ==
  ASSUME NEW threads, NEW warp, NEW memory, NEW inputs, NEW zeroed, NEW program, NEW result, NEW banked,
         NEW kern, kern = Compile(threads, warp, memory, inputs, zeroed, program, result, banked)
  PROVE  /\ kern.steps = Fuse(program) /\ kern.warp = warp /\ kern.result = result /\ kern.banked = banked
         /\ memory \cup DOMAIN inputs \subseteq DOMAIN kern.mem
         /\ \A c \in DOMAIN inputs : kern.mem[c] = inputs[c]
<1>1. kern.steps = Fuse(program) /\ kern.warp = warp /\ kern.result = result /\ kern.banked = banked
  BY DEF Compile
<1>2. PICK others, g : kern.mem = Over(inputs, g) /\ DOMAIN g = (memory \cup others \cup DOMAIN inputs) \cup zeroed
  <2> DEFINE n == Len(Fuse(program))
             others == {c \in UNION {UNION {Fuse(program)[i].writes[t] : t \in DOMAIN Fuse(program)[i].act} : i \in 1 .. n} :
                          c[1] \in {"reg", "elem"}}
             cells == memory \cup others \cup DOMAIN inputs
             g == [c \in cells \cup zeroed |-> IF c \in zeroed THEN {} ELSE Wrong]
  <2>1. kern.mem = Over(inputs, g)
    BY DEF Compile
  <2>2. DOMAIN g = cells \cup zeroed
    OBVIOUS
  <2> HIDE DEF g, others
  <2> QED BY <2>1, <2>2
<1>3. kern.mem = [x \in DOMAIN inputs \cup DOMAIN g |-> IF x \in DOMAIN inputs THEN inputs[x] ELSE g[x]]
  BY <1>2, OverIs
<1> QED BY <1>1, <1>2, <1>3

\* A kernel of one copy, from cells into others, each into its own.
CopiesOnce(kern, to, from, Source, Target) ==
  /\ kern.steps = <<CopyStep(to, from)>>
  /\ Source \cap Target = {} /\ Source \cup Target \subseteq DOMAIN kern.mem
  /\ \A t \in DOMAIN to : from[t] \in Source /\ to[t] \in Target
  /\ \A t, u \in DOMAIN to : to[t] = to[u] => t = u

\* It races with nobody and leaves every cell in the other.
LEMMA OneCopy ==
  ASSUME NEW kern, NEW to, NEW from, NEW Source, NEW Target, CopiesOnce(kern, to, from, Source, Target)
  PROVE  /\ Disciplined(kern)
         /\ \A t \in DOMAIN to : InOrder(kern)[Len(kern.steps)][to[t]] = kern.mem[from[t]]
<1> USE DEF CopiesOnce
<1> DEFINE step == CopyStep(to, from)
<1>1. /\ step.scope = "thread" /\ ~step.atomic /\ DOMAIN step.act = DOMAIN to
      /\ \A t \in DOMAIN to : step.writes[t] = {to[t]} /\ step.reads[t] = {from[t]}
  BY DEF CopyStep
<1>2. kern.steps = <<step>>
  OBVIOUS
<1> HIDE DEF step
<1>3. Len(kern.steps) = 1 /\ DOMAIN kern.steps = {1} /\ kern.steps[1] = step /\ Range(kern.steps) = {step}
  <2>1. DOMAIN <<step>> = {1} /\ <<step>>[1] = step /\ Len(<<step>>) = 1
    OBVIOUS
  <2> QED BY <1>2, <2>1 DEF Range
<1>4. Declared(kern)
  BY <1>1, <1>3 DEF Declared
<1>5. Plain(kern)
  BY <1>1, <1>3 DEF Plain
<1>6. Separated(kern)
  <2>1. ASSUME NEW t \in DOMAIN to, NEW u \in DOMAIN to, t # u PROVE ~Conflict(step, t, step, u)
    BY <1>1, <2>1 DEF Conflict
  <2> QED BY <1>1, <1>3, <2>1 DEF Separated
<1>7. InOrder(kern)[0] = kern.mem /\ InOrder(kern)[1] = Taken(kern, 1, InOrder(kern)[0])
  <2>1. Taking(InOrder(kern), kern, Len(kern.steps))
    BY <1>3, InOrderComputed
  <2> QED BY <1>3, <2>1 DEF Taking
<1>8. \A t \in DOMAIN to : Taken(kern, 1, kern.mem)[to[t]] = kern.mem[from[t]]
  <2>1. kern.steps[1] = CopyStep(to, from) /\ \A t \in DOMAIN to : from[t] \in DOMAIN kern.mem /\ to[t] \in DOMAIN kern.mem
    BY <1>3 DEF step
  <2>2. /\ DOMAIN Taken(kern, 1, kern.mem) = DOMAIN kern.mem
        /\ \A t \in DOMAIN to : Taken(kern, 1, kern.mem)[to[t]] = kern.mem[from[t]]
        /\ \A c \in DOMAIN kern.mem : (\A t \in DOMAIN to : to[t] # c) => Taken(kern, 1, kern.mem)[c] = kern.mem[c]
    BY <2>1, CopyTaken
  <2> QED BY <2>2
<1> QED BY <1>3, <1>4, <1>5, <1>6, <1>7, <1>8 DEF Disciplined

\* A kernel of two copies with a barrier between them: what a thread of a block
\* fetches in the second one, another of the block has put there in the first.
CopiesTwice(kern, T, to, from, into, out, Source, Middle, Target) ==
  /\ kern.steps = <<CopyStep(to, from), SyncStep(T), CopyStep(into, out)>>
  /\ DOMAIN to \subseteq T /\ DOMAIN into \subseteq T
  /\ Source \cap Middle = {} /\ Source \cap Target = {} /\ Middle \cap Target = {}
  /\ Source \cup Middle \cup Target \subseteq DOMAIN kern.mem
  /\ \A t \in DOMAIN to : from[t] \in Source /\ to[t] \in Middle
  /\ \A t, u \in DOMAIN to : to[t] = to[u] => t = u
  /\ \A t \in DOMAIN into : out[t] \in Middle /\ into[t] \in Target
  /\ \A t, u \in DOMAIN into : into[t] = into[u] => t = u
  /\ \A t \in DOMAIN to, u \in DOMAIN into : to[t] = out[u] => Blk(t) = Blk(u)

\* It races with nobody and carries every cell through the middle.
LEMMA TwoCopies ==
  ASSUME NEW kern, NEW T, NEW to, NEW from, NEW into, NEW out, NEW Source, NEW Middle, NEW Target,
         CopiesTwice(kern, T, to, from, into, out, Source, Middle, Target)
  PROVE  /\ Disciplined(kern)
         /\ \A t \in DOMAIN to, u \in DOMAIN into :
              to[t] = out[u] => InOrder(kern)[Len(kern.steps)][into[u]] = kern.mem[from[t]]
<1> USE DEF CopiesTwice
<1> DEFINE load == CopyStep(to, from)
           sync == SyncStep(T)
           store == CopyStep(into, out)
<1>1. /\ load.scope = "thread" /\ ~load.atomic /\ DOMAIN load.act = DOMAIN to
      /\ \A t \in DOMAIN to : load.writes[t] = {to[t]} /\ load.reads[t] = {from[t]}
  BY DEF CopyStep
<1>2. /\ store.scope = "thread" /\ ~store.atomic /\ DOMAIN store.act = DOMAIN into
      /\ \A t \in DOMAIN into : store.writes[t] = {into[t]} /\ store.reads[t] = {out[t]}
  BY DEF CopyStep
<1>3. /\ sync.scope = "block" /\ ~sync.atomic /\ DOMAIN sync.act = T
      /\ \A t \in T : sync.act[t] = <<>> /\ sync.writes[t] = {} /\ sync.reads[t] = {}
  BY DEF SyncStep
<1>4. /\ Len(kern.steps) = 3 /\ DOMAIN kern.steps = 1 .. 3
      /\ kern.steps[1] = load /\ kern.steps[2] = sync /\ kern.steps[3] = store
  OBVIOUS
<1> HIDE DEF load, sync, store
<1>5. Range(kern.steps) = {load, sync, store}
  <2>1. \A i \in 1 .. 3 : i = 1 \/ i = 2 \/ i = 3
    OBVIOUS
  <2> QED BY <1>4, <2>1 DEF Range
<1>6. Declared(kern)
  BY <1>1, <1>2, <1>3, <1>5 DEF Declared
<1>7. Plain(kern)
  BY <1>1, <1>2, <1>3, <1>5 DEF Plain
<1>8. Separated(kern)
  <2>1. ASSUME NEW i \in DOMAIN kern.steps, NEW j \in i .. Len(kern.steps),
               NEW t \in DOMAIN kern.steps[i].act, NEW u \in DOMAIN kern.steps[j].act,
               t # u, Conflict(kern.steps[i], t, kern.steps[j], u)
        PROVE  \E m \in i .. j : MeetIn(kern, m, t, u)
    <3>1. i \in 1 .. 3 /\ j \in 1 .. 3 /\ i <= j
      BY <1>4
    <3>2. i # 2 /\ j # 2
      BY <1>3, <1>4, <2>1 DEF Conflict
    <3>3. ~(i = 1 /\ j = 1)
      BY <1>1, <1>4, <2>1 DEF Conflict
    <3>4. ~(i = 3 /\ j = 3)
      BY <1>2, <1>4, <2>1 DEF Conflict
    <3>5. i = 1 /\ j = 3
      BY <3>1, <3>2, <3>3, <3>4
    <3>6. t \in DOMAIN to /\ u \in DOMAIN into /\ to[t] = out[u]
      BY <1>1, <1>2, <1>4, <2>1, <3>5 DEF Conflict
    <3>7. MeetIn(kern, 2, t, u)
      BY <1>3, <1>4, <3>6 DEF MeetIn
    <3> QED BY <3>5, <3>7
  <2> QED BY <2>1 DEF Separated
<1> DEFINE m0 == kern.mem
           m1 == Taken(kern, 1, m0)
           m2 == Taken(kern, 2, m1)
           m3 == Taken(kern, 3, m2)
<1>9. InOrder(kern)[3] = m3
  <2>1. Taking(InOrder(kern), kern, 3)
    <3>1. Len(kern.steps) \in Nat
      BY <1>4
    <3>2. Taking(InOrder(kern), kern, Len(kern.steps))
      BY <3>1, InOrderComputed
    <3> QED BY <1>4, <3>2
  <2>2. /\ InOrder(kern)[0] = m0 /\ InOrder(kern)[1] = Taken(kern, 1, InOrder(kern)[0])
        /\ InOrder(kern)[2] = Taken(kern, 2, InOrder(kern)[1]) /\ InOrder(kern)[3] = Taken(kern, 3, InOrder(kern)[2])
    BY <2>1 DEF Taking
  <2> QED BY <2>2
<1>10. DOMAIN m1 = DOMAIN m0 /\ \A t \in DOMAIN to : m1[to[t]] = m0[from[t]]
  <2>1. kern.steps[1] = CopyStep(to, from) /\ \A t \in DOMAIN to : from[t] \in DOMAIN m0 /\ to[t] \in DOMAIN m0
    BY <1>4 DEF load
  <2> HIDE DEF m0
  <2> QED BY <2>1, CopyTaken
<1> HIDE DEF m1
<1>11. DOMAIN m2 = DOMAIN m1 /\ \A c \in DOMAIN m1 : m2[c] = m1[c]
  <2>1. kern.steps[2] = SyncStep(T)
    BY <1>4 DEF sync
  <2> QED BY <2>1, SyncTaken
<1> HIDE DEF m2
<1>12. \A u \in DOMAIN into : m3[into[u]] = m2[out[u]]
  <2>1. kern.steps[3] = CopyStep(into, out) /\ \A t \in DOMAIN into : out[t] \in DOMAIN m2 /\ into[t] \in DOMAIN m2
    BY <1>4, <1>10, <1>11 DEF store
  <2> QED BY <2>1, CopyTaken
<1> HIDE DEF m3
<1>13. ASSUME NEW t \in DOMAIN to, NEW u \in DOMAIN into, to[t] = out[u]
       PROVE  InOrder(kern)[Len(kern.steps)][into[u]] = kern.mem[from[t]]
  <2>1. out[u] \in DOMAIN m1
    BY <1>10
  <2> QED BY <1>4, <1>9, <1>10, <1>11, <1>12, <1>13, <2>1
<1> QED BY <1>6, <1>7, <1>8, <1>13 DEF Disciplined

-----------------------------------------------------------------------------
(* Rows, columns and tiles *)

\* Quotient and remainder, and that they are the only ones.
LEMMA Divided ==
  ASSUME NEW n \in Nat, NEW m \in Nat \ {0}
  PROVE  n % m \in 0 .. m - 1 /\ n \div m \in Nat /\ n = (n \div m) * m + (n % m)
BY Z3

\* Those of q * m + r are q and r.
LEMMA DividedOnce ==
  ASSUME NEW m \in Nat \ {0}, NEW q \in Nat, NEW r \in 0 .. m - 1
  PROVE  q * m + r \in Nat /\ (q * m + r) \div m = q /\ (q * m + r) % m = r
BY SMTT(30)

\* No number is put together in two ways.
LEMMA OneWay ==
  ASSUME NEW m \in Nat \ {0}, NEW q \in Nat, NEW p \in Nat, NEW r \in 0 .. m - 1, NEW s \in 0 .. m - 1,
         q * m + r = p * m + s
  PROVE  q = p /\ r = s
<1>1. (q * m + r) \div m = q /\ (q * m + r) % m = r
  BY DividedOnce
<1>2. (p * m + s) \div m = p /\ (p * m + s) % m = s
  BY DividedOnce
<1> QED BY <1>1, <1>2

\* k rows of m places have numbers below k * m.
LEMMA Numbered ==
  ASSUME NEW k \in Nat, NEW m \in Nat \ {0}, NEW q \in 0 .. k - 1, NEW r \in 0 .. m - 1
  PROVE  q * m + r \in 0 .. k * m - 1
<1>1. (q + 1) * m <= k * m
  BY SMTT(30)
<1>2. (q + 1) * m = q * m + m /\ q * m \in Nat /\ k * m \in Nat
  BY SMTT(30)
<1> QED BY <1>1, <1>2

\* The row and the place of a number.
LEMMA RowOfNumber ==
  ASSUME NEW k \in Nat, NEW m \in Nat \ {0}, NEW n \in 0 .. k * m - 1
  PROVE  n \div m \in 0 .. k - 1 /\ n % m \in 0 .. m - 1 /\ n = (n \div m) * m + (n % m) /\ n \in Nat
<1> DEFINE q == n \div m
<1>1. k * m \in Nat
  BY SMTT(30)
<1>2. n \in Nat /\ n < k * m
  BY <1>1
<1>3. n % m \in 0 .. m - 1 /\ q \in Nat /\ n = q * m + (n % m)
  BY <1>2, Divided
<1> HIDE DEF q
<1>4. q * m < k * m
  BY <1>2, <1>3
<1>5. q < k
  BY <1>3, <1>4, SMTT(30)
<1> QED BY <1>2, <1>3, <1>5 DEF q

\* A number of pieces of n that cover a.
LEMMA CeilCovers ==
  ASSUME NEW a \in Nat \ {0}, NEW n \in Nat \ {0}
  PROVE  /\ Ceil(a, n) \in Nat \ {0}
         /\ \A i \in 0 .. a - 1 : i \div n \in 0 .. Ceil(a, n) - 1
<1> DEFINE c == Ceil(a, n)
           r == (a + n - 1) % n
<1>1. a + n - 1 \in Nat /\ c = (a + n - 1) \div n
  BY DEF Ceil
<1>2. r \in 0 .. n - 1 /\ c \in Nat /\ a + n - 1 = c * n + r
  BY <1>1, Divided
<1> HIDE DEF c, r
<1>3. a <= c * n /\ c * n \in Nat
  BY <1>2
<1>4. c # 0
  BY <1>2, <1>3
<1>5. ASSUME NEW i \in 0 .. a - 1 PROVE i \div n \in 0 .. c - 1
  <2>1. i \in 0 .. c * n - 1
    BY <1>3
  <2> QED BY <1>2, <2>1, RowOfNumber
<1> QED BY <1>2, <1>4, <1>5 DEF c

\* The thread (x, y) of the block (bx, by).
At(cols, TILE, by, bx, y, x) == <<by * Ceil(cols, TILE) + bx, y * TILE + x>>

\* Every thread of the grid is one of those.
LEMMA ThreadIsAt ==
  ASSUME NEW rows \in Nat \ {0}, NEW cols \in Nat \ {0}, NEW TILE \in Nat \ {0}, NEW t \in Cover(rows, cols, TILE)
  PROVE  /\ Blk(t) \div Ceil(cols, TILE) \in 0 .. Ceil(rows, TILE) - 1
         /\ Blk(t) % Ceil(cols, TILE) \in 0 .. Ceil(cols, TILE) - 1
         /\ X(t, TILE) \in 0 .. TILE - 1 /\ Y(t, TILE) \in 0 .. TILE - 1
         /\ t = At(cols, TILE, Blk(t) \div Ceil(cols, TILE), Blk(t) % Ceil(cols, TILE), Y(t, TILE), X(t, TILE))
         /\ Blk(t) \in 0 .. Ceil(cols, TILE) * Ceil(rows, TILE) - 1
<1> DEFINE wide == Ceil(cols, TILE)
           high == Ceil(rows, TILE)
<1>1. wide \in Nat \ {0} /\ high \in Nat \ {0}
  BY CeilCovers
<1>2. t \in (0 .. wide * high - 1) \X (0 .. TILE * TILE - 1)
  BY DEF Cover, Threads
<1>3. t = <<Blk(t), Tid(t)>> /\ Blk(t) \in 0 .. wide * high - 1 /\ Tid(t) \in 0 .. TILE * TILE - 1
  BY <1>2 DEF Blk, Tid
<1> HIDE DEF wide, high
<1>4. wide * high = high * wide
  BY <1>1
<1>5. /\ Blk(t) \div wide \in 0 .. high - 1 /\ Blk(t) % wide \in 0 .. wide - 1
      /\ Blk(t) = (Blk(t) \div wide) * wide + (Blk(t) % wide)
  BY <1>1, <1>3, <1>4, RowOfNumber
<1>6. /\ Tid(t) \div TILE \in 0 .. TILE - 1 /\ Tid(t) % TILE \in 0 .. TILE - 1
      /\ Tid(t) = (Tid(t) \div TILE) * TILE + (Tid(t) % TILE)
  BY <1>3, RowOfNumber
<1> QED BY <1>3, <1>5, <1>6 DEF At, X, Y, wide, high

\* Each of those is a thread of the grid.
LEMMA AtIsThread ==
  ASSUME NEW rows \in Nat \ {0}, NEW cols \in Nat \ {0}, NEW TILE \in Nat \ {0},
         NEW by \in 0 .. Ceil(rows, TILE) - 1, NEW bx \in 0 .. Ceil(cols, TILE) - 1,
         NEW y \in 0 .. TILE - 1, NEW x \in 0 .. TILE - 1,
         NEW t, t = At(cols, TILE, by, bx, y, x)
  PROVE  /\ t \in Cover(rows, cols, TILE)
         /\ Row(t, cols, TILE) = by * TILE + y /\ Col(t, cols, TILE) = bx * TILE + x
         /\ MirrorRow(t, cols, TILE) = bx * TILE + y /\ MirrorCol(t, cols, TILE) = by * TILE + x
         /\ X(t, TILE) = x /\ Y(t, TILE) = y /\ Blk(t) = by * Ceil(cols, TILE) + bx
<1> DEFINE wide == Ceil(cols, TILE)
           high == Ceil(rows, TILE)
<1>1. wide \in Nat \ {0} /\ high \in Nat \ {0}
  BY CeilCovers
<1>2. by \in 0 .. high - 1 /\ bx \in 0 .. wide - 1 /\ t = <<by * wide + bx, y * TILE + x>>
  BY DEF At
<1>3. Blk(t) = by * wide + bx /\ Tid(t) = y * TILE + x
  BY <1>2 DEF Blk, Tid
<1>4. Blk(t) \div wide = by /\ Blk(t) % wide = bx
  <2> HIDE DEF wide, high
  <2>1. by \in Nat
    BY <1>1, <1>2
  <2>2. (by * wide + bx) \div wide = by /\ (by * wide + bx) % wide = bx
    BY <1>1, <1>2, <2>1, DividedOnce
  <2> QED BY <1>3, <2>2
<1>5. Tid(t) \div TILE = y /\ Tid(t) % TILE = x
  <2>1. y \in Nat
    OBVIOUS
  <2>2. (y * TILE + x) \div TILE = y /\ (y * TILE + x) % TILE = x
    BY <2>1, DividedOnce
  <2> QED BY <1>3, <2>2
<1>6. t \in Threads(wide * high, TILE * TILE)
  <2> HIDE DEF wide, high
  <2>1. by * wide + bx \in 0 .. high * wide - 1 /\ wide * high = high * wide
    BY <1>1, <1>2, Numbered
  <2>2. y * TILE + x \in 0 .. TILE * TILE - 1
    BY Numbered
  <2> QED BY <1>2, <2>1, <2>2 DEF Threads
<1> QED BY <1>3, <1>4, <1>5, <1>6 DEF Cover, Row, Col, MirrorRow, MirrorCol, X, Y

\* Every place has a thread, in the matrix as in its mirror image.
LEMMA EveryPlace ==
  ASSUME NEW rows \in Nat \ {0}, NEW cols \in Nat \ {0}, NEW TILE \in Nat \ {0},
         NEW i \in 0 .. rows - 1, NEW j \in 0 .. cols - 1
  PROVE  /\ \E t \in OnMatrix(rows, cols, TILE) : Row(t, cols, TILE) = i /\ Col(t, cols, TILE) = j
         /\ \E t \in OnMirror(rows, cols, TILE) : MirrorRow(t, cols, TILE) = j /\ MirrorCol(t, cols, TILE) = i
<1> DEFINE by == i \div TILE
           bx == j \div TILE
           iy == i % TILE
           jx == j % TILE
<1>1. by \in 0 .. Ceil(rows, TILE) - 1 /\ bx \in 0 .. Ceil(cols, TILE) - 1
  BY CeilCovers
<1>2. iy \in 0 .. TILE - 1 /\ i = by * TILE + iy
  <2>1. i \in Nat
    OBVIOUS
  <2> QED BY <2>1, Divided
<1>3. jx \in 0 .. TILE - 1 /\ j = bx * TILE + jx
  <2>1. j \in Nat
    OBVIOUS
  <2> QED BY <2>1, Divided
<1> HIDE DEF by, bx, iy, jx
<1>4. PICK t : t = At(cols, TILE, by, bx, iy, jx)
  OBVIOUS
<1>5. t \in Cover(rows, cols, TILE) /\ Row(t, cols, TILE) = i /\ Col(t, cols, TILE) = j
  BY <1>1, <1>2, <1>3, <1>4, AtIsThread
<1>6. PICK u : u = At(cols, TILE, by, bx, jx, iy)
  OBVIOUS
<1>7. u \in Cover(rows, cols, TILE) /\ MirrorRow(u, cols, TILE) = j /\ MirrorCol(u, cols, TILE) = i
  BY <1>1, <1>2, <1>3, <1>6, AtIsThread
<1> QED BY <1>5, <1>7 DEF OnMatrix, OnMirror

\* Threads are as many as places: no two stand for the same.
LEMMA SamePlace ==
  ASSUME NEW rows \in Nat \ {0}, NEW cols \in Nat \ {0}, NEW TILE \in Nat \ {0},
         NEW t \in Cover(rows, cols, TILE), NEW u \in Cover(rows, cols, TILE)
  PROVE  /\ Row(t, cols, TILE) \in Nat /\ Col(t, cols, TILE) \in Nat
         /\ MirrorRow(t, cols, TILE) \in Nat /\ MirrorCol(t, cols, TILE) \in Nat
         /\ Row(t, cols, TILE) = Row(u, cols, TILE) /\ Col(t, cols, TILE) = Col(u, cols, TILE) => t = u
         /\ MirrorRow(t, cols, TILE) = MirrorRow(u, cols, TILE) /\ MirrorCol(t, cols, TILE) = MirrorCol(u, cols, TILE) => t = u
<1> DEFINE by(v) == Blk(v) \div Ceil(cols, TILE)
           bx(v) == Blk(v) % Ceil(cols, TILE)
           x(v) == X(v, TILE)
           y(v) == Y(v, TILE)
<1>1. Ceil(rows, TILE) \in Nat \ {0} /\ Ceil(cols, TILE) \in Nat \ {0}
  BY CeilCovers
<1>2. ASSUME NEW v \in Cover(rows, cols, TILE)
      PROVE  /\ by(v) \in Nat /\ bx(v) \in Nat /\ x(v) \in 0 .. TILE - 1 /\ y(v) \in 0 .. TILE - 1
             /\ v = At(cols, TILE, by(v), bx(v), y(v), x(v))
             /\ Row(v, cols, TILE) = by(v) * TILE + y(v) /\ Col(v, cols, TILE) = bx(v) * TILE + x(v)
             /\ MirrorRow(v, cols, TILE) = bx(v) * TILE + y(v) /\ MirrorCol(v, cols, TILE) = by(v) * TILE + x(v)
  <2>1. /\ by(v) \in 0 .. Ceil(rows, TILE) - 1 /\ bx(v) \in 0 .. Ceil(cols, TILE) - 1
        /\ x(v) \in 0 .. TILE - 1 /\ y(v) \in 0 .. TILE - 1
        /\ v = At(cols, TILE, by(v), bx(v), y(v), x(v))
    BY ThreadIsAt
  <2> QED BY <1>1, <2>1 DEF Row, Col, MirrorRow, MirrorCol
<1> HIDE DEF by, bx, x, y
<1>4. /\ Row(t, cols, TILE) \in Nat /\ Col(t, cols, TILE) \in Nat
      /\ MirrorRow(t, cols, TILE) \in Nat /\ MirrorCol(t, cols, TILE) \in Nat
  BY <1>2, DividedOnce
<1>5. ASSUME by(t) = by(u), bx(t) = bx(u), x(t) = x(u), y(t) = y(u) PROVE t = u
  BY <1>2, <1>5
<1>6. ASSUME Row(t, cols, TILE) = Row(u, cols, TILE), Col(t, cols, TILE) = Col(u, cols, TILE) PROVE t = u
  <2>1. by(t) = by(u) /\ y(t) = y(u)
    <3>1. by(t) * TILE + y(t) = by(u) * TILE + y(u)
      BY <1>2, <1>6
    <3>2. by(t) \in Nat /\ by(u) \in Nat /\ y(t) \in 0 .. TILE - 1 /\ y(u) \in 0 .. TILE - 1
      BY <1>2
    <3> QED BY <3>1, <3>2, OneWay
  <2>2. bx(t) = bx(u) /\ x(t) = x(u)
    <3>1. bx(t) * TILE + x(t) = bx(u) * TILE + x(u)
      BY <1>2, <1>6
    <3>2. bx(t) \in Nat /\ bx(u) \in Nat /\ x(t) \in 0 .. TILE - 1 /\ x(u) \in 0 .. TILE - 1
      BY <1>2
    <3> QED BY <3>1, <3>2, OneWay
  <2> QED BY <1>5, <2>1, <2>2
<1>7. ASSUME MirrorRow(t, cols, TILE) = MirrorRow(u, cols, TILE), MirrorCol(t, cols, TILE) = MirrorCol(u, cols, TILE) PROVE t = u
  <2>1. bx(t) = bx(u) /\ y(t) = y(u)
    <3>1. bx(t) * TILE + y(t) = bx(u) * TILE + y(u)
      BY <1>2, <1>7
    <3>2. bx(t) \in Nat /\ bx(u) \in Nat /\ y(t) \in 0 .. TILE - 1 /\ y(u) \in 0 .. TILE - 1
      BY <1>2
    <3> QED BY <3>1, <3>2, OneWay
  <2>2. by(t) = by(u) /\ x(t) = x(u)
    <3>1. by(t) * TILE + x(t) = by(u) * TILE + x(u)
      BY <1>2, <1>7
    <3>2. by(t) \in Nat /\ by(u) \in Nat /\ x(t) \in 0 .. TILE - 1 /\ x(u) \in 0 .. TILE - 1
      BY <1>2
    <3> QED BY <3>1, <3>2, OneWay
  <2> QED BY <1>5, <2>1, <2>2
<1> QED BY <1>4, <1>6, <1>7

\* The cells of the input and the output.
LEMMA InAndOut ==
  ASSUME NEW n \in Nat
  PROVE  /\ DOMAIN Inputs(n) = Array("in", 0, n)
         /\ \A i \in 0 .. n - 1 : In(i) \in Array("in", 0, n) /\ Inputs(n)[In(i)] = Input(i) /\ Out(i) \in Array("out", 0, n)
         /\ \A i, j : Out(i) = Out(j) => i = j
         /\ \A c \in Array("out", 0, n) : \E i \in 0 .. n - 1 : c = Out(i)
         /\ Array("in", 0, n) \cap Array("out", 0, n) = {}
<1>1. DOMAIN Inputs(n) = Array("in", 0, n) /\ \A c \in Array("in", 0, n) : Inputs(n)[c] = Input(c[3])
  BY DEF Inputs
<1>2. \A i \in 0 .. n - 1 : In(i) \in Array("in", 0, n) /\ Out(i) \in Array("out", 0, n)
  BY DEF In, Out, Array
<1>3. \A i : In(i)[3] = i /\ Out(i)[3] = i
  BY DEF In, Out, Cell
<1>4. \A c \in Array("out", 0, n) : \E i \in 0 .. n - 1 : c = Out(i)
  BY DEF Out, Array
<1>5. Array("in", 0, n) \cap Array("out", 0, n) = {}
  <2>1. \A c \in Array("in", 0, n) : c[1] = "in"
    BY DEF Array, Cell
  <2>2. \A c \in Array("out", 0, n) : c[1] = "out"
    BY DEF Array, Cell
  <2> QED BY <2>1, <2>2
<1> QED BY <1>1, <1>2, <1>3, <1>4, <1>5

\* A kernel with no array free of conflicts.
LEMMA NotBanked ==
  ASSUME NEW kern, kern.banked = {}
  PROVE  BankFree(kern)
BY DEF BankFree, BanksApart

\* Where output k comes from, and what the CPU reference has there.
Origin(M, N, k) == (k % M) * N + k \div M
LEMMA TransposedCell ==
  ASSUME NEW M \in Nat \ {0}, NEW N \in Nat \ {0}, M * N \in Nat
  PROVE  /\ DOMAIN cpu_transpose(M, N) = Array("out", 0, M * N)
         /\ \A k \in 0 .. M * N - 1 : cpu_transpose(M, N)[Out(k)] = Input(Origin(M, N, k))
<1>1. \A k \in 0 .. M * N - 1 : Out(k) \in Array("out", 0, M * N) /\ Out(k)[3] = k
  <2>1. \A k : Out(k)[3] = k
    BY DEF Out, Cell
  <2> QED BY <2>1, InAndOut
<1> QED BY <1>1 DEF cpu_transpose, Origin

-----------------------------------------------------------------------------
(* Transpositions element by element *)

\* Elements moved one by one, each to a place of its own, every place from where
\* its element is.
PutsAll(n, M, N, rows, cols, from, to) ==
  LET Places == (0 .. rows - 1) \X (0 .. cols - 1)
  IN /\ \A p \in Places : from[p] \in 0 .. n - 1 /\ to[p] \in 0 .. n - 1
     /\ \A p, q \in Places : to[p] = to[q] => p = q
     /\ \A k \in 0 .. n - 1 : \E p \in Places : to[p] = k /\ from[p] = Origin(M, N, k)

\* No races, no conflicts, the right result.
LEMMA MovesRight ==
  ASSUME NEW M \in Nat \ {0}, NEW N \in Nat \ {0}, NEW TILE \in Nat \ {0},
         NEW rows \in Nat \ {0}, NEW cols \in Nat \ {0}, NEW from, NEW to,
         NEW n \in Nat, n = M * N, PutsAll(n, M, N, rows, cols, from, to),
         NEW kern, kern = Move(M, N, TILE, rows, cols, from, to)
  PROVE  Disciplined(kern) /\ RightInOrder(kern) /\ BankFree(kern)
<1>0. PICK Places :
        /\ Places = (0 .. rows - 1) \X (0 .. cols - 1)
        /\ \A p \in Places : from[p] \in 0 .. n - 1 /\ to[p] \in 0 .. n - 1
        /\ \A p, q \in Places : to[p] = to[q] => p = q
        /\ \A k \in 0 .. n - 1 : \E p \in Places : to[p] = k /\ from[p] = Origin(M, N, k)
  <2> DEFINE All == (0 .. rows - 1) \X (0 .. cols - 1)
  <2>1. /\ \A p \in All : from[p] \in 0 .. n - 1 /\ to[p] \in 0 .. n - 1
        /\ \A p, q \in All : to[p] = to[q] => p = q
        /\ \A k \in 0 .. n - 1 : \E p \in All : to[p] = k /\ from[p] = Origin(M, N, k)
    BY DEF PutsAll
  <2>2. All = (0 .. rows - 1) \X (0 .. cols - 1)
    OBVIOUS
  <2> HIDE DEF All
  <2> QED BY ONLY <2>1, <2>2
<1> USE <1>0
<1> DEFINE T == OnMatrix(rows, cols, TILE)
           place(t) == <<Row(t, cols, TILE), Col(t, cols, TILE)>>
           target == [t \in T |-> Out(to[place(t)])]
           source == [t \in T |-> In(from[place(t)])]
<1>1. ASSUME NEW t \in T PROVE t \in Cover(rows, cols, TILE) /\ place(t) \in Places
  <2>1. t \in Cover(rows, cols, TILE) /\ Row(t, cols, TILE) < rows /\ Col(t, cols, TILE) < cols
    BY DEF OnMatrix
  <2>2. Row(t, cols, TILE) \in Nat /\ Col(t, cols, TILE) \in Nat
    BY <2>1, SamePlace
  <2>3. Row(t, cols, TILE) \in 0 .. rows - 1 /\ Col(t, cols, TILE) \in 0 .. cols - 1
    BY <2>1, <2>2
  <2> QED BY <2>1, <2>3
<1>2. kern = Compile(Cover(rows, cols, TILE), TILE, Array("out", 0, n), Inputs(n), {}, Copy(target, source),
                     cpu_transpose(M, N), {})
  BY DEF Move
<1>3. ASSUME NEW t \in T, NEW u \in T, place(t) = place(u) PROVE t = u
  <2>1. Row(t, cols, TILE) = Row(u, cols, TILE) /\ Col(t, cols, TILE) = Col(u, cols, TILE)
    BY <1>3
  <2>2. t \in Cover(rows, cols, TILE) /\ u \in Cover(rows, cols, TILE)
    BY <1>1
  <2> QED BY ONLY rows \in Nat \ {0}, cols \in Nat \ {0}, TILE \in Nat \ {0}, <2>1, <2>2, SamePlace
<1>4. ASSUME NEW p \in Places PROVE \E t \in T : place(t) = p
  <2>1. PICK i \in 0 .. rows - 1, j \in 0 .. cols - 1 : p = <<i, j>>
    OBVIOUS
  <2>2. PICK t \in T : Row(t, cols, TILE) = i /\ Col(t, cols, TILE) = j
    <3> HIDE DEF place, target, source
    <3>1. \E t \in OnMatrix(rows, cols, TILE) : Row(t, cols, TILE) = i /\ Col(t, cols, TILE) = j
      BY ONLY rows \in Nat \ {0}, cols \in Nat \ {0}, TILE \in Nat \ {0}, i \in 0 .. rows - 1, j \in 0 .. cols - 1,
         EveryPlace
    <3> QED BY ONLY <3>1
  <2> QED BY <2>1, <2>2
<1>5. DOMAIN target = T /\ DOMAIN source = T
  OBVIOUS
<1> HIDE DEF T, place
<1>6. \A t \in T : target[t] = Out(to[place(t)]) /\ source[t] = In(from[place(t)])
  OBVIOUS
<1> HIDE DEF target, source
<1>7. /\ kern.steps = Fuse(Copy(target, source)) /\ kern.result = cpu_transpose(M, N) /\ kern.banked = {}
      /\ Array("out", 0, n) \cup DOMAIN Inputs(n) \subseteq DOMAIN kern.mem
      /\ \A d \in DOMAIN Inputs(n) : kern.mem[d] = Inputs(n)[d]
  BY <1>2, Compiled
<1>8. kern.steps = <<CopyStep(target, source)>>
  BY <1>7, CopyIs, FuseOne
<1> DEFINE Source == Array("in", 0, n)
           Target == Array("out", 0, n)
<1>9. /\ DOMAIN Inputs(n) = Source /\ Source \cap Target = {}
      /\ \A i \in 0 .. n - 1 : In(i) \in Source /\ Inputs(n)[In(i)] = Input(i) /\ Out(i) \in Target
      /\ \A i, j : Out(i) = Out(j) => i = j
      /\ \A d \in Target : \E i \in 0 .. n - 1 : d = Out(i)
  BY InAndOut
<1>10. DOMAIN kern.result = Target /\ \A k \in 0 .. n - 1 : kern.result[Out(k)] = Input(Origin(M, N, k))
  <2>1. M * N \in Nat /\ n = M * N
    OBVIOUS
  <2>2. /\ DOMAIN cpu_transpose(M, N) = Array("out", 0, M * N)
        /\ \A k \in 0 .. M * N - 1 : cpu_transpose(M, N)[Out(k)] = Input(Origin(M, N, k))
    BY ONLY M \in Nat \ {0}, N \in Nat \ {0}, <2>1, TransposedCell
  <2> HIDE DEF cpu_transpose
  <2>3. /\ DOMAIN cpu_transpose(M, N) = Target
        /\ \A k \in 0 .. n - 1 : cpu_transpose(M, N)[Out(k)] = Input(Origin(M, N, k))
    BY ONLY <2>1, <2>2
  <2> QED BY ONLY <1>7, <2>3
<1>11. Source \cup Target \subseteq DOMAIN kern.mem
  BY <1>7, <1>9
<1> HIDE DEF Source, Target
<1>12. \A t \in DOMAIN target : source[t] \in Source /\ target[t] \in Target
  BY <1>1, <1>5, <1>6, <1>9
<1>13. \A t, u \in DOMAIN target : target[t] = target[u] => t = u
  <2> SUFFICES ASSUME NEW t \in T, NEW u \in T, target[t] = target[u] PROVE t = u
    BY <1>5
  <2>1. to[place(t)] = to[place(u)]
    BY <1>6, <1>9
  <2> QED BY <1>1, <1>3, <2>1
<1>14. /\ Disciplined(kern)
       /\ \A t \in DOMAIN target : InOrder(kern)[Len(kern.steps)][target[t]] = kern.mem[source[t]]
  <2>1. Source \cap Target = {}
    BY <1>9
  <2>2. CopiesOnce(kern, target, source, Source, Target)
    BY ONLY <1>8, <1>11, <1>12, <1>13, <2>1 DEF CopiesOnce
  <2> QED BY ONLY <2>2, OneCopy
<1>15. ASSUME NEW d \in Target PROVE InOrder(kern)[Len(kern.steps)][d] = kern.result[d]
  <2>1. PICK k \in 0 .. n - 1 : d = Out(k)
    BY <1>9
  <2>2. PICK p \in Places : to[p] = k /\ from[p] = Origin(M, N, k)
    OBVIOUS
  <2>3. PICK t \in T : place(t) = p
    BY <1>4
  <2>4. target[t] = d /\ source[t] = In(from[p])
    BY <1>6, <2>1, <2>2, <2>3
  <2>5. kern.mem[source[t]] = Input(from[p])
    BY <1>7, <1>9, <2>4
  <2>6. InOrder(kern)[Len(kern.steps)][target[t]] = kern.mem[source[t]]
    BY ONLY <1>5, <1>14, <2>3
  <2>7. kern.result[d] = Input(Origin(M, N, k))
    BY ONLY <1>10, <2>1
  <2> QED BY ONLY <2>2, <2>4, <2>5, <2>6, <2>7
<1>16. RightInOrder(kern)
  <2> DEFINE last == InOrder(kern)[Len(kern.steps)]
  <2>1. \A d \in DOMAIN kern.result : last[d] = kern.result[d]
    BY ONLY <1>10, <1>15
  <2> HIDE DEF last
  <2>2. \A outcome \in {last} : \A d \in DOMAIN kern.result : outcome[d] = kern.result[d]
    BY ONLY <2>1
  <2> QED BY ONLY <2>2 DEF RightInOrder, last
<1> QED BY <1>7, <1>14, <1>16, NotBanked

\* Rows of numbers, and the same numbers down the columns.
LEMMA Layouts ==
  ASSUME NEW rows \in Nat \ {0}, NEW cols \in Nat \ {0}, NEW i \in 0 .. rows - 1, NEW j \in 0 .. cols - 1
  PROVE  /\ RowMajor(rows, cols)[<<i, j>>] = i * cols + j /\ i * cols + j \in 0 .. rows * cols - 1
         /\ Transposed(rows, cols)[<<i, j>>] = j * rows + i /\ j * rows + i \in 0 .. rows * cols - 1
<1>1. i * cols + j \in 0 .. rows * cols - 1
  BY Numbered
<1>2. j * rows + i \in 0 .. cols * rows - 1
  BY Numbered
<1>3. cols * rows = rows * cols
  OBVIOUS
<1>4. j * rows + i \in 0 .. rows * cols - 1
  BY ONLY <1>2, <1>3
<1>5. <<i, j>> \in (0 .. rows - 1) \X (0 .. cols - 1)
  OBVIOUS
<1>6. RowMajor(rows, cols)[<<i, j>>] = i * cols + j
  BY ONLY <1>5 DEF RowMajor
<1>7. Transposed(rows, cols)[<<i, j>>] = j * rows + i
  BY ONLY <1>5 DEF Transposed
<1> QED BY ONLY <1>1, <1>4, <1>6, <1>7

\* No two places have the same number in either.
LEMMA LayoutsInjective ==
  ASSUME NEW rows \in Nat \ {0}, NEW cols \in Nat \ {0}
  PROVE  /\ \A p, q \in (0 .. rows - 1) \X (0 .. cols - 1) : RowMajor(rows, cols)[p] = RowMajor(rows, cols)[q] => p = q
         /\ \A p, q \in (0 .. rows - 1) \X (0 .. cols - 1) : Transposed(rows, cols)[p] = Transposed(rows, cols)[q] => p = q
<1> DEFINE Places == (0 .. rows - 1) \X (0 .. cols - 1)
<1>1. ASSUME NEW p \in Places, NEW q \in Places, RowMajor(rows, cols)[p] = RowMajor(rows, cols)[q] PROVE p = q
  <2>1. PICK i \in 0 .. rows - 1, j \in 0 .. cols - 1 : p = <<i, j>>
    OBVIOUS
  <2>2. PICK g \in 0 .. rows - 1, h \in 0 .. cols - 1 : q = <<g, h>>
    OBVIOUS
  <2>3. RowMajor(rows, cols)[<<i, j>>] = i * cols + j /\ RowMajor(rows, cols)[<<g, h>>] = g * cols + h
    <3>1. <<i, j>> \in (0 .. rows - 1) \X (0 .. cols - 1) /\ <<g, h>> \in (0 .. rows - 1) \X (0 .. cols - 1)
      BY ONLY <2>1, <2>2
    <3>2. RowMajor(rows, cols)[<<i, j>>] = i * cols + j
      BY ONLY <3>1 DEF RowMajor
    <3>3. RowMajor(rows, cols)[<<g, h>>] = g * cols + h
      BY ONLY <3>1 DEF RowMajor
    <3> QED BY ONLY <3>2, <3>3
  <2>4. i * cols + j = g * cols + h
    BY ONLY <1>1, <2>1, <2>2, <2>3
  <2>5. i \in Nat /\ g \in Nat
    BY ONLY <2>1, <2>2, rows \in Nat
  <2>6. i = g /\ j = h
    BY ONLY cols \in Nat \ {0}, <2>1, <2>2, <2>4, <2>5, OneWay
  <2> QED BY ONLY <2>1, <2>2, <2>6
<1>2. ASSUME NEW p \in Places, NEW q \in Places, Transposed(rows, cols)[p] = Transposed(rows, cols)[q] PROVE p = q
  <2>1. PICK i \in 0 .. rows - 1, j \in 0 .. cols - 1 : p = <<i, j>>
    OBVIOUS
  <2>2. PICK g \in 0 .. rows - 1, h \in 0 .. cols - 1 : q = <<g, h>>
    OBVIOUS
  <2>3. Transposed(rows, cols)[<<i, j>>] = j * rows + i /\ Transposed(rows, cols)[<<g, h>>] = h * rows + g
    <3>1. <<i, j>> \in (0 .. rows - 1) \X (0 .. cols - 1) /\ <<g, h>> \in (0 .. rows - 1) \X (0 .. cols - 1)
      BY ONLY <2>1, <2>2
    <3>2. Transposed(rows, cols)[<<i, j>>] = j * rows + i
      BY ONLY <3>1 DEF Transposed
    <3>3. Transposed(rows, cols)[<<g, h>>] = h * rows + g
      BY ONLY <3>1 DEF Transposed
    <3> QED BY ONLY <3>2, <3>3
  <2>4. j * rows + i = h * rows + g
    BY ONLY <1>2, <2>1, <2>2, <2>3
  <2>5. j \in Nat /\ h \in Nat
    BY ONLY <2>1, <2>2, cols \in Nat
  <2>6. j = h /\ i = g
    BY ONLY rows \in Nat \ {0}, <2>1, <2>2, <2>4, <2>5, OneWay
  <2> QED BY ONLY <2>1, <2>2, <2>6
<1> QED BY <1>1, <1>2

\* The layouts of v0 move every element to its place.
LEMMA MovesInput ==
  ASSUME NEW M \in Nat \ {0}, NEW N \in Nat \ {0}, NEW n, n = M * N
  PROVE  PutsAll(n, M, N, M, N, RowMajor(M, N), Transposed(M, N))
<1> DEFINE Places == (0 .. M - 1) \X (0 .. N - 1)
           from == RowMajor(M, N)
           to == Transposed(M, N)
<1>1. ASSUME NEW i \in 0 .. M - 1, NEW j \in 0 .. N - 1
      PROVE  from[<<i, j>>] = i * N + j /\ from[<<i, j>>] \in 0 .. n - 1 /\ to[<<i, j>>] = j * M + i /\ to[<<i, j>>] \in 0 .. n - 1
  <2>1. /\ RowMajor(M, N)[<<i, j>>] = i * N + j /\ i * N + j \in 0 .. M * N - 1
        /\ Transposed(M, N)[<<i, j>>] = j * M + i /\ j * M + i \in 0 .. M * N - 1
    BY ONLY M \in Nat \ {0}, N \in Nat \ {0}, <1>1, Layouts
  <2> QED BY ONLY <2>1, n = M * N
<1>2. \A p, q \in Places : to[p] = to[q] => p = q
  BY LayoutsInjective
<1> HIDE DEF from, to
<1>3. \A p \in Places : from[p] \in 0 .. n - 1 /\ to[p] \in 0 .. n - 1
  BY <1>1
<1>4. ASSUME NEW k \in 0 .. n - 1
      PROVE  \E p \in Places : to[p] = k /\ from[p] = Origin(M, N, k)
  <2> DEFINE i == k % M
             j == k \div M
  <2>1. j \in 0 .. N - 1 /\ i \in 0 .. M - 1 /\ k = j * M + i
    <3>1. n = N * M /\ N \in Nat
      BY ONLY n = M * N, M \in Nat \ {0}, N \in Nat \ {0}
    <3>2. k \in 0 .. N * M - 1
      BY ONLY <1>4, <3>1
    <3> QED BY ONLY <3>1, <3>2, M \in Nat \ {0}, RowOfNumber
  <2>2. Origin(M, N, k) = i * N + j
    BY ONLY TRUE DEF Origin
  <2> HIDE DEF i, j
  <2>3. to[<<i, j>>] = k /\ from[<<i, j>>] = Origin(M, N, k) /\ <<i, j>> \in Places
    BY ONLY <1>1, <2>1, <2>2
  <2> QED BY ONLY <2>3
<1> QED BY ONLY <1>2, <1>3, <1>4 DEF PutsAll, from, to

\* So do those of v1 and v2.
LEMMA MovesOutput ==
  ASSUME NEW M \in Nat \ {0}, NEW N \in Nat \ {0}, NEW n, n = M * N
  PROVE  PutsAll(n, M, N, N, M, Transposed(N, M), RowMajor(N, M))
<1> DEFINE Places == (0 .. N - 1) \X (0 .. M - 1)
           from == Transposed(N, M)
           to == RowMajor(N, M)
<1>0. n = N * M
  BY ONLY n = M * N, M \in Nat \ {0}, N \in Nat \ {0}
<1>1. ASSUME NEW j \in 0 .. N - 1, NEW i \in 0 .. M - 1
      PROVE  from[<<j, i>>] = i * N + j /\ from[<<j, i>>] \in 0 .. n - 1 /\ to[<<j, i>>] = j * M + i /\ to[<<j, i>>] \in 0 .. n - 1
  <2>1. /\ RowMajor(N, M)[<<j, i>>] = j * M + i /\ j * M + i \in 0 .. N * M - 1
        /\ Transposed(N, M)[<<j, i>>] = i * N + j /\ i * N + j \in 0 .. N * M - 1
    BY ONLY M \in Nat \ {0}, N \in Nat \ {0}, <1>1, Layouts
  <2> QED BY ONLY <1>0, <2>1
<1>2. \A p, q \in Places : to[p] = to[q] => p = q
  BY LayoutsInjective
<1> HIDE DEF from, to
<1>3. \A p \in Places : from[p] \in 0 .. n - 1 /\ to[p] \in 0 .. n - 1
  BY <1>1
<1>4. ASSUME NEW k \in 0 .. n - 1
      PROVE  \E p \in Places : to[p] = k /\ from[p] = Origin(M, N, k)
  <2> DEFINE i == k % M
             j == k \div M
  <2>1. j \in 0 .. N - 1 /\ i \in 0 .. M - 1 /\ k = j * M + i
    <3>1. k \in 0 .. N * M - 1 /\ N \in Nat
      BY ONLY <1>0, <1>4, N \in Nat \ {0}
    <3> QED BY ONLY <3>1, M \in Nat \ {0}, RowOfNumber
  <2>2. Origin(M, N, k) = i * N + j
    BY ONLY TRUE DEF Origin
  <2> HIDE DEF i, j
  <2>3. to[<<j, i>>] = k /\ from[<<j, i>>] = Origin(M, N, k) /\ <<j, i>> \in Places
    BY ONLY <1>1, <2>1, <2>2
  <2> QED BY ONLY <2>3
<1> QED BY ONLY <1>2, <1>3, <1>4 DEF PutsAll, from, to

\* v0 to v2, whatever the shape and the tile.
LEMMA MovingTransposes ==
  ASSUME NEW M \in Nat \ {0}, NEW N \in Nat \ {0}, NEW TILE \in Nat \ {0},
         NEW kern \in {device_transpose_v0(M, N, TILE), device_transpose_v1(M, N, TILE), device_transpose_v2(M, N, TILE)}
  PROVE  Disciplined(kern) /\ RightInOrder(kern) /\ BankFree(kern)
<1>1. PICK n \in Nat : n = M * N
  OBVIOUS
<1>2. PutsAll(n, M, N, M, N, RowMajor(M, N), Transposed(M, N))
  BY ONLY M \in Nat \ {0}, N \in Nat \ {0}, <1>1, MovesInput
<1>3. PutsAll(n, M, N, N, M, Transposed(N, M), RowMajor(N, M))
  BY ONLY M \in Nat \ {0}, N \in Nat \ {0}, <1>1, MovesOutput
<1>4. CASE kern = Move(M, N, TILE, M, N, RowMajor(M, N), Transposed(M, N))
  BY ONLY M \in Nat \ {0}, N \in Nat \ {0}, TILE \in Nat \ {0}, <1>1, <1>2, <1>4, MovesRight
<1>5. CASE kern = Move(M, N, TILE, N, M, Transposed(N, M), RowMajor(N, M))
  BY ONLY M \in Nat \ {0}, N \in Nat \ {0}, TILE \in Nat \ {0}, <1>1, <1>3, <1>5, MovesRight
<1> QED BY <1>4, <1>5 DEF device_transpose_v0, device_transpose_v1, device_transpose_v2

-----------------------------------------------------------------------------
(* Transpositions through tiles *)

\* The cells of the blocks' tiles.
Tiles(blocks, slots) == UNION {Array("S", b, slots) : b \in 0 .. blocks - 1}

\* The cell at a slot of a block's tile.
LEMMA InTiles ==
  ASSUME NEW blocks, NEW slots, NEW b \in 0 .. blocks - 1, NEW i \in 0 .. slots - 1
  PROVE  Cell("S", b, i) \in Tiles(blocks, slots)
BY DEF Tiles, Array

\* They are neither inputs nor outputs.
LEMMA TilesApart ==
  ASSUME NEW n, NEW blocks, NEW slots
  PROVE  /\ Array("in", 0, n) \cap Tiles(blocks, slots) = {}
         /\ Array("out", 0, n) \cap Tiles(blocks, slots) = {}
<1>1. \A c \in Array("in", 0, n) : c[1] = "in"
  BY DEF Array, Cell
<1>2. \A c \in Array("out", 0, n) : c[1] = "out"
  BY DEF Array, Cell
<1>3. \A c \in Tiles(blocks, slots) : c[1] = "S"
  BY DEF Array, Cell, Tiles
<1> QED BY <1>1, <1>2, <1>3

\* A layout of the tile: every place has a slot of its own.
OwnSlots(slot, slots, TILE) ==
  /\ \A i, j \in 0 .. TILE - 1 : slot[<<i, j>>] \in 0 .. slots - 1
  /\ \A i, j, g, h \in 0 .. TILE - 1 : slot[<<i, j>>] = slot[<<g, h>>] => i = g /\ j = h

\* Where a thread is.
LEMMA Place ==
  ASSUME NEW rows \in Nat \ {0}, NEW cols \in Nat \ {0}, NEW TILE \in Nat \ {0}, NEW t \in Cover(rows, cols, TILE)
  PROVE  /\ X(t, TILE) \in 0 .. TILE - 1 /\ Y(t, TILE) \in 0 .. TILE - 1
         /\ Blk(t) \in 0 .. Ceil(cols, TILE) * Ceil(rows, TILE) - 1
         /\ \A u \in Cover(rows, cols, TILE) : Blk(t) = Blk(u) /\ X(t, TILE) = X(u, TILE) /\ Y(t, TILE) = Y(u, TILE) => t = u
<1>1. ASSUME NEW u \in Cover(rows, cols, TILE)
      PROVE  /\ X(u, TILE) \in 0 .. TILE - 1 /\ Y(u, TILE) \in 0 .. TILE - 1
             /\ u = At(cols, TILE, Blk(u) \div Ceil(cols, TILE), Blk(u) % Ceil(cols, TILE), Y(u, TILE), X(u, TILE))
             /\ Blk(u) \in 0 .. Ceil(cols, TILE) * Ceil(rows, TILE) - 1
  BY ThreadIsAt
<1>2. ASSUME NEW u \in Cover(rows, cols, TILE), Blk(t) = Blk(u), X(t, TILE) = X(u, TILE), Y(t, TILE) = Y(u, TILE)
      PROVE  t = u
  <2>1. /\ t = At(cols, TILE, Blk(t) \div Ceil(cols, TILE), Blk(t) % Ceil(cols, TILE), Y(t, TILE), X(t, TILE))
        /\ u = At(cols, TILE, Blk(u) \div Ceil(cols, TILE), Blk(u) % Ceil(cols, TILE), Y(u, TILE), X(u, TILE))
    BY <1>1
  <2> QED BY ONLY <1>2, <2>1
<1> QED BY ONLY <1>1, <1>2, t \in Cover(rows, cols, TILE)

\* The thread of the same block whose place in the tile is the mirror image.
LEMMA Mirrored ==
  ASSUME NEW rows \in Nat \ {0}, NEW cols \in Nat \ {0}, NEW TILE \in Nat \ {0}, NEW u \in OnMirror(rows, cols, TILE)
  PROVE  \E t \in OnMatrix(rows, cols, TILE) :
           /\ Blk(t) = Blk(u) /\ Y(t, TILE) = X(u, TILE) /\ X(t, TILE) = Y(u, TILE)
           /\ Row(t, cols, TILE) = MirrorCol(u, cols, TILE) /\ Col(t, cols, TILE) = MirrorRow(u, cols, TILE)
<1> DEFINE by == Blk(u) \div Ceil(cols, TILE)
           bx == Blk(u) % Ceil(cols, TILE)
           x == X(u, TILE)
           y == Y(u, TILE)
<1>1. u \in Cover(rows, cols, TILE) /\ MirrorRow(u, cols, TILE) < cols /\ MirrorCol(u, cols, TILE) < rows
  BY DEF OnMirror
<1>2. /\ by \in 0 .. Ceil(rows, TILE) - 1 /\ bx \in 0 .. Ceil(cols, TILE) - 1 /\ x \in 0 .. TILE - 1 /\ y \in 0 .. TILE - 1
      /\ u = At(cols, TILE, by, bx, y, x)
  BY <1>1, ThreadIsAt
<1> HIDE DEF by, bx, x, y
<1>3. PICK t : t = At(cols, TILE, by, bx, x, y)
  OBVIOUS
<1>4. /\ MirrorRow(u, cols, TILE) = bx * TILE + y /\ MirrorCol(u, cols, TILE) = by * TILE + x
      /\ Blk(u) = by * Ceil(cols, TILE) + bx
  BY ONLY rows \in Nat \ {0}, cols \in Nat \ {0}, TILE \in Nat \ {0}, <1>2, AtIsThread
<1>5. /\ t \in Cover(rows, cols, TILE)
      /\ Row(t, cols, TILE) = by * TILE + x /\ Col(t, cols, TILE) = bx * TILE + y
      /\ X(t, TILE) = y /\ Y(t, TILE) = x /\ Blk(t) = by * Ceil(cols, TILE) + bx
  BY ONLY rows \in Nat \ {0}, cols \in Nat \ {0}, TILE \in Nat \ {0}, <1>2, <1>3, AtIsThread
<1>6. t \in OnMatrix(rows, cols, TILE)
  BY ONLY <1>1, <1>4, <1>5 DEF OnMatrix
<1>7. /\ Blk(t) = Blk(u) /\ Y(t, TILE) = X(u, TILE) /\ X(t, TILE) = Y(u, TILE)
      /\ Row(t, cols, TILE) = MirrorCol(u, cols, TILE) /\ Col(t, cols, TILE) = MirrorRow(u, cols, TILE)
  BY ONLY <1>4, <1>5 DEF x, y
<1> QED BY ONLY <1>6, <1>7

\* Elements carried through the tiles of the blocks: no races, the right result.
LEMMA ThroughRight ==
  ASSUME NEW M \in Nat \ {0}, NEW N \in Nat \ {0}, NEW TILE \in Nat \ {0}, NEW slots, NEW slot, NEW banked,
         OwnSlots(slot, slots, TILE), NEW kern, kern = Through(M, N, TILE, slots, slot, banked)
  PROVE  Disciplined(kern) /\ RightInOrder(kern)
<1> DEFINE T == Cover(M, N, TILE)
           Loaders == OnMatrix(M, N, TILE)
           Storers == OnMirror(M, N, TILE)
           own(t) == slot[<<Y(t, TILE), X(t, TILE)>>]
           mirrored(t) == slot[<<X(t, TILE), Y(t, TILE)>>]
           to == [t \in Loaders |-> Cell("S", Blk(t), own(t))]
           number(t) == Row(t, N, TILE) * N + Col(t, N, TILE)
           image(t) == MirrorRow(t, N, TILE) * M + MirrorCol(t, N, TILE)
           from == [t \in Loaders |-> In(number(t))]
           into == [t \in Storers |-> Out(image(t))]
           out == [t \in Storers |-> Cell("S", Blk(t), mirrored(t))]
           tiles == Tiles(Ceil(N, TILE) * Ceil(M, TILE), slots)
<1>1. kern = Compile(T, TILE, Array("out", 0, M * N) \cup tiles, Inputs(M * N), {}, Copy(to, from) \o Sync(T) \o Copy(into, out),
                     cpu_transpose(M, N), banked)
  BY DEF Through, Tiles
<1>2. DOMAIN to = Loaders /\ DOMAIN from = Loaders /\ DOMAIN into = Storers /\ DOMAIN out = Storers
  OBVIOUS
<1>3. \A t \in Loaders : to[t] = Cell("S", Blk(t), own(t)) /\ from[t] = In(number(t))
  OBVIOUS
<1>4. \A t \in Storers : into[t] = Out(image(t)) /\ out[t] = Cell("S", Blk(t), mirrored(t))
  OBVIOUS
<1>5. PICK n \in Nat : n = M * N
  OBVIOUS
<1> HIDE DEF T, Loaders, Storers, own, mirrored, number, image, to, from, into, out, tiles
<1>6. /\ kern.steps = Fuse(Copy(to, from) \o Sync(T) \o Copy(into, out)) /\ kern.result = cpu_transpose(M, N)
      /\ (Array("out", 0, n) \cup tiles) \cup DOMAIN Inputs(n) \subseteq DOMAIN kern.mem
      /\ \A d \in DOMAIN Inputs(n) : kern.mem[d] = Inputs(n)[d]
  BY ONLY <1>1, <1>5, Compiled
<1>7. kern.steps = <<CopyStep(to, from), SyncStep(T), CopyStep(into, out)>>
  <2>1. Copy(to, from) = <<CopyStep(to, from)>> /\ Sync(T) = <<SyncStep(T)>> /\ Copy(into, out) = <<CopyStep(into, out)>>
    BY ONLY CopyIs, SyncIs
  <2>2. Copy(to, from) \o Sync(T) \o Copy(into, out) = <<CopyStep(to, from), SyncStep(T), CopyStep(into, out)>>
    BY ONLY <2>1, ThreeTogether
  <2>3. SyncStep(T).scope = "block"
    BY DEF SyncStep
  <2> QED BY ONLY <1>6, <2>2, <2>3, FuseThree
<1> DEFINE Source == Array("in", 0, n)
           Target == Array("out", 0, n)
<1>8. /\ DOMAIN Inputs(n) = Source /\ Source \cap Target = {}
      /\ \A i \in 0 .. n - 1 : In(i) \in Source /\ Inputs(n)[In(i)] = Input(i) /\ Out(i) \in Target
      /\ \A i, j : Out(i) = Out(j) => i = j
      /\ \A d \in Target : \E i \in 0 .. n - 1 : d = Out(i)
  BY ONLY n \in Nat, InAndOut
<1>9. DOMAIN kern.result = Target /\ \A k \in 0 .. n - 1 : kern.result[Out(k)] = Input(Origin(M, N, k))
  <2>1. M * N \in Nat
    BY ONLY <1>5
  <2>2. /\ DOMAIN cpu_transpose(M, N) = Array("out", 0, M * N)
        /\ \A k \in 0 .. M * N - 1 : cpu_transpose(M, N)[Out(k)] = Input(Origin(M, N, k))
    BY ONLY M \in Nat \ {0}, N \in Nat \ {0}, <2>1, TransposedCell
  <2>3. /\ DOMAIN cpu_transpose(M, N) = Target
        /\ \A k \in 0 .. n - 1 : cpu_transpose(M, N)[Out(k)] = Input(Origin(M, N, k))
    BY ONLY <1>5, <2>2
  <2> QED BY ONLY <1>6, <2>3
<1>10. Source \cap tiles = {} /\ tiles \cap Target = {}
  BY ONLY TilesApart DEF tiles
<1>11. Source \cup tiles \cup Target \subseteq DOMAIN kern.mem
  BY ONLY <1>6, <1>8
<1> HIDE DEF Source, Target
<1>12. ASSUME NEW t \in T
       PROVE  /\ X(t, TILE) \in 0 .. TILE - 1 /\ Y(t, TILE) \in 0 .. TILE - 1
              /\ own(t) \in 0 .. slots - 1 /\ mirrored(t) \in 0 .. slots - 1
              /\ Blk(t) \in 0 .. Ceil(N, TILE) * Ceil(M, TILE) - 1
              /\ Row(t, N, TILE) \in Nat /\ Col(t, N, TILE) \in Nat /\ MirrorRow(t, N, TILE) \in Nat /\ MirrorCol(t, N, TILE) \in Nat
  <2>0. t \in Cover(M, N, TILE)
    BY ONLY t \in T DEF T
  <2>1. /\ X(t, TILE) \in 0 .. TILE - 1 /\ Y(t, TILE) \in 0 .. TILE - 1
        /\ Blk(t) \in 0 .. Ceil(N, TILE) * Ceil(M, TILE) - 1
    BY ONLY M \in Nat \ {0}, N \in Nat \ {0}, TILE \in Nat \ {0}, <2>0, Place
  <2>2. Row(t, N, TILE) \in Nat /\ Col(t, N, TILE) \in Nat /\ MirrorRow(t, N, TILE) \in Nat /\ MirrorCol(t, N, TILE) \in Nat
    BY ONLY M \in Nat \ {0}, N \in Nat \ {0}, TILE \in Nat \ {0}, <2>0, SamePlace
  <2>3. own(t) \in 0 .. slots - 1 /\ mirrored(t) \in 0 .. slots - 1
    BY ONLY <2>1, OwnSlots(slot, slots, TILE) DEF OwnSlots, own, mirrored
  <2> QED BY ONLY <2>1, <2>2, <2>3
<1>13. \A t \in Loaders : t \in T /\ Row(t, N, TILE) < M /\ Col(t, N, TILE) < N
  BY DEF Loaders, T, OnMatrix
<1>14. \A t \in Storers : t \in T /\ MirrorRow(t, N, TILE) < N /\ MirrorCol(t, N, TILE) < M
  BY DEF Storers, T, OnMirror
<1>15. ASSUME NEW t \in Loaders PROVE from[t] \in Source /\ to[t] \in tiles
  <2>1. Row(t, N, TILE) \in 0 .. M - 1 /\ Col(t, N, TILE) \in 0 .. N - 1
    <3>1. t \in T /\ Row(t, N, TILE) < M /\ Col(t, N, TILE) < N
      BY ONLY <1>13, t \in Loaders
    <3>2. Row(t, N, TILE) \in Nat /\ Col(t, N, TILE) \in Nat
      BY ONLY <1>12, <3>1
    <3> QED BY ONLY <3>1, <3>2, M \in Nat, N \in Nat
  <2>2. number(t) \in 0 .. n - 1
    <3>1. Row(t, N, TILE) * N + Col(t, N, TILE) \in 0 .. M * N - 1
      BY ONLY M \in Nat, N \in Nat \ {0}, <2>1, Numbered
    <3> QED BY ONLY <1>5, <3>1 DEF number
  <2>3. to[t] \in tiles
    <3>1. t \in T
      BY ONLY <1>13, t \in Loaders
    <3>2. own(t) \in 0 .. slots - 1 /\ Blk(t) \in 0 .. Ceil(N, TILE) * Ceil(M, TILE) - 1
      BY ONLY <1>12, <3>1
    <3>3. Cell("S", Blk(t), own(t)) \in tiles
      BY ONLY <3>2, InTiles DEF tiles
    <3> QED BY ONLY <1>3, t \in Loaders, <3>3
  <2> QED BY ONLY <1>3, <1>8, t \in Loaders, <2>2, <2>3
<1>16. ASSUME NEW t \in Storers
       PROVE  /\ into[t] \in Target /\ out[t] \in tiles
              /\ MirrorRow(t, N, TILE) \in 0 .. N - 1 /\ MirrorCol(t, N, TILE) \in 0 .. M - 1
  <2>1. MirrorRow(t, N, TILE) \in 0 .. N - 1 /\ MirrorCol(t, N, TILE) \in 0 .. M - 1
    <3>1. t \in T /\ MirrorRow(t, N, TILE) < N /\ MirrorCol(t, N, TILE) < M
      BY ONLY <1>14, t \in Storers
    <3>2. MirrorRow(t, N, TILE) \in Nat /\ MirrorCol(t, N, TILE) \in Nat
      BY ONLY <1>12, <3>1
    <3> QED BY ONLY <3>1, <3>2, M \in Nat, N \in Nat
  <2>2. image(t) \in 0 .. n - 1
    <3>1. MirrorRow(t, N, TILE) * M + MirrorCol(t, N, TILE) \in 0 .. N * M - 1
      BY ONLY N \in Nat, M \in Nat \ {0}, <2>1, Numbered
    <3>2. n = N * M
      BY ONLY <1>5, N \in Nat, M \in Nat
    <3> QED BY ONLY <3>1, <3>2 DEF image
  <2>3. out[t] \in tiles
    <3>1. t \in T
      BY ONLY <1>14, t \in Storers
    <3>2. mirrored(t) \in 0 .. slots - 1 /\ Blk(t) \in 0 .. Ceil(N, TILE) * Ceil(M, TILE) - 1
      BY ONLY <1>12, <3>1
    <3>3. Cell("S", Blk(t), mirrored(t)) \in tiles
      BY ONLY <3>2, InTiles DEF tiles
    <3> QED BY ONLY <1>4, t \in Storers, <3>3
  <2> QED BY ONLY <1>4, <1>8, t \in Storers, <2>1, <2>2, <2>3
<1>17. \A a, b, i, j : Cell("S", a, i) = Cell("S", b, j) => a = b /\ i = j
  BY DEF Cell
<1>18. ASSUME NEW t \in T, NEW u \in T, Blk(t) = Blk(u), X(t, TILE) = X(u, TILE), Y(t, TILE) = Y(u, TILE)
       PROVE  t = u
  <2>1. t \in Cover(M, N, TILE) /\ u \in Cover(M, N, TILE)
    BY DEF T
  <2> QED BY ONLY M \in Nat \ {0}, N \in Nat \ {0}, TILE \in Nat \ {0}, t \in T, u \in T, <1>18, <2>1, Place
<1>19. ASSUME NEW t \in Loaders, NEW u \in Loaders, to[t] = to[u] PROVE t = u
  <2>1. t \in T /\ u \in T
    BY ONLY <1>13, t \in Loaders, u \in Loaders, <1>19
  <2>2. Blk(t) = Blk(u) /\ own(t) = own(u)
    BY ONLY <1>3, <1>17, t \in Loaders, u \in Loaders, <1>19
  <2>3. Y(t, TILE) = Y(u, TILE) /\ X(t, TILE) = X(u, TILE)
    BY ONLY <1>12, <2>1, <2>2, OwnSlots(slot, slots, TILE) DEF OwnSlots, own
  <2> QED BY ONLY <1>18, <2>1, <2>2, <2>3
<1>20. ASSUME NEW t \in Storers, NEW u \in Storers, into[t] = into[u] PROVE t = u
  <2>1. MirrorRow(t, N, TILE) * M + MirrorCol(t, N, TILE) = MirrorRow(u, N, TILE) * M + MirrorCol(u, N, TILE)
    <3>1. image(t) = image(u)
      BY ONLY <1>4, <1>8, t \in Storers, u \in Storers, <1>20
    <3> QED BY ONLY <3>1 DEF image
  <2>2. /\ MirrorRow(t, N, TILE) \in Nat /\ MirrorRow(u, N, TILE) \in Nat
        /\ MirrorCol(t, N, TILE) \in 0 .. M - 1 /\ MirrorCol(u, N, TILE) \in 0 .. M - 1
    BY ONLY <1>12, <1>14, <1>16, t \in Storers, u \in Storers, <1>20
  <2>3. MirrorRow(t, N, TILE) = MirrorRow(u, N, TILE) /\ MirrorCol(t, N, TILE) = MirrorCol(u, N, TILE)
    BY ONLY M \in Nat \ {0}, <2>1, <2>2, OneWay
  <2>4. t \in Cover(M, N, TILE) /\ u \in Cover(M, N, TILE)
    BY ONLY <1>14, t \in Storers, u \in Storers, <1>20 DEF T
  <2> QED BY ONLY M \in Nat \ {0}, N \in Nat \ {0}, TILE \in Nat \ {0}, <2>3, <2>4, SamePlace
<1>21. ASSUME NEW t \in Loaders, NEW u \in Storers, to[t] = out[u] PROVE Blk(t) = Blk(u)
  BY ONLY <1>3, <1>4, <1>17, t \in Loaders, u \in Storers, <1>21
<1>22. CopiesTwice(kern, T, to, from, into, out, Source, tiles, Target)
  <2>1. Loaders \subseteq T /\ Storers \subseteq T
    BY ONLY <1>13, <1>14
  <2>2. Source \cap tiles = {} /\ Source \cap Target = {} /\ tiles \cap Target = {}
    BY ONLY <1>8, <1>10
  <2>3. \A t \in Loaders : from[t] \in Source /\ to[t] \in tiles
    BY ONLY <1>15
  <2>4. \A t \in Storers : out[t] \in tiles /\ into[t] \in Target
    BY ONLY <1>16
  <2> QED BY ONLY <1>2, <1>7, <1>11, <1>19, <1>20, <1>21, <2>1, <2>2, <2>3, <2>4 DEF CopiesTwice
<1>23. /\ Disciplined(kern)
       /\ \A t \in DOMAIN to, u \in DOMAIN into :
            to[t] = out[u] => InOrder(kern)[Len(kern.steps)][into[u]] = kern.mem[from[t]]
  BY ONLY <1>22, TwoCopies
<1>24. ASSUME NEW d \in Target PROVE InOrder(kern)[Len(kern.steps)][d] = kern.result[d]
  <2>1. PICK k \in 0 .. n - 1 : d = Out(k)
    BY ONLY <1>8, d \in Target
  <2> DEFINE i == k % M
             j == k \div M
  <2>2. j \in 0 .. N - 1 /\ i \in 0 .. M - 1 /\ k = j * M + i
    <3>1. k \in 0 .. N * M - 1 /\ N \in Nat
      BY ONLY <1>5, <2>1, N \in Nat \ {0}, M \in Nat
    <3> QED BY ONLY <3>1, M \in Nat \ {0}, RowOfNumber
  <2>3. Origin(M, N, k) = i * N + j
    BY ONLY TRUE DEF Origin
  <2> HIDE DEF i, j
  <2>4. PICK u \in Storers : MirrorRow(u, N, TILE) = j /\ MirrorCol(u, N, TILE) = i
    <3>1. \E u \in OnMirror(M, N, TILE) : MirrorRow(u, N, TILE) = j /\ MirrorCol(u, N, TILE) = i
      BY ONLY M \in Nat \ {0}, N \in Nat \ {0}, TILE \in Nat \ {0}, <2>2, EveryPlace
    <3> QED BY ONLY <3>1 DEF Storers
  <2>5. PICK t \in Loaders :
          /\ Blk(t) = Blk(u) /\ Y(t, TILE) = X(u, TILE) /\ X(t, TILE) = Y(u, TILE)
          /\ Row(t, N, TILE) = i /\ Col(t, N, TILE) = j
    <3>1. u \in OnMirror(M, N, TILE)
      BY ONLY <2>4 DEF Storers
    <3>2. \E t \in OnMatrix(M, N, TILE) :
            /\ Blk(t) = Blk(u) /\ Y(t, TILE) = X(u, TILE) /\ X(t, TILE) = Y(u, TILE)
            /\ Row(t, N, TILE) = MirrorCol(u, N, TILE) /\ Col(t, N, TILE) = MirrorRow(u, N, TILE)
      BY ONLY M \in Nat \ {0}, N \in Nat \ {0}, TILE \in Nat \ {0}, <3>1, Mirrored
    <3> QED BY ONLY <2>4, <3>2 DEF Loaders
  <2>6. to[t] = out[u]
    BY ONLY <1>3, <1>4, <2>4, <2>5 DEF own, mirrored
  <2>7. into[u] = d
    <3>1. image(u) = k
      BY ONLY <2>2, <2>4 DEF image
    <3> QED BY ONLY <1>4, <2>1, <2>4, <3>1
  <2>8. from[t] = In(Origin(M, N, k)) /\ from[t] \in Source
    <3>1. number(t) = Origin(M, N, k)
      BY ONLY <2>3, <2>5 DEF number
    <3> QED BY ONLY <1>3, <1>15, <2>5, <3>1
  <2>9. Origin(M, N, k) \in 0 .. n - 1
    <3>1. i * N + j \in 0 .. M * N - 1
      BY ONLY M \in Nat, N \in Nat \ {0}, <2>2, Numbered
    <3> QED BY ONLY <1>5, <2>3, <3>1
  <2>10. kern.mem[from[t]] = Input(Origin(M, N, k))
    BY ONLY <1>6, <1>8, <2>8, <2>9
  <2>11. InOrder(kern)[Len(kern.steps)][into[u]] = kern.mem[from[t]]
    BY ONLY <1>2, <1>23, <2>4, <2>5, <2>6
  <2>12. kern.result[d] = Input(Origin(M, N, k))
    BY ONLY <1>9, <2>1
  <2> QED BY ONLY <2>7, <2>10, <2>11, <2>12
<1>25. RightInOrder(kern)
  <2> DEFINE last == InOrder(kern)[Len(kern.steps)]
  <2>1. \A d \in DOMAIN kern.result : last[d] = kern.result[d]
    BY ONLY <1>9, <1>24
  <2> HIDE DEF last
  <2>2. \A outcome \in {last} : \A d \in DOMAIN kern.result : outcome[d] = kern.result[d]
    BY ONLY <2>1
  <2> QED BY ONLY <2>2 DEF RightInOrder, last
<1> QED BY ONLY <1>23, <1>25

-----------------------------------------------------------------------------
(* Banks *)

\* A layout with rows of ld slots.
LEMMA SlotsOwn ==
  ASSUME NEW TILE \in Nat \ {0}, NEW ld \in Nat, TILE <= ld
  PROVE  /\ OwnSlots(Slots(TILE, ld), TILE * ld, TILE)
         /\ \A i, j \in 0 .. TILE - 1 : Slots(TILE, ld)[<<i, j>>] = i * ld + j
<1>1. ASSUME NEW i \in 0 .. TILE - 1, NEW j \in 0 .. TILE - 1
      PROVE  Slots(TILE, ld)[<<i, j>>] = i * ld + j
  BY DEF Slots
<1>2. ld \in Nat \ {0} /\ \A j \in 0 .. TILE - 1 : j \in 0 .. ld - 1 /\ j \in Nat
  OBVIOUS
<1>3. ASSUME NEW i \in 0 .. TILE - 1, NEW j \in 0 .. TILE - 1
      PROVE  i * ld + j \in 0 .. TILE * ld - 1
  <2>1. j \in 0 .. ld - 1
    BY ONLY <1>2, j \in 0 .. TILE - 1
  <2> QED BY ONLY TILE \in Nat, <1>2, i \in 0 .. TILE - 1, <2>1, Numbered
<1>4. ASSUME NEW i \in 0 .. TILE - 1, NEW j \in 0 .. TILE - 1, NEW g \in 0 .. TILE - 1, NEW h \in 0 .. TILE - 1,
             Slots(TILE, ld)[<<i, j>>] = Slots(TILE, ld)[<<g, h>>]
      PROVE  i = g /\ j = h
  <2>1. i * ld + j = g * ld + h
    BY ONLY <1>1, <1>4, i \in 0 .. TILE - 1, j \in 0 .. TILE - 1, g \in 0 .. TILE - 1, h \in 0 .. TILE - 1
  <2>2. i \in Nat /\ g \in Nat /\ j \in 0 .. ld - 1 /\ h \in 0 .. ld - 1
    BY ONLY <1>2, i \in 0 .. TILE - 1, j \in 0 .. TILE - 1, g \in 0 .. TILE - 1, h \in 0 .. TILE - 1
  <2> QED BY ONLY <1>2, <2>1, <2>2, OneWay
<1>5. \A i, j \in 0 .. TILE - 1 : Slots(TILE, ld)[<<i, j>>] \in 0 .. TILE * ld - 1
  BY ONLY <1>1, <1>3
<1> QED BY ONLY <1>1, <1>4, <1>5 DEF OwnSlots

\* In rows of a slot more than lanes, the slots of a row are in banks of their
\* own, and so are those of a column.
LEMMA Padded ==
  ASSUME NEW W \in Nat \ {0}, NEW i \in 0 .. W - 1, NEW j \in 0 .. W - 1
  PROVE  (i * (W + 1) + j) % W = IF i + j < W THEN i + j ELSE i + j - W
<1>1. i \in Nat /\ j \in Nat /\ i + 1 \in Nat
  OBVIOUS
<1>2. CASE i + j < W
  <2>1. i + j \in 0 .. W - 1
    BY <1>1, <1>2
  <2>2. (i * W + (i + j)) % W = i + j
    BY ONLY W \in Nat \ {0}, <1>1, <2>1, DividedOnce
  <2>3. i * (W + 1) + j = i * W + (i + j)
    BY <1>1
  <2> QED BY ONLY <1>2, <2>2, <2>3
<1>3. CASE ~(i + j < W)
  <2>1. i + j - W \in 0 .. W - 1
    BY <1>1, <1>3
  <2>2. ((i + 1) * W + (i + j - W)) % W = i + j - W
    BY ONLY W \in Nat \ {0}, <1>1, <2>1, DividedOnce
  <2>3. i * (W + 1) + j = (i + 1) * W + (i + j - W)
    BY <1>1
  <2> QED BY ONLY <1>3, <2>2, <2>3
<1> QED BY <1>2, <1>3

\* Lanes of a warp keep out of each other's banks.
LanesApart(kern, cells) ==
  \A t, u \in DOMAIN cells :
    SameWarp(kern, t, u) /\ cells[t] # cells[u] => cells[t][3] % kern.warp # cells[u][3] % kern.warp

\* Then a copy has no conflicts; the other array may be anywhere.
LEMMA CopyBanked ==
  ASSUME NEW kern, NEW to, NEW from, DOMAIN from = DOMAIN to,
         (\A t \in DOMAIN to : from[t][1] \notin kern.banked) \/ LanesApart(kern, from),
         (\A t \in DOMAIN to : to[t][1] \notin kern.banked) \/ LanesApart(kern, to),
         NEW t \in DOMAIN to, NEW u \in DOMAIN to, SameWarp(kern, t, u)
  PROVE  BanksApart(kern, CopyStep(to, from).act[t], CopyStep(to, from).act[u])
<1> DEFINE mine == CopyStep(to, from).act[t]
           yours == CopyStep(to, from).act[u]
<1>1. ASSUME NEW v \in DOMAIN to
      PROVE  /\ DOMAIN CopyStep(to, from).act[v] = {1}
             /\ Accesses(CopyStep(to, from).act[v][1]) = <<from[v], to[v]>>
  <2>1. CopyStep(to, from).act[v] = <<to[v] := Val(from[v])>>
    BY DEF CopyStep
  <2>2. (to[v] := Val(from[v])).to = to[v] /\ (to[v] := Val(from[v])).expr.of = <<from[v]>>
    BY DEF :=, Val, Sum, Op
  <2>3. DOMAIN CopyStep(to, from).act[v] = {1} /\ CopyStep(to, from).act[v][1] = (to[v] := Val(from[v]))
    BY ONLY <2>1
  <2>4. Accesses(to[v] := Val(from[v])) = Append(<<from[v]>>, to[v])
    BY ONLY <2>2 DEF Accesses
  <2> QED BY ONLY <2>3, <2>4, AppendTwo
<1>2. /\ DOMAIN mine = {1} /\ DOMAIN yours = {1}
      /\ Accesses(mine[1]) = <<from[t], to[t]>> /\ Accesses(yours[1]) = <<from[u], to[u]>>
  BY ONLY <1>1, t \in DOMAIN to, u \in DOMAIN to
<1> HIDE DEF mine, yours
<1> DEFINE a == <<from[t], to[t]>>
           b == <<from[u], to[u]>>
<1>3. /\ DOMAIN a = {1, 2} /\ a[1] = from[t] /\ a[2] = to[t]
      /\ DOMAIN b = {1, 2} /\ b[1] = from[u] /\ b[2] = to[u]
  OBVIOUS
<1> HIDE DEF a, b
<1>4. from[t] # from[u] /\ {from[t][1], from[u][1]} \subseteq kern.banked => from[t][3] % kern.warp # from[u][3] % kern.warp
  BY DEF LanesApart
<1>5. to[t] # to[u] /\ {to[t][1], to[u][1]} \subseteq kern.banked => to[t][3] % kern.warp # to[u][3] % kern.warp
  BY DEF LanesApart
<1>6. Accesses(mine[1]) = a /\ Accesses(yours[1]) = b
  BY ONLY <1>2 DEF a, b
<1>7. ASSUME NEW i \in {1, 2}
      PROVE  a[i] # b[i] /\ {a[i][1], b[i][1]} \subseteq kern.banked => a[i][3] % kern.warp # b[i][3] % kern.warp
  <2>1. CASE i = 1
    BY ONLY <1>3, <1>4, <2>1
  <2>2. CASE i = 2
    BY ONLY <1>3, <1>5, <2>2
  <2> QED BY ONLY <2>1, <2>2, i \in {1, 2}
<1>8. BanksApart(kern, mine, yours)
  <2>1. DOMAIN mine \cap DOMAIN yours = {1}
    BY ONLY <1>2
  <2>2. DOMAIN Accesses(mine[1]) \cap DOMAIN Accesses(yours[1]) = {1, 2}
    BY ONLY <1>3, <1>6
  <2> QED BY ONLY <1>6, <1>7, <2>1, <2>2 DEF BanksApart
<1> QED BY ONLY <1>8 DEF mine, yours

\* Two places of one row, or of one column, are in different banks.
LEMMA PaddedApart ==
  ASSUME NEW W \in Nat \ {0}, NEW i \in 0 .. W - 1, NEW j \in 0 .. W - 1, NEW h \in 0 .. W - 1, j # h
  PROVE  /\ (i * (W + 1) + j) % W # (i * (W + 1) + h) % W
         /\ (j * (W + 1) + i) % W # (h * (W + 1) + i) % W
<1>1. /\ (i * (W + 1) + j) % W = IF i + j < W THEN i + j ELSE i + j - W
      /\ (i * (W + 1) + h) % W = IF i + h < W THEN i + h ELSE i + h - W
      /\ (j * (W + 1) + i) % W = IF j + i < W THEN j + i ELSE j + i - W
      /\ (h * (W + 1) + i) % W = IF h + i < W THEN h + i ELSE h + i - W
  BY Padded
<1> DEFINE a == (i * (W + 1) + j) % W
           b == (i * (W + 1) + h) % W
           c == (j * (W + 1) + i) % W
           d == (h * (W + 1) + i) % W
<1> HIDE DEF a, b, c, d
<1>2. /\ a = IF i + j < W THEN i + j ELSE i + j - W
      /\ b = IF i + h < W THEN i + h ELSE i + h - W
      /\ c = IF j + i < W THEN j + i ELSE j + i - W
      /\ d = IF h + i < W THEN h + i ELSE h + i - W
  BY ONLY <1>1 DEF a, b, c, d
<1>3. a # b /\ c # d
  BY ONLY <1>2, W \in Nat, i \in 0 .. W - 1, j \in 0 .. W - 1, h \in 0 .. W - 1, j # h
<1> QED BY ONLY <1>3 DEF a, b, c, d

\* The steps of a transposition through tiles.
LEMMA ThroughSteps ==
  ASSUME NEW M, NEW N, NEW TILE, NEW slots, NEW slot, NEW banked, NEW kern, kern = Through(M, N, TILE, slots, slot, banked)
  PROVE  \E T, to, from, into, out :
           /\ kern.steps = <<CopyStep(to, from), SyncStep(T), CopyStep(into, out)>> /\ kern.warp = TILE /\ kern.banked = banked
           /\ DOMAIN to = OnMatrix(M, N, TILE) /\ DOMAIN from = DOMAIN to
           /\ DOMAIN into = OnMirror(M, N, TILE) /\ DOMAIN out = DOMAIN into
           /\ \A t \in DOMAIN to : to[t] = Cell("S", Blk(t), slot[<<Y(t, TILE), X(t, TILE)>>]) /\ from[t][1] = "in"
           /\ \A t \in DOMAIN into : into[t][1] = "out" /\ out[t] = Cell("S", Blk(t), slot[<<X(t, TILE), Y(t, TILE)>>])
<1> DEFINE T == Cover(M, N, TILE)
           own(t) == slot[<<Y(t, TILE), X(t, TILE)>>]
           mirrored(t) == slot[<<X(t, TILE), Y(t, TILE)>>]
           number(t) == Row(t, N, TILE) * N + Col(t, N, TILE)
           image(t) == MirrorRow(t, N, TILE) * M + MirrorCol(t, N, TILE)
           to == [t \in OnMatrix(M, N, TILE) |-> Cell("S", Blk(t), own(t))]
           from == [t \in OnMatrix(M, N, TILE) |-> In(number(t))]
           into == [t \in OnMirror(M, N, TILE) |-> Out(image(t))]
           out == [t \in OnMirror(M, N, TILE) |-> Cell("S", Blk(t), mirrored(t))]
           tiles == UNION {Array("S", b, slots) : b \in 0 .. Ceil(N, TILE) * Ceil(M, TILE) - 1}
<1>1. kern = Compile(T, TILE, Array("out", 0, M * N) \cup tiles, Inputs(M * N), {}, Copy(to, from) \o Sync(T) \o Copy(into, out),
                     cpu_transpose(M, N), banked)
  BY DEF Through
<1> HIDE DEF number, image, own, mirrored, tiles
<1>2. /\ DOMAIN to = OnMatrix(M, N, TILE) /\ DOMAIN from = DOMAIN to
      /\ DOMAIN into = OnMirror(M, N, TILE) /\ DOMAIN out = DOMAIN into
      /\ \A t \in DOMAIN to : to[t] = Cell("S", Blk(t), own(t)) /\ from[t][1] = "in"
      /\ \A t \in DOMAIN into : into[t][1] = "out" /\ out[t] = Cell("S", Blk(t), mirrored(t))
  BY DEF In, Out, Cell
<1> HIDE DEF T, to, from, into, out
<1>3. kern.steps = Fuse(Copy(to, from) \o Sync(T) \o Copy(into, out)) /\ kern.warp = TILE /\ kern.banked = banked
  BY ONLY <1>1, Compiled
<1>4. kern.steps = <<CopyStep(to, from), SyncStep(T), CopyStep(into, out)>>
  <2>1. Copy(to, from) = <<CopyStep(to, from)>> /\ Sync(T) = <<SyncStep(T)>> /\ Copy(into, out) = <<CopyStep(into, out)>>
    BY ONLY CopyIs, SyncIs
  <2>2. Copy(to, from) \o Sync(T) \o Copy(into, out) = <<CopyStep(to, from), SyncStep(T), CopyStep(into, out)>>
    BY ONLY <2>1, ThreeTogether
  <2>3. SyncStep(T).scope = "block"
    BY DEF SyncStep
  <2> QED BY ONLY <1>3, <2>2, <2>3, FuseThree
<1>5. /\ \A t \in DOMAIN to : to[t] = Cell("S", Blk(t), slot[<<Y(t, TILE), X(t, TILE)>>]) /\ from[t][1] = "in"
      /\ \A t \in DOMAIN into : into[t][1] = "out" /\ out[t] = Cell("S", Blk(t), slot[<<X(t, TILE), Y(t, TILE)>>])
  BY ONLY <1>2 DEF own, mirrored
<1> QED BY ONLY <1>2, <1>3, <1>4, <1>5

\* Two places in a row or a column of the tile are in different banks.
OwnBanks(slot, TILE) ==
  \A i, j, h \in 0 .. TILE - 1 :
    j # h => slot[<<i, j>>] % TILE # slot[<<i, h>>] % TILE /\ slot[<<j, i>>] % TILE # slot[<<h, i>>] % TILE

\* Then neither of the two copies has conflicts.
LEMMA ThroughBankFree ==
  ASSUME NEW M \in Nat \ {0}, NEW N \in Nat \ {0}, NEW TILE \in Nat \ {0}, NEW slots, NEW slot, OwnBanks(slot, TILE),
         NEW kern, kern = Through(M, N, TILE, slots, slot, {"S"})
  PROVE  BankFree(kern)
<1>1. PICK T, to, from, into, out :
        /\ kern.steps = <<CopyStep(to, from), SyncStep(T), CopyStep(into, out)>> /\ kern.warp = TILE /\ kern.banked = {"S"}
        /\ DOMAIN to = OnMatrix(M, N, TILE) /\ DOMAIN from = DOMAIN to
        /\ DOMAIN into = OnMirror(M, N, TILE) /\ DOMAIN out = DOMAIN into
        /\ \A t \in DOMAIN to : to[t] = Cell("S", Blk(t), slot[<<Y(t, TILE), X(t, TILE)>>]) /\ from[t][1] = "in"
        /\ \A t \in DOMAIN into : into[t][1] = "out" /\ out[t] = Cell("S", Blk(t), slot[<<X(t, TILE), Y(t, TILE)>>])
  BY ONLY kern = Through(M, N, TILE, slots, slot, {"S"}), ThroughSteps
<1>2. ASSUME NEW i \in 0 .. TILE - 1, NEW j \in 0 .. TILE - 1, NEW h \in 0 .. TILE - 1, j # h
      PROVE  slot[<<i, j>>] % TILE # slot[<<i, h>>] % TILE /\ slot[<<j, i>>] % TILE # slot[<<h, i>>] % TILE
  BY ONLY OwnBanks(slot, TILE), i \in 0 .. TILE - 1, j \in 0 .. TILE - 1, h \in 0 .. TILE - 1, <1>2 DEF OwnBanks
<1>3. ASSUME NEW t \in Cover(M, N, TILE), NEW u \in Cover(M, N, TILE), SameWarp(kern, t, u)
      PROVE  Blk(t) = Blk(u) /\ Y(t, TILE) = Y(u, TILE)
  BY ONLY <1>1, <1>3 DEF SameWarp, Y
<1>4. ASSUME NEW t \in Cover(M, N, TILE) PROVE X(t, TILE) \in 0 .. TILE - 1 /\ Y(t, TILE) \in 0 .. TILE - 1
  BY ONLY M \in Nat \ {0}, N \in Nat \ {0}, TILE \in Nat \ {0}, t \in Cover(M, N, TILE), Place
<1>5. \A b, i : Cell("S", b, i)[3] = i
  BY DEF Cell
<1>6. LanesApart(kern, to)
  <2> SUFFICES ASSUME NEW t \in DOMAIN to, NEW u \in DOMAIN to, SameWarp(kern, t, u), to[t] # to[u]
               PROVE  to[t][3] % kern.warp # to[u][3] % kern.warp
    BY DEF LanesApart
  <2>1. t \in Cover(M, N, TILE) /\ u \in Cover(M, N, TILE)
    BY <1>1 DEF OnMatrix
  <2>2. Blk(t) = Blk(u) /\ Y(t, TILE) = Y(u, TILE)
    BY <1>3, <2>1
  <2>3. /\ to[t] = Cell("S", Blk(t), slot[<<Y(t, TILE), X(t, TILE)>>])
        /\ to[u] = Cell("S", Blk(u), slot[<<Y(u, TILE), X(u, TILE)>>])
    BY <1>1
  <2>4. X(t, TILE) # X(u, TILE)
    BY <2>2, <2>3
  <2>5. slot[<<Y(t, TILE), X(t, TILE)>>] % TILE # slot[<<Y(u, TILE), X(u, TILE)>>] % TILE
    BY ONLY <1>2, <1>4, <2>1, <2>2, <2>4
  <2> QED BY ONLY <1>1, <1>5, <2>3, <2>5
<1>7. LanesApart(kern, out)
  <2> SUFFICES ASSUME NEW t \in DOMAIN out, NEW u \in DOMAIN out, SameWarp(kern, t, u), out[t] # out[u]
               PROVE  out[t][3] % kern.warp # out[u][3] % kern.warp
    BY DEF LanesApart
  <2>1. t \in Cover(M, N, TILE) /\ u \in Cover(M, N, TILE)
    BY <1>1 DEF OnMirror
  <2>2. Blk(t) = Blk(u) /\ Y(t, TILE) = Y(u, TILE)
    BY <1>3, <2>1
  <2>3. /\ out[t] = Cell("S", Blk(t), slot[<<X(t, TILE), Y(t, TILE)>>])
        /\ out[u] = Cell("S", Blk(u), slot[<<X(u, TILE), Y(u, TILE)>>])
    BY <1>1
  <2>4. X(t, TILE) # X(u, TILE)
    BY <2>2, <2>3
  <2>5. slot[<<X(t, TILE), Y(t, TILE)>>] % TILE # slot[<<X(u, TILE), Y(u, TILE)>>] % TILE
    BY ONLY <1>2, <1>4, <2>1, <2>2, <2>4
  <2> QED BY ONLY <1>1, <1>5, <2>3, <2>5
<1>8. ASSUME NEW step \in Range(kern.steps), step.scope = "thread", NEW t \in DOMAIN step.act, NEW u \in DOMAIN step.act,
             SameWarp(kern, t, u)
      PROVE  BanksApart(kern, step.act[t], step.act[u])
  <2>1. step \in {CopyStep(to, from), SyncStep(T), CopyStep(into, out)}
    <3> DEFINE three == <<CopyStep(to, from), SyncStep(T), CopyStep(into, out)>>
    <3>1. DOMAIN three = 1 .. 3 /\ three[1] = CopyStep(to, from) /\ three[2] = SyncStep(T) /\ three[3] = CopyStep(into, out)
      OBVIOUS
    <3> HIDE DEF three
    <3>2. kern.steps = three
      BY ONLY <1>1 DEF three
    <3>3. PICK i \in 1 .. 3 : step = three[i]
      BY ONLY step \in Range(kern.steps), <3>1, <3>2 DEF Range
    <3>4. i = 1 \/ i = 2 \/ i = 3
      BY ONLY <3>3
    <3> QED BY ONLY <3>1, <3>3, <3>4
  <2>2. CASE step = CopyStep(to, from)
    <3>1. DOMAIN step.act = DOMAIN to
      BY <2>2 DEF CopyStep
    <3>2. \A v \in DOMAIN to : from[v][1] \notin kern.banked
      BY ONLY <1>1
    <3>3. t \in DOMAIN to /\ u \in DOMAIN to
      BY ONLY <3>1, t \in DOMAIN step.act, u \in DOMAIN step.act
    <3>4. DOMAIN from = DOMAIN to
      BY ONLY <1>1
    <3>5. BanksApart(kern, CopyStep(to, from).act[t], CopyStep(to, from).act[u])
      BY ONLY <1>6, <1>8, <3>2, <3>3, <3>4, CopyBanked
    <3> QED BY ONLY <2>2, <3>5
  <2>3. CASE step = SyncStep(T)
    BY ONLY <1>8, <2>3 DEF SyncStep
  <2>4. CASE step = CopyStep(into, out)
    <3>1. DOMAIN step.act = DOMAIN into
      BY <2>4 DEF CopyStep
    <3>2. \A v \in DOMAIN into : into[v][1] \notin kern.banked
      BY ONLY <1>1
    <3>3. t \in DOMAIN into /\ u \in DOMAIN into
      BY ONLY <3>1, t \in DOMAIN step.act, u \in DOMAIN step.act
    <3>4. DOMAIN out = DOMAIN into
      BY ONLY <1>1
    <3>5. BanksApart(kern, CopyStep(into, out).act[t], CopyStep(into, out).act[u])
      BY ONLY <1>7, <1>8, <3>2, <3>3, <3>4, CopyBanked
    <3> QED BY ONLY <2>4, <3>5
  <2> QED BY ONLY <2>1, <2>2, <2>3, <2>4
<1> QED BY ONLY <1>8 DEF BankFree

-----------------------------------------------------------------------------
(* Exclusive or *)

\* What the recursion of Xor asks of a table.
Halves(p) == <<p[1] \div 2, p[2] \div 2>>
XorBody(f, p) == IF p[1] + p[2] = 0 THEN 0 ELSE 2 * f[Halves(p)] + ((p[1] + p[2]) % 2)
Square(n) == (0 .. n - 1) \X (0 .. n - 1)
XorTable(f, n) == f = [p \in Square(n) |-> f[p]] /\ \A p \in Square(n) : f[p] = XorBody(f, p)

\* Halving.
LEMMA Half ==
  ASSUME NEW i \in Nat
  PROVE  i \div 2 \in Nat /\ i \div 2 <= i /\ (i # 0 => i \div 2 < i) /\ i % 2 \in {0, 1} /\ i = 2 * (i \div 2) + (i % 2)
OBVIOUS

\* The halves of a pair are nearer to nothing.
LEMMA HalfPair ==
  ASSUME NEW p \in Nat \X Nat
  PROVE  /\ Halves(p) \in Nat \X Nat /\ p[1] \in Nat /\ p[2] \in Nat
         /\ Halves(p)[1] = p[1] \div 2 /\ Halves(p)[2] = p[2] \div 2
         /\ p[1] + p[2] # 0 => Halves(p)[1] + Halves(p)[2] < p[1] + p[2]
         /\ \A n \in Nat : p \in Square(n + 1) => Halves(p) \in Square(n + 1) /\ (p[1] + p[2] # 0 => Halves(p) \in Square(n))
         /\ \A n \in Nat : p \in Square(n) => Halves(p) \in Square(n)
<1>1. p[1] \in Nat /\ p[2] \in Nat /\ p = <<p[1], p[2]>>
  OBVIOUS
<1> DEFINE i == p[1] \div 2
           j == p[2] \div 2
<1>2. /\ i \in Nat /\ i <= p[1] /\ (p[1] # 0 => i < p[1])
      /\ j \in Nat /\ j <= p[2] /\ (p[2] # 0 => j < p[2])
  BY ONLY <1>1, Half
<1> HIDE DEF i, j
<1>3. Halves(p) = <<i, j>>
  BY DEF Halves, i, j
<1>4. Halves(p) \in Nat \X Nat /\ Halves(p)[1] = i /\ Halves(p)[2] = j
  BY <1>2, <1>3
<1>5. p[1] + p[2] # 0 => i + j < p[1] + p[2]
  BY ONLY <1>1, <1>2
<1>6. ASSUME NEW n \in Nat, p \in Square(n) PROVE Halves(p) \in Square(n)
  <2>1. p[1] <= n - 1 /\ p[2] <= n - 1
    BY <1>6 DEF Square
  <2> QED BY <1>1, <1>2, <1>3, <2>1 DEF Square
<1>7. ASSUME NEW n \in Nat, p \in Square(n + 1), p[1] + p[2] # 0 PROVE Halves(p) \in Square(n)
  <2>1. p[1] <= n /\ p[2] <= n
    BY <1>7 DEF Square
  <2>2. i <= n - 1 /\ j <= n - 1
    <3>1. 2 * i <= p[1] /\ 2 * j <= p[2]
      BY <1>1 DEF i, j
    <3> QED BY ONLY <1>1, <1>2, <1>7, <2>1, <3>1, n \in Nat
  <2> QED BY <1>2, <1>3, <2>2 DEF Square
<1>8. ASSUME NEW n \in Nat, p \in Square(n + 1) PROVE Halves(p) \in Square(n + 1)
  <2>1. n + 1 \in Nat
    OBVIOUS
  <2> QED BY ONLY <1>6, <1>8, <2>1
<1> QED BY ONLY <1>1, <1>4, <1>5, <1>6, <1>7, <1>8 DEF i, j

\* There is one of every size,
LEMMA XorTables ==
  ASSUME NEW n \in Nat
  PROVE  \E f : XorTable(f, n)
<1> DEFINE Done == {k \in Nat : \E f : XorTable(f, k)}
<1>1. 0 \in Done
  <2> DEFINE f == [p \in Square(0) |-> 0]
  <2>1. Square(0) = {}
    BY DEF Square
  <2>2. XorTable(f, 0)
    BY <2>1 DEF XorTable
  <2> QED BY <2>2
<1>2. ASSUME NEW k \in Nat, k \in Done PROVE k + 1 \in Done
  <2>1. PICK f : XorTable(f, k)
    BY <1>2
  <2> DEFINE g == [p \in Square(k + 1) |-> IF p \in Square(k) THEN f[p] ELSE XorBody(f, p)]
  <2>2. Square(k) \subseteq Square(k + 1) /\ Square(k + 1) \subseteq Nat \X Nat
    BY DEF Square
  <2>3. \A p \in Square(k) : g[p] = f[p]
    BY <2>2
  <2>4. \A p \in Square(k + 1) : p \notin Square(k) => g[p] = XorBody(f, p)
    OBVIOUS
  <2>5. g = [p \in Square(k + 1) |-> g[p]]
    OBVIOUS
  <2> HIDE DEF g
  <2>6. ASSUME NEW p \in Square(k + 1) PROVE g[p] = XorBody(g, p)
    <3>1. g[p] = XorBody(f, p)
      BY <2>1, <2>3, <2>4 DEF XorTable
    <3>2. p[1] + p[2] # 0 => g[Halves(p)] = f[Halves(p)]
      <4>1. p \in Nat \X Nat
        BY <2>2
      <4>2. p[1] + p[2] # 0 => Halves(p) \in Square(k)
        BY ONLY <4>1, k \in Nat, p \in Square(k + 1), HalfPair
      <4> QED BY <2>3, <4>2
    <3> QED BY ONLY <3>1, <3>2 DEF XorBody
  <2>7. XorTable(g, k + 1)
    BY <2>5, <2>6 DEF XorTable
  <2> QED BY <2>7
<1>3. n \in Done
  <2> HIDE DEF Done
  <2> QED BY <1>1, <1>2, InductionOnSet
<1> QED BY <1>3

\* and where two tables overlap they are the same.
LEMMA XorTablesAgree ==
  ASSUME NEW n \in Nat, NEW m \in Nat, NEW f, NEW g, XorTable(f, n), XorTable(g, m)
  PROVE  \A p \in Square(n) \cap Square(m) : f[p] = g[p]
<1> DEFINE Agree == {k \in Nat : \A p \in Square(n) \cap Square(m) : p[1] + p[2] < k => f[p] = g[p]}
<1>0. Square(n) \cap Square(m) \subseteq Nat \X Nat
  BY DEF Square
<1>1. 0 \in Agree
  <2>1. \A p \in Nat \X Nat : ~(p[1] + p[2] < 0)
    OBVIOUS
  <2> QED BY <1>0, <2>1
<1>2. ASSUME NEW k \in Nat, k \in Agree PROVE k + 1 \in Agree
  <2>1. ASSUME NEW p \in Square(n) \cap Square(m), p[1] + p[2] < k + 1 PROVE f[p] = g[p]
    <3>0. p \in Nat \X Nat
      BY <1>0
    <3>1. f[p] = XorBody(f, p) /\ g[p] = XorBody(g, p)
      BY DEF XorTable
    <3>2. p[1] + p[2] # 0 => f[Halves(p)] = g[Halves(p)]
      <4>1. Halves(p) \in Square(n) \cap Square(m)
        <5>1. p \in Square(n) /\ p \in Square(m)
          OBVIOUS
        <5> QED BY ONLY <3>0, <5>1, n \in Nat, m \in Nat, HalfPair
      <4>2. p[1] + p[2] # 0 => Halves(p)[1] + Halves(p)[2] < k
        <5>1. p[1] + p[2] # 0 => Halves(p)[1] + Halves(p)[2] < p[1] + p[2]
          BY ONLY <3>0, HalfPair
        <5>2. p[1] \in Nat /\ p[2] \in Nat /\ Halves(p)[1] \in Nat /\ Halves(p)[2] \in Nat
          <6>1. Halves(p) \in Nat \X Nat
            BY ONLY <3>0, HalfPair
          <6> QED BY ONLY <3>0, <6>1
        <5> QED BY ONLY <2>1, <5>1, <5>2, k \in Nat
      <4> QED BY <1>2, <4>1, <4>2
    <3> QED BY ONLY <3>1, <3>2 DEF XorBody
  <2> QED BY <2>1
<1>3. Nat \subseteq Agree
  <2> HIDE DEF Agree
  <2> QED BY ONLY <1>1, <1>2, InductionOnSet
<1>4. ASSUME NEW p \in Square(n) \cap Square(m) PROVE f[p] = g[p]
  <2>1. p \in Nat \X Nat
    BY <1>0
  <2>2. p[1] + p[2] + 1 \in Nat /\ p[1] + p[2] < p[1] + p[2] + 1
    BY ONLY <2>1
  <2> QED BY ONLY <1>3, <1>4, <2>2, p \in Square(n) \cap Square(m)
<1> QED BY ONLY <1>4

\* So the recursion has a result.
LEMMA XorIs == \A p \in Nat \X Nat : Xor[p] = XorBody(Xor, p)
<1> DEFINE size(p) == p[1] + p[2] + 1
           table(n) == CHOOSE f : XorTable(f, n)
           h == [p \in Nat \X Nat |-> table(size(p))[p]]
           Fits(f) == f = [p \in Nat \X Nat |-> IF p[1] + p[2] = 0 THEN 0 ELSE 2 * f[<<p[1] \div 2, p[2] \div 2>>] + ((p[1] + p[2]) % 2)]
<1>1. ASSUME NEW n \in Nat PROVE XorTable(table(n), n)
  BY ONLY n \in Nat, XorTables
<1>2. ASSUME NEW p \in Nat \X Nat PROVE size(p) \in Nat /\ p \in Square(size(p))
  BY DEF Square
<1>3. \A p \in Nat \X Nat : h[p] = table(size(p))[p]
  OBVIOUS
<1>4. h = [p \in Nat \X Nat |-> h[p]]
  OBVIOUS
<1> HIDE DEF h, table, size
<1>5. ASSUME NEW p \in Nat \X Nat PROVE h[p] = XorBody(h, p)
  <2>1. XorTable(table(size(p)), size(p)) /\ p \in Square(size(p))
    BY ONLY <1>1, <1>2, p \in Nat \X Nat
  <2>2. table(size(p))[p] = XorBody(table(size(p)), p)
    BY ONLY <2>1 DEF XorTable
  <2>3. Halves(p) \in Nat \X Nat /\ Halves(p) \in Square(size(p))
    BY ONLY <1>2, <2>1, p \in Nat \X Nat, HalfPair
  <2>4. XorTable(table(size(Halves(p))), size(Halves(p))) /\ Halves(p) \in Square(size(Halves(p)))
    BY ONLY <1>1, <1>2, <2>3
  <2>5. table(size(p))[Halves(p)] = table(size(Halves(p)))[Halves(p)]
    <3>1. size(p) \in Nat /\ size(Halves(p)) \in Nat /\ Halves(p) \in Square(size(p)) \cap Square(size(Halves(p)))
      BY ONLY <1>2, <2>3, <2>4, p \in Nat \X Nat
    <3> QED BY ONLY <2>1, <2>4, <3>1, XorTablesAgree
  <2>6. h[Halves(p)] = table(size(p))[Halves(p)] /\ h[p] = table(size(p))[p]
    BY ONLY <1>3, <2>3, <2>5, p \in Nat \X Nat
  <2> QED BY ONLY <2>2, <2>6 DEF XorBody
<1>6. Fits(h)
  <2>1. \A p \in Nat \X Nat : h[p] = IF p[1] + p[2] = 0 THEN 0 ELSE 2 * h[<<p[1] \div 2, p[2] \div 2>>] + ((p[1] + p[2]) % 2)
    BY ONLY <1>5 DEF XorBody, Halves
  <2> QED BY ONLY <1>4, <2>1
<1>7. Xor = CHOOSE f : Fits(f)
  BY DEF Xor
<1>8. Fits(Xor)
  <2> HIDE DEF Fits
  <2> QED BY ONLY <1>6, <1>7
<1>9. ASSUME NEW p \in Nat \X Nat
      PROVE  Xor[p] = IF p[1] + p[2] = 0 THEN 0 ELSE 2 * Xor[<<p[1] \div 2, p[2] \div 2>>] + ((p[1] + p[2]) % 2)
  BY ONLY <1>8, p \in Nat \X Nat
<1> QED BY ONLY <1>9 DEF XorBody, Halves

\* Bit by bit: the lowest bit, and the rest.
LEMMA XorOf ==
  ASSUME NEW i \in Nat, NEW j \in Nat
  PROVE  Xor[<<i, j>>] \in Nat /\ Xor[<<i, j>>] = 2 * Xor[<<i \div 2, j \div 2>>] + ((i + j) % 2)
<1> DEFINE Typed == {k \in Nat : \A p \in Nat \X Nat : p[1] + p[2] < k => Xor[p] \in Nat}
<1>1. ASSUME NEW p \in Nat \X Nat
      PROVE  Xor[p] = IF p[1] + p[2] = 0 THEN 0 ELSE 2 * Xor[Halves(p)] + ((p[1] + p[2]) % 2)
  BY ONLY p \in Nat \X Nat, XorIs DEF XorBody
<1>2. 0 \in Typed
  <2>1. \A p \in Nat \X Nat : ~(p[1] + p[2] < 0)
    OBVIOUS
  <2> QED BY <2>1
<1>3. ASSUME NEW k \in Nat, k \in Typed PROVE k + 1 \in Typed
  <2>1. ASSUME NEW p \in Nat \X Nat, p[1] + p[2] < k + 1 PROVE Xor[p] \in Nat
    <3>1. CASE p[1] + p[2] = 0
      BY ONLY <1>1, <3>1, p \in Nat \X Nat
    <3>2. CASE p[1] + p[2] # 0
      <4>1. Halves(p) \in Nat \X Nat /\ Halves(p)[1] + Halves(p)[2] < p[1] + p[2]
        BY ONLY p \in Nat \X Nat, <3>2, HalfPair
      <4>2. Halves(p)[1] + Halves(p)[2] < k
        <5>1. /\ p[1] \in Nat /\ p[2] \in Nat /\ Halves(p)[1] \in Nat /\ Halves(p)[2] \in Nat
          BY ONLY p \in Nat \X Nat, <4>1
        <5> QED BY ONLY <2>1, <4>1, <5>1, k \in Nat
      <4>3. Xor[Halves(p)] \in Nat
        BY ONLY <1>3, <4>1, <4>2
      <4>4. (p[1] + p[2]) % 2 \in Nat
        <5>1. p[1] \in Nat /\ p[2] \in Nat
          BY ONLY p \in Nat \X Nat
        <5> QED BY ONLY <5>1
      <4>5. Xor[p] = 2 * Xor[Halves(p)] + ((p[1] + p[2]) % 2)
        BY ONLY <1>1, <3>2, p \in Nat \X Nat
      <4> QED BY ONLY <4>3, <4>4, <4>5
    <3> QED BY ONLY <3>1, <3>2
  <2> QED BY <2>1
<1>4. Nat \subseteq Typed
  <2> HIDE DEF Typed
  <2> QED BY ONLY <1>2, <1>3, InductionOnSet
<1> DEFINE p == <<i, j>>
           q == <<i \div 2, j \div 2>>
<1>5. p \in Nat \X Nat /\ p[1] = i /\ p[2] = j /\ q \in Nat \X Nat
  OBVIOUS
<1>6. Halves(p) = q
  BY DEF Halves
<1> HIDE DEF p, q
<1>7. Xor[p] \in Nat
  <2>1. p[1] + p[2] + 1 \in Nat /\ p[1] + p[2] < p[1] + p[2] + 1
    BY ONLY <1>5, i \in Nat, j \in Nat
  <2> QED BY ONLY <1>4, <1>5, <2>1
<1>8. Xor[p] = 2 * Xor[q] + ((i + j) % 2)
  <2>1. CASE i + j # 0
    BY ONLY <1>1, <1>5, <1>6, <2>1
  <2>2. CASE i + j = 0
    <3>1. i = 0 /\ j = 0
      BY ONLY <2>2, i \in Nat, j \in Nat
    <3>2. q = p
      BY ONLY <3>1 DEF p, q
    <3>3. Xor[p] = 0
      BY ONLY <1>1, <1>5, <2>2
    <3> QED BY ONLY <2>2, <3>2, <3>3
  <2> QED BY ONLY <2>1, <2>2
<1> QED BY ONLY <1>7, <1>8 DEF p, q

\* With one operand the other has only one result, whichever of them it is.
LEMMA XorOnce ==
  ASSUME NEW i \in Nat, NEW j \in Nat, NEW h \in Nat, j # h
  PROVE  Xor[<<i, j>>] # Xor[<<i, h>>] /\ Xor[<<j, i>>] # Xor[<<h, i>>]
<1> DEFINE OnlyOne == {k \in Nat : \A a, b, c \in Nat :
                      a + b + c < k /\ b # c => Xor[<<a, b>>] # Xor[<<a, c>>] /\ Xor[<<b, a>>] # Xor[<<c, a>>]}
<1>1. 0 \in OnlyOne
  OBVIOUS
<1>2. ASSUME NEW k \in Nat, k \in OnlyOne PROVE k + 1 \in OnlyOne
  <2>1. ASSUME NEW a \in Nat, NEW b \in Nat, NEW c \in Nat, a + b + c < k + 1, b # c
        PROVE  Xor[<<a, b>>] # Xor[<<a, c>>] /\ Xor[<<b, a>>] # Xor[<<c, a>>]
    <3> DEFINE u == a \div 2
               v == b \div 2
               w == c \div 2
    <3>1. /\ Xor[<<a, b>>] = 2 * Xor[<<u, v>>] + ((a + b) % 2) /\ Xor[<<u, v>>] \in Nat
          /\ Xor[<<a, c>>] = 2 * Xor[<<u, w>>] + ((a + c) % 2) /\ Xor[<<u, w>>] \in Nat
          /\ Xor[<<b, a>>] = 2 * Xor[<<v, u>>] + ((b + a) % 2) /\ Xor[<<v, u>>] \in Nat
          /\ Xor[<<c, a>>] = 2 * Xor[<<w, u>>] + ((c + a) % 2) /\ Xor[<<w, u>>] \in Nat
      <4>1. u \in Nat /\ v \in Nat /\ w \in Nat
        BY ONLY a \in Nat, b \in Nat, c \in Nat, Half
      <4>2. Xor[<<u, v>>] \in Nat /\ Xor[<<u, w>>] \in Nat /\ Xor[<<v, u>>] \in Nat /\ Xor[<<w, u>>] \in Nat
        BY ONLY <4>1, XorOf
      <4>3. /\ Xor[<<a, b>>] = 2 * Xor[<<u, v>>] + ((a + b) % 2) /\ Xor[<<a, c>>] = 2 * Xor[<<u, w>>] + ((a + c) % 2)
            /\ Xor[<<b, a>>] = 2 * Xor[<<v, u>>] + ((b + a) % 2) /\ Xor[<<c, a>>] = 2 * Xor[<<w, u>>] + ((c + a) % 2)
        BY ONLY a \in Nat, b \in Nat, c \in Nat, XorOf
      <4> QED BY ONLY <4>2, <4>3
    <3>2. /\ u \in Nat /\ v \in Nat /\ w \in Nat /\ u <= a /\ v <= b /\ w <= c
          /\ (b # 0 => v < b) /\ (c # 0 => w < c)
      BY ONLY a \in Nat, b \in Nat, c \in Nat, Half
    <3>3. /\ (a + b) % 2 = (a + c) % 2 => v # w
          /\ (b + a) % 2 = (c + a) % 2 => v # w
          /\ (a + b) % 2 \in {0, 1} /\ (a + c) % 2 \in {0, 1} /\ (b + a) % 2 \in {0, 1} /\ (c + a) % 2 \in {0, 1}
      BY ONLY a \in Nat, b \in Nat, c \in Nat, <2>1
    <3> HIDE DEF u, v, w
    <3>4. v # w => Xor[<<u, v>>] # Xor[<<u, w>>] /\ Xor[<<v, u>>] # Xor[<<w, u>>]
      <4>1. u + v + w < k
        BY ONLY <2>1, <3>2, a \in Nat, b \in Nat, c \in Nat, k \in Nat
      <4> QED BY ONLY <1>2, <3>2, <4>1
    <3> DEFINE r == (a + b) % 2
               s == (a + c) % 2
               x == (b + a) % 2
               y == (c + a) % 2
    <3> HIDE DEF r, s, x, y
    <3>5. /\ Xor[<<a, b>>] = 2 * Xor[<<u, v>>] + r /\ Xor[<<a, c>>] = 2 * Xor[<<u, w>>] + s
          /\ Xor[<<b, a>>] = 2 * Xor[<<v, u>>] + x /\ Xor[<<c, a>>] = 2 * Xor[<<w, u>>] + y
          /\ r \in {0, 1} /\ s \in {0, 1} /\ x \in {0, 1} /\ y \in {0, 1}
          /\ (r = s => v # w) /\ (x = y => v # w)
      BY ONLY <3>1, <3>3 DEF r, s, x, y
    <3>6. ASSUME NEW m \in Nat, NEW n \in Nat, NEW d \in {0, 1}, NEW e \in {0, 1}, 2 * m + d = 2 * n + e PROVE m = n /\ d = e
      BY ONLY m \in Nat, n \in Nat, d \in {0, 1}, e \in {0, 1}, <3>6
    <3>7. Xor[<<a, b>>] # Xor[<<a, c>>]
      <4> SUFFICES ASSUME Xor[<<a, b>>] = Xor[<<a, c>>] PROVE FALSE
        OBVIOUS
      <4>1. /\ 2 * Xor[<<u, v>>] + r = 2 * Xor[<<u, w>>] + s
            /\ Xor[<<u, v>>] \in Nat /\ Xor[<<u, w>>] \in Nat /\ r \in {0, 1} /\ s \in {0, 1}
        BY ONLY <3>1, <3>5, Xor[<<a, b>>] = Xor[<<a, c>>]
      <4>2. Xor[<<u, v>>] = Xor[<<u, w>>] /\ r = s
        BY ONLY <3>6, <4>1
      <4> QED BY ONLY <3>4, <3>5, <4>2
    <3>8. Xor[<<b, a>>] # Xor[<<c, a>>]
      <4> SUFFICES ASSUME Xor[<<b, a>>] = Xor[<<c, a>>] PROVE FALSE
        OBVIOUS
      <4>1. /\ 2 * Xor[<<v, u>>] + x = 2 * Xor[<<w, u>>] + y
            /\ Xor[<<v, u>>] \in Nat /\ Xor[<<w, u>>] \in Nat /\ x \in {0, 1} /\ y \in {0, 1}
        BY ONLY <3>1, <3>5, Xor[<<b, a>>] = Xor[<<c, a>>]
      <4>2. Xor[<<v, u>>] = Xor[<<w, u>>] /\ x = y
        BY ONLY <3>6, <4>1
      <4> QED BY ONLY <3>4, <3>5, <4>2
    <3> QED BY ONLY <3>7, <3>8
  <2> QED BY <2>1
<1>3. Nat \subseteq OnlyOne
  <2> HIDE DEF OnlyOne
  <2> QED BY ONLY <1>1, <1>2, InductionOnSet
<1>4. i + j + h + 1 \in Nat /\ i + j + h < i + j + h + 1
  OBVIOUS
<1> QED BY ONLY <1>3, <1>4, i \in Nat, j \in Nat, h \in Nat, j # h

\* Numbers below n have a result below n: the case if n is a power of two.
XorBelow(n) == \A i, j \in 0 .. n - 1 : Xor[<<i, j>>] \in 0 .. n - 1
PowerOfTwo(n) == n \in Nat \ {0} /\ \A S \in SUBSET Nat : 1 \in S /\ (\A m \in S : 2 * m \in S) => n \in S

\* As the kernel's comment says, the operation is closed.
LEMMA XorClosed ==
  ASSUME NEW n, PowerOfTwo(n)
  PROVE  XorBelow(n)
<1> DEFINE S == {m \in Nat \ {0} : XorBelow(m)}
<1>1. 1 \in S
  <2>1. Xor[<<0, 0>>] = 0
    <3>1. Xor[<<0, 0>>] \in Nat /\ Xor[<<0, 0>>] = 2 * Xor[<<0 \div 2, 0 \div 2>>] + ((0 + 0) % 2)
      BY ONLY XorOf
    <3>2. 0 \div 2 = 0 /\ (0 + 0) % 2 = 0
      OBVIOUS
    <3> QED BY ONLY <3>1, <3>2
  <2>2. \A i, j \in 0 .. 1 - 1 : i = 0 /\ j = 0
    OBVIOUS
  <2>3. XorBelow(1)
    BY ONLY <2>1, <2>2 DEF XorBelow
  <2> QED BY <2>3
<1>2. ASSUME NEW m \in S PROVE 2 * m \in S
  <2>1. m \in Nat \ {0} /\ XorBelow(m)
    OBVIOUS
  <2>2. ASSUME NEW i \in 0 .. 2 * m - 1, NEW j \in 0 .. 2 * m - 1 PROVE Xor[<<i, j>>] \in 0 .. 2 * m - 1
    <3>1. i \in Nat /\ j \in Nat
      BY ONLY i \in 0 .. 2 * m - 1, j \in 0 .. 2 * m - 1, <2>1
    <3>2. i \div 2 \in 0 .. m - 1 /\ j \div 2 \in 0 .. m - 1
      BY ONLY i \in 0 .. 2 * m - 1, j \in 0 .. 2 * m - 1, <2>1
    <3>3. Xor[<<i \div 2, j \div 2>>] \in 0 .. m - 1
      BY ONLY <2>1, <3>2 DEF XorBelow
    <3>4. Xor[<<i, j>>] = 2 * Xor[<<i \div 2, j \div 2>>] + ((i + j) % 2)
      BY ONLY <3>1, XorOf
    <3>5. (i + j) % 2 \in {0, 1}
      BY ONLY <3>1
    <3> QED BY ONLY <2>1, <3>3, <3>4, <3>5
  <2>3. 2 * m \in Nat \ {0}
    BY ONLY <2>1
  <2> QED BY <2>2, <2>3 DEF XorBelow
<1>3. n \in S
  <2> HIDE DEF S
  <2>1. S \in SUBSET Nat
    BY DEF S
  <2> QED BY ONLY <1>1, <1>2, <2>1, PowerOfTwo(n) DEF PowerOfTwo
<1> QED BY <1>3

-----------------------------------------------------------------------------
(* The transpositions, all sizes *)

\* The padded layout of v4.
LEMMA PaddedBanks ==
  ASSUME NEW TILE \in Nat \ {0}
  PROVE  OwnBanks(Slots(TILE, TILE + 1), TILE)
<1> DEFINE slot == Slots(TILE, TILE + 1)
<1>1. ASSUME NEW i \in 0 .. TILE - 1, NEW j \in 0 .. TILE - 1
      PROVE  slot[<<i, j>>] = i * (TILE + 1) + j
  <2>1. TILE + 1 \in Nat /\ TILE <= TILE + 1
    BY ONLY TILE \in Nat \ {0}
  <2> QED BY ONLY TILE \in Nat \ {0}, <2>1, i \in 0 .. TILE - 1, j \in 0 .. TILE - 1, SlotsOwn
<1> HIDE DEF slot
<1>2. ASSUME NEW i \in 0 .. TILE - 1, NEW j \in 0 .. TILE - 1, NEW h \in 0 .. TILE - 1, j # h
      PROVE  slot[<<i, j>>] % TILE # slot[<<i, h>>] % TILE /\ slot[<<j, i>>] % TILE # slot[<<h, i>>] % TILE
  <2>1. /\ (i * (TILE + 1) + j) % TILE # (i * (TILE + 1) + h) % TILE
        /\ (j * (TILE + 1) + i) % TILE # (h * (TILE + 1) + i) % TILE
    BY ONLY TILE \in Nat \ {0}, i \in 0 .. TILE - 1, j \in 0 .. TILE - 1, h \in 0 .. TILE - 1, <1>2, PaddedApart
  <2>2. /\ slot[<<i, j>>] = i * (TILE + 1) + j /\ slot[<<i, h>>] = i * (TILE + 1) + h
        /\ slot[<<j, i>>] = j * (TILE + 1) + i /\ slot[<<h, i>>] = h * (TILE + 1) + i
    BY ONLY <1>1, i \in 0 .. TILE - 1, j \in 0 .. TILE - 1, h \in 0 .. TILE - 1
  <2> QED BY ONLY <2>1, <2>2
<1>3. OwnBanks(slot, TILE)
  BY ONLY <1>2 DEF OwnBanks
<1> QED BY ONLY <1>3 DEF slot

\* The permuted one of v5: a row has its slots to itself, and in a row or a
\* column no two places have the same bank.
LEMMA Swizzled ==
  ASSUME NEW TILE, PowerOfTwo(TILE), NEW slot,
         slot = [p \in (0 .. TILE - 1) \X (0 .. TILE - 1) |-> p[1] * TILE + Xor[p]]
  PROVE  OwnSlots(slot, TILE * TILE, TILE) /\ OwnBanks(slot, TILE)
<1>1. TILE \in Nat \ {0} /\ XorBelow(TILE)
  BY ONLY PowerOfTwo(TILE), XorClosed DEF PowerOfTwo
<1>2. ASSUME NEW i \in 0 .. TILE - 1, NEW j \in 0 .. TILE - 1
      PROVE  /\ i \in Nat /\ j \in Nat /\ Xor[<<i, j>>] \in 0 .. TILE - 1
             /\ slot[<<i, j>>] = i * TILE + Xor[<<i, j>>]
  <2>1. i \in Nat /\ j \in Nat
    BY ONLY <1>1, i \in 0 .. TILE - 1, j \in 0 .. TILE - 1
  <2>2. Xor[<<i, j>>] \in 0 .. TILE - 1
    BY ONLY <1>1, i \in 0 .. TILE - 1, j \in 0 .. TILE - 1 DEF XorBelow
  <2>3. slot[<<i, j>>] = i * TILE + Xor[<<i, j>>]
    BY i \in 0 .. TILE - 1, j \in 0 .. TILE - 1
  <2> QED BY ONLY <2>1, <2>2, <2>3
<1>3. ASSUME NEW i \in 0 .. TILE - 1, NEW j \in 0 .. TILE - 1
      PROVE  slot[<<i, j>>] \in 0 .. TILE * TILE - 1 /\ slot[<<i, j>>] % TILE = Xor[<<i, j>>]
  <2>1. i \in Nat /\ Xor[<<i, j>>] \in 0 .. TILE - 1 /\ slot[<<i, j>>] = i * TILE + Xor[<<i, j>>]
    BY ONLY <1>2, i \in 0 .. TILE - 1, j \in 0 .. TILE - 1
  <2>2. i * TILE + Xor[<<i, j>>] \in 0 .. TILE * TILE - 1
    BY ONLY <1>1, i \in 0 .. TILE - 1, <2>1, Numbered
  <2>3. (i * TILE + Xor[<<i, j>>]) % TILE = Xor[<<i, j>>]
    BY ONLY <1>1, <2>1, DividedOnce
  <2> QED BY ONLY <2>1, <2>2, <2>3
<1>4. ASSUME NEW i \in 0 .. TILE - 1, NEW j \in 0 .. TILE - 1, NEW g \in 0 .. TILE - 1, NEW h \in 0 .. TILE - 1,
             slot[<<i, j>>] = slot[<<g, h>>]
      PROVE  i = g /\ j = h
  <2>1. i * TILE + Xor[<<i, j>>] = g * TILE + Xor[<<g, h>>]
    BY ONLY <1>2, <1>4, i \in 0 .. TILE - 1, j \in 0 .. TILE - 1, g \in 0 .. TILE - 1, h \in 0 .. TILE - 1
  <2>2. i \in Nat /\ g \in Nat /\ j \in Nat /\ h \in Nat /\ Xor[<<i, j>>] \in 0 .. TILE - 1 /\ Xor[<<g, h>>] \in 0 .. TILE - 1
    BY ONLY <1>2, i \in 0 .. TILE - 1, j \in 0 .. TILE - 1, g \in 0 .. TILE - 1, h \in 0 .. TILE - 1
  <2>3. i = g /\ Xor[<<i, j>>] = Xor[<<g, h>>]
    BY ONLY <1>1, <2>1, <2>2, OneWay
  <2>4. Xor[<<i, j>>] = Xor[<<i, h>>]
    BY ONLY <2>3
  <2> QED BY ONLY <2>2, <2>3, <2>4, XorOnce
<1>5. ASSUME NEW i \in 0 .. TILE - 1, NEW j \in 0 .. TILE - 1, NEW h \in 0 .. TILE - 1, j # h
      PROVE  slot[<<i, j>>] % TILE # slot[<<i, h>>] % TILE /\ slot[<<j, i>>] % TILE # slot[<<h, i>>] % TILE
  <2>1. i \in Nat /\ j \in Nat /\ h \in Nat
    BY ONLY <1>2, i \in 0 .. TILE - 1, j \in 0 .. TILE - 1, h \in 0 .. TILE - 1
  <2>2. Xor[<<i, j>>] # Xor[<<i, h>>] /\ Xor[<<j, i>>] # Xor[<<h, i>>]
    BY ONLY <1>5, <2>1, XorOnce
  <2>3. /\ slot[<<i, j>>] % TILE = Xor[<<i, j>>] /\ slot[<<i, h>>] % TILE = Xor[<<i, h>>]
        /\ slot[<<j, i>>] % TILE = Xor[<<j, i>>] /\ slot[<<h, i>>] % TILE = Xor[<<h, i>>]
    BY ONLY <1>3, i \in 0 .. TILE - 1, j \in 0 .. TILE - 1, h \in 0 .. TILE - 1
  <2> QED BY ONLY <2>2, <2>3
<1>6. OwnSlots(slot, TILE * TILE, TILE)
  BY ONLY <1>3, <1>4 DEF OwnSlots
<1>7. OwnBanks(slot, TILE)
  BY ONLY <1>5 DEF OwnBanks
<1> QED BY ONLY <1>6, <1>7

\* v3 and v4, whatever the shape and the tile, and v5 if the tile is one that
\* its static_assert accepts.
LEMMA TiledTransposes ==
  ASSUME NEW M \in Nat \ {0}, NEW N \in Nat \ {0}, NEW TILE \in Nat \ {0}, NEW kern,
         \/ kern = device_transpose_v3(M, N, TILE) \/ kern = device_transpose_v4(M, N, TILE)
         \/ kern = device_transpose_v5(M, N, TILE) /\ PowerOfTwo(TILE)
  PROVE  Disciplined(kern) /\ RightInOrder(kern) /\ BankFree(kern)
<1>1. CASE kern = device_transpose_v3(M, N, TILE)
  <2>1. kern = Through(M, N, TILE, TILE * TILE, Slots(TILE, TILE), {})
    BY <1>1 DEF device_transpose_v3
  <2>2. TILE \in Nat /\ TILE <= TILE
    BY ONLY TILE \in Nat \ {0}
  <2>3. OwnSlots(Slots(TILE, TILE), TILE * TILE, TILE)
    BY ONLY TILE \in Nat \ {0}, <2>2, SlotsOwn
  <2>4. Disciplined(kern) /\ RightInOrder(kern)
    BY ONLY M \in Nat \ {0}, N \in Nat \ {0}, TILE \in Nat \ {0}, <2>1, <2>3, ThroughRight
  <2>5. kern.banked = {}
    BY ONLY <2>1, ThroughSteps
  <2> QED BY ONLY <2>4, <2>5, NotBanked
<1>2. CASE kern = device_transpose_v4(M, N, TILE)
  <2>1. kern = Through(M, N, TILE, TILE * (TILE + 1), Slots(TILE, TILE + 1), {"S"})
    BY <1>2 DEF device_transpose_v4
  <2>2. TILE + 1 \in Nat /\ TILE <= TILE + 1
    BY ONLY TILE \in Nat \ {0}
  <2>3. OwnSlots(Slots(TILE, TILE + 1), TILE * (TILE + 1), TILE)
    BY ONLY TILE \in Nat \ {0}, <2>2, SlotsOwn
  <2>4. Disciplined(kern) /\ RightInOrder(kern)
    BY ONLY M \in Nat \ {0}, N \in Nat \ {0}, TILE \in Nat \ {0}, <2>1, <2>3, ThroughRight
  <2>5. OwnBanks(Slots(TILE, TILE + 1), TILE)
    BY ONLY TILE \in Nat \ {0}, PaddedBanks
  <2>6. BankFree(kern)
    BY ONLY M \in Nat \ {0}, N \in Nat \ {0}, TILE \in Nat \ {0}, <2>1, <2>5, ThroughBankFree
  <2> QED BY ONLY <2>4, <2>6
<1>3. CASE kern = device_transpose_v5(M, N, TILE) /\ PowerOfTwo(TILE)
  <2> DEFINE slot == [p \in (0 .. TILE - 1) \X (0 .. TILE - 1) |-> p[1] * TILE + Xor[p]]
  <2>1. kern = Through(M, N, TILE, TILE * TILE, slot, {"S"})
    BY ONLY <1>3 DEF device_transpose_v5
  <2>2. slot = [p \in (0 .. TILE - 1) \X (0 .. TILE - 1) |-> p[1] * TILE + Xor[p]]
    OBVIOUS
  <2> HIDE DEF slot
  <2>3. OwnSlots(slot, TILE * TILE, TILE) /\ OwnBanks(slot, TILE)
    BY ONLY <1>3, <2>2, Swizzled
  <2>4. Disciplined(kern) /\ RightInOrder(kern)
    BY ONLY M \in Nat \ {0}, N \in Nat \ {0}, TILE \in Nat \ {0}, <2>1, <2>3, ThroughRight
  <2>5. BankFree(kern)
    BY ONLY M \in Nat \ {0}, N \in Nat \ {0}, TILE \in Nat \ {0}, <2>1, <2>3, ThroughBankFree
  <2> QED BY ONLY <2>4, <2>5
<1> QED BY <1>1, <1>2, <1>3

\* A tile of 32, which the programs use, is one of those.
LEMMA TileOf32 == PowerOfTwo(32)
<1>1. ASSUME NEW S \in SUBSET Nat, 1 \in S, \A m \in S : 2 * m \in S PROVE 32 \in S
  <2>1. 2 * 1 \in S /\ 2 * 1 = 2
    BY <1>1
  <2>2. 2 * 2 \in S /\ 2 * 2 = 4
    BY <1>1, <2>1
  <2>3. 2 * 4 \in S /\ 2 * 4 = 8
    BY <1>1, <2>2
  <2>4. 2 * 8 \in S /\ 2 * 8 = 16
    BY <1>1, <2>3
  <2>5. 2 * 16 \in S /\ 2 * 16 = 32
    BY <1>1, <2>4
  <2> QED BY <2>5
<1> QED BY <1>1 DEF PowerOfTwo

\* A transposition of some matrix with some tile.
TransposeOf(kern) ==
  \E M, N, TILE \in Nat \ {0} :
    \/ kern = device_transpose_v0(M, N, TILE) \/ kern = device_transpose_v1(M, N, TILE)
    \/ kern = device_transpose_v2(M, N, TILE) \/ kern = device_transpose_v3(M, N, TILE)
    \/ kern = device_transpose_v4(M, N, TILE)
    \/ kern = device_transpose_v5(M, N, TILE) /\ PowerOfTwo(TILE)

\* It has all that the theorems about the grid ask for.
LEMMA TransposesRight ==
  ASSUME NEW kern, TransposeOf(kern)
  PROVE  Disciplined(kern) /\ RightInOrder(kern) /\ BankFree(kern)
<1>1. PICK M \in Nat \ {0}, N \in Nat \ {0}, TILE \in Nat \ {0} :
        \/ kern \in {device_transpose_v0(M, N, TILE), device_transpose_v1(M, N, TILE), device_transpose_v2(M, N, TILE)}
        \/ kern = device_transpose_v3(M, N, TILE) \/ kern = device_transpose_v4(M, N, TILE)
        \/ kern = device_transpose_v5(M, N, TILE) /\ PowerOfTwo(TILE)
  BY DEF TransposeOf
<1>2. CASE kern \in {device_transpose_v0(M, N, TILE), device_transpose_v1(M, N, TILE), device_transpose_v2(M, N, TILE)}
  BY ONLY <1>1, <1>2, MovingTransposes
<1>3. CASE \/ kern = device_transpose_v3(M, N, TILE) \/ kern = device_transpose_v4(M, N, TILE)
           \/ kern = device_transpose_v5(M, N, TILE) /\ PowerOfTwo(TILE)
  BY ONLY <1>1, <1>3, TiledTransposes
<1> QED BY ONLY <1>1, <1>2, <1>3

\* The least of a set of numbers.
LEMMA MinIs ==
  ASSUME NEW S \in SUBSET Nat, S # {}
  PROVE  Min(S) \in S /\ \A y \in S : Min(S) <= y
<1> DEFINE R == OpToRel(<, Nat)
<1>1. IsWellFoundedOn(R, Nat)
  BY NatLessThanWellFounded
<1>2. \A i, j \in Nat : i < j => <<i, j>> \in R
  BY DEF OpToRel
<1> HIDE DEF R
<1>3. PICK m \in S : \A y \in S : ~ (<<y, m>> \in R)
  BY <1>1, WFMin
<1>4. m \in S /\ \A y \in S : m <= y
  <2>1. ASSUME NEW y \in S PROVE m <= y
    <3>1. m \in Nat /\ y \in Nat /\ ~ (y < m)
      BY <1>2, <1>3
    <3> QED BY ONLY <3>1
  <2> QED BY <2>1
<1>5. \E x \in S : \A y \in S : x =< y
  BY ONLY <1>4
<1> QED BY ONLY <1>5 DEF Min

\* A step whose reads and writes are those of its assignments.
StepFormed(step, threads) ==
  /\ DOMAIN step.act \subseteq threads
  /\ step.scope \notin {"grid", "cas"}
  /\ \A t \in DOMAIN step.act :
       LET mine == step.act[t]
       IN /\ Len(mine) \in Nat /\ DOMAIN mine = 1 .. Len(mine)
          /\ step.writes[t] = {mine[n].to : n \in DOMAIN mine}
          /\ step.reads[t] = UNION {Range(mine[n].expr.of) : n \in DOMAIN mine}

\* The steps a compiled kernel's thread takes part in follow one another.
LEMMA CompiledFormed ==
  ASSUME NEW threads, NEW warp, NEW memory, NEW inputs, NEW zeroed, NEW program, NEW result, NEW banked,
         NEW kern, kern = Compile(threads, warp, memory, inputs, zeroed, program, result, banked),
         IsFiniteSet(threads), NEW n \in Nat, Len(Fuse(program)) = n, DOMAIN Fuse(program) = 1 .. n,
         \A i \in 1 .. n : StepFormed(Fuse(program)[i], threads),
         DOMAIN result \subseteq memory
  PROVE  WellFormed(kern)
<1> DEFINE steps == Fuse(program)
           after(t, i) == {j \in i + 1 .. n : t \in DOMAIN steps[j].act} \cup {n + 1}
           next == [t \in threads |-> [i \in 0 .. n |-> Min(after(t, i))]]
<1>1. kern.threads = threads /\ kern.steps = steps /\ kern.exit = n + 1 /\ kern.result = result
  BY DEF Compile
<1>2. kern.next = next
  <2>1. \A f : Table(f) = f
    BY DEF Table
  <2>2. kern.next = Table([t \in threads |-> Table([i \in 0 .. Len(steps) |->
                       Min({j \in i + 1 .. Len(steps) : t \in DOMAIN steps[j].act} \cup {Len(steps) + 1})])])
    BY DEF Compile
  <2>3. kern.next = Table([t \in threads |-> Table([i \in 0 .. n |-> Min(after(t, i))])])
    BY ONLY <2>2, Len(Fuse(program)) = n
  <2> HIDE DEF after
  <2>4. [t \in threads |-> Table([i \in 0 .. n |-> Min(after(t, i))])] = next
    BY ONLY <2>1
  <2> QED BY ONLY <2>1, <2>3, <2>4
<1>3. memory \cup DOMAIN inputs \subseteq DOMAIN kern.mem
  BY Compiled
<1>4. ASSUME NEW t \in threads, NEW i \in 0 .. n
      PROVE  /\ kern.next[t][i] \in i + 1 .. n + 1
             /\ kern.next[t][i] # n + 1 => t \in DOMAIN steps[kern.next[t][i]].act
             /\ \A j \in i + 1 .. kern.next[t][i] - 1 : t \notin DOMAIN steps[j].act
  <2> HIDE DEF steps
  <2>1. kern.next[t][i] = Min(after(t, i))
    BY <1>2
  <2>2. after(t, i) \subseteq i + 1 .. n + 1 /\ n + 1 \in after(t, i) /\ after(t, i) \in SUBSET Nat
    OBVIOUS
  <2>3. /\ \A j \in after(t, i) : j # n + 1 => t \in DOMAIN steps[j].act
        /\ \A j \in i + 1 .. n : j \notin after(t, i) => t \notin DOMAIN steps[j].act
    OBVIOUS
  <2> HIDE DEF after
  <2> DEFINE m == Min(after(t, i))
  <2>4. m \in after(t, i) /\ \A j \in after(t, i) : m <= j
    BY ONLY <2>2, MinIs
  <2> HIDE DEF m
  <2>5. m \in i + 1 .. n + 1 /\ (m # n + 1 => t \in DOMAIN steps[m].act)
    BY ONLY <2>2, <2>3, <2>4
  <2>6. ASSUME NEW j \in i + 1 .. m - 1 PROVE t \notin DOMAIN steps[j].act
    <3>1. j \in i + 1 .. n /\ ~(m <= j)
      BY ONLY <2>5, j \in i + 1 .. m - 1, i \in 0 .. n, n \in Nat
    <3> QED BY ONLY <2>3, <2>4, <3>1
  <2> QED BY ONLY <2>1, <2>5, <2>6 DEF m
<1>5. ASSUME NEW step \in Range(steps) PROVE StepFormed(step, threads)
  BY DEF Range
<1> HIDE DEF steps, after, next
<1>6. Len(steps) = n /\ DOMAIN steps = 1 .. n
  BY DEF steps
<1>7. DOMAIN result \subseteq DOMAIN kern.mem
  BY <1>3
<1>8. /\ IsFiniteSet(kern.threads)
      /\ Len(kern.steps) \in Nat /\ DOMAIN kern.steps = 1 .. Len(kern.steps) /\ kern.exit = Len(kern.steps) + 1
      /\ DOMAIN kern.result \subseteq DOMAIN kern.mem
  BY ONLY <1>1, <1>6, <1>7, IsFiniteSet(threads), n \in Nat
<1>9. \A t \in kern.threads, i \in 0 .. Len(kern.steps) :
        /\ kern.next[t][i] \in i + 1 .. kern.exit
        /\ kern.next[t][i] # kern.exit => t \in DOMAIN kern.steps[kern.next[t][i]].act
        /\ \A j \in i + 1 .. kern.next[t][i] - 1 : t \notin DOMAIN kern.steps[j].act
  BY ONLY <1>1, <1>4, <1>6
<1>10. ASSUME NEW step \in Range(kern.steps)
       PROVE  /\ DOMAIN step.act \subseteq kern.threads
              /\ step.scope # "grid" /\ step.scope # "cas"
              /\ \A t \in DOMAIN step.act :
                   LET mine == step.act[t]
                   IN /\ Len(mine) \in Nat /\ DOMAIN mine = 1 .. Len(mine)
                      /\ step.writes[t] = {mine[k].to : k \in DOMAIN mine}
                      /\ step.reads[t] = UNION {Range(mine[k].expr.of) : k \in DOMAIN mine}
  <2>1. StepFormed(step, kern.threads)
    BY ONLY <1>1, <1>5, step \in Range(kern.steps)
  <2> QED BY ONLY <2>1 DEF StepFormed
<1> QED BY ONLY <1>8, <1>9, <1>10 DEF WellFormed

\* A copy is such a step.
LEMMA CopyFormed ==
  ASSUME NEW to, NEW from, NEW threads, DOMAIN to \subseteq threads
  PROVE  StepFormed(CopyStep(to, from), threads)
<1> DEFINE step == CopyStep(to, from)
<1>1. DOMAIN step.act = DOMAIN to /\ step.scope = "thread"
  BY DEF CopyStep
<1>2. ASSUME NEW t \in DOMAIN to
      PROVE  LET mine == step.act[t]
             IN /\ Len(mine) \in Nat /\ DOMAIN mine = 1 .. Len(mine)
                /\ step.writes[t] = {mine[n].to : n \in DOMAIN mine}
                /\ step.reads[t] = UNION {Range(mine[n].expr.of) : n \in DOMAIN mine}
  <2> DEFINE a == to[t] := Val(from[t])
             mine == step.act[t]
  <2>1. mine = <<a>> /\ step.writes[t] = {to[t]} /\ step.reads[t] = {from[t]}
    BY DEF CopyStep
  <2>2. a.to = to[t] /\ a.expr.of = <<from[t]>>
    BY DEF :=, Val, Sum, Op
  <2>3. Range(<<from[t]>>) = {from[t]}
    BY DEF Range
  <2> HIDE DEF a, step
  <2>4. Len(mine) = 1 /\ DOMAIN mine = {1} /\ mine[1] = a
    BY ONLY <2>1
  <2>5. {mine[n].to : n \in DOMAIN mine} = {to[t]} /\ UNION {Range(mine[n].expr.of) : n \in DOMAIN mine} = {from[t]}
    <3> HIDE DEF mine
    <3>1. {mine[n].to : n \in {1}} = {to[t]}
      BY ONLY <2>2, <2>4
    <3>2. UNION {Range(mine[n].expr.of) : n \in {1}} = {from[t]}
      BY ONLY <2>2, <2>3, <2>4
    <3> QED BY ONLY <2>4, <3>1, <3>2
  <2>6. Len(mine) \in Nat /\ DOMAIN mine = 1 .. Len(mine)
    BY ONLY <2>4
  <2> QED BY ONLY <2>1, <2>5, <2>6
<1> QED BY ONLY <1>1, <1>2, DOMAIN to \subseteq threads DEF StepFormed

\* So is a barrier.
LEMMA SyncFormed ==
  ASSUME NEW T
  PROVE  StepFormed(SyncStep(T), T)
<1> DEFINE step == SyncStep(T)
<1>1. DOMAIN step.act = T /\ step.scope = "block"
  BY DEF SyncStep
<1>2. ASSUME NEW t \in T
      PROVE  LET mine == step.act[t]
             IN /\ Len(mine) \in Nat /\ DOMAIN mine = 1 .. Len(mine)
                /\ step.writes[t] = {mine[n].to : n \in DOMAIN mine}
                /\ step.reads[t] = UNION {Range(mine[n].expr.of) : n \in DOMAIN mine}
  <2> DEFINE mine == step.act[t]
  <2>1. mine = <<>> /\ step.writes[t] = {} /\ step.reads[t] = {}
    BY DEF SyncStep
  <2>2. Len(mine) = 0 /\ DOMAIN mine = {} /\ 1 .. 0 = {}
    BY ONLY <2>1
  <2> HIDE DEF mine, step
  <2>3. {mine[n].to : n \in DOMAIN mine} = {} /\ UNION {Range(mine[n].expr.of) : n \in DOMAIN mine} = {}
    BY ONLY <2>2
  <2> QED BY ONLY <2>1, <2>2, <2>3 DEF mine
<1> QED BY ONLY <1>1, <1>2 DEF StepFormed

\* The grid is finite.
LEMMA CoverFinite ==
  ASSUME NEW rows \in Nat \ {0}, NEW cols \in Nat \ {0}, NEW TILE \in Nat \ {0}
  PROVE  IsFiniteSet(Cover(rows, cols, TILE))
<1>1. Ceil(cols, TILE) \in Nat /\ Ceil(rows, TILE) \in Nat
  BY CeilCovers
<1>2. Ceil(cols, TILE) * Ceil(rows, TILE) \in Nat /\ TILE * TILE \in Nat
  BY <1>1
<1>3. PICK a \in Nat, b \in Nat : a = Ceil(cols, TILE) * Ceil(rows, TILE) /\ b = TILE * TILE
  BY <1>2
<1>4. IsFiniteSet(0 .. a - 1) /\ IsFiniteSet(0 .. b - 1)
  <2>1. 0 \in Int /\ a - 1 \in Int /\ b - 1 \in Int
    BY ONLY a \in Nat, b \in Nat
  <2> QED BY ONLY <2>1, FS_Interval
<1>5. IsFiniteSet((0 .. a - 1) \X (0 .. b - 1))
  BY ONLY <1>4, FS_Product
<1> QED BY ONLY <1>3, <1>5 DEF Cover, Threads

\* A move of elements is well formed, wherever from and to are.
LEMMA MoveFormed ==
  ASSUME NEW M \in Nat \ {0}, NEW N \in Nat \ {0}, NEW TILE \in Nat \ {0}, NEW rows \in Nat \ {0}, NEW cols \in Nat \ {0},
         NEW from, NEW to, NEW kern, kern = Move(M, N, TILE, rows, cols, from, to)
  PROVE  WellFormed(kern)
<1> DEFINE T == Cover(rows, cols, TILE)
           target == [t \in OnMatrix(rows, cols, TILE) |-> Out(to[<<Row(t, cols, TILE), Col(t, cols, TILE)>>])]
           source == [t \in OnMatrix(rows, cols, TILE) |-> In(from[<<Row(t, cols, TILE), Col(t, cols, TILE)>>])]
<1>1. kern = Compile(T, TILE, Array("out", 0, M * N), Inputs(M * N), {}, Copy(target, source), cpu_transpose(M, N), {})
  BY DEF Move
<1>2. DOMAIN target \subseteq T
  BY DEF OnMatrix
<1>3. IsFiniteSet(T)
  BY ONLY rows \in Nat \ {0}, cols \in Nat \ {0}, TILE \in Nat \ {0}, CoverFinite
<1> HIDE DEF T, target, source
<1> DEFINE step == CopyStep(target, source)
           steps == <<step>>
<1>4. Fuse(Copy(target, source)) = steps
  BY ONLY CopyIs, FuseOne
<1>5. StepFormed(step, T)
  BY ONLY <1>2, CopyFormed
<1> HIDE DEF step
<1>6. Len(steps) = 1 /\ DOMAIN steps = 1 .. 1 /\ \A i \in 1 .. 1 : steps[i] = step
  OBVIOUS
<1> HIDE DEF steps
<1>7. DOMAIN cpu_transpose(M, N) \subseteq Array("out", 0, M * N)
  BY DEF cpu_transpose
<1>8. 1 \in Nat /\ Len(Fuse(Copy(target, source))) = 1 /\ DOMAIN Fuse(Copy(target, source)) = 1 .. 1
      /\ \A i \in 1 .. 1 : StepFormed(Fuse(Copy(target, source))[i], T)
  BY ONLY <1>4, <1>5, <1>6
<1> QED BY ONLY <1>1, <1>3, <1>7, <1>8, CompiledFormed

\* So is one through tiles.
LEMMA ThroughFormed ==
  ASSUME NEW M \in Nat \ {0}, NEW N \in Nat \ {0}, NEW TILE \in Nat \ {0}, NEW slots, NEW slot, NEW banked,
         NEW kern, kern = Through(M, N, TILE, slots, slot, banked)
  PROVE  WellFormed(kern)
<1> DEFINE T == Cover(M, N, TILE)
           own(t) == slot[<<Y(t, TILE), X(t, TILE)>>]
           mirrored(t) == slot[<<X(t, TILE), Y(t, TILE)>>]
           number(t) == Row(t, N, TILE) * N + Col(t, N, TILE)
           image(t) == MirrorRow(t, N, TILE) * M + MirrorCol(t, N, TILE)
           to == [t \in OnMatrix(M, N, TILE) |-> Cell("S", Blk(t), own(t))]
           from == [t \in OnMatrix(M, N, TILE) |-> In(number(t))]
           into == [t \in OnMirror(M, N, TILE) |-> Out(image(t))]
           out == [t \in OnMirror(M, N, TILE) |-> Cell("S", Blk(t), mirrored(t))]
           tiles == UNION {Array("S", b, slots) : b \in 0 .. Ceil(N, TILE) * Ceil(M, TILE) - 1}
           program == Copy(to, from) \o Sync(T) \o Copy(into, out)
           memory == Array("out", 0, M * N) \cup tiles
<1>1. kern = Compile(T, TILE, memory, Inputs(M * N), {}, program, cpu_transpose(M, N), banked)
  BY DEF Through
<1>2. DOMAIN to \subseteq T /\ DOMAIN into \subseteq T
  BY DEF OnMatrix, OnMirror
<1>3. DOMAIN cpu_transpose(M, N) \subseteq memory
  BY DEF cpu_transpose
<1>4. IsFiniteSet(T)
  BY ONLY M \in Nat \ {0}, N \in Nat \ {0}, TILE \in Nat \ {0}, CoverFinite
<1> HIDE DEF T, to, from, into, out, memory
<1> DEFINE load == CopyStep(to, from)
           sync == SyncStep(T)
           store == CopyStep(into, out)
           steps == <<load, sync, store>>
<1>5. Fuse(program) = steps
  <2>1. Copy(to, from) = <<load>> /\ Sync(T) = <<sync>> /\ Copy(into, out) = <<store>>
    BY ONLY CopyIs, SyncIs
  <2>2. program = steps
    BY ONLY <2>1, ThreeTogether
  <2>3. sync.scope = "block"
    BY DEF SyncStep
  <2> HIDE DEF program, load, sync, store
  <2>4. Fuse(steps) = steps
    BY ONLY <2>3, FuseThree
  <2> QED BY ONLY <2>2, <2>4
<1>6. StepFormed(load, T) /\ StepFormed(sync, T) /\ StepFormed(store, T)
  BY ONLY <1>2, CopyFormed, SyncFormed
<1> HIDE DEF load, sync, store, program
<1>7. Len(steps) = 3 /\ DOMAIN steps = 1 .. 3 /\ steps[1] = load /\ steps[2] = sync /\ steps[3] = store
  OBVIOUS
<1> HIDE DEF steps
<1>8. \A i \in 1 .. 3 : StepFormed(Fuse(program)[i], T)
  <2>1. \A i \in 1 .. 3 : i = 1 \/ i = 2 \/ i = 3
    OBVIOUS
  <2> QED BY ONLY <1>5, <1>6, <1>7, <2>1
<1>9. 3 \in Nat /\ Len(Fuse(program)) = 3 /\ DOMAIN Fuse(program) = 1 .. 3
  BY ONLY <1>5, <1>7
<1> QED BY ONLY <1>1, <1>3, <1>4, <1>8, <1>9, CompiledFormed

\* The transpositions of every shape are kernels as the assumption on the
\* constant Kernel wants them.
THEOREM TransposeFormed ==
  ASSUME NEW kern, TransposeOf(kern)
  PROVE  WellFormed(kern)
<1>1. PICK M \in Nat \ {0}, N \in Nat \ {0}, TILE \in Nat \ {0} :
        \/ kern = device_transpose_v0(M, N, TILE) \/ kern = device_transpose_v1(M, N, TILE)
        \/ kern = device_transpose_v2(M, N, TILE) \/ kern = device_transpose_v3(M, N, TILE)
        \/ kern = device_transpose_v4(M, N, TILE) \/ kern = device_transpose_v5(M, N, TILE)
  BY DEF TransposeOf
<1>2. CASE kern = device_transpose_v0(M, N, TILE)
  <2>1. kern = Move(M, N, TILE, M, N, RowMajor(M, N), Transposed(M, N))
    BY ONLY <1>2 DEF device_transpose_v0
  <2> QED BY ONLY <1>1, <2>1, MoveFormed
<1>3. CASE kern = device_transpose_v1(M, N, TILE) \/ kern = device_transpose_v2(M, N, TILE)
  <2>1. kern = Move(M, N, TILE, N, M, Transposed(N, M), RowMajor(N, M))
    BY ONLY <1>3 DEF device_transpose_v1, device_transpose_v2
  <2> QED BY ONLY <1>1, <2>1, MoveFormed
<1>4. CASE \/ kern = device_transpose_v3(M, N, TILE) \/ kern = device_transpose_v4(M, N, TILE)
           \/ kern = device_transpose_v5(M, N, TILE)
  <2>1. \E slots, slot, banked : kern = Through(M, N, TILE, slots, slot, banked)
    BY ONLY <1>4 DEF device_transpose_v3, device_transpose_v4, device_transpose_v5
  <2> QED BY ONLY <1>1, <2>1, ThroughFormed
<1> QED BY ONLY <1>1, <1>2, <1>3, <1>4

\* Whatever its shape and its tile, a matrix is transposed without a race or a
\* conflict of banks, and every element arrives at its mirror image.
THEOREM TransposeCorrect ==
  Spec => [](TransposeOf(K) => TypeOK /\ RaceFree /\ NoBankConflict /\ ResultRight)
<1>1. TransposeOf(K) => Disciplined(K) /\ RightInOrder(K) /\ BankFree(K)
  BY ONLY TransposesRight
<1>2. TransposeOf(K) => Declared(K) /\ Separated(K)
  BY ONLY <1>1 DEF Disciplined
<1>3. Spec => [](Declared(K) => TypeOK) /\ [](Separated(K) => RaceFree) /\ [](BankFree(K) => NoBankConflict)
              /\ [](Disciplined(K) /\ RightInOrder(K) => ResultRight)
  BY TypeCorrect, NoRace, BanksFree, ResultsRight
<1> QED BY <1>1, <1>2, <1>3, PTL
=============================================================================
