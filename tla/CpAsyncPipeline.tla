-------------------------- MODULE CpAsyncPipeline --------------------------
(***************************************************************************)
(* One block of matmul v5: a ring of STAGES slots filled by cp.async.  In  *)
(* each iteration a thread waits for its own copies of this k tile, meets  *)
(* the others at __syncthreads, starts the copy STAGES - 1 tiles ahead     *)
(* into the slot the iteration before read, and computes.  One barrier per *)
(* iteration makes the data visible and frees the slot.                    *)
(***************************************************************************)
EXTENDS CpAsync

CONSTANT NK   \* num_k_tiles

\* wait_group takes STAGES - 2, and the prologue issues STAGES - 1 tiles unasked.
ASSUME CpAsyncAssumption ==
  STAGES \in Nat /\ STAGES >= 2 /\ NK \in Nat /\ NK >= STAGES - 1

VARIABLES pc,   \* where each thread is
          kt    \* the k tile each thread is at

vars == <<copyVars, pc, kt>>

Init ==
  /\ CopyInit
  /\ pc = [t \in Thread |-> "prologue"]
  /\ kt = [t \in Thread |-> 0]

Prologue(t) ==
  /\ pc[t] = "prologue"
  /\ IssueCopy(t, committed[t], committed[t])
  /\ pc' = [pc EXCEPT ![t] = IF committed[t] + 1 = STAGES - 1 THEN "wait" ELSE "prologue"]
  /\ UNCHANGED kt

Wait(t) ==
  /\ pc[t] = "wait" /\ kt[t] < NK
  /\ WaitedFor(t, STAGES - 2)
  /\ pc' = [pc EXCEPT ![t] = "sync"]
  /\ UNCHANGED <<copyVars, kt>>

\* Mutant: the barrier is gone, each thread trusts its own wait.
SyncAlone ==
  /\ \E t \in Thread : pc[t] = "sync" /\ pc' = [pc EXCEPT ![t] = "prefetch"]
  /\ UNCHANGED <<copyVars, kt>>

\* __syncthreads: nobody leaves before everybody has come.
Sync ==
  /\ \A t \in Thread : pc[t] = "sync"
  /\ pc' = [t \in Thread |-> "prefetch"]
  /\ UNCHANGED <<copyVars, kt>>

Next_tile(t) == kt[t] + STAGES - 1

\* Mutant: the tail commits nothing, so the group count falls behind.
PrefetchNoEmptyGroup(t) ==
  /\ pc[t] = "prefetch"
  /\ IF Next_tile(t) < NK
     THEN IssueCopy(t, Next_tile(t) % STAGES, Next_tile(t))
     ELSE UNCHANGED copyVars
  /\ pc' = [pc EXCEPT ![t] = "compute"]
  /\ UNCHANGED kt

\* Mutant: the tail is not recognised and goes on copying beyond the matrix.
PrefetchBeyond(t) ==
  /\ pc[t] = "prefetch"
  /\ IssueCopy(t, Next_tile(t) % STAGES, Next_tile(t))
  /\ pc' = [pc EXCEPT ![t] = "compute"]
  /\ UNCHANGED kt

\* The slot of the next tile is the one the iteration before computed from.
Prefetch(t) ==
  /\ pc[t] = "prefetch"
  /\ IF Next_tile(t) < NK
     THEN IssueCopy(t, Next_tile(t) % STAGES, Next_tile(t))
     ELSE CommitEmpty(t)
  /\ pc' = [pc EXCEPT ![t] = "compute"]
  /\ UNCHANGED kt

\* compute(kt % STAGES) is under way while pc[t] = "compute"; here it ends.
Compute(t) ==
  /\ pc[t] = "compute"
  /\ pc' = [pc EXCEPT ![t] = "wait"]
  /\ kt' = [kt EXCEPT ![t] = @ + 1]
  /\ UNCHANGED copyVars

ThreadStep(t) == Prologue(t) \/ Wait(t) \/ Prefetch(t) \/ Compute(t)

Land == (\E c \in inflight : LandCopy(c)) /\ UNCHANGED <<pc, kt>>

Next == Sync \/ Land \/ \E t \in Thread : ThreadStep(t)

Spec == Init /\ [][Next]_vars

-----------------------------------------------------------------------------
(* Properties *)

Min2(a, b) == IF a < b THEN a ELSE b

\* Tiles t has issued: the groups it committed, the empty ones left out.
IssuedBy(t) == Min2(committed[t], NK)

\* The shape of every variable.
TypeOK ==
  /\ smem \in [Slot -> [Thread -> {Torn} \cup 0 .. NK - 1]]
  /\ inflight \subseteq [by : Thread, slot : Slot, tile : 0 .. NK - 1, group : 0 .. NK - 1]
  /\ committed \in [Thread -> 0 .. NK + STAGES - 1]
  /\ pc \in [Thread -> {"prologue", "wait", "sync", "prefetch", "compute"}]
  /\ kt \in [Thread -> 0 .. NK]

\* While any thread computes k tile kt, the slot it reads holds the shares of all
\* threads of exactly that tile: all landed, none overwritten.
ReadsRight == \A t \in Thread : pc[t] = "compute" => SlotHolds(kt[t] % STAGES, kt[t])

\* The kernel implements the abstract pipeline, every thread issuer and reader.
Pipe == INSTANCE StagedPipeline WITH
          Issuers <- Thread,
          Readers <- Thread,
          LOADS <- NK,
          issued <- [t \in Thread |-> IssuedBy(t)],
          landed <- {p \in Thread \X (0 .. NK - 1) :
                       p[2] < IssuedBy(p[1]) /\ \A c \in inflight : <<c.by, c.tile>> # p},
          consumed <- kt
ImplementsPipeline == Pipe!PipeSpec

-----------------------------------------------------------------------------
(* Why it holds *)

\* Barriers a thread has passed: at any moment the same for all threads.
Rounds(t) == IF pc[t] \in {"prefetch", "compute"} THEN kt[t] + 1 ELSE kt[t]
Lockstep == \A t, u \in Thread : Rounds(t) = Rounds(u)

\* How many groups a thread has committed is known from where it is.
GroupCount == \A t \in Thread :
  /\ pc[t] = "prologue" => kt[t] = 0 /\ committed[t] < STAGES - 1
  /\ pc[t] = "compute" => committed[t] = kt[t] + STAGES
  /\ pc[t] \in {"wait", "sync", "prefetch"} => committed[t] = kt[t] + STAGES - 1
  /\ pc[t] \in {"sync", "prefetch", "compute"} => kt[t] < NK

\* A group is numbered like its tile, its slot is the tile's, and it is not older
\* than the tile its thread is at, or, once waited for, younger.
InFlight == \A c \in inflight :
  /\ c.group = c.tile /\ c.slot = c.tile % STAGES
  /\ c.tile < committed[c.by]
  /\ c.tile >= kt[c.by]
  /\ pc[c.by] \in {"sync", "prefetch", "compute"} => c.tile > kt[c.by]

\* The newest STAGES tiles of a thread are in their slots or on their way there.
SlotsKept == \A t \in Thread : \A k \in 0 .. NK - 1 :
  k < committed[t] /\ committed[t] <= k + STAGES =>
    smem[k % STAGES][t] = k \/ \E c \in inflight : c.by = t /\ c.tile = k

\* The inductive invariant.
IndInv == TypeOK /\ Lockstep /\ GroupCount /\ InFlight /\ SlotsKept
=============================================================================
