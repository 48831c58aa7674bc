--------------------------- MODULE MultistageGemm ---------------------------
(***************************************************************************)
(* One block of the multi-stage GEMM of cute_06 v2.  Its copies name no    *)
(* atom, so they are CuTe's default, synchronous ones: a thread's share is *)
(* in its slot when cute::copy returns and cp_async_wait has nothing to    *)
(* wait for.  Unlike matmul v5, an iteration writes the next slot first    *)
(* and meets the other threads only afterwards, so nothing separates the   *)
(* write into the slot the iteration before read from the threads that     *)
(* still read it.                                                          *)
(***************************************************************************)
EXTENDS Integers

CONSTANTS STAGES,   \* slots, each one k tile of A and B
          Thread,   \* threads of the block
          NK        \* nk, the k tiles, at least STAGES - 1 of them

Slot == 0 .. STAGES - 1
Unwritten == -1

VARIABLES smem,         \* smem[slot][t]: the k tile whose share by t is there
          pc,           \* where each thread is
          k_tile,       \* the tile the prologue copies next
          k,            \* the iteration
          k_pipe_write, \* the slot written next
          k_pipe_read   \* the slot read next

vars == <<smem, pc, k_tile, k, k_pipe_write, k_pipe_read>>

Init ==
  /\ smem = [s \in Slot |-> [t \in Thread |-> Unwritten]]
  /\ pc = [t \in Thread |-> "prologue"]
  /\ k_tile = [t \in Thread |-> 0]
  /\ k = [t \in Thread |-> 0]
  /\ k_pipe_write = [t \in Thread |-> STAGES - 1]
  /\ k_pipe_read = [t \in Thread |-> 0]

Advance(slot, t) == [slot EXCEPT ![t] = (@ + 1) % STAGES]

\* t writes its share of a k tile into slot s.
CopyShare(t, s, tile) == smem' = [smem EXCEPT ![s][t] = tile]

Prologue(t) ==
  /\ pc[t] = "prologue"
  /\ CopyShare(t, k_tile[t], k_tile[t])
  /\ k_tile' = [k_tile EXCEPT ![t] = @ + 1]
  /\ pc' = [pc EXCEPT ![t] = IF k_tile[t] + 1 = STAGES - 1 THEN "prefetch" ELSE "prologue"]
  /\ UNCHANGED <<k, k_pipe_write, k_pipe_read>>

\* k_next, which the tail clamps to the last tile.
K_next(t) == IF k[t] + STAGES - 1 >= NK THEN NK - 1 ELSE k[t] + STAGES - 1

Prefetch(t) ==
  /\ pc[t] = "prefetch" /\ k[t] < NK
  /\ IF K_next(t) > k[t]
     THEN CopyShare(t, k_pipe_write[t], K_next(t))
     ELSE UNCHANGED smem
  /\ k_pipe_write' = Advance(k_pipe_write, t)
  /\ pc' = [pc EXCEPT ![t] = "sync"]
  /\ UNCHANGED <<k_tile, k, k_pipe_read>>

Sync ==
  /\ \A t \in Thread : pc[t] = "sync"
  /\ pc' = [t \in Thread |-> "compute"]
  /\ UNCHANGED <<smem, k_tile, k, k_pipe_write, k_pipe_read>>

\* ldmatrix and mma are under way while pc[t] = "compute"; here they end.
Compute(t) ==
  /\ pc[t] = "compute"
  /\ pc' = [pc EXCEPT ![t] = "prefetch"]
  /\ k' = [k EXCEPT ![t] = @ + 1]
  /\ k_pipe_read' = Advance(k_pipe_read, t)
  /\ UNCHANGED <<smem, k_tile, k_pipe_write>>

ThreadStep(t) == Prologue(t) \/ Prefetch(t) \/ Compute(t)

Next == Sync \/ \E t \in Thread : ThreadStep(t)

Spec == Init /\ [][Next]_vars

-----------------------------------------------------------------------------
(* Properties *)

\* Slot s holds the shares of all threads of k tile tile.
SlotHolds(s, tile) == \A t \in Thread : smem[s][t] = tile

\* The comment at the end of the loop says that the next write need not wait for
\* the readers: while any thread computes, the slot it reads holds all of its k tile.
ReadsRight == \A t \in Thread : pc[t] = "compute" => SlotHolds(k_pipe_read[t], k[t])
=============================================================================
