------------------------------ MODULE CpAsync ------------------------------
(***************************************************************************)
(* cp.async as the Ampere-style kernels use it.  Each thread copies its    *)
(* share of a k tile into one of STAGES shared-memory slots and closes the *)
(* copies into a commit group.  Groups land in any order; a thread can     *)
(* wait until all but its newest n groups have landed, and learns nothing  *)
(* about the copies of the other threads.                                  *)
(***************************************************************************)
EXTENDS Integers

CONSTANTS STAGES,   \* slots, each one k tile of A and B
          Thread    \* threads of the block

Slot == 0 .. STAGES - 1
Torn == -1

VARIABLES smem,       \* smem[slot][t]: the k tile whose share by t is there, or Torn
          inflight,   \* commit groups that have not landed
          committed   \* per thread: groups committed so far

copyVars == <<smem, inflight, committed>>

CopyInit ==
  /\ smem = [s \in Slot |-> [t \in Thread |-> Torn]]
  /\ inflight = {}
  /\ committed = [t \in Thread |-> 0]

\* t starts to copy its share of k tile k into slot s and commits the group.
IssueCopy(t, s, k) ==
  /\ smem' = [smem EXCEPT ![s][t] = Torn]
  /\ inflight' = inflight \cup {[by |-> t, slot |-> s, tile |-> k, group |-> committed[t]]}
  /\ committed' = [committed EXCEPT ![t] = @ + 1]

CommitEmpty(t) ==
  /\ committed' = [committed EXCEPT ![t] = @ + 1]
  /\ UNCHANGED <<smem, inflight>>

LandCopy(c) ==
  /\ smem' = [smem EXCEPT ![c.slot][c.by] = c.tile]
  /\ inflight' = inflight \ {c}
  /\ UNCHANGED committed

\* Mutant: one group more may still be on its way.
WaitedForOneLess(t, n) == \A c \in inflight : c.by = t => c.group >= committed[t] - n - 1

\* wait_group n returns: at most t's newest n groups are on their way.
WaitedFor(t, n) == \A c \in inflight : c.by = t => c.group >= committed[t] - n

\* Slot s holds the whole of k tile k, the shares of all threads.
SlotHolds(s, k) == \A t \in Thread : smem[s][t] = k
=============================================================================
