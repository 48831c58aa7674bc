------------------------------ MODULE MBarrier ------------------------------
(***************************************************************************)
(* The shared-memory mbarrier of sm_90 as the kernels use it: a phase      *)
(* completes when count arrivals have come and the bytes they announced    *)
(* have landed; the next phase then starts with the same count.            *)
(***************************************************************************)
EXTENDS Integers

\* init(bar, count): phase 0 is under way.
FreshBarrier(count) == [count |-> count, pending |-> count, tx |-> 0, phase |-> 0]

Settle(b) ==
  IF b.pending = 0 /\ b.tx = 0
  THEN [b EXCEPT !.phase = 1 - @, !.pending = b.count]
  ELSE b

Arrive(b) == Settle([b EXCEPT !.pending = @ - 1])

ArriveAndExpectTx(b, units) == Settle([b EXCEPT !.pending = @ - 1, !.tx = @ + units])

CompleteTx(b, units) == Settle([b EXCEPT !.tx = @ - units])

\* wait(bar, parity) returns: the phase of that parity is the last one completed.
Passed(b, parity) == b.phase # parity
=============================================================================
