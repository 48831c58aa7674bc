--------------------------- MODULE StagedPipeline ---------------------------
(***************************************************************************)
(* What a multi-stage load pipeline promises: the loads of each issuer go  *)
(* in order into a ring of STAGES slots, an issue waits until every reader *)
(* is done with the load that used the slot before, and a reader reads     *)
(* loads in order, each only when the parts of all issuers have landed.    *)
(***************************************************************************)
EXTENDS Integers

CONSTANTS STAGES,   \* slots of the ring
          Issuers,  \* who issues a part of every load
          Readers,  \* who reads every load
          LOADS     \* loads issued in all

VARIABLES issued,   \* per issuer: loads issued so far
          landed,   \* <<i, k>>: the part of issuer i of load k is in its slot
          consumed  \* per reader: loads it is done with

pipeVars == <<issued, landed, consumed>>

PipeInit ==
  /\ issued = [i \in Issuers |-> 0]
  /\ landed = {}
  /\ consumed = [r \in Readers |-> 0]

Issue(i) ==
  /\ issued[i] < LOADS
  /\ \A r \in Readers : issued[i] - consumed[r] < STAGES
  /\ issued' = [issued EXCEPT ![i] = @ + 1]
  /\ UNCHANGED <<landed, consumed>>

Land(i, k) ==
  /\ k < issued[i] /\ <<i, k>> \notin landed
  /\ landed' = landed \cup {<<i, k>>}
  /\ UNCHANGED <<issued, consumed>>

Consume(r) ==
  /\ \A i \in Issuers : <<i, consumed[r]>> \in landed
  /\ consumed' = [consumed EXCEPT ![r] = @ + 1]
  /\ UNCHANGED <<issued, landed>>

PipeNext ==
  \/ \E i \in Issuers : Issue(i) \/ (\E k \in 0 .. LOADS - 1 : Land(i, k))
  \/ \E r \in Readers : Consume(r)

PipeSpec == PipeInit /\ [][PipeNext]_pipeVars
=============================================================================
