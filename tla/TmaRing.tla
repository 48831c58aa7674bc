------------------------------ MODULE TmaRing ------------------------------
(***************************************************************************)
(* The ring of shared-memory slots the Hopper kernels load k tiles into:   *)
(* STAGES slots, each with the barrier its loads complete on (producer)    *)
(* and the barrier its readers arrive at (consumer), and the TMA engine    *)
(* that lands the copies of an issued load one by one and in any order.    *)
(***************************************************************************)
EXTENDS MBarrier, FiniteSets

CONSTANT STAGES   \* slots of the ring

ASSUME StagesAssumption == STAGES \in Nat \ {0}

Stage == 0 .. STAGES - 1
Operand == {"A", "B"}

\* What an operand's part of a slot holds: the data of k tile k of an output
\* tile, or a load that is still on its way.
Loaded(tile, k) == <<"loaded", tile, k>>
Torn == <<"torn">>

VARIABLES producer,   \* producer_mbar[stage]
          consumer,   \* consumer_mbar[stage]
          smem,       \* contents of each slot, by operand
          inflight    \* TMA copies issued and not yet landed

ringVars == <<producer, consumer, smem, inflight>>

\* PipelineState: the n-th use of the ring is of slot n % STAGES, and the parity
\* to wait for flips each time the ring wraps.
Index(n) == n % STAGES
Phase(n) == (n \div STAGES) % 2

FreshProducers == [s \in Stage |-> FreshBarrier(1)]
FreshConsumers(arrivals) == [s \in Stage |-> FreshBarrier(arrivals)]

RingInit(arrivals) ==
  /\ producer = FreshProducers
  /\ consumer = FreshConsumers(arrivals)
  /\ smem = [s \in Stage |-> [o \in Operand |-> Torn]]
  /\ inflight = {}

\* Mutant: the barrier is told of the bytes of one operand only.
IssueLoadHalfTx(s, tile, k) ==
  /\ producer' = [producer EXCEPT ![s] = ArriveAndExpectTx(@, 1)]
  /\ inflight' = inflight \cup {[slot |-> s, op |-> o, data |-> Loaded(tile, k)] : o \in Operand}
  /\ smem' = [smem EXCEPT ![s] = [o \in Operand |-> Torn]]

\* arrive_and_expect_tx with the bytes of both operands, then the two copies.
IssueLoad(s, tile, k) ==
  /\ producer' = [producer EXCEPT ![s] = ArriveAndExpectTx(@, Cardinality(Operand))]
  /\ inflight' = inflight \cup {[slot |-> s, op |-> o, data |-> Loaded(tile, k)] : o \in Operand}
  /\ smem' = [smem EXCEPT ![s] = [o \in Operand |-> Torn]]

\* A copy lands: its data is there and its bytes count as transferred.
Land(c) ==
  /\ smem' = [smem EXCEPT ![c.slot][c.op] = c.data]
  /\ inflight' = inflight \ {c}
  /\ producer' = [producer EXCEPT ![c.slot] = CompleteTx(@, 1)]
  /\ UNCHANGED consumer

\* Mutant: the issuer waits for the parity of the first round every time.
FreeUnflipped(n) == Passed(consumer[Index(n)], 0)

\* The waits a reader and the issuer do for the n-th use of the ring.
Full(n) == Passed(producer[Index(n)], Phase(n))
Free(n) == Passed(consumer[Index(n)], Phase(n))

ArriveConsumer(n) == consumer' = [consumer EXCEPT ![Index(n)] = Arrive(@)]

Holds(n, tile, k) == \A o \in Operand : smem[Index(n)][o] = Loaded(tile, k)

\* A phase under way misses an arrival or, for a producer barrier, bytes.
RingType(arrivals, tiles, ks) ==
  /\ \A s \in Stage :
       /\ producer[s] \in [count : {1}, pending : {0, 1}, tx : 0 .. Cardinality(Operand), phase : {0, 1}]
       /\ producer[s].pending = 0 => producer[s].tx > 0
       /\ consumer[s] \in [count : {arrivals}, pending : 1 .. arrivals, tx : {0}, phase : {0, 1}]
       /\ \A o \in Operand : smem[s][o] \in {Torn} \cup {Loaded(t, k) : t \in tiles, k \in ks}
  /\ inflight \subseteq [slot : Stage, op : Operand, data : {Loaded(t, k) : t \in tiles, k \in ks}]
=============================================================================
