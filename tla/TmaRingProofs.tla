---------------------------- MODULE TmaRingProofs ----------------------------
(***************************************************************************)
(* What the steps of the Hopper kernels do to their ring of slots, for any *)
(* number of slots and readers.  The kernels with one output tile and with *)
(* many rest on the same lemmas.                                           *)
(***************************************************************************)
EXTENDS TmaRing, FiniteSetTheorems, TLAPS

\* Division with remainder.
LEMMA DivMod ==
  ASSUME NEW n \in Nat, NEW m \in Nat \ {0}
  PROVE  /\ n % m \in 0 .. m - 1 /\ n \div m \in Nat
         /\ n = m * (n \div m) + (n % m)
BY Z3

\* Nothing is left to divide below the divisor.
LEMMA SmallMod ==
  ASSUME NEW n \in Nat, NEW m \in Nat \ {0}, n < m
  PROVE  n % m = n
BY Z3

\* Two multiples of m that differ by less than m are the same.
LEMMA MultiplesApart ==
  ASSUME NEW m \in Nat \ {0}, NEW p \in Int, NEW q \in Int, NEW d \in Int,
         m * p = m * q + d, -m < d, d < m
  PROVE  p = q
BY SMTT(30)

\* Quotient and remainder are the only way to write n so.
LEMMA DivModUnique ==
  ASSUME NEW m \in Nat \ {0}, NEW q \in Nat, NEW r \in 0 .. m - 1
  PROVE  /\ m * q + r \in Nat
         /\ (m * q + r) \div m = q /\ (m * q + r) % m = r
BY SMTT(30)

\* Numbers less than m apart have different remainders.
LEMMA ModsDiffer ==
  ASSUME NEW m \in Nat \ {0}, NEW a \in Nat, NEW b \in Nat, a < b, b < a + m
  PROVE  a % m # b % m
<1> DEFINE qa == a \div m
           qb == b \div m
<1>1. /\ a = m * qa + (a % m) /\ b = m * qb + (b % m)
      /\ qa \in Int /\ qb \in Int /\ a % m \in Int
  BY DivMod
<1>2. SUFFICES ASSUME a % m = b % m PROVE FALSE
  OBVIOUS
<1> HIDE DEF qa, qb
<1>3. m * qb = m * qa + (b - a)
  BY <1>1, <1>2
<1>4. qb = qa
  BY <1>1, <1>3, MultiplesApart
<1>5. m * qa \in Int
  BY <1>1
<1> QED BY <1>3, <1>4, <1>5

\* A copy of load n of output tile t.
Part(t, n, o) == [slot |-> Index(n), op |-> o, data |-> Loaded(t, n)]
Moving(t, n) == {o \in Operand : Part(t, n, o) \in inflight}

\* The readers in R that are done with load n, where done counts each one's loads.
Arrived(R, done, n) == {r \in R : done[r] > n}

\* A barrier with its fields written out.
Bar(count, pending, tx, phase) == [count |-> count, pending |-> pending, tx |-> tx, phase |-> phase]

\* Load n of output tile t is the last one its slot was used for.
ProducerAfter(t, n) ==
  IF Moving(t, n) = {} THEN Bar(1, 1, 0, 1 - Phase(n))
                       ELSE Bar(1, 0, Cardinality(Moving(t, n)), Phase(n))
ConsumerAfter(R, done, n) ==
  LET arrived == Arrived(R, done, n)
  IN  IF arrived = R THEN Bar(Cardinality(R), Cardinality(R), 0, 1 - Phase(n))
                     ELSE Bar(Cardinality(R), Cardinality(R) - Cardinality(arrived), 0, Phase(n))
SlotAfter(R, t, done, n) ==
  /\ \A o \in Operand : o \notin Moving(t, n) => smem[Index(n)][o] = Loaded(t, n)
  /\ producer[Index(n)] = ProducerAfter(t, n)
  /\ consumer[Index(n)] = ConsumerAfter(R, done, n)

\* The newest STAGES of i loads.
Newest(i) == {n \in 0 .. i - 1 : i - n <= STAGES}

RingShape ==
  /\ DOMAIN producer = Stage /\ DOMAIN consumer = Stage
  /\ DOMAIN smem = Stage /\ \A s \in Stage : DOMAIN smem[s] = Operand

\* The ring after i loads of output tile t of which the readers have done with some.
\* Each slot is as the last load into it left it, ...
SlotsUsed(R, t, i, done) == \A n \in Newest(i) : SlotAfter(R, t, done, n)
\* ... or as it was initialised; ...
SlotsFresh(R, i) ==
  \A s \in Stage : s >= i =>
    producer[s] = FreshBarrier(1) /\ consumer[s] = FreshBarrier(Cardinality(R))
\* ... a copy under way is of one of the newest loads and no reader is past it; ...
CopiesNewest(R, t, i, done) ==
  \A c \in inflight : \E n \in Newest(i), o \in Operand :
    c = Part(t, n, o) /\ \A r \in R : done[r] <= n
\* ... and no reader is a whole ring behind, or ahead of the loads.
ReadersInside(R, i, done) == \A r \in R : i - STAGES <= done[r] /\ done[r] <= i

RingInv(R, t, i, done) ==
  /\ RingShape
  /\ SlotsUsed(R, t, i, done) /\ SlotsFresh(R, i)
  /\ CopiesNewest(R, t, i, done) /\ ReadersInside(R, i, done)

\* Load n is in its slot: it was issued and both of its copies have landed.
Landed(t, i, n) == n < i /\ Moving(t, n) = {}

(***************************************************************************)
(* Slots and phases.                                                       *)
(***************************************************************************)

\* The n-th use of the ring is of one of its slots, and of slot n in round zero.
LEMMA UseOfRing ==
  ASSUME NEW n \in Nat
  PROVE  /\ Index(n) \in Stage /\ Phase(n) \in {0, 1}
         /\ n < STAGES => Index(n) = n /\ Phase(n) = 0
<1>1. STAGES \in Nat \ {0}
  BY StagesAssumption
<1>2. n % STAGES \in 0 .. STAGES - 1 /\ n \div STAGES \in Nat
      /\ n = STAGES * (n \div STAGES) + (n % STAGES)
  BY <1>1, DivMod
<1>3. (n \div STAGES) % 2 \in 0 .. 1
  BY <1>2, DivMod
<1>4. ASSUME n < STAGES PROVE n % STAGES = n /\ n \div STAGES = 0
  <2>1. n % STAGES = n
    BY <1>1, <1>4, SmallMod
  <2>2. STAGES * (n \div STAGES) = STAGES * 0 + 0
    BY <1>1, <1>2, <2>1
  <2> QED BY <1>1, <1>2, <2>1, <2>2, MultiplesApart
<1>5. 0 % 2 = 0
  BY SmallMod
<1> QED BY <1>2, <1>3, <1>4, <1>5 DEF Index, Phase, Stage

\* Uses that are less than a round apart have slots of their own.
LEMMA SlotsApart ==
  ASSUME NEW a \in Nat, NEW b \in Nat, a # b, a - b < STAGES, b - a < STAGES
  PROVE  Index(a) # Index(b)
<1>1. STAGES \in Nat \ {0}
  BY StagesAssumption
<1>2. a < b /\ b < a + STAGES => a % STAGES # b % STAGES
  BY <1>1, ModsDiffer
<1>3. b < a /\ a < b + STAGES => b % STAGES # a % STAGES
  BY <1>1, ModsDiffer
<1> QED BY <1>1, <1>2, <1>3 DEF Index

\* One round later the slot is the same and the parity the other one.
LEMMA NextRound ==
  ASSUME NEW n \in Nat
  PROVE  Index(n + STAGES) = Index(n) /\ Phase(n + STAGES) = 1 - Phase(n)
<1> DEFINE q == n \div STAGES
           r == n % STAGES
<1>1. STAGES \in Nat \ {0}
  BY StagesAssumption
<1>2. r \in 0 .. STAGES - 1 /\ q \in Nat /\ n = STAGES * q + r
  BY <1>1, DivMod
<1>3. q + 1 \in Nat /\ n + STAGES = STAGES * (q + 1) + r
  BY <1>1, <1>2
<1>4. Index(n + STAGES) = r /\ Phase(n + STAGES) = (q + 1) % 2
  <2> HIDE DEF q, r
  <2>1. (STAGES * (q + 1) + r) \div STAGES = q + 1 /\ (STAGES * (q + 1) + r) % STAGES = r
    BY <1>1, <1>2, <1>3, DivModUnique
  <2> QED BY <1>3, <2>1 DEF Index, Phase
<1>5. (q + 1) % 2 = 1 - (q % 2)
  <2> HIDE DEF q
  <2> QED BY <1>2, Z3
<1>6. Index(n) = r /\ Phase(n) = q % 2
  BY DEF Index, Phase
<1> HIDE DEF q, r
<1> QED BY <1>2, <1>4, <1>5, <1>6

\* Once there are as many loads as slots, one of the newest is in each slot.
LEMMA EverySlotUsed ==
  ASSUME NEW i \in Nat, NEW s \in Stage, s < i
  PROVE  \E n \in Newest(i) : Index(n) = s
<1> DEFINE m == i - 1 - s
           q == m \div STAGES
           n == STAGES * q + s
<1>1. STAGES \in Nat \ {0} /\ s \in 0 .. STAGES - 1 /\ m \in Nat
  BY StagesAssumption DEF Stage
<1>2. m % STAGES \in 0 .. STAGES - 1 /\ q \in Nat /\ m = STAGES * q + (m % STAGES)
  BY <1>1, DivMod
<1>3. n \in Nat /\ n % STAGES = s
  BY <1>1, <1>2, DivModUnique
<1>4. n <= i - 1 /\ i - n <= STAGES
  BY <1>1, <1>2
<1> QED BY <1>3, <1>4 DEF Newest, Index

(***************************************************************************)
(* The steps of a barrier and of the ring.                                 *)
(***************************************************************************)

\* What completing a phase makes of a barrier.
LEMMA Settling ==
  ASSUME NEW c \in Int, NEW p \in Int, NEW x \in Int, NEW f \in Int
  PROVE  Settle(Bar(c, p, x, f)) = IF p = 0 /\ x = 0 THEN Bar(c, c, x, 1 - f) ELSE Bar(c, p, x, f)
<1>1. [Bar(c, p, x, f) EXCEPT !.phase = 1 - f] = Bar(c, p, x, 1 - f)
  BY DEF Bar
<1>2. [Bar(c, p, x, 1 - f) EXCEPT !.pending = c] = Bar(c, c, x, 1 - f)
  BY DEF Bar
<1>3. [Bar(c, p, x, f) EXCEPT !.phase = 1 - f, !.pending = c] = Bar(c, c, x, 1 - f)
  BY <1>1, <1>2
<1>4. /\ Bar(c, p, x, f).count = c /\ Bar(c, p, x, f).pending = p
      /\ Bar(c, p, x, f).tx = x /\ Bar(c, p, x, f).phase = f
  BY DEF Bar
<1> QED BY <1>3, <1>4 DEF Settle

\* An arrival, an arrival that announces bytes, and bytes that have landed.
LEMMA BarrierSteps ==
  ASSUME NEW c \in Int, NEW p \in Int, NEW x \in Int, NEW f \in Int, NEW u \in Int
  PROVE  /\ Arrive(Bar(c, p, x, f)) = Settle(Bar(c, p - 1, x, f))
         /\ ArriveAndExpectTx(Bar(c, p, x, f), u) = Settle(Bar(c, p - 1, x + u, f))
         /\ CompleteTx(Bar(c, p, x, f), u) = Settle(Bar(c, p, x - u, f))
<1>1. [Bar(c, p, x, f) EXCEPT !.pending = p - 1] = Bar(c, p - 1, x, f)
  BY DEF Bar
<1>2. [Bar(c, p - 1, x, f) EXCEPT !.tx = x + u] = Bar(c, p - 1, x + u, f)
  BY DEF Bar
<1>3. [Bar(c, p, x, f) EXCEPT !.pending = p - 1, !.tx = x + u] = Bar(c, p - 1, x + u, f)
  BY <1>1, <1>2
<1>4. [Bar(c, p, x, f) EXCEPT !.tx = x - u] = Bar(c, p, x - u, f)
  BY DEF Bar
<1>5. Bar(c, p, x, f).pending = p /\ Bar(c, p, x, f).tx = x
  BY DEF Bar
<1> QED BY <1>1, <1>3, <1>4, <1>5 DEF Arrive, ArriveAndExpectTx, CompleteTx

\* The arrival that announces both copies of a load, and their landing.
LEMMA LoadSteps ==
  ASSUME NEW f \in Int
  PROVE  /\ ArriveAndExpectTx(Bar(1, 1, 0, f), 2) = Bar(1, 0, 2, f)
         /\ CompleteTx(Bar(1, 0, 2, f), 1) = Bar(1, 0, 1, f)
         /\ CompleteTx(Bar(1, 0, 1, f), 1) = Bar(1, 1, 0, 1 - f)
<1>1. ArriveAndExpectTx(Bar(1, 1, 0, f), 2) = Settle(Bar(1, 1 - 1, 0 + 2, f))
  BY BarrierSteps
<1>2. CompleteTx(Bar(1, 0, 2, f), 1) = Settle(Bar(1, 0, 2 - 1, f))
  BY BarrierSteps
<1>3. CompleteTx(Bar(1, 0, 1, f), 1) = Settle(Bar(1, 0, 1 - 1, f))
  BY BarrierSteps
<1> QED BY <1>1, <1>2, <1>3, Settling

\* The arrival of a reader: the last one completes the phase.
LEMMA ArrivalStep ==
  ASSUME NEW c \in Int, NEW p \in Int, NEW f \in Int
  PROVE  Arrive(Bar(c, p, 0, f)) = IF p = 1 THEN Bar(c, c, 0, 1 - f) ELSE Bar(c, p - 1, 0, f)
<1>1. Arrive(Bar(c, p, 0, f)) = Settle(Bar(c, p - 1, 0, f))
  BY BarrierSteps
<1> QED BY <1>1, Settling

LEMMA TwoOperands == IsFiniteSet(Operand) /\ Cardinality(Operand) = 2
<1>1. IsFiniteSet({"A"}) /\ Cardinality({"A"}) = 1
  BY FS_Singleton
<1>2. IsFiniteSet({"A"} \cup {"B"}) /\ Cardinality({"A"} \cup {"B"}) = 2
  BY <1>1, FS_AddElement
<1> QED BY <1>2 DEF Operand

\* Copies of different loads or operands are different.
LEMMA PartsApart ==
  ASSUME NEW t, NEW m, NEW n, NEW o, NEW p, Part(t, m, o) = Part(t, n, p)
  PROVE  m = n /\ o = p
<1>1. Part(t, m, o).op = Part(t, n, p).op /\ Part(t, m, o).data = Part(t, n, p).data
  OBVIOUS
<1> QED BY <1>1 DEF Part, Loaded

\* No reader is past a load that is under way.
LEMMA NobodyPastMoving ==
  ASSUME NEW R, NEW t, NEW i, NEW done, RingInv(R, t, i, done),
         NEW n, Moving(t, n) # {}, NEW r \in R
  PROVE  done[r] <= n
<1>1. PICK o \in Operand : Part(t, n, o) \in inflight
  BY DEF Moving
<1>2. PICK m \in Newest(i), p \in Operand : Part(t, n, o) = Part(t, m, p) /\ done[r] <= m
  BY <1>1 DEF RingInv, SlotsUsed, SlotsFresh, CopiesNewest, ReadersInside
<1> QED BY <1>2, PartsApart

\* Before the ring's next load its slot is empty, if every reader is done with what
\* was there: nobody arrives at its barriers any more and nothing lands in it.
LEMMA SlotFree ==
  ASSUME NEW R, R # {}, NEW t, NEW i \in Nat, NEW done \in [R -> Nat],
         RingInv(R, t, i, done), \A r \in R : done[r] > i - STAGES
  PROVE  /\ producer[Index(i)] = Bar(1, 1, 0, Phase(i))
         /\ consumer[Index(i)] = Bar(Cardinality(R), Cardinality(R), 0, Phase(i))
         /\ \A n \in Newest(i) : i - n < STAGES => Index(n) # Index(i)
         /\ \A n \in Newest(i), o \in Operand : Part(t, n, o) \in inflight => i - n < STAGES
<1>1. STAGES \in Nat \ {0}
  BY StagesAssumption
<1>2. \A n \in Newest(i) : i - n < STAGES => Index(n) # Index(i)
  BY <1>1, SlotsApart DEF Newest
<1>3. CASE i < STAGES
  <2>1. Index(i) = i /\ Phase(i) = 0 /\ i \in Stage
    BY <1>3, UseOfRing
  <2>2. producer[i] = FreshBarrier(1) /\ consumer[i] = FreshBarrier(Cardinality(R))
    BY <2>1 DEF RingInv, SlotsUsed, SlotsFresh, CopiesNewest, ReadersInside
  <2> QED BY <1>1, <1>2, <1>3, <2>1, <2>2 DEF FreshBarrier, Newest, Bar
<1>4. CASE i >= STAGES
  <2> DEFINE n0 == i - STAGES
  <2>1. n0 \in Nat /\ n0 \in Newest(i) /\ i = n0 + STAGES
    BY <1>1, <1>4 DEF Newest
  <2>2. Index(i) = Index(n0) /\ Phase(i) = 1 - Phase(n0)
    BY <2>1, NextRound
  <2>3. Moving(t, n0) = {}
    BY <1>1, <2>1, NobodyPastMoving
  <2>4. Arrived(R, done, n0) = R
    BY DEF Arrived
  <2>5. SlotAfter(R, t, done, n0)
    BY <2>1 DEF RingInv, SlotsUsed, SlotsFresh, CopiesNewest, ReadersInside
  <2>6. \A n \in Newest(i), o \in Operand : Part(t, n, o) \in inflight => i - n < STAGES
    BY <1>1, <2>1, <2>3 DEF Newest, Moving
  <2> QED BY <1>2, <2>2, <2>3, <2>4, <2>5, <2>6 DEF SlotAfter, ProducerAfter, ConsumerAfter
<1> QED BY <1>1, <1>3, <1>4

\* The next load, when every reader is done with the one its slot had before.
LEMMA IssueKeepsRing ==
  ASSUME NEW R, R # {}, IsFiniteSet(R), NEW t, NEW i \in Nat, NEW done \in [R -> Nat],
         RingInv(R, t, i, done), \A r \in R : done[r] > i - STAGES,
         IssueLoad(Index(i), t, i), UNCHANGED consumer
  PROVE  RingInv(R, t, i + 1, done)'
<1> DEFINE s == Index(i)
<1>1. STAGES \in Nat \ {0} /\ s \in Stage
  BY StagesAssumption, UseOfRing
<1>2. /\ producer[s] = Bar(1, 1, 0, Phase(i))
      /\ consumer[s] = Bar(Cardinality(R), Cardinality(R), 0, Phase(i))
      /\ \A n \in Newest(i) : i - n < STAGES => Index(n) # s
      /\ \A n \in Newest(i), o \in Operand : Part(t, n, o) \in inflight => i - n < STAGES
  BY SlotFree
<1>3. inflight' = inflight \cup {Part(t, i, o) : o \in Operand}
  BY DEF IssueLoad, Part
<1>4. Moving(t, i)' = Operand
  BY <1>3 DEF Moving, Part
<1>5. \A n \in Newest(i) : Moving(t, n)' = Moving(t, n)
  <2>1. \A n \in Newest(i), o \in Operand : n # i
    BY DEF Newest
  <2>2. \A n \in Newest(i), o, p \in Operand : Part(t, n, o) # Part(t, i, p)
    BY <2>1, PartsApart
  <2> QED BY <1>3, <2>2 DEF Moving, Part
<1>6. RingShape'
  BY <1>1 DEF RingInv, SlotsUsed, SlotsFresh, CopiesNewest, ReadersInside, RingShape, IssueLoad
<1>7. SlotAfter(R, t, done, i)'
  <2>1. producer'[s] = Bar(1, 0, 2, Phase(i))
    <3>1. producer'[s] = ArriveAndExpectTx(Bar(1, 1, 0, Phase(i)), 2)
      BY <1>1, <1>2, TwoOperands DEF IssueLoad, RingInv, SlotsUsed, SlotsFresh, CopiesNewest, ReadersInside, RingShape
    <3>2. Phase(i) \in Int
      BY UseOfRing
    <3> QED BY <3>1, <3>2, LoadSteps
  <2>2. producer'[s] = ProducerAfter(t, i)'
    BY <1>4, <2>1, TwoOperands DEF ProducerAfter, Operand
  <2>3. Arrived(R, done, i) = {}
    BY DEF Arrived, RingInv, SlotsUsed, SlotsFresh, CopiesNewest, ReadersInside
  <2>4. consumer'[s] = ConsumerAfter(R, done, i)'
    <3>1. Cardinality(R) \in Nat /\ Cardinality({}) = 0
      BY FS_CardinalityType, FS_EmptySet
    <3>2. Arrived(R, done, i)' = {}
      BY <2>3 DEF Arrived
    <3>3. ConsumerAfter(R, done, i)' = Bar(Cardinality(R), Cardinality(R), 0, Phase(i))
      BY <3>1, <2>3 DEF ConsumerAfter
    <3> QED BY <1>2, <3>3
  <2> QED BY <1>4, <2>2, <2>4 DEF SlotAfter
<1>8. ASSUME NEW n \in Newest(i), i - n < STAGES
      PROVE  SlotAfter(R, t, done, n)'
  <2>1. Index(n) # s /\ Index(n) \in Stage /\ SlotAfter(R, t, done, n)
    BY <1>2, <1>8, UseOfRing DEF RingInv, SlotsUsed, SlotsFresh, CopiesNewest, ReadersInside, Newest
  <2>2. producer'[Index(n)] = producer[Index(n)] /\ smem'[Index(n)] = smem[Index(n)]
    BY <2>1 DEF IssueLoad, RingInv, SlotsUsed, SlotsFresh, CopiesNewest, ReadersInside, RingShape
  <2> QED BY <1>5, <2>1, <2>2 DEF SlotAfter, ProducerAfter, ConsumerAfter, Moving, Arrived
<1>9. Newest(i + 1) = {n \in Newest(i) : i - n < STAGES} \cup {i}
  BY <1>1 DEF Newest
<1>10. ASSUME NEW u \in Stage, u >= i + 1
       PROVE  producer'[u] = FreshBarrier(1) /\ consumer'[u] = FreshBarrier(Cardinality(R))
  <2>1. s = i
    BY <1>1, <1>10, UseOfRing DEF Stage
  <2> QED BY <1>10, <2>1 DEF RingInv, SlotsUsed, SlotsFresh, CopiesNewest, ReadersInside, RingShape, IssueLoad, Stage
<1>11. ASSUME NEW c \in inflight'
       PROVE  \E n \in Newest(i + 1), o \in Operand : c = Part(t, n, o) /\ \A r \in R : done[r] <= n
  <2>1. CASE c \in inflight
    BY <1>2, <1>9, <2>1 DEF RingInv, SlotsUsed, SlotsFresh, CopiesNewest, ReadersInside
  <2>2. CASE c \in {Part(t, i, o) : o \in Operand}
    BY <1>9, <2>2 DEF RingInv, SlotsUsed, SlotsFresh, CopiesNewest, ReadersInside
  <2> QED BY <1>3, <1>11, <2>1, <2>2
<1>12. \A r \in R : i + 1 - STAGES <= done[r] /\ done[r] <= i + 1
  BY <1>1 DEF RingInv, SlotsUsed, SlotsFresh, CopiesNewest, ReadersInside
<1>13. \A n \in Newest(i + 1) : SlotAfter(R, t, done, n)'
  BY <1>7, <1>8, <1>9
<1> HIDE DEF s
<1>14. SlotsUsed(R, t, i + 1, done)'
  BY <1>13 DEF SlotsUsed
<1>15. SlotsFresh(R, i + 1)'
  BY <1>10 DEF SlotsFresh
<1>16. CopiesNewest(R, t, i + 1, done)'
  BY <1>11 DEF CopiesNewest
<1>17. ReadersInside(R, i + 1, done)
  BY <1>1, <1>12 DEF ReadersInside
<1> QED BY <1>6, <1>14, <1>15, <1>16, <1>17 DEF RingInv

\* A copy lands.
LEMMA LandKeepsRing ==
  ASSUME NEW R, NEW t, NEW i \in Nat, NEW done \in [R -> Nat], RingInv(R, t, i, done),
         NEW c \in inflight, Land(c)
  PROVE  RingInv(R, t, i, done)'
<1>1. PICK n \in Newest(i), o \in Operand : c = Part(t, n, o)
  BY DEF RingInv, CopiesNewest
<1> DEFINE s == Index(n)
<1>2. /\ STAGES \in Nat \ {0} /\ n \in Nat /\ s \in Stage /\ Phase(n) \in Int
      /\ c.slot = s /\ c.op = o /\ c.data = Loaded(t, n) /\ o \in Moving(t, n)
  BY <1>1, StagesAssumption, UseOfRing DEF Newest, Part, Moving
<1>3. Moving(t, n)' = Moving(t, n) \ {o}
  BY <1>1, PartsApart DEF Land, Moving, Part
<1>4. ASSUME NEW m \in Newest(i), m # n
      PROVE  Moving(t, m)' = Moving(t, m) /\ Index(m) # s /\ Index(m) \in Stage
  <2>1. \A p \in Operand : Part(t, m, p) # Part(t, n, o)
    BY <1>4, PartsApart
  <2>2. Moving(t, m)' = Moving(t, m)
    BY <1>1, <2>1 DEF Land, Moving, Part
  <2> QED BY <1>2, <1>4, <2>2, SlotsApart, UseOfRing DEF Newest
<1>5. SlotAfter(R, t, done, n)
  BY DEF RingInv, SlotsUsed
<1>6. RingShape'
  BY <1>2 DEF RingInv, RingShape, Land
<1>7. producer'[s] = ProducerAfter(t, n)'
  <2>1. producer'[s] = CompleteTx(Bar(1, 0, Cardinality(Moving(t, n)), Phase(n)), 1)
    BY <1>2, <1>5 DEF Land, SlotAfter, ProducerAfter, RingInv, RingShape
  <2>2. CASE Moving(t, n) = {o}
    BY <1>2, <1>3, <2>1, <2>2, LoadSteps, FS_Singleton DEF ProducerAfter
  <2>3. CASE Moving(t, n) # {o}
    <3>1. PICK p \in Operand : p # o /\ Moving(t, n) = Operand /\ Operand \ {o} = {p}
      BY <1>2, <2>3 DEF Moving, Operand
    <3>2. Cardinality({p}) = 1 /\ {p} # {}
      BY FS_Singleton
    <3> QED BY <1>2, <1>3, <2>1, <3>1, <3>2, LoadSteps, TwoOperands DEF ProducerAfter
  <2> QED BY <2>2, <2>3
<1>8. SlotAfter(R, t, done, n)'
  <2>1. \A p \in Operand : p \notin Moving(t, n)' => smem'[s][p] = Loaded(t, n)
    BY <1>2, <1>3, <1>5 DEF Land, SlotAfter, RingInv, RingShape
  <2>2. consumer'[s] = ConsumerAfter(R, done, n)'
    BY <1>5 DEF Land, SlotAfter, ConsumerAfter, Arrived
  <2> QED BY <1>7, <2>1, <2>2 DEF SlotAfter
<1>9. ASSUME NEW m \in Newest(i), m # n
      PROVE  SlotAfter(R, t, done, m)'
  <2>1. Index(m) # s /\ Index(m) \in Stage /\ Moving(t, m)' = Moving(t, m)
    BY <1>4, <1>9
  <2>2. producer'[Index(m)] = producer[Index(m)] /\ smem'[Index(m)] = smem[Index(m)]
    BY <1>2, <2>1 DEF Land, RingInv, RingShape
  <2> QED BY <2>1, <2>2 DEF Land, RingInv, SlotsUsed, SlotAfter, ProducerAfter, ConsumerAfter, Arrived
<1>10. SlotsUsed(R, t, i, done)'
  BY <1>8, <1>9 DEF SlotsUsed
<1>11. SlotsFresh(R, i)'
  <2>1. n < i /\ (n < STAGES => s = n)
    BY <1>2, UseOfRing DEF Newest
  <2>2. s < i
    BY <1>2, <2>1 DEF Stage
  <2>3. \A u \in Stage : u >= i => producer'[u] = producer[u]
    BY <1>2, <2>2 DEF Land, RingInv, RingShape, Stage
  <2> QED BY <2>3 DEF Land, RingInv, SlotsFresh
<1>12. CopiesNewest(R, t, i, done)'
  BY DEF RingInv, CopiesNewest, Land
<1> QED BY <1>6, <1>10, <1>11, <1>12 DEF RingInv

\* A reader is done with a load that has landed.
LEMMA ArriveKeepsRing ==
  ASSUME NEW R, IsFiniteSet(R), NEW t, NEW i \in Nat, NEW done \in [R -> Nat],
         RingInv(R, t, i, done), NEW r \in R, Landed(t, i, done[r]),
         ArriveConsumer(done[r]), UNCHANGED <<producer, smem, inflight>>
  PROVE  RingInv(R, t, i, [done EXCEPT ![r] = @ + 1])'
<1> DEFINE n == done[r]
           next == [done EXCEPT ![r] = @ + 1]
           s == Index(n)
           a == Arrived(R, done, n)
           C == Cardinality(R)
<1>1. /\ STAGES \in Nat \ {0} /\ n \in Newest(i) /\ n \in Nat /\ s \in Stage /\ Phase(n) \in Int
  BY StagesAssumption, UseOfRing DEF Landed, RingInv, ReadersInside, Newest
<1>2. \A m \in Newest(i) : Moving(t, m)' = Moving(t, m)
  BY DEF Moving, Part
<1>3. SlotAfter(R, t, done, n)
  BY <1>1 DEF RingInv, SlotsUsed
<1>4. Arrived(R, next, n) = a \cup {r} /\ r \notin a /\ a \subseteq R
  BY <1>1 DEF Arrived
<1>5. consumer'[s] = Arrive(Bar(C, C - Cardinality(a), 0, Phase(n)))
  BY <1>1, <1>3, <1>4 DEF ArriveConsumer, SlotAfter, ConsumerAfter, RingInv, RingShape
<1>6. C \in Nat /\ Cardinality(a) \in Nat /\ IsFiniteSet(a) /\ IsFiniteSet(a \cup {r})
      /\ Cardinality(a \cup {r}) = Cardinality(a) + 1
  BY <1>4, FS_CardinalityType, FS_Subset, FS_AddElement
<1>7. (Cardinality(a) + 1 = C) <=> (a \cup {r} = R)
  BY <1>4, <1>6, FS_Subset
<1>8. consumer'[s] = ConsumerAfter(R, next, n)
  <2>1. consumer'[s] = IF C - Cardinality(a) = 1 THEN Bar(C, C, 0, 1 - Phase(n))
                                                 ELSE Bar(C, C - Cardinality(a) - 1, 0, Phase(n))
    BY <1>1, <1>5, <1>6, ArrivalStep
  <2>2. C - Cardinality(a) - 1 = C - (Cardinality(a) + 1)
    BY <1>6
  <2>3. ConsumerAfter(R, next, n) = IF a \cup {r} = R THEN Bar(C, C, 0, 1 - Phase(n))
                                                    ELSE Bar(C, C - (Cardinality(a) + 1), 0, Phase(n))
    BY <1>4, <1>6 DEF ConsumerAfter
  <2>4. C - Cardinality(a) = 1 <=> a \cup {r} = R
    BY <1>6, <1>7
  <2> HIDE DEF next, s, a, C, n
  <2> QED BY <2>1, <2>2, <2>3, <2>4
<1>9. RingShape'
  BY DEF RingInv, RingShape, ArriveConsumer
<1>10. SlotAfter(R, t, next, n)'
  BY <1>1, <1>2, <1>3, <1>8 DEF SlotAfter, ProducerAfter, ConsumerAfter
<1>11. ASSUME NEW m \in Newest(i), m # n
       PROVE  SlotAfter(R, t, next, m)'
  <2>1. Index(m) # s /\ Index(m) \in Stage
    BY <1>1, <1>11, SlotsApart, UseOfRing DEF Newest
  <2>2. consumer'[Index(m)] = consumer[Index(m)]
    BY <1>1, <2>1 DEF ArriveConsumer, RingInv, RingShape
  <2>3. Arrived(R, next, m) = Arrived(R, done, m)
    BY <1>1, <1>11 DEF Arrived, Newest
  <2>4. SlotAfter(R, t, done, m)
    BY <1>11 DEF RingInv, SlotsUsed
  <2> QED BY <1>2, <2>2, <2>3, <2>4 DEF SlotAfter, ProducerAfter, ConsumerAfter
<1>12. SlotsUsed(R, t, i, next)'
  BY <1>10, <1>11 DEF SlotsUsed
<1>13. SlotsFresh(R, i)'
  <2>1. n < i /\ (n < STAGES => s = n)
    BY <1>1, UseOfRing DEF Newest
  <2>2. s < i
    BY <1>1, <2>1 DEF Stage
  <2>3. \A u \in Stage : u >= i => consumer'[u] = consumer[u]
    BY <1>1, <2>2 DEF ArriveConsumer, RingInv, RingShape, Stage
  <2> QED BY <2>3 DEF RingInv, SlotsFresh
<1>14. CopiesNewest(R, t, i, next)'
  <2>1. ASSUME NEW m \in Newest(i), NEW o \in Operand, Part(t, m, o) \in inflight, \A q \in R : done[q] <= m
        PROVE  \A q \in R : next[q] <= m
    <3>1. m # n
      BY <2>1 DEF Landed, Moving
    <3> QED BY <1>1, <2>1, <3>1 DEF Newest
  <2> QED BY <2>1 DEF RingInv, CopiesNewest
<1>15. ReadersInside(R, i, next)
  BY <1>1 DEF RingInv, ReadersInside, Newest
<1> QED BY <1>9, <1>12, <1>13, <1>14, <1>15 DEF RingInv

\* What a reader that is done with n loads sees at the barrier of the next: full means
\* that the load has been issued and is there, whatever the parity was about.
LEMMA FullMeansLanded ==
  ASSUME NEW R, NEW t, NEW i \in Nat, NEW done \in [R -> Nat],
         RingInv(R, t, i, done), NEW r \in R, Full(done[r])
  PROVE  Landed(t, i, done[r])
<1> DEFINE n == done[r]
<1>1. STAGES \in Nat \ {0} /\ n \in Nat /\ i - STAGES <= n /\ n <= i
  BY StagesAssumption DEF RingInv, ReadersInside
<1>2. producer[Index(n)].phase # Phase(n)
  BY DEF Full, Passed
<1>3. CASE n < i
  <2>1. producer[Index(n)] = ProducerAfter(t, n)
    BY <1>1, <1>3 DEF RingInv, SlotsUsed, SlotAfter, Newest
  <2> QED BY <1>2, <1>3, <2>1 DEF ProducerAfter, Bar, Landed
<1>4. CASE n = i /\ i < STAGES
  <2>1. Index(n) \in Stage /\ Index(n) = i /\ Phase(n) = 0
    BY <1>4, UseOfRing
  <2> QED BY <1>2, <2>1 DEF RingInv, SlotsFresh, FreshBarrier
<1>5. CASE n = i /\ i >= STAGES
  <2> DEFINE m == i - STAGES
  <2>1. m \in Nat /\ m \in Newest(i) /\ n = m + STAGES /\ n > m
    BY <1>1, <1>5 DEF Newest
  <2>2. Index(n) = Index(m) /\ Phase(n) = 1 - Phase(m)
    BY <2>1, NextRound
  <2>3. Moving(t, m) = {}
    BY <1>1, <2>1, NobodyPastMoving
  <2>4. producer[Index(m)] = ProducerAfter(t, m)
    BY <2>1 DEF RingInv, SlotsUsed, SlotAfter
  <2> QED BY <1>2, <2>2, <2>3, <2>4 DEF ProducerAfter, Bar
<1> QED BY <1>1, <1>3, <1>4, <1>5

\* A load that has landed and not been replaced is what its slot holds.
LEMMA LandedHolds ==
  ASSUME NEW R, NEW t, NEW i, NEW done, RingInv(R, t, i, done), NEW n \in Newest(i), Landed(t, i, n)
  PROVE  Holds(n, t, n)
BY DEF Holds, Landed, RingInv, SlotsUsed, SlotAfter

\* Whoever waits for the release of a load no reader is short of sees it free only when
\* all readers are done with it.
LEMMA FreeMeansRead ==
  ASSUME NEW R, R # {}, NEW t, NEW i \in Nat, NEW done \in [R -> Nat],
         RingInv(R, t, i, done), NEW n \in Nat, \A r \in R : n <= done[r], Free(n)
  PROVE  \A r \in R : done[r] > n
<1>1. STAGES \in Nat \ {0} /\ \A r \in R : done[r] \in Nat /\ i - STAGES <= done[r] /\ done[r] <= i
  BY StagesAssumption DEF RingInv, ReadersInside
<1>2. consumer[Index(n)].phase # Phase(n)
  BY DEF Free, Passed
<1>3. CASE n < i - STAGES
  BY <1>1, <1>3
<1>4. CASE i - STAGES <= n /\ n < i
  <2>1. consumer[Index(n)] = ConsumerAfter(R, done, n)
    BY <1>1, <1>4 DEF RingInv, SlotsUsed, SlotAfter, Newest
  <2>2. Arrived(R, done, n) = R
    BY <1>2, <2>1 DEF ConsumerAfter, Bar
  <2> QED BY <2>2 DEF Arrived
<1>5. CASE n = i
  <2>1. \A r \in R : done[r] > i - STAGES
    BY <1>1, <1>5
  <2>2. consumer[Index(i)] = Bar(Cardinality(R), Cardinality(R), 0, Phase(i))
    BY <2>1, SlotFree
  <2> QED BY <1>2, <1>5, <2>2 DEF Bar
<1> QED BY <1>1, <1>3, <1>4, <1>5

\* A ring that was just initialised and nothing is on its way to.
LEMMA RingStarts ==
  ASSUME NEW R, NEW t, NEW done, \A r \in R : done[r] = 0, RingShape, inflight = {},
         producer = FreshProducers, consumer = FreshConsumers(Cardinality(R))
  PROVE  RingInv(R, t, 0, done)
<1>1. STAGES \in Nat \ {0} /\ Newest(0) = {}
  BY StagesAssumption DEF Newest
<1> QED BY <1>1 DEF RingInv, SlotsUsed, SlotsFresh, CopiesNewest, ReadersInside, FreshProducers, FreshConsumers

\* The same of the next state.
LEMMA RingStartsNext ==
  ASSUME NEW R, NEW t, NEW done, \A r \in R : done[r] = 0, RingShape', inflight' = {},
         producer' = FreshProducers, consumer' = FreshConsumers(Cardinality(R))
  PROVE  RingInv(R, t, 0, done)'
<1>1. STAGES \in Nat \ {0} /\ Newest(0) = {}
  BY StagesAssumption DEF Newest
<1> QED BY <1>1 DEF RingInv, SlotsUsed, SlotsFresh, CopiesNewest, ReadersInside, FreshProducers, FreshConsumers

\* Everything in the ring has its type.
LEMMA RingTyped ==
  ASSUME NEW R, IsFiniteSet(R), R # {}, NEW t, NEW i \in Nat, NEW done, RingInv(R, t, i, done),
         NEW tiles, t \in tiles, NEW ks, 0 .. i - 1 \subseteq ks,
         \A s \in Stage, o \in Operand :
           smem[s][o] \in {Torn} \cup {Loaded(u, k) : u \in tiles, k \in ks}
  PROVE  RingType(Cardinality(R), tiles, ks)
<1> DEFINE C == Cardinality(R)
<1>1. C \in Nat /\ C # 0
  BY FS_CardinalityType, FS_EmptySet
<1>2. ASSUME NEW n \in Newest(i)
      PROVE  /\ ProducerAfter(t, n) \in [count : {1}, pending : {0, 1}, tx : 0 .. Cardinality(Operand), phase : {0, 1}]
             /\ ProducerAfter(t, n).pending = 0 => ProducerAfter(t, n).tx > 0
             /\ ConsumerAfter(R, done, n) \in [count : {C}, pending : 1 .. C, tx : {0}, phase : {0, 1}]
  <2>1. Phase(n) \in {0, 1} /\ 1 - Phase(n) \in {0, 1}
    BY UseOfRing DEF Newest
  <2>2. Moving(t, n) # {} => Cardinality(Moving(t, n)) \in 1 .. Cardinality(Operand)
    <3>1. Moving(t, n) \subseteq Operand
      BY DEF Moving
    <3> QED BY <3>1, TwoOperands, FS_Subset, FS_CardinalityType, FS_EmptySet
  <2>3. Arrived(R, done, n) # R => C - Cardinality(Arrived(R, done, n)) \in 1 .. C
    <3>1. Arrived(R, done, n) \subseteq R
      BY DEF Arrived
    <3> QED BY <1>1, <3>1, FS_Subset, FS_CardinalityType
  <2>4. Cardinality(Operand) = 2
    BY TwoOperands
  <2>5. /\ ProducerAfter(t, n) \in [count : {1}, pending : {0, 1}, tx : 0 .. Cardinality(Operand), phase : {0, 1}]
        /\ ProducerAfter(t, n).pending = 0 => ProducerAfter(t, n).tx > 0
    BY <2>1, <2>2, <2>4 DEF ProducerAfter, Bar
  <2>6. ConsumerAfter(R, done, n) \in [count : {C}, pending : 1 .. C, tx : {0}, phase : {0, 1}]
    BY <1>1, <2>1, <2>3 DEF ConsumerAfter, Bar
  <2> QED BY <2>5, <2>6
<1>3. ASSUME NEW s \in Stage
      PROVE  \/ \E n \in Newest(i) : producer[s] = ProducerAfter(t, n) /\ consumer[s] = ConsumerAfter(R, done, n)
             \/ producer[s] = Bar(1, 1, 0, 0) /\ consumer[s] = Bar(C, C, 0, 0)
  <2>1. CASE s < i
    BY <1>3, <2>1, EverySlotUsed DEF RingInv, SlotsUsed, SlotAfter
  <2>2. CASE s >= i
    BY <1>3, <2>2 DEF RingInv, SlotsFresh, FreshBarrier, Bar
  <2> QED BY <1>3, <2>1, <2>2, StagesAssumption DEF Stage
<1>4. /\ Bar(1, 1, 0, 0) \in [count : {1}, pending : {0, 1}, tx : 0 .. Cardinality(Operand), phase : {0, 1}]
      /\ Bar(1, 1, 0, 0).pending = 1
      /\ Bar(C, C, 0, 0) \in [count : {C}, pending : 1 .. C, tx : {0}, phase : {0, 1}]
  BY <1>1, TwoOperands DEF Bar
<1>5. inflight \subseteq [slot : Stage, op : Operand, data : {Loaded(u, k) : u \in tiles, k \in ks}]
  <2>1. \A n \in Newest(i), o \in Operand :
          Part(t, n, o) \in [slot : Stage, op : Operand, data : {Loaded(u, k) : u \in tiles, k \in ks}]
    BY UseOfRing DEF Part, Newest
  <2> QED BY <2>1 DEF RingInv, CopiesNewest
<1> QED BY <1>2, <1>3, <1>4, <1>5 DEF RingType
=============================================================================
