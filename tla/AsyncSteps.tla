----------------------------- MODULE AsyncSteps -----------------------------
(***************************************************************************)
(* The steps of kernels that hand a copy to the hardware and go on: bulk   *)
(* copies by the TMA engine, which report to an mbarrier, stores by it,    *)
(* and the groups of cp.async.  A copy under way is a thread of its own.   *)
(***************************************************************************)
EXTENDS KernelSteps

\* The copies 0, 1, ..., n - 1 of each block.  They have block numbers of
\* their own, so that no __syncthreads waits for one.
Engines(blocks, n) == {<<-1 - b, k>> : b \in 0 .. blocks - 1, k \in 0 .. n - 1}
Home(t) == IF Blk(t) < 0 THEN -1 - Blk(t) ELSE Blk(t)

Smem(t, i) == Cell("smem", Home(t), i)
SmemOf(blocks, n) == UNION {Array("smem", b, n) : b \in 0 .. blocks - 1}

\* Literals of a kernel.
Const(n) == Cell("const", 0, n)
Constants == [c \in Array("const", 0, 16) |-> Input(c[3])]

(***************************************************************************)
(* mbarriers.                                                              *)
(***************************************************************************)
Barrier(t, name, s) == Cell(name, Home(t), s)
BarriersOf(name, blocks, n) == UNION {Array(name, b, n) : b \in 0 .. blocks - 1}

InitBarriers(who, name, n, count) ==
  Each(who, LAMBDA t : [s \in 1 .. n |->
    Barrier(t, name, s - 1) := Op("barrier", <<Const(count)>>)])

Arrive(bar) == bar := Op("arrive", <<bar>>)
Arrivals(who, name, s) == Atomically(who, LAMBDA t : <<Arrive(Barrier(t, name, s))>>)

\* The wait for the end of the phase with this parity.
WaitFor(who, name, s, parity) ==
  Await(who, LAMBDA t : <<Op("passed", <<Barrier(t, name, s), Const(parity)>>)>>)

(***************************************************************************)
(* Bulk copies.  A copy goes on by itself once it is issued.  The bytes it *)
(* brings count as one arrival at its mbarrier, and the thread that issues *)
(* it arrives when it announces them.                                      *)
(***************************************************************************)
Issued(t, k) == Cell("issued", Home(t), k)
IssuedOf(blocks, n) == UNION {Array("issued", b, n) : b \in 0 .. blocks - 1}
Raise(flag) == flag := Op("raised", <<>>)

\* set_barrier_transaction_bytes and the copy, number k, into slot s.
AskFor(who, name, k, s) ==
  Atomically(who, LAMBDA t : <<Arrive(Barrier(t, name, s)), Raise(Issued(t, k))>>)

\* Copy k moves its data into slot k % slots and reports there.
Landing(tma, Move(_), name, slots) ==
  Await(tma, LAMBDA e : <<Val(Issued(e, Tid(e)))>>)
  \o Each(tma, Move)
  \o Atomically(tma, LAMBDA e : <<Arrive(Barrier(e, name, Tid(e) % slots))>>)

\* A store reads shared memory as the engine sees it: what threads wrote before
\* the fence.  When the thread that issued it has waited for it to be read, the
\* block may end and its shared memory be used by another.
Seen(t, i) == Cell("smem_async", Home(t), i)
SeenOf(blocks, n) == UNION {Array("smem_async", b, n) : b \in 0 .. blocks - 1}
Read(t) == Cell("read", Home(t), 0)

StoreBehind(who, tma, k, n, Move(_, _)) ==
  LET all(Do(_)) == [i \in 1 .. n |-> Do(i - 1)]
  IN Each(who, LAMBDA t : all(LAMBDA i : Seen(t, i) := Val(Smem(t, i))))
     \o Atomically(who, LAMBDA t : <<Raise(Issued(t, k))>>)
     \o Await(tma, LAMBDA e : <<Val(Issued(e, k))>>)
     \o Each(tma, LAMBDA e : all(LAMBDA i : Elem(e, i) := Val(Seen(e, i))))
     \o Atomically(tma, LAMBDA e : <<Raise(Read(e))>>)
     \o Each(tma, LAMBDA e : Loop(Count(n), LAMBDA i : Move(e, i)))
     \o Await(who, LAMBDA t : <<Val(Read(t))>>)
     \o Each(who, LAMBDA t : all(LAMBDA i : Seen(t, i) := Op("unknown", <<>>)))

(***************************************************************************)
(* cp.async.  Copy <<-1 - b, g * size + i>> is what thread i of block b    *)
(* put into its group g.                                                   *)
(***************************************************************************)
Group(t, size, g) == g * size + Tid(t)
Landed(t, k) == Cell("landed", Home(t), k)

\* The copies and cp_async_fence, which closes the group.
Commit(who, size, g) == Atomically(who, LAMBDA t : <<Raise(Issued(t, Group(t, size, g)))>>)

\* cp_async_wait: of the groups a thread has committed, all but the last
\* `flying` are there.
WaitGroups(who, size, committed, flying) ==
  Await(who, LAMBDA t : [g \in 1 .. committed - flying |-> Val(Landed(t, Group(t, size, g - 1)))])

Arriving(copies, Move(_)) ==
  Await(copies, LAMBDA e : <<Val(Issued(e, Tid(e)))>>)
  \o Each(copies, Move)
  \o Atomically(copies, LAMBDA e : <<Raise(Landed(e, Tid(e)))>>)
=============================================================================
