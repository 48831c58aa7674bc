---------------------------- MODULE ReduceKernels ----------------------------
(***************************************************************************)
(* The vector sums, v0 to v7, with the host's passes over shrinking data.  *)
(***************************************************************************)
EXTENDS KernelSteps

\* The reference: every element once.
cpu_reference(n) == {<<i>> : i \in 0 .. n - 1}

(***************************************************************************)
(* v0 to v4: each block sums `per` elements, and the host launches passes  *)
(* until one value is left, swapping the two buffers.  Body(T, p, n) is    *)
(* pass p over n elements: it reads Buffer(p), writes Buffer(p + 1) and    *)
(* has a shared array S(p, t) of its own.                                  *)
(***************************************************************************)
BufferName(p) == IF p % 2 = 0 THEN "in" ELSE "b"
Buffer(p, i) == Cell(BufferName(p), 0, i)
S(p, t, i) == Cell("s", <<p, Blk(t)>>, i)

ReducePasses(n, size, per, shared, W, Body(_, _, _)) ==
  LET cur[p \in 0 .. n] == IF p = 0 THEN n ELSE Ceil(cur[p - 1], per)
      passes == Min({p \in 0 .. n : cur[p] <= 1})
      T == Threads(Ceil(n, per), size)
      grid(p) == {t \in T : Blk(t) < Ceil(cur[p], per)}
      memory == Array("b", 0, Ceil(n, per))
                  \cup UNION {Array("s", <<p, t[1]>>, shared) : p \in 0 .. passes - 1, t \in T}
      steps == Loop(Count(passes), LAMBDA p : Body(grid(p), p, cur[p]) \o NewLaunch(T))
  IN Compile(T, W, memory, Inputs(n), {}, steps, [c \in {Buffer(passes, 0)} |-> cpu_reference(n)], {})

\* Mutant: no test against n.
InsideOrNot(p, n, indices) == Sum([k \in DOMAIN indices |-> Buffer(p, indices[k])])

\* The sum of in[i] for those of the indices that are inside.
Inside(p, n, indices) ==
  LET in == SelectSeq(indices, LAMBDA i : i < n) IN Sum([k \in DOMAIN in |-> Buffer(p, in[k])])

\* v0, v1: one element per thread; from v2 on the two at idx and idx + blockDim.
OneOf(p, n, t, size) == Inside(p, n, <<Blk(t) * size + Tid(t)>>)
TwoOf(p, n, t, size) ==
  LET idx == Blk(t) * 2 * size + Tid(t) IN Inside(p, n, <<idx, idx + size>>)

\* A level of the tree: the threads active[stride] each add what is stride away.
Tree(T, p, strides, active) ==
  Loop(strides, LAMBDA stride :
    Each(active[stride], LAMBDA t : <<S(p, t, Tid(t)) := S(p, t, Tid(t)) ++ S(p, t, Tid(t) + stride)>>)
    \o Sync(T))

Interleaved(T, size) == [stride \in 1 .. size |-> {t \in T : Tid(t) % (2 * stride) = 0}]
Contiguous(T, size) == [stride \in 1 .. size |-> First(stride, T)]

PutFirst(T, p) == Each(First(1, T), LAMBDA t : <<Buffer(p + 1, Blk(t)) := Val(S(p, t, 0))>>)

reduce_v0(n, size) ==
  ReducePasses(n, size, size, size, size, LAMBDA T, p, m :
    Each(T, LAMBDA t : <<S(p, t, Tid(t)) := OneOf(p, m, t, size)>>) \o Sync(T)
    \o Tree(T, p, Doubling(size), Interleaved(T, size)) \o PutFirst(T, p))

reduce_v1(n, size) ==
  ReducePasses(n, size, size, size, size, LAMBDA T, p, m :
    Each(T, LAMBDA t : <<S(p, t, Tid(t)) := OneOf(p, m, t, size)>>) \o Sync(T)
    \o Tree(T, p, Halving(size), Contiguous(T, size)) \o PutFirst(T, p))

reduce_v2(n, size) ==
  ReducePasses(n, size, 2 * size, size, size, LAMBDA T, p, m :
    Each(T, LAMBDA t : <<S(p, t, Tid(t)) := TwoOf(p, m, t, size)>>) \o Sync(T)
    \o Tree(T, p, Halving(size), Contiguous(T, size)) \o PutFirst(T, p))

\* v3: the last warp goes on alone; `read` separates a lane's reads from the
\* stores of the others.
Unrolled(T, p, W, read) ==
  LET warp0 == First(W, T)
      v(t) == Reg("v", t)
      put == read \o Each(warp0, LAMBDA t : <<S(p, t, Tid(t)) := Val(v(t))>>) \o SyncWarp(warp0)
      add(d) == Each(warp0, LAMBDA t : <<v(t) := v(t) ++ S(p, t, Tid(t) + d)>>)
  IN Each(warp0, LAMBDA t : <<v(t) := S(p, t, Tid(t)) ++ S(p, t, Tid(t) + W)>>) \o put
     \o Loop(SelectSeq(Halving(W), LAMBDA d : d > 1), LAMBDA d : add(d) \o put) \o add(1)
     \o Each(First(1, T), LAMBDA t : <<Buffer(p + 1, Blk(t)) := Val(v(t))>>)

\* Mutant: nothing does.
WarpUnrollUnsynced(T, p, W) == Unrolled(T, p, W, <<>>)

\* __syncwarp does.
WarpUnroll(T, p, W) == Unrolled(T, p, W, SyncWarp(First(W, T)))

reduce_v3(n, size, W) ==
  ReducePasses(n, size, 2 * size, size, W, LAMBDA T, p, m :
    Each(T, LAMBDA t : <<S(p, t, Tid(t)) := TwoOf(p, m, t, size)>>) \o Sync(T)
    \o Tree(T, p, SelectSeq(Halving(size), LAMBDA d : d > W), Contiguous(T, size))
    \o WarpUnroll(T, p, W))

(***************************************************************************)
(* v4 on: shuffles in each warp, then warp 0 over the warps' sums; the sum *)
(* of a block ends up with its thread 0, in Reg("sum").                    *)
(***************************************************************************)
BlockSum(T, size, W, s) ==
  BlockReduce(T, T, Tids(T), W, size \div W, "sum", "sum", Zero, s)

PutSum(T, array) == Each(First(1, T), LAMBDA t : <<Cell(array, 0, Blk(t)) := Val(Reg("sum", t))>>)

reduce_v4(n, size, W) ==
  ReducePasses(n, size, 2 * size, size \div W, W, LAMBDA T, p, m :
    Each(T, LAMBDA t : <<Reg("sum", t) := TwoOf(p, m, t, size)>>)
    \o BlockSum(T, size, W, [t \in T, i \in 0 .. size \div W - 1 |-> S(p, t, i)])
    \o PutSum(T, BufferName(p + 1)))

\* The grid-stride loop: thread t's share of n vectors of V elements.
GridStride(array, n, V, grid, size, t) ==
  LET mine == Stride(Blk(t) * size + Tid(t), n, grid * size)
  IN Sum(FlattenSeq([k \in DOMAIN mine |-> [j \in 1 .. V |-> Cell(array, 0, mine[k] * V + j - 1)]]))

\* v5 and v6: a first pass over vectors of V, a second over the partial sums,
\* in one block, from the array of partial sums to its first cell.
TwoPasses(vectors, V, grid, size, W) ==
  LET T == Threads(grid, size)
      one == InBlock(0, T)
      s == Shared("s", T, size \div W)
      tail_s == Shared("tail", one, size \div W)
      steps ==
        Each(T, LAMBDA t : <<Reg("sum", t) := GridStride("in", vectors, V, grid, size, t)>>)
        \o BlockSum(T, size, W, s) \o PutSum(T, "partial") \o NewLaunch(T)
        \o Each(one, LAMBDA t : <<Reg("sum", t) := GridStride("partial", grid, 1, 1, size, t)>>)
        \o BlockSum(one, size, W, tail_s) \o PutSum(one, "partial") \o NewLaunch(T)
      memory == Array("partial", 0, grid) \cup Array("tail", 0, size \div W)
                  \cup UNION {Array("s", b, size \div W) : b \in 0 .. grid - 1}
  IN Compile(T, W, memory, Inputs(vectors * V), {}, steps,
             [c \in {Cell("partial", 0, 0)} |-> cpu_reference(vectors * V)], {})

reduce_v5(n, grid, size, W) == TwoPasses(n, 1, grid, size, W)
reduce_v6(vectors, V, grid, size, W) == TwoPasses(vectors, V, grid, size, W)

\* v7: one pass, the blocks' sums added atomically into the one output, which
\* the host clears before each of its `times` launches.
reduce_v7(vectors, V, grid, size, W, times) ==
  LET T == Threads(grid, size)
      host == {<<0, 0>>}
      s == Shared("s", T, size \div W)
      clear == Each(host, LAMBDA t : <<Out(0) := Zero>>) \o NewLaunch(T)
      add == Atomically(First(1, T), LAMBDA t : <<Out(0) := Out(0) ++ Reg("sum", t)>>)
      steps == Loop(Count(times), LAMBDA i :
        clear \o Each(T, LAMBDA t : <<Reg("sum", t) := GridStride("in", vectors, V, grid, size, t)>>)
        \o BlockSum(T, size, W, s) \o add \o NewLaunch(T))
      memory == {Out(0)} \cup UNION {Array("s", b, size \div W) : b \in 0 .. grid - 1}
  IN Compile(T, W, memory, Inputs(vectors * V), {}, steps,
             [c \in {Out(0)} |-> cpu_reference(vectors * V)], {})
=============================================================================
