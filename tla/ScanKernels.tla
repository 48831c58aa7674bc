----------------------------- MODULE ScanKernels -----------------------------
(***************************************************************************)
(* The scans v0 to v4 and the inside of a block of v6, as programs of       *)
(* KernelSteps.                                                            *)
(***************************************************************************)
EXTENDS KernelSteps

\* The reference: out[i] is the sum of the elements before i in its segment.
cpu_exclusive_scan(n, seg) ==
  [c \in Array("out", 0, n) |-> {<<j>> : j \in (c[3] \div seg) * seg .. c[3] - 1}]

(***************************************************************************)
(* v0: Hillis-Steele with two buffers, one element per thread.             *)
(***************************************************************************)
scan_naive_kernel(blocks, n) ==
  LET T == Threads(blocks, n)
      buf(half, t, i) == Cell("buf", Blk(t), half * n + i)
      src(t, i) == In(Blk(t) * n + i)
      load(t) == <<buf(1, t, Tid(t)) := IF Tid(t) > 0 THEN Val(src(t, Tid(t) - 1)) ELSE Zero>>
      pout(round) == (round + 1) % 2
      add(round, t) ==
        LET pin == 1 - pout(round)
            offset == 2^(round - 1)
        IN <<buf(pout(round), t, Tid(t)) :=
               IF Tid(t) >= offset THEN buf(pin, t, Tid(t)) ++ buf(pin, t, Tid(t) - offset)
                                   ELSE Val(buf(pin, t, Tid(t)))>>
      steps == Each(T, load) \o Sync(T)
            \o Loop([k \in 1 .. Log2(n) |-> k],
                    LAMBDA round : Each(T, LAMBDA t : add(round, t)) \o Sync(T))
            \o Each(T, LAMBDA t : <<Out(Blk(t) * n + Tid(t)) := Val(buf(pout(Log2(n)), t, Tid(t)))>>)
      memory == UNION {Array("buf", b, 2 * n) : b \in 0 .. blocks - 1} \cup Array("out", 0, blocks * n)
  IN Compile(T, n, memory, Inputs(blocks * n), {}, steps, cpu_exclusive_scan(blocks * n, n), {})

(***************************************************************************)
(* The Blelloch tree on temp[0 .. n - 1], n / 2 threads; temp[t, i] is the *)
(* cell of element i in the block of thread t.                             *)
(***************************************************************************)
\* The children of thread t's node in the level with d nodes.
LeftChild(n, d, temp, t) == temp[t, (n \div (2 * d)) * (2 * Tid(t) + 1) - 1]
RightChild(n, d, temp, t) == temp[t, (n \div (2 * d)) * (2 * Tid(t) + 2) - 1]

AddLeft(n, d, temp, t) ==
  LET a == LeftChild(n, d, temp, t)
      b == RightChild(n, d, temp, t)
  IN <<b := b ++ a>>

PassDown(n, d, temp, t) ==
  LET a == LeftChild(n, d, temp, t)
      b == RightChild(n, d, temp, t)
  IN <<Reg("t", t) := Val(a), a := Val(b), b := b ++ Reg("t", t)>>

UpSweep(T, n, temp) ==
  Loop(Halving(n), LAMBDA d : Sync(T) \o Each(First(d, T), LAMBDA t : AddLeft(n, d, temp, t)))

ClearRoot(T, n, temp) == Each(First(1, T), LAMBDA t : <<temp[t, n - 1] := Zero>>)

\* Mutant: no barrier between the levels of the down-sweep.
DownSweepUnsynced(T, n, temp) ==
  Loop(Doubling(n), LAMBDA d : Each(First(d, T), LAMBDA t : PassDown(n, d, temp, t)))

DownSweep(T, n, temp) ==
  Loop(Doubling(n), LAMBDA d : Sync(T) \o Each(First(d, T), LAMBDA t : PassDown(n, d, temp, t)))

(***************************************************************************)
(* v1: neighbouring pairs, no padding.                                     *)
(***************************************************************************)
scan_work_efficient_kernel(blocks, n) ==
  LET T == Threads(blocks, n \div 2)
      temp == Shared("temp", T, n)
      base(t) == Blk(t) * n
      load(t) == [k \in 1 .. 2 |-> temp[t, 2 * Tid(t) + k - 1] := Val(In(base(t) + 2 * Tid(t) + k - 1))]
      store(t) == [k \in 1 .. 2 |-> Out(base(t) + 2 * Tid(t) + k - 1) := Val(temp[t, 2 * Tid(t) + k - 1])]
      steps == Each(T, load) \o UpSweep(T, n, temp) \o ClearRoot(T, n, temp)
            \o DownSweep(T, n, temp) \o Sync(T) \o Each(T, store)
      memory == UNION {Array("temp", b, n) : b \in 0 .. blocks - 1} \cup Array("out", 0, blocks * n)
  IN Compile(T, n, memory, Inputs(blocks * n), {}, steps, cpu_exclusive_scan(blocks * n, n), {})

(***************************************************************************)
(* v2: the two halves, one slot of padding after every `banks` elements.   *)
(***************************************************************************)
\* Mutant: the offset of the chapter it is taken from, for half as many banks.
CONFLICT_FREE_OFFSET_G80(i, banks) == i \div (banks \div 2)

CONFLICT_FREE_OFFSET(i, banks) == i \div banks
SmemSize(n, banks) == n + CONFLICT_FREE_OFFSET(n - 1, banks) + 1
Padded(name, T, n, banks) ==
  [t \in T, i \in 0 .. n - 1 |-> Cell(name, Blk(t), i + CONFLICT_FREE_OFFSET(i, banks))]

scan_conflict_free_kernel(blocks, n, banks) ==
  LET T == Threads(blocks, n \div 2)
      temp == Padded("temp", T, n, banks)
      half(t, k) == Tid(t) + (k - 1) * (n \div 2)
      load(t) == [k \in 1 .. 2 |-> temp[t, half(t, k)] := Val(In(Blk(t) * n + half(t, k)))]
      store(t) == [k \in 1 .. 2 |-> Out(Blk(t) * n + half(t, k)) := Val(temp[t, half(t, k)])]
      steps == Each(T, load) \o UpSweep(T, n, temp) \o ClearRoot(T, n, temp)
            \o DownSweep(T, n, temp) \o Sync(T) \o Each(T, store)
      memory == UNION {Array("temp", b, SmemSize(n, banks)) : b \in 0 .. blocks - 1}
                  \cup Array("out", 0, blocks * n)
  IN Compile(T, banks, memory, Inputs(blocks * n), {}, steps, cpu_exclusive_scan(blocks * n, n), {"temp"})

(***************************************************************************)
(* v3: each tile, then the tiles' sums in one block, then the sums added.  *)
(* The scan of a block leaves the total of its elements in Reg("total").   *)
(***************************************************************************)
blelloch_block_scan(T, n, temp, src, dst, carry) ==
  LET half(t, k) == Tid(t) + (k - 1) * (n \div 2)
      load(t) == [k \in 1 .. 2 |-> temp[t, half(t, k)] := Val(src[t, half(t, k)])]
      store(t) == [k \in 1 .. 2 |-> dst[t, half(t, k)] := temp[t, half(t, k)] ++ Reg(carry, t)]
  IN Each(T, load) \o UpSweep(T, n, temp) \o Sync(T)
     \o Each(T, LAMBDA t : <<Reg("total", t) := Val(temp[t, n - 1])>>) \o Sync(T) \o ClearRoot(T, n, temp)
     \o DownSweep(T, n, temp) \o Sync(T) \o Each(T, store)

\* The host launches the three kernels `times` times; sums is padded to whole
\* rounds of the second and cleared once, before the first launch.
scan_arbitrary_length(tiles, n, banks, times) ==
  LET T == Threads(tiles, n \div 2)
      one == InBlock(0, T)
      rounds == Ceil(tiles, n)
      sums(i) == Cell("sums", 0, i)
      tile(array) == [t \in T, i \in 0 .. n - 1 |-> Cell(array, 0, Blk(t) * n + i)]
      round(r) == [t \in one, i \in 0 .. n - 1 |-> sums(r * n + i)]
      scan_tiles ==
        Each(T, LAMBDA t : <<Reg("none", t) := Zero>>)
        \o blelloch_block_scan(T, n, Padded("temp", T, n, banks), tile("in"), tile("out"), "none")
        \o Each(First(1, T), LAMBDA t : <<sums(Blk(t)) := Val(Reg("total", t))>>)
      scan_sums_one_block ==
        Each(one, LAMBDA t : <<Reg("carry", t) := Zero>>)
        \o Loop(Count(rounds), LAMBDA r :
             blelloch_block_scan(one, n, Padded("temp2", one, n, banks), round(r), round(r), "carry")
             \o Each(one, LAMBDA t : <<Reg("carry", t) := Reg("carry", t) ++ Reg("total", t)>>)
             \o Sync(one))
      uniform_add ==
        LET p(t, k) == Out(Blk(t) * n + Tid(t) + (k - 1) * (n \div 2))
        IN Each(T, LAMBDA t : [k \in 1 .. 2 |-> p(t, k) := p(t, k) ++ sums(Blk(t))])
      steps == Loop(Count(times), LAMBDA i :
        scan_tiles \o NewLaunch(T) \o scan_sums_one_block \o NewLaunch(T) \o uniform_add \o NewLaunch(T))
      memory == UNION {Array("temp", b, SmemSize(n, banks)) : b \in 0 .. tiles - 1}
                  \cup Array("temp2", 0, SmemSize(n, banks))
                  \cup Array("out", 0, tiles * n) \cup Array("sums", 0, rounds * n)
  IN Compile(T, banks, memory, Inputs(tiles * n), Array("sums", 0, rounds * n), steps,
             cpu_exclusive_scan(tiles * n, tiles * n), {})

(***************************************************************************)
(* v4: V elements per thread, shuffles in a warp of W, the warps' totals   *)
(* scanned by warp 0; again three kernels.  The thread's elements are the  *)
(* registers Elem(t, k).                                                   *)
(***************************************************************************)
warp_inclusive_scan(who, W, reg) ==
  Loop(Doubling(W), LAMBDA d :
    Warps(who, LAMBDA t : If(Lane(t, W) >= d, <<Reg(reg, t) := Reg(reg, t) ++ Reg(reg, ShflUp(t, d))>>)))

block_scan_float4(T, V, W, warps, s_warp) ==
  LET elems(t, n) == [k \in 1 .. n |-> Elem(t, k)]
      serial(t) == <<Reg("thread_total", t) := Sum(elems(t, V))>>
                   \o [k \in 1 .. V |-> Elem(t, V + 1 - k) := Sum(elems(t, V - k))]
                   \o <<Reg("warp_scan", t) := Val(Reg("thread_total", t))>>
      own(t) == <<Reg("thread_prefix", t) := Reg("warp_scan", t) -- Reg("thread_total", t)>>
                \o If(Lane(t, W) = W - 1, <<s_warp[t, Warp(t, W)] := Val(Reg("warp_scan", t))>>)
      zero == First(W, T)
      small(t) == <<Reg("t", t) := IF Tid(t) < warps THEN Val(s_warp[t, Tid(t)]) ELSE Zero,
                    Reg("s", t) := Val(Reg("t", t))>>
      exclusive(t) == If(Tid(t) < warps, <<s_warp[t, Tid(t)] := Reg("s", t) -- Reg("t", t)>>)
                      \o If(Tid(t) = warps - 1, <<s_warp[t, warps] := Val(Reg("s", t))>>)
      spread(t) ==
        [k \in 1 .. V |-> Elem(t, k) := Sum(<<Elem(t, k), Reg("carry", t),
                                               s_warp[t, Warp(t, W)], Reg("thread_prefix", t)>>)]
        \o <<Reg("total", t) := Val(s_warp[t, warps])>>
  IN Each(T, serial) \o warp_inclusive_scan(T, W, "warp_scan") \o Each(T, own) \o Sync(T)
     \o Each(zero, small) \o warp_inclusive_scan(zero, W, "s") \o Each(zero, exclusive) \o Sync(T)
     \o Each(T, spread)

scan_warp_shuffle(tiles, V, W, warps, times) ==
  LET T == Threads(tiles, W * warps)
      one == InBlock(0, T)
      seg == V * W * warps
      rounds == Ceil(tiles, seg)
      sums(i) == Cell("sums", 0, i)
      vector(array, from, t) == [k \in 1 .. V |-> Cell(array, 0, from + Tid(t) * V + k - 1)]
      fetch(array, from, t) == [k \in 1 .. V |-> Elem(t, k) := Val(vector(array, from, t)[k])]
      put(array, from, t) == [k \in 1 .. V |-> vector(array, from, t)[k] := Val(Elem(t, k))]
      no_carry(t) == <<Reg("carry", t) := Zero>>
      scan_tiles ==
        Each(T, LAMBDA t : no_carry(t) \o fetch("in", Blk(t) * seg, t))
        \o block_scan_float4(T, V, W, warps, Shared("s_warp", T, warps + 1))
        \o Each(T, LAMBDA t : put("out", Blk(t) * seg, t)
                   \o If(Tid(t) = 0, <<sums(Blk(t)) := Val(Reg("total", t))>>))
      scan_sums_one_block ==
        Each(one, no_carry)
        \o Loop(Count(rounds), LAMBDA r :
             Each(one, LAMBDA t : fetch("sums", r * seg, t))
             \o block_scan_float4(one, V, W, warps, Shared("s_warp2", one, warps + 1))
             \o Each(one, LAMBDA t : <<Reg("carry", t) := Reg("carry", t) ++ Reg("total", t)>>
                                      \o put("sums", r * seg, t))
             \o Sync(one))
      uniform_add ==
        Each(T, LAMBDA t : [k \in 1 .. V |->
          vector("out", Blk(t) * seg, t)[k] := vector("out", Blk(t) * seg, t)[k] ++ sums(Blk(t))])
      steps == Loop(Count(times), LAMBDA i :
        scan_tiles \o NewLaunch(T) \o scan_sums_one_block \o NewLaunch(T) \o uniform_add \o NewLaunch(T))
      memory == UNION {Array("s_warp", b, warps + 1) : b \in 0 .. tiles - 1}
                  \cup Array("s_warp2", 0, warps + 1)
                  \cup Array("out", 0, tiles * seg) \cup Array("sums", 0, rounds * seg)
  IN Compile(T, W, memory, Inputs(tiles * seg), Array("sums", 0, rounds * seg), steps,
             cpu_exclusive_scan(tiles * seg, tiles * seg), {})

(***************************************************************************)
(* v6: as v5, but between global memory and registers a tile goes through  *)
(* shared memory, which swaps two orders of its VPT * BLOCK vectors of Q   *)
(* elements.  Blocks meet only in the lookback: it is Lookback.tla's, and  *)
(* what it gives the block of this tile is an input here.                  *)
(***************************************************************************)
\* Element k of a thread's VPT vectors, its vectors BLOCK apart or side by side.
Striped(t, BLOCK, Q, k) == ((k \div Q) * BLOCK + Tid(t)) * Q + (k % Q)
Blocked(t, VPT, Q, k) == Tid(t) * VPT * Q + k

scan_striped(tile, VPT, Q, W, warps) ==
  LET BLOCK == W * warps
      V == VPT * Q
      T == InBlock(tile, Threads(tile + 1, BLOCK))
      seg == V * BLOCK
      all(Assign(_)) == [k \in 1 .. V |-> Assign(k - 1)]
      s_xpose(i) == Cell("s_xpose", tile, i)
      s_exclusive == Cell("s_exclusive", tile, 0)
      looked_back == Cell("prefix", 0, tile)
      state == Cell("state", 0, tile)
      global(array, i) == Cell(array, 0, tile * seg + i)
      load(t) == all(LAMBDA k : s_xpose(Striped(t, BLOCK, Q, k)) := Val(global("in", Striped(t, BLOCK, Q, k))))
      take(t) == <<Reg("carry", t) := Zero>>
                 \o all(LAMBDA k : Elem(t, k + 1) := Val(s_xpose(Blocked(t, VPT, Q, k))))
      publish(t) == If(tile > 0, <<state := Val(Reg("total", t))>>)
                    \o <<state := Reg("total", t) ++ looked_back, s_exclusive := Val(looked_back)>>
      give(t) == all(LAMBDA k : s_xpose(Blocked(t, VPT, Q, k)) := Elem(t, k + 1) ++ s_exclusive)
      store(t) == all(LAMBDA k : global("out", Striped(t, BLOCK, Q, k)) := Val(s_xpose(Striped(t, BLOCK, Q, k))))
      upto(n) == {<<j>> : j \in 0 .. n - 1}
      outs == {global("out", i) : i \in 0 .. seg - 1}
      memory == Array("s_xpose", tile, seg) \cup Array("s_warp", tile, warps + 1) \cup outs \cup {s_exclusive, state}
  IN Compile(T, W, memory, Inputs((tile + 1) * seg) @@ [c \in {looked_back} |-> upto(tile * seg)], {},
             Each(T, load) \o Sync(T) \o Each(T, take) \o Sync(T)
             \o block_scan_float4(T, V, W, warps, Shared("s_warp", T, warps + 1))
             \o Each(First(1, T), publish) \o Sync(T) \o Each(T, give) \o Sync(T) \o Each(T, store),
             [c \in outs |-> upto(c[3])] @@ [c \in {state} |-> upto((tile + 1) * seg)], {})
=============================================================================
