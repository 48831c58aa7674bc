----------------------------- MODULE NormKernels -----------------------------
(***************************************************************************)
(* RMSNorm over the rows of a matrix of M rows with N columns, v0 to v3:   *)
(* x / sqrt(sum of squares of the row / N + eps) * w, a block per row.     *)
(***************************************************************************)
EXTENDS KernelSteps

Weight(i) == Cell("w", 0, i)
Data(M, N) == Inputs(M * N) @@ [c \in Array("w", 0, N) |-> Input(M * N + c[3])]

\* The reference.
cpu_rmsnorm(M, N) ==
  [c \in Array("out", 0, M * N) |->
     LET row == c[3] \div N
     IN {<<c[3], M * N + (c[3] % N), {<<i, i>> : i \in row * N .. row * N + N - 1}>>}]

Square(c) == Op("times", <<c, c>>)
Scaled(x, i, sumsq) == Op("rms", <<x, Weight(i), sumsq>>)

(***************************************************************************)
(* v0, v1: one kernel for the sums of squares, one that reads x again.     *)
(***************************************************************************)
TwoPass(M, N, size, W, shared, reduce) ==
  LET T == Threads(M, size)
      at(t) == Blk(t) * N + Tid(t)
      sumsq(t) == Cell("sumsq", 0, Blk(t))
      rmsnorm_kernel ==
        Each(First(N, T), LAMBDA t : <<Out(at(t)) := Scaled(In(at(t)), Tid(t), sumsq(t))>>)
      square(t) == IF Tid(t) < N THEN Square(In(at(t))) ELSE Zero
      memory == Array("out", 0, M * N) \cup Array("sumsq", 0, M)
                  \cup UNION {Array("s", b, shared) : b \in 0 .. M - 1}
      steps == Each(T, LAMBDA t : <<Reg("v", t) := square(t)>>) \o reduce
               \o Each(First(1, T), LAMBDA t : <<sumsq(t) := Val(Reg("v", t))>>)
               \o NewLaunch(T) \o rmsnorm_kernel
  IN Compile(T, W, memory, Data(M, N), {}, steps, cpu_rmsnorm(M, N), {})

\* v0: a tree in shared memory with a barrier after every level.
rmsnorm_v0(M, N, size) ==
  LET T == Threads(M, size)
      sdata(t, i) == Cell("s", Blk(t), i)
      add(t, d) == <<sdata(t, Tid(t)) := sdata(t, Tid(t)) ++ sdata(t, Tid(t) + d)>>
      tree ==
        Each(T, LAMBDA t : <<sdata(t, Tid(t)) := Val(Reg("v", t))>>) \o Sync(T)
        \o Loop(Halving(size), LAMBDA d : Each(First(d, T), LAMBDA t : add(t, d)) \o Sync(T))
        \o Each(First(1, T), LAMBDA t : <<Reg("v", t) := Val(sdata(t, 0))>>)
  IN TwoPass(M, N, size, size, size, tree)

\* v1: shuffles in the warps, then in warp 0 over their sums.
rmsnorm_v1(M, N, size, W) ==
  LET T == Threads(M, size)
      shuffles == BlockReduce(T, T, Tids(T), W, size \div W, "v", "sum", Zero, Shared("s", T, size \div W))
  IN TwoPass(M, N, size, W, size \div W, shuffles)

(***************************************************************************)
(* v2, v3: x is read once, and s[0] carries the row's sum to every thread. *)
(***************************************************************************)
OnePass(M, N, size, W, shared, load, x, VEC) ==
  LET T == Threads(M, size)
      s == Shared("s", T, size \div W)
      col(t, k) == Tid(t) * VEC + k - 1
      squares(t) == [k \in 1 .. VEC |-> Elem(t, VEC + k) := Square(x[t, k])]
                    \o <<Reg("v", t) := Sum([k \in 1 .. VEC |-> Elem(t, VEC + k)])>>
      store(t) == [k \in 1 .. VEC |->
                     Out(Blk(t) * N + col(t, k)) := Scaled(x[t, k], col(t, k), s[t, 0])]
      memory == Array("out", 0, M * N) \cup shared
                  \cup UNION {Array("s", b, size \div W) : b \in 0 .. M - 1}
      steps == load \o Each(T, squares)
               \o BlockReduce(T, T, Tids(T), W, size \div W, "v", "sum", Zero, s)
               \o Each(First(1, T), LAMBDA t : <<s[t, 0] := Val(Reg("v", t))>>)
               \o Sync(T) \o Each(T, store)
  IN Compile(T, W, memory, Data(M, N), {}, steps, cpu_rmsnorm(M, N), {})

\* v2: the row is kept in shared memory, a barrier after it is loaded.
rmsnorm_v2(M, N, W) ==
  LET T == Threads(M, N)
      sx(t) == Cell("sx", Blk(t), Tid(t))
      load == Each(T, LAMBDA t : <<sx(t) := Val(In(Blk(t) * N + Tid(t)))>>) \o Sync(T)
  IN OnePass(M, N, N, W, UNION {Array("sx", b, N) : b \in 0 .. M - 1}, load,
             [t \in T, k \in {1} |-> sx(t)], 1)

\* v3: VEC elements per thread, kept in registers.
rmsnorm_v3(M, VEC, W, warps) ==
  LET N == VEC * W * warps
      T == Threads(M, W * warps)
      fetch(t) == [k \in 1 .. VEC |-> Elem(t, k) := Val(In(Blk(t) * N + Tid(t) * VEC + k - 1))]
  IN OnePass(M, N, W * warps, W, {}, Each(T, fetch), [t \in T, k \in 1 .. VEC |-> Elem(t, k)], VEC)
=============================================================================
