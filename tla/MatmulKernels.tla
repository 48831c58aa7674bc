---------------------------- MODULE MatmulKernels ----------------------------
(***************************************************************************)
(* C = A * B on tensor cores, v0 to v4.  The unit of every size is one     *)
(* wmma tile and a thread here is a warp there: its fragments are its      *)
(* registers, and it moves a tile where its lanes move the tile's chunks.  *)
(***************************************************************************)
EXTENDS KernelSteps

A(i) == Cell("in", 0, i)
B(i) == Cell("b", 0, i)
Factors(m, n, k) == Inputs(m * k) @@ [c \in Array("b", 0, k * n) |-> Input(m * k + c[3])]

\* The reference.
cublas_reference(m, n, k) ==
  [c \in Array("out", 0, m * n) |->
     {<<(c[3] \div n) * k + l, m * k + l * n + (c[3] % n)>> : l \in 0 .. k - 1}]

mma_sync(t, acc, a, b) == <<Reg("p", t) := Op("times", <<a, b>>), acc := acc ++ Reg("p", t)>>

(***************************************************************************)
(* v0: a warp per tile of C, fragments straight from global memory.        *)
(***************************************************************************)
matmul_v0(m, n, k, warps) ==
  LET cols == Ceil(n, warps)      \* gridDim.y
      T == Threads(m * cols, warps)
      warp_m(t) == Blk(t) \div cols
      warp_n(t) == (Blk(t) % cols) * warps + Tid(t)
      step(t, k0) == <<Elem(t, 1) := Val(A(warp_m(t) * k + k0)), Elem(t, 2) := Val(B(k0 * n + warp_n(t)))>>
                     \o mma_sync(t, Elem(t, 0), Elem(t, 1), Elem(t, 2))
      tile(t) == If(warp_m(t) < m /\ warp_n(t) < n,
                    <<Elem(t, 0) := Zero>> \o Loop(Count(k), LAMBDA k0 : step(t, k0))
                    \o <<Out(warp_m(t) * n + warp_n(t)) := Val(Elem(t, 0))>>)
  IN Compile(T, 1, Array("out", 0, m * n), Factors(m, n, k), {}, Each(T, tile), cublas_reference(m, n, k), {})

(***************************************************************************)
(* v1 to v4: a block computes BM by BN tiles and goes along K by BK.  A    *)
(* warp has WTILE_M by WTILE_N of them; rows of As and Bs are PAD longer.  *)
(***************************************************************************)
SmemMatmul(m, n, k, BM, BN, BK, WTILE_M, WTILE_N, PAD) ==
  LET WARPS_N == BN \div WTILE_N
      NUM_THREADS == (BM \div WTILE_M) * WARPS_N
      wide == n \div BN
      T == Threads((m \div BM) * wide, NUM_THREADS)
      LDA == BK + PAD
      LDB == BN + PAD
      block_row(t) == (Blk(t) \div wide) * BM
      block_col(t) == (Blk(t) % wide) * BN
      warp_m(t) == Tid(t) \div WARPS_N
      warp_n(t) == Tid(t) % WARPS_N
      As(t, i) == Cell("As", Blk(t), i)
      Bs(t, i) == Cell("Bs", Blk(t), i)
      acc(t, i, j) == Elem(t, i * WTILE_N + j)
      a_frag(t, i) == Elem(t, WTILE_M * WTILE_N + i)
      b_frag(t, j) == Elem(t, WTILE_M * WTILE_N + WTILE_M + j)
      Tiles(Do(_, _)) == Loop(Count(WTILE_M), LAMBDA i : Loop(Count(WTILE_N), LAMBDA j : Do(i, j)))
      copy_a(t, k0, i) == LET r == i \div BK
                              c == i % BK
                          IN <<As(t, r * LDA + c) := Val(A((block_row(t) + r) * k + k0 + c))>>
      copy_b(t, k0, i) == LET r == i \div BN
                              c == i % BN
                          IN <<Bs(t, r * LDB + c) := Val(B((k0 + r) * n + block_col(t) + c))>>
      load(t, k0) == Loop(Stride(Tid(t), BM * BK, NUM_THREADS), LAMBDA i : copy_a(t, k0, i))
                     \o Loop(Stride(Tid(t), BK * BN, NUM_THREADS), LAMBDA i : copy_b(t, k0, i))
      multiply(t, kk) ==
        [i \in 1 .. WTILE_M |->
           a_frag(t, i - 1) := Val(As(t, (warp_m(t) * WTILE_M + i - 1) * LDA + kk))]
        \o [j \in 1 .. WTILE_N |->
              b_frag(t, j - 1) := Val(Bs(t, kk * LDB + warp_n(t) * WTILE_N + j - 1))]
        \o Tiles(LAMBDA i, j : mma_sync(t, acc(t, i, j), a_frag(t, i), b_frag(t, j)))
      row(t, i) == block_row(t) + warp_m(t) * WTILE_M + i
      col(t, j) == block_col(t) + warp_n(t) * WTILE_N + j
      steps ==
        Each(T, LAMBDA t : Tiles(LAMBDA i, j : <<acc(t, i, j) := Zero>>))
        \o Loop(Stride(0, k, BK), LAMBDA k0 :
             Each(T, LAMBDA t : load(t, k0)) \o Sync(T)
             \o Each(T, LAMBDA t : Loop(Count(BK), LAMBDA kk : multiply(t, kk))) \o Sync(T))
        \o Each(T, LAMBDA t : Tiles(LAMBDA i, j : <<Out(row(t, i) * n + col(t, j)) := Val(acc(t, i, j))>>))
      memory == Array("out", 0, m * n)
                  \cup UNION {Array("As", t[1], BM * LDA) \cup Array("Bs", t[1], BK * LDB) : t \in T}
  IN Compile(T, 1, memory, Factors(m, n, k), {}, steps, cublas_reference(m, n, k), {})

\* v1: a step of one tile along K and one tile per warp.
matmul_v1(m, n, k, BM, BN) == SmemMatmul(m, n, k, BM, BN, 1, 1, 1, 0)

\* v2: a deeper step and several tiles per warp.
matmul_v2(m, n, k, BM, BN, BK, WTILE_M, WTILE_N) == SmemMatmul(m, n, k, BM, BN, BK, WTILE_M, WTILE_N, 0)

\* v3: padded rows.
matmul_v3(m, n, k, BM, BN, BK, WTILE_M, WTILE_N, PAD) ==
  SmemMatmul(m, n, k, BM, BN, BK, WTILE_M, WTILE_N, PAD)

\* v4: the same with a step twice as deep.
matmul_v4(m, n, k, BM, BN, BK, WTILE_M, WTILE_N, PAD) ==
  matmul_v3(m, n, k, BM, BN, 2 * BK, WTILE_M, WTILE_N, PAD)
=============================================================================
