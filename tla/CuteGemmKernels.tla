--------------------------- MODULE CuteGemmKernels ---------------------------
(***************************************************************************)
(* C = A * transposed B with the MMA atoms of CuTe (cute_05, and v0 and v1 *)
(* of cute_06), without a pipeline.  The unit of every size is one atom    *)
(* and a thread here is a warp there.                                      *)
(***************************************************************************)
EXTENDS AsyncSteps

A(i) == Cell("in", 0, i)
B(i) == Cell("b", 0, i)
Factors(M, N, K) == Inputs(M * K) @@ [c \in Array("b", 0, N * K) |-> Input(M * K + c[3])]

\* The reference: both factors have their rows along K.
gemm_cpu(M, N, K) ==
  [c \in Array("out", 0, M * N) |->
     {<<(c[3] \div N) * K + k, M * K + (c[3] % N) * K + k>> : k \in 0 .. K - 1}]

\* Blocks of BM by BN atoms; the WM by WN warps of a block take every WM-th row
\* and every WN-th column of them.
Tiling(M, N, K, BM, BN, BK, WM, WN) ==
  LET wide == N \div BN
  IN [M |-> M, N |-> N, K |-> K, BM |-> BM, BN |-> BN, BK |-> BK,
      nk |-> K \div BK, nthr |-> WM * WN, blocks |-> (M \div BM) * wide,
      T |-> Threads((M \div BM) * wide, WM * WN),
      row |-> [b \in 0 .. (M \div BM) * wide - 1 |-> (b \div wide) * BM],
      col |-> [b \in 0 .. (M \div BM) * wide - 1 |-> (b % wide) * BN],
      atoms |-> [w \in 0 .. WM * WN - 1 |->
                   Loop(Stride(w \div WN, BM, WM), LAMBDA i :
                     LET cols == Stride(w % WN, BN, WN)
                     IN [j \in DOMAIN cols |-> <<i, cols[j]>>])]]

Acc(g, t, p) == Elem(t, p[1] * g.BN + p[2])
AtomsOf(g, t) == g.atoms[Tid(t)]
clear(g) == Each(g.T, LAMBDA t : [x \in DOMAIN AtomsOf(g, t) |-> Acc(g, t, AtomsOf(g, t)[x]) := Zero])

\* The atoms of one step along K, operands from where a and b say.  The wait
\* right behind a warpgroup's commit makes its asynchronous MMA one step too.
MultiplyFrom(g, t, a(_, _), b(_, _)) ==
  Loop(AtomsOf(g, t), LAMBDA p : Loop(Count(g.BK), LAMBDA kk :
    <<Reg("p", t) := Op("times", <<a(p[1], kk), b(p[2], kk)>>),
      Acc(g, t, p) := Acc(g, t, p) ++ Reg("p", t)>>))

WriteBack(g) ==
  Each(g.T, LAMBDA t : [x \in DOMAIN AtomsOf(g, t) |->
    LET p == AtomsOf(g, t)[x]
    IN Out((g.row[Blk(t)] + p[1]) * g.N + g.col[Blk(t)] + p[2]) := Val(Acc(g, t, p))])

Launch(g, engines, memory, flags, program) ==
  Compile(g.T \cup engines, 1, memory \cup Array("out", 0, g.M * g.N),
          Factors(g.M, g.N, g.K) @@ Constants, flags, clear(g) \o program \o WriteBack(g),
          gemm_cpu(g.M, g.N, g.K), {})

\* cute_06 v0, and with one step along K cute_05 v0: from global memory.
gemm_naive(g) ==
  LET fromGlobal(t, k) ==
        MultiplyFrom(g, t, LAMBDA i, kk : A((g.row[Blk(t)] + i) * g.K + k * g.BK + kk),
                           LAMBDA j, kk : B((g.col[Blk(t)] + j) * g.K + k * g.BK + kk))
  IN Launch(g, {}, {}, {}, Loop(Count(g.nk), LAMBDA k : Each(g.T, LAMBDA t : fromGlobal(t, k))))

\* The tiles of one step in shared memory.
SA(t, i) == Cell("sA", Home(t), i)
SB(t, i) == Cell("sB", Home(t), i)
TilesOf(g) == UNION {Array("sA", b, g.BM * g.BK) \cup Array("sB", b, g.BN * g.BK) : b \in 0 .. g.blocks - 1}
ElementA(g, t, k, i) == SA(t, i) := Val(A((g.row[Home(t)] + i \div g.BK) * g.K + k * g.BK + (i % g.BK)))
ElementB(g, t, k, i) == SB(t, i) := Val(B((g.col[Home(t)] + i \div g.BK) * g.K + k * g.BK + (i % g.BK)))
FromShared(g) ==
  Each(g.T, LAMBDA t :
    MultiplyFrom(g, t, LAMBDA i, kk : SA(t, i * g.BK + kk), LAMBDA j, kk : SB(t, j * g.BK + kk)))

\* cute_06 v1: the threads bring the tiles.
gemm_smem(g) ==
  LET bring(t, k) ==
        Loop(Stride(Tid(t), g.BM * g.BK, g.nthr), LAMBDA i : <<ElementA(g, t, k, i)>>)
        \o Loop(Stride(Tid(t), g.BN * g.BK, g.nthr), LAMBDA i : <<ElementB(g, t, k, i)>>)
  IN Launch(g, {}, TilesOf(g), {},
            Loop(Count(g.nk), LAMBDA k :
              Each(g.T, LAMBDA t : bring(t, k)) \o Sync(g.T) \o FromShared(g) \o Sync(g.T)))

\* cute_05 v2 and its capstone: one lane asks for both tiles, which report to one
\* barrier in turn; copy 2 * k brings the tile of A of step k, the next that of B.
gemm_tma_load(g) ==
  LET tma == Engines(g.blocks, 2 * g.nk)
      leader == First(1, g.T)
      bring(e) == LET k == Tid(e) \div 2
                  IN IF Tid(e) % 2 = 0
                     THEN [i \in 1 .. g.BM * g.BK |-> ElementA(g, e, k, i - 1)]
                     ELSE [i \in 1 .. g.BN * g.BK |-> ElementB(g, e, k, i - 1)]
      ask(t, k) == <<Arrive(Barrier(t, "bar", 0)), Raise(Issued(t, 2 * k)), Raise(Issued(t, 2 * k + 1))>>
  IN Launch(g, tma, TilesOf(g) \cup BarriersOf("bar", g.blocks, 1), IssuedOf(g.blocks, 2 * g.nk),
            InitBarriers(leader, "bar", 1, 3) \o Sync(g.T)
            \o Loop(Count(g.nk), LAMBDA k :
                 Atomically(leader, LAMBDA t : ask(t, k)) \o WaitFor(g.T, "bar", 0, k % 2)
                 \o FromShared(g) \o Sync(g.T))
            \o Landing(tma, bring, "bar", 1))
=============================================================================
