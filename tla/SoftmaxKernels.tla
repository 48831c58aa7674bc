---------------------------- MODULE SoftmaxKernels ----------------------------
(***************************************************************************)
(* Softmax over one vector, and v1 to v6 of softmax over the rows of a     *)
(* matrix of M rows with N columns.                                        *)
(***************************************************************************)
EXTENDS AsyncSteps

Elements(row, N) == {<<i>> : i \in row * N .. row * N + N - 1}

\* The reference: exp(x - max) over the sum of the exponentials of the row.
cpu_softmax(M, N) ==
  [c \in Array("out", 0, M * N) |->
     LET all == Elements(c[3] \div N, N)
     IN {<< <<c[3], all>>, {<<x[1], all>> : x \in all} >>}]

\* What rank 0 of a group does with the group's result.
Put(who, rank, reg, cell) ==
  Each({t \in who : rank[t] = 0}, LAMBDA t : <<cell[t] := Val(Reg(reg, t))>>)

(***************************************************************************)
(* One vector: the maximum by atomicMaxFloat, the sum by atomicAdd.        *)
(***************************************************************************)
atomicMaxFloat(who, address, reg) ==
  Atomically(who, LAMBDA t : <<Reg("old", t) := Val(address)>>)
  \o Cas(who, LAMBDA t : address, LAMBDA t : Reg("old", t),
         LAMBDA t : Op("max", <<Reg(reg, t), Reg("old", t)>>))

softmax_1d(N, blocks, size, W) ==
  LET T == Threads(blocks, size)
      idx(t) == Blk(t) * size + Tid(t)
      max_val == Cell("scalar", 0, 0)
      sum == Cell("scalar", 0, 1)
      val(t) == Reg("val", t)
      max_mem == Shared("max_mem", T, size \div W)
      sum_mem == Shared("sum_mem", T, size \div W)
      max_kernel ==
        Each(T, LAMBDA t : <<val(t) := IF idx(t) < N THEN Val(In(idx(t))) ELSE Zero>>)
        \o BlockReduce(T, T, Tids(T), W, size \div W, "val", "max", Zero, max_mem)
        \o atomicMaxFloat(First(1, T), max_val, "val")
      sum_kernel ==
        Each(T, LAMBDA t : <<val(t) := IF idx(t) < N THEN Op("exp", <<In(idx(t)), max_val>>) ELSE Zero>>)
        \o BlockReduce(T, T, Tids(T), W, size \div W, "val", "sum", Zero, sum_mem)
        \o Atomically(First(1, T), LAMBDA t : <<sum := sum ++ val(t)>>)
      softmax_kernel ==
        Each(T, LAMBDA t : If(idx(t) < N,
          <<Out(idx(t)) := Op("normalised", <<In(idx(t)), max_val, sum>>)>>))
      memory == Array("out", 0, N) \cup Array("scalar", 0, 2)
                  \cup UNION {Array(name, b, size \div W) :
                                name \in {"max_mem", "sum_mem"}, b \in 0 .. blocks - 1}
  IN Compile(T, W, memory, Inputs(N), {max_val, sum},
             max_kernel \o NewLaunch(T) \o sum_kernel \o NewLaunch(T) \o softmax_kernel,
             cpu_softmax(1, N), {})

(***************************************************************************)
(* v1: a block per row and three passes.                                   *)
(***************************************************************************)
softmax_v1(M, N, size, W) ==
  LET T == Threads(M, size)
      x(t) == In(Blk(t) * N + Tid(t))
      rowmax(t) == Cell("rowmax", 0, Blk(t))
      rowsum(t) == Cell("rowsum", 0, Blk(t))
      val(t) == Reg("val", t)
      row_max_kernel ==
        Each(T, LAMBDA t : <<val(t) := IF Tid(t) < N THEN Val(x(t)) ELSE Zero>>)
        \o BlockReduce(T, T, Tids(T), W, size \div W, "val", "max", Zero, Shared("max_mem", T, size \div W))
        \o Put(T, Tids(T), "val", [t \in T |-> rowmax(t)])
      row_sum_kernel ==
        Each(T, LAMBDA t : <<val(t) := IF Tid(t) < N THEN Op("exp", <<x(t), rowmax(t)>>) ELSE Zero>>)
        \o BlockReduce(T, T, Tids(T), W, size \div W, "val", "sum", Zero, Shared("sum_mem", T, size \div W))
        \o Put(T, Tids(T), "val", [t \in T |-> rowsum(t)])
      softmax_kernel ==
        Each(T, LAMBDA t : If(Tid(t) < N,
          <<Out(Blk(t) * N + Tid(t)) := Op("normalised", <<x(t), rowmax(t), rowsum(t)>>)>>))
      memory == Array("out", 0, M * N) \cup Array("rowmax", 0, M) \cup Array("rowsum", 0, M)
                  \cup UNION {Array(name, b, size \div W) : name \in {"max_mem", "sum_mem"}, b \in 0 .. M - 1}
  IN Compile(T, W, memory, Inputs(M * N), {},
             row_max_kernel \o NewLaunch(T) \o row_sum_kernel \o NewLaunch(T) \o softmax_kernel,
             cpu_softmax(M, N), {})

(***************************************************************************)
(* v2 to v4: the online pair (m, s), then one pass that normalises.  A row *)
(* has `per` threads with VEC elements each, a block has `rows` rows.  The *)
(* arrays of m and of s are one array of pairs here.                       *)
(***************************************************************************)
Rank(t, per) == Tid(t) % per
Row(t, per, rows) == Blk(t) * rows + Tid(t) \div per

Online(M, N, per, rows, VEC, W, local(_, _)) ==
  LET T == Threads(Ceil(M, rows), per * rows)
      active == {t \in T : Row(t, per, rows) < M}
      rank == [t \in T |-> Rank(t, per)]
      xs(t) == SelectSeq([k \in 1 .. VEC |-> rank[t] * VEC + k - 1], LAMBDA i : i < N)
      at(t, i) == Row(t, per, rows) * N + i
      partial == [t \in T, i \in 0 .. per \div W - 1 |->
                    Cell("sm", Blk(t), (Tid(t) \div per) * (per \div W) + i)]
      rowms == [t \in T |-> Cell("rowms", 0, Row(t, per, rows))]
      row_ms_kernel ==
        Each(active, LAMBDA t : local(t, [k \in DOMAIN xs(t) |-> In(at(t, xs(t)[k]))]))
        \o BlockReduce(active, active, rank, W, per \div W, "ms", "online", Op("neutral", <<>>), partial)
        \o Put(active, rank, "ms", rowms)
      softmax_kernel ==
        Each(active, LAMBDA t : [k \in DOMAIN xs(t) |->
          Out(at(t, xs(t)[k])) := Op("softmax", <<In(at(t, xs(t)[k])), rowms[t]>>)])
      memory == Array("out", 0, M * N) \cup Array("rowms", 0, M)
                  \cup UNION {Array("sm", t[1], rows * (per \div W)) : t \in T}
  IN Compile(T, W, memory, Inputs(M * N), {}, row_ms_kernel \o NewLaunch(T) \o softmax_kernel,
             cpu_softmax(M, N), {})

\* v2: the pair of the thread's one element, or the neutral pair.
softmax_v2(M, N, size, W) ==
  Online(M, N, size, 1, 1, W, LAMBDA t, xs :
    <<Reg("ms", t) := IF xs = <<>> THEN Op("neutral", <<>>) ELSE Op("one", xs)>>)

\* v3, v4: the thread's elements are merged one after another.
MergeAll(t, xs) ==
  <<Reg("ms", t) := Op("neutral", <<>>)>>
  \o FlattenSeq([k \in DOMAIN xs |->
       <<Reg("one", t) := Op("one", <<xs[k]>>),
         Reg("ms", t) := Op("online", <<Reg("ms", t), Reg("one", t)>>)>>])

softmax_v3(M, VEC, WPR, W) == Online(M, VEC * WPR * W, WPR * W, 1, VEC, W, MergeAll)
softmax_v4(M, rows, VEC, WPR, W) == Online(M, VEC * WPR * W, WPR * W, rows, VEC, W, MergeAll)

(***************************************************************************)
(* v5, v6: one pass.  A thread takes the exponentials of its elements      *)
(* relative to its own maximum, and rescales them when the row is known.   *)
(***************************************************************************)
OwnPair(t, xs) ==
  LET exps == [k \in DOMAIN xs |-> Elem(t, k)]
  IN <<Reg("m_local", t) := Op("max", xs)>>
     \o [k \in DOMAIN xs |-> Elem(t, k) := Op("exp", <<xs[k], Reg("m_local", t)>>)]
     \o <<Reg("s_local", t) := Sum(exps),
          Reg("ms", t) := Op("pair", <<Reg("m_local", t), Reg("s_local", t)>>)>>

RescaleOut(t, outs, final) ==
  [k \in DOMAIN outs |-> outs[k] := Op("rescaled", <<Elem(t, k), Reg("m_local", t), final>>)]

softmax_v5(M, rows, VEC, WPR, W) ==
  LET per == WPR * W
      N == VEC * per
      T == Threads(Ceil(M, rows), per * rows)
      active(t) == Row(t, per, rows) < M
      rank == [t \in T |-> Rank(t, per)]
      mine(array, t) == [k \in 1 .. VEC |-> Cell(array, 0, Row(t, per, rows) * N + rank[t] * VEC + k - 1)]
      partial == [t \in T, i \in 0 .. WPR - 1 |-> Cell("sm", Blk(t), (Tid(t) \div per) * WPR + i)]
      final == [t \in T |-> Cell("sm_f", Blk(t), Tid(t) \div per)]
      idle(t) == <<Reg("ms", t) := Op("neutral", <<>>)>>
      steps ==
        Each(T, LAMBDA t : IF active(t) THEN OwnPair(t, mine("in", t)) ELSE idle(t))
        \o BlockReduce(T, T, rank, W, WPR, "ms", "online", Op("neutral", <<>>), partial)
        \o Put(T, rank, "ms", final) \o Sync(T)
        \o Each({t \in T : active(t)}, LAMBDA t : RescaleOut(t, mine("out", t), final[t]))
      memory == Array("out", 0, M * N)
                  \cup UNION {Array("sm", t[1], rows * WPR) \cup Array("sm_f", t[1], rows) : t \in T}
  IN Compile(T, W, memory, Inputs(M * N), {}, steps, cpu_softmax(M, N), {})

\* v6: warp 0 asks the copy engine for the tile and the others wait for the
\* mbarrier, which needs its arrival and the bytes.  Only the stores are guarded:
\* the tile is loaded whole, so M must be a multiple of ROWS.
softmax_v6(M, ROWS, VEC, WPR, W) ==
  LET per == WPR * W
      N == VEC * per
      grid == Ceil(M, ROWS)
      T == Threads(grid, W + ROWS * per)
      tma == Engines(grid, 1)
      producer == First(1, T)
      consumers == {t \in T : Tid(t) >= W}
      rowInTile(t) == (Tid(t) - W) \div per
      rank == [t \in consumers |-> (Tid(t) - W) % per]
      tile(t) == Home(t) * ROWS * N
      mine(t) == [k \in 1 .. VEC |-> rowInTile(t) * N + rank[t] * VEC + k - 1]
      partial == [t \in consumers, i \in 0 .. WPR - 1 |-> Cell("sm", Blk(t), rowInTile(t) * WPR + i)]
      final == [t \in consumers |-> Cell("sm_f", Blk(t), rowInTile(t))]
      steps ==
        InitBarriers(producer, "mbar", 1, 2) \o Sync(T)
        \o Atomically(producer, LAMBDA t : <<Raise(Issued(t, 0))>>)
        \o Arrivals(producer, "mbar", 0)
        \o Landing(tma, LAMBDA e :
             [k \in 1 .. ROWS * N |-> Smem(e, k - 1) := Val(In(tile(e) + k - 1))], "mbar", 1)
        \o WaitFor(consumers, "mbar", 0, 0)
        \o Each(consumers, LAMBDA t : OwnPair(t, [k \in 1 .. VEC |-> Smem(t, mine(t)[k])]))
        \o BlockReduce(consumers, T, rank, W, WPR, "ms", "online", Op("neutral", <<>>), partial)
        \o Put(consumers, rank, "ms", final) \o Sync(T)
        \o Each({t \in consumers : Blk(t) * ROWS + rowInTile(t) < M}, LAMBDA t :
             RescaleOut(t, [k \in 1 .. VEC |-> Out(tile(t) + mine(t)[k])], final[t]))
      memory == Array("out", 0, M * N) \cup SmemOf(grid, ROWS * N) \cup BarriersOf("mbar", grid, 1)
                  \cup UNION {Array("sm", b, ROWS * WPR) \cup Array("sm_f", b, ROWS) : b \in 0 .. grid - 1}
  IN Compile(T \cup tma, W, memory, Inputs(M * N) @@ Constants, IssuedOf(grid, 1), steps,
             cpu_softmax(M, N), {})
=============================================================================
