----------------------------- MODULE GemvKernels -----------------------------
(***************************************************************************)
(* cute_02: y = A * x, one row of A per thread, as programs of KernelSteps.*)
(***************************************************************************)
EXTENDS KernelSteps

A(n, i, j) == In(i * n + j)
X(j) == Cell("x", 0, j)

\* A thread's row: x is where it finds the vector.
Dot(t, i, n, x(_)) ==
  <<Reg("sum", t) := Zero>>
  \o Loop(Count(n), LAMBDA j :
       <<Reg("product", t) := Op("times", <<A(n, i, j), x(j)>>),
         Reg("sum", t) := Reg("sum", t) ++ Reg("product", t)>>)
  \o <<Out(i) := Val(Reg("sum", t))>>

Gemv(m, n, BLOCK, smem, program(_, _)) ==
  LET T == Threads(Ceil(m, BLOCK), BLOCK)
      row == [t \in T |-> Blk(t) * BLOCK + Tid(t)]
  IN Compile(T, 1, Array("out", 0, m) \cup UNION {Array("smem_x", b, smem) : b \in 0 .. Ceil(m, BLOCK) - 1},
             Inputs(m * n) @@ [c \in Array("x", 0, n) |-> Input(m * n + c[3])], {}, program(T, row),
             [c \in Array("out", 0, m) |-> {<<c[3] * n + j, m * n + j>> : j \in 0 .. n - 1}], {})

\* v0, and v1, which writes the same indices as tensors.
gemv_baseline(m, n, BLOCK) ==
  Gemv(m, n, BLOCK, 0, LAMBDA T, row :
    Each(T, LAMBDA t : If(row[t] < m, Dot(t, row[t], n, X))))

\* v2: a block first puts the vector into shared memory.  v3 is the same with
\* rows taken from a partition, which has one for every thread.
gemv_cute_smem(m, n, BLOCK) ==
  Gemv(m, n, BLOCK, n, LAMBDA T, row :
    LET smem_x(t, j) == Cell("smem_x", Blk(t), j)
        fetch(t) == Loop(Stride(Tid(t), n, BLOCK), LAMBDA j : <<smem_x(t, j) := Val(X(j))>>)
        mine(t) == LET x(j) == smem_x(t, j) IN Dot(t, row[t], n, x)
    IN Each(T, fetch) \o Sync(T) \o Each(T, LAMBDA t : If(row[t] < m, mine(t))))
=============================================================================
