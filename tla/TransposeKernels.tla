--------------------------- MODULE TransposeKernels ---------------------------
(***************************************************************************)
(* Transposition of a matrix of M rows with N columns, v0 to v5.  A block  *)
(* has TILE by TILE threads; thread (x, y) has number y * TILE + x, and    *)
(* the block (bx, by) of a grid with `wide` blocks per row by * wide + bx. *)
(***************************************************************************)
EXTENDS KernelSteps

X(t, TILE) == Tid(t) % TILE
Y(t, TILE) == Tid(t) \div TILE

\* The blocks that cover rows by cols places, the place a thread of such a grid
\* stands for, and its place in the mirror image of its block.
Cover(rows, cols, TILE) == Threads(Ceil(cols, TILE) * Ceil(rows, TILE), TILE * TILE)
Row(t, cols, TILE) == (Blk(t) \div Ceil(cols, TILE)) * TILE + Y(t, TILE)
Col(t, cols, TILE) == (Blk(t) % Ceil(cols, TILE)) * TILE + X(t, TILE)
MirrorRow(t, cols, TILE) == (Blk(t) % Ceil(cols, TILE)) * TILE + Y(t, TILE)
MirrorCol(t, cols, TILE) == (Blk(t) \div Ceil(cols, TILE)) * TILE + X(t, TILE)

\* The threads that have an element there.
OnMatrix(rows, cols, TILE) ==
  {t \in Cover(rows, cols, TILE) : Row(t, cols, TILE) < rows /\ Col(t, cols, TILE) < cols}
OnMirror(rows, cols, TILE) ==
  {t \in Cover(rows, cols, TILE) : MirrorRow(t, cols, TILE) < cols /\ MirrorCol(t, cols, TILE) < rows}

\* Each thread t copies cell from[t] to cell to[t].
Copy(to, from) == Each(DOMAIN to, LAMBDA t : <<to[t] := Val(from[t])>>)

\* The reference: output[col][row] = input[row][col].
cpu_transpose(M, N) ==
  [c \in Array("out", 0, M * N) |-> Input((c[3] % M) * N + c[3] \div M)]

(***************************************************************************)
(* v0 to v2: a thread moves one element.  The grid has the shape of what   *)
(* the rows of threads run along: the input in v0, the output in v1, v2.   *)
(***************************************************************************)
RowMajor(rows, cols) == [p \in (0 .. rows - 1) \X (0 .. cols - 1) |-> p[1] * cols + p[2]]
Transposed(rows, cols) == [p \in (0 .. rows - 1) \X (0 .. cols - 1) |-> p[2] * rows + p[1]]

Move(M, N, TILE, rows, cols, from, to) ==
  LET mine(f, t) == f[<<Row(t, cols, TILE), Col(t, cols, TILE)>>]
  IN Compile(Cover(rows, cols, TILE), TILE, Array("out", 0, M * N), Inputs(M * N), {},
             Copy([t \in OnMatrix(rows, cols, TILE) |-> Out(mine(to, t))],
                  [t \in OnMatrix(rows, cols, TILE) |-> In(mine(from, t))]),
             cpu_transpose(M, N), {})

device_transpose_v0(M, N, TILE) ==
  Move(M, N, TILE, M, N, RowMajor(M, N), Transposed(M, N))

device_transpose_v1(M, N, TILE) ==
  Move(M, N, TILE, N, M, Transposed(N, M), RowMajor(N, M))

\* __ldg only names the cache the load goes through.
device_transpose_v2(M, N, TILE) == device_transpose_v1(M, N, TILE)

(***************************************************************************)
(* v3 to v5: through a tile in shared memory, S[i][j] at slot[i, j], so    *)
(* that rows are both read and written.                                    *)
(***************************************************************************)
Slots(TILE, ld) == [p \in (0 .. TILE - 1) \X (0 .. TILE - 1) |-> p[1] * ld + p[2]]

Through(M, N, TILE, slots, slot, banked) ==
  LET T == Cover(M, N, TILE)
      S(t, i, j) == Cell("S", Blk(t), slot[<<i, j>>])
      load == Copy([t \in OnMatrix(M, N, TILE) |-> S(t, Y(t, TILE), X(t, TILE))],
                   [t \in OnMatrix(M, N, TILE) |-> In(Row(t, N, TILE) * N + Col(t, N, TILE))])
      store == Copy([t \in OnMirror(M, N, TILE) |-> Out(MirrorRow(t, N, TILE) * M + MirrorCol(t, N, TILE))],
                    [t \in OnMirror(M, N, TILE) |-> S(t, X(t, TILE), Y(t, TILE))])
      tiles == UNION {Array("S", b, slots) : b \in 0 .. Ceil(N, TILE) * Ceil(M, TILE) - 1}
  IN Compile(T, TILE, Array("out", 0, M * N) \cup tiles, Inputs(M * N), {}, load \o Sync(T) \o store,
             cpu_transpose(M, N), banked)

\* v3: a column of the tile lies in one bank.
device_transpose_v3(M, N, TILE) ==
  Through(M, N, TILE, TILE * TILE, Slots(TILE, TILE), {})

\* v4: a row of the tile is one slot longer.
device_transpose_v4(M, N, TILE) ==
  Through(M, N, TILE, TILE * (TILE + 1), Slots(TILE, TILE + 1), {"S"})

\* The exclusive or of two numbers, bit by bit from the lowest.
Xor[p \in Nat \X Nat] ==
  IF p[1] + p[2] = 0 THEN 0 ELSE (2 * Xor[<<p[1] \div 2, p[2] \div 2>>]) + ((p[1] + p[2]) % 2)

\* v5: the columns of a row are permuted with xor.
device_transpose_v5(M, N, TILE) ==
  Through(M, N, TILE, TILE * TILE,
          [p \in (0 .. TILE - 1) \X (0 .. TILE - 1) |-> p[1] * TILE + Xor[p]], {"S"})

\* The three of cute_01, the first without a tile, the others written with a
\* layout: its strides are TILE and 1, or TILE + 1 and 1.
transpose_naive(M, N, TILE) == device_transpose_v0(M, N, TILE)
transpose_tiled_cute(M, N, TILE) == device_transpose_v3(M, N, TILE)
transpose_tiled_padded(M, N, TILE) == device_transpose_v4(M, N, TILE)
=============================================================================
