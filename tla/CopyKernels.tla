----------------------------- MODULE CopyKernels -----------------------------
(***************************************************************************)
(* The copies and transpositions of cute_03 and cute_04: by the threads,   *)
(* by cp.async and by the TMA engine, in one buffer or in a ring of them.  *)
(***************************************************************************)
EXTENDS AsyncSteps, Bitwise

(***************************************************************************)
(* cute_04: a matrix of M rows with N columns in tiles of CM by CN, one    *)
(* for each block of NTHR threads.  Element i of a tile has its place in   *)
(* the matrix, and in shared memory the slot a layout gives it.            *)
(***************************************************************************)
Matrix(M, N, CM, CN, NTHR) ==
  LET wide == Ceil(N, CN)
      blocks == Ceil(M, CM) * wide
      row(b, i) == (b \div wide) * CM + i \div CN
      col(b, i) == (b % wide) * CN + (i % CN)
      PerElement(F(_, _)) == Table([b \in 0 .. blocks - 1, i \in 0 .. CM * CN - 1 |-> F(b, i)])
  IN [M |-> M, N |-> N, CN |-> CN, nthr |-> NTHR, tile |-> CM * CN, blocks |-> blocks,
      T |-> Threads(blocks, NTHR), tma |-> Engines(blocks, 1), store |-> Engines(blocks, 2) \ Engines(blocks, 1),
      at |-> PerElement(LAMBDA b, i : row(b, i) * N + col(b, i)),
      inside |-> PerElement(LAMBDA b, i : row(b, i) < M /\ col(b, i) < N),
      \* The tile of the transposed matrix that takes this one's place.
      swapped |-> PerElement(LAMBDA b, i : ((b % wide) * CN + i \div CN) * M + (b \div wide) * CM + (i % CN)),
      swappedInside |-> PerElement(LAMBDA b, i :
        (b % wide) * CN + i \div CN < N /\ (b \div wide) * CM + (i % CN) < M)]

\* Layouts: plain rows, and rows whose columns are permuted with xor (SW128).
Plain(g) == [i \in 0 .. g.tile - 1 |-> i]
Swizzled(g) == [i \in 0 .. g.tile - 1 |-> (i \div g.CN) * g.CN + ((i % g.CN) ^^ (i \div g.CN))]
Mirror(g, i) == (i % g.CN) * g.CN + i \div g.CN    \* sT(c, r) for sT(r, c)

Mine(g, t) == Stride(Tid(t), g.tile, g.nthr)
Source(g, t, i) == In(g.at[Home(t), i])
Leader(g) == First(1, g.T)

LoadByThreads(g, slot) ==
  Each(g.T, LAMBDA t : Loop(Mine(g, t), LAMBDA i : <<Smem(t, slot[i]) := Val(Source(g, t, i))>>))
  \o Sync(g.T)

\* The engine fills what lies outside the matrix with zeros.
LoadByTma(g, slot) ==
  LET fill(e, i) == Smem(e, slot[i - 1]) := IF g.inside[Home(e), i - 1] THEN Val(Source(g, e, i - 1)) ELSE Zero
  IN InitBarriers(Leader(g), "bar", 1, 2) \o Sync(g.T)
     \o AskFor(Leader(g), "bar", 0, 0)
     \o Landing(g.tma, LAMBDA e : [i \in 1 .. g.tile |-> fill(e, i)], "bar", 1)
     \o Sync(g.T) \o WaitFor(g.T, "bar", 0, 0)

StoreByThreads(g, slot) ==
  Each(g.T, LAMBDA t : Loop(Mine(g, t), LAMBDA i : <<Out(g.at[Blk(t), i]) := Val(Smem(t, slot[i]))>>))

\* Element r, c of the target tile is element c, r of this one.
TransposeByThreads(g, slot) ==
  Each(g.T, LAMBDA t : Loop(Mine(g, t), LAMBDA i :
    <<Out(g.swapped[Blk(t), i]) := Val(Smem(t, slot[Mirror(g, i)]))>>))

TransposeInPlace(g, slot) ==
  LET tmp(t, i) == Cell("tmp", Blk(t), i)
  IN Each(g.T, LAMBDA t : Loop(Mine(g, t), LAMBDA i : <<tmp(t, i) := Val(Smem(t, slot[Mirror(g, i)]))>>))
     \o Sync(g.T)
     \o Each(g.T, LAMBDA t : Loop(Mine(g, t), LAMBDA i : <<Smem(t, slot[i]) := Val(tmp(t, i))>>))
     \o Sync(g.T)

\* The engine does not write what lies outside the matrix.
StoreByTma(g, slot, at, inside) ==
  StoreBehind(Leader(g), g.store, 1, g.tile, LAMBDA e, i :
    If(inside[Home(e), i], <<Out(at[Home(e), i]) := Val(Elem(e, slot[i]))>>))

OnTiles(g, outs, program, result) ==
  LET memory == Array("out", 0, outs) \cup SmemOf(g.blocks, g.tile) \cup SeenOf(g.blocks, g.tile)
                  \cup BarriersOf("bar", g.blocks, 1)
                  \cup UNION {Array("tmp", b, g.tile) : b \in 0 .. g.blocks - 1}
      flags == IssuedOf(g.blocks, 2) \cup UNION {Array("read", b, 1) : b \in 0 .. g.blocks - 1}
  IN Compile(g.T \cup g.tma \cup g.store, 1, memory, Inputs(g.M * g.N) @@ Constants, flags, program, result, {})

Copied(g) == [c \in Array("out", 0, g.M * g.N) |-> Input(c[3])]
Transposed(g) == [c \in Array("out", 0, g.M * g.N) |-> Input((c[3] % g.M) * g.N + c[3] \div g.M)]

copy_warp_kernel(g) == OnTiles(g, g.M * g.N, LoadByThreads(g, Plain(g)) \o StoreByThreads(g, Plain(g)), Copied(g))
copy_tma_kernel(g) == OnTiles(g, g.M * g.N, LoadByTma(g, Plain(g)) \o StoreByThreads(g, Plain(g)), Copied(g))
tma_swizzle_kernel(g) ==
  OnTiles(g, g.M * g.N, LoadByTma(g, Swizzled(g)) \o StoreByThreads(g, Swizzled(g)), Copied(g))

\* Every element is its own index; the tile goes out through the engine.
store_only_kernel(g) ==
  LET index(t) == Loop(Mine(g, t), LAMBDA i : <<Smem(t, i) := Val(Const(g.at[Blk(t), i]))>>)
  IN OnTiles(g, g.M * g.N, Each(g.T, index) \o Sync(g.T) \o StoreByTma(g, Plain(g), g.at, g.inside), Copied(g))

\* In through the engine, squared by the threads, out through the engine.
load_store_kernel(g) ==
  LET square(t) == Loop(Mine(g, t), LAMBDA i : <<Smem(t, i) := Op("times", <<Smem(t, i), Smem(t, i)>>)>>)
  IN OnTiles(g, g.M * g.N,
             LoadByTma(g, Plain(g)) \o Each(g.T, square) \o Sync(g.T) \o StoreByTma(g, Plain(g), g.at, g.inside),
             [c \in Array("out", 0, g.M * g.N) |-> {<<c[3], c[3]>>}])

\* Tiles that reach over the edge: shared memory is -1 first, then what came in
\* is written out tile by tile.
oob_kernel(g) ==
  LET poison(t) == Loop(Mine(g, t), LAMBDA i : <<Smem(t, i) := Op("unknown", <<>>)>>)
      dump(t) == Loop(Mine(g, t), LAMBDA i : <<Out(Blk(t) * g.tile + i) := Val(Smem(t, i))>>)
      result == [c \in Array("out", 0, g.blocks * g.tile) |->
                   LET b == c[3] \div g.tile
                       i == c[3] % g.tile
                   IN IF g.inside[b, i] THEN Input(g.at[b, i]) ELSE {}]
  IN OnTiles(g, g.blocks * g.tile, Each(g.T, poison) \o Sync(g.T) \o LoadByTma(g, Plain(g)) \o Each(g.T, dump), result)

\* The capstone's transpositions: who loads, in which layout, who stores.
transpose_t1_kernel(g) ==
  OnTiles(g, g.M * g.N, LoadByThreads(g, Plain(g)) \o TransposeByThreads(g, Plain(g)), Transposed(g))
transpose_t2_kernel(g) ==
  OnTiles(g, g.M * g.N, LoadByThreads(g, Swizzled(g)) \o TransposeByThreads(g, Swizzled(g)), Transposed(g))
transpose_t3_kernel(g) ==
  OnTiles(g, g.M * g.N, LoadByTma(g, Plain(g)) \o TransposeByThreads(g, Plain(g)), Transposed(g))
transpose_t4_kernel(g) ==
  OnTiles(g, g.M * g.N, LoadByTma(g, Swizzled(g)) \o TransposeByThreads(g, Swizzled(g)), Transposed(g))
ThereAndBack(g, slot) ==
  OnTiles(g, g.M * g.N,
          LoadByTma(g, slot) \o TransposeInPlace(g, slot) \o StoreByTma(g, slot, g.swapped, g.swappedInside),
          Transposed(g))
transpose_t5_kernel(g) == ThereAndBack(g, Swizzled(g))
transpose_t6_kernel(g) == ThereAndBack(g, Plain(g))

(***************************************************************************)
(* cute_04: one block goes through NTILE tiles of E elements in a ring of  *)
(* STAGES buffers.  full[s] needs the arrival and the bytes, empty[s] an   *)
(* arrival of every thread.                                                *)
(***************************************************************************)
Ring(NTILE, E, NTHR, STAGES, program(_, _), outs, result) ==
  LET T == Threads(1, NTHR)
      tma == Engines(1, NTILE)
      fill(e) == [i \in 1 .. E |-> Smem(e, (Tid(e) % STAGES) * E + i - 1) := Val(In(Tid(e) * E + i - 1))]
      memory == Array("out", 0, outs) \cup SmemOf(1, STAGES * E)
                  \cup BarriersOf("full", 1, STAGES) \cup BarriersOf("empty", 1, STAGES)
  IN Compile(T \cup tma, 1, memory, Inputs(NTILE * E) @@ Constants, IssuedOf(1, NTILE),
             InitBarriers(First(1, T), "full", STAGES, 2) \o program(T, First(1, T))
               \o Landing(tma, fill, "full", STAGES),
             result, {})

\* One buffer: thread 0 asks for a tile, all wait for it, use it and meet.
OneByOne(T, leader, NTILE, Use(_, _)) ==
  Sync(T)
  \o Loop(Count(NTILE), LAMBDA k :
       AskFor(leader, "full", k, 0) \o Sync(T) \o WaitFor(T, "full", 0, k % 2)
       \o Each(T, LAMBDA t : Use(t, k)) \o Sync(T))

two_tiles_kernel(E, NTHR) ==
  LET store(t, k) == Loop(Stride(Tid(t), E, NTHR), LAMBDA i : <<Out(k * E + i) := Val(Smem(t, i))>>)
  IN Ring(2, E, NTHR, 1, LAMBDA T, leader : OneByOne(T, leader, 2, store), 2 * E,
          [c \in Array("out", 0, 2 * E) |-> Input(c[3])])

\* A thread sums up what it works out from its elements; thread 0's sum goes out.
Accumulate(t, first, E, NTHR) ==
  Loop(Stride(Tid(t), E, NTHR), LAMBDA i : <<Reg("acc", t) := Reg("acc", t) ++ Smem(t, first + i)>>)
Summing(T, leader, loop) ==
  Each(T, LAMBDA t : <<Reg("acc", t) := Zero>>) \o loop
  \o Each(leader, LAMBDA t : <<Out(0) := Val(Reg("acc", t))>>)

\* Every thread's sum, of its elements of every tile.
Shares(NTILE, E, NTHR) ==
  LET share(tid) == {<<k * E + i>> : k \in 0 .. NTILE - 1, i \in {j \in 0 .. E - 1 : j % NTHR = tid}}
  IN [c \in {Out(0)} |-> share(0)] @@ [c \in {Reg("acc", t) : t \in Threads(1, NTHR)} |-> share(Tid(c[3]))]

single_kernel(NTILE, E, NTHR) ==
  Ring(NTILE, E, NTHR, 1,
       LAMBDA T, leader : Summing(T, leader,
         OneByOne(T, leader, NTILE, LAMBDA t, k : Accumulate(t, 0, E, NTHR))),
       1, Shares(NTILE, E, NTHR))

\* The ring is filled first; a buffer is refilled when every thread has said
\* that it is empty, and every thread waits for that.
pipe_kernel(NTILE, E, NTHR, STAGES) ==
  LET ahead == Min({STAGES, NTILE})
      use(T, leader, k) ==
        LET s == k % STAGES
            phase == (k \div STAGES) % 2
        IN WaitFor(T, "full", s, phase)
           \o Each(T, LAMBDA t : Accumulate(t, s * E, E, NTHR))
           \o Arrivals(T, "empty", s)
           \o If(k + STAGES < NTILE,
                 WaitFor(T, "empty", s, phase) \o AskFor(leader, "full", k + STAGES, s))
      program(T, leader) ==
        InitBarriers(leader, "empty", STAGES, NTHR) \o Sync(T)
        \o Loop(Count(ahead), LAMBDA s : AskFor(leader, "full", s, s)) \o Sync(T)
        \o Summing(T, leader, Loop(Count(NTILE), LAMBDA k : use(T, leader, k)))
  IN Ring(NTILE, E, NTHR, STAGES, program, 1, Shares(NTILE, E, NTHR))

(***************************************************************************)
(* cute_03: n elements copied by `blocks` blocks of NTHR threads, element  *)
(* i of a round of NTHR * VEC elements by thread i / VEC.                  *)
(***************************************************************************)
Vector(t, round, NTHR, VEC) == [k \in 1 .. VEC |-> (round * NTHR + Tid(t)) * VEC + k - 1]

Memcpy(n, threads, copies, program, smem) ==
  Compile(threads \cup copies, 1, Array("out", 0, n) \cup smem, Inputs(n),
          {Issued(e, Tid(e)) : e \in copies} \cup {Landed(e, Tid(e)) : e \in copies}, program,
          [c \in Array("out", 0, n) |-> Input(c[3])], {})

memcpy_naive(n, blocks, NTHR) ==
  LET T == Threads(blocks, NTHR)
      copy(t) == Loop(Stride(Blk(t) * NTHR + Tid(t), n, blocks * NTHR), LAMBDA i : <<Out(i) := Val(In(i))>>)
  IN Memcpy(n, T, {}, Each(T, copy), {})

memcpy_vectorized(blocks, NTHR, VEC) ==
  LET T == Threads(blocks, NTHR)
      copy(t) == LET v == Vector(t, Blk(t), NTHR, VEC) IN [k \in 1 .. VEC |-> Out(v[k]) := Val(In(v[k]))]
  IN Memcpy(blocks * NTHR * VEC, T, {}, Each(T, copy), {})

\* A block's rounds base, base + 1, ... below total, in the buffers of a ring:
\* group g of thread i is copy g * NTHR + i.
Staged(blocks, NTHR, VEC, ROUNDS, total, buffers, program(_, _, _)) ==
  LET T == Threads(blocks, NTHR)
      rounds(b) == Max({0, Min({ROUNDS, total - b * ROUNDS})})
      copies == {e \in Engines(blocks, ROUNDS * NTHR) : Tid(e) \div NTHR < rounds(Home(e))}
      slot(t, g, k) == Smem(t, (g % buffers) * NTHR * VEC + (Tid(t) % NTHR) * VEC + k - 1)
      bring(e) == LET g == Tid(e) \div NTHR
                      v == Vector(<<Home(e), Tid(e) % NTHR>>, Home(e) * ROUNDS + g, NTHR, VEC)
                  IN [k \in 1 .. VEC |-> slot(e, g, k) := Val(In(v[k]))]
      write == [t \in T, g \in 0 .. ROUNDS - 1 |->
                  LET v == Vector(t, Blk(t) * ROUNDS + g, NTHR, VEC)
                  IN [k \in 1 .. VEC |-> Out(v[k]) := Val(slot(t, g, k))]]
      steps(b) == program(InBlock(b, T), rounds(b), write)
  IN Memcpy(total * NTHR * VEC, T, copies,
            Loop(Count(blocks), steps) \o Arriving(copies, bring),
            SmemOf(blocks, buffers * NTHR * VEC))

memcpy_smem(blocks, NTHR, VEC) ==
  Staged(blocks, NTHR, VEC, 1, blocks, 1, LAMBDA T, rounds, write :
    Commit(T, NTHR, 0) \o WaitGroups(T, NTHR, 1, 0) \o Sync(T) \o Each(T, LAMBDA t : write[t, 0]))

\* The next round is on its way while a thread waits for this one.
memcpy_pipelined(blocks, NTHR, VEC, ROUNDS, total) ==
  Staged(blocks, NTHR, VEC, ROUNDS, total, 2, LAMBDA T, rounds, write :
    If(rounds > 0, Commit(T, NTHR, 0))
    \o Loop(Count(rounds), LAMBDA r :
         (IF r + 1 < rounds
          THEN Commit(T, NTHR, r + 1) \o WaitGroups(T, NTHR, r + 2, 1)
          ELSE WaitGroups(T, NTHR, r + 1, 0))
         \o Sync(T) \o Each(T, LAMBDA t : write[t, r]) \o Sync(T)))
=============================================================================
