---------------------------- MODULE MCThreadGrid ----------------------------
(***************************************************************************)
(* Every block and grid kernel of scan, vector_reduction, softmax, rmsnorm,*)
(* transpose and matmul, the forward pass of flash attention, and the      *)
(* transpositions, products and copies of cute, on a small shape: warps of *)
(* 2 (4 in scan v2, so that padding matters and the array is banks^2 long  *)
(* as in the code), blocks of 1 to 6 warps, two blocks where a kernel has a*)
(* grid, lanes or rows without an element, two rounds of every loop that   *)
(* repeats, two phases of every mbarrier that is used again, two repeated  *)
(* launches.                                                               *)
(***************************************************************************)
EXTENDS ThreadGrid

Scan == INSTANCE ScanKernels
Reduce == INSTANCE ReduceKernels
Softmax == INSTANCE SoftmaxKernels
Norm == INSTANCE NormKernels
Transpose == INSTANCE TransposeKernels
Matmul == INSTANCE MatmulKernels
Attention == INSTANCE AttentionKernels
Copy == INSTANCE CopyKernels
Gemv == INSTANCE GemvKernels
Gemm == INSTANCE CuteGemmKernels

Kernels ==
  [ scan_v0          |-> Scan!scan_naive_kernel(1, 4),
    scan_v1          |-> Scan!scan_work_efficient_kernel(1, 8),
    scan_v2          |-> Scan!scan_conflict_free_kernel(1, 16, 4),
    scan_v3          |-> Scan!scan_arbitrary_length(2, 4, 2, 1),
    scan_v3_rounds   |-> Scan!scan_arbitrary_length(3, 2, 2, 2),
    scan_v4          |-> Scan!scan_warp_shuffle(2, 2, 2, 1, 1),
    scan_v4_warps    |-> Scan!scan_warp_shuffle(1, 2, 2, 2, 1),
    scan_v4_rounds   |-> Scan!scan_warp_shuffle(3, 1, 2, 1, 1),
    scan_v6          |-> Scan!scan_striped(1, 2, 2, 2, 2),
    reduce_v0        |-> Reduce!reduce_v0(7, 4),
    reduce_v1        |-> Reduce!reduce_v1(7, 4),
    reduce_v2        |-> Reduce!reduce_v2(11, 4),
    reduce_v3        |-> Reduce!reduce_v3(13, 8, 4),
    reduce_v4        |-> Reduce!reduce_v4(11, 4, 2),
    reduce_v5        |-> Reduce!reduce_v5(11, 2, 4, 2),
    reduce_v6        |-> Reduce!reduce_v6(9, 2, 2, 4, 2),
    reduce_v7        |-> Reduce!reduce_v7(9, 2, 2, 4, 2, 2),
    softmax_1d       |-> Softmax!softmax_1d(3, 2, 2, 2),
    softmax_1d_warps |-> Softmax!softmax_1d(3, 1, 4, 2),
    softmax_v1       |-> Softmax!softmax_v1(2, 3, 4, 2),
    softmax_v2       |-> Softmax!softmax_v2(2, 3, 4, 2),
    softmax_v3       |-> Softmax!softmax_v3(2, 2, 2, 2),
    softmax_v4       |-> Softmax!softmax_v4(3, 2, 2, 1, 2),
    softmax_v5       |-> Softmax!softmax_v5(1, 2, 2, 2, 2),
    softmax_v6       |-> Softmax!softmax_v6(2, 2, 2, 1, 2),
    softmax_v6_warps |-> Softmax!softmax_v6(1, 1, 2, 2, 2),
    rmsnorm_v0       |-> Norm!rmsnorm_v0(2, 3, 4),
    rmsnorm_v1       |-> Norm!rmsnorm_v1(2, 3, 4, 2),
    rmsnorm_v2       |-> Norm!rmsnorm_v2(2, 2, 2),
    rmsnorm_v3       |-> Norm!rmsnorm_v3(2, 2, 2, 2),
    transpose_v0     |-> Transpose!device_transpose_v0(2, 3, 2),
    transpose_v1     |-> Transpose!device_transpose_v1(2, 3, 2),
    transpose_v2     |-> Transpose!device_transpose_v2(3, 2, 2),
    transpose_v3     |-> Transpose!device_transpose_v3(2, 3, 2),
    transpose_v4     |-> Transpose!device_transpose_v4(2, 3, 2),
    transpose_v5     |-> Transpose!device_transpose_v5(2, 3, 2),
    cute_naive       |-> Transpose!transpose_naive(2, 2, 2),
    cute_tiled       |-> Transpose!transpose_tiled_cute(2, 2, 2),
    cute_padded      |-> Transpose!transpose_tiled_padded(2, 2, 2),
    matmul_v0        |-> Matmul!matmul_v0(2, 3, 2, 2),
    matmul_v1        |-> Matmul!matmul_v1(2, 2, 2, 2, 2),
    matmul_v2        |-> Matmul!matmul_v2(2, 4, 4, 2, 2, 2, 2, 1),
    matmul_v3        |-> Matmul!matmul_v3(2, 4, 4, 2, 2, 2, 1, 2, 1),
    matmul_v4        |-> Matmul!matmul_v4(2, 2, 4, 2, 2, 1, 1, 1, 1),
    attention        |-> Attention!attn_fwd(2, 5, 2, 2),
    attention_short  |-> Attention!attn_fwd(1, 5, 4, 2),
    copy_warp        |-> Copy!copy_warp_kernel(Copy!Matrix(2, 4, 2, 2, 2)),
    copy_tma         |-> Copy!copy_tma_kernel(Copy!Matrix(2, 4, 2, 2, 2)),
    tma_swizzle      |-> Copy!tma_swizzle_kernel(Copy!Matrix(2, 2, 2, 2, 2)),
    store_only       |-> Copy!store_only_kernel(Copy!Matrix(2, 2, 2, 2, 2)),
    load_store       |-> Copy!load_store_kernel(Copy!Matrix(2, 2, 2, 2, 2)),
    oob              |-> Copy!oob_kernel(Copy!Matrix(1, 3, 2, 2, 2)),
    transpose_t1     |-> Copy!transpose_t1_kernel(Copy!Matrix(2, 4, 2, 2, 2)),
    transpose_t2     |-> Copy!transpose_t2_kernel(Copy!Matrix(2, 4, 2, 2, 2)),
    transpose_t3     |-> Copy!transpose_t3_kernel(Copy!Matrix(2, 2, 2, 2, 2)),
    transpose_t4     |-> Copy!transpose_t4_kernel(Copy!Matrix(2, 2, 2, 2, 2)),
    transpose_t5     |-> Copy!transpose_t5_kernel(Copy!Matrix(2, 2, 2, 2, 2)),
    transpose_t6     |-> Copy!transpose_t6_kernel(Copy!Matrix(1, 3, 2, 2, 2)),
    two_tiles        |-> Copy!two_tiles_kernel(2, 2),
    single           |-> Copy!single_kernel(3, 2, 2),
    pipe             |-> Copy!pipe_kernel(5, 2, 2, 2),
    pipe_deep        |-> Copy!pipe_kernel(2, 2, 2, 3),
    memcpy_naive     |-> Copy!memcpy_naive(7, 2, 2),
    memcpy_vector    |-> Copy!memcpy_vectorized(2, 2, 2),
    memcpy_smem      |-> Copy!memcpy_smem(2, 2, 1),
    memcpy_pipelined |-> Copy!memcpy_pipelined(1, 2, 1, 4, 4),
    memcpy_stages    |-> Copy!memcpy_pipelined(3, 1, 1, 2, 3),
    gemm_naive       |-> Gemm!gemm_naive(Gemm!Tiling(4, 2, 2, 2, 1, 1, 2, 1)),
    gemm_tiled       |-> Gemm!gemm_naive(Gemm!Tiling(2, 2, 1, 2, 2, 1, 2, 2)),
    gemm_smem        |-> Gemm!gemm_smem(Gemm!Tiling(2, 4, 2, 2, 2, 1, 1, 2)),
    gemm_smem_atoms  |-> Gemm!gemm_smem(Gemm!Tiling(2, 2, 4, 2, 2, 2, 2, 2)),
    gemm_tma_load    |-> Gemm!gemm_tma_load(Gemm!Tiling(2, 1, 3, 2, 1, 1, 2, 1)),
    gemm_tma_tiles   |-> Gemm!gemm_tma_load(Gemm!Tiling(2, 2, 2, 2, 1, 1, 1, 1)),
    gemv             |-> Gemv!gemv_baseline(3, 2, 2),
    gemv_smem        |-> Gemv!gemv_cute_smem(3, 4, 2) ]

\* The table, evaluated once when TLC starts: the LET keeps its statistics from
\* unfolding every kernel at every use of the constant.
AllKernels == LET all == Kernels IN all

\* The kernels that also synchronise with atomics, and with the flags and mbarriers
\* of asynchronous copies.
WithAtomics == {"reduce_v7", "softmax_1d", "softmax_1d_warps"}
WithFlags ==
  { "softmax_v6", "softmax_v6_warps", "copy_tma", "tma_swizzle", "store_only", "load_store", "oob",
    "transpose_t3", "transpose_t4", "transpose_t5", "transpose_t6", "two_tiles", "single", "pipe",
    "pipe_deep", "memcpy_smem", "memcpy_pipelined", "memcpy_stages", "gemm_tma_load", "gemm_tma_tiles" }

\* What ThreadGridProofs asks of a kernel when it starts, to prove that whatever its
\* threads' order they access no cell that is not there and no bank twice; without
\* flags, that they do not race; and without atomics, that what they leave is what
\* the CPU reference computes.
KernelsSeparated ==
  pc = [t \in K.threads |-> K.next[t][0]] =>
    /\ Declared(K) /\ BankFree(K)
    /\ kernel \notin WithFlags => Separated(K)
    /\ kernel \notin WithFlags \cup WithAtomics => Disciplined(K) /\ RightInOrder(K)
=============================================================================
