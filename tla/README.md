# Verification of the CUDA kernels

The repository is a course in GPU programming: families of kernels (scan,
reduction, softmax, RMSNorm, transpose, matrix product), each in several versions
from naive to tuned, a chapter-by-chapter course on CuTe that ends in persistent
Hopper GEMM kernels, a Triton attention kernel, two transformer blocks, one of
them spread over several ranks, and a script that keeps the editor's compilation
database fresh. What it has to get right is concurrency: threads
that share memory between two barriers, warps in lockstep, blocks that wait for
each other, copies that land when they like, barriers that show one bit of their
state, ranks that must agree on the sizes of what they exchange, and makes that
write the same file.

This directory holds TLA+ models of those parts, TLC runs that check them on small
instances, and theorems that TLAPS proves for all sizes.

1. [Inventory](#1-inventory)
2. [Modules](#2-modules)
3. [Runs, bounds and what they show](#3-runs-bounds-and-what-they-show)
4. [Fairness](#4-fairness)
5. [Theorems](#5-theorems)
6. [Disagreements between code and comments](#6-disagreements-between-code-and-comments)
7. [Smaller observations](#7-smaller-observations)
8. [Not modelled, and the plan](#8-not-modelled-and-the-plan)

## 1. Inventory

| part | state | operations | what makes it hard | what makes it correct |
|---|---|---|---|---|
| scan v0-v4 | shared array per block, `sums` between blocks | load, tree or shuffles, store; three launches | barrier between levels, in-place trees, rounds with a carry, padding | exclusive prefix sums, no race, no bank conflict |
| scan v5, v6 | one slot (flag, value) per tile in global memory | publish, look back in windows of 32 slots, publish the prefix; v6 takes its tile through shared memory from striped to blocked order and back | blocks wait for blocks; each lane's load is of another moment; slots outlive a launch | each tile offset by every tile before it, once; no block spins for ever |
| vector reduction v0-v7 | two buffers, shared array, partial sums | tree, warp unroll, shuffles, grid stride, atomicAdd | syncwarp ordering, buffer swaps, in-place second pass, output cleared between launches | each element counted once |
| softmax 1d, 2d v1-v6 | row maxima and sums, shared partials, an mbarrier (v6) | reductions, atomicCAS loop, online merge, TMA tile | CAS retry, rescaling to a moving maximum, early return before a barrier, producer warp | exp(x - max) over its sum, for each element |
| rmsnorm v0-v3 | row sums, cached row | reduction, broadcast, scale | the broadcast slot is one of the reduction's | x, the row's squares and the weight of the column |
| transpose v0-v5 | tile in shared memory | load by rows, store by columns | edge tiles, bank conflicts | out[c][r] = in[r][c] |
| matmul v0-v4 | tiles of A and B in shared memory | copy, barrier, multiply, barrier | next copy against slow readers | every product once |
| matmul v5, cute_06 v2 | ring of slots, groups of cp.async | commit, wait_group, barrier | counting groups, own copies against others' | a slot holds all shares of the k tile being read |
| cute_06 v3, v4, capstone; cute_07 | ring of slots, two mbarriers per slot, copies in flight, persistent tile loop | issue, land, wait, arrive, refill, re-initialise, next tile | one-bit phases, re-initialised barriers, idle threads that wait | a slot holds the k tile being read; the loop ends; tiles shared out exactly once |
| flash attention | running maximum, sum, output per row | keys under the diagonal, keys on it | blocks of keys against blocks of queries, rescaling | causal softmax-weighted values |
| MoE expert parallel | tokens, routes and buffers per rank | count, sort, all-to-all (four per block), group by expert, undo | split sizes computed on both sides, ranks without tokens | each token gets its own experts' results; nobody hangs |
| cute copies and transpositions (cute_01, cute_03, cute_04) | tiles in shared memory, an mbarrier used again for each tile, rings of full and empty barriers | copies by threads, cp.async groups, copy engine in and out, fences | phases of a reused barrier, fences between a thread's stores and the engine's reads, zero fill at the edges, the last rounds of a loop | each element at its place, exactly once |
| cute products without pipeline (cute_02, cute_05, cute_06 v0, v1) | vector or tiles in shared memory, one mbarrier | fetch, barrier, multiply, barrier | next tile against slow readers, phases of the reused barrier | every product once |
| dense transformer block (mha_ffn) | activations | split heads, mask, attend, merge heads, feed forward | shuffled axes, mask | an activation depends on its own past only |
| tools (compile_commands) | `compile_commands.json`, shared by all makes | hook, dry runs, retry, timeout, parse, compare, write | concurrent makes, killed scripts, Makefiles that change, break or hang meanwhile | an undisturbed make leaves the file up to date; make always goes on |
| matmul v6, exercises, printing programs of cute_01-cute_05 | - | a library call, texts with gaps, layouts on the terminal | - | not modelled (section 8) |

How the parts interact: the kernels of one version are launched one after another
on a stream, so the end of a kernel is the barrier between blocks (scan v3 and v4,
the reductions, softmax v1-v4, rmsnorm v0 and v1); only scan v5 and v6 and the
atomics of softmax 1d and reduction v7 let blocks of one launch communicate. Inside
a block, threads communicate through shared memory and `__syncthreads`, warps
through shuffles, and threads with the copy engines through commit groups
(cp.async) or mbarriers (TMA). Ranks of the MoE communicate only in collective calls.
Makes communicate through the file they all write, without a lock.

## 2. Modules

**Lookback family.** `Contributions` has the value domain (how often each tile of
each launch was added; addition is pointwise). `PrefixScan` is what a single-pass
scan promises: tiles finish in any order, each with the exclusive prefix of this
launch, and no launch starts before the last is over. `Lookback` is
`scan/v5_single_pass_lookback.cu`: `Launch` (memset and launch), `Dispatch` (the
block scheduler), and one action per statement of the kernel that another block can
observe (`PublishAggregate`, `SkipLookback` for tile 0, `LoadLane` for each lane's
own load, `Retry`, `MoveWindow`, `Resolve`, `PublishPrefix`, `WriteOut`). The tile's
own scan (`block_scan_float4`) is one value, `Total(t)`. v6 looks back as v5 does; what it
changes, the way of a tile through shared memory, is `scan_striped` in `ScanKernels`. Lanes of a window load one
at a time, because nothing makes the 32 loads one access. A slot is written in one
step because `TileState` is 8 bytes wide and stored by one instruction.

**Staged pipelines.** `StagedPipeline` is the promise all multi-stage loops make.
Three kernels are shown to keep it: `CpAsyncPipeline` (matmul v5, on `CpAsync`, the
commit groups of a thread), `PersistentGemm` (cute_07 p0, p1 and, with one tile,
cute_06 v3 and capstone) and `WarpSpecGemm` (cute_06 v4), the last two on `TmaRing` (slots, barrier
pairs, copy engine) and `MBarrier` (pending arrivals, pending bytes, phase bit).
`TmaRingProofs`, `WarpSpecGemmProofs` and `PersistentGemmProofs` prove the two for all sizes.
`MultistageGemm` is cute_06 v2, which breaks the promise (section 6). In these
modules an agent is a thread (cp.async) or a warp (TMA; wgmma and barrier waits keep its lanes together).

**Tile schedule.** `TileSchedule` has the two mappings of a tile number to
coordinates (`TileCoord` for the column-major order, the swizzled order of p1 with
the host's `CheckSwizzle`) and the loop of each CTA (`Take`). The proofs
are the last part of `PersistentGemmProofs`.

**Transformer blocks.** An activation is the set of tokens it was computed from.
`CausalAttention` is the attention both scripts share: the projection cut into
queries, keys and values per head (`Column`), the causal mask (`Attended`), the heads
put side by side again (`Merged`). `MoeExpertParallel` is one action per call between
two collectives of `mha_moe_ep.py` on each rank; the four all-to-all exchanges of a
block are rendezvous of all ranks, each with the split sizes its rank computed.
`TransformerBlocks` composes them into the blocks of both scripts: `Attend`, then `DenseFFN`
(`mha_ffn.py`, a single process) or the expert layer, then the next block.

**Compilation database.** `CompileCommands` is the hook of `compile_commands.mk` and
`gen_compile_commands.py` in several terminals. `Make` is the parse of a Makefile
(`HookRuns` is the guard: not in the makes the script starts, not in sub-makes, not in
dry runs), `DryRun`, `Retry` and `Timeout` the two calls of make per directory, `Compare`,
`Truncate` and `Store` the comparison with the file and the two halves of `write_text`.
`Kill`, `Edit` and `Break` are the user's. `alone` is a history variable: no other script, edit
or break has happened since the script started. A command line is a sequence of kinds of
tokens; `Parsed` takes it apart as the script does, `Found` has what every line yields, and
`Collect` adds the entries whose file is not there yet. What the file should have is said without these:
`Telling` are the words that tell how a line compiles (`OutputName` decides which word behind a
`-o` is a name and which is the next `-o`), `FirstCommands` the first command for each source, and
`UpToDate` that the file lists exactly these, in their order.

**Thread grids.** `KernelSteps` is a small vocabulary to write a kernel down:
`Each(who, Do)` for statements, `Warps` for shuffles, `Sync` for `__syncthreads`,
`NewLaunch` for the next kernel of the stream, `Cas`, `Atomically`, `Await`.
`ScanKernels`, `ReduceKernels`, `SoftmaxKernels`, `NormKernels`,
`TransposeKernels`, `MatmulKernels`, `AttentionKernels` and `GemvKernels` write the
repository's kernels in it, `CopyKernels` and `CuteGemmKernels` those that hand work to the
hardware, with `AsyncSteps`, and `ThreadGrid` runs any of them: `ThreadStep` (one thread's
statements up to its next stop), `WarpStep` (lanes in lockstep), `SyncThreads`,
`NextLaunch`, `AwaitOver`, `CasSucceeds`, `CasRetries`.

* *Values record where they come from.* A float is the set of terms added into it,
  a term the tuple of factors; the exponential of x relative to a maximum is the
  pair of x and the set of elements the maximum was taken of. A term added twice, a
  cell read before it was written, an exponential relative to the wrong maximum all
  give `Wrong`, which spreads. Rounding is abstracted away, as the host checks'
  tolerances do; so is the order of summation.
* *Why statements between two synchronisations are one step.* `Fuse` joins a
  thread's statements up to its next barrier, shuffle or atomic. This hides no
  behaviour as long as no two threads can reach conflicting accesses at the same
  time, which is what the invariant `RaceFree` checks in every state of every
  kernel. The steps are cut at `StepSize` statements, only so that TLC can
  evaluate them.
* *A copy under way is a thread of its own.* The copies of a block are the `Engines`, agents
  that `__syncthreads` does not count. `AskFor` announces the bytes and starts the engine, which may
  write at any later time; the bytes are one arrival at the mbarrier (`Landing`). An mbarrier
  is a cell with its count, the arrivals still missing and its phase; `WaitFor` passes when
  the phase asked for is over, which is all the hardware shows.
* *What the engine sees of shared memory is a second view of it.* A store by the engine reads what
  the last fence published (`Seen`), so a missing fence is a wrong value, not only a
  comment. Groups of cp.async are copies of a thread that `WaitGroups` counts.
* *What a kernel needs for its runs to be right* can be said of its text, and the end of `ThreadGrid` does:
  `Declared`, `Separated` (between two threads' accesses to one cell, one of them a store, is a shuffle,
  barrier or launch both take part in), `BankFree`, `Plain` (no atomics, flags or copies under way),
  and `RightInOrder` (taken one after another, each by all its threads, the steps compute the
  reference). `ThreadGridProofs` proves that this is enough.
* *Barriers count threads that are still there.* `SyncThreads` opens when every
  thread of the block that has not returned has arrived, as the hardware does;
  softmax v4 relies on it where a row of a block lies outside the matrix.

## 3. Runs, bounds and what they show

| run | instance | shows |
|---|---|---|
| `lookback` | 5 tiles, windows of 2, 3 resident blocks, 2 launches | slots, walk and offsets are right, `IndInv` is an invariant, the kernel implements `PrefixScan` safely and with its liveness, each launch finishes |
| `cp_async` | 3 threads, 3 slots, 6 k tiles | one barrier per iteration is enough: whole k tiles only; `IndInv`; implements `StagedPipeline` |
| `multistage_race` | 2 threads, 3 slots, 4 k tiles | cute_06 v2 overwrites a slot that is being read (violation) |
| `gemm_timely` | 3 warps, 3 slots, 8 k tiles, 2 output tiles | with barriers re-initialised late enough: reads, drain at exit, termination, `StagedPipeline` |
| `gemm_race` | 2 warps, 2 slots, 3 k tiles, 2 output tiles | without that assumption a slot is refilled while a warp multiplies from it (violation) |
| `warp_spec` | 2 consumers, issuer, 1 idle producer thread, 2 slots, 5 k tiles | consumers read whole k tiles and get through, nobody passes a release that has not happened, `StagedPipeline` |
| `warp_spec_hang` | the same | the idle producer thread may wait for ever (violation) |
| `tile_schedule` | every grid up to 8 x 4 tiles, both mappings, 3 CTAs | each tile once, none outside, none missing |
| `moe` | both scripts, 2 sequences of 3 tokens, 2 heads, 2 blocks; 2 ranks, 4 experts, 2 per token, 144 routings | activations depend on their past only, split sizes agree, results return to their tokens, no rank hangs |
| `thread_grid` | 75 kernel instances | no race, no access outside an array, no bank conflict where the code promises none, every launch ends, each output made of exactly its inputs; the kernels meet the conditions of section 5 (`KernelsSeparated`) |
| `compile_commands` | 2 terminals, 2 directories, 3 makes, 1 edit per Makefile, 1 fault, 1 kill | an undisturbed make brings the file up to date and does not touch one that is, make always goes on to build |
| `attention_tuned` | 4 tokens, 1 query and 2 keys per block | blocks of keys longer than blocks of queries give wrong sums (violation) |

Why the bounds are enough for what the properties ask:

* `lookback`: five tiles with windows of two make walks of up to two full windows
  and a partial one in front of the array; three resident blocks of five make the
  order of dispatch matter; the second launch makes stale slots possible. The
  theorems of section 5 lift the bound altogether for safety.
* pipelines: the number of uses of a ring is more than twice the number of its
  slots, so that slots are reused and phase bits return to where they were; in
  `gemm_timely` 11 uses of 3 slots leave the slots' phases unequal at the end of a
  tile, so that a missing re-initialisation would matter.
* `moe`: two ranks with two experts each, two routes per token chosen in every way
  and alternating over tokens, ranks and blocks: this includes ranks and experts no token goes
  to and a token both of whose experts are on one rank. Two heads with two channels each
  tell heads and channels apart, three tokens the number of tokens from both.
* `compile_commands` (MAKES, EDITS, FAULTS, KILLS): two makes can overlap in every way and the
  third, undisturbed, meets whatever they left: an old file, a torn one, or none. One
  directory has a target `all`, the other has not and compiles a source of the first again.
* `thread_grid`: warps of 2 (4 in scan v2, whose array is banks^2 long in the
  code too), blocks of 1 to 6 warps, two blocks or more (in scan v4 and
  softmax 1d two blocks of a warp, and one of two), an odd number of elements
  wherever the code tests bounds, two rounds of each loop that carries something
  over, repeated launches where the host repeats them. An mbarrier that is used
  again goes through at least two phases, rings wrap, and the block with the last tiles has
  fewer rounds than the others. Shapes the code refuses or never has (a
  partial tile where the host asserts divisibility) are not run.
* `attention`: N = 5 is no multiple of the block, as 69 is none of 16 in the test.

`Spec` of `gemm_timely` is `TimelySpec` in `MCPersistentGemm`: warp 0 starts to
initialise the barriers for its next tile only when the other warps have left the
main loop. The code does not ensure this (that is `gemm_race`); the run shows that
it is the only thing missing. In practice the epilogue of warp 0, a long series
of stores, makes it likely.

Terminating systems (`CHECK_DEADLOCK FALSE`) are those whose last state is the
normal end of the kernel or program; there a liveness property says that the end is
reached. `ThreadGrid` has a `Finished` step instead and its deadlocks are checked.

## 4. Fairness

* `Lookback`: weak fairness of each resident block and of dispatch. CUDA runs every
  resident block; dispatch is in blockIdx order, the assumption the file states
  itself. The mutant `DispatchAnyOrder` shows that the promise fails without it.
* GEMM kernels: weak fairness of each warp, of the release of `__syncthreads` and of
  the landing of copies. A waiting warp is enabled only once its barrier has the phase it
  waits for, so no fairness is spent on spinning.
* `TransformerBlocks`: weak fairness of each rank; a collective completes when all
  ranks have entered it.
* `CompileCommands`: weak fairness of each script's next step. The operating system runs a
  started script, and the timeout of `subprocess.run` ends a make that hangs. Edits, faults, kills and further
  makes are the user's and not fair.
* `ThreadGrid`: weak fairness of `Next` only, that is, some thread that can go on
  does; a copy under way counts as one. That is enough because no kernel has a loop another thread must end,
  except the CAS loop, in which a retry follows only from another thread's success.

## 5. Theorems

All proofs are checked by TLAPS without unproved leaves. Left to TLC are liveness
(`AllRanksFinish`, `AllThreadsFinish`, `MakeGoesOn` and the others of section 3) and ENABLED, and in `ThreadGrid` what
the last item of this section says.

What a recursive function computes (a sort, a concatenation, the parse of a line) is proved by
induction on sets: `InductionOnSet` says that a set with 0 and with the successor of each of its
numbers holds all naturals, which follows from the well-foundedness of < on them; `Recursion` says that a function defined
step by step exists. A property of n becomes the set of the n that have it.

* **LookbackProofs** (any number of tiles, launches, lanes, resident blocks).
  `Invariance`: `Spec => []IndInv`. The safety properties are not inductive: a lane's
  load may be arbitrarily old, so the invariant says for each block by its pc what
  its slot holds (`SlotByPc`), what a lane that watches a tile may hold however long ago it
  loaded (`MayHold`: unread, cleared, the tile's aggregate, or its final prefix of
  this launch), and that `exclusive` counts exactly the tiles between the window's
  lower edge and the block (`WalkByWindow`). The step that sums a window splits at the highest lane that saw a
  PREFIX (`Gathered`): above it only aggregates, at it everything below. From it
  follow `TypeCorrect`, `PublishedCorrect`, `OffsetCorrect`, `WalkStaysInside`, and
  `Refinement` (each step is one of `PrefixScan` or a stutter).
* **CpAsyncPipelineProofs** (any number of threads, slots, k tiles). `Invariance`:
  all threads have passed equally many barriers (`Lockstep`), the number of groups
  a thread has committed follows from its pc and k tile (`GroupCount`), a group in flight
  is among a thread's newest and aims at the slot of its k tile (`InFlight`), and the
  newest STAGES k tiles of each thread are in their slots or on their way there
  (`SlotsKept`). `TypeCorrect`, `ReadsCorrect`,
  and `Refinement` to `StagedPipeline` follow.
* **TmaRingProofs** (any number of slots and readers) has what both Hopper loops rest on: what
  each step does to a ring that is where `RingInv` says. After i loads of a tile the
  newest load of each slot determines the whole slot (`SlotAfter`): its contents, and both
  barriers from the number of that load, the copies of it still moving and the readers that have
  arrived; a slot not used yet is as initialised. A copy under way is of one of the newest
  STAGES loads, no reader is past it, and no reader is a ring behind. The parity bit alone does not say which round a
  barrier is in; these bounds do: `FullMeansLanded` and `FreeMeansRead` are the two readings of a
  bit a warp relies on, `IssueKeepsRing`, `LandKeepsRing` and `ArriveKeepsRing` the three steps.
* **WarpSpecGemmProofs** (cute_06 v4; any number of consumers, idle producer threads, slots, k tiles).
  `Invariance` adds to the ring where the issuing lane and the idle threads are. `TypeCorrect`,
  `ReadsCorrect`, `NoEarly` and `Refinement` to `StagedPipeline` follow.
* **PersistentGemmProofs** (cute_07 and cute_06 v3; any number of warps, slots, k tiles, output tiles).
  The theorems are about `TimelySpec`: without its assumption they are false (section 6).
  The invariant follows the ring from tile to tile: `RingTile` is the tile the barriers were last
  initialised for, `Loads` and `Done` are counted for it (a warp that has left counts as done
  with all), `Together` says how far warps may be apart, `InLoop` where each is. When the
  barriers are initialised again every warp is done with all loads, so nothing is moving (`Drained`).
  `TypeCorrect`, `ReadsCorrect`, `Drain`; `Refinement` numbers the loads of all tiles through.
  Its last part is about the schedule (any grid, any number of CTAs). Both mappings are one-to-one
  and onto the grid, by facts about quotient and remainder.
  `ScheduleInvariance`, `ScheduleTyped` (nothing outside the output, although the kernel does
  not clamp), `ScheduledOnce`, `ScheduleComplete`.
* **TransformerProofs** (any batch, number of tokens, heads and channels, blocks).
  `HeadsSideBySide`: reading the flat [B, T, H, D] array back as [B, T, C] puts channel c % D of
  head c / D of the same token at channel c. With it, `AttentionOfPast`: attention makes of a
  token exactly the tokens of its sequence up to itself.
  `ArgsortUndone`: the argsort of a rank numbers its copies through, first by destination, then by
  number (`PlaceOf` counts the copies that come `Earlier`), so writing the results back undoes it.
  The theorems about the runs of both scripts rest on one invariant for each:
  * `DenseInv` (`mha_ffn.py`): every activation is exactly the tokens of its past, or just its own token
    before the first attention, and no process is in an exchange. `Attend` and `DenseFFN` preserve it because the
    past of a past token is past.
  * `MoeInv` (`mha_moe_ep.py`; any number of ranks, experts, routes and blocks, any routing).
    Ranks are matched by the number of their call only and may be a block apart, so it is about every
    exchange a rank ever entered: `History` says what it put into exchange k of block l (`Segments`), a function
    of the routing alone. `Place` says how many exchanges a rank has entered where it is, which counts it
    was sent, and that its rows are the segments for it, one rank's behind the other's (`Gathered`); `Sums`
    that what it combined is, for each copy, the output of the expert the copy was routed to.
    The steps: the sorted copies cut by the counts are the copies for each rank (`Carried`); the gathered
    rows cut by the received counts are the segments again, since both cut at the same sums; and the way back
    takes row i for rank d to the copy it was made of.
  From them follow `TypeAlwaysOK`; `PastOnlyAlways` (in both scripts an activation depends on exactly its past);
  `SplitsAlwaysAgree` (a rank expects in each exchange as many rows from another as that one
  sends); and `CombinedAlwaysRight` (what a rank sums for a token are the outputs of its own experts for this very token).
* **CompileCommandsProofs** (any number of terminals and directories, any Makefiles, any bounds on edits,
  faults, kills and makes).
  `ParsesAsMeant`: from every line of words `parse_command` takes what the line means. The loop runs
  forward and skips the word behind a `-o`; the reference says of each word whether it is a name
  (`NamesOutput`: it is behind a `-o` that is none). `ReadOn` goes through the line from the back: at a word that is no
  name, what the loop has collected from there on is what the words from there on tell.
  `FreshIsFirst`: a line yields a new entry just if it is the first command for its source.
  `DatabaseInv` says of a script that nothing disturbed (`Undisturbed`) that no other runs, that its
  entries are those of the directories behind it (`Gathered`), that its second call of make does not
  hang, that the file is empty between its two halves of a write, and that it ends with the file up to
  date. A disturbed script has none of this, only its types (`Typed`).
  `DatabaseTyped`, `AlwaysRefreshed` and `AlwaysUntouched` follow, the last because there is only one
  list of the first commands (`SameList`): a file that is up to date is the one the script compares with.

* **ThreadGridProofs** (any kernel, grid, number of threads, order of steps). A race is a matter of two
  threads' program counters, and these can be in very many combinations; what excludes a
  combination is that somewhere between the two steps the threads had to meet. `InStep` says so and is inductive: when a thread
  is past a shuffle, barrier or launch it shares with another, so is the other
  (`NobodyAhead`), and each thread is at a step it takes part in or has left
  (`Placed`). From it follow, for every kernel with the condition on the left,

  | condition on the kernel's text | of all its runs | theorem |
  |---|---|---|
  | `Declared` | `TypeOK` | `TypeCorrect` |
  | `Separated` | `RaceFree` | `NoRace` |
  | `BankFree` | `NoBankConflict` | `BanksFree` |
  | `Disciplined`: `Declared`, `Separated`, `Plain` | each cell is as the steps leave it in the order of the text (`AsInOrder`) | `Serializable` |
  | the same | one outcome, whatever the order (`OneOutcome`) | `Determinism` |
  | the same, and `RightInOrder` | `ResultRight` | `ResultsRight` |

  `AsInOrder` is the invariant behind the last three. The memory is never that of the order of the text, because some threads are
  ahead; but a cell of which no writer is in the middle (`Settled`) is, up to the step its
  last writer has taken, and what a thread reads is settled, or its meeting with the writer would be
  missing.

  TLC checks the conditions for the kernels of `thread_grid` (`KernelsSeparated`: `Declared` and `BankFree` for all 75,
  `Separated` for the 55 without flags, `Disciplined` and `RightInOrder` for the 52 that have no atomics either).
  For the transpositions they are proved too, for **every** M, N and TILE: `TransposeCorrect` says that v0 to
  v5 (and with them the three of cute_01, which are v0, v3 and v4) have no race and no bank conflict
  where they promise none, and transpose. Each thread copies one element of its own: in v0 to v2 the places of
  the grid number the matrix once (`Layouts`, `LayoutsInjective`); in v3 to v5 the thread that stores an
  element and the thread that loaded it are mirror images in one block, with the barrier between. A row
  of v4 is one slot longer than the banks are many, and in v5 the columns of a row are permuted: x ^ y stays below TILE
  (`XorClosed`) and differs for different x (`XorOnce`), the two facts the comment in the kernel
  rests on, for each TILE that is a power of two, as its `static_assert` demands. A warp is a row of
  the block, with as many banks as lanes: with TILE = 32, a power of two by `TileOf32`, this is the machine the code is for.
  `TransposeFormed` shows that all of them are kernels in the sense of `KernelAssumption`.

  Only model-checked: `AllThreadsFinish`; `ResultRight` of the 23 kernels with atomics, flags or copies
  under way, and `RaceFree` of the 20 of them with flags or copies, whose order comes from values in memory and not from
  meetings; and the conditions themselves for the other kernels, each at the shape the run gives it. Most of these compute
  sums in a tree or a loop: what they hold is a fold over data, which the provers do not reach for every size.

Assumptions on constants are the named ASSUMEs of the modules (positive sizes;
for cp.async at least two slots and NK >= STAGES - 1, since the prologue issues that
many tiles unasked), evaluated by TLC in every run.

## 6. Disagreements between code and comments

* **cute_07 p0, line 131** (run `gemm_race`). Warp 0 initialises the barriers for its
  next tile while other warps may still be in the last iterations of the previous
  one; the README of the chapter says that everybody sees the reset barriers first.
  A late warp's arrival then lands on the fresh, empty barrier of a slot and counts
  for the new tile: the slot is released by warp 0's arrival alone and refilled while
  the late warp still multiplies from it, torn or with another k tile. The same race can also leave the CTA hanging. p1 and
  the capstone have the same loop. A `__syncthreads()` before the re-initialisation
  removes it (`TimelySpec` is weaker than that and already enough).
* **cute_06 v4, line 131** (run `warp_spec_hang`). The producer warps' other threads
  wait for every release without having advanced `k_tile` in the prologue; one that
  falls two releases behind sees the phase bit flipped back, and if no release of
  that slot follows it waits for ever. It takes a thread that is not scheduled for
  two rounds of the ring, so tests will hardly meet it.
* **cute_06 v2, line 128** (run `multistage_race`). The comment at lines 148-150 says
  the slot written next is STAGES-1 away from the one being read; the code has
  advanced `k_pipe_write` before, so it is the slot just read, and nothing between
  a slow reader and a fast writer.
* **flash attention, line 93** (run `attention_tuned`). The comment at lines 166-167
  invites the reader to enable more block sizes. Pairs with BLOCK_SIZE_KV >
  BLOCK_SIZE_QO make the unmasked loop run past the diagonal. The one pair that is
  enabled (16, 16) is right.

## 7. Smaller observations

Met while modelling; none is a property of a run.

* cute_07 p0:284 prints that the barriers are initialised once; they are initialised per tile.
* mha_moe_ep.py:398: all ranks use the same seed, so their experts are equal, which
  the comment in line 399 denies.
* cute_06 v1 and v2 describe their `cute::copy` calls as cp.async; without a copy
  atom in the call they are ordinary loads and stores. For v2 this does not change the finding.
* softmax 1d:25 reads `*address` with a plain load that races with other blocks'
  atomicCAS. The model takes it as an atomic 32-bit load.
* scan v3 and v4 clear the padding of `sums` once, before repeated launches that scan
  it in place. Later launches read stale values there. In v3 they only reach slots no
  tile uses; in v4 they cancel by subtracting what was added. With the sizes of the code
  there is no padding at all.
* scan v3 has one `__syncthreads` more than `RaceFree` needs.
* vector_reduction v6:109 passes one array as two `__restrict__` parameters of `reduce_tail`.
* scan v6 has a redundant `__syncthreads` at line 193: the barriers of the block's scan suffice.
* cute_tiled_v1.cu:264, 290 and 330 say that waiting for a hard-coded phase 0 deadlocks in
  round two. A wait for parity 0 then returns at once, since phase 0 is over, and the tile may be
  read before it is there (the model with that wait violates `RaceFree`).
* cute_05 `wgmma_one` and `gemm_manual_load` (cute_mma_v2.cu:141) store operands with ordinary
  stores and multiply from them after `__syncthreads` only, without the proxy fence the other
  kernels use.
* cute_04: only the fence of the storing thread, behind the barrier, matters in the model; the
  `tma_store_wait` of threads that issued nothing returns at once.
* mha_moe_ep and mha_ffn mask with the least finite number, not with minus infinity; a row always has its
  diagonal, so no row is without an unmasked key.
* Two makes at a time can leave `compile_commands.json` torn or old until the next undisturbed
  make. A directory whose make fails loses its entries. The timeout of the second call
  is not caught and ends the script; `|| true` in the hook saves the build.
* A file torn inside a multi-byte character makes `read_text` (gen_compile_commands.py:217) raise,
  and the script ends without repairing it. That takes a non-ASCII path or flag: the repository has none in
  its compile commands, so the model always compares; the path of the checkout is the user's.
* A Makefile whose `all` fails at once while its default target hangs would end the script by the
  uncaught timeout (lines 77-86). The repository's recipes run nothing under `-n`, so only parsing can hang,
  in both calls alike, and `CompileCommands` has one `health` for both; the mixed case is
  met only through a `Break` between the calls, which ends the promise of `RefreshedByMake`.
* softmax v6 rounds its grid up and guards its stores with `row < M`, and so does the model, but
  its tile load reads all ROWS rows: only an M that is a multiple of ROWS stays inside the matrix.
* softmax v4:57 says that M % ROWS_PER_BLOCK = 0 is needed for the barrier; the
  barrier counts threads that have not returned, and the run's instance with a partial block does not hang.
* scan v2: the padding is conflict-free for arrays of banks^2 elements, as lines 45-46
  say (1024 with 32 banks in the code, 16 with 4 in the run).

## 8. Not modelled, and the plan

Not modelled because there is nothing for a model checker in it: `matmul/v6_cublas.cu`
(one library call), the exercises (texts with gaps), timing and printing everywhere.
Floating-point rounding is outside all models.

Not modelled because the outcome is not the repository's:

* the programs of cute_01, and of cute_02 to cute_05 below their capstones, that print layouts,
  coordinates or partitions (`print_coord_kernel`, `inspect_kernel`, `tma_partition_kernel`, cute_copy
  v0 and v1, cute_tensor v0 to v3): what they show is computed by the CuTe library;
* which lane holds which element of an MMA atom's fragments, fixed by the instruction set;
* `wgmma_one` and `gemm_manual_load` of cute_05: an MMA of operands stored without a proxy fence
  has no defined outcome, so that a model could only assume one.

One simplification of the copy kernels: `oob_kernel` of cute_04 first fills shared memory with
ordinary stores and then lets the engine write over it; the model gives these writes one view of memory, in the
order of the barrier between them.

Next, in this order:

1. Proofs: the conditions of `ThreadGridProofs` for further kernels and every size, first those whose threads keep
   to their own elements (scan v6's exchange, the products without a pipeline); and a discipline for
   flags and mbarriers, so that `NoRace` covers the kernels with copies under way.
2. The layout algebra as far as the repository uses it: layouts as functions from coordinates to
   indices, the swizzles, the partitions of cute_04 and cute_05 as instances (each element of
   a tile with exactly one thread and value).
