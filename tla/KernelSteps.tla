----------------------------- MODULE KernelSteps -----------------------------
(***************************************************************************)
(* The vocabulary in which the block and grid kernels are written down: a  *)
(* kernel is a sequence of steps, each step gives every thread that takes  *)
(* part the assignments it makes, and a value records where its parts came *)
(* from.  ThreadGrid runs such a kernel.                                   *)
(***************************************************************************)
EXTENDS Integers, Sequences, FiniteSets, SequencesExt, TLC

(***************************************************************************)
(* Values.  A float is the set of terms that were added into it, a term is *)
(* the tuple of what was multiplied or rescaled together.  Input number i  *)
(* is one term.  A term added twice, a value used before it was written or *)
(* an argument of the wrong form gives Wrong, and Wrong is contagious.     *)
(***************************************************************************)
Input(i) == {<<i>>}
Wrong == {<<>>}
Raised == {<<0>>}   \* a flag that is set; Zero is one that is not

\* A term that comes in twice makes the sum Wrong.
DisjointUnion(vs) ==
  LET total == UNION {vs[i] : i \in DOMAIN vs}
  IN IF \A i, j \in DOMAIN vs : i < j => vs[i] \cap vs[j] = {} THEN total ELSE Wrong

\* The one term of a value that has exactly one.
Single(v) == CHOOSE term \in v : TRUE

\* exp(x - m): e is the element, m the set of elements the maximum was taken of.
Exp(x, m) == IF Cardinality(x) = 1 /\ x \subseteq m THEN {<<Single(x)[1], m>>} ELSE Wrong

\* s * exp(old - m): every exponential in the sum s is taken relative to m instead.
Rescale(s, m) == {[term EXCEPT ![2] = m] : term \in s}

\* The same when old is the running maximum so far.  It starts at -1e6, the
\* maximum of nothing: what was summed relative to it vanishes.
Alpha(s, old, m) ==
  IF \E term \in s : term[2] # old THEN Wrong
  ELSE IF old = {} /\ m # {} THEN {} ELSE Rescale(s, m)

\* A query and a key, a zero vector if there is no such token.
Score(q, k) == {<< <<Single(q)[1], IF k = {} THEN -1 ELSE Single(k)[1]>> >>}

\* An exponential times a value.
Weighted(e, v) == IF e = {} \/ v = {} THEN {} ELSE {Single(e) \o Single(v)}

\* A pair (m, s) of the online softmax is one value, the maximum and the sum of
\* the exponentials relative to it.
Pair(m, s) == IF s = Wrong THEN Wrong ELSE {<<m, s>>}
MaxOf(p) == Single(p)[1]
SumOf(p) == Single(p)[2]

\* Mutant: the second sum stays relative to its own maximum.
OnlineMergeUnscaled(p, q) ==
  LET m == MaxOf(p) \cup MaxOf(q)
  IN Pair(m, DisjointUnion(<<Rescale(SumOf(p), m), SumOf(q)>>))

OnlineMerge(p, q) ==
  LET m == MaxOf(p) \cup MaxOf(q)
  IN Pair(m, DisjointUnion(<<Rescale(SumOf(p), m), Rescale(SumOf(q), m)>>))

\* e / s for one exponential e.
Normalised(e, s) == IF e = Wrong THEN Wrong ELSE {<<Single(e), s>>}

\* An exponential relative to old, multiplied by exp(old - m) / s.
Rescaled(e, old, p) ==
  IF Single(e)[2] = old THEN Normalised(Rescale(e, MaxOf(p)), SumOf(p)) ELSE Wrong

\* An mbarrier <<count, pending, phase>> after one arrival more: the last one of
\* a phase flips the phase bit.
Arrived(b) == {IF b[2] > 1 THEN [b EXCEPT ![2] = @ - 1] ELSE <<b[1], b[1], 1 - b[3]>>}

Evaluate(op, vs) ==
  IF \E i \in DOMAIN vs : vs[i] = Wrong THEN Wrong ELSE
  CASE op = "sum"        -> DisjointUnion(vs)
    [] op = "less"       -> IF vs[2] \subseteq vs[1] THEN vs[1] \ vs[2] ELSE Wrong
    [] op = "max"        -> UNION {vs[i] : i \in DOMAIN vs}
    [] op = "exp"        -> Exp(vs[1], vs[2])
    [] op = "normalised" -> Normalised(Exp(vs[1], vs[2]), vs[3])
    [] op = "pair"       -> Pair(vs[1], vs[2])
    [] op = "one"        -> Pair(vs[1], Exp(vs[1], vs[1]))
    [] op = "neutral"    -> Pair({}, {})
    [] op = "online"     -> OnlineMerge(vs[1], vs[2])
    [] op = "softmax"    -> Normalised(Exp(vs[1], MaxOf(vs[2])), SumOf(vs[2]))
    [] op = "rescaled"   -> Rescaled(vs[1], vs[2], vs[3])
    [] op = "times"      -> {<<Single(vs[1])[1], Single(vs[2])[1]>>}
    [] op = "rms"        -> {<<Single(vs[1])[1], Single(vs[2])[1], vs[3]>>}
    [] op = "score"      -> Score(vs[1], vs[2])
    [] op = "masked"     -> IF vs[1] = {} THEN Wrong ELSE {}   \* exp2(-1e6 - m)
    [] op = "unit"       -> {<<0, {}>>}                        \* 1 = exp2(m - m) with m = -1e6
    [] op = "alpha"      -> Alpha(vs[1], vs[2], vs[3])
    [] op = "weighted"   -> Weighted(vs[1], vs[2])
    [] op = "raised"     -> Raised
    [] op = "barrier"    -> {<<Single(vs[1])[1], Single(vs[1])[1], 0>>}
    [] op = "arrive"     -> Arrived(Single(vs[1]))
    [] op = "passed"     -> IF Single(vs[1])[3] # Single(vs[2])[1] THEN Raised ELSE {}
    [] op = "unknown"    -> Wrong

(***************************************************************************)
(* Cells and assignments.  An array cell is <<array, owner, index>>, a     *)
(* register <<"reg", name, thread>>, the k-th element a thread holds in    *)
(* registers <<"elem", k, thread>>.  `to := expr` is one assignment.       *)
(***************************************************************************)
Cell(array, owner, i) == <<array, owner, i>>
Array(array, owner, n) == {Cell(array, owner, i) : i \in 0 .. n - 1}
Reg(name, thread) == <<"reg", name, thread>>
Elem(thread, k) == <<"elem", k, thread>>
Out(i) == Cell("out", 0, i)
In(i) == Cell("in", 0, i)

Op(op, cells) == [op |-> op, of |-> cells]
Sum(cells) == Op("sum", cells)
Val(c) == Sum(<<c>>)
Zero == Sum(<<>>)
a ++ b == Sum(<<a, b>>)
a -- b == Op("less", <<a, b>>)
to := expr == [to |-> to, expr |-> expr]

If(condition, then) == IF condition THEN then ELSE <<>>

(***************************************************************************)
(* Steps.  The threads of a step run their assignments one after another;  *)
(* lanes of a warp step run theirs in lockstep, as a shuffle does.  Each   *)
(* constructor gives a sequence, so that steps are put together with \o.   *)
(***************************************************************************)
\* Written so that TLC works a table out once, and x before F.
Table(f) == CHOOSE g \in {f} : g = g
Given(x, F(_)) == CHOOSE y \in {F(z) : z \in {x}} : TRUE

\* f, and g where f is not defined.
Over(f, g) ==
  CHOOSE h \in {[x \in DOMAIN a \cup DOMAIN b |-> IF x \in DOMAIN a THEN a[x] ELSE b[x]] : a \in {f}, b \in {g}} : h = h

Step(scope, atomic, who, Do(_)) ==
  LET act == Table([t \in who |-> Do(t) \o <<>>])
      all(t) == {act[t][k] : k \in DOMAIN act[t]}
  IN << [scope |-> scope, atomic |-> atomic, act |-> act,
         writes |-> Table([t \in who |-> {a.to : a \in all(t)}]),
         reads |-> Table([t \in who |-> UNION {Range(a.expr.of) : a \in all(t)}])] >>

\* Threads that have nothing to do in a step pass it by.
Busy(who, Do(_)) == {t \in who : Do(t) # <<>>}

Each(who, Do(_)) == Step("thread", FALSE, Busy(who, Do), Do)
Atomically(who, Do(_)) == Step("thread", TRUE, Busy(who, Do), Do)
Warps(who, Do(_)) == Step("warp", FALSE, who, Do)
Nothing(t) == <<>>
Sync(who) == Step("block", FALSE, who, Nothing)        \* __syncthreads
NewLaunch(who) == Step("grid", FALSE, who, Nothing)    \* the next kernel of a stream

\* A thread waits until every expression has the value of a raised flag.
Await(who, exprs(_)) ==
  LET Do(t) == [k \in DOMAIN exprs(t) |-> Reg("flag", t) := exprs(t)[k]]
  IN Step("await", TRUE, who, Do)

\* One try of atomicCAS: if target still holds what old holds, it becomes
\* expr (computed from val and old); if not, old becomes what it holds.
Cas(who, target(_), old(_), expr(_)) ==
  LET Do(t) == <<target(t) := expr(t), old(t) := Val(target(t))>>
  IN Step("cas", TRUE, Busy(who, Do), Do)

Ceil(a, b) == (a + b - 1) \div b
Loop(indices, Body(_)) == FlattenSeq([i \in DOMAIN indices |-> Body(indices[i])])
Count(n) == [i \in 1 .. n |-> i - 1]                   \* 0, 1, ..., n - 1
Stride(from, n, by) == [i \in 1 .. (n - from + by - 1) \div by |-> from + (i - 1) * by]
Log2(n) == CHOOSE k \in 0 .. n : 2^k <= n /\ n < 2^(k + 1)
Doubling(n) == [i \in 1 .. Log2(n) |-> 2^(i - 1)]      \* 1, 2, 4, ..., n / 2
Halving(n) == [i \in 1 .. Log2(n) |-> 2^(Log2(n) - i)]  \* n / 2, ..., 2, 1

Threads(blocks, size) == (0 .. blocks - 1) \X (0 .. size - 1)
Blk(t) == t[1]
Tid(t) == t[2]
InBlock(b, threads) == {t \in threads : Blk(t) = b}
First(n, threads) == {t \in threads : Tid(t) < n}
Tids(threads) == [t \in threads |-> Tid(t)]

\* The shared array of each thread's block.
Shared(name, threads, n) == [t \in threads, i \in 0 .. n - 1 |-> Cell(name, Blk(t), i)]

\* The lanes of a warp of W: where they are and whom a shuffle reads from.
Lane(t, W) == Tid(t) % W
Warp(t, W) == Tid(t) \div W
ShflUp(t, d) == <<Blk(t), Tid(t) - d>>
ShflDown(t, d, W) == IF Lane(t, W) + d < W THEN <<Blk(t), Tid(t) + d>> ELSE t
SyncWarp(who) == Warps(who, Nothing)

\* What the warps' lane 0 has after a tree of __shfl_down_sync.
WarpReduce(who, W, reg, op) ==
  Loop(Halving(W), LAMBDA d :
    Warps(who, LAMBDA t : <<Reg(reg, t) := Op(op, <<Reg(reg, t), Reg(reg, ShflDown(t, d, W))>>)>>))

\* Each group of threads `who` (they have ranks 0, 1, ... in it) reduces its
\* registers: shuffles in each warp, the warps' results in s, then its warp 0
\* over them; `all` is who meets in the barrier.  Rank 0 has the result.
BlockReduce(who, all, rank, W, warps, reg, op, neutral, s) ==
  LET warp0 == {t \in who : rank[t] < W}
      partial(t) == If(rank[t] % W = 0, <<s[t, rank[t] \div W] := Val(Reg(reg, t))>>)
      again(t) == <<Reg(reg, t) := IF rank[t] < warps THEN Val(s[t, rank[t]]) ELSE neutral>>
  IN WarpReduce(who, W, reg, op) \o Each(who, partial) \o Sync(all)
     \o Each(warp0, again) \o WarpReduce(warp0, W, reg, op)

\* What a thread does between two synchronisations is one step: ThreadGrid's
\* RaceFree says that nobody can see it half done.
Share(step, t) == IF t \in DOMAIN step.act THEN step.act[t] ELSE <<>>
Longest(step) == Max({Len(step.act[t]) : t \in DOMAIN step.act} \cup {0})
StepSize == 64   \* statements in one step, so that TLC can evaluate it
Fusable(a, b) ==
  /\ a.scope = "thread" /\ b.scope = "thread" /\ ~a.atomic /\ ~b.atomic
  /\ Longest(a) + Longest(b) <= StepSize
Join(a, b) ==
  Step("thread", FALSE, DOMAIN a.act \cup DOMAIN b.act, LAMBDA t : Share(a, t) \o Share(b, t))
Fuse(steps) ==
  LET upto[i \in 0 .. Len(steps)] ==
        IF i = 0 THEN <<>>
        ELSE LET done == upto[i - 1]
             IN IF done # <<>> /\ Fusable(Last(done), steps[i])
                THEN Front(done) \o Join(Last(done), steps[i])
                ELSE Append(done, steps[i])
  IN upto[Len(steps)]

(***************************************************************************)
(* A kernel ready to run: its threads, the memory it declares (with the    *)
(* registers its steps name), the cells that are zero at first, the input, *)
(* for each thread and step the next step it takes part in, and the values *)
(* it must leave behind.                                                   *)
(***************************************************************************)
Compile(threads, warp, memory, inputs, zeroed, program, result, banked) ==
  LET steps == Fuse(program)
      n == Len(steps)
      used == UNION {UNION {steps[i].writes[t] : t \in DOMAIN steps[i].act} : i \in 1 .. n}
      cells == memory \cup {c \in used : c[1] \in {"reg", "elem"}} \cup DOMAIN inputs
      after(t, i) == {j \in i + 1 .. n : t \in DOMAIN steps[j].act} \cup {n + 1}
  IN [threads |-> threads, warp |-> warp, steps |-> steps, exit |-> n + 1,
      mem |-> Over(inputs, [c \in cells \cup zeroed |-> IF c \in zeroed THEN {} ELSE Wrong]),
      next |-> Table([t \in threads |-> Table([i \in 0 .. n |-> Min(after(t, i))])]),
      result |-> result, banked |-> banked]

Inputs(n) == [c \in Array("in", 0, n) |-> Input(c[3])]
=============================================================================
