------------------------------ MODULE ThreadGrid ------------------------------
(***************************************************************************)
(* A grid of threads running a kernel written in KernelSteps: threads run  *)
(* at their own pace, the lanes of a warp meet in shuffles, the threads of *)
(* a block in __syncthreads, and all of them between two launches.         *)
(***************************************************************************)
EXTENDS KernelSteps

CONSTANT Kernel    \* the kernels that are run, by name

\* What Compile gives: the steps a thread takes part in follow one another, and
\* a step's reads and writes are those of its assignments.
WellFormed(kern) ==
  LET steps == kern.steps
  IN /\ IsFiniteSet(kern.threads)
     /\ Len(steps) \in Nat /\ DOMAIN steps = 1 .. Len(steps) /\ kern.exit = Len(steps) + 1
     /\ \A t \in kern.threads, i \in 0 .. Len(steps) :
          /\ kern.next[t][i] \in i + 1 .. kern.exit
          /\ kern.next[t][i] # kern.exit => t \in DOMAIN steps[kern.next[t][i]].act
          /\ \A j \in i + 1 .. kern.next[t][i] - 1 : t \notin DOMAIN steps[j].act
     /\ DOMAIN kern.result \subseteq DOMAIN kern.mem
     /\ \A step \in Range(steps) :
          /\ DOMAIN step.act \subseteq kern.threads
          /\ step.scope = "grid" => DOMAIN step.act = kern.threads
          /\ \A t \in DOMAIN step.act :
               LET mine == step.act[t]
               IN /\ Len(mine) \in Nat /\ DOMAIN mine = 1 .. Len(mine)
                  /\ step.scope = "cas" => Len(mine) = 2
                  /\ step.writes[t] = {mine[n].to : n \in DOMAIN mine}
                  /\ step.reads[t] = UNION {Range(mine[n].expr.of) : n \in DOMAIN mine}

ASSUME KernelAssumption == \A k \in DOMAIN Kernel : WellFormed(Kernel[k])

VARIABLES kernel,  \* the one that is running
          pc,      \* per thread the step it takes next
          mem      \* what the cells hold

vars == <<kernel, pc, mem>>

K == Kernel[kernel]

Init ==
  /\ kernel \in DOMAIN Kernel
  /\ pc = [t \in K.threads |-> K.next[t][0]]
  /\ mem = K.mem

Exited(t) == pc[t] = K.exit
StepOf(t) == K.steps[pc[t]]
AtScope(t, scope) == ~Exited(t) /\ StepOf(t).scope = scope

\* The lanes that must meet before a warp's step is taken.
Lanes(t) ==
  {u \in DOMAIN StepOf(t).act : Blk(u) = Blk(t) /\ Tid(u) \div K.warp = Tid(t) \div K.warp}

\* What a thread reads in cell c of memory m when `new` has been stored since.
Load(new, m, c) ==
  CASE c \in DOMAIN new -> new[c]
    [] c \in DOMAIN m \ DOMAIN new -> m[c]
    [] OTHER -> Wrong
Value(new, m, expr) == Evaluate(expr.op, [i \in DOMAIN expr.of |-> Load(new, m, expr.of[i])])

\* What the lanes ts store in memory m when they run their assignments of a
\* step in lockstep: `now` are the k-th ones.
Stores(m, ts, act) ==
  LET longest == Max({Len(act[t]) : t \in ts})
      now(k) == {act[t][k] : t \in {u \in ts : k <= Len(act[u])}}
      assign(new, k) ==
        Over([c \in {a.to : a \in now(k)} |-> Value(new, m, (CHOOSE a \in now(k) : a.to = c).expr)], new)
      store[k \in 0 .. longest] ==
        IF k = 0 THEN <<>> ELSE Given(store[k - 1], LAMBDA new : assign(new, k))
  IN store[longest]

Advance(ts) == pc' = [t \in K.threads |-> IF t \in ts THEN K.next[t][pc[t]] ELSE pc[t]]

Run(ts, act) ==
  /\ Advance(ts)
  /\ mem' = Over(Stores(mem, ts, act), mem)
  /\ UNCHANGED kernel

\* A thread's own statements up to its next stop.
ThreadStep ==
  \E t \in K.threads : AtScope(t, "thread") /\ Run({t}, StepOf(t).act)

\* A shuffle or warp intrinsic: all lanes named by it have arrived.
WarpStep ==
  \E t \in K.threads :
    /\ AtScope(t, "warp")
    /\ \A u \in Lanes(t) : pc[u] = pc[t]
    /\ Run(Lanes(t), StepOf(t).act)

\* A thread has left the kernel: it waits for the next launch, or there is none.
Returned(t) == Exited(t) \/ AtScope(t, "grid")

\* __syncthreads: every thread of the block that has not returned waits in it.
SyncThreads ==
  \E t \in K.threads :
    /\ AtScope(t, "block")
    /\ \A u \in InBlock(Blk(t), K.threads) : pc[u] = pc[t] \/ Returned(u)
    /\ Advance(InBlock(Blk(t), DOMAIN StepOf(t).act))
    /\ UNCHANGED <<kernel, mem>>

\* The next kernel of the stream starts when the one before has finished.
NextLaunch ==
  /\ \A t \in K.threads : AtScope(t, "grid")
  /\ Advance(K.threads)
  /\ UNCHANGED <<kernel, mem>>

\* A wait for an mbarrier's phase, or for groups of copies, ends.
AwaitOver ==
  \E t \in K.threads :
    /\ AtScope(t, "await")
    /\ LET act == StepOf(t).act[t]
       IN \A k \in DOMAIN act : Value(<<>>, mem, act[k].expr) = Raised
    /\ Run({t}, StepOf(t).act)

\* atomicCAS found what the thread expected and stored the new value.
CasSucceeds ==
  \E t \in K.threads :
    /\ AtScope(t, "cas")
    /\ LET cas == StepOf(t).act[t]
       IN /\ mem[cas[1].to] = mem[cas[2].to]
          /\ Run({t}, [u \in {t} |-> <<cas[1]>>])

\* Mutant: the thread goes on expecting what it expected.
CasRetriesUnchanged ==
  /\ \E t \in K.threads : AtScope(t, "cas")
  /\ UNCHANGED vars

\* It found another value, which the thread expects in its next try.
CasRetries ==
  \E t \in K.threads :
    /\ AtScope(t, "cas")
    /\ UNCHANGED <<kernel, pc>>
    /\ LET cas == StepOf(t).act[t]
       IN /\ mem[cas[1].to] # mem[cas[2].to]
          /\ mem' = Over(Stores(mem, {t}, [u \in {t} |-> <<cas[2]>>]), mem)

Finished ==
  /\ \A t \in K.threads : Exited(t)
  /\ UNCHANGED vars

Next ==
  \/ ThreadStep \/ WarpStep \/ SyncThreads \/ NextLaunch
  \/ AwaitOver \/ CasSucceeds \/ CasRetries \/ Finished

(***************************************************************************)
(* Properties.                                                             *)
(***************************************************************************)

\* The lanes that take thread t's next step with it, if t can take it now.
Ready(t) ==
  IF Exited(t) THEN {}
  ELSE CASE StepOf(t).scope \in {"thread", "cas", "await"} -> {t}
         [] StepOf(t).scope = "warp" -> IF \A u \in Lanes(t) : pc[u] = pc[t] THEN Lanes(t) ELSE {}
         [] OTHER -> {}

\* What the step of thread t reads and writes, all its lanes taken together.
Reads(t) == UNION {StepOf(t).reads[u] : u \in Ready(t)}
Writes(t) == UNION {StepOf(t).writes[u] : u \in Ready(t)}

\* Every access of a step that can be taken is to a cell the kernel declares.
TypeOK ==
  /\ kernel \in DOMAIN Kernel
  /\ pc \in [K.threads -> 1 .. K.exit]
  /\ DOMAIN mem = DOMAIN K.mem
  /\ \A t \in K.threads : Ready(t) # {} => StepOf(t).reads[t] \cup StepOf(t).writes[t] \subseteq DOMAIN mem

\* No two threads can, at the same time, access one cell with a store among
\* the two accesses, unless both are atomic: a missing __syncthreads or a scan
\* done in place would let a thread read what another is writing.
RaceFree ==
  \A t, u \in K.threads :
    /\ t # u /\ Ready(t) # {} /\ u \notin Ready(t)
    /\ Writes(t) \cap (Reads(u) \cup Writes(u)) # {}
    => StepOf(t).atomic /\ StepOf(u).atomic

\* When the kernels have finished, every output is what the CPU reference
\* computes: each element summed once, none missing, none stale.
ResultRight ==
  (\A t \in K.threads : Exited(t)) => \A c \in DOMAIN K.result : mem[c] = K.result[c]

\* What an assignment accesses, in order.
Accesses(a) == Append(a.expr.of, a.to)

\* Two lanes that execute these assignments together never need two cells of one
\* bank in an array that is declared free of conflicts.
BanksApart(kern, mine, yours) ==
  \A k \in DOMAIN mine \cap DOMAIN yours :
    \A i \in DOMAIN Accesses(mine[k]) \cap DOMAIN Accesses(yours[k]) :
      LET c == Accesses(mine[k])[i]
          d == Accesses(yours[k])[i]
      IN c # d /\ {c[1], d[1]} \subseteq kern.banked => c[3] % kern.warp # d[3] % kern.warp

\* Shared memory has a bank per lane.  In the kernels that pad or permute their
\* indices for it (scan v2, transpose v4 and v5), the lanes of a warp that
\* execute an access together never need two cells of one bank.
NoBankConflict ==
  \A t \in {u \in K.threads : K.banked # {} /\ AtScope(u, "thread")} :
    \A u \in Lanes(t) : pc[u] = pc[t] => BanksApart(K, StepOf(t).act[t], StepOf(t).act[u])

(***************************************************************************)
(* Why it holds.  Where two threads take part in a shuffle, a barrier or a *)
(* launch together, neither gets ahead of the other.  If every two that    *)
(* access a cell have such a meeting between their accesses, nobody races  *)
(* and the memory is, in the end, as if the steps had been taken one after *)
(* another, each by all its threads.                                       *)
(***************************************************************************)

\* Threads t and u meet in step b of a kernel.
SameWarp(kern, t, u) == Blk(t) = Blk(u) /\ Tid(t) \div kern.warp = Tid(u) \div kern.warp
MeetIn(kern, b, t, u) ==
  LET step == kern.steps[b]
  IN /\ {t, u} \subseteq DOMAIN step.act
     /\ \/ step.scope = "warp" /\ SameWarp(kern, t, u)
        \/ step.scope = "block" /\ Blk(t) = Blk(u)
        \/ step.scope = "grid"

\* Nobody leaves a meeting before all have come to it.
NobodyAhead ==
  \A t, u \in K.threads : \A b \in pc[t] .. pc[u] - 1 : ~MeetIn(K, b, t, u)

Conflict(a, t, b, u) ==
  \/ a.writes[t] \cap (b.reads[u] \cup b.writes[u]) # {}
  \/ a.reads[t] \cap b.writes[u] # {}

\* Accesses of one cell by two threads have a meeting of theirs between them,
\* be it the step of one of the accesses.
Separated(kern) ==
  \A i \in DOMAIN kern.steps : \A j \in i .. Len(kern.steps) :
    LET a == kern.steps[i]
        b == kern.steps[j]
    IN ~(a.atomic /\ b.atomic) =>
         \A t \in DOMAIN a.act, u \in DOMAIN b.act :
           t # u /\ Conflict(a, t, b, u) => \E m \in i .. j : MeetIn(kern, m, t, u)

\* Every cell that is accessed is declared.
Declared(kern) ==
  \A step \in Range(kern.steps) : \A t \in DOMAIN step.act :
    step.reads[t] \cup step.writes[t] \subseteq DOMAIN kern.mem

\* In no step do lanes of a warp need two cells of one bank.
BankFree(kern) ==
  \A step \in Range(kern.steps) : step.scope = "thread" =>
    \A t, u \in DOMAIN step.act : SameWarp(kern, t, u) => BanksApart(kern, step.act[t], step.act[u])

\* Threads synchronise in barriers and shuffles only: no atomics, no flags.
Plain(kern) ==
  \A step \in Range(kern.steps) :
    /\ step.scope \in {"thread", "warp", "block", "grid"} /\ ~step.atomic
    /\ step.scope \in {"block", "grid"} => \A t \in DOMAIN step.act : step.act[t] = <<>>

\* The kernels of which all this holds.
Disciplined(kern) == Declared(kern) /\ Separated(kern) /\ Plain(kern)

\* What step i stores in memory m when all take it, and the memory after each step.
Together(kern, i, t) ==
  IF kern.steps[i].scope = "warp"
  THEN {u \in DOMAIN kern.steps[i].act : SameWarp(kern, t, u)} ELSE {t}
Writers(step, c) == {t \in DOMAIN step.act : c \in step.writes[t]}
Taken(kern, i, m) ==
  LET step == kern.steps[i]
      new(t) == Stores(m, Together(kern, i, t), step.act)
  IN Table([c \in DOMAIN m |->
        IF Writers(step, c) = {} THEN m[c] ELSE new(CHOOSE t \in Writers(step, c) : TRUE)[c]])
InOrder(kern) ==
  LET after[i \in 0 .. Len(kern.steps)] ==
        IF i = 0 THEN kern.mem ELSE Given(after[i - 1], LAMBDA m : Taken(kern, i, m))
  IN after

\* Taken in this order the steps leave what the CPU reference computes.
RightInOrder(kern) ==
  \A outcome \in {InOrder(kern)[Len(kern.steps)]} :
    \A c \in DOMAIN kern.result : outcome[c] = kern.result[c]

\* The order in which the threads come to their steps makes no difference.
OneOutcome ==
  (\A t \in K.threads : Exited(t)) =>
    /\ DOMAIN mem = DOMAIN K.mem
    /\ \A c \in DOMAIN mem : mem[c] = InOrder(K)[Len(K.steps)][c]

Spec == Init /\ [][Next]_vars /\ WF_vars(Next)

\* Every launch comes to its end: no barrier waits for a thread that returned
\* early or takes another branch, no atomicCAS is tried for ever and no wait on
\* the mbarrier lacks its arrival or its bytes.
AllThreadsFinish == <>(\A t \in K.threads : Exited(t))
=============================================================================
