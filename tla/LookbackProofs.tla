--------------------------- MODULE LookbackProofs ---------------------------
(***************************************************************************)
(* Proofs that hold for every number of tiles, launches, lanes per warp    *)
(* and resident blocks: the slots, windows and offsets of Lookback are     *)
(* right in every reachable state.                                         *)
(***************************************************************************)
EXTENDS Lookback, FiniteSetTheorems, TLAPS

\* Exactly yields a value, whatever the interval.
LEMMA ExactlyType ==
  ASSUME NEW n, NEW a \in Int, NEW b \in Int
  PROVE  Exactly(n, a, b) \in Value
BY DEF Exactly, Value, Contribution, Tile

\* Adding two adjacent intervals gives their union, each tile still once.
LEMMA PlusAdjacent ==
  ASSUME NEW n, NEW a \in Int, NEW b \in Int, NEW e \in Int, a <= b, b <= e
  PROVE  /\ Plus(Exactly(n, b, e), Exactly(n, a, b)) = Exactly(n, a, e)
         /\ Plus(Exactly(n, a, b), Exactly(n, b, e)) = Exactly(n, a, e)
<1>1. \A c \in Contribution : c[2] \in Int
  BY TilesAssumption DEF Contribution, Tile
<1>2. \A c \in Contribution :
        Exactly(n, b, e)[c] + Exactly(n, a, b)[c] = Exactly(n, a, e)[c]
  BY <1>1 DEF Exactly
<1>3. \A c \in Contribution :
        Exactly(n, a, b)[c] + Exactly(n, b, e)[c] = Exactly(n, a, e)[c]
  BY <1>1 DEF Exactly
<1> QED
  BY <1>2, <1>3 DEF Plus, Exactly

\* A sum in which exactly one summand counts the contribution, once.
LEMMA SumOneHot ==
  ASSUME NEW S, NEW val, NEW c \in Contribution, NEW i \in S, val[i][c] = 1,
         \A j \in S \ {i} : val[j][c] = 0
  PROVE  SumOver(S, val)[c] = 1
<1> DEFINE U == UNION {{j} \X (1 .. val[j][c]) : j \in S}
<1>1. U = {<<i, 1>>}
  <2>1. 1 .. val[i][c] = {1}
    BY 1 .. 1 = {1}
  <2>2. \A j \in S \ {i} : {j} \X (1 .. val[j][c]) = {}
    <3>1. 1 .. 0 = {}
      OBVIOUS
    <3> QED BY <3>1
  <2>3. {i} \X (1 .. val[i][c]) = {<<i, 1>>}
    BY <2>1
  <2>4. ASSUME NEW x PROVE x \in U <=> x \in {i} \X (1 .. val[i][c])
    <3>1. x \in U <=> \E j \in S : x \in {j} \X (1 .. val[j][c])
      OBVIOUS
    <3> QED BY <3>1, <2>2, Zenon
  <2> QED BY <2>3, <2>4
<1>2. Cardinality(U) = 1
  BY <1>1, FS_Singleton
<1> QED BY <1>2 DEF SumOver

\* A sum in which no summand counts the contribution.
LEMMA SumNone ==
  ASSUME NEW S, NEW val, NEW c \in Contribution, \A j \in S : val[j][c] = 0
  PROVE  SumOver(S, val)[c] = 0
<1> DEFINE U == UNION {{j} \X (1 .. val[j][c]) : j \in S}
<1>1. U = {}
  <2>1. 1 .. 0 = {}
    OBVIOUS
  <2> QED BY <2>1
<1>2. Cardinality(U) = 0
  BY <1>1, FS_EmptySet
<1> QED BY <1>2 DEF SumOver

\* The heart of the lookback: a lane with a PREFIX and AGGREGATEs in all lanes
\* after it add up to every tile before the end of the window, once each.
LEMMA SumFromCut ==
  ASSUME NEW n, NEW w \in Int, NEW cut \in Lane, NEW val,
         val[cut] = Exactly(n, 0, w + cut + 1),
         \A l \in Lane : l > cut => w + l >= 0 /\ val[l] = Exactly(n, w + l, w + l + 1)
  PROVE  SumOver({l \in Lane : l >= cut}, val) = Exactly(n, 0, w + WARP)
<1> DEFINE S == {l \in Lane : l >= cut}
           sum == SumOver(S, val)
<1>0. Lane \subseteq Int /\ \A l \in Lane : 0 <= l /\ l <= WARP - 1
  BY WarpAssumption DEF Lane
<1>1. ASSUME NEW c \in Contribution
      PROVE  sum[c] = Exactly(n, 0, w + WARP)[c]
  <2>1. c[2] \in Int /\ c[2] >= 0
    BY TilesAssumption DEF Contribution, Tile
  <2>5. ASSUME NEW l \in Lane, l > cut
        PROVE  l \in Int /\ val[l][c] = IF c[1] = n /\ c[2] = w + l THEN 1 ELSE 0
    <3>1. val[l] = Exactly(n, w + l, w + l + 1)
      BY <2>5, Zenon
    <3>2. val[l][c] = IF c[1] = n /\ w + l <= c[2] /\ c[2] < w + l + 1 THEN 1 ELSE 0
      BY <3>1 DEF Exactly
    <3> QED BY <3>2, <2>1, <1>0
  <2>6. val[cut][c] = IF c[1] = n /\ c[2] < w + cut + 1 THEN 1 ELSE 0
    BY <2>1 DEF Exactly
  <2>7. \A j \in S : j = cut \/ j > cut
    BY <1>0
  <2>2. CASE c[1] = n /\ c[2] < w + cut + 1
    <3>1. val[cut][c] = 1
      BY <2>2, <2>6
    <3>2. \A j \in S \ {cut} : val[j][c] = 0
      BY <2>1, <2>2, <2>5, <2>7, <1>0
    <3>3. cut \in S
      BY <1>0
    <3>4. sum[c] = 1
      BY <3>1, <3>2, <3>3, SumOneHot
    <3> QED BY <3>4, <2>1, <2>2, <1>0, WarpAssumption DEF Exactly
  <2>3. CASE c[1] = n /\ w + cut + 1 <= c[2] /\ c[2] < w + WARP
    <3> DEFINE i == c[2] - w
    <3>1. i \in S /\ i > cut
      BY <2>1, <2>3, <1>0, WarpAssumption DEF Lane
    <3>2. val[i][c] = 1
      BY <3>1, <2>1, <2>3, <2>5
    <3>3. \A j \in S \ {i} : val[j][c] = 0
      BY <2>1, <2>3, <2>5, <2>6, <2>7, <1>0
    <3>4. sum[c] = 1
      BY <3>1, <3>2, <3>3, SumOneHot
    <3> QED BY <3>4, <2>1, <2>3 DEF Exactly
  <2>4. CASE ~ (c[1] = n /\ c[2] < w + WARP)
    <3>1. \A j \in S : val[j][c] = 0
      BY <2>1, <2>4, <2>5, <2>6, <2>7, <1>0, WarpAssumption
    <3>2. sum[c] = 0
      BY <3>1, SumNone
    <3> QED BY <3>2, <2>4 DEF Exactly
  <2> QED BY <2>1, <2>2, <2>3, <2>4, <1>0, WarpAssumption
<1> QED BY <1>1 DEF SumOver, Exactly

\* A window of AGGREGATEs adds up to the tiles of the window, once each.
LEMMA SumOfAggregates ==
  ASSUME NEW n, NEW w \in Int, NEW val,
         \A l \in Lane : val[l] = Exactly(n, w + l, w + l + 1)
  PROVE  SumOver({l \in Lane : l >= 0}, val) = Exactly(n, w, w + WARP)
<1> DEFINE S == {l \in Lane : l >= 0}
           sum == SumOver(S, val)
<1>0. S = Lane /\ Lane \subseteq Int /\ \A l \in Lane : 0 <= l /\ l <= WARP - 1
  BY WarpAssumption DEF Lane
<1>1. ASSUME NEW c \in Contribution
      PROVE  sum[c] = Exactly(n, w, w + WARP)[c]
  <2>1. c[2] \in Int
    BY TilesAssumption DEF Contribution, Tile
  <2>4. ASSUME NEW l \in Lane
        PROVE  val[l][c] = IF c[1] = n /\ c[2] = w + l THEN 1 ELSE 0
    <3>1. val[l] = Exactly(n, w + l, w + l + 1)
      OBVIOUS
    <3>2. val[l][c] = IF c[1] = n /\ w + l <= c[2] /\ c[2] < w + l + 1 THEN 1 ELSE 0
      BY <3>1 DEF Exactly
    <3> QED BY <3>2, <2>1, <1>0
  <2>2. CASE c[1] = n /\ w <= c[2] /\ c[2] < w + WARP
    <3> DEFINE i == c[2] - w
    <3>1. i \in S
      BY <2>1, <2>2, WarpAssumption DEF Lane
    <3>2. val[i][c] = 1
      BY <3>1, <2>1, <2>2, <2>4, <1>0
    <3>3. ASSUME NEW j \in S \ {i} PROVE val[j][c] = 0
      <4>1. j \in Lane /\ j \in Int /\ c[2] # w + j
        BY <2>1, <1>0
      <4> QED BY <4>1, <2>4
    <3>4. sum[c] = 1
      BY <3>1, <3>2, <3>3, SumOneHot
    <3> QED BY <3>4, <2>1, <2>2 DEF Exactly
  <2>3. CASE ~ (c[1] = n /\ w <= c[2] /\ c[2] < w + WARP)
    <3>1. \A j \in S : val[j][c] = 0
      BY <2>1, <2>3, <2>4, <1>0, WarpAssumption
    <3>2. sum[c] = 0
      BY <3>1, SumNone
    <3> QED BY <3>2, <2>3 DEF Exactly
  <2> QED BY <2>2, <2>3
<1> QED BY <1>1 DEF SumOver, Exactly

-----------------------------------------------------------------------------
(* The inductive invariant *)

\* Tiles and lanes are numbers, and the values the kernel stores are typed.
LEMMA Basics ==
  /\ Tile \subseteq Nat /\ Lane \subseteq Nat
  /\ \A l \in Lane : l < WARP
  /\ 0 \in Lane /\ WARP \in Nat /\ WARP > 0
  /\ Zero \in Value
  /\ \A n : \A t \in Tile : Exactly(n, 0, t) \in Value /\ Exactly(n, t, t + 1) \in Value
                         /\ Exactly(n, 0, t + 1) \in Value
  /\ \A v \in Value, f \in {FLAG_INVALID, FLAG_AGGREGATE, FLAG_PREFIX} : Slot(v, f) \in TileState
  /\ Cleared \in TileState /\ BeforeArray \in TileState
BY TilesAssumption, WarpAssumption, ExactlyType
   DEF Tile, Lane, Zero, Value, Slot, TileState, Cleared, BeforeArray

\* A contribution names its tile by a number.
LEMMA ContributionTile == \A c \in Contribution : c[2] \in Int /\ c[2] >= 0
BY TilesAssumption DEF Contribution, Tile

\* The flags tell the kinds of slots apart.
LEMMA Flags ==
  /\ Unread.flag = -1 /\ Cleared.flag = FLAG_INVALID /\ BeforeArray.flag = FLAG_PREFIX
  /\ \A v, f : Slot(v, f).flag = f /\ Slot(v, f).value = v
  /\ BeforeArray.value = Zero
  /\ FLAG_INVALID = 0 /\ FLAG_AGGREGATE = 1 /\ FLAG_PREFIX = 2
BY DEF Unread, Cleared, BeforeArray, Slot, FLAG_INVALID, FLAG_AGGREGATE, FLAG_PREFIX

\* A fresh window holds nothing a lane may not hold.
LEMMA FreshMayHold ==
  ASSUME NEW w \in Int
  PROVE  /\ \A l \in Lane : FreshWindow(w)[l] \in MayHold(w + l)
         /\ FreshWindow(w) \in [Lane -> TileState \cup {Unread}]
BY Basics DEF FreshWindow, MayHold

\* Initially nothing is published and no block runs.
LEMMA InitInv == Init => IndInv
<1> SUFFICES ASSUME Init PROVE IndInv
  OBVIOUS
<1>1. TypeOK
  BY Basics, LaunchesAssumption DEF Init, TypeOK
<1>2. SlotByPc /\ WalkByWindow /\ OffsetRight
  BY DEF Init, SlotByPc, WalkByWindow, OffsetRight
<1> QED BY <1>1, <1>2 DEF IndInv

\* A launch clears every flag, so nothing of the launch before can be read.
LEMMA LaunchInv == IndInv /\ Launch => IndInv'
<1> SUFFICES ASSUME IndInv, Launch PROVE IndInv'
  OBVIOUS
<1>1. TypeOK'
  BY Basics, LaunchesAssumption DEF IndInv, TypeOK, Launch
<1>2. (SlotByPc /\ WalkByWindow /\ OffsetRight)'
  BY DEF Launch, SlotByPc, WalkByWindow, OffsetRight
<1> QED BY <1>1, <1>2 DEF IndInv

\* Steps of a block that touch neither a slot nor what its lanes gathered.
LEMMA QuietInv ==
  ASSUME NEW t \in Tile, IndInv, Dispatch(t) \/ SkipLookback(t)
  PROVE  IndInv'
<1>1. TypeOK'
  BY Basics DEF IndInv, TypeOK, Dispatch, SkipLookback
<1>2. SlotByPc'
  BY DEF IndInv, TypeOK, SlotByPc, Dispatch, SkipLookback, Total
<1>3. Zero = Exactly(launch, 0, 0)
  <2>1. \A c \in Contribution : ~ (0 <= c[2] /\ c[2] < 0)
    BY ContributionTile
  <2> QED BY <2>1 DEF Zero, Exactly
<1>4. WalkByWindow'
  <2>1. CASE Dispatch(t)
    BY <2>1 DEF IndInv, TypeOK, WalkByWindow, Dispatch, MayHold, Total
  <2>2. CASE SkipLookback(t)
    <3>1. exclusive'[t] = Exactly(launch, 0, t) /\ pc'[t] = "publish" /\ launch' = launch
      BY <2>2, <1>3 DEF IndInv, TypeOK, SkipLookback
    <3>2. \A u \in Tile \ {t} : /\ pc'[u] = pc[u] /\ exclusive'[u] = exclusive[u]
                              /\ window'[u] = window[u] /\ seen'[u] = seen[u]
      BY <2>2 DEF IndInv, TypeOK, SkipLookback
    <3> QED BY <3>1, <3>2 DEF IndInv, WalkByWindow, MayHold, Total
  <2> QED BY <2>1, <2>2
<1>5. OffsetRight'
  BY DEF IndInv, TypeOK, OffsetRight, Dispatch, SkipLookback
<1> QED BY <1>1, <1>2, <1>4, <1>5 DEF IndInv

\* The AGGREGATE of a tile counts the tile alone, and the walk starts next to it.
LEMMA PublishAggregateInv ==
  ASSUME NEW t \in Tile, IndInv, PublishAggregate(t)
  PROVE  IndInv'
<1> DEFINE w == t - WARP
<1>0. w \in Int /\ t \in Int
  BY Basics
<1>1. TypeOK'
  <2>1. Slot(Total(t), FLAG_AGGREGATE) \in TileState
    BY Basics DEF Total
  <2> QED BY <1>0, <2>1, Basics, FreshMayHold DEF IndInv, TypeOK, PublishAggregate
<1>2. SlotByPc'
  BY DEF IndInv, TypeOK, SlotByPc, PublishAggregate, Total
<1>3. Zero = Exactly(launch, w + WARP, t)
  <2>1. w + WARP = t
    BY Basics
  <2>2. \A c \in Contribution : ~ (t <= c[2] /\ c[2] < t)
    BY <1>0, ContributionTile
  <2> QED BY <2>1, <2>2 DEF Zero, Exactly
<1>4. WalkByWindow'
  <2>1. 0 < w + WARP /\ w + WARP <= t
    BY Basics DEF PublishAggregate
  <2>2. \A l \in Lane : FreshWindow(w)[l] \in MayHold(w + l)
    BY <1>0, FreshMayHold
  <2> QED BY <1>3, <2>1, <2>2 DEF IndInv, TypeOK, WalkByWindow, PublishAggregate, MayHold, Total
<1>5. OffsetRight'
  BY DEF IndInv, TypeOK, OffsetRight, PublishAggregate
<1> QED BY <1>1, <1>2, <1>4, <1>5 DEF IndInv

\* A lane that loads tile p gets whatever p shows now, which p may show.
LEMMA LoadLaneInv ==
  ASSUME NEW t \in Tile, NEW l \in Lane, IndInv, LoadLane(t, l)
  PROVE  IndInv'
<1> DEFINE p == window[t] + l
<1>1. p \in Tile /\ p \in Int /\ p >= 0
  <2>1. p \in Int /\ p < t
    BY Basics DEF IndInv, TypeOK, WalkByWindow, LoadLane
  <2>2. p >= 0
    <3>1. Unread \in MayHold(p)
      BY DEF IndInv, WalkByWindow, LoadLane
    <3> QED BY <3>1, <2>1, Flags DEF MayHold
  <2> QED BY <2>1, <2>2, TilesAssumption DEF Tile
<1>2. state[p] \in MayHold(p)
  <2>2. state[p] = Cleared \/ state[p] = Slot(Exactly(launch, 0, p + 1), FLAG_PREFIX)
        \/ (p # 0 /\ state[p] = Slot(Total(p), FLAG_AGGREGATE))
    <3>1. ASSUME NEW u \in Tile
          PROVE  state[u] = Cleared \/ state[u] = Slot(Exactly(launch, 0, u + 1), FLAG_PREFIX)
                 \/ (u # 0 /\ state[u] = Slot(Total(u), FLAG_AGGREGATE))
      BY DEF IndInv, TypeOK, SlotByPc
    <3> QED BY <3>1, <1>1
  <2> HIDE DEF p
  <2> QED BY <2>2, <1>1 DEF MayHold
<1>3. TypeOK'
  BY <1>1 DEF IndInv, TypeOK, LoadLane
<1>4. SlotByPc' /\ OffsetRight'
  BY DEF IndInv, SlotByPc, OffsetRight, LoadLane, Total
<1>5. WalkByWindow'
  <2>1. \A u \in Tile : \A m \in Lane : pc[u] = "lookback" => seen'[u][m] \in MayHold(window[u] + m)
    BY <1>2 DEF IndInv, TypeOK, WalkByWindow, LoadLane
  <2> QED BY <2>1 DEF IndInv, WalkByWindow, LoadLane, MayHold, Total
<1> QED BY <1>3, <1>4, <1>5 DEF IndInv

\* Loading a window again forgets it and nothing else.
LEMMA RetryInv ==
  ASSUME NEW t \in Tile, IndInv, Retry(t)
  PROVE  IndInv'
<1>0. window[t] \in Int
  BY DEF IndInv, TypeOK
<1>1. TypeOK'
  BY <1>0, FreshMayHold DEF IndInv, TypeOK, Retry
<1>2. SlotByPc' /\ OffsetRight'
  BY DEF IndInv, SlotByPc, OffsetRight, Retry, Total
<1>3. WalkByWindow'
  <2>1. \A u \in Tile : \A m \in Lane : pc[u] = "lookback" => seen'[u][m] \in MayHold(window[u] + m)
    BY <1>0, FreshMayHold DEF IndInv, TypeOK, WalkByWindow, Retry
  <2> QED BY <2>1 DEF IndInv, WalkByWindow, Retry, MayHold, Total
<1> QED BY <1>1, <1>2, <1>3 DEF IndInv

\* A window without a PREFIX is all AGGREGATEs of tiles after tile 0.
LEMMA AggregateWindow ==
  ASSUME NEW t \in Tile, IndInv, WindowValid(t), PrefixLanes(t) = {}
  PROVE  /\ window[t] > 0
         /\ Gathered(t, 0) = Exactly(launch, window[t], t)
<1> DEFINE w == window[t]
           val == [l \in Lane |-> seen[t][l].value]
<1>0. w \in Int /\ pc[t] = "lookback"
  BY DEF IndInv, TypeOK, WindowValid, WindowLoaded
<1>1. \A l \in Lane : w + l > 0 /\ seen[t][l] = Slot(Total(w + l), FLAG_AGGREGATE)
  <2> SUFFICES ASSUME NEW l \in Lane
               PROVE  w + l > 0 /\ seen[t][l] = Slot(Total(w + l), FLAG_AGGREGATE)
    OBVIOUS
  <2>1. seen[t][l] \in MayHold(w + l)
    BY <1>0 DEF IndInv, WalkByWindow
  <2>2. seen[t][l] # Unread /\ seen[t][l].flag # FLAG_INVALID /\ seen[t][l].flag # FLAG_PREFIX
    BY DEF WindowValid, WindowLoaded, PrefixLanes
  <2>3. w + l \in Int
    BY <1>0, Basics
  <2> QED BY <2>1, <2>2, <2>3, Flags DEF MayHold
<1>2. \A l \in Lane : val[l] = Exactly(launch, w + l, w + l + 1)
  BY <1>1, Flags DEF Total
<1>3. SumOver({l \in Lane : l >= 0}, val) = Exactly(launch, w, w + WARP)
  BY <1>0, <1>2, SumOfAggregates
<1>4. w > 0
  BY <1>0, <1>1, Basics
<1>5. w + WARP \in Int /\ w <= w + WARP /\ w + WARP <= t /\ t \in Int
      /\ exclusive[t] = Exactly(launch, w + WARP, t)
  BY <1>0, Basics DEF IndInv, WalkByWindow
<1>6. Plus(exclusive[t], Exactly(launch, w, w + WARP)) = Exactly(launch, w, t)
  BY <1>0, <1>5, PlusAdjacent
<1> QED BY <1>3, <1>4, <1>6 DEF Gathered

\* The window moves back and the sum covers the window it leaves.
LEMMA MoveWindowInv ==
  ASSUME NEW t \in Tile, IndInv, MoveWindow(t)
  PROVE  IndInv'
<1> DEFINE w == window[t] - WARP
<1>0. w \in Int /\ w + WARP = window[t] /\ window[t] \in Int /\ t \in Int
  BY Basics DEF IndInv, TypeOK
<1>1. window[t] > 0 /\ Gathered(t, 0) = Exactly(launch, window[t], t)
  BY AggregateWindow DEF MoveWindow
<1>2. window[t] <= t
  BY <1>0, Basics DEF IndInv, WalkByWindow, MoveWindow, WindowValid, WindowLoaded
<1>3. TypeOK'
  BY <1>0, <1>1, FreshMayHold, ExactlyType DEF IndInv, TypeOK, MoveWindow
<1>4. SlotByPc' /\ OffsetRight'
  BY DEF IndInv, SlotByPc, OffsetRight, MoveWindow, Total
<1>5. WalkByWindow'
  <2>1. \A l \in Lane : FreshWindow(w)[l] \in MayHold(w + l)
    BY <1>0, FreshMayHold
  <2>2. /\ window'[t] = w /\ exclusive'[t] = Exactly(launch, w + WARP, t)
        /\ seen'[t] = FreshWindow(w) /\ pc'[t] = "lookback" /\ t > 0 /\ launch' = launch
    BY <1>0, <1>1 DEF IndInv, TypeOK, WalkByWindow, MoveWindow, WindowValid, WindowLoaded
  <2>3. \A u \in Tile \ {t} : /\ pc'[u] = pc[u] /\ exclusive'[u] = exclusive[u]
                            /\ window'[u] = window[u] /\ seen'[u] = seen[u]
    BY DEF IndInv, TypeOK, MoveWindow
  <2>4. 0 < w + WARP /\ w + WARP <= t
    BY <1>0, <1>1, <1>2
  <2> HIDE DEF w
  <2>5. \A p : MayHold(p)' = MayHold(p)
    BY <2>2 DEF MayHold, Total
  <2> QED BY <2>1, <2>2, <2>3, <2>4, <2>5 DEF IndInv, WalkByWindow
<1> QED BY <1>3, <1>4, <1>5 DEF IndInv

\* The last PREFIX of a window and the AGGREGATEs after it complete the prefix.
LEMMA ResolvedPrefix ==
  ASSUME NEW t \in Tile, IndInv, WindowValid(t), NEW cut \in PrefixLanes(t),
         \A l \in PrefixLanes(t) : l <= cut
  PROVE  Gathered(t, cut) = Exactly(launch, 0, t)
<1> DEFINE w == window[t]
           val == [l \in Lane |-> seen[t][l].value]
<1>0. w \in Int /\ pc[t] = "lookback" /\ cut \in Lane
  BY DEF IndInv, TypeOK, WindowValid, WindowLoaded, PrefixLanes
<1>1. \A l \in Lane : seen[t][l] \in MayHold(w + l) /\ w + l \in Int /\ l \in Int
  BY <1>0, Basics DEF IndInv, WalkByWindow
<1>2. ASSUME NEW l \in Lane, l > cut
      PROVE  w + l >= 0 /\ val[l] = Exactly(launch, w + l, w + l + 1)
  <2>1. l \notin PrefixLanes(t)
    BY <1>0, <1>1, <1>2
  <2>2. seen[t][l] # Unread /\ seen[t][l].flag # FLAG_INVALID /\ seen[t][l].flag # FLAG_PREFIX
    BY <2>1 DEF WindowValid, WindowLoaded, PrefixLanes
  <2>3. seen[t][l] \in MayHold(w + l) /\ w + l \in Int
    BY <1>1
  <2>4. w + l >= 0 /\ seen[t][l] = Slot(Total(w + l), FLAG_AGGREGATE)
    BY <2>2, <2>3, Flags DEF MayHold
  <2> QED BY <2>4, Flags DEF Total
<1>3. val[cut] = Exactly(launch, 0, w + cut + 1)
  <2>1. seen[t][cut].flag = FLAG_PREFIX
    BY DEF PrefixLanes
  <2>2. CASE w + cut < 0
    <3>1. val[cut] = Zero
      BY <2>2, <1>0, <1>1, Flags DEF MayHold
    <3>2. \A c \in Contribution : ~ (0 <= c[2] /\ c[2] < w + cut + 1)
      BY <2>2, <1>0, <1>1, ContributionTile
    <3> QED BY <3>1, <3>2 DEF Zero, Exactly
  <2>3. CASE w + cut >= 0
    <3>1. seen[t][cut] = Slot(Exactly(launch, 0, w + cut + 1), FLAG_PREFIX)
      <4>1. seen[t][cut] \in MayHold(w + cut) /\ w + cut \in Int
        BY <1>0, <1>1
      <4> QED BY <2>1, <2>3, <4>1, Flags DEF MayHold
    <3> QED BY <3>1, <1>0, Flags
  <2> QED BY <2>2, <2>3, <1>0, <1>1
<1>4. SumOver({l \in Lane : l >= cut}, val) = Exactly(launch, 0, w + WARP)
  BY <1>0, <1>2, <1>3, SumFromCut
<1>5. w + WARP \in Int /\ 0 <= w + WARP /\ w + WARP <= t /\ t \in Int
      /\ exclusive[t] = Exactly(launch, w + WARP, t)
  BY <1>0, Basics DEF IndInv, WalkByWindow
<1>6. Plus(exclusive[t], Exactly(launch, 0, w + WARP)) = Exactly(launch, 0, t)
  BY <1>5, PlusAdjacent
<1> QED BY <1>4, <1>6 DEF Gathered

\* A resolved walk ends with the exclusive prefix of the tile.
LEMMA ResolveInv ==
  ASSUME NEW t \in Tile, IndInv, Resolve(t)
  PROVE  IndInv'
<1>1. PICK cut \in PrefixLanes(t) :
        /\ \A l \in PrefixLanes(t) : l <= cut
        /\ exclusive' = [exclusive EXCEPT ![t] = Gathered(t, cut)]
  BY DEF Resolve
<1>2. exclusive' = [exclusive EXCEPT ![t] = Exactly(launch, 0, t)]
  BY <1>1, ResolvedPrefix DEF Resolve
<1>3. pc[t] = "lookback" /\ t > 0
  BY DEF IndInv, WalkByWindow, Resolve, WindowValid, WindowLoaded
<1>4. TypeOK'
  BY <1>2, Basics DEF IndInv, TypeOK, Resolve
<1>5. SlotByPc' /\ OffsetRight'
  BY <1>3 DEF IndInv, TypeOK, SlotByPc, OffsetRight, Resolve, Total
<1>6. WalkByWindow'
  <2>1. exclusive'[t] = Exactly(launch, 0, t) /\ pc'[t] = "publish" /\ launch' = launch
    BY <1>2 DEF IndInv, TypeOK, Resolve
  <2>2. \A u \in Tile \ {t} : /\ pc'[u] = pc[u] /\ exclusive'[u] = exclusive[u]
                            /\ window'[u] = window[u] /\ seen'[u] = seen[u]
    BY <1>2 DEF IndInv, TypeOK, Resolve
  <2> QED BY <2>1, <2>2 DEF IndInv, WalkByWindow, MayHold, Total
<1> QED BY <1>4, <1>5, <1>6 DEF IndInv

\* Prefix and own total make the inclusive prefix that later tiles may use.
LEMMA PublishPrefixInv ==
  ASSUME NEW t \in Tile, IndInv, PublishPrefix(t)
  PROVE  IndInv'
<1>1. Plus(exclusive[t], Total(t)) = Exactly(launch, 0, t + 1)
  <2>1. exclusive[t] = Exactly(launch, 0, t)
    BY DEF IndInv, WalkByWindow, PublishPrefix
  <2>2. t \in Int /\ 0 <= t /\ t <= t + 1 /\ t + 1 \in Int
    BY Basics
  <2> QED BY <2>1, <2>2, PlusAdjacent DEF Total
<1>2. TypeOK'
  BY <1>1, Basics DEF IndInv, TypeOK, PublishPrefix
<1>3. SlotByPc' /\ OffsetRight'
  BY <1>1 DEF IndInv, TypeOK, SlotByPc, OffsetRight, PublishPrefix, Total
<1>4. WalkByWindow'
  BY DEF IndInv, TypeOK, WalkByWindow, PublishPrefix, MayHold, Total
<1> QED BY <1>2, <1>3, <1>4 DEF IndInv

\* The block writes what its walk gathered.
LEMMA WriteOutInv ==
  ASSUME NEW t \in Tile, IndInv, WriteOut(t)
  PROVE  IndInv'
<1>1. TypeOK'
  BY DEF IndInv, TypeOK, WriteOut
<1>2. SlotByPc' /\ OffsetRight'
  BY DEF IndInv, TypeOK, SlotByPc, WalkByWindow, OffsetRight, WriteOut, Total
<1>3. WalkByWindow'
  BY DEF IndInv, TypeOK, WalkByWindow, WriteOut, MayHold, Total
<1> QED BY <1>1, <1>2, <1>3 DEF IndInv

\* Steps that leave every variable alone.
LEMMA StutterInv == IndInv /\ UNCHANGED vars => IndInv'
<1> SUFFICES ASSUME IndInv, UNCHANGED vars PROVE IndInv'
  OBVIOUS
<1>1. TypeOK'
  BY DEF IndInv, TypeOK, vars
<1>2. SlotByPc' /\ OffsetRight'
  BY DEF IndInv, SlotByPc, OffsetRight, Total, vars
<1>3. WalkByWindow'
  BY DEF IndInv, WalkByWindow, MayHold, Total, vars
<1> QED BY <1>1, <1>2, <1>3 DEF IndInv

\* The invariant holds in every state of every run of the kernel.
THEOREM Invariance == Spec => []IndInv
<1>1. IndInv /\ [Next]_vars => IndInv'
  <2> SUFFICES ASSUME IndInv, [Next]_vars PROVE IndInv'
    OBVIOUS
  <2>1. CASE Launch
    BY <2>1, LaunchInv
  <2>2. CASE \E t \in Tile : Dispatch(t) \/ SkipLookback(t)
    BY <2>2, QuietInv
  <2>3. CASE \E t \in Tile : PublishAggregate(t)
    BY <2>3, PublishAggregateInv
  <2>4. CASE \E t \in Tile : \E l \in Lane : LoadLane(t, l)
    BY <2>4, LoadLaneInv
  <2>5. CASE \E t \in Tile : Retry(t)
    BY <2>5, RetryInv
  <2>6. CASE \E t \in Tile : MoveWindow(t)
    BY <2>6, MoveWindowInv
  <2>7. CASE \E t \in Tile : Resolve(t)
    BY <2>7, ResolveInv
  <2>8. CASE \E t \in Tile : PublishPrefix(t)
    BY <2>8, PublishPrefixInv
  <2>9. CASE \E t \in Tile : WriteOut(t)
    BY <2>9, WriteOutInv
  <2>10. CASE UNCHANGED vars
    BY <2>10, StutterInv
  <2> QED BY <2>1, <2>2, <2>3, <2>4, <2>5, <2>6, <2>7, <2>8, <2>9, <2>10 DEF Next, BlockStep
<1> QED BY InitInv, <1>1, PTL DEF Spec

\* Type correctness of the kernel and the host's loop.
THEOREM TypeCorrect == Spec => []TypeOK
<1>1. IndInv => TypeOK
  BY DEF IndInv
<1> QED BY Invariance, <1>1, PTL

\* What any block can read from a slot is right for the launch that runs.
THEOREM PublishedCorrect == Spec => []PublishedRight
<1>1. IndInv => PublishedRight
  <2> SUFFICES ASSUME IndInv, NEW t \in Tile
               PROVE  /\ state[t].flag = FLAG_AGGREGATE => state[t].value = Exactly(launch, t, t + 1)
                      /\ state[t].flag = FLAG_PREFIX => state[t].value = Exactly(launch, 0, t + 1)
    BY DEF PublishedRight
  <2>1. pc[t] \in {"idle", "pending", "scan", "lookback", "publish", "write", "done"}
    BY DEF IndInv, TypeOK
  <2> QED BY <2>1, Flags DEF IndInv, SlotByPc, Total
<1> QED BY Invariance, <1>1, PTL

\* Every finished tile got the sum of exactly the tiles before it.
THEOREM OffsetCorrect == Spec => []OffsetRight
<1>1. IndInv => OffsetRight
  BY DEF IndInv
<1> QED BY Invariance, <1>1, PTL

\* The walk over the predecessors never leaves the array.
THEOREM WalkStaysInside == Spec => []WalkEndsAtHead
<1>1. IndInv => WalkEndsAtHead
  BY DEF IndInv, WalkByWindow, WalkEndsAtHead
<1> QED BY Invariance, <1>1, PTL

-----------------------------------------------------------------------------
(* Refinement: the kernel is a global exclusive scan *)

\* A step of a block other than the write-out is invisible to the scan.
LEMMA HiddenStep ==
  ASSUME NEW t \in Tile, TypeOK,
         pc[t] \notin {"idle", "done"},
         \E s \in {"scan", "lookback", "publish", "write"} : pc' = [pc EXCEPT ![t] = s],
         launch' = launch, out' = out
  PROVE  UNCHANGED Scan!scanVars
<1>1. \A u \in Tile : pc'[u] \in {"idle", "done"} <=> pc[u] \in {"idle", "done"}
  BY DEF TypeOK
<1> QED BY <1>1 DEF Scan!scanVars

\* Every step of the kernel is a step of the scan or leaves it alone: a tile is
\* finished once per launch, with the sum of exactly the tiles before it.
THEOREM Refinement == Spec => ScanSafety
<1>1. Init => Scan!ScanInit
  BY DEF Init, Scan!ScanInit, Zero, Contribution, Tile, Scan!Zero, Scan!Contribution, Scan!Tile
<1>2. IndInv /\ [Next]_vars => [Scan!ScanNext]_(Scan!scanVars)
  <2> SUFFICES ASSUME IndInv, [Next]_vars PROVE [Scan!ScanNext]_(Scan!scanVars)
    OBVIOUS
  <2> USE DEF Scan!Tile, Tile
  <2>0. TypeOK
    BY DEF IndInv
  <2>1. CASE Launch
    <3>1. {t \in Tile : pc[t] \in {"idle", "done"}} = Tile
      BY <2>1 DEF Launch
    <3>2. {t \in Tile : pc'[t] \in {"idle", "done"}} = {}
      BY <2>1 DEF Launch
    <3>3. Scan!StartScan
      BY <2>1, <3>1, <3>2 DEF Launch, Scan!StartScan
    <3> QED BY <3>3 DEF Scan!ScanNext
  <2>2. ASSUME NEW t \in Tile, WriteOut(t) PROVE Scan!ScanNext
    <3>1. exclusive[t] = Exactly(launch, 0, t)
      BY <2>2 DEF IndInv, WalkByWindow, WriteOut
    <3>2. {u \in Tile : pc'[u] \in {"idle", "done"}}
            = {u \in Tile : pc[u] \in {"idle", "done"}} \cup {t}
      BY <2>0, <2>2 DEF TypeOK, WriteOut
    <3>3. Exactly(launch, 0, t) = Scan!Exactly(launch, 0, t)
      BY DEF Exactly, Scan!Exactly, Contribution, Scan!Contribution
    <3>4. t \notin {u \in Tile : pc[u] \in {"idle", "done"}}
      BY <2>2 DEF WriteOut
    <3>5. Scan!FinishTile(t)
      BY <2>2, <3>1, <3>2, <3>3, <3>4 DEF WriteOut, Scan!FinishTile
    <3> QED BY <3>5 DEF Scan!ScanNext
  <2>3. ASSUME NEW t \in Tile, Dispatch(t) \/ (BlockStep(t) /\ ~WriteOut(t))
        PROVE UNCHANGED Scan!scanVars
    <3>1. CASE Dispatch(t)
      BY <2>0, <3>1, HiddenStep DEF Dispatch
    <3>2. CASE SkipLookback(t) \/ PublishAggregate(t)
      BY <2>0, <3>2, HiddenStep DEF SkipLookback, PublishAggregate
    <3>3. CASE \E l \in Lane : LoadLane(t, l)
      BY <3>3 DEF LoadLane, Scan!scanVars
    <3>4. CASE Retry(t)
      BY <3>4 DEF Retry, Scan!scanVars
    <3>5. CASE MoveWindow(t)
      BY <3>5 DEF MoveWindow, Scan!scanVars
    <3>6. CASE Resolve(t)
      BY <2>0, <3>6, HiddenStep DEF Resolve, WindowValid, WindowLoaded
    <3>7. CASE PublishPrefix(t)
      BY <2>0, <3>7, HiddenStep DEF PublishPrefix
    <3> QED BY <2>3, <3>1, <3>2, <3>3, <3>4, <3>5, <3>6, <3>7 DEF BlockStep
  <2>4. CASE UNCHANGED vars
    BY <2>4 DEF vars, Scan!scanVars
  <2> QED BY <2>1, <2>2, <2>3, <2>4 DEF Next, BlockStep
<1> QED BY Invariance, <1>1, <1>2, PTL DEF Spec, ScanSafety
=============================================================================
