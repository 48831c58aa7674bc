---------------------------- MODULE TileSchedule ----------------------------
(***************************************************************************)
(* How the persistent kernel (cute_07 p1) shares the output tiles out: CTA *)
(* i takes tile_id = i, i + grid, i + 2 * grid, ... and turns each into a  *)
(* place of the num_tiles_m x num_tiles_n grid, row by row or swizzled.    *)
(* The CTAs never talk to each other: that each tile is computed, and by   *)
(* one CTA only, rests on this arithmetic and on the host's check.         *)
(***************************************************************************)
EXTENDS Integers

CONSTANTS CTAS,   \* gridDim.x, one CTA per SM
          SWIZ,   \* tiles per swizzle group
          MAXM,   \* bounds of the grids considered
          MAXN

ASSUME ScheduleAssumption ==
  CTAS \in Nat \ {0} /\ SWIZ \in Nat \ {0} /\ MAXM \in Nat /\ MAXN \in Nat

CTA == 0 .. CTAS - 1
RowMajor == 0
Swizzled == 1

VARIABLES num_tiles_m, num_tiles_n,  \* the grid of output tiles
          mode,                      \* the mapping the host chose
          tile_id,                   \* per CTA: the tile it takes next
          written                    \* places of the grid some CTA has written

scheduleVars == <<num_tiles_m, num_tiles_n, mode, tile_id, written>>

num_tiles == num_tiles_m * num_tiles_n
Grid == (0 .. num_tiles_m - 1) \X (0 .. num_tiles_n - 1)

\* Mutant: the check takes the wrong dimension.
CheckSwizzleColumns(m, n, md) == md = RowMajor \/ n % SWIZ = 0

\* check_swizzle_ok: the host launches nothing unless it holds.
CheckSwizzle(m, n, md) == md = RowMajor \/ m % SWIZ = 0

ScheduleInit ==
  /\ num_tiles_m \in 1 .. MAXM /\ num_tiles_n \in 1 .. MAXN
  /\ mode \in {RowMajor, Swizzled}
  /\ CheckSwizzle(num_tiles_m, num_tiles_n, mode)
  /\ tile_id = [c \in CTA |-> c]
  /\ written = {}

\* Mutant: the groups go down the columns by the number of rows.
TileCoordTransposed(id) ==
  IF mode = RowMajor
  THEN <<id \div num_tiles_n, id % num_tiles_n>>
  ELSE <<((id \div SWIZ) \div num_tiles_m) * SWIZ + (id % SWIZ), (id \div SWIZ) % num_tiles_m>>

\* tile_coord: <<by, bx>>.  Swizzled, SWIZ tiles of a column form a group, and the
\* groups are counted row by row.
TileCoord(id) ==
  IF mode = RowMajor
  THEN <<id \div num_tiles_n, id % num_tiles_n>>
  ELSE <<((id \div SWIZ) \div num_tiles_n) * SWIZ + (id % SWIZ), (id \div SWIZ) % num_tiles_n>>

\* Mutant: the CTA goes on to the neighbouring tile.
TakeNextDoor(c) ==
  /\ tile_id[c] < num_tiles
  /\ written' = written \cup {TileCoord(tile_id[c])}
  /\ tile_id' = [tile_id EXCEPT ![c] = @ + 1]
  /\ UNCHANGED <<num_tiles_m, num_tiles_n, mode>>

\* One round of the tile loop: compute the tile, write it, go on by the grid size.
Take(c) ==
  /\ tile_id[c] < num_tiles
  /\ written' = written \cup {TileCoord(tile_id[c])}
  /\ tile_id' = [tile_id EXCEPT ![c] = @ + CTAS]
  /\ UNCHANGED <<num_tiles_m, num_tiles_n, mode>>

ScheduleNext == \E c \in CTA : Take(c)

ScheduleSpec == ScheduleInit /\ [][ScheduleNext]_scheduleVars

-----------------------------------------------------------------------------
(* Properties *)

\* The shape of every variable; nothing outside the output is ever written.
ScheduleTypeOK ==
  /\ num_tiles_m \in Nat \ {0} /\ num_tiles_n \in Nat \ {0}
  /\ mode \in {RowMajor, Swizzled}
  /\ tile_id \in [CTA -> Nat]
  /\ written \subseteq Grid

\* No tile is computed twice, by whatever CTAs in whatever order.
WritesOnce == [][\A c \in CTA : Take(c) => TileCoord(tile_id[c]) \in Grid \ written]_scheduleVars

\* When all CTAs have left their loops no tile of the output is missing.
NothingMissing == (\A c \in CTA : tile_id[c] >= num_tiles) => written = Grid

-----------------------------------------------------------------------------
(* Why it holds *)

\* The CTAs' tile numbers keep apart, and the written tiles are those numbered
\* below where their CTA is.
ScheduleInv ==
  /\ num_tiles_m \in Nat \ {0} /\ num_tiles_n \in Nat \ {0}
  /\ mode \in {RowMajor, Swizzled}
  /\ CheckSwizzle(num_tiles_m, num_tiles_n, mode)
  /\ tile_id \in [CTA -> Nat]
  /\ \A c \in CTA : tile_id[c] % CTAS = c
  /\ written = {TileCoord(id) : id \in {i \in 0 .. num_tiles - 1 : i < tile_id[i % CTAS]}}
=============================================================================
