---------------------------- MODULE Contributions ----------------------------
(***************************************************************************)
(* The values a scan adds up.  Floats are abstracted to the free           *)
(* commutative monoid over their origin: a value counts how many times the *)
(* total of each (launch, tile) pair went into it.  A tile left out, added *)
(* twice or taken from an earlier launch is then visible in the value.     *)
(***************************************************************************)
EXTENDS Naturals, FiniteSets

CONSTANTS TILES,     \* number of tiles, one thread block each
          LAUNCHES   \* bound: how many times the host launches the kernel

ASSUME TilesAssumption == TILES \in Nat \ {0}
ASSUME LaunchesAssumption == LAUNCHES \in Nat

Tile == 0 .. TILES - 1
Contribution == (1 .. LAUNCHES) \X Tile
Value == [Contribution -> Nat]

Zero == [c \in Contribution |-> 0]

\* The value that counts tiles first .. end - 1 of launch n once each.
Exactly(n, first, end) ==
  [c \in Contribution |-> IF c[1] = n /\ first <= c[2] /\ c[2] < end THEN 1 ELSE 0]

Plus(v, w) == [c \in Contribution |-> v[c] + w[c]]

\* The sum of the values val[i] for i in the set S (an empty set sums to Zero).
SumOver(S, val) ==
  [c \in Contribution |-> Cardinality(UNION {{i} \X (1 .. val[i][c]) : i \in S})]
=============================================================================
