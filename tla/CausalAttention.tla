--------------------------- MODULE CausalAttention ---------------------------
(***************************************************************************)
(* MultiHeadCausalSelfAttention, the same class in both transformer        *)
(* scripts.  An activation stands for the set of the tokens it has been    *)
(* computed from, which is what the shuffling of axes must keep apart: the *)
(* one projection is cut into queries, keys and values per head, a query   *)
(* meets the keys of its own sequence that are not after it, and the heads *)
(* are put side by side again.                                             *)
(***************************************************************************)
EXTENDS Integers

CONSTANTS B,  \* sequences of a batch
          T,  \* tokens of a sequence
          H,  \* num_heads
          D   \* channels of a head: d_model is H * D

ASSUME AttentionAssumption ==
  B \in Nat \ {0} /\ T \in Nat \ {0} /\ H \in Nat \ {0} /\ D \in Nat \ {0}

C == H * D

\* Tokens are numbered as in x.reshape(N, C).
N == B * T
Token == 0 .. N - 1
Row(b, t) == b * T + t

\* The column of q, k or v (i) of head h: the axes are [3, H, D].
Column(i, h, d) == (i * H + h) * D + d
Qkv(x) == [n \in Token |-> [col \in 0 .. 3 * C - 1 |-> x[n]]]
Part(x, i, b, h, t, d) == Qkv(x)[Row(b, t)][Column(i, h, d)]

Score(x, b, h, t, s) ==
  UNION {Part(x, 0, b, h, t, d) \cup Part(x, 1, b, h, s, d) : d \in 0 .. D - 1}

\* Masked scores are the least of all numbers, so their keys have no weight beside
\* one that is not masked, and all the same weight in a row without one.
Causal(t, s) == s <= t
Attended(t) ==
  LET unmasked == {s \in 0 .. T - 1 : Causal(t, s)}
  IN  IF unmasked = {} THEN 0 .. T - 1 ELSE unmasked

Context(x, b, h, t, d) ==
  UNION {Score(x, b, h, t, s) \cup Part(x, 2, b, h, s, d) : s \in Attended(t)}

\* Mutant: the axes [B, H, T, D] are reshaped without the transpose.
MergedUntransposed(n, c) ==
  LET at == n * C + c
  IN  [b |-> at \div (H * (T * D)), h |-> (at \div (T * D)) % H, t |-> (at \div D) % T, d |-> at % D]

\* The element of the context that transpose(1, 2).reshape(B, T, C) puts in channel
\* c of token n: the axes are [B, T, H, D].
Merged(n, c) ==
  LET at == n * C + c
  IN  [b |-> at \div (T * C), t |-> (at \div C) % T, h |-> (at \div D) % H, d |-> at % D]

\* o_proj mixes the channels of a token.
Attention(x) ==
  [n \in Token |->
     UNION {LET e == Merged(n, c) IN Context(x, e.b, e.h, e.t, e.d) : c \in 0 .. C - 1}]

\* What the activation of a token may depend on: the tokens of its sequence up to it.
Past(n) == {m \in Token : m \div T = n \div T /\ m <= n}
=============================================================================
