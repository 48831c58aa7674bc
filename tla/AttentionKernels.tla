--------------------------- MODULE AttentionKernels ---------------------------
(***************************************************************************)
(* The causal attention forward pass in Triton.  A program is one thread   *)
(* here; it has BLOCK_SIZE_QO rows and goes along the keys in blocks of    *)
(* BLOCK_SIZE_KV, first those under the diagonal, then those on it.  A     *)
(* token's head vector is one input; rows of tokens that do not exist are  *)
(* never stored and left out.                                              *)
(***************************************************************************)
EXTENDS KernelSteps

Q(token) == Cell("in", 0, token)
K(token) == Cell("k", 0, token)
V(token) == Cell("v", 0, token)
LSE(token) == Cell("lse", 0, token)

\* n tokens in all: token i is input i as a query, n + i as a key, 2n + i as a value.
Tokens(n) ==
  Inputs(n) @@ [c \in Array("k", 0, n) |-> Input(n + c[3])]
            @@ [c \in Array("v", 0, n) |-> Input(2 * n + c[3])]

\* The reference, for BH sequences of N tokens: softmax over the tokens up to
\* the query's own, and the values weighted with it.
scaled_dot_product_attention(BH, N) ==
  LET n == BH * N
      upto(q) == (q \div N) * N .. q
      scores(q) == {<< <<q, n + j>> >> : j \in upto(q)}
      max_sum(q) == <<scores(q), {<<s[1], scores(q)>> : s \in scores(q)}>>
      values(q) == {<< <<q, n + j>>, scores(q), 2 * n + j>> : j \in upto(q)}
  IN [c \in Array("out", 0, n) |-> {<<values(c[3]), max_sum(c[3])[2]>>}]
     @@ [c \in Array("lse", 0, n) |-> {max_sum(c[3])}]

\* The registers of a program: its running values per row, one block's values.
M(t, q) == Reg(<<"M", q>>, t)
M_new(t, q) == Reg(<<"M_new", q>>, t)
L(t, q) == Reg(<<"L", q>>, t)
O(t, q) == Reg(<<"O", q>>, t)
Key(t, c) == Reg(<<"K_T", c>>, t)
Value(t, c) == Reg(<<"V", c>>, t)
S(t, q, c) == Reg(<<"S", q, c>>, t)
P(t, q, c) == Reg(<<"P", q, c>>, t)
PV(t, q, c) == Reg(<<"PV", q, c>>, t)

\* One row against one block of columns; it sees the columns `seen`, the scores
\* of the others have -1e6 added.  All q and c are places in the sequence at `base`.
OnlineSoftmax(t, base, q, cols, seen) ==
  LET on(c) == c \in Range(seen)
  IN [i \in DOMAIN cols |-> S(t, q, cols[i]) := Op("score", <<Q(base + q), Key(t, cols[i])>>)]
     \o <<M_new(t, q) := Op("max", <<M(t, q)>> \o [i \in DOMAIN seen |-> S(t, q, seen[i])])>>
     \o [i \in DOMAIN cols |-> P(t, q, cols[i]) :=
           IF on(cols[i]) THEN Op("exp", <<S(t, q, cols[i]), M_new(t, q)>>)
                          ELSE Op("masked", <<M_new(t, q)>>)]
     \o <<L(t, q) := Op("alpha", <<L(t, q), M(t, q), M_new(t, q)>>),
          L(t, q) := Sum(<<L(t, q)>> \o [i \in DOMAIN cols |-> P(t, q, cols[i])]),
          O(t, q) := Op("alpha", <<O(t, q), M(t, q), M_new(t, q)>>)>>
     \o [i \in DOMAIN cols |-> PV(t, q, cols[i]) := Op("weighted", <<P(t, q, cols[i]), Value(t, cols[i])>>)]
     \o <<O(t, q) := Sum(<<O(t, q)>> \o [i \in DOMAIN cols |-> PV(t, q, cols[i])]),
          M(t, q) := Val(M_new(t, q))>>

\* Keys and values of tokens that do not exist are zero vectors.
LoadBlock(t, base, N, cols) ==
  FlattenSeq([i \in DOMAIN cols |->
    LET token(array) == IF cols[i] < N THEN Val(array) ELSE Zero
    IN <<Key(t, cols[i]) := token(K(base + cols[i])), Value(t, cols[i]) := token(V(base + cols[i]))>>])

\* One iteration of the loop over the blocks of keys.
attn_fwd_inner(t, base, rows, N, start_KV, BLOCK_SIZE_KV, DIAGONAL) ==
  LET cols == [k \in 1 .. BLOCK_SIZE_KV |-> start_KV + k - 1]
      seen(q) == SelectSeq(cols, LAMBDA c : DIAGONAL => q >= c)
  IN LoadBlock(t, base, N, cols) \o Loop(rows, LAMBDA q : OnlineSoftmax(t, base, q, cols, seen(q)))

\* The two calls of the inner loop, keys under the diagonal and on it.
attn_fwd(BH, N, BLOCK_SIZE_QO, BLOCK_SIZE_KV) ==
  LET blocks == Ceil(N, BLOCK_SIZE_QO)
      T == Threads(blocks * BH, 1)
      base(t) == (Blk(t) \div blocks) * N
      lo(t) == (Blk(t) % blocks) * BLOCK_SIZE_QO
      rows(t) == SelectSeq([k \in 1 .. BLOCK_SIZE_QO |-> lo(t) + k - 1], LAMBDA q : q < N)
      start(t) == Loop(rows(t), LAMBDA q :
        <<M(t, q) := Zero, L(t, q) := Op("unit", <<>>), O(t, q) := Zero>>)
      inner(t, start_KV, DIAGONAL) ==
        attn_fwd_inner(t, base(t), rows(t), N, start_KV, BLOCK_SIZE_KV, DIAGONAL)
      below == Loop(Stride(0, N, BLOCK_SIZE_KV), LAMBDA start_KV :
        Each(T, LAMBDA t : If(start_KV < lo(t), inner(t, start_KV, FALSE))))
      diagonal == Loop(Stride(0, BLOCK_SIZE_QO, BLOCK_SIZE_KV), LAMBDA from :
        Each(T, LAMBDA t : inner(t, lo(t) + from, TRUE)))
      store(t) == Loop(rows(t), LAMBDA q :
        <<Out(base(t) + q) := Op("pair", <<O(t, q), L(t, q)>>),
          LSE(base(t) + q) := Op("pair", <<M(t, q), L(t, q)>>)>>)
  IN Compile(T, 1, Array("out", 0, BH * N) \cup Array("lse", 0, BH * N), Tokens(BH * N), {},
             Each(T, start) \o below \o diagonal \o Each(T, store),
             scaled_dot_product_attention(BH, N), {})
=============================================================================
