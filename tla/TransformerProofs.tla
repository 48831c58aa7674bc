-------------------------- MODULE TransformerProofs --------------------------
(***************************************************************************)
(* Proofs about both transformer scripts, for every batch, length, number  *)
(* of heads, head size and number of blocks and, for the sparse one, every *)
(* number of ranks, experts and routes per token and any routing: types;   *)
(* where the reshaped axes lie; that a token attends to exactly its own    *)
(* past, and so in every block; that the split sizes of all exchanges      *)
(* agree across ranks; and that every result meets its own token again.    *)
(*                                                                         *)
(* The sort, the cuts and the gathered segments are recursive or chosen    *)
(* values: what they compute is proved by induction on their length, from  *)
(* the well-foundedness of < on the naturals.                              *)
(***************************************************************************)
EXTENDS TransformerBlocks, FiniteSetTheorems, SequenceTheorems, TLAPS

\* Division with remainder.
LEMMA DivMod ==
  ASSUME NEW n \in Nat, NEW m \in Nat \ {0}
  PROVE  /\ n % m \in 0 .. m - 1 /\ n \div m \in Nat
         /\ n = m * (n \div m) + (n % m)
BY Z3

\* Quotient and remainder are the only way to write n so.
LEMMA DivModUnique ==
  ASSUME NEW m \in Nat \ {0}, NEW q \in Nat, NEW r \in 0 .. m - 1
  PROVE  /\ m * q + r \in Nat
         /\ (m * q + r) \div m = q /\ (m * q + r) % m = r
BY SMTT(30)

\* A cell's number is below rows * columns and gives the cell back.
LEMMA NumberOfCell ==
  ASSUME NEW m \in Nat, NEW n \in Nat \ {0}, NEW q \in 0 .. m - 1, NEW r \in 0 .. n - 1
  PROVE  /\ n * q + r \in 0 .. m * n - 1
         /\ (n * q + r) \div n = q /\ (n * q + r) % n = r
BY SMTT(30)

\* A number below rows * columns is that of a cell.
LEMMA CellOfNumber ==
  ASSUME NEW m \in Nat, NEW n \in Nat \ {0}, NEW id \in 0 .. m * n - 1
  PROVE  /\ id \in Nat /\ id = n * (id \div n) + (id % n)
         /\ id \div n \in 0 .. m - 1 /\ id % n \in 0 .. n - 1
BY SMTT(30)

-----------------------------------------------------------------------------
(* The axes *)

\* The columns of q, k and v lie within the projection.
LEMMA ColumnInRange ==
  ASSUME NEW i \in 0 .. 2, NEW h \in 0 .. H - 1, NEW d \in 0 .. D - 1
  PROVE  Column(i, h, d) \in 0 .. 3 * C - 1
<1>1. H \in Nat \ {0} /\ D \in Nat \ {0}
  BY AttentionAssumption
<1>2. H * i + h \in 0 .. 3 * H - 1
  BY <1>1, NumberOfCell
<1>3. D * (H * i + h) + d \in 0 .. (3 * H) * D - 1
  BY <1>1, <1>2, NumberOfCell
<1>4. (3 * H) * D = 3 * (H * D)
  BY <1>1
<1>5. (i * H + h) * D + d = D * (H * i + h) + d
  BY <1>1
<1> QED BY <1>3, <1>4, <1>5 DEF Column, C

\* A token is its sequence and its place in it.
LEMMA RowOfToken ==
  ASSUME NEW n \in Token
  PROVE  /\ n \in Nat /\ n \div T \in 0 .. B - 1 /\ n % T \in 0 .. T - 1
         /\ Row(n \div T, n % T) = n
<1>1. B \in Nat /\ T \in Nat \ {0} /\ n \in 0 .. B * T - 1
  BY AttentionAssumption DEF Token, N
<1>2. /\ n \in Nat /\ n = T * (n \div T) + (n % T)
      /\ n \div T \in 0 .. B - 1 /\ n % T \in 0 .. T - 1
  BY <1>1, CellOfNumber
<1> QED BY <1>1, <1>2 DEF Row

\* ... and the other way round.
LEMMA TokenOfRow ==
  ASSUME NEW b \in 0 .. B - 1, NEW t \in 0 .. T - 1
  PROVE  Row(b, t) \in Token /\ Row(b, t) \div T = b /\ Row(b, t) % T = t
<1>1. B \in Nat /\ T \in Nat \ {0}
  BY AttentionAssumption
<1>2. /\ T * b + t \in 0 .. B * T - 1
      /\ (T * b + t) \div T = b /\ (T * b + t) % T = t
  BY <1>1, NumberOfCell
<1>3. T * b = b * T
  BY <1>1
<1> QED BY <1>2, <1>3 DEF Row, Token, N

\* transpose(1, 2).reshape(B, T, C) puts the heads of a token side by side: channel c
\* of token n is place c % D of head c \div D of that same token.
THEOREM HeadsSideBySide ==
  ASSUME NEW n \in Token, NEW c \in 0 .. C - 1
  PROVE  /\ Merged(n, c) = [b |-> n \div T, t |-> n % T, h |-> c \div D, d |-> c % D]
         /\ c \div D \in 0 .. H - 1 /\ c % D \in 0 .. D - 1
<1> DEFINE b == n \div T
           t == n % T
           h == c \div D
           d == c % D
           at == C * n + c
<1>1. T \in Nat \ {0} /\ H \in Nat \ {0} /\ D \in Nat \ {0} /\ C \in Nat \ {0} /\ C = H * D
  <2>1. H * D \in Nat \ {0}
    BY AttentionAssumption, H * D >= H
  <2> QED BY <2>1, AttentionAssumption DEF C
<1>2. n \in Nat /\ b \in Nat /\ t \in 0 .. T - 1 /\ n = T * b + t
  BY <1>1, RowOfToken, DivMod
<1>3. h \in 0 .. H - 1 /\ d \in 0 .. D - 1 /\ c = D * h + d
  BY <1>1, CellOfNumber
<1> HIDE DEF b, t, h, d
<1>4. at \in Nat /\ at \div C = n
  BY <1>1, <1>2, DivModUnique
<1>5. at \div (T * C) = b
  <2>1. C * t + c \in 0 .. T * C - 1
    BY <1>1, <1>2, NumberOfCell
  <2>2. T * C \in Nat \ {0}
    BY <1>1, T * C >= T
  <2>3. ((T * C) * b + (C * t + c)) \div (T * C) = b
    BY <1>2, <2>1, <2>2, DivModUnique
  <2>4. at = (T * C) * b + (C * t + c)
    <3>1. C * (T * b + t) = (T * C) * b + C * t
      BY <1>1, <1>2
    <3> QED BY <1>1, <1>2, <3>1
  <2> QED BY <2>3, <2>4
<1>6. at \div D = H * n + h /\ at % D = d
  <2>1. H * n + h \in Nat
    BY <1>1, <1>2, <1>3
  <2>2. at = D * (H * n + h) + d
    <3>1. D * (H * n + h) = (H * D) * n + D * h
      BY <1>1, <1>2, <1>3
    <3> QED BY <1>1, <1>2, <1>3, <3>1
  <2> QED BY <1>1, <1>3, <2>1, <2>2, DivModUnique
<1>7. (H * n + h) % H = h
  BY <1>1, <1>2, <1>3, DivModUnique
<1>8. n * C + c = at
  BY <1>1, <1>2
<1>9. Merged(n, c) = [b |-> b, t |-> t, h |-> h, d |-> d]
  BY <1>4, <1>5, <1>6, <1>7, <1>8 DEF Merged, t
<1> QED BY <1>3, <1>9 DEF b, t, h, d

-----------------------------------------------------------------------------
(* What attention depends on *)

\* An element of q, k or v comes from its token.
LEMMA PartOfToken ==
  ASSUME NEW a \in [Token -> SUBSET Token], NEW i \in 0 .. 2, NEW b \in 0 .. B - 1,
         NEW h \in 0 .. H - 1, NEW t \in 0 .. T - 1, NEW d \in 0 .. D - 1
  PROVE  Part(a, i, b, h, t, d) = a[Row(b, t)]
BY ColumnInRange, TokenOfRow DEF Part, Qkv

\* An element of the context comes from the tokens up to its query.
LEMMA ContextOfPast ==
  ASSUME NEW a \in [Token -> SUBSET Token], NEW b \in 0 .. B - 1,
         NEW h \in 0 .. H - 1, NEW t \in 0 .. T - 1, NEW d \in 0 .. D - 1
  PROVE  Context(a, b, h, t, d) = UNION {a[Row(b, s)] : s \in 0 .. t}
<1>0. T \in Nat \ {0} /\ D \in Nat \ {0} /\ 0 \in 0 .. D - 1
  BY AttentionAssumption
<1>1. Attended(t) = 0 .. t
  <2>1. {s \in 0 .. T - 1 : Causal(t, s)} = 0 .. t
    BY <1>0 DEF Causal
  <2>2. 0 .. t # {}
    BY <1>0, t \in 0 .. t
  <2> QED BY <2>1, <2>2 DEF Attended
<1>2. ASSUME NEW s \in 0 .. t
      PROVE  Score(a, b, h, t, s) \cup Part(a, 2, b, h, s, d) = a[Row(b, t)] \cup a[Row(b, s)]
  <2>1. s \in 0 .. T - 1
    BY <1>0
  <2>2. \A e \in 0 .. D - 1 : Part(a, 0, b, h, t, e) = a[Row(b, t)]
                              /\ Part(a, 1, b, h, s, e) = a[Row(b, s)]
    BY <2>1, PartOfToken
  <2>3. Score(a, b, h, t, s) = a[Row(b, t)] \cup a[Row(b, s)]
    BY <1>0, <2>2 DEF Score
  <2>4. Part(a, 2, b, h, s, d) = a[Row(b, s)]
    BY <2>1, PartOfToken
  <2> QED BY <2>3, <2>4
<1>3. Context(a, b, h, t, d) = UNION {a[Row(b, t)] \cup a[Row(b, s)] : s \in 0 .. t}
  BY <1>1, <1>2 DEF Context
<1>4. t \in 0 .. t
  BY <1>0
<1> QED BY <1>3, <1>4

\* The past of a token are the rows of its sequence up to its own.
LEMMA PastRows ==
  ASSUME NEW n \in Token
  PROVE  Past(n) = {Row(n \div T, s) : s \in 0 .. n % T}
<1> DEFINE b == n \div T
           t == n % T
<1>0. T \in Nat \ {0} /\ B \in Nat
  BY AttentionAssumption
<1>1. b \in 0 .. B - 1 /\ t \in 0 .. T - 1 /\ n = b * T + t /\ b * T \in Int
  <2>1. b \in 0 .. B - 1 /\ t \in 0 .. T - 1 /\ n = b * T + t
    BY RowOfToken DEF Row
  <2> QED BY <1>0, <2>1
<1>2. ASSUME NEW m \in Past(n) PROVE m \in {Row(b, s) : s \in 0 .. t}
  <2>1. m \in Token /\ m \div T = b /\ m <= n
    BY DEF Past
  <2>2. m % T \in 0 .. T - 1 /\ m = b * T + (m % T)
    BY <2>1, RowOfToken DEF Row
  <2> HIDE DEF b, t
  <2>3. m % T \in 0 .. t
    BY <1>0, <1>1, <2>1, <2>2
  <2> QED BY <2>2, <2>3 DEF Row
<1>3. ASSUME NEW s \in 0 .. t PROVE Row(b, s) \in Past(n)
  <2>1. s \in 0 .. T - 1
    BY <1>0, <1>1
  <2>2. Row(b, s) \in Token /\ Row(b, s) \div T = b
    BY <1>1, <2>1, TokenOfRow
  <2> HIDE DEF b, t
  <2>3. Row(b, s) <= n
    BY <1>0, <1>1 DEF Row
  <2> QED BY <2>2, <2>3 DEF Past, b
<1> QED BY <1>2, <1>3

\* Attention: a token's output comes from exactly the tokens of its past, none of
\* its future and none of another sequence.
THEOREM AttentionOfPast ==
  ASSUME NEW a \in [Token -> SUBSET Token], NEW n \in Token
  PROVE  Attention(a)[n] = UNION {a[m] : m \in Past(n)}
<1> DEFINE b == n \div T
           t == n % T
<1>1. b \in 0 .. B - 1 /\ t \in 0 .. T - 1
  BY RowOfToken
<1>2. ASSUME NEW c \in 0 .. C - 1
      PROVE  (LET e == Merged(n, c) IN Context(a, e.b, e.h, e.t, e.d))
               = UNION {a[Row(b, s)] : s \in 0 .. t}
  <2>1. /\ Merged(n, c).b = b /\ Merged(n, c).t = t
        /\ Merged(n, c).h \in 0 .. H - 1 /\ Merged(n, c).d \in 0 .. D - 1
    BY HeadsSideBySide
  <2> HIDE DEF b, t
  <2> QED BY <1>1, <2>1, ContextOfPast
<1>3. 0 \in 0 .. C - 1
  <2>1. H * D \in Nat /\ H * D >= 1
    BY AttentionAssumption, H * D >= H
  <2> QED BY <2>1 DEF C
<1>4. Attention(a)[n] = UNION {a[Row(b, s)] : s \in 0 .. t}
  BY <1>2, <1>3 DEF Attention
<1>5. Past(n) = {Row(b, s) : s \in 0 .. t}
  BY PastRows
<1> QED BY <1>4, <1>5

-----------------------------------------------------------------------------
(* The dense script *)

\* One attention layer with its residual takes single tokens, or pasts, to pasts.
LEMMA ResidualOfPast ==
  ASSUME NEW a \in [Token -> SUBSET Token], NEW n \in Token,
         (\A m \in Token : a[m] = {m}) \/ (\A m \in Token : a[m] = Past(m))
  PROVE  a[n] \cup Attention(a)[n] = Past(n)
<1>1. Attention(a)[n] = UNION {a[m] : m \in Past(n)}
  BY AttentionOfPast
<1>2. Token \subseteq Nat
  BY RowOfToken
<1>3. n \in Past(n) /\ Past(n) \subseteq Token
  BY <1>2 DEF Past
<1>4. CASE \A m \in Token : a[m] = {m}
  BY <1>1, <1>3, <1>4
<1>5. CASE \A m \in Token : a[m] = Past(m)
  <2>1. ASSUME NEW m \in Past(n), NEW k \in Past(m) PROVE k \in Past(n)
    <3>1. m \in Token /\ m \div T = n \div T /\ m <= n
      BY DEF Past
    <3>2. k \in Token /\ k \div T = m \div T /\ k <= m
      BY DEF Past
    <3>3. k <= n
      BY <1>2, <3>1, <3>2
    <3> QED BY <3>1, <3>2, <3>3 DEF Past
  <2> QED BY <1>1, <1>3, <1>5, <2>1
<1> QED BY <1>4, <1>5

\* The dense script leaves alone what belongs to the exchanges.
Unused ==
  /\ topk_i \in [Rank -> [1 .. LAYERS -> [Token -> TopK]]]
  /\ posted = [r \in Rank |-> <<>>]
  /\ recv_counts = [r \in Rank |-> [s \in Rank |-> 0]]
  /\ recv_tok = [r \in Rank |-> <<>>]
  /\ combined = [r \in Rank |-> <<>>]

\* What a process of the dense script has: no rank is in an exchange.
DenseInv ==
  script = "mha_ffn" =>
    /\ x \in [Rank -> [Token -> SUBSET Token]]
    /\ pc \in [Rank -> {"attend", "ffn", "done"}]
    /\ layer \in [Rank -> 1 .. LAYERS]
    /\ 0 \in Rank
    /\ PastOnly
    /\ Unused

LEMMA DenseInit == Init => DenseInv
<1> SUFFICES ASSUME Init, script = "mha_ffn" PROVE DenseInv
  BY DEF DenseInv
<1>1. 0 \in Rank /\ 1 \in 1 .. LAYERS
  BY MoeAssumption DEF Rank
<1>2. x \in [Rank -> [Token -> SUBSET Token]] /\ layer \in [Rank -> 1 .. LAYERS]
  BY <1>1 DEF Init
<1>3. pc \in [Rank -> {"attend", "ffn", "done"}] /\ pc[0] = "attend"
  BY <1>1 DEF Init, Ranks
<1>4. PastOnly
  BY <1>1, <1>3 DEF Init, PastOnly, Ranks
<1>5. Unused
  BY DEF Init, Unused
<1> QED BY <1>1, <1>2, <1>3, <1>4, <1>5 DEF DenseInv

\* A block that ends leaves the counter of blocks in its range, and what is past stays.
LEMMA DenseLeave ==
  ASSUME NEW r \in Rank, LeaveBlock(r),
         pc \in [Rank -> {"attend", "ffn", "done"}], layer \in [Rank -> 1 .. LAYERS]
  PROVE  /\ pc' \in [Rank -> {"attend", "ffn", "done"}] /\ layer' \in [Rank -> 1 .. LAYERS]
         /\ ~(layer'[r] = 1 /\ pc'[r] = "attend")
<1>0. LAYERS \in Nat
  BY MoeAssumption
<1>1. CASE layer[r] < LAYERS
  <2>1. pc' = [pc EXCEPT ![r] = "attend"] /\ layer' = [layer EXCEPT ![r] = @ + 1]
    BY <1>1 DEF LeaveBlock
  <2>2. layer[r] + 1 \in 1 .. LAYERS /\ layer[r] + 1 # 1
    BY <1>0, <1>1
  <2> QED BY <2>1, <2>2
<1>2. CASE ~(layer[r] < LAYERS)
  BY <1>2 DEF LeaveBlock
<1> QED BY <1>1, <1>2

LEMMA DenseStep == DenseInv /\ [Next]_vars => DenseInv'
<1> SUFFICES ASSUME DenseInv, [Next]_vars, script' = "mha_ffn" PROVE DenseInv'
  BY DEF DenseInv
<1>0. script = "mha_ffn"
  BY DEF Next, RankStep, Attend, DenseFFN, Exchange, vars
<1>1. /\ x \in [Rank -> [Token -> SUBSET Token]]
      /\ pc \in [Rank -> {"attend", "ffn", "done"}]
      /\ layer \in [Rank -> 1 .. LAYERS]
      /\ 0 \in Rank /\ PastOnly /\ Unused
  BY <1>0 DEF DenseInv
<1>2. \A n \in Token : x[0][n] = IF layer[0] = 1 /\ pc[0] = "attend" THEN {n} ELSE Past(n)
  BY <1>0, <1>1 DEF PastOnly, Ranks
<1>3. SUFFICES /\ x' \in [Rank -> [Token -> SUBSET Token]]
               /\ pc' \in [Rank -> {"attend", "ffn", "done"}]
               /\ layer' \in [Rank -> 1 .. LAYERS]
               /\ \A n \in Token : x'[0][n] = IF layer'[0] = 1 /\ pc'[0] = "attend" THEN {n} ELSE Past(n)
               /\ UNCHANGED <<topk_i, posted, recv_counts, recv_tok, combined>>
  BY <1>1 DEF DenseInv, PastOnly, Ranks, Unused
<1>4. ASSUME NEW r \in Rank, Attend(r)
      PROVE  /\ x' \in [Rank -> [Token -> SUBSET Token]]
             /\ pc' \in [Rank -> {"attend", "ffn", "done"}]
             /\ layer' \in [Rank -> 1 .. LAYERS]
             /\ \A n \in Token : x'[0][n] = IF layer'[0] = 1 /\ pc'[0] = "attend" THEN {n} ELSE Past(n)
             /\ UNCHANGED <<topk_i, posted, recv_counts, recv_tok, combined>>
  <2>1. /\ pc[r] = "attend" /\ pc' = [pc EXCEPT ![r] = "ffn"] /\ layer' = layer
        /\ UNCHANGED <<topk_i, posted, recv_counts, recv_tok, combined>>
    BY <1>0, <1>4 DEF Attend, buffers
  <2>2. x' = [x EXCEPT ![r] = [n \in Token |-> x[r][n] \cup Attention(x[r])[n]]]
    BY <1>4 DEF Attend
  <2>3. \A n \in Token : Attention(x[r])[n] \subseteq Token
    <3>1. x[r] \in [Token -> SUBSET Token]
      BY <1>1
    <3>2. \A n \in Token : Attention(x[r])[n] = UNION {x[r][m] : m \in Past(n)}
      BY <3>1, AttentionOfPast
    <3> QED BY <3>1, <3>2 DEF Past
  <2>4. x' \in [Rank -> [Token -> SUBSET Token]]
    BY <1>1, <2>2, <2>3
  <2>5. CASE r = 0
    <3>1. x[0] \in [Token -> SUBSET Token]
      BY <1>1
    <3>2. (\A m \in Token : x[0][m] = {m}) \/ (\A m \in Token : x[0][m] = Past(m))
      BY <1>2
    <3>3. \A n \in Token : x[0][n] \cup Attention(x[0])[n] = Past(n)
      BY <3>1, <3>2, ResidualOfPast
    <3>4. \A n \in Token : x'[0][n] = Past(n)
      BY <1>1, <2>2, <2>5, <3>3
    <3>5. pc'[0] = "ffn"
      BY <1>1, <2>1, <2>5
    <3> QED BY <1>1, <2>1, <2>4, <3>4, <3>5
  <2>6. CASE r # 0
    BY <1>1, <1>2, <2>1, <2>2, <2>4, <2>6
  <2> QED BY <2>5, <2>6
<1>5. ASSUME NEW r \in Rank, DenseFFN(r)
      PROVE  /\ x' \in [Rank -> [Token -> SUBSET Token]]
             /\ pc' \in [Rank -> {"attend", "ffn", "done"}]
             /\ layer' \in [Rank -> 1 .. LAYERS]
             /\ \A n \in Token : x'[0][n] = IF layer'[0] = 1 /\ pc'[0] = "attend" THEN {n} ELSE Past(n)
             /\ UNCHANGED <<topk_i, posted, recv_counts, recv_tok, combined>>
  <2>1. /\ pc[r] = "ffn" /\ LeaveBlock(r)
        /\ UNCHANGED <<topk_i, posted, recv_counts, recv_tok, combined>>
    BY <1>5 DEF DenseFFN, buffers
  <2>2. x' = [x EXCEPT ![r] = [n \in Token |-> x[r][n] \cup x[r][n]]]
    BY <1>5 DEF DenseFFN, FFN
  <2>3. x' \in [Rank -> [Token -> SUBSET Token]] /\ \A n \in Token : x'[0][n] = x[0][n]
    BY <1>1, <2>2
  <2>4. /\ pc' \in [Rank -> {"attend", "ffn", "done"}] /\ layer' \in [Rank -> 1 .. LAYERS]
        /\ ~(layer'[r] = 1 /\ pc'[r] = "attend")
    BY <1>1, <2>1, DenseLeave
  <2>5. CASE r = 0
    BY <1>2, <2>1, <2>3, <2>4, <2>5
  <2>6. CASE r # 0
    <3>1. pc'[0] = pc[0] /\ layer'[0] = layer[0]
      BY <1>1, <2>1, <2>6 DEF LeaveBlock
    <3> QED BY <1>2, <2>1, <2>3, <2>4, <3>1
  <2> QED BY <2>5, <2>6
<1>6. ASSUME NEW r \in Rank, Exchange(r) PROVE FALSE
  <2>1. pc[r] \in {"attend", "ffn", "done"}
    BY <1>1
  <2> QED BY <1>6, <2>1 DEF Exchange, Route, SendTokens, SendExperts, SendBack, Combine
<1>7. CASE UNCHANGED vars
  BY <1>1, <1>2, <1>7 DEF vars, buffers
<1> QED BY <1>4, <1>5, <1>6, <1>7 DEF Next, RankStep

-----------------------------------------------------------------------------
(* Induction, sums and sequences *)

\* Induction: a set that holds 0 and with every number the next holds all of them.
LEMMA InductionOnSet ==
  ASSUME NEW S, 0 \in S, \A n \in Nat : n \in S => n + 1 \in S
  PROVE  Nat \subseteq S
<1> DEFINE R == OpToRel(<, Nat)
           X == Nat \ S
<1>1. SUFFICES ASSUME X # {} PROVE FALSE
  OBVIOUS
<1>2. X \subseteq Nat /\ IsWellFoundedOn(R, Nat)
  BY NatLessThanWellFounded
<1>3. \A i, j \in Nat : i < j => <<i, j>> \in R
  BY DEF OpToRel
<1> HIDE DEF R, X
<1>4. PICK m \in X : \A y \in X : ~ (<<y, m>> \in R)
  BY <1>1, <1>2, WFMin
<1>5. m \in Nat /\ m \notin S /\ m # 0
  BY <1>4 DEF X
<1>6. m - 1 \in Nat /\ m - 1 < m
  BY <1>5
<1>7. m - 1 \in S
  BY <1>3, <1>4, <1>5, <1>6 DEF X
<1>8. m - 1 + 1 \in S
  BY <1>6, <1>7
<1> QED BY <1>5, <1>8

\* The rows a buffer holds for the ranks of S.
RowsFor(splits, S) == {e \in S \X Nat : e[2] \in 1 .. splits[e[1]]}

CountFor(splits, S) == Cardinality(RowsFor(splits, S))

\* What CHOOSE takes of a set.
One(t) == CHOOSE q \in t : TRUE

LEMMA RowsOfOne ==
  ASSUME NEW splits, NEW S, NEW s \in S, splits[s] \in Nat,
         IsFiniteSet(RowsFor(splits, S \ {s}))
  PROVE  /\ IsFiniteSet(RowsFor(splits, S))
         /\ Cardinality(RowsFor(splits, S)) = splits[s] + Cardinality(RowsFor(splits, S \ {s}))
<1> DEFINE own == {<<s, i>> : i \in 1 .. splits[s]}
           rest == RowsFor(splits, S \ {s})
<1>1. IsFiniteSet(own) /\ Cardinality(own) = splits[s]
  <2> DEFINE f == [i \in 1 .. splits[s] |-> <<s, i>>]
  <2>1. f \in Bijection(1 .. splits[s], own)
    BY DEF Bijection, Injection, Surjection, IsInjective
  <2>2. ExistsBijection(1 .. splits[s], own)
    BY <2>1 DEF ExistsBijection
  <2>3. Cardinality(own) = splits[s]
    BY <2>2, FS_CountingElements
  <2>4. IsFiniteSet(own)
    BY <2>2, FS_NatBijection
  <2> QED BY <2>3, <2>4
<1>2. own \cap rest = {} /\ RowsFor(splits, S) = own \cup rest
  BY DEF RowsFor
<1>3. Cardinality({}) = 0
  BY FS_EmptySet
<1>4. Cardinality(rest) \in Nat
  BY FS_CardinalityType
<1> HIDE DEF own, rest
<1>5. /\ IsFiniteSet(own \cup rest)
      /\ Cardinality(own \cup rest) = Cardinality(own) + Cardinality(rest) - Cardinality(own \cap rest)
  BY <1>1, FS_Union DEF rest
<1>6. Cardinality(own \cap rest) = 0
  BY <1>2, <1>3
<1>7. Cardinality(own \cup rest) = splits[s] + Cardinality(rest)
  BY <1>1, <1>4, <1>5, <1>6
<1> QED BY <1>2, <1>5, <1>7 DEF rest

\* The sum of split sizes counts these rows, in whatever order it is taken.
LEMMA SumCountsRows ==
  ASSUME NEW splits, NEW S, IsFiniteSet(S), \A q \in S : splits[q] \in Nat
  PROVE  /\ IsFiniteSet(RowsFor(splits, S))
         /\ MapThenSumSet(LAMBDA q : splits[q], S) = Cardinality(RowsFor(splits, S))
<1> DEFINE Sums(g) == g = [t \in SUBSET S |-> IF t = {} THEN 0 ELSE splits[One(t)] + g[t \ {One(t)}]]
           Done == {n \in Nat : \A t \in SUBSET S : Cardinality(t) = n => IsFiniteSet(RowsFor(splits, t))}
<1>1. \A t \in SUBSET S : Cardinality(t) \in Nat /\ (Cardinality(t) = 0 <=> t = {})
  BY FS_Subset, FS_CardinalityType, FS_EmptySet
<1>2. ASSUME NEW t \in SUBSET S, NEW n \in Nat, Cardinality(t) = n + 1
      PROVE  /\ t # {} /\ One(t) \in t /\ splits[One(t)] \in Nat
             /\ t \ {One(t)} \in SUBSET S /\ Cardinality(t \ {One(t)}) = n
  <2>1. t # {}
    BY <1>1, <1>2
  <2>2. One(t) \in t /\ IsFiniteSet(t)
    BY <2>1, FS_Subset DEF One
  <2>3. Cardinality(t \ {One(t)}) = Cardinality(t) - 1
    BY <2>2, FS_RemoveElement
  <2>4. Cardinality(t \ {One(t)}) = n
    BY <1>2, <2>3
  <2> QED BY <2>1, <2>2, <2>4
<1>3. RowsFor(splits, {}) = {} /\ Cardinality({}) = 0 /\ IsFiniteSet({})
  BY FS_EmptySet DEF RowsFor
<1>4. \A t \in SUBSET S : \A q \in t :
        IsFiniteSet(RowsFor(splits, t \ {q})) =>
          IsFiniteSet(RowsFor(splits, t)) /\ CountFor(splits, t) = splits[q] + CountFor(splits, t \ {q})
  BY RowsOfOne DEF CountFor
<1>5. \A t \in SUBSET S : IsFiniteSet(RowsFor(splits, t))
  <2>1. 0 \in Done
    BY <1>1, <1>3
  <2>2. ASSUME NEW n \in Nat, n \in Done PROVE n + 1 \in Done
    <3>1. ASSUME NEW t \in SUBSET S, Cardinality(t) = n + 1 PROVE IsFiniteSet(RowsFor(splits, t))
      BY <1>2, <1>4, <2>2, <3>1
    <3> QED BY <3>1
  <2> HIDE DEF Done
  <2>3. Nat \subseteq Done
    BY <2>1, <2>2, InductionOnSet
  <2> QED BY <1>1, <2>3 DEF Done
<1>6. \A t \in SUBSET S : t # {} =>
        /\ One(t) \in t /\ splits[One(t)] \in Nat /\ t \ {One(t)} \in SUBSET S
        /\ CountFor(splits, t) = splits[One(t)] + CountFor(splits, t \ {One(t)})
  BY <1>4, <1>5 DEF One
<1>7. CountFor(splits, {}) = 0
  BY <1>3 DEF CountFor
<1>8. Sums([t \in SUBSET S |-> CountFor(splits, t)])
  BY <1>6, <1>7
<1>9. MapThenSumSet(LAMBDA q : splits[q], S) = (CHOOSE g : Sums(g))[S]
  BY DEF MapThenSumSet, MapThenFoldSet, One
<1>10. PICK g : g = (CHOOSE h : Sums(h)) /\ Sums(g)
  BY <1>8
<1>11. \A t \in SUBSET S : g[t] = IF t = {} THEN 0 ELSE splits[One(t)] + g[t \ {One(t)}]
  BY <1>10
<1> HIDE DEF Sums
<1>12. \A t \in SUBSET S : g[t] = CountFor(splits, t)
  <2> DEFINE Right == {n \in Nat : \A t \in SUBSET S : Cardinality(t) = n => g[t] = CountFor(splits, t)}
  <2>1. 0 \in Right
    BY <1>1, <1>7, <1>11
  <2>2. ASSUME NEW n \in Nat, n \in Right PROVE n + 1 \in Right
    <3>1. ASSUME NEW t \in SUBSET S, Cardinality(t) = n + 1 PROVE g[t] = CountFor(splits, t)
      <4>1. t # {} /\ t \ {One(t)} \in SUBSET S /\ Cardinality(t \ {One(t)}) = n
        BY <1>2, <3>1
      <4>2. g[t \ {One(t)}] = CountFor(splits, t \ {One(t)})
        BY <2>2, <4>1
      <4> QED BY <1>6, <1>11, <4>1, <4>2
    <3> QED BY <3>1
  <2> HIDE DEF Right
  <2>3. Nat \subseteq Right
    BY <2>1, <2>2, InductionOnSet
  <2> QED BY <1>1, <2>3 DEF Right
<1> QED BY <1>5, <1>9, <1>10, <1>12 DEF CountFor
\* Where the segments of a buffer begin: one behind the other.
LEMMA SegmentsFollow ==
  ASSUME NEW splits, NEW n \in Nat, \A q \in 0 .. n - 1 : splits[q] \in Nat
  PROVE  /\ \A s \in 0 .. n : Before(splits, s) \in Nat
         /\ Before(splits, 0) = 0
         /\ \A s \in 0 .. n - 1 : Before(splits, s + 1) = Before(splits, s) + splits[s]
         /\ \A s \in 0 .. n - 1 : Before(splits, s) + splits[s] <= Before(splits, n)
<1>1. ASSUME NEW s \in 0 .. n
      PROVE  /\ IsFiniteSet(RowsFor(splits, 0 .. s - 1)) /\ Before(splits, s) \in Nat
             /\ Before(splits, s) = Cardinality(RowsFor(splits, 0 .. s - 1))
  <2>1. IsFiniteSet(0 .. s - 1)
    BY FS_Interval
  <2>2. \A q \in 0 .. s - 1 : splits[q] \in Nat
    OBVIOUS
  <2>3. /\ IsFiniteSet(RowsFor(splits, 0 .. s - 1))
        /\ MapThenSumSet(LAMBDA q : splits[q], 0 .. s - 1) = Cardinality(RowsFor(splits, 0 .. s - 1))
    BY <2>1, <2>2, SumCountsRows
  <2>4. Cardinality(RowsFor(splits, 0 .. s - 1)) \in Nat
    BY <2>3, FS_CardinalityType
  <2> QED BY <2>3, <2>4 DEF Before
<1>2. Before(splits, 0) = 0
  <2>1. RowsFor(splits, 0 .. 0 - 1) = {}
    BY DEF RowsFor
  <2>2. Cardinality({}) = 0 /\ 0 \in 0 .. n
    BY FS_EmptySet
  <2> QED BY <1>1, <2>1, <2>2
<1>3. ASSUME NEW s \in 0 .. n - 1
      PROVE  Before(splits, s + 1) = Before(splits, s) + splits[s]
  <2> DEFINE upTo == 0 .. s
  <2>1. /\ s \in 0 .. n /\ s + 1 \in 0 .. n /\ s + 1 - 1 = s
        /\ s \in upTo /\ upTo \ {s} = 0 .. s - 1 /\ splits[s] \in Nat
    OBVIOUS
  <2> HIDE DEF upTo
  <2>2. IsFiniteSet(RowsFor(splits, upTo \ {s}))
    BY <1>1, <2>1
  <2>3. Cardinality(RowsFor(splits, upTo)) = splits[s] + Cardinality(RowsFor(splits, upTo \ {s}))
    BY <2>1, <2>2, RowsOfOne
  <2>4. Before(splits, s + 1) = Cardinality(RowsFor(splits, upTo))
    BY <1>1, <2>1 DEF upTo
  <2>5. Before(splits, s) = Cardinality(RowsFor(splits, upTo \ {s})) /\ Before(splits, s) \in Nat
    BY <1>1, <2>1
  <2> QED BY <2>1, <2>3, <2>4, <2>5
<1>4. ASSUME NEW s \in 0 .. n - 1 PROVE Before(splits, s) + splits[s] <= Before(splits, n)
  <2>1. s + 1 \in 0 .. n /\ n \in 0 .. n /\ 0 .. (s + 1 - 1) \subseteq 0 .. n - 1
    OBVIOUS
  <2>2. RowsFor(splits, 0 .. (s + 1 - 1)) \subseteq RowsFor(splits, 0 .. n - 1)
    BY <2>1 DEF RowsFor
  <2>3. Cardinality(RowsFor(splits, 0 .. (s + 1 - 1))) <= Cardinality(RowsFor(splits, 0 .. n - 1))
    BY <1>1, <2>1, <2>2, FS_Subset
  <2>4. Before(splits, s + 1) <= Before(splits, n)
    BY <1>1, <2>1, <2>3
  <2> QED BY <1>3, <2>4
<1> QED BY <1>1, <1>2, <1>3, <1>4

Listed(seq) == Len(seq) \in Nat /\ seq = [i \in 1 .. Len(seq) |-> seq[i]]

\* One sequence behind another.
LEMMA Concatenated ==
  ASSUME NEW a, NEW b, Listed(a), Listed(b)
  PROVE  /\ Listed(a \o b) /\ Len(a \o b) = Len(a) + Len(b)
         /\ \A i \in 1 .. Len(a) : (a \o b)[i] = a[i]
         /\ \A i \in 1 .. Len(b) : (a \o b)[Len(a) + i] = b[i]
<1> DEFINE S == {a[i] : i \in 1 .. Len(a)} \cup {b[i] : i \in 1 .. Len(b)}
<1>1. a \in Seq(S) /\ b \in Seq(S)
  BY DEF Listed
<1> HIDE DEF S
<1>2. a \o b \in Seq(S) /\ Len(a \o b) = Len(a) + Len(b)
  BY <1>1
<1>3. \A i \in 1 .. Len(a) : (a \o b)[i] = a[i]
  BY <1>1
<1>4. \A i \in 1 .. Len(b) : (a \o b)[Len(a) + i] = b[i]
  BY <1>1
<1>5. ASSUME NEW c \in Seq(S) PROVE Listed(c)
  BY DEF Listed
<1> QED BY <1>2, <1>3, <1>4, <1>5

\* buffer is the first k segments, one behind the other: each begins where the sum of the
\* lengths before it says, and nothing else is in it.
Joins(segs, lens, k, buffer) ==
  /\ Listed(buffer) /\ Len(buffer) = Before(lens, k)
  /\ \A s \in 0 .. k - 1 : \A i \in 1 .. lens[s] : buffer[Before(lens, s) + i] = segs[s + 1][i]
  /\ \A j \in 1 .. Before(lens, k) :
       \E s \in 0 .. k - 1 : \E i \in 1 .. lens[s] : j = Before(lens, s) + i

LEMMA FirstJoins ==
  ASSUME NEW segs, NEW lens, lens[0] \in Nat, Listed(segs[1]), Len(segs[1]) = lens[0]
  PROVE  Joins(segs, lens, 1, segs[1])
<1>1. \A q \in 0 .. 1 - 1 : q = 0 /\ lens[q] \in Nat
  OBVIOUS
<1>2. Before(lens, 0) = 0 /\ Before(lens, 0 + 1) = Before(lens, 0) + lens[0]
  BY <1>1, SegmentsFollow, 0 \in 0 .. 1 - 1
<1>3. Before(lens, 1) = lens[0]
  BY <1>2
<1>4. \A i \in 1 .. lens[0] : 0 + i = i
  OBVIOUS
<1>5. \A j \in 1 .. Before(lens, 1) : 0 \in 0 .. 1 - 1 /\ j \in 1 .. lens[0] /\ j = Before(lens, 0) + j
  BY <1>2, <1>3
<1>6. \A s \in 0 .. 1 - 1 : \A i \in 1 .. lens[s] : segs[1][Before(lens, s) + i] = segs[s + 1][i]
  <2>1. \A i \in 1 .. lens[0] : segs[1][Before(lens, 0) + i] = segs[0 + 1][i]
    BY <1>2, <1>4
  <2> QED BY <1>1, <2>1
<1> QED BY <1>3, <1>5, <1>6 DEF Joins

LEMMA NextJoins ==
  ASSUME NEW segs, NEW lens, NEW k \in Nat, \A q \in 0 .. k : lens[q] \in Nat,
         Listed(segs[k + 1]), Len(segs[k + 1]) = lens[k],
         NEW buffer, Joins(segs, lens, k, buffer)
  PROVE  Joins(segs, lens, k + 1, buffer \o segs[k + 1])
<1> DEFINE longer == buffer \o segs[k + 1]
<1>1. /\ k \in 0 .. (k + 1) - 1 /\ k \in 0 .. k + 1 /\ lens[k] \in Nat
      /\ \A q \in 0 .. (k + 1) - 1 : lens[q] \in Nat
  OBVIOUS
<1>2. /\ \A s \in 0 .. k + 1 : Before(lens, s) \in Nat
      /\ Before(lens, k + 1) = Before(lens, k) + lens[k]
  BY <1>1, SegmentsFollow
<1>3. /\ Listed(longer) /\ Len(longer) = Before(lens, k) + lens[k]
      /\ \A i \in 1 .. Before(lens, k) : longer[i] = buffer[i]
      /\ \A i \in 1 .. lens[k] : longer[Before(lens, k) + i] = segs[k + 1][i]
  <2>1. Listed(buffer) /\ Len(buffer) = Before(lens, k)
    BY DEF Joins
  <2>2. PICK other : other = segs[k + 1] /\ Listed(other) /\ Len(other) = lens[k]
    OBVIOUS
  <2>3. Listed(buffer \o other) /\ Len(buffer \o other) = Len(buffer) + Len(other)
    BY <2>1, <2>2, Concatenated
  <2>4. \A i \in 1 .. Len(buffer) : (buffer \o other)[i] = buffer[i]
    BY <2>1, <2>2, Concatenated
  <2>5. \A i \in 1 .. Len(other) : (buffer \o other)[Len(buffer) + i] = other[i]
    BY <2>1, <2>2, Concatenated
  <2> QED BY <2>1, <2>2, <2>3, <2>4, <2>5
<1> HIDE DEF longer
<1>4. ASSUME NEW s \in 0 .. k - 1, NEW i \in 1 .. lens[s]
      PROVE  longer[Before(lens, s) + i] = segs[s + 1][i]
  <2>1. Before(lens, s) \in Nat /\ lens[s] \in Nat /\ Before(lens, k) \in Nat
    BY <1>1, <1>2
  <2>2. Before(lens, s) + lens[s] <= Before(lens, k)
    <3>1. \A q \in 0 .. k - 1 : lens[q] \in Nat
      OBVIOUS
    <3> QED BY <3>1, SegmentsFollow
  <2>3. Before(lens, s) + i \in 1 .. Before(lens, k)
    BY <2>1, <2>2
  <2> QED BY <1>3, <2>3 DEF Joins
<1>5. ASSUME NEW j \in 1 .. Before(lens, k + 1)
      PROVE  \E s \in 0 .. (k + 1) - 1 : \E i \in 1 .. lens[s] : j = Before(lens, s) + i
  <2>1. Before(lens, k) \in Nat /\ j \in Nat
    BY <1>1, <1>2
  <2>2. CASE j <= Before(lens, k)
    <3>1. j \in 1 .. Before(lens, k)
      BY <2>1, <2>2
    <3>2. \E s \in 0 .. k - 1 : \E i \in 1 .. lens[s] : j = Before(lens, s) + i
      BY <3>1 DEF Joins
    <3> QED BY <3>2
  <2>3. CASE j > Before(lens, k)
    <3>1. j - Before(lens, k) \in 1 .. lens[k]
      BY <1>1, <1>2, <2>1, <2>3
    <3>2. j = Before(lens, k) + (j - Before(lens, k))
      BY <2>1
    <3> QED BY <1>1, <3>1, <3>2
  <2> QED BY <2>1, <2>2, <2>3
<1>6. \A s \in 0 .. (k + 1) - 1 : s = k \/ s \in 0 .. k - 1
  OBVIOUS
<1>7. \A s \in 0 .. (k + 1) - 1 : \A i \in 1 .. lens[s] : longer[Before(lens, s) + i] = segs[s + 1][i]
  BY <1>3, <1>4, <1>6
<1>8. Joins(segs, lens, k + 1, longer)
  BY <1>2, <1>3, <1>5, <1>7 DEF Joins
<1> QED BY <1>8 DEF longer

\* What FlattenSeq makes of any number of segments.
LEMMA Joined ==
  ASSUME NEW segs, NEW n \in Nat \ {0}, NEW lens, Len(segs) = n,
         \A s \in 0 .. n - 1 : lens[s] \in Nat /\ Listed(segs[s + 1]) /\ Len(segs[s + 1]) = lens[s]
  PROVE  Joins(segs, lens, n, FlattenSeq(segs))
<1> DEFINE Grown(k, buffer) == IF k = 1 THEN segs[k] ELSE buffer \o segs[k]
           Equation(g, m) == g = [k \in 1 .. m |-> Grown(k, g[k - 1])]
           Solved == {m \in Nat : \E g : Equation(g, m)}
<1>1. FlattenSeq(segs) = (CHOOSE g : Equation(g, n))[n]
  BY DEF FlattenSeq
<1> HIDE DEF Grown
<1>2. 0 \in Solved
  <2> DEFINE h == [k \in 1 .. 0 |-> segs[1]]
  <2>1. Equation(h, 0)
    OBVIOUS
  <2> QED BY <2>1
<1>3. ASSUME NEW m \in Nat, m \in Solved PROVE m + 1 \in Solved
  <2>1. PICK g : Equation(g, m)
    BY <1>3
  <2> DEFINE h == [k \in 1 .. m + 1 |-> IF k = m + 1 THEN Grown(k, g[k - 1]) ELSE g[k]]
  <2>2. \A k \in 1 .. m : g[k] = Grown(k, g[k - 1])
    BY <2>1
  <2>3. \A k \in 1 .. m + 1 : h[k] = Grown(k, g[k - 1])
    BY <2>2
  <2>4. /\ \A k \in 1 .. m + 1 : k # 1 => h[k - 1] = g[k - 1]
        /\ h = [k \in 1 .. m + 1 |-> h[k]]
    OBVIOUS
  <2> HIDE DEF h
  <2>5. \A k \in 1 .. m + 1 : Grown(k, h[k - 1]) = Grown(k, g[k - 1])
    BY <2>4 DEF Grown
  <2>6. Equation(h, m + 1)
    BY <2>3, <2>4, <2>5
  <2>7. \E g_ : Equation(g_, m + 1)
    BY <2>6
  <2> QED BY <2>7
<1> HIDE DEF Solved
<1>4. Nat \subseteq Solved
  BY <1>2, <1>3, InductionOnSet
<1>5. \E g : Equation(g, n)
  BY <1>4 DEF Solved
<1>6. PICK g : g = (CHOOSE h : Equation(h, n)) /\ Equation(g, n)
  BY <1>5
<1>7. \A k \in 1 .. n : g[k] = Grown(k, g[k - 1])
  BY <1>6
<1> HIDE DEF Equation
<1> DEFINE Right == {k \in Nat : k + 1 \in 1 .. n => Joins(segs, lens, k + 1, g[k + 1])}
<1>8. 0 \in Right
  <2>1. 1 \in 1 .. n /\ 0 \in 0 .. n - 1
    OBVIOUS
  <2>2. g[1] = segs[1]
    BY <1>7, <2>1 DEF Grown
  <2>3. Joins(segs, lens, 1, segs[1])
    BY <2>1, FirstJoins
  <2> QED BY <2>2, <2>3
<1>9. ASSUME NEW k \in Nat, k \in Right PROVE k + 1 \in Right
  <2>1. SUFFICES ASSUME k + 1 + 1 \in 1 .. n PROVE Joins(segs, lens, k + 1 + 1, g[k + 1 + 1])
    OBVIOUS
  <2>2. PICK m \in Nat : m = k + 1
    OBVIOUS
  <2>3. m \in 1 .. n /\ m + 1 \in 1 .. n /\ m # 0 /\ m + 1 # 1 /\ m + 1 - 1 = m /\ m \in 0 .. n - 1
    BY <2>1, <2>2
  <2>4. Joins(segs, lens, m, g[m])
    BY <1>9, <2>2, <2>3
  <2>5. g[m + 1] = g[m] \o segs[m + 1]
    <3>1. g[m + 1] = Grown(m + 1, g[m + 1 - 1])
      BY <1>7, <2>3
    <3>2. Grown(m + 1, g[m]) = g[m] \o segs[m + 1]
      BY <2>3 DEF Grown
    <3> QED BY <2>3, <3>1, <3>2
  <2>6. /\ \A q \in 0 .. m : lens[q] \in Nat
        /\ Listed(segs[m + 1]) /\ Len(segs[m + 1]) = lens[m]
    <3>1. \A q \in 0 .. m : q \in 0 .. n - 1
      BY <2>3
    <3> QED BY <2>3, <3>1
  <2>7. Joins(segs, lens, m + 1, g[m] \o segs[m + 1])
    BY <2>4, <2>6, NextJoins
  <2> QED BY <2>2, <2>5, <2>7
<1> HIDE DEF Right
<1>10. Nat \subseteq Right
  BY <1>8, <1>9, InductionOnSet
<1>11. n - 1 \in Nat /\ n - 1 + 1 = n /\ n \in 1 .. n
  OBVIOUS
<1>12. Joins(segs, lens, n, g[n])
  BY <1>10, <1>11 DEF Right
<1> QED BY <1>1, <1>6, <1>12

-----------------------------------------------------------------------------
(* The sort by destination *)

\* The sort by destinations, for any destinations of the copies.
Earlier(dest, p) == {q \in Copy : dest[q] < dest[p] \/ (dest[q] = dest[p] /\ q < p)}
PlaceOf(dest, p) == 1 + Cardinality(Earlier(dest, p))
CopyAt(dest, j) == CHOOSE p \in Copy : PlaceOf(dest, p) = j

LEMMA CopiesFinite ==
  N * K \in Nat /\ IsFiniteSet(Copy) /\ Cardinality(Copy) = N * K
    /\ \A S \in SUBSET Copy : IsFiniteSet(S) /\ Cardinality(S) \in 0 .. N * K
<1>1. N * K \in Nat
  <2>1. B * T \in Nat /\ K \in Nat
    BY AttentionAssumption, MoeAssumption
  <2> QED BY <2>1 DEF N
<1>2. PICK whole \in Nat : whole = N * K
  BY <1>1
<1>3. IsFiniteSet(Copy) /\ Cardinality(Copy) = whole
  BY <1>2, FS_Interval DEF Copy
<1>4. \A S \in SUBSET Copy : IsFiniteSet(S) /\ Cardinality(S) \in Nat /\ Cardinality(S) <= whole
  BY <1>3, FS_Subset, FS_CardinalityType
<1> QED BY <1>2, <1>3, <1>4

\* A copy that is earlier has an earlier place.
LEMMA EarlierFirst ==
  ASSUME NEW dest \in [Copy -> Int], NEW p \in Copy, NEW q \in Copy, q \in Earlier(dest, p)
  PROVE  PlaceOf(dest, q) < PlaceOf(dest, p)
<1>1. \A c \in Copy : c \in Int /\ dest[c] \in Int
  BY CopiesFinite DEF Copy
<1>2. Earlier(dest, q) \subseteq Earlier(dest, p) /\ q \notin Earlier(dest, q)
  BY <1>1 DEF Earlier
<1>3. IsFiniteSet(Earlier(dest, p)) /\ Earlier(dest, q) # Earlier(dest, p)
  <2>1. Earlier(dest, p) \in SUBSET Copy
    BY DEF Earlier
  <2>2. IsFiniteSet(Earlier(dest, p))
    BY <2>1, CopiesFinite
  <2> QED BY <1>2, <2>2
<1>4. Cardinality(Earlier(dest, q)) # Cardinality(Earlier(dest, p))
  BY <1>2, <1>3, FS_Subset
<1>5. /\ Cardinality(Earlier(dest, q)) <= Cardinality(Earlier(dest, p))
      /\ Cardinality(Earlier(dest, q)) \in Nat /\ Cardinality(Earlier(dest, p)) \in Nat
  BY <1>2, <1>3, FS_Subset, FS_CardinalityType
<1> QED BY <1>4, <1>5 DEF PlaceOf

\* Different copies have different places, so the places are those of the buffer.
LEMMA SortedOnce ==
  ASSUME NEW dest \in [Copy -> Int]
  PROVE  /\ \A p \in Copy : PlaceOf(dest, p) \in Copy /\ CopyAt(dest, PlaceOf(dest, p)) = p
         /\ \A j \in Copy : CopyAt(dest, j) \in Copy /\ PlaceOf(dest, CopyAt(dest, j)) = j
<1>0. PICK whole \in Nat : whole = N * K
  BY CopiesFinite
<1>1. Copy = 1 .. whole /\ IsFiniteSet(Copy) /\ Cardinality(Copy) = whole
  BY <1>0, CopiesFinite DEF Copy
<1>2. \A p \in Copy : p \in Int /\ dest[p] \in Int
  BY <1>1
<1>3. ASSUME NEW p \in Copy
      PROVE  PlaceOf(dest, p) \in Copy
  <2>1. Earlier(dest, p) \subseteq Copy \ {p}
    BY <1>2 DEF Earlier
  <2>2. IsFiniteSet(Copy \ {p}) /\ Cardinality(Copy \ {p}) = whole - 1
    BY <1>1, FS_RemoveElement
  <2>3. /\ IsFiniteSet(Earlier(dest, p)) /\ Cardinality(Earlier(dest, p)) \in Nat
        /\ Cardinality(Earlier(dest, p)) <= whole - 1
    BY <2>1, <2>2, FS_Subset, FS_CardinalityType
  <2> QED BY <1>1, <2>3 DEF PlaceOf
<1>4. \A p, q \in Copy : q \in Earlier(dest, p) => PlaceOf(dest, q) # PlaceOf(dest, p)
  <2>1. ASSUME NEW p \in Copy, NEW q \in Copy, q \in Earlier(dest, p)
        PROVE  PlaceOf(dest, q) < PlaceOf(dest, p)
    BY <2>1, EarlierFirst
  <2>2. \A p \in Copy : PlaceOf(dest, p) \in Int
    BY <1>1, <1>3
  <2> QED BY <2>1, <2>2
<1>5. \A p, q \in Copy : p # q => PlaceOf(dest, p) # PlaceOf(dest, q)
  <2>1. \A p, q \in Copy : p # q => q \in Earlier(dest, p) \/ p \in Earlier(dest, q)
    BY <1>2 DEF Earlier
  <2> QED BY <1>4, <2>1
<1>6. \A j \in Copy : \E p \in Copy : PlaceOf(dest, p) = j
  <2> DEFINE place == [p \in Copy |-> PlaceOf(dest, p)]
  <2>1. place \in Injection(Copy, Copy)
    BY <1>3, <1>5 DEF Injection, IsInjective
  <2> HIDE DEF place
  <2>2. place \in Surjection(Copy, Copy)
    BY <1>1, <2>1, FS_Injection
  <2> QED BY <2>2 DEF Surjection, place
<1> QED BY <1>3, <1>5, <1>6 DEF CopyAt

\* How many copies go to each rank, and to the ranks before one.
CountsOf(dest) == [d \in Rank |-> Cardinality({p \in Copy : dest[p] = d})]

LEMMA BeforeCountsCopies ==
  ASSUME NEW dest \in [Copy -> Rank]
  PROVE  /\ \A d \in Rank : CountsOf(dest)[d] \in Nat
         /\ \A d \in 0 .. W : Before(CountsOf(dest), d) = Cardinality({p \in Copy : dest[p] < d})
<1> DEFINE counts == CountsOf(dest)
           Below(d) == {p \in Copy : dest[p] < d}
           At(d) == {p \in Copy : dest[p] = d}
           Right == {d \in Nat : d \in 0 .. W => Before(counts, d) = Cardinality(Below(d))}
<1>0. W \in Nat \ {0} /\ Rank = 0 .. W - 1
  BY MoeAssumption DEF Rank
<1>1. \A d \in Int : /\ IsFiniteSet(Below(d)) /\ Cardinality(Below(d)) \in Nat
                     /\ IsFiniteSet(At(d)) /\ Cardinality(At(d)) \in Nat
  <2>1. \A d \in Int : Below(d) \in SUBSET Copy /\ At(d) \in SUBSET Copy
    OBVIOUS
  <2> QED BY <2>1, CopiesFinite
<1>2. \A d \in Rank : counts[d] = Cardinality(At(d)) /\ d \in Int
  BY <1>0 DEF CountsOf
<1>3. \A p \in Copy : dest[p] \in Int /\ dest[p] >= 0
  BY <1>0
<1>4. /\ Before(counts, 0) = 0
      /\ \A s \in 0 .. W - 1 : Before(counts, s + 1) = Before(counts, s) + counts[s]
  <2>1. \A q \in 0 .. W - 1 : counts[q] \in Nat
    BY <1>0, <1>1, <1>2
  <2> HIDE DEF counts
  <2> QED BY <1>0, <2>1, SegmentsFollow
<1>5. 0 \in Right
  <2>1. Below(0) = {}
    BY <1>3
  <2> QED BY <1>4, <2>1, FS_EmptySet
<1>6. ASSUME NEW d \in Nat, d \in Right PROVE d + 1 \in Right
  <2>1. SUFFICES ASSUME d + 1 \in 0 .. W PROVE Before(counts, d + 1) = Cardinality(Below(d + 1))
    OBVIOUS
  <2>2. d \in 0 .. W - 1 /\ d \in Rank /\ d \in 0 .. W
    BY <1>0, <2>1
  <2>3. Below(d + 1) = Below(d) \cup At(d) /\ Below(d) \cap At(d) = {}
    BY <1>3
  <2>4. Cardinality(Below(d) \cup At(d)) = Cardinality(Below(d)) + Cardinality(At(d)) - Cardinality(Below(d) \cap At(d))
    BY <1>1, FS_Union
  <2>5. Cardinality(Below(d) \cap At(d)) = 0
    BY <2>3, FS_EmptySet
  <2>6. Before(counts, d) = Cardinality(Below(d))
    BY <1>6, <2>2
  <2>7. Before(counts, d + 1) = Before(counts, d) + Cardinality(At(d))
    BY <1>2, <1>4, <2>2
  <2>8. Cardinality(Below(d)) \in Nat /\ Cardinality(At(d)) \in Nat
    BY <1>1
  <2> HIDE DEF Below, At, counts
  <2>9. Cardinality(Below(d) \cup At(d)) = Cardinality(Below(d)) + Cardinality(At(d))
    BY <2>4, <2>5, <2>8
  <2> QED BY <2>3, <2>6, <2>7, <2>9
<1> HIDE DEF Right
<1>7. Nat \subseteq Right
  BY <1>5, <1>6, InductionOnSet
<1>8. \A d \in 0 .. W : d \in Right /\ d \in 0 .. W
  BY <1>0, <1>7
<1>9. \A d \in Rank : CountsOf(dest)[d] \in Nat
  BY <1>1, <1>2
<1> QED BY <1>8, <1>9 DEF Right

\* A copy lies in the segment of its destination.
LEMMA SortedCut ==
  ASSUME NEW dest \in [Copy -> Rank], NEW p \in Copy
  PROVE  \E i \in 1 .. CountsOf(dest)[dest[p]] : PlaceOf(dest, p) = Before(CountsOf(dest), dest[p]) + i
<1> DEFINE counts == CountsOf(dest)
           d == dest[p]
           below == {q \in Copy : dest[q] < d}
           upTo == {q \in Copy : dest[q] < d + 1}
<1>0. W \in Nat \ {0} /\ Rank = 0 .. W - 1 /\ Copy \subseteq Int
  BY MoeAssumption, CopiesFinite DEF Rank, Copy
<1>1. d \in Rank /\ d \in Int /\ d \in 0 .. W /\ d + 1 \in 0 .. W /\ d \in 0 .. W - 1
  BY <1>0
<1>2. \A q \in Copy : dest[q] \in Int
  BY <1>0
<1> HIDE DEF d
<1>3. below \subseteq Earlier(dest, p) /\ Earlier(dest, p) \cup {p} \subseteq upTo /\ p \notin Earlier(dest, p)
  <2>1. d = dest[p] /\ p \in Int
    BY <1>0 DEF d
  <2>2. below \subseteq Earlier(dest, p)
    BY <2>1 DEF Earlier
  <2>3. p \notin Earlier(dest, p)
    BY <1>1, <2>1 DEF Earlier
  <2>4. \A q \in Copy : (dest[q] < d \/ dest[q] = d) => dest[q] < d + 1
    BY <1>1, <1>2
  <2>5. Earlier(dest, p) \cup {p} \subseteq upTo
    BY <2>1, <2>4 DEF Earlier
  <2> QED BY <2>2, <2>3, <2>5
<1>4. below \in SUBSET Copy /\ upTo \in SUBSET Copy /\ Earlier(dest, p) \in SUBSET Copy
  BY DEF Earlier
<1>5. Before(counts, d) = Cardinality(below) /\ Before(counts, d + 1) = Cardinality(upTo)
  BY <1>1, BeforeCountsCopies
<1>6. Before(counts, d + 1) = Before(counts, d) + counts[d] /\ counts[d] \in Nat
  <2>1. \A q \in 0 .. W - 1 : counts[q] \in Nat
    BY <1>0, BeforeCountsCopies
  <2> HIDE DEF counts
  <2> QED BY <1>0, <1>1, <2>1, SegmentsFollow
<1> HIDE DEF counts, below, upTo
<1>7. /\ IsFiniteSet(Earlier(dest, p)) /\ IsFiniteSet(upTo)
      /\ Cardinality(below) \in Nat /\ Cardinality(Earlier(dest, p)) \in Nat /\ Cardinality(upTo) \in Nat
  BY <1>4, CopiesFinite
<1>8. Cardinality(below) <= Cardinality(Earlier(dest, p))
  BY <1>3, <1>7, FS_Subset
<1>9. Cardinality(Earlier(dest, p)) + 1 <= Cardinality(upTo)
  <2>1. Cardinality(Earlier(dest, p) \cup {p}) = Cardinality(Earlier(dest, p)) + 1
    BY <1>3, <1>7, FS_AddElement
  <2>2. Cardinality(Earlier(dest, p) \cup {p}) <= Cardinality(upTo)
    BY <1>3, <1>7, FS_Subset
  <2> QED BY <2>1, <2>2
<1>10. PlaceOf(dest, p) - Before(counts, d) \in 1 .. counts[d]
  BY <1>5, <1>6, <1>7, <1>8, <1>9 DEF PlaceOf
<1>11. PlaceOf(dest, p) = Before(counts, d) + (PlaceOf(dest, p) - Before(counts, d))
  BY <1>5, <1>7 DEF PlaceOf
<1> QED BY <1>10, <1>11 DEF counts, d

\* Every place of a segment is one of the buffer.
LEMMA CutInBuffer ==
  ASSUME NEW dest \in [Copy -> Rank], NEW d \in Rank, NEW i \in 1 .. CountsOf(dest)[d]
  PROVE  Before(CountsOf(dest), d) + i \in Copy
<1> DEFINE counts == CountsOf(dest)
<1>0. W \in Nat \ {0} /\ Rank = 0 .. W - 1 /\ d \in 0 .. W /\ W \in 0 .. W
  BY MoeAssumption DEF Rank
<1>1. \A q \in 0 .. W - 1 : counts[q] \in Nat
  BY <1>0, BeforeCountsCopies
<1>2. Before(counts, W) = N * K
  <2>1. {p \in Copy : dest[p] < W} = Copy
    BY <1>0
  <2>2. Before(counts, W) = Cardinality(Copy)
    BY <1>0, <2>1, BeforeCountsCopies
  <2> QED BY <2>2, CopiesFinite
<1> HIDE DEF counts
<1>3. Before(counts, d) \in Nat /\ Before(counts, d) + counts[d] <= Before(counts, W)
  BY <1>0, <1>1, SegmentsFollow
<1>4. i \in 1 .. counts[d] /\ counts[d] \in Nat
  BY <1>0, <1>1 DEF counts
<1>5. PICK whole \in Nat : whole = N * K
  BY CopiesFinite
<1>6. Before(counts, d) + i \in 1 .. whole
  BY <1>2, <1>3, <1>4, <1>5
<1> QED BY <1>5, <1>6 DEF counts, Copy

-----------------------------------------------------------------------------
(* What is routed, sent and gathered *)

\* The route of a copy in block l, what it is sent and what comes back for it.
Routed(s, l, p) == topk_i[s][l][TokenOf(p)][SlotOf(p)]
Row_of(s, p) == [from |-> <<s, TokenOf(p)>>, value |-> Past(TokenOf(p))]

\* How many copies each rank gets of rank s in block l, and which is its i-th.
Dests(s, l) == [p \in Copy |-> Routed(s, l, p) \div E_local]
Sent(s, l, d) == CountsOf(Dests(s, l))[d]
Carried(s, l, d, i) == CopyAt(Dests(s, l), Before(CountsOf(Dests(s, l)), d) + i)

\* What rank s puts into exchange number k of block l for rank d: a count, then as many
\* tokens and as many expert numbers, then a result for each row it was sent.
Segment(s, l, k, d) ==
  IF k = 1 THEN <<Sent(s, l, d)>>
  ELSE IF k = 2 THEN [i \in 1 .. Sent(s, l, d) |-> Row_of(s, Carried(s, l, d, i))]
  ELSE IF k = 3 THEN [i \in 1 .. Sent(s, l, d) |-> Routed(s, l, Carried(s, l, d, i)) % E_local]
  ELSE [i \in 1 .. Sent(d, l, s) |->
          Output(s, Routed(d, l, Carried(d, l, s, i)) % E_local, Row_of(d, Carried(d, l, s, i)))]

Segments(s, l, k) == [d \in Rank |-> Segment(s, l, k, d)]

\* What rank r makes of exchange number k of block l.
Gathered(r, l, k) == FlattenSeq([i \in 1 .. W |-> Segment(i - 1, l, k, r)])

\* The exchanges of a block that a rank has entered.
Entered(state) ==
  IF state \in {"attend", "route"} THEN 0
  ELSE IF state = "counts" THEN 1
  ELSE IF state = "tokens" THEN 2
  ELSE IF state = "experts" THEN 3 ELSE 4

\* Every exchange a rank has ever entered is right, as ranks may be a block apart.
History ==
  \A s \in Rank, l \in 1 .. LAYERS, k \in 1 .. 4 :
    4 * (l - 1) + k <= Calls(s) => posted[s][4 * (l - 1) + k] = Segments(s, l, k)

MoeShapes ==
  /\ topk_i \in [Rank -> [1 .. LAYERS -> [Token -> TopK]]]
  /\ DOMAIN posted = Rank /\ \A r \in Rank : Listed(posted[r])
  /\ pc \in [Rank -> {"attend", "route", "counts", "tokens", "experts", "back", "done"}]
  /\ layer \in [Rank -> 1 .. LAYERS]
  /\ recv_counts \in [Rank -> [Rank -> 0 .. N * K]]
  /\ DOMAIN recv_tok = Rank
  /\ \A r \in Rank : \A i \in DOMAIN recv_tok[r] : recv_tok[r][i].from \in Rank \X Token
  /\ DOMAIN combined = Rank /\ \A r \in Rank : Listed(combined[r])
  /\ x \in [Rank -> [Token -> SUBSET Token]]

\* Where a rank is, it knows how many exchanges it has entered, how much each other rank
\* sends it in this block and what it was sent, and has combined the blocks before.
Coming(r) == [s \in Rank |-> Sent(s, layer[r], r)]
Place(r) ==
  /\ Calls(r) = 4 * (layer[r] - 1) + Entered(pc[r])
  /\ pc[r] \in {"tokens", "experts", "back"} => recv_counts[r] = Coming(r)
  /\ pc[r] = "experts" => recv_tok[r] = Gathered(r, layer[r], 2)
  /\ Len(combined[r]) = IF pc[r] = "done" THEN layer[r] ELSE layer[r] - 1
  /\ \A n \in Token : x[r][n] = IF layer[r] = 1 /\ pc[r] = "attend" THEN {n} ELSE Past(n)

\* What was summed came from the experts of the copy, for its token.
Sums(r) ==
  \A l \in 1 .. Len(combined[r]) :
    combined[r][l] = [p \in Copy |-> Output(Dests(r, l)[p], Routed(r, l, p) % E_local, Row_of(r, p))]

MoeInv ==
  script = "mha_moe_ep" => MoeShapes /\ History /\ \A r \in Rank : Place(r) /\ Sums(r)

-----------------------------------------------------------------------------
(* What is routed, sent and gathered *)

\* The experts of a rank, and the rank and number of an expert.
LEMMA ExpertOfRank ==
  ASSUME NEW e \in 0 .. E - 1
  PROVE  e \div E_local \in Rank /\ e % E_local \in 0 .. E_local - 1
<1>0. W \in Nat \ {0} /\ E \in Nat \ {0} /\ E % W = 0
  BY MoeAssumption
<1>1. E \div W \in Nat /\ E = W * (E \div W) + (E % W)
  BY <1>0, DivMod
<1>2. PICK own \in Nat : own = E \div W
  BY <1>1
<1>3. E = W * own
  BY <1>0, <1>1, <1>2
<1>4. own # 0
  BY <1>0, <1>3
<1>5. e \in 0 .. W * own - 1
  BY <1>3
<1>6. e \div own \in 0 .. W - 1 /\ e % own \in 0 .. own - 1
  BY <1>0, <1>2, <1>4, <1>5, CellOfNumber
<1> QED BY <1>2, <1>6 DEF Rank, E_local

\* Every copy has a token and a slot.
LEMMA CopyOfToken ==
  ASSUME NEW p \in Copy
  PROVE  TokenOf(p) \in Token /\ SlotOf(p) \in 0 .. K - 1
<1>0. K \in Nat \ {0} /\ N \in Nat
  <2>1. B * T \in Nat
    BY AttentionAssumption
  <2>2. K \in 1 .. E /\ E \in Nat
    BY MoeAssumption
  <2> QED BY <2>1, <2>2 DEF N
<1>1. PICK whole \in Nat : whole = N * K
  BY CopiesFinite
<1>2. p - 1 \in 0 .. whole - 1
  BY <1>1 DEF Copy
<1>3. p - 1 \in 0 .. N * K - 1
  BY <1>1, <1>2
<1>4. (p - 1) \div K \in 0 .. N - 1 /\ (p - 1) % K \in 0 .. K - 1
  BY <1>0, <1>3, CellOfNumber
<1> QED BY <1>4 DEF TokenOf, SlotOf, Token

LEMMA RoutedExperts ==
  ASSUME topk_i \in [Rank -> [1 .. LAYERS -> [Token -> TopK]]],
         NEW s \in Rank, NEW l \in 1 .. LAYERS
  PROVE  /\ \A p \in Copy : Routed(s, l, p) \in 0 .. E - 1
         /\ \A p \in Copy : Routed(s, l, p) % E_local \in 0 .. E_local - 1
         /\ Dests(s, l) \in [Copy -> Rank]
         /\ \A d \in Rank : Sent(s, l, d) \in 0 .. N * K
<1>1. \A p \in Copy : Routed(s, l, p) \in 0 .. E - 1
  <2>1. ASSUME NEW p \in Copy PROVE Routed(s, l, p) \in 0 .. E - 1
    <3>1. TokenOf(p) \in Token /\ SlotOf(p) \in 0 .. K - 1
      BY CopyOfToken
    <3>2. topk_i[s][l][TokenOf(p)] \in TopK
      <4>1. topk_i[s] \in [1 .. LAYERS -> [Token -> TopK]]
        OBVIOUS
      <4>2. topk_i[s][l] \in [Token -> TopK]
        BY <4>1
      <4> QED BY <3>1, <4>2
    <3>3. topk_i[s][l][TokenOf(p)] \in [0 .. K - 1 -> 0 .. E - 1]
      BY <3>2 DEF TopK
    <3> QED BY <3>1, <3>3 DEF Routed
  <2> QED BY <2>1
<1>2. \A p \in Copy : Routed(s, l, p) \div E_local \in Rank /\ Routed(s, l, p) % E_local \in 0 .. E_local - 1
  BY <1>1, ExpertOfRank
<1>3. Dests(s, l) \in [Copy -> Rank]
  BY <1>2 DEF Dests
<1>4. PICK dest : dest = Dests(s, l)
  OBVIOUS
<1>5. \A d \in Rank : CountsOf(dest)[d] \in 0 .. N * K
  <2>1. \A d \in Rank : {p \in Copy : dest[p] = d} \in SUBSET Copy
    OBVIOUS
  <2> QED BY <2>1, CopiesFinite DEF CountsOf
<1> QED BY <1>1, <1>2, <1>3, <1>4, <1>5 DEF Sent

\* The model's sort and counts are those of the destinations.
LEMMA SortOfModel ==
  ASSUME NEW r \in Rank, NEW dest, dest = Dests(r, layer[r])
  PROVE  /\ \A p \in Copy : dest[p] = Dest_rank(r, p)
         /\ \A p \in Copy : PlaceInOrder(r, p) = PlaceOf(dest, p)
         /\ \A j \in Copy : Order(r)[j] = CopyAt(dest, j)
         /\ Send_counts(r) = CountsOf(dest)
<1>1. \A p \in Copy : dest[p] = Dest_rank(r, p)
  BY DEF Dests, Routed, Dest_rank, Expert
<1>2. ASSUME NEW p \in Copy PROVE PlaceInOrder(r, p) = PlaceOf(dest, p)
  <2>1. {q \in Copy : Ahead(r, q, p)} = Earlier(dest, p)
    BY <1>1 DEF Ahead, Earlier
  <2> QED BY <2>1 DEF PlaceInOrder, PlaceOf
<1>3. \A j \in Copy : Order(r)[j] = CopyAt(dest, j)
  BY <1>2 DEF Order, CopyAt
<1>4. Send_counts(r) = CountsOf(dest)
  <2>1. \A s \in Rank : {p \in Copy : Dest_rank(r, p) = s} = {p \in Copy : dest[p] = s}
    BY <1>1
  <2> QED BY <2>1 DEF Send_counts, CountsOf
<1> QED BY <1>1, <1>2, <1>3, <1>4

\* The rows rank r gets from each rank: those for its experts, or the results for its own
\* copies.
Lengths(r, l, k) == IF k = 4 THEN [s \in Rank |-> Sent(r, l, s)] ELSE [s \in Rank |-> Sent(s, l, r)]

\* whole is the segments that come to rank r, joined.
Together(whole, lens, r, l, k) ==
  /\ Listed(whole) /\ Len(whole) = Before(lens, W)
  /\ \A s \in Rank : \A i \in 1 .. lens[s] :
       Before(lens, s) + i \in 1 .. Before(lens, W) /\ whole[Before(lens, s) + i] = Segment(s, l, k, r)[i]
  /\ \A j \in 1 .. Before(lens, W) : \E s \in Rank : \E i \in 1 .. lens[s] : j = Before(lens, s) + i

LEMMA GatheredJoins ==
  ASSUME topk_i \in [Rank -> [1 .. LAYERS -> [Token -> TopK]]],
         NEW r \in Rank, NEW l \in 1 .. LAYERS, NEW k \in 2 .. 4
  PROVE  Together(Gathered(r, l, k), Lengths(r, l, k), r, l, k)
<1> PICK lens : lens = Lengths(r, l, k)
  OBVIOUS
<1>0. W \in Nat \ {0} /\ Rank = 0 .. W - 1
  BY MoeAssumption DEF Rank
<1>1. \A s \in Rank : lens[s] \in Nat
  <2>1. \A s \in Rank : Sent(r, l, s) \in Nat /\ Sent(s, l, r) \in Nat
    BY RoutedExperts, CopiesFinite
  <2> QED BY <2>1 DEF Lengths
<1>2. PICK segs : segs = [i \in 1 .. W |-> Segment(i - 1, l, k, r)]
  OBVIOUS
<1>3. ASSUME NEW s \in Rank PROVE segs[s + 1] = Segment(s, l, k, r)
  <2>1. s \in Int /\ s + 1 \in 1 .. W
    BY <1>0
  <2>2. \A i \in 1 .. W : segs[i] = Segment(i - 1, l, k, r)
    BY <1>2
  <2>3. PICK i \in 1 .. W : i = s + 1 /\ i - 1 = s
    BY <2>1
  <2>4. segs[i] = Segment(i - 1, l, k, r)
    BY <2>2
  <2>5. segs[i] = Segment(s, l, k, r)
    BY <2>3, <2>4
  <2> QED BY <2>3, <2>5
<1>4. ASSUME NEW s \in Rank
      PROVE  Listed(Segment(s, l, k, r)) /\ Len(Segment(s, l, k, r)) = lens[s]
  <2>1. PICK item : Segment(s, l, k, r) = [i \in 1 .. lens[s] |-> item[i]]
    <3>1. CASE k = 2
      <4>1. Segment(s, l, k, r) = [i \in 1 .. lens[s] |-> Row_of(s, Carried(s, l, r, i))]
        BY <3>1 DEF Segment, Lengths
      <4>2. Segment(s, l, k, r) = [i \in 1 .. lens[s] |-> Segment(s, l, k, r)[i]]
        BY <4>1
      <4> QED BY <4>2
    <3>2. CASE k = 3
      <4>1. Segment(s, l, k, r) = [i \in 1 .. lens[s] |-> Routed(s, l, Carried(s, l, r, i)) % E_local]
        BY <3>2 DEF Segment, Lengths
      <4>2. Segment(s, l, k, r) = [i \in 1 .. lens[s] |-> Segment(s, l, k, r)[i]]
        BY <4>1
      <4> QED BY <4>2
    <3>3. CASE k = 4
      <4>1. Segment(s, l, k, r) = [i \in 1 .. lens[s] |->
              Output(s, Routed(r, l, Carried(r, l, s, i)) % E_local, Row_of(r, Carried(r, l, s, i)))]
        BY <3>3 DEF Segment, Lengths
      <4>2. Segment(s, l, k, r) = [i \in 1 .. lens[s] |-> Segment(s, l, k, r)[i]]
        BY <4>1
      <4> QED BY <4>2
    <3> QED BY <3>1, <3>2, <3>3
  <2>2. Len([i \in 1 .. lens[s] |-> item[i]]) = lens[s]
    BY <1>1
  <2> QED BY <1>1, <2>1, <2>2 DEF Listed
<1>5. Len(segs) = W
  BY <1>0, <1>2
<1>6. \A s \in 0 .. W - 1 : lens[s] \in Nat /\ Listed(segs[s + 1]) /\ Len(segs[s + 1]) = lens[s]
  BY <1>0, <1>1, <1>3, <1>4
<1>7. PICK whole : whole = FlattenSeq(segs)
  OBVIOUS
<1>8. Joins(segs, lens, W, whole)
  BY <1>0, <1>5, <1>6, <1>7, Joined
<1>9. whole = Gathered(r, l, k)
  BY <1>2, <1>7 DEF Gathered
<1>10. ASSUME NEW s \in Rank, NEW i \in 1 .. lens[s]
       PROVE  Before(lens, s) + i \in 1 .. Before(lens, W)
  <2>1. /\ Before(lens, s) \in Nat /\ Before(lens, W) \in Nat
        /\ Before(lens, s) + lens[s] <= Before(lens, W)
    <3>1. \A q \in 0 .. W - 1 : lens[q] \in Nat
      BY <1>0, <1>1
    <3>2. s \in 0 .. W - 1 /\ s \in 0 .. W /\ W \in 0 .. W
      BY <1>0
    <3> QED BY <1>0, <3>1, <3>2, SegmentsFollow
  <2> QED BY <1>1, <2>1
<1>11. Listed(whole) /\ Len(whole) = Before(lens, W)
  BY <1>8 DEF Joins
<1>12. ASSUME NEW s \in Rank, NEW i \in 1 .. lens[s]
       PROVE  whole[Before(lens, s) + i] = Segment(s, l, k, r)[i]
  <2>1. \A q \in 0 .. W - 1 : \A j \in 1 .. lens[q] : whole[Before(lens, q) + j] = segs[q + 1][j]
    BY <1>8 DEF Joins
  <2>2. whole[Before(lens, s) + i] = segs[s + 1][i]
    BY <1>0, <2>1
  <2> QED BY <1>3, <2>2
<1>13. \A j \in 1 .. Before(lens, W) : \E s \in Rank : \E i \in 1 .. lens[s] : j = Before(lens, s) + i
  <2>1. \A j \in 1 .. Before(lens, W) :
          \E s \in 0 .. W - 1 : \E i \in 1 .. lens[s] : j = Before(lens, s) + i
    BY <1>8 DEF Joins
  <2> QED BY <1>0, <2>1
<1>14. Together(whole, lens, r, l, k)
  BY <1>10, <1>11, <1>12, <1>13 DEF Together
<1> QED BY <1>9, <1>14

-----------------------------------------------------------------------------
(* What a rank receives *)

\* What is appended comes last and leaves the rest.
LEMMA Appended ==
  ASSUME NEW seq, Listed(seq), NEW e
  PROVE  /\ Listed(Append(seq, e)) /\ Len(Append(seq, e)) = Len(seq) + 1
         /\ \A i \in 1 .. Len(seq) : Append(seq, e)[i] = seq[i]
         /\ Append(seq, e)[Len(seq) + 1] = e
<1> DEFINE S == {seq[i] : i \in 1 .. Len(seq)} \cup {e}
<1>1. seq \in Seq(S)
  BY DEF Listed
<1>2. e \in S
  OBVIOUS
<1> HIDE DEF S
<1>3. Append(seq, e) \in Seq(S) /\ Len(Append(seq, e)) = Len(seq) + 1
  BY <1>1, <1>2
<1>4. \A i \in 1 .. Len(seq) : Append(seq, e)[i] = seq[i]
  BY <1>1, <1>2
<1>5. Append(seq, e)[Len(seq) + 1] = e
  BY <1>1, <1>2
<1>6. Append(seq, e) = [i \in 1 .. Len(Append(seq, e)) |-> Append(seq, e)[i]]
  <2>1. ASSUME NEW longer \in Seq(S) PROVE longer \in [1 .. Len(longer) -> S]
    OBVIOUS
  <2> QED BY <1>3, <2>1
<1> QED BY <1>3, <1>4, <1>5, <1>6 DEF Listed


\* Routes never change, and with them nothing that is sent.
LEMMA RoutesStay ==
  ASSUME UNCHANGED topk_i
  PROVE  /\ \A s, l, p : Routed(s, l, p)' = Routed(s, l, p)
         /\ \A s, l : Dests(s, l)' = Dests(s, l)
         /\ \A s, l, d : Sent(s, l, d)' = Sent(s, l, d)
         /\ \A s, l, k : Segments(s, l, k)' = Segments(s, l, k)
         /\ \A r, l, k : Gathered(r, l, k)' = Gathered(r, l, k)
<1>1. \A s, l, p : Routed(s, l, p)' = Routed(s, l, p)
  BY DEF Routed
<1>2. \A s, l : Dests(s, l)' = Dests(s, l)
  BY <1>1 DEF Dests
<1>3. \A s, l, d : Sent(s, l, d)' = Sent(s, l, d)
  BY <1>2 DEF Sent
<1>4. \A s, l, d, i : Carried(s, l, d, i)' = Carried(s, l, d, i)
  BY <1>2 DEF Carried
<1>5. \A s, l, k, d : Segment(s, l, k, d)' = Segment(s, l, k, d)
  <2>1. SUFFICES ASSUME NEW s, NEW l, NEW k, NEW d
                 PROVE  Segment(s, l, k, d)' = Segment(s, l, k, d)
    OBVIOUS
  <2>2. CASE k = 1
    BY <1>3, <2>2 DEF Segment
  <2>3. CASE k = 2
    BY <1>3, <1>4, <2>3 DEF Segment
  <2>4. CASE k = 3
    BY <1>1, <1>3, <1>4, <2>4 DEF Segment
  <2>5. CASE k \notin {1, 2, 3}
    BY <1>1, <1>3, <1>4, <2>5 DEF Segment
  <2> QED BY <2>2, <2>3, <2>4, <2>5
<1>6. \A s, l, k : Segments(s, l, k)' = Segments(s, l, k)
  BY <1>5 DEF Segments
<1>7. \A r, l, k : Gathered(r, l, k)' = Gathered(r, l, k)
  BY <1>5 DEF Gathered
<1> QED BY <1>1, <1>2, <1>3, <1>6, <1>7

\* An item for each copy, cut into what goes to each rank.
PerRank(r, l, item) == [d \in Rank |-> [i \in 1 .. Sent(r, l, d) |-> item[Carried(r, l, d, i)]]]

\* The copies behind a segment; a sorted buffer cut by the counts of the destinations.
LEMMA CutForRanks ==
  ASSUME topk_i \in [Rank -> [1 .. LAYERS -> [Token -> TopK]]],
         NEW r \in Rank, NEW l \in 1 .. LAYERS
  PROVE  /\ \A d \in Rank : \A i \in 1 .. Sent(r, l, d) : Carried(r, l, d, i) \in Copy
         /\ \A item, buffer :
              (\A j \in Copy : buffer[j] = item[CopyAt(Dests(r, l), j)])
                => Cut(buffer, CountsOf(Dests(r, l))) = PerRank(r, l, item)
<1>1. PICK dest : dest = Dests(r, l) /\ dest \in [Copy -> Rank]
  BY RoutedExperts
<1>2. dest \in [Copy -> Int]
  <2>1. Rank \subseteq Int
    BY MoeAssumption DEF Rank
  <2> QED BY <1>1, <2>1
<1>3. \A d \in Rank : \A i \in 1 .. Sent(r, l, d) : Carried(r, l, d, i) \in Copy
  <2>1. ASSUME NEW d \in Rank, NEW i \in 1 .. CountsOf(dest)[d]
        PROVE  CopyAt(dest, Before(CountsOf(dest), d) + i) \in Copy
    BY <1>1, <1>2, CutInBuffer, SortedOnce
  <2> QED BY <1>1, <2>1 DEF Sent, Carried
<1>4. ASSUME NEW item, NEW buffer, \A j \in Copy : buffer[j] = item[CopyAt(dest, j)]
      PROVE  Cut(buffer, CountsOf(dest)) = PerRank(r, l, item)
  <2>1. PICK counts : counts = CountsOf(dest)
    OBVIOUS
  <2>2. \A d \in Rank : \A i \in 1 .. counts[d] : buffer[Before(counts, d) + i] = item[Carried(r, l, d, i)]
    <3>1. \A d \in Rank : \A i \in 1 .. counts[d] : Before(counts, d) + i \in Copy
      BY <1>1, <2>1, CutInBuffer
    <3> QED BY <1>1, <1>4, <2>1, <3>1 DEF Carried
  <2>3. \A d \in Rank : Sent(r, l, d) = counts[d]
    BY <1>1, <2>1 DEF Sent
  <2>4. \A d \in Rank : [i \in 1 .. counts[d] |-> buffer[Before(counts, d) + i]] =
                         [i \in 1 .. counts[d] |-> item[Carried(r, l, d, i)]]
    BY <2>2
  <2> QED BY <2>1, <2>3, <2>4 DEF Cut, PerRank
<1> QED BY <1>1, <1>3, <1>4

\* What rank r reads once all ranks have entered the exchange it is in.
LEMMA ReceivedRight ==
  ASSUME MoeShapes, History, NEW r \in Rank, Place(r), AllPosted(r),
         NEW k \in 1 .. 4, Entered(pc[r]) = k
  PROVE  /\ \A s \in Rank : posted[s][Calls(r)] = Segments(s, layer[r], k)
         /\ Received(r) = Gathered(r, layer[r], k)
<1>1. LAYERS \in Nat /\ layer[r] \in 1 .. LAYERS /\ W \in Nat \ {0} /\ Rank = 0 .. W - 1
  BY MoeAssumption DEF MoeShapes, Rank
<1>2. Calls(r) = 4 * (layer[r] - 1) + k
  BY DEF Place
<1>3. ASSUME NEW s \in Rank PROVE posted[s][Calls(r)] = Segments(s, layer[r], k)
  <2>1. Calls(s) >= Calls(r) /\ Calls(s) \in Nat /\ Calls(r) \in Nat
    BY DEF AllPosted, MoeShapes, Listed, Calls
  <2>2. 4 * (layer[r] - 1) + k <= Calls(s)
    BY <1>2, <2>1
  <2> QED BY <1>1, <1>2, <2>2 DEF History
<1>4. ASSUME NEW i \in 1 .. W PROVE posted[i - 1][Calls(r)][r] = Segment(i - 1, layer[r], k, r)
  <2>1. PICK s \in Rank : s = i - 1
    BY <1>1
  <2>2. posted[s][Calls(r)][r] = Segment(s, layer[r], k, r)
    BY <1>3 DEF Segments
  <2> QED BY <2>1, <2>2
<1>5. Received(r) = Gathered(r, layer[r], k)
  BY <1>4 DEF Received, Gathered
<1> QED BY <1>3, <1>5

-----------------------------------------------------------------------------
(* What a step leaves as it was *)

\* The tokens a rank is sent are tokens of ranks.
LEMMA GatheredTokens ==
  ASSUME topk_i \in [Rank -> [1 .. LAYERS -> [Token -> TopK]]],
         NEW r \in Rank, NEW l \in 1 .. LAYERS
  PROVE  \A j \in DOMAIN Gathered(r, l, 2) : Gathered(r, l, 2)[j].from \in Rank \X Token
<1>0. Lengths(r, l, 2) = [s \in Rank |-> Sent(s, l, r)]
  BY DEF Lengths
<1>1. PICK lens : lens = Lengths(r, l, 2) /\ lens = [s \in Rank |-> Sent(s, l, r)]
  BY <1>0
<1>2. PICK whole : whole = Gathered(r, l, 2)
  OBVIOUS
<1>3. Together(whole, lens, r, l, 2)
  BY <1>1, <1>2, GatheredJoins, 2 \in 2 .. 4
<1>4. ASSUME NEW j \in DOMAIN whole PROVE whole[j].from \in Rank \X Token
  <2>1. j \in 1 .. Before(lens, W)
    BY <1>3 DEF Together, Listed
  <2>2. PICK s \in Rank : \E i \in 1 .. lens[s] : j = Before(lens, s) + i
    BY <1>3, <2>1 DEF Together
  <2>3. PICK i \in 1 .. lens[s] : j = Before(lens, s) + i
    BY <2>2
  <2>4. i \in 1 .. Sent(s, l, r)
    BY <1>1
  <2>5. Segment(s, l, 2, r)[i] = Row_of(s, Carried(s, l, r, i))
    BY <2>4 DEF Segment
  <2>6. Carried(s, l, r, i) \in Copy
    BY <2>4, CutForRanks
  <2>7. TokenOf(Carried(s, l, r, i)) \in Token
    BY <2>6, CopyOfToken
  <2>8. whole[j] = Row_of(s, Carried(s, l, r, i))
    BY <1>3, <2>3, <2>5 DEF Together
  <2> QED BY <2>7, <2>8 DEF Row_of
<1> QED BY <1>2, <1>4

\* A rank that enters its next exchange with the right segments keeps the history.
LEMMA PostKeepsHistory ==
  ASSUME MoeShapes, History, NEW r \in Rank, NEW k \in 1 .. 4,
         Calls(r) = 4 * (layer[r] - 1) + k - 1, Post(r, Segments(r, layer[r], k)), UNCHANGED topk_i
  PROVE  /\ History' /\ Calls(r)' = Calls(r) + 1
         /\ DOMAIN posted' = Rank /\ \A s \in Rank : Listed(posted'[s])
         /\ \A s \in Rank : s # r => posted'[s] = posted[s]
<1>0. PICK segments : segments = Segments(r, layer[r], k)
  OBVIOUS
<1>1. posted'[r] = Append(posted[r], segments) /\ \A s \in Rank : s # r => posted'[s] = posted[s]
  BY <1>0 DEF Post, MoeShapes
<1>2. DOMAIN posted' = Rank
  BY DEF Post, MoeShapes
<1>3. /\ Listed(posted'[r]) /\ Calls(r)' = Calls(r) + 1 /\ Calls(r) \in Nat
      /\ \A i \in 1 .. Calls(r) : posted'[r][i] = posted[r][i]
      /\ posted'[r][Calls(r) + 1] = segments
  BY <1>1, Appended DEF MoeShapes, Calls, Listed
<1>4. ASSUME NEW s \in Rank, NEW l \in 1 .. LAYERS, NEW m \in 1 .. 4, 4 * (l - 1) + m <= Calls(s)'
      PROVE  posted'[s][4 * (l - 1) + m] = Segments(s, l, m)
  <2>0. layer[r] \in 1 .. LAYERS /\ LAYERS \in Nat
    BY MoeAssumption DEF MoeShapes
  <2>1. CASE s # r
    BY <1>1, <1>4, <2>1 DEF History, Calls
  <2>2. CASE s = r /\ 4 * (l - 1) + m <= Calls(r)
    <3>1. 4 * (l - 1) + m \in 1 .. Calls(r)
      BY <1>3, <2>0, <2>2
    <3> QED BY <1>3, <2>2, <3>1 DEF History
  <2>3. CASE s = r /\ ~(4 * (l - 1) + m <= Calls(r))
    <3>1. 4 * (l - 1) + m = Calls(r) + 1
      BY <1>3, <1>4, <2>0, <2>3
    <3>2. l = layer[r] /\ m = k
      BY <2>0, <3>1
    <3> QED BY <1>0, <1>3, <2>3, <3>1, <3>2
  <2> QED BY <2>1, <2>2, <2>3
<1>5. History'
  <2>1. \A s, l, m : Segments(s, l, m)' = Segments(s, l, m)
    BY RoutesStay
  <2> QED BY <1>4, <2>1 DEF History
<1> QED BY <1>1, <1>2, <1>3, <1>5 DEF MoeShapes

LEMMA HistoryStays ==
  ASSUME History, UNCHANGED <<topk_i, posted>>
  PROVE  History'
<1>1. \A s, l, m : Segments(s, l, m)' = Segments(s, l, m)
  BY RoutesStay
<1> QED BY <1>1 DEF History, Calls

\* A rank another one's step leaves alone is where it was and has what it had.
LEMMA SumsStay ==
  ASSUME UNCHANGED topk_i, NEW s \in Rank, Sums(s), combined'[s] = combined[s]
  PROVE  Sums(s)'
<1>1. \A l, p : Routed(s, l, p)' = Routed(s, l, p)
  BY RoutesStay
<1>2. \A l : Dests(s, l)' = Dests(s, l)
  BY RoutesStay
<1> QED BY <1>1, <1>2 DEF Sums, Row_of

LEMMA OthersStay ==
  ASSUME UNCHANGED topk_i, NEW s \in Rank, Place(s), Sums(s),
         posted'[s] = posted[s], pc'[s] = pc[s], layer'[s] = layer[s], x'[s] = x[s],
         recv_counts'[s] = recv_counts[s], recv_tok'[s] = recv_tok[s], combined'[s] = combined[s]
  PROVE  Place(s)' /\ Sums(s)'
<1>1. \A d, l : Sent(d, l, s)' = Sent(d, l, s)
  BY RoutesStay
<1>2. Coming(s)' = Coming(s)
  BY <1>1 DEF Coming
<1>3. \A l : Gathered(s, l, 2)' = Gathered(s, l, 2)
  BY RoutesStay
<1>4. Gathered(s, layer[s], 2)' = Gathered(s, layer[s], 2)
  BY <1>3
<1>5. Place(s)'
  BY <1>2, <1>4 DEF Place, Calls
<1> QED BY <1>5, SumsStay

LEMMA MoeInit == Init => MoeInv
<1> SUFFICES ASSUME Init, script = "mha_moe_ep" PROVE MoeInv
  BY DEF MoeInv
<1>1. LAYERS \in Nat \ {0} /\ 1 \in 1 .. LAYERS /\ N * K \in Nat
  BY MoeAssumption, CopiesFinite
<1>2. /\ pc = [r \in Rank |-> "attend"] /\ layer = [r \in Rank |-> 1]
      /\ posted = [r \in Rank |-> <<>>] /\ recv_tok = [r \in Rank |-> <<>>]
      /\ combined = [r \in Rank |-> <<>>] /\ x = [r \in Rank |-> [n \in Token |-> {n}]]
      /\ topk_i \in [Rank -> [1 .. LAYERS -> [Token -> TopK]]]
      /\ recv_counts = [r \in Rank |-> [s \in Rank |-> 0]]
  BY DEF Init, Ranks
<1>3. Len(<<>>) = 0 /\ DOMAIN <<>> = {} /\ <<>> = [i \in 1 .. 0 |-> <<>>[i]]
  OBVIOUS
<1>4. MoeShapes
  <2>1. recv_counts \in [Rank -> [Rank -> 0 .. N * K]]
    <3>1. PICK whole \in Nat : whole = N * K
      BY <1>1
    <3>2. 0 \in 0 .. whole
      OBVIOUS
    <3> QED BY <1>2, <3>1, <3>2
  <2>2. Listed(<<>>)
    BY <1>3 DEF Together, Listed
  <2>3. DOMAIN recv_tok = Rank /\ \A r \in Rank : \A i \in DOMAIN recv_tok[r] : recv_tok[r][i].from \in Rank \X Token
    BY <1>2, <1>3
  <2>4. x \in [Rank -> [Token -> SUBSET Token]]
    BY <1>2
  <2>5. layer \in [Rank -> 1 .. LAYERS]
    BY <1>1, <1>2
  <2> QED BY <1>2, <2>1, <2>2, <2>3, <2>4, <2>5 DEF MoeShapes
<1>5. \A r \in Rank : Calls(r) = 0
  BY <1>2, <1>3 DEF Calls
<1>6. History
  <2>1. \A l \in 1 .. LAYERS, k \in 1 .. 4 : ~(4 * (l - 1) + k <= 0)
    BY <1>1
  <2> QED BY <1>5, <2>1 DEF History
<1>7. ASSUME NEW r \in Rank PROVE Place(r) /\ Sums(r)
  <2>1. pc[r] = "attend" /\ layer[r] = 1 /\ Len(combined[r]) = 0 /\ Entered(pc[r]) = 0
    BY <1>2, <1>3 DEF Entered
  <2>2. \A n \in Token : x[r][n] = {n}
    BY <1>2
  <2> QED BY <1>5, <2>1, <2>2 DEF Place, Sums
<1> QED BY <1>4, <1>6, <1>7 DEF MoeInv

-----------------------------------------------------------------------------
(* The exchanges *)

\* A rank enters exchange number k of its block, from whichever place comes before it.
LEMMA ExchangeKeepsInv ==
  ASSUME MoeInv, script = "mha_moe_ep", NEW r \in Rank, NEW k \in 1 .. 4,
         Entered(pc[r]) = k - 1, pc[r] # "attend", Post(r, Segments(r, layer[r], k)),
         NEW place \in {"counts", "tokens", "experts", "back"},
         pc' = [pc EXCEPT ![r] = place], Entered(place) = k,
         UNCHANGED <<script, topk_i, layer, x, combined>>,
         IF k = 2 THEN recv_counts' = [recv_counts EXCEPT ![r] = Coming(r)] ELSE UNCHANGED recv_counts,
         IF k = 3 THEN recv_tok' = [recv_tok EXCEPT ![r] = Gathered(r, layer[r], 2)] ELSE UNCHANGED recv_tok
  PROVE  MoeInv'
<1>1. /\ MoeShapes /\ History /\ \A s \in Rank : Place(s) /\ Sums(s)
      /\ LAYERS \in Nat /\ layer[r] \in 1 .. LAYERS
  BY MoeAssumption DEF MoeInv, MoeShapes
<1>2. Calls(r) = 4 * (layer[r] - 1) + k - 1
  BY <1>1 DEF Place
<1>3. /\ History' /\ Calls(r)' = Calls(r) + 1
      /\ DOMAIN posted' = Rank /\ \A s \in Rank : Listed(posted'[s])
      /\ \A s \in Rank : s # r => posted'[s] = posted[s]
  BY <1>1, <1>2, PostKeepsHistory
<1>4. /\ \A s \in Rank : s # r => pc'[s] = pc[s] /\ recv_counts'[s] = recv_counts[s] /\ recv_tok'[s] = recv_tok[s]
      /\ pc'[r] = place /\ (k = 3 => recv_tok'[r] = Gathered(r, layer[r], 2))
      /\ (k # 1 => recv_counts'[r] = Coming(r))
  <2>1. /\ \A s \in Rank : s # r => pc'[s] = pc[s]
        /\ pc'[r] = place
    BY <1>1 DEF MoeShapes
  <2>2. /\ \A s \in Rank : s # r => recv_tok'[s] = recv_tok[s]
        /\ (k = 3 => recv_tok'[r] = Gathered(r, layer[r], 2))
    BY <1>1 DEF MoeShapes
  <2>3. \A s \in Rank : s # r => recv_counts'[s] = recv_counts[s]
    BY <1>1 DEF MoeShapes
  <2>4. k # 1 => recv_counts'[r] = Coming(r)
    <3>1. CASE k = 2
      BY <1>1, <3>1 DEF MoeShapes
    <3>2. CASE k \in {3, 4}
      <4>1. pc[r] \in {"tokens", "experts", "back"}
        BY <1>1, <3>2 DEF Entered, MoeShapes
      <4> QED BY <1>1, <3>2, <4>1 DEF Place
    <3> QED BY <3>1, <3>2
  <2> QED BY <2>1, <2>2, <2>3, <2>4
<1>5. MoeShapes'
  <2>1. pc' \in [Rank -> {"attend", "route", "counts", "tokens", "experts", "back", "done"}]
    <3>1. pc \in [Rank -> {"attend", "route", "counts", "tokens", "experts", "back", "done"}]
      BY <1>1 DEF MoeShapes
    <3> QED BY <3>1
  <2>2. recv_counts' \in [Rank -> [Rank -> 0 .. N * K]]
    <3>1. Coming(r) \in [Rank -> 0 .. N * K]
      <4>1. topk_i \in [Rank -> [1 .. LAYERS -> [Token -> TopK]]]
        BY <1>1 DEF MoeShapes
      <4>2. \A s \in Rank : Sent(s, layer[r], r) \in 0 .. N * K
        <5>1. PICK l \in 1 .. LAYERS : l = layer[r]
          BY <1>1
        <5>2. \A s \in Rank : Sent(s, l, r) \in 0 .. N * K
          BY <4>1, RoutedExperts
        <5> QED BY <5>1, <5>2
      <4> QED BY <4>2 DEF Coming
    <3>2. recv_counts \in [Rank -> [Rank -> 0 .. N * K]]
      BY <1>1 DEF MoeShapes
    <3>3. CASE k # 2
      BY <3>2, <3>3
    <3>4. CASE k = 2
      <4>1. recv_counts' = [recv_counts EXCEPT ![r] = Coming(r)]
        BY <3>4
      <4> QED BY <3>1, <3>2, <4>1
    <3> QED BY <3>3, <3>4
  <2>3. DOMAIN recv_tok' = Rank
    BY <1>1 DEF MoeShapes
  <2>4. ASSUME NEW s \in Rank
        PROVE  \A i \in DOMAIN recv_tok'[s] : recv_tok'[s][i].from \in Rank \X Token
    <3>1. CASE s = r /\ k = 3
      <4>1. recv_tok'[s] = Gathered(r, layer[r], 2)
        BY <1>4, <3>1
      <4> QED BY <1>1, <4>1, GatheredTokens DEF MoeShapes
    <3>2. CASE ~(s = r /\ k = 3)
      <4>1. recv_tok'[s] = recv_tok[s]
        BY <1>1, <1>4, <3>2
      <4> QED BY <1>1, <4>1 DEF MoeShapes
    <3> QED BY <3>1, <3>2
  <2>5. /\ topk_i' \in [Rank -> [1 .. LAYERS -> [Token -> TopK]]]
        /\ layer' \in [Rank -> 1 .. LAYERS] /\ x' \in [Rank -> [Token -> SUBSET Token]]
        /\ DOMAIN combined' = Rank /\ \A s \in Rank : Listed(combined'[s])
    BY <1>1 DEF MoeShapes
  <2>6. DOMAIN posted' = Rank /\ \A s \in Rank : Listed(posted'[s])
    BY <1>3
  <2> QED BY <2>1, <2>2, <2>3, <2>4, <2>5, <2>6 DEF MoeShapes
<1>6. Place(r)'
  <2>1. Calls(r)' = 4 * (layer'[r] - 1) + Entered(pc'[r])
    BY <1>1, <1>2, <1>3, <1>4
  <2>2. pc'[r] \in {"tokens", "experts", "back"} => k # 1
    BY <1>4 DEF Entered
  <2>3. pc'[r] = "experts" => k = 3
    BY <1>4 DEF Entered
  <2>4. Coming(r)' = Coming(r)
    <3>1. \A d, l : Sent(d, l, r)' = Sent(d, l, r)
      BY RoutesStay
    <3> QED BY <3>1 DEF Coming
  <2>5. Gathered(r, layer[r], 2)' = Gathered(r, layer[r], 2)
    <3>1. \A l : Gathered(r, l, 2)' = Gathered(r, l, 2)
      BY RoutesStay
    <3> QED BY <3>1
  <2>6. pc[r] # "done" /\ pc'[r] # "done" /\ pc'[r] # "attend"
    BY <1>4 DEF Entered
  <2>7. /\ Len(combined'[r]) = IF pc'[r] = "done" THEN layer'[r] ELSE layer'[r] - 1
        /\ \A n \in Token : x'[r][n] = IF layer'[r] = 1 /\ pc'[r] = "attend" THEN {n} ELSE Past(n)
    BY <1>1, <2>6 DEF Place
  <2> QED BY <1>4, <2>1, <2>2, <2>3, <2>4, <2>5, <2>7 DEF Place
<1>7. ASSUME NEW s \in Rank, s # r PROVE Place(s)' /\ Sums(s)'
  BY <1>1, <1>3, <1>4, <1>7, OthersStay
<1>8. Sums(r)'
  BY <1>1, SumsStay
<1> QED BY <1>3, <1>5, <1>6, <1>7, <1>8 DEF MoeInv

\* The steps of a rank that enter no exchange.
LEMMA QuietKeepsInv ==
  ASSUME MoeInv, script = "mha_moe_ep", NEW r \in Rank,
         UNCHANGED <<script, topk_i, posted, recv_counts, recv_tok>>,
         \A s \in Rank : s # r => pc'[s] = pc[s] /\ layer'[s] = layer[s] /\ x'[s] = x[s]
                                  /\ combined'[s] = combined[s],
         MoeShapes', Place(r)', Sums(r)'
  PROVE  MoeInv'
<1>1. History /\ \A s \in Rank : Place(s) /\ Sums(s)
  BY DEF MoeInv
<1>2. History'
  BY <1>1, HistoryStays
<1>3. ASSUME NEW s \in Rank, s # r PROVE Place(s)' /\ Sums(s)'
  BY <1>1, <1>3, OthersStay
<1> QED BY <1>2, <1>3 DEF MoeInv

\* The order a rank sorts its copies in, and the rows for a block.
LEMMA SortedRight ==
  ASSUME MoeShapes, NEW r \in Rank, NEW item, NEW buffer,
         \A j \in Copy : Order(r)[j] \in Copy => buffer[j] = item[Order(r)[j]]
  PROVE  Cut(buffer, Send_counts(r)) = PerRank(r, layer[r], item)
<1>0. PICK l \in 1 .. LAYERS : l = layer[r]
  BY DEF MoeShapes
<1>1. topk_i \in [Rank -> [1 .. LAYERS -> [Token -> TopK]]]
  BY DEF MoeShapes
<1>2. PICK dest : dest = Dests(r, l) /\ dest \in [Copy -> Rank]
  BY <1>1, RoutedExperts
<1>3. dest \in [Copy -> Int]
  <2>1. Rank \subseteq Int
    BY MoeAssumption DEF Rank
  <2> QED BY <1>2, <2>1
<1>4. (\A j \in Copy : Order(r)[j] = CopyAt(dest, j)) /\ Send_counts(r) = CountsOf(dest)
  BY <1>0, <1>2, SortOfModel
<1>5. \A j \in Copy : CopyAt(dest, j) \in Copy
  BY <1>3, SortedOnce
<1>6. \A j \in Copy : buffer[j] = item[CopyAt(dest, j)]
  BY <1>4, <1>5
<1>7. Cut(buffer, CountsOf(Dests(r, l))) = PerRank(r, l, item)
  BY <1>1, <1>2, <1>6, CutForRanks
<1> QED BY <1>0, <1>2, <1>4, <1>7

\* Step 6: the tokens a rank sends.
LEMMA TokensRight ==
  ASSUME MoeShapes, NEW r \in Rank, Place(r), pc[r] = "counts"
  PROVE  Cut([j \in Copy |-> Base_tok(r, Order(r)[j])], Send_counts(r)) = Segments(r, layer[r], 2)
<1>1. PICK item : item = [p \in Copy |-> Row_of(r, p)]
  OBVIOUS
<1>2. PICK buffer : buffer = [j \in Copy |-> Base_tok(r, Order(r)[j])]
  OBVIOUS
<1>3. ASSUME NEW p \in Copy PROVE Base_tok(r, p) = item[p]
  <2>1. TokenOf(p) \in Token
    BY CopyOfToken
  <2>2. x[r][TokenOf(p)] = Past(TokenOf(p))
    BY <2>1 DEF Place
  <2> QED BY <1>1, <2>2 DEF Base_tok, Row_of
<1>4. \A j \in Copy : Order(r)[j] \in Copy => buffer[j] = item[Order(r)[j]]
  BY <1>2, <1>3
<1>5. Cut(buffer, Send_counts(r)) = PerRank(r, layer[r], item)
  BY <1>4, SortedRight
<1>6. \A d \in Rank : \A i \in 1 .. Sent(r, layer[r], d) : Carried(r, layer[r], d, i) \in Copy
  BY CutForRanks DEF MoeShapes
<1>7. \A d \in Rank : Segment(r, layer[r], 2, d) =
        [i \in 1 .. Sent(r, layer[r], d) |-> item[Carried(r, layer[r], d, i)]]
  BY <1>1, <1>6 DEF Segment
<1> QED BY <1>2, <1>5, <1>7 DEF Segments, PerRank

\* ... and their local expert numbers.
LEMMA ExpertsRight ==
  ASSUME MoeShapes, NEW r \in Rank
  PROVE  Cut([j \in Copy |-> Local_expert(r, Order(r)[j])], Send_counts(r)) = Segments(r, layer[r], 3)
<1>1. PICK item : item = [p \in Copy |-> Routed(r, layer[r], p) % E_local]
  OBVIOUS
<1>2. PICK buffer : buffer = [j \in Copy |-> Local_expert(r, Order(r)[j])]
  OBVIOUS
<1>3. ASSUME NEW p \in Copy PROVE Local_expert(r, p) = item[p]
  BY <1>1 DEF Local_expert, Expert, Routed
<1>4. \A j \in Copy : Order(r)[j] \in Copy => buffer[j] = item[Order(r)[j]]
  BY <1>2, <1>3
<1>5. Cut(buffer, Send_counts(r)) = PerRank(r, layer[r], item)
  BY <1>4, SortedRight
<1>6. \A d \in Rank : \A i \in 1 .. Sent(r, layer[r], d) : Carried(r, layer[r], d, i) \in Copy
  BY CutForRanks DEF MoeShapes
<1>7. \A d \in Rank : Segment(r, layer[r], 3, d) =
        [i \in 1 .. Sent(r, layer[r], d) |-> item[Carried(r, layer[r], d, i)]]
  BY <1>1, <1>6 DEF Segment
<1> QED BY <1>2, <1>5, <1>7 DEF Segments, PerRank

\* Steps 7 and 8: the results, computed in place, go back the way the rows came.
LEMMA ResultsRight ==
  ASSUME MoeShapes, History, NEW r \in Rank, Place(r), pc[r] = "experts", AllPosted(r),
         NEW recv_out, recv_out = [i \in DOMAIN Received(r) |-> Output(r, Received(r)[i], recv_tok[r][i])]
  PROVE  Cut(recv_out, recv_counts[r]) = Segments(r, layer[r], 4)
<1>1. PICK l \in 1 .. LAYERS : l = layer[r]
  BY DEF MoeShapes
<1>2. topk_i \in [Rank -> [1 .. LAYERS -> [Token -> TopK]]]
  BY DEF MoeShapes
<1>3. PICK lens : lens = [s \in Rank |-> Sent(s, l, r)]
  OBVIOUS
<1>4. Lengths(r, l, 2) = lens /\ Lengths(r, l, 3) = lens /\ Coming(r) = lens
  BY <1>1, <1>3 DEF Lengths, Coming
<1>5. PICK tokens, experts : tokens = Gathered(r, l, 2) /\ experts = Gathered(r, l, 3)
  OBVIOUS
<1>6. Together(tokens, lens, r, l, 2) /\ Together(experts, lens, r, l, 3)
  BY <1>2, <1>4, <1>5, GatheredJoins, 2 \in 2 .. 4, 3 \in 2 .. 4
<1>7. recv_counts[r] = lens /\ recv_tok[r] = tokens
  BY <1>1, <1>4, <1>5 DEF Place
<1>8. Received(r) = experts
  <2>1. Entered(pc[r]) = 3 /\ 3 \in 1 .. 4
    BY DEF Entered
  <2>2. Received(r) = Gathered(r, layer[r], 3)
    BY <2>1, ReceivedRight
  <2> QED BY <1>1, <1>5, <2>2
<1>9. recv_out = [i \in DOMAIN experts |-> Output(r, experts[i], tokens[i])]
  BY <1>7, <1>8
<1>10. DOMAIN experts = 1 .. Before(lens, W)
  BY <1>6 DEF Together, Listed
<1>11. ASSUME NEW s \in Rank, NEW i \in 1 .. lens[s]
       PROVE  recv_out[Before(lens, s) + i] =
                Output(r, Routed(s, l, Carried(s, l, r, i)) % E_local, Row_of(s, Carried(s, l, r, i)))
  <2>1. /\ Before(lens, s) + i \in 1 .. Before(lens, W)
        /\ experts[Before(lens, s) + i] = Segment(s, l, 3, r)[i]
    BY <1>6 DEF Together
  <2>2. tokens[Before(lens, s) + i] = Segment(s, l, 2, r)[i]
    BY <1>6 DEF Together
  <2>3. i \in 1 .. Sent(s, l, r)
    BY <1>3
  <2>4. Segment(s, l, 3, r)[i] = Routed(s, l, Carried(s, l, r, i)) % E_local
    BY <2>3 DEF Segment
  <2>5. Segment(s, l, 2, r)[i] = Row_of(s, Carried(s, l, r, i))
    BY <2>3 DEF Segment
  <2> QED BY <1>9, <1>10, <2>1, <2>2, <2>4, <2>5
<1>12. ASSUME NEW s \in Rank
       PROVE  [i \in 1 .. lens[s] |-> recv_out[Before(lens, s) + i]] = Segment(r, l, 4, s)
  <2>1. lens[s] = Sent(s, l, r)
    BY <1>3
  <2>2. Segment(r, l, 4, s) =
          [i \in 1 .. Sent(s, l, r) |->
             Output(r, Routed(s, l, Carried(s, l, r, i)) % E_local, Row_of(s, Carried(s, l, r, i)))]
    BY DEF Segment
  <2> QED BY <1>11, <2>1, <2>2
<1>13. Cut(recv_out, lens) = Segments(r, l, 4)
  BY <1>12 DEF Cut, Segments
<1> QED BY <1>1, <1>7, <1>13

\* Step 9: the results, put back in the order before the sort.
LEMMA OrderedRight ==
  ASSUME MoeShapes, History, NEW r \in Rank, Place(r), pc[r] = "back", AllPosted(r), NEW p \in Copy
  PROVE  Received(r)[PlaceInOrder(r, p)] =
           Output(Dests(r, layer[r])[p], Routed(r, layer[r], p) % E_local, Row_of(r, p))
<1>1. PICK l \in 1 .. LAYERS : l = layer[r]
  BY DEF MoeShapes
<1>2. topk_i \in [Rank -> [1 .. LAYERS -> [Token -> TopK]]]
  BY DEF MoeShapes
<1>3. PICK dest : dest = Dests(r, l) /\ dest \in [Copy -> Rank]
  BY <1>2, RoutedExperts
<1>4. dest \in [Copy -> Int]
  <2>1. Rank \subseteq Int
    BY MoeAssumption DEF Rank
  <2> QED BY <1>3, <2>1
<1>5. PICK lens : lens = CountsOf(dest)
  OBVIOUS
<1>6. \A s \in Rank : lens[s] = Sent(r, l, s)
  BY <1>3, <1>5 DEF Sent
<1>7. Lengths(r, l, 4) = lens
  <2>1. lens = [s \in Rank |-> lens[s]]
    BY <1>5 DEF CountsOf
  <2> QED BY <1>6, <2>1 DEF Lengths
<1>8. PICK results : results = Gathered(r, l, 4)
  OBVIOUS
<1>9. Together(results, lens, r, l, 4)
  BY <1>2, <1>7, <1>8, GatheredJoins, 4 \in 2 .. 4
<1>10. Received(r) = results
  <2>1. Entered(pc[r]) = 4 /\ 4 \in 1 .. 4
    BY DEF Entered
  <2>2. Received(r) = Gathered(r, layer[r], 4)
    BY <2>1, ReceivedRight
  <2> QED BY <1>1, <1>8, <2>2
<1>11. PlaceInOrder(r, p) = PlaceOf(dest, p)
  BY <1>1, <1>3, SortOfModel
<1>12. PICK i \in 1 .. lens[dest[p]] : PlaceOf(dest, p) = Before(lens, dest[p]) + i
  BY <1>3, <1>5, SortedCut
<1>13. Carried(r, l, dest[p], i) = p
  <2>1. CopyAt(dest, PlaceOf(dest, p)) = p
    BY <1>4, SortedOnce
  <2> QED BY <1>3, <1>5, <1>12, <2>1 DEF Carried
<1>14. dest[p] \in Rank /\ i \in 1 .. Sent(r, l, dest[p])
  BY <1>3, <1>6
<1>15. results[PlaceOf(dest, p)] = Segment(dest[p], l, 4, r)[i]
  BY <1>9, <1>12, <1>14 DEF Together
<1>16. Segment(dest[p], l, 4, r) =
         [j \in 1 .. Sent(r, l, dest[p]) |->
            Output(dest[p], Routed(r, l, Carried(r, l, dest[p], j)) % E_local, Row_of(r, Carried(r, l, dest[p], j)))]
  BY DEF Segment
<1>17. results[PlaceOf(dest, p)] = Output(dest[p], Routed(r, l, p) % E_local, Row_of(r, p))
  BY <1>13, <1>14, <1>15, <1>16
<1> QED BY <1>1, <1>3, <1>10, <1>11, <1>17

-----------------------------------------------------------------------------
(* The end of a block *)

\* The rank that leaves a block has gone through all its exchanges and goes on to the next
\* block, or is done.
LEMMA CombineKeepsInv ==
  ASSUME MoeInv, script = "mha_moe_ep", NEW r \in Rank, Combine(r), UNCHANGED script
  PROVE  MoeInv'
<1>1. /\ MoeShapes /\ History /\ Place(r) /\ Sums(r)
      /\ LAYERS \in Nat /\ layer[r] \in 1 .. LAYERS
  BY MoeAssumption DEF MoeInv, MoeShapes
<1>2. PICK l \in 1 .. LAYERS : l = layer[r]
  BY <1>1
<1>3. PICK ordered : ordered = [p \in Copy |-> Received(r)[PlaceInOrder(r, p)]]
  OBVIOUS
<1>4. /\ pc[r] = "back" /\ AllPosted(r) /\ LeaveBlock(r)
      /\ UNCHANGED <<topk_i, posted, recv_counts, recv_tok>>
      /\ combined' = [combined EXCEPT ![r] = Append(combined[r], ordered)]
      /\ x' = [x EXCEPT ![r] = [n \in Token |->
                 x[r][n] \cup UNION {ordered[p].row.value : p \in {q \in Copy : TokenOf(q) = n}}]]
  BY <1>3 DEF Combine, buffers
<1>5. ordered = [p \in Copy |-> Output(Dests(r, l)[p], Routed(r, l, p) % E_local, Row_of(r, p))]
  <2>1. \A p \in Copy : Received(r)[PlaceInOrder(r, p)] =
          Output(Dests(r, l)[p], Routed(r, l, p) % E_local, Row_of(r, p))
    BY <1>1, <1>2, <1>4, OrderedRight
  <2> QED BY <1>3, <2>1
<1>6. ASSUME NEW n \in Token
      PROVE  x[r][n] \cup UNION {ordered[p].row.value : p \in {q \in Copy : TokenOf(q) = n}} = Past(n)
  <2>1. x[r][n] = Past(n)
    BY <1>1, <1>4 DEF Place
  <2>2. \A p \in Copy : ordered[p].row.value = Past(TokenOf(p))
    BY <1>5 DEF Output, Row_of
  <2> QED BY <2>1, <2>2
<1>7. /\ x' \in [Rank -> [Token -> SUBSET Token]]
      /\ \A n \in Token : x'[r][n] = Past(n)
      /\ \A s \in Rank : s # r => x'[s] = x[s]
  <2>1. x \in [Rank -> [Token -> SUBSET Token]]
    BY <1>1 DEF MoeShapes
  <2>2. x' = [x EXCEPT ![r] = [n \in Token |-> Past(n)]]
    BY <1>4, <1>6
  <2>3. \A n \in Token : Past(n) \subseteq Token
    BY DEF Past
  <2> QED BY <2>1, <2>2, <2>3
<1>8. /\ DOMAIN combined' = Rank /\ \A s \in Rank : Listed(combined'[s])
      /\ \A s \in Rank : s # r => combined'[s] = combined[s]
      /\ Len(combined'[r]) = layer[r]
      /\ combined'[r][layer[r]] = ordered
      /\ \A i \in 1 .. layer[r] - 1 : combined'[r][i] = combined[r][i]
  <2>1. DOMAIN combined = Rank /\ \A s \in Rank : Listed(combined[s])
    BY <1>1 DEF MoeShapes
  <2>2. combined'[r] = Append(combined[r], ordered) /\ \A s \in Rank : s # r => combined'[s] = combined[s]
    BY <1>4, <2>1
  <2>3. Len(combined[r]) = layer[r] - 1
    BY <1>1, <1>4 DEF Place
  <2>4. /\ Listed(combined'[r]) /\ Len(combined'[r]) = Len(combined[r]) + 1
        /\ \A i \in 1 .. Len(combined[r]) : combined'[r][i] = combined[r][i]
        /\ combined'[r][Len(combined[r]) + 1] = ordered
    BY <2>1, <2>2, Appended
  <2>5. DOMAIN combined' = Rank
    BY <1>4, <2>1
  <2>6. Len(combined[r]) + 1 = layer[r]
    BY <1>1, <2>3
  <2>7. \A s \in Rank : Listed(combined'[s])
    BY <2>1, <2>2, <2>4
  <2> QED BY <2>2, <2>3, <2>4, <2>5, <2>6, <2>7
<1>9. Sums(r)'
  <2>1. \A m, p : Routed(r, m, p)' = Routed(r, m, p)
    BY <1>4, RoutesStay
  <2>2. \A m : Dests(r, m)' = Dests(r, m)
    BY <1>4, RoutesStay
  <2>3. ASSUME NEW m \in 1 .. Len(combined'[r])
        PROVE  combined'[r][m] = [p \in Copy |-> Output(Dests(r, m)[p], Routed(r, m, p) % E_local, Row_of(r, p))]
    <3>1. m \in 1 .. layer[r]
      BY <1>8
    <3>2. CASE m = layer[r]
      BY <1>2, <1>5, <1>8, <3>2
    <3>3. CASE m # layer[r]
      <4>1. m \in 1 .. layer[r] - 1
        BY <1>1, <3>1, <3>3
      <4>2. combined'[r][m] = combined[r][m]
        BY <1>8, <4>1
      <4>3. m \in 1 .. Len(combined[r])
        BY <1>1, <1>4, <4>1 DEF Place
      <4> QED BY <1>1, <4>2, <4>3 DEF Sums
    <3> QED BY <3>2, <3>3
  <2> QED BY <2>1, <2>2, <2>3 DEF Sums, Row_of
<1>10. /\ pc' \in [Rank -> {"attend", "route", "counts", "tokens", "experts", "back", "done"}]
       /\ layer' \in [Rank -> 1 .. LAYERS]
       /\ \A s \in Rank : s # r => pc'[s] = pc[s] /\ layer'[s] = layer[s]
       /\ 4 * (layer'[r] - 1) + Entered(pc'[r]) = 4 * (layer[r] - 1) + 4
       /\ pc'[r] \in {"attend", "done"} /\ (pc'[r] = "attend" => layer'[r] # 1)
       /\ layer[r] = IF pc'[r] = "done" THEN layer'[r] ELSE layer'[r] - 1
  <2>0. /\ pc \in [Rank -> {"attend", "route", "counts", "tokens", "experts", "back", "done"}]
        /\ layer \in [Rank -> 1 .. LAYERS]
    BY <1>1 DEF MoeShapes
  <2>1. CASE layer[r] < LAYERS
    <3>1. pc' = [pc EXCEPT ![r] = "attend"] /\ layer' = [layer EXCEPT ![r] = layer[r] + 1]
      BY <1>4, <2>1 DEF LeaveBlock
    <3>2. pc'[r] = "attend" /\ layer'[r] = layer[r] + 1 /\ Entered(pc'[r]) = 0
      BY <2>0, <3>1 DEF Entered
    <3>3. layer[r] + 1 \in 1 .. LAYERS /\ layer[r] + 1 # 1
      BY <1>1, <2>1
    <3> QED BY <1>1, <2>0, <3>1, <3>2, <3>3
  <2>2. CASE ~(layer[r] < LAYERS)
    <3>1. pc' = [pc EXCEPT ![r] = "done"] /\ layer' = layer
      BY <1>4, <2>2 DEF LeaveBlock
    <3>2. pc'[r] = "done" /\ Entered(pc'[r]) = 4
      BY <2>0, <3>1 DEF Entered
    <3> QED BY <2>0, <3>1, <3>2
  <2> QED BY <2>1, <2>2
<1>11. MoeShapes'
  BY <1>1, <1>4, <1>7, <1>8, <1>10 DEF MoeShapes, Listed
<1>12. Place(r)'
  <2>1. Calls(r)' = 4 * (layer'[r] - 1) + Entered(pc'[r])
    <3>1. Calls(r) = 4 * (layer[r] - 1) + 4
      BY <1>1, <1>4 DEF Place, Entered
    <3> QED BY <1>4, <1>10, <3>1 DEF Calls
  <2>2. Len(combined'[r]) = IF pc'[r] = "done" THEN layer'[r] ELSE layer'[r] - 1
    BY <1>8, <1>10
  <2>3. \A n \in Token : x'[r][n] = IF layer'[r] = 1 /\ pc'[r] = "attend" THEN {n} ELSE Past(n)
    BY <1>7, <1>10
  <2>4. pc'[r] \notin {"tokens", "experts", "back"}
    BY <1>10
  <2> QED BY <2>1, <2>2, <2>3, <2>4 DEF Place
<1>13. \A s \in Rank : s # r => pc'[s] = pc[s] /\ layer'[s] = layer[s] /\ x'[s] = x[s] /\ combined'[s] = combined[s]
  BY <1>7, <1>8, <1>10
<1> QED BY <1>4, <1>9, <1>11, <1>12, <1>13, QuietKeepsInv

LEMMA AttendKeepsInv ==
  ASSUME MoeInv, script = "mha_moe_ep", NEW r \in Rank, Attend(r)
  PROVE  MoeInv'
<1>1. MoeShapes /\ Place(r) /\ Sums(r)
  BY DEF MoeInv
<1>2. /\ pc[r] = "attend" /\ pc' = [pc EXCEPT ![r] = "route"]
      /\ x' = [x EXCEPT ![r] = [n \in Token |-> x[r][n] \cup Attention(x[r])[n]]]
      /\ UNCHANGED <<script, topk_i, layer, posted, recv_counts, recv_tok, combined>>
  BY DEF Attend, buffers
<1>3. /\ x \in [Rank -> [Token -> SUBSET Token]]
      /\ pc \in [Rank -> {"attend", "route", "counts", "tokens", "experts", "back", "done"}]
  BY <1>1 DEF MoeShapes
<1>4. ASSUME NEW n \in Token PROVE x[r][n] \cup Attention(x[r])[n] = Past(n)
  <2>1. PICK a : a = x[r]
    OBVIOUS
  <2>2. a \in [Token -> SUBSET Token]
    BY <1>3, <2>1
  <2>3. (\A m \in Token : a[m] = {m}) \/ (\A m \in Token : a[m] = Past(m))
    BY <1>1, <1>2, <2>1 DEF Place
  <2>4. a[n] \cup Attention(a)[n] = Past(n)
    BY <2>2, <2>3, ResidualOfPast
  <2> QED BY <2>1, <2>4
<1>5. x' = [x EXCEPT ![r] = [n \in Token |-> Past(n)]]
  BY <1>2, <1>4
<1>6. \A n \in Token : Past(n) \subseteq Token
  BY DEF Past
<1>7. /\ x' \in [Rank -> [Token -> SUBSET Token]] /\ \A n \in Token : x'[r][n] = Past(n)
      /\ \A s \in Rank : s # r => x'[s] = x[s]
  BY <1>3, <1>5, <1>6
<1>8. /\ pc' \in [Rank -> {"attend", "route", "counts", "tokens", "experts", "back", "done"}]
      /\ pc'[r] = "route" /\ \A s \in Rank : s # r => pc'[s] = pc[s]
  BY <1>2, <1>3
<1>9. MoeShapes'
  BY <1>1, <1>2, <1>7, <1>8 DEF MoeShapes, Listed
<1>10. Sums(r)'
  BY <1>1, <1>2, SumsStay
<1>11. Place(r)'
  <2>1. Entered(pc[r]) = 0 /\ Entered(pc'[r]) = 0
    BY <1>2, <1>8 DEF Entered
  <2>2. Calls(r)' = 4 * (layer'[r] - 1) + Entered(pc'[r])
    BY <1>1, <1>2, <2>1 DEF Place, Calls
  <2>3. /\ Len(combined'[r]) = IF pc'[r] = "done" THEN layer'[r] ELSE layer'[r] - 1
        /\ \A n \in Token : x'[r][n] = IF layer'[r] = 1 /\ pc'[r] = "attend" THEN {n} ELSE Past(n)
    BY <1>1, <1>2, <1>7, <1>8 DEF Place
  <2> QED BY <1>8, <2>2, <2>3 DEF Place
<1>12. \A s \in Rank : s # r => pc'[s] = pc[s] /\ layer'[s] = layer[s] /\ x'[s] = x[s] /\ combined'[s] = combined[s]
  BY <1>2, <1>7, <1>8
<1> QED BY <1>2, <1>9, <1>10, <1>11, <1>12, QuietKeepsInv

LEMMA MoeStep == MoeInv /\ [Next]_vars => MoeInv'
<1> SUFFICES ASSUME MoeInv, [Next]_vars, script' = "mha_moe_ep" PROVE MoeInv'
  BY DEF MoeInv
<1>0. script = "mha_moe_ep"
  BY DEF Next, RankStep, Attend, DenseFFN, Exchange, vars
<1>1. /\ MoeShapes /\ History
      /\ \A r \in Rank : Place(r) /\ Sums(r) /\ pc[r] # "ffn"
      /\ pc \in [Rank -> {"attend", "route", "counts", "tokens", "experts", "back", "done"}]
      /\ DOMAIN recv_tok = Rank /\ recv_counts \in [Rank -> [Rank -> 0 .. N * K]]
  BY <1>0 DEF MoeInv, MoeShapes
<1>3. ASSUME NEW r \in Rank, Attend(r) PROVE MoeInv'
  BY <1>0, <1>3, AttendKeepsInv
<1>4. ASSUME NEW r \in Rank, Route(r), UNCHANGED script PROVE MoeInv'
  <2>1. /\ pc[r] = "route" /\ Post(r, [s \in Rank |-> <<Send_counts(r)[s]>>])
        /\ pc' = [pc EXCEPT ![r] = "counts"]
        /\ UNCHANGED <<script, topk_i, x, layer, recv_counts, recv_tok, combined>>
    BY <1>4 DEF Route, buffers
  <2>2. [s \in Rank |-> <<Send_counts(r)[s]>>] = Segments(r, layer[r], 1)
    <3>1. PICK dest : dest = Dests(r, layer[r])
      OBVIOUS
    <3>2. Send_counts(r) = CountsOf(dest)
      BY <3>1, SortOfModel
    <3> QED BY <3>1, <3>2 DEF Segments, Segment, Sent
  <2>3. pc[r] # "attend" /\ Entered(pc[r]) = 1 - 1 /\ Entered("counts") = 1 /\ 1 \in 1 .. 4
    BY <2>1 DEF Entered
  <2>4. /\ IF 1 = 2 THEN recv_counts' = [recv_counts EXCEPT ![r] = Coming(r)] ELSE UNCHANGED recv_counts
        /\ IF 1 = 3 THEN recv_tok' = [recv_tok EXCEPT ![r] = Gathered(r, layer[r], 2)] ELSE UNCHANGED recv_tok
    BY <2>1
  <2>5. Post(r, Segments(r, layer[r], 1))
    BY <2>1, <2>2
  <2> QED BY <1>0, <2>1, <2>3, <2>4, <2>5, ExchangeKeepsInv
<1>5. ASSUME NEW r \in Rank, SendTokens(r), UNCHANGED script PROVE MoeInv'
  <2>1. /\ pc[r] = "counts" /\ AllPosted(r)
        /\ Post(r, Cut([j \in Copy |-> Base_tok(r, Order(r)[j])], Send_counts(r)))
        /\ pc' = [pc EXCEPT ![r] = "tokens"]
        /\ recv_counts' = [recv_counts EXCEPT ![r] = ReceivedCounts(r)]
        /\ UNCHANGED <<script, topk_i, x, layer, recv_tok, combined>>
    BY <1>5 DEF SendTokens
  <2>2. pc[r] # "attend" /\ Entered(pc[r]) = 2 - 1 /\ Entered("tokens") = 2 /\ 2 \in 1 .. 4
    BY <2>1 DEF Entered
  <2>3. ReceivedCounts(r) = Coming(r)
    <3>1. Entered(pc[r]) = 1 /\ 1 \in 1 .. 4
      BY <2>1 DEF Entered
    <3>2. \A s \in Rank : posted[s][Calls(r)] = Segments(s, layer[r], 1)
      BY <1>1, <2>1, <3>1, ReceivedRight
    <3>3. \A s \in Rank : posted[s][Calls(r)][r] = <<Sent(s, layer[r], r)>>
      BY <3>2 DEF Segments, Segment
    <3> QED BY <3>3 DEF ReceivedCounts, Coming
  <2>4. /\ IF 2 = 2 THEN recv_counts' = [recv_counts EXCEPT ![r] = Coming(r)] ELSE UNCHANGED recv_counts
        /\ IF 2 = 3 THEN recv_tok' = [recv_tok EXCEPT ![r] = Gathered(r, layer[r], 2)] ELSE UNCHANGED recv_tok
    BY <2>1, <2>3
  <2>5. Post(r, Segments(r, layer[r], 2))
    BY <1>1, <2>1, TokensRight
  <2> QED BY <1>0, <2>1, <2>2, <2>4, <2>5, ExchangeKeepsInv
<1>6. ASSUME NEW r \in Rank, SendExperts(r), UNCHANGED script PROVE MoeInv'
  <2>1. /\ pc[r] = "tokens" /\ AllPosted(r)
        /\ Post(r, Cut([j \in Copy |-> Local_expert(r, Order(r)[j])], Send_counts(r)))
        /\ pc' = [pc EXCEPT ![r] = "experts"]
        /\ recv_tok' = [recv_tok EXCEPT ![r] = Received(r)]
        /\ UNCHANGED <<script, topk_i, x, layer, recv_counts, combined>>
    BY <1>6 DEF SendExperts
  <2>2. pc[r] # "attend" /\ Entered(pc[r]) = 3 - 1 /\ Entered("experts") = 3 /\ 3 \in 1 .. 4
    BY <2>1 DEF Entered
  <2>3. Received(r) = Gathered(r, layer[r], 2)
    <3>1. Entered(pc[r]) = 2 /\ 2 \in 1 .. 4
      BY <2>1 DEF Entered
    <3> QED BY <1>1, <2>1, <3>1, ReceivedRight
  <2>4. /\ IF 3 = 2 THEN recv_counts' = [recv_counts EXCEPT ![r] = Coming(r)] ELSE UNCHANGED recv_counts
        /\ IF 3 = 3 THEN recv_tok' = [recv_tok EXCEPT ![r] = Gathered(r, layer[r], 2)] ELSE UNCHANGED recv_tok
    BY <2>1, <2>3
  <2>5. Post(r, Segments(r, layer[r], 3))
    BY <1>1, <2>1, ExpertsRight
  <2> QED BY <1>0, <2>1, <2>2, <2>4, <2>5, ExchangeKeepsInv
<1>7. ASSUME NEW r \in Rank, SendBack(r), UNCHANGED script PROVE MoeInv'
  <2>0. PICK recv_out : recv_out = [i \in DOMAIN Received(r) |-> Output(r, Received(r)[i], recv_tok[r][i])]
    OBVIOUS
  <2>1. /\ pc[r] = "experts" /\ AllPosted(r) /\ Post(r, Cut(recv_out, recv_counts[r]))
        /\ pc' = [pc EXCEPT ![r] = "back"]
        /\ UNCHANGED <<script, topk_i, x, layer, recv_counts, recv_tok, combined>>
    BY <1>7, <2>0 DEF SendBack, buffers
  <2>2. pc[r] # "attend" /\ Entered(pc[r]) = 4 - 1 /\ Entered("back") = 4 /\ 4 \in 1 .. 4
    BY <2>1 DEF Entered
  <2>3. /\ IF 4 = 2 THEN recv_counts' = [recv_counts EXCEPT ![r] = Coming(r)] ELSE UNCHANGED recv_counts
        /\ IF 4 = 3 THEN recv_tok' = [recv_tok EXCEPT ![r] = Gathered(r, layer[r], 2)] ELSE UNCHANGED recv_tok
    BY <2>1
  <2>4. Post(r, Segments(r, layer[r], 4))
    BY <1>1, <2>0, <2>1, ResultsRight
  <2> QED BY <1>0, <2>1, <2>2, <2>3, <2>4, ExchangeKeepsInv
<1>8. ASSUME NEW r \in Rank, Combine(r), UNCHANGED script PROVE MoeInv'
  BY <1>0, <1>8, CombineKeepsInv
<1>9. CASE UNCHANGED vars
  <2>1. \A s \in Rank : Place(s)' /\ Sums(s)'
    BY <1>1, <1>9, OthersStay DEF vars, buffers
  <2>2. History'
    BY <1>1, <1>9, HistoryStays DEF vars
  <2>3. MoeShapes'
    BY <1>1, <1>9 DEF vars, buffers, MoeShapes, Listed
  <2> QED BY <2>1, <2>2, <2>3 DEF MoeInv
<1>10. ASSUME NEW r \in Rank, DenseFFN(r) PROVE FALSE
  BY <1>1, <1>10 DEF DenseFFN
<1> QED BY <1>3, <1>4, <1>5, <1>6, <1>7, <1>8, <1>9, <1>10 DEF Next, RankStep, Exchange

-----------------------------------------------------------------------------
(* The theorems *)

\* The script is one of the two.
Known == script \in {"mha_ffn", "mha_moe_ep"}

LEMMA KnownAlways == (Init => Known) /\ (Known /\ [Next]_vars => Known')
BY DEF Init, Known, Next, RankStep, Attend, DenseFFN, Exchange, vars

\* Exchange number k of block l, and every call of a rank is one of them.
LEMMA CallOfBlock ==
  ASSUME NEW n \in Nat, n \in 1 .. 4 * LAYERS
  PROVE  \E l \in 1 .. LAYERS, k \in 1 .. 4 : n = 4 * (l - 1) + k
<1>1. LAYERS \in Nat \ {0} /\ n - 1 \in Nat
  BY MoeAssumption
<1>2. PICK q, s : q = (n - 1) \div 4 /\ s = (n - 1) % 4
  OBVIOUS
<1>3. s \in 0 .. 3 /\ q \in Nat /\ n - 1 = 4 * q + s
  BY <1>1, <1>2, DivMod
<1>4. q + 1 \in 1 .. LAYERS /\ s + 1 \in 1 .. 4 /\ n = 4 * ((q + 1) - 1) + (s + 1)
  BY <1>1, <1>3
<1> QED BY <1>4

\* Every variable keeps its shape, in both scripts.
THEOREM TypeAlwaysOK == Spec => []TypeOK
<1>1. MoeInv /\ script = "mha_moe_ep" => TypeOK
  <2> SUFFICES ASSUME MoeInv, script = "mha_moe_ep" PROVE TypeOK
    OBVIOUS
  <2>1. /\ MoeShapes /\ History /\ \A r \in Rank : Place(r) /\ Sums(r)
        /\ LAYERS \in Nat \ {0}
    BY MoeAssumption DEF MoeInv
  <2>2. pc \in [Rank -> {"attend", "ffn", "route", "counts", "tokens", "experts", "back", "done"}]
    <3>1. pc \in [Rank -> {"attend", "route", "counts", "tokens", "experts", "back", "done"}]
      BY <2>1 DEF MoeShapes
    <3> QED BY <3>1
  <2>3. ASSUME NEW r \in Rank
        PROVE  /\ Calls(r) <= 4 * LAYERS /\ Calls(r) \in Nat
               /\ \A n \in 1 .. Calls(r) : DOMAIN posted[r][n] = Rank
    <3>1. layer[r] \in 1 .. LAYERS /\ Entered(pc[r]) \in 0 .. 4 /\ Calls(r) \in Nat
      BY <2>1 DEF MoeShapes, Entered, Calls, Listed
    <3>2. Calls(r) = 4 * (layer[r] - 1) + Entered(pc[r])
      BY <2>1 DEF Place
    <3>3. Calls(r) <= 4 * LAYERS
      BY <2>1, <3>1, <3>2
    <3>4. ASSUME NEW n \in 1 .. Calls(r) PROVE DOMAIN posted[r][n] = Rank
      <4>1. n \in Nat /\ n \in 1 .. 4 * LAYERS /\ n <= Calls(r)
        BY <2>1, <3>1, <3>3
      <4>2. PICK l \in 1 .. LAYERS : \E k \in 1 .. 4 : n = 4 * (l - 1) + k
        BY <4>1, CallOfBlock
      <4>3. PICK k \in 1 .. 4 : n = 4 * (l - 1) + k
        BY <4>2
      <4>4. posted[r][n] = Segments(r, l, k)
        BY <2>1, <4>1, <4>3 DEF History
      <4> QED BY <4>4 DEF Segments
    <3> QED BY <3>1, <3>3, <3>4
  <2>4. ASSUME NEW r \in Rank, NEW l \in DOMAIN combined[r], NEW p \in Copy
        PROVE  combined[r][l][p].expert \in Rank \X (0 .. E_local - 1)
    <3>1. l \in 1 .. Len(combined[r]) /\ Len(combined[r]) \in 0 .. LAYERS
      <4>1. Listed(combined[r]) /\ layer[r] \in 1 .. LAYERS
        BY <2>1 DEF MoeShapes
      <4>2. Len(combined[r]) = IF pc[r] = "done" THEN layer[r] ELSE layer[r] - 1
        BY <2>1 DEF Place
      <4> QED BY <2>1, <4>1, <4>2 DEF Listed
    <3>2. l \in 1 .. LAYERS
      BY <2>1, <3>1
    <3>3. combined[r][l][p] = Output(Dests(r, l)[p], Routed(r, l, p) % E_local, Row_of(r, p))
      BY <2>1, <3>1 DEF Sums
    <3>4. Dests(r, l)[p] \in Rank /\ Routed(r, l, p) % E_local \in 0 .. E_local - 1
      <4>1. topk_i \in [Rank -> [1 .. LAYERS -> [Token -> TopK]]]
        BY <2>1 DEF MoeShapes
      <4>2. Dests(r, l) \in [Copy -> Rank] /\ \A q \in Copy : Routed(r, l, q) % E_local \in 0 .. E_local - 1
        BY <3>2, <4>1, RoutedExperts
      <4> QED BY <4>2
    <3> QED BY <3>3, <3>4 DEF Output
  <2> QED BY <2>1, <2>2, <2>3, <2>4 DEF TypeOK, MoeShapes
<1>2. DenseInv /\ script = "mha_ffn" => TypeOK
  <2> SUFFICES ASSUME DenseInv, script = "mha_ffn" PROVE TypeOK
    OBVIOUS
  <2>1. /\ x \in [Rank -> [Token -> SUBSET Token]]
        /\ pc \in [Rank -> {"attend", "ffn", "done"}]
        /\ layer \in [Rank -> 1 .. LAYERS] /\ Unused
        /\ LAYERS \in Nat \ {0}
    BY MoeAssumption DEF DenseInv
  <2>2. pc \in [Rank -> {"attend", "ffn", "route", "counts", "tokens", "experts", "back", "done"}]
    BY <2>1
  <2>3. Len(<<>>) = 0 /\ DOMAIN <<>> = {}
    OBVIOUS
  <2>4. \A r \in Rank : Calls(r) <= 4 * LAYERS /\ \A n \in 1 .. Calls(r) : DOMAIN posted[r][n] = Rank
    <3>1. \A r \in Rank : Calls(r) = 0
      BY <2>1, <2>3 DEF Unused, Calls
    <3> QED BY <2>1, <3>1
  <2>5. recv_counts \in [Rank -> [Rank -> 0 .. N * K]]
    <3>1. PICK whole \in Nat : whole = N * K
      BY CopiesFinite
    <3>2. 0 \in 0 .. whole
      OBVIOUS
    <3> QED BY <2>1, <3>1, <3>2 DEF Unused
  <2>6. /\ \A r \in Rank : \A i \in DOMAIN recv_tok[r] : recv_tok[r][i].from \in Rank \X Token
        /\ \A r \in Rank : \A l \in DOMAIN combined[r] : \A p \in Copy :
             combined[r][l][p].expert \in Rank \X (0 .. E_local - 1)
    BY <2>1, <2>3 DEF Unused
  <2> QED BY <2>1, <2>2, <2>4, <2>5, <2>6 DEF TypeOK, Unused
<1>3. MoeInv /\ DenseInv /\ Known => TypeOK
  BY <1>1, <1>2 DEF Known
<1> QED BY <1>3, KnownAlways, MoeInit, MoeStep, DenseInit, DenseStep, PTL DEF Spec

\* However many ranks and experts there are and however the tokens are routed, what a rank
\* sums for a token are the outputs of the experts the token was routed to, for this very
\* token: the sort, the four exchanges and the way back lose, swap and mix nothing.
THEOREM CombinedAlwaysRight == Spec => []CombinedRight
<1>1. MoeInv /\ script = "mha_moe_ep" => CombinedRight
  <2> SUFFICES ASSUME MoeInv, script = "mha_moe_ep",
                      NEW r \in Rank, NEW l \in DOMAIN combined[r], NEW p \in Copy
               PROVE  LET e == topk_i[r][l][TokenOf(p)][SlotOf(p)]
                      IN  /\ combined[r][l][p].expert = <<e \div E_local, e % E_local>>
                          /\ combined[r][l][p].row.from = <<r, TokenOf(p)>>
    BY DEF CombinedRight
  <2>1. Listed(combined[r]) /\ Sums(r)
    BY DEF MoeInv, MoeShapes
  <2>2. l \in 1 .. Len(combined[r])
    BY <2>1 DEF Listed
  <2>3. combined[r][l][p] = Output(Dests(r, l)[p], Routed(r, l, p) % E_local, Row_of(r, p))
    BY <2>1, <2>2 DEF Sums
  <2> QED BY <2>3 DEF Output, Row_of, Dests, Routed
<1>2. DenseInv /\ script = "mha_ffn" => CombinedRight
  <2>1. DOMAIN <<>> = {}
    OBVIOUS
  <2> QED BY <2>1 DEF DenseInv, Unused, CombinedRight
<1>3. MoeInv /\ DenseInv /\ Known => CombinedRight
  BY <1>1, <1>2 DEF Known
<1> QED BY <1>3, KnownAlways, MoeInit, MoeStep, DenseInit, DenseStep, PTL DEF Spec

\* In both scripts, after any number of blocks, every activation depends on exactly the
\* tokens of its own sequence up to it, on every rank.
THEOREM PastOnlyAlways == Spec => []PastOnly
<1>1. MoeInv /\ script = "mha_moe_ep" => PastOnly
  BY DEF MoeInv, Place, PastOnly, Ranks
<1>2. DenseInv /\ script = "mha_ffn" => PastOnly
  BY DEF DenseInv
<1>3. MoeInv /\ DenseInv /\ Known => PastOnly
  BY <1>1, <1>2 DEF Known
<1> QED BY <1>3, KnownAlways, MoeInit, MoeStep, DenseInit, DenseStep, PTL DEF Spec

\* However far ranks are ahead of each other, by a whole block even, the sizes a rank
\* expects in the exchange it is in are the sizes the others send, in all four
\* exchanges, for any number of ranks and experts and any routing.
THEOREM SplitsAlwaysAgree == Spec => []SplitsAgree
<1>1. MoeInv /\ DenseInv /\ Known => SplitsAgree
  <2> SUFFICES ASSUME MoeInv, DenseInv, Known,
                      NEW r \in Rank, NEW s \in Rank,
                      pc[r] \in {"counts", "tokens", "experts", "back"}, Calls(s) >= Calls(r)
               PROVE  Len(posted[s][Calls(r)][r]) = Expected(r)[s]
    BY DEF SplitsAgree
  <2>1. script = "mha_moe_ep"
    BY DEF DenseInv, Known
  <2>2. /\ MoeShapes /\ History /\ Place(r) /\ LAYERS \in Nat /\ layer[r] \in 1 .. LAYERS
        /\ Calls(r) \in Nat /\ Calls(s) \in Nat
    BY <2>1, MoeAssumption DEF MoeInv, MoeShapes, Listed, Calls
  <2>3. PICK k \in 1 .. 4 : k = Entered(pc[r])
    BY DEF Entered
  <2>4. PICK l \in 1 .. LAYERS : l = layer[r]
    BY <2>2
  <2>5. Calls(r) = 4 * (l - 1) + k
    BY <2>2, <2>3, <2>4 DEF Place
  <2>6. posted[s][Calls(r)] = Segments(s, l, k)
    <3>1. 4 * (l - 1) + k <= Calls(s)
      BY <2>2, <2>5
    <3> QED BY <2>2, <2>5, <3>1 DEF History
  <2>7. posted[s][Calls(r)][r] = Segment(s, l, k, r)
    BY <2>6 DEF Segments
  <2>8. Sent(s, l, r) \in Nat /\ Sent(r, l, s) \in Nat
    <3>1. topk_i \in [Rank -> [1 .. LAYERS -> [Token -> TopK]]]
      BY <2>2 DEF MoeShapes
    <3>2. PICK whole \in Nat : whole = N * K
      BY CopiesFinite
    <3>3. Sent(s, l, r) \in 0 .. whole /\ Sent(r, l, s) \in 0 .. whole
      BY <3>1, <3>2, RoutedExperts
    <3> QED BY <3>3
  <2>9. CASE k = 1
    <3>1. pc[r] = "counts" /\ Expected(r)[s] = 1
      BY <2>3, <2>9 DEF Entered, Expected
    <3>2. posted[s][Calls(r)][r] = <<Sent(s, l, r)>>
      BY <2>7, <2>9 DEF Segment
    <3> QED BY <3>1, <3>2
  <2>10. CASE k \in {2, 3}
    <3>1. pc[r] \in {"tokens", "experts"} /\ Expected(r)[s] = Sent(s, l, r)
      BY <2>2, <2>3, <2>4, <2>10 DEF Entered, Expected, Place, Coming
    <3>2. Len(Segment(s, l, k, r)) = Sent(s, l, r)
      BY <2>8, <2>10 DEF Segment
    <3> QED BY <2>7, <3>1, <3>2
  <2>11. CASE k = 4
    <3>1. pc[r] = "back" /\ Expected(r)[s] = Send_counts(r)[s]
      BY <2>3, <2>11 DEF Entered, Expected
    <3>2. Send_counts(r)[s] = Sent(r, l, s)
      <4>1. PICK dest : dest = Dests(r, layer[r])
        OBVIOUS
      <4> QED BY <2>4, <4>1, SortOfModel DEF Sent
    <3>3. Len(Segment(s, l, 4, r)) = Sent(r, l, s)
      BY <2>8 DEF Segment
    <3> QED BY <2>7, <2>11, <3>1, <3>2, <3>3
  <2> QED BY <2>9, <2>10, <2>11
<1> QED BY <1>1, KnownAlways, MoeInit, MoeStep, DenseInit, DenseStep, PTL DEF Spec

\* The argsort of a rank: its places are numbered through, each holds the copy that is put
\* there, so writing the results back undoes it; and copies stand in the order of their
\* destinations, those for one rank in the order they had.
THEOREM ArgsortUndone ==
  ASSUME topk_i \in [Rank -> [1 .. LAYERS -> [Token -> TopK]]],
         NEW r \in Rank, layer[r] \in 1 .. LAYERS
  PROVE  /\ \A p \in Copy : PlaceInOrder(r, p) \in Copy /\ Order(r)[PlaceInOrder(r, p)] = p
         /\ \A j \in Copy : Order(r)[j] \in Copy /\ PlaceInOrder(r, Order(r)[j]) = j
         /\ \A p, q \in Copy : Ahead(r, p, q) => PlaceInOrder(r, p) < PlaceInOrder(r, q)
<1>1. PICK l \in 1 .. LAYERS : l = layer[r]
  OBVIOUS
<1>2. PICK dest : dest = Dests(r, l) /\ dest \in [Copy -> Rank]
  BY RoutedExperts
<1>3. dest \in [Copy -> Int]
  <2>1. Rank \subseteq Int
    BY MoeAssumption DEF Rank
  <2> QED BY <1>2, <2>1
<1>4. /\ \A p \in Copy : dest[p] = Dest_rank(r, p) /\ PlaceInOrder(r, p) = PlaceOf(dest, p)
      /\ \A j \in Copy : Order(r)[j] = CopyAt(dest, j)
  BY <1>1, <1>2, SortOfModel
<1>5. /\ \A p \in Copy : PlaceOf(dest, p) \in Copy /\ CopyAt(dest, PlaceOf(dest, p)) = p
      /\ \A j \in Copy : CopyAt(dest, j) \in Copy /\ PlaceOf(dest, CopyAt(dest, j)) = j
  BY <1>3, SortedOnce
<1>6. ASSUME NEW p \in Copy, NEW q \in Copy, Ahead(r, p, q)
      PROVE  PlaceInOrder(r, p) < PlaceInOrder(r, q)
  <2>1. p \in Earlier(dest, q)
    BY <1>4, <1>6 DEF Ahead, Earlier
  <2> QED BY <1>3, <1>4, <2>1, EarlierFirst
<1> QED BY <1>4, <1>5, <1>6
=============================================================================
