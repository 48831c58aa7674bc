-------------------------- MODULE TransformerBlocks --------------------------
(***************************************************************************)
(* The two transformer scripts: blocks of attention and a feed-forward     *)
(* layer, each with a residual, one after the other.  mha_ffn.py is one    *)
(* process with a dense layer; mha_moe_ep.py is one process per rank that  *)
(* replicates the attention and spreads the experts, so that the ranks     *)
(* meet in every block and must still hold the same activations after it.  *)
(***************************************************************************)
EXTENDS MoeExpertParallel

VARIABLE script  \* which of the two runs

vars == <<script, topk_i, x, pc, layer, posted, buffers, combined>>

\* The processes of the script.
Ranks == IF script = "mha_ffn" THEN {0} ELSE Rank

\* The input is the same on every rank.  Each rank routes for itself: nothing makes
\* their choices equal.
Init ==
  /\ script \in {"mha_ffn", "mha_moe_ep"}
  /\ topk_i \in [Rank -> [1 .. LAYERS -> [Token -> TopK]]]
  /\ x = [r \in Rank |-> [n \in Token |-> {n}]]
  /\ pc = [r \in Rank |-> IF r \in Ranks THEN "attend" ELSE "done"]
  /\ layer = [r \in Rank |-> 1]
  /\ posted = [r \in Rank |-> <<>>]
  /\ recv_counts = [r \in Rank |-> [s \in Rank |-> 0]]
  /\ recv_tok = [r \in Rank |-> <<>>]
  /\ combined = [r \in Rank |-> <<>>]

\* The first residual: x + attn(norm1(x)).
Attend(r) ==
  /\ pc[r] = "attend"
  /\ LET out == Attention(x[r])
     IN  x' = [x EXCEPT ![r] = [n \in Token |-> x[r][n] \cup out[n]]]
  /\ pc' = [pc EXCEPT ![r] = IF script = "mha_ffn" THEN "ffn" ELSE "route"]
  /\ UNCHANGED <<script, topk_i, layer, posted, buffers, combined>>

\* What the dense layer makes of a token, of nothing but that token.
FFN(a) == a

\* The second residual of the dense block: x + ffn(norm2(x)).
DenseFFN(r) ==
  /\ pc[r] = "ffn"
  /\ x' = [x EXCEPT ![r] = [n \in Token |-> x[r][n] \cup FFN(x[r][n])]]
  /\ LeaveBlock(r)
  /\ UNCHANGED <<script, topk_i, posted, buffers, combined>>

Exchange(r) ==
  /\ Route(r) \/ SendTokens(r) \/ SendExperts(r) \/ SendBack(r) \/ Combine(r)
  /\ UNCHANGED script

RankStep(r) == Attend(r) \/ DenseFFN(r) \/ Exchange(r)

Next == \E r \in Rank : RankStep(r)

\* Every process runs.
Spec == Init /\ [][Next]_vars /\ \A r \in Rank : WF_vars(RankStep(r))

-----------------------------------------------------------------------------
(* Properties *)

\* The shape of every variable.
TypeOK ==
  /\ topk_i \in [Rank -> [1 .. LAYERS -> [Token -> TopK]]]
  /\ x \in [Rank -> [Token -> SUBSET Token]]
  /\ pc \in [Rank -> {"attend", "ffn", "route", "counts", "tokens", "experts", "back", "done"}]
  /\ layer \in [Rank -> 1 .. LAYERS]
  /\ \A r \in Rank : Calls(r) <= 4 * LAYERS /\ \A n \in 1 .. Calls(r) : DOMAIN posted[r][n] = Rank
  /\ recv_counts \in [Rank -> [Rank -> 0 .. N * K]]
  /\ \A r \in Rank : \A i \in DOMAIN recv_tok[r] : recv_tok[r][i].from \in Rank \X Token
  /\ \A r \in Rank : \A l \in DOMAIN combined[r] : \A p \in Copy :
       combined[r][l][p].expert \in Rank \X (0 .. E_local - 1)

\* In every exchange the rows a rank expects from another are as many as that one
\* sends it: output_split_sizes and input_split_sizes agree across ranks.
Expected(r) ==
  CASE pc[r] \in {"tokens", "experts"} -> recv_counts[r]
    [] pc[r] = "back"                  -> Send_counts(r)
    [] OTHER                           -> [s \in Rank |-> 1]
SplitsAgree ==
  \A r, s \in Rank :
    pc[r] \in {"counts", "tokens", "experts", "back"} /\ Calls(s) >= Calls(r) =>
      Len(posted[s][Calls(r)][r]) = Expected(r)[s]

\* What a rank sums for a token are the outputs of the token's own experts for this
\* very token, whatever went through the four exchanges.
CombinedRight ==
  \A r \in Rank : \A l \in DOMAIN combined[r] : \A p \in Copy :
    LET e == topk_i[r][l][TokenOf(p)][SlotOf(p)]
    IN  /\ combined[r][l][p].expert = <<e \div E_local, e % E_local>>
        /\ combined[r][l][p].row.from = <<r, TokenOf(p)>>

\* On every rank the activation of a token depends on exactly the tokens of its own
\* sequence up to it, through both layers of every block: attention sees nothing of
\* the future or of another sequence, and the experts mix no tokens.
PastOnly ==
  \A r \in Ranks : \A n \in Token :
    x[r][n] = IF layer[r] = 1 /\ pc[r] = "attend" THEN {n} ELSE Past(n)

\* No rank waits for ever in an exchange: all get through all blocks.
AllRanksFinish ==
  <>(\A r \in Ranks : pc[r] = "done" /\ layer[r] = LAYERS
                      /\ (script = "mha_moe_ep" => Len(combined[r]) = LAYERS))
=============================================================================
