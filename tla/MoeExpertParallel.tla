------------------------- MODULE MoeExpertParallel -------------------------
(***************************************************************************)
(* The forward pass of the expert-parallel mixture of experts: every rank  *)
(* holds E \div W of the experts, sorts its token copies by the rank of    *)
(* their expert, and four all_to_all exchanges (counts, tokens, local      *)
(* expert numbers, results) carry them there and back.  No rank checks     *)
(* what it receives: that a result meets its token again rests on counts,  *)
(* splits and permutations that are computed on different ranks.           *)
(*                                                                         *)
(* The actions are composed into blocks and a stack by TransformerBlocks.  *)
(* A row carries where it comes from, <<rank, token>>, and the activation. *)
(***************************************************************************)
EXTENDS CausalAttention, Sequences, FiniteSets, SequencesExt

CONSTANTS W,       \* world_size
          E,       \* num_experts
          K,       \* top_k
          LAYERS   \* num_layers

ASSUME MoeAssumption ==
  W \in Nat \ {0} /\ E \in Nat \ {0} /\ E % W = 0 /\ K \in 1 .. E /\ LAYERS \in Nat \ {0}

Rank == 0 .. W - 1
E_local == E \div W
TopK == {s \in [0 .. K - 1 -> 0 .. E - 1] : \A i, j \in 0 .. K - 1 : i # j => s[i] # s[j]}

\* Copy p of the N * K (token, slot) pairs.
Copy == 1 .. N * K
TokenOf(p) == (p - 1) \div K
SlotOf(p) == (p - 1) % K

VARIABLES topk_i,      \* per rank and layer: the experts of each token
          x,           \* per rank: the activation of each token
          pc,          \* what each rank is about to do or waiting for
          layer,       \* the block each rank is in
          posted,      \* per rank: its all_to_all calls so far, each a segment per rank
          recv_counts, \* rows a rank gets from each rank
          recv_tok,    \* the rows received
          combined     \* per rank and layer: for each copy what was summed

buffers == <<recv_counts, recv_tok>>

Expert(r, p) == topk_i[r][layer[r]][TokenOf(p)][SlotOf(p)]
Dest_rank(r, p) == Expert(r, p) \div E_local

\* Mutant: the number of the expert is not made local.
Local_expertGlobal(r, p) == Expert(r, p)

Local_expert(r, p) == Expert(r, p) % E_local

\* argsort of the destinations, stable: a copy comes after those for lower ranks and the
\* earlier ones for its own.  At place j is the copy whose place is j.
Ahead(r, q, p) == \/ Dest_rank(r, q) < Dest_rank(r, p)
                  \/ Dest_rank(r, q) = Dest_rank(r, p) /\ q < p
PlaceInOrder(r, p) == 1 + Cardinality({q \in Copy : Ahead(r, q, p)})
Order(r) == [j \in Copy |-> CHOOSE p \in Copy : PlaceInOrder(r, p) = j]
Send_counts(r) == [s \in Rank |-> Cardinality({p \in Copy : Dest_rank(r, p) = s})]

\* A buffer cut into one segment per rank by split sizes.
Before(splits, s) == MapThenSumSet(LAMBDA q : splits[q], 0 .. s - 1)
Cut(buffer, splits) ==
  [s \in Rank |-> [i \in 1 .. splits[s] |-> buffer[Before(splits, s) + i]]]

\* all_to_all_single: the n-th call of a rank is matched with the n-th call of the
\* others, and has what it needs once all of them have made it.  (The library need not
\* wait for a rank with nothing for this one; as each rank makes the same calls, no
\* hang is lost or added by waiting for it too.)
Post(r, segments) == posted' = [posted EXCEPT ![r] = Append(@, segments)]
Calls(r) == Len(posted[r])
AllPosted(r) == \A s \in Rank : Calls(s) >= Calls(r)
Received(r) == FlattenSeq([i \in 1 .. W |-> posted[i - 1][Calls(r)][r]])

\* The exchange without split sizes: one count from each rank.
ReceivedCounts(r) == [s \in Rank |-> posted[s][Calls(r)][r][1]]

\* flat.repeat_interleave(k)[p]
Base_tok(r, p) == [from |-> <<r, TokenOf(p)>>, value |-> x[r][TokenOf(p)]]

\* Steps 1 to 4: route, sort, offer the counts.
Route(r) ==
  /\ pc[r] = "route"
  /\ Post(r, [s \in Rank |-> <<Send_counts(r)[s]>>])
  /\ pc' = [pc EXCEPT ![r] = "counts"]
  /\ UNCHANGED <<topk_i, x, layer, buffers, combined>>

\* Mutant: a rank that gets nothing has no part in the rest.
SendTokensIfAny(r) ==
  /\ pc[r] = "counts" /\ AllPosted(r)
  /\ recv_counts' = [recv_counts EXCEPT ![r] = ReceivedCounts(r)]
  /\ IF \A s \in Rank : ReceivedCounts(r)[s] = 0
     THEN pc' = [pc EXCEPT ![r] = "done"] /\ UNCHANGED posted
     ELSE /\ Post(r, Cut([j \in Copy |-> Base_tok(r, Order(r)[j])], Send_counts(r)))
          /\ pc' = [pc EXCEPT ![r] = "tokens"]
  /\ UNCHANGED <<topk_i, x, layer, recv_tok, combined>>

\* Mutant: the counts are not exchanged, each rank goes by its own.
SendTokensByOwnCounts(r) ==
  /\ pc[r] = "counts" /\ AllPosted(r)
  /\ recv_counts' = [recv_counts EXCEPT ![r] = Send_counts(r)]
  /\ Post(r, Cut([j \in Copy |-> Base_tok(r, Order(r)[j])], Send_counts(r)))
  /\ pc' = [pc EXCEPT ![r] = "tokens"]
  /\ UNCHANGED <<topk_i, x, layer, recv_tok, combined>>

\* Steps 4 to 6: take the counts, send the tokens in segments.
SendTokens(r) ==
  /\ pc[r] = "counts" /\ AllPosted(r)
  /\ recv_counts' = [recv_counts EXCEPT ![r] = ReceivedCounts(r)]
  /\ Post(r, Cut([j \in Copy |-> Base_tok(r, Order(r)[j])], Send_counts(r)))
  /\ pc' = [pc EXCEPT ![r] = "tokens"]
  /\ UNCHANGED <<topk_i, x, layer, recv_tok, combined>>

\* Step 6: take the tokens, send their local expert numbers the same way.
SendExperts(r) ==
  /\ pc[r] = "tokens" /\ AllPosted(r)
  /\ recv_tok' = [recv_tok EXCEPT ![r] = Received(r)]
  /\ Post(r, Cut([j \in Copy |-> Local_expert(r, Order(r)[j])], Send_counts(r)))
  /\ pc' = [pc EXCEPT ![r] = "experts"]
  /\ UNCHANGED <<topk_i, x, layer, recv_counts, combined>>

\* What expert lid of rank r makes of a row.
Output(r, lid, row) == [expert |-> <<r, lid>>, row |-> row]

\* Mutant: the results are grouped by expert instead of written back in place.
SendBackByExpert(r) ==
  /\ pc[r] = "experts" /\ AllPosted(r)
  /\ LET recv_lex == Received(r)
         byExpert == FlattenSeq([e \in 1 .. E_local |->
                       SelectSeq([i \in DOMAIN recv_lex |-> i], LAMBDA i : recv_lex[i] = e - 1)])
     IN  Post(r, Cut([i \in DOMAIN recv_lex |->
                        Output(r, recv_lex[byExpert[i]], recv_tok[r][byExpert[i]])], recv_counts[r]))
  /\ pc' = [pc EXCEPT ![r] = "back"]
  /\ UNCHANGED <<topk_i, x, layer, buffers, combined>>

\* Steps 7 and 8: compute in place, send the results back the way they came.
SendBack(r) ==
  /\ pc[r] = "experts" /\ AllPosted(r)
  /\ LET recv_lex == Received(r)
         recv_out == [i \in DOMAIN recv_lex |-> Output(r, recv_lex[i], recv_tok[r][i])]
     IN  Post(r, Cut(recv_out, recv_counts[r]))
  /\ pc' = [pc EXCEPT ![r] = "back"]
  /\ UNCHANGED <<topk_i, x, layer, buffers, combined>>

\* The block is over: on to the next, or to the norm after the last.
LeaveBlock(r) ==
  IF layer[r] < LAYERS
  THEN pc' = [pc EXCEPT ![r] = "attend"] /\ layer' = [layer EXCEPT ![r] = @ + 1]
  ELSE pc' = [pc EXCEPT ![r] = "done"] /\ UNCHANGED layer

\* Step 9 and the second residual: undo the sort (out_ordered[order] = out_back writes
\* the row at each place to the copy of that place), sum over the slots.
Combine(r) ==
  /\ pc[r] = "back" /\ AllPosted(r)
  /\ LET out_back == Received(r)
         out_ordered == [p \in Copy |-> out_back[PlaceInOrder(r, p)]]
     IN  /\ combined' = [combined EXCEPT ![r] = Append(@, out_ordered)]
         /\ x' = [x EXCEPT ![r] = [n \in Token |->
                     x[r][n] \cup UNION {out_ordered[p].row.value : p \in {q \in Copy : TokenOf(q) = n}}]]
  /\ LeaveBlock(r)
  /\ UNCHANGED <<topk_i, posted, buffers>>
=============================================================================
