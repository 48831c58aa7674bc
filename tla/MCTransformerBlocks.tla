------------------------ MODULE MCTransformerBlocks ------------------------
(***************************************************************************)
(* Two sequences of three tokens, two heads, two blocks.  Two routes are   *)
(* chosen in every way there is; tokens of a sequence take them in turn,   *)
(* and sequences, ranks and blocks begin with one or the other, so that    *)
(* all of these differ without every combination being enumerated.         *)
(***************************************************************************)
EXTENDS TransformerBlocks

\* Which of the two token n of rank r takes in block l.
Like(r, l, n) == (n + n \div T + r * (n \div T) + l) % 2
MCInit ==
  \E route \in [{0, 1} -> TopK] :
    /\ topk_i = [r \in Rank |-> [l \in 1 .. LAYERS |-> [n \in Token |-> route[Like(r, l, n)]]]]
    /\ Init
MCSpec == MCInit /\ [][Next]_vars /\ \A r \in Rank : WF_vars(RankStep(r))
=============================================================================
