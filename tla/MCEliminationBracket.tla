------------------------ MODULE MCEliminationBracket ------------------------
(* Values of the parameters for checking EliminationBracket with TLC.      *)
EXTENDS EliminationBracket

OneSet == {1}
\* One set or three, with draws wherever they are accepted.
OneOrThreeSets ==
  {r \in RankingRow : r.num_sets # 2 /\ (r.draws_allowed <=> r.num_sets = 1 \/ r.play_all_sets)}
AnyScore == {"Draw", "One", "Two"}
AlwaysForced == {TRUE}
=============================================================================
