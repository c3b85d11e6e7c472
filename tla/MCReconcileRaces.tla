-------------------------- MODULE MCReconcileRaces --------------------------
(* Values of the parameters for checking ReconcileRaces with TLC.          *)
EXTENDS ReconcileRaces, TLC

\* Four teams: two matches in the first round, then one or two.
LaterOfTwo == [ROUND_ROBIN |-> {}, MEXICANO |-> {3, 4}, SINGLE_ELIMINATION |-> {3}]
TwoSemifinals == [f \in {3, 4} |-> <<1, 2>>]
Pairings == {<< <<1, 2>>, <<3, 4>>, <<1, 3>>, <<2, 4>> >>, << <<1, 4>>, <<2, 3>>, <<1, 2>>, <<4, 3>> >>}
\* Every match is won by its first team but one, which may go either way.
OpenMatch == <<{"One", "Two"}, {"One"}, {"One"}, {"One"}>>
\* One match of either round is taken back, one gets corrected.
VerbsOfOne == <<AllVerbs, {"start", "end"}, {"start", "end", "reset"}, {"start", "end"}>>
ClientSymmetry == Permutations(Clients)
=============================================================================
