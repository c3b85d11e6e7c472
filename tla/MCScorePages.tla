---------------------------- MODULE MCScorePages ----------------------------
(***************************************************************************)
(* A best of three: a match that has not started, one between two sets and *)
(* one in its second set.                                                  *)
(***************************************************************************)
EXTENDS ScorePages

SecondSet == [points |-> <<<<2, 0>>, <<1, 0>>, <<0, 0>>>>,
              completed_set_count |-> 1, current_set_in_progress |-> TRUE]

BetweenSets == [points |-> <<<<2, 1>>, <<0, 0>>, <<0, 0>>>>,
                completed_set_count |-> 1, current_set_in_progress |-> FALSE]

NotStarted == [points |-> <<<<0, 0>>, <<0, 0>>, <<0, 0>>>>,
               completed_set_count |-> 0, current_set_in_progress |-> FALSE]

UpAndDown == {<<2, 1>>, <<1, -1>>}

TwoTrackers == {{1, 2}}
OneAndOrganiser == {{0, 1}}
TwoDevices == TwoTrackers \cup OneAndOrganiser

LateMatches == {SecondSet, BetweenSets}
BeforeASet == {NotStarted, BetweenSets}

=============================================================================
