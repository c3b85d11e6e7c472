---------------------------- MODULE MCMatchVerbs ----------------------------
(* Model values and symmetry for checking MatchVerbs with TLC.             *)
EXTENDS MatchVerbs, TLC

CONSTANTS m1, m2, c1, c2, e1, e2

OneMatch == {m1}
TwoClients == {c1, c2}
OneEditor == {e1}

OneOrThree == {1, 3}
AnyForce == {TRUE, FALSE}
LevelOrOne == {"Draw", "One"}

Symmetry == Permutations(Clients) \cup Permutations(Matches) \cup Permutations(Editors)
=============================================================================
