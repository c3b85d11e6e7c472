--------------------------- MODULE MatchLifecycle ---------------------------
(***************************************************************************)
(* What the match verbs promise of one stage item, with requests taking    *)
(* effect one at a time: every match moves its progress pointer by one     *)
(* legal transition of pointer.py at once, and a change of the number of   *)
(* sets clips every pointer at the same moment.                            *)
(***************************************************************************)
EXTENDS Integers

CONSTANTS Matches, MaxSets

VARIABLES
  num_sets,      \* sets each match has
  completed,     \* completed[m]: how many of m's sets are completed
  running        \* running[m]: the next set of m is in progress

lvars == <<num_sets, completed, running>>

LifecycleInit ==
  /\ num_sets \in 1..MaxSets
  /\ completed = [m \in Matches |-> 0]
  /\ running = [m \in Matches |-> FALSE]

Start(m) ==
  /\ ~running[m]
  /\ completed[m] < num_sets
  /\ running' = [running EXCEPT ![m] = TRUE]
  /\ UNCHANGED <<num_sets, completed>>

End(m) ==
  /\ running[m]
  /\ completed' = [completed EXCEPT ![m] = @ + 1]
  /\ running' = [running EXCEPT ![m] = FALSE]
  /\ UNCHANGED num_sets

Reopen(m) ==
  /\ completed[m] > 0
  /\ completed' = [completed EXCEPT ![m] = @ - 1]
  /\ running' = [running EXCEPT ![m] = TRUE]
  /\ UNCHANGED num_sets

Reset(m) ==
  /\ completed' = [completed EXCEPT ![m] = 0]
  /\ running' = [running EXCEPT ![m] = FALSE]
  /\ UNCHANGED num_sets

\* A match that had completed all the sets that stay is not running any more.
Resize(n) ==
  /\ num_sets' = n
  /\ completed' = [m \in Matches |-> IF completed[m] <= n THEN completed[m] ELSE n]
  /\ running' = [m \in Matches |-> running[m] /\ completed[m] < n]

LifecycleNext ==
  \/ \E m \in Matches : Start(m) \/ End(m) \/ Reopen(m) \/ Reset(m)
  \/ \E n \in 1..MaxSets : Resize(n)

LifecycleSpec == LifecycleInit /\ [][LifecycleNext]_lvars
=============================================================================
