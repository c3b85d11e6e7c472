------------------------------ MODULE MatchSets ------------------------------
(***************************************************************************)
(* One match: its set rows, its progress pointer, and what is derived from *)
(* them.  A match stores how many of its sets are completed and whether    *)
(* the next one is in progress; the state of every set and of the match is *)
(* computed from that pointer, the scores and the ranking's play_all_sets. *)
(***************************************************************************)
EXTENDS Integers, FiniteSets

CONSTANT MaxSets       \* bound on the number of sets of a match

ASSUME MaxSetsAssumption == MaxSets \in Nat \ {0}

-----------------------------------------------------------------------------
(* The stored data.  A score is kept only as the side it favours.          *)

SetNumbers == 1..MaxSets
Score == {"Draw", "One", "Two"}

MatchRow == [rows : SUBSET SetNumbers,
             score : [SetNumbers -> Score],
             completed_set_count : 0..MaxSets,
             current_set_in_progress : BOOLEAN,
             completed_at : BOOLEAN]          \* TRUE: the column is not NULL

\* Rows 1..n of a new match, all 0-0 and not started.
NewMatch(n) == [rows |-> 1..n,
                score |-> [s \in SetNumbers |-> "Draw"],
                completed_set_count |-> 0,
                current_set_in_progress |-> FALSE,
                completed_at |-> FALSE]

RankingRow == [num_sets : 1..MaxSets,
               play_all_sets : BOOLEAN,
               draws_allowed : BOOLEAN]

\* What is stored when an organiser picks among rankings: best-of-n excludes an even
\* num_sets and draws.
Normalized(rankings) ==
  {r \in rankings :
     ~r.play_all_sets /\ r.num_sets > 1 => r.num_sets % 2 = 1 /\ ~r.draws_allowed}

-----------------------------------------------------------------------------
(* Derivation: the state of a set and of a match is never stored.          *)

SetState(row, n) ==
  IF n <= row.completed_set_count THEN "COMPLETED"
  ELSE IF n = row.completed_set_count + 1 /\ row.current_set_in_progress
       THEN "IN_PROGRESS" ELSE "NOT_STARTED"

SetWins(row, side) ==
  Cardinality({n \in row.rows : SetState(row, n) = "COMPLETED" /\ row.score[n] = side})

\* The side a completed match goes to; "Draw" when neither has more sets.
WinningSide(row) ==
  IF SetWins(row, "One") > SetWins(row, "Two") THEN "One"
  ELSE IF SetWins(row, "Two") > SetWins(row, "One") THEN "Two" ELSE "Draw"

IsMatchDecided(row, play_all_sets) ==
  /\ ~play_all_sets
  /\ Cardinality(row.rows) > 1
  /\ \E side \in {"One", "Two"} :
        SetWins(row, side) >= (Cardinality(row.rows) \div 2) + 1

\* Mutant: a decided match is completed even while a set is in progress.
DeriveMatchStateIgnoresRunning(row, play_all_sets) ==
  LET states == {SetState(row, n) : n \in row.rows}
  IN  IF states \subseteq {"NOT_STARTED"} THEN "NOT_STARTED"
      ELSE IF states = {"COMPLETED"} \/ IsMatchDecided(row, play_all_sets)
           THEN "COMPLETED" ELSE "IN_PROGRESS"

DeriveMatchState(row, play_all_sets) ==
  LET states == {SetState(row, n) : n \in row.rows}
  IN  IF states \subseteq {"NOT_STARTED"} THEN "NOT_STARTED"
      ELSE IF \/ states = {"COMPLETED"}
              \/ "IN_PROGRESS" \notin states /\ IsMatchDecided(row, play_all_sets)
           THEN "COMPLETED" ELSE "IN_PROGRESS"

\* The statement of the same state in terms of the pointer alone.
StateFromPointer(row, num_sets, match_decided) ==
  IF row.completed_set_count = 0 /\ ~row.current_set_in_progress THEN "NOT_STARTED"
  ELSE IF /\ ~row.current_set_in_progress
          /\ row.completed_set_count >= num_sets \/ match_decided
       THEN "COMPLETED" ELSE "IN_PROGRESS"

InLine(row, play_all_sets) ==
  row.completed_at <=> DeriveMatchState(row, play_all_sets) = "COMPLETED"

\* A verb's own bookkeeping: it compares with the completed_at the request was
\* resolved with, which another request may have changed since.
Recalculated(row, seen, play_all_sets) ==
  LET completed == DeriveMatchState(row, play_all_sets) = "COMPLETED"
  IN  [row EXCEPT !.completed_at = IF completed # seen THEN completed ELSE @]

\* Mutant: reconciliation leaves completed_at to the verb's own bookkeeping.
SyncCompletedAtSkipped(row, play_all_sets) == row

\* Reconciliation's bookkeeping: it compares with a row read in the transaction.
SyncCompletedAt(row, play_all_sets) ==
  [row EXCEPT !.completed_at = DeriveMatchState(row, play_all_sets) = "COMPLETED"]

AddTrailingSets(row, from, to) ==
  [row EXCEPT !.rows = @ \cup (from..to)]

\* Mutant: the set in progress is not stopped when its row is deleted.
DeleteTrailingSetsKeepsRunning(row, keep) ==
  [rows |-> {n \in row.rows : n <= keep},
   score |-> [n \in SetNumbers |-> IF n <= keep THEN row.score[n] ELSE "Draw"],
   completed_set_count |->
     IF row.completed_set_count <= keep THEN row.completed_set_count ELSE keep,
   current_set_in_progress |-> row.current_set_in_progress,
   completed_at |-> row.completed_at]

DeleteTrailingSets(row, keep) ==
  [rows |-> {n \in row.rows : n <= keep},
   score |-> [n \in SetNumbers |-> IF n <= keep THEN row.score[n] ELSE "Draw"],
   completed_set_count |->
     IF row.completed_set_count <= keep THEN row.completed_set_count ELSE keep,
   current_set_in_progress |->
     IF row.completed_set_count >= keep THEN FALSE ELSE row.current_set_in_progress,
   completed_at |-> row.completed_at]

\* Mutant: the rows added start one too late.
ResizedSkipsOne(row, old_num_sets, new_num_sets) ==
  IF new_num_sets = old_num_sets THEN row
  ELSE IF new_num_sets > old_num_sets
       THEN AddTrailingSets(row, old_num_sets + 2, new_num_sets)
       ELSE DeleteTrailingSets(row, new_num_sets)

Resized(row, old_num_sets, new_num_sets) ==
  IF new_num_sets = old_num_sets THEN row
  ELSE IF new_num_sets > old_num_sets
       THEN AddTrailingSets(row, old_num_sets + 1, new_num_sets)
       ELSE DeleteTrailingSets(row, new_num_sets)

-----------------------------------------------------------------------------
(* The pointer transitions of the verbs, and the score-edit.               *)

MayStart(row, num_sets, play_all_sets) ==
  /\ ~row.current_set_in_progress
  /\ row.completed_set_count < num_sets
  /\ ~IsMatchDecided(row, play_all_sets)

Started(row) == [row EXCEPT !.current_set_in_progress = TRUE]

MayEnd(row) == row.current_set_in_progress

Ended(row) == [row EXCEPT !.completed_set_count = @ + 1,
                          !.current_set_in_progress = FALSE]

MayReopen(row) == row.completed_set_count > 0

Reopened(row) == [row EXCEPT !.completed_set_count = @ - 1,
                             !.current_set_in_progress = TRUE]

WithoutResult(row) == [row EXCEPT !.score = [n \in SetNumbers |-> "Draw"],
                                  !.completed_set_count = 0,
                                  !.current_set_in_progress = FALSE,
                                  !.completed_at = FALSE]

\* An UPDATE of a set row that is gone changes nothing.
Scored(row, set, side) ==
  [row EXCEPT !.score = [n \in SetNumbers |->
                           IF n = set /\ n \in row.rows THEN side ELSE row.score[n]]]

\* The draw rules of end and score-edit.
EndAllowed(row, draws_allowed) ==
  \A n \in row.rows :
    SetState(row, n) = "IN_PROGRESS" /\ row.score[n] = "Draw" => draws_allowed

ScoreEditAllowed(row, set, side, draws_allowed) ==
  SetState(row, set) = "COMPLETED" /\ side = "Draw" => draws_allowed
=============================================================================
