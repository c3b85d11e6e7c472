------------------------- MODULE EliminationBracket -------------------------
(***************************************************************************)
(* A single-elimination stage item: the tree of matches, the cascade that  *)
(* brings winners into the matches they feed, and the guards that keep a   *)
(* started match out of it.  Requests take effect one at a time here; the  *)
(* statements of concurrent requests are the subject of MatchVerbs.        *)
(*                                                                         *)
(* The tree is numbered as a heap.  Match 1 is the final, the inputs of    *)
(* match m come from nodes 2m and 2m+1, and the nodes from Teams on are    *)
(* the teams themselves.  The round of k matches is k..2k-1.               *)
(***************************************************************************)
EXTENDS MatchSets

CONSTANTS
  NumRounds,     \* rounds of the bracket
  Rankings,      \* the rankings an organiser may pick
  ScoreInputs,   \* the scores a score-edit may enter
  ScoredSets,    \* the sets a score-edit may name
  Forced         \* the values of the force parameter an organiser may pass

ASSUME NumRoundsAssumption == NumRounds \in Nat \ {0}
ASSUME RankingsAssumption == Rankings \subseteq RankingRow
ASSUME ScoreInputsAssumption == ScoreInputs \subseteq Score
ASSUME ScoredSetsAssumption == ScoredSets \subseteq SetNumbers
ASSUME ForcedAssumption == Forced \subseteq BOOLEAN

VARIABLES
  ranking,       \* the ranking of the stage item
  match,         \* the match rows, each with its set rows
  inputs         \* inputs[m][slot]: the team a match has in a slot, or NoTeam

vars == <<ranking, match, inputs>>

-----------------------------------------------------------------------------
(* The tree                                                                *)

Teams == 2^NumRounds
Matches == 1..(Teams - 1)
TeamNodes == Teams..(2 * Teams - 1)
NoTeam == 0
Slots == {0, 1}

\* Mutant: a later round takes both its inputs from the same match.
FeederTwice(m, slot) == IF 2 * m >= Teams THEN 2 * m + slot ELSE 2 * m

Feeder(m, slot) == 2 * m + slot

RoundSizes == {2^k : k \in 0..(NumRounds - 1)}
Round(k) == {m \in Matches : k <= m /\ m < 2 * k}
SubsequentRounds(k) == {m \in Matches : m < k}

Followers(m) == {f \in Matches : \E d \in 1..NumRounds : m \div (2^d) = f}

\* An even num_sets is refused for a single elimination.
AcceptedRankings == {r \in Normalized(Rankings) : r.num_sets % 2 = 1}

State(row, rk) == DeriveMatchState(row, rk.play_all_sets)

NotStarted(row, rk) == State(row, rk) = "NOT_STARTED"

Winner(row, opponents, rk) ==
  IF State(row, rk) # "COMPLETED" THEN NoTeam
  ELSE IF WinningSide(row) = "One" THEN opponents[0]
  ELSE IF WinningSide(row) = "Two" THEN opponents[1] ELSE NoTeam

-----------------------------------------------------------------------------
(* The cascade.  It is planned on one snapshot of the stage item: rows and *)
(* rk are what the request has written so far, inputs is not changed yet.  *)

\* Mutant: a feeder that is not completed any more leaves its winner in place.
PlannedInputsKeepLoser(m, rows, rk, seeds, cleared) ==
  [slot \in Slots |->
     LET feeder == Feeder(m, slot)
         winner == Winner(rows[feeder], inputs[feeder], rk)
     IN  IF feeder \in seeds /\ winner # NoTeam THEN winner ELSE inputs[m][slot]]

\* A slot is emptied when its feeder was cleared, takes the winner of a feeder
\* that is a completed seed, and is kept when that feeder has no winner.
PlannedInputs(m, rows, rk, seeds, cleared) ==
  [slot \in Slots |->
     LET feeder == Feeder(m, slot)
         winner == Winner(rows[feeder], inputs[feeder], rk)
     IN  IF feeder \in cleared THEN NoTeam
         ELSE IF feeder \in seeds /\ winner # NoTeam THEN winner
         ELSE inputs[m][slot]]

\* Mutant: the cascade changes matches that have started.
IsCascadeIntoStarted(changed, k, rows, rk, seeds, unsettled) ==
  changed = {m \in SubsequentRounds(k) :
               PlannedInputs(m, rows, rk, seeds, unsettled \cup changed) # inputs[m]}

\* The matches of the rounds after round k a cascade changes: not started, and
\* planned other inputs than they have.  A changed match is cleared for the next
\* round, since it is not completed.  The tree has one such set.
IsCascade(changed, k, rows, rk, seeds, unsettled) ==
  changed = {m \in SubsequentRounds(k) :
               /\ NotStarted(rows[m], rk)
               /\ PlannedInputs(m, rows, rk, seeds, unsettled \cup changed) # inputs[m]}

Synced(rows, rk) == [m \in Matches |-> SyncCompletedAt(rows[m], rk.play_all_sets)]

\* Mutant: the stage item is read before the request has written.
CompletedInStale(ms, rows, rk) == {m \in ms : State(match[m], ranking) = "COMPLETED"}

CompletedIn(ms, rows, rk) == {m \in ms : State(rows[m], rk) = "COMPLETED"}

\* Reconciliation after a verb on m, whose row is now after.
ReconcileMatch(m, after) ==
  LET rows == Synced([match EXCEPT ![m] = after], ranking)
      seeds == CompletedIn({m}, rows, ranking)
      unsettled == {m} \ seeds
  IN  \E k \in RoundSizes : \E changed \in SUBSET SubsequentRounds(k) :
        /\ m \in Round(k)
        /\ IsCascade(changed, k, rows, ranking, seeds, unsettled)
        /\ match' = rows
        /\ inputs' = [f \in Matches |->
             IF f \in changed
             THEN PlannedInputs(f, rows, ranking, seeds, unsettled \cup changed)
             ELSE inputs[f]]
        /\ UNCHANGED ranking

\* The latest of some rounds: the nearer to the final, the fewer matches.
Latest(ks) == CHOOSE k \in ks : \A j \in ks : k <= j

\* Reconciliation of the whole stage item: every round's completed matches seed a
\* plan on the same snapshot, and the plan of a later round is written last.
ReconcileStageItem(before, rk) ==
  LET rows == Synced(before, rk)
      seeds == [k \in RoundSizes |-> CompletedIn(Round(k), rows, rk)]
      cascades == [k \in RoundSizes |->
        {c \in SUBSET SubsequentRounds(k) : IsCascade(c, k, rows, rk, seeds[k], {})}]
  IN  \E changed \in [RoundSizes -> UNION {cascades[k] : k \in RoundSizes}] :
        /\ \A k \in RoundSizes : changed[k] \in cascades[k]
        /\ ranking' = rk
        /\ match' = rows
        /\ inputs' = [f \in Matches |->
             LET writers == {k \in RoundSizes : f \in changed[k]}
                 last == Latest(writers)
             IN  IF writers = {} THEN inputs[f]
                 ELSE PlannedInputs(f, rows, rk, seeds[last], changed[last])]

-----------------------------------------------------------------------------
(* Requests                                                                *)

\* First-round matches have their teams, the others wait for their feeders.
Init ==
  /\ ranking \in AcceptedRankings
  /\ match = [m \in Matches |-> NewMatch(ranking.num_sets)]
  /\ inputs = [m \in Matches |->
       [slot \in Slots |-> IF Feeder(m, slot) \in TeamNodes THEN Feeder(m, slot) ELSE NoTeam]]

OpponentsKnown(m) == \A slot \in Slots : inputs[m][slot] # NoTeam

\* Mutant: a match may be started before its opponents are known.
StartUnchecked(m) ==
  /\ MayStart(match[m], Cardinality(match[m].rows), ranking.play_all_sets)
  /\ ReconcileMatch(m, Started(match[m]))

Start(m) ==
  /\ NotStarted(match[m], ranking) => OpponentsKnown(m)
  /\ MayStart(match[m], Cardinality(match[m].rows), ranking.play_all_sets)
  /\ ReconcileMatch(m, Started(match[m]))

End(m) ==
  /\ EndAllowed(match[m], ranking.draws_allowed)
  /\ MayEnd(match[m])
  /\ ReconcileMatch(m, Ended(match[m]))

Reopen(m) ==
  /\ MayReopen(match[m])
  /\ ReconcileMatch(m, Reopened(match[m]))

\* Mutant: the 409 guard is dropped.
ResetUnguarded(m) == ReconcileMatch(m, WithoutResult(match[m]))

\* Refused while a match that depends on the result has started.
Reset(m) ==
  /\ \A f \in Followers(m) : NotStarted(match[f], ranking)
  /\ ReconcileMatch(m, WithoutResult(match[m]))

ScoreEdit(m) ==
  \E set \in match[m].rows \cap ScoredSets, side \in ScoreInputs :
    /\ ScoreEditAllowed(match[m], set, side, ranking.draws_allowed)
    /\ ReconcileMatch(m, Scored(match[m], set, side))

ActiveSets(m) == match[m].completed_set_count > 0 \/ match[m].current_set_in_progress

EditRanking ==
  \E body \in AcceptedRankings, force \in Forced :
    /\ \/ force
       \/ body.num_sets = ranking.num_sets /\ body.play_all_sets = ranking.play_all_sets
       \/ \A m \in Matches : ~ActiveSets(m)
    /\ ReconcileStageItem([m \in Matches |-> Resized(match[m], ranking.num_sets, body.num_sets)],
                          body)

\* A team of the bracket is activated or deactivated.
ToggleTeam == ReconcileStageItem(match, ranking)

Verb(m) == Start(m) \/ End(m) \/ Reopen(m) \/ Reset(m) \/ ScoreEdit(m)

Next == (\E m \in Matches : Verb(m)) \/ EditRanking \/ ToggleTeam

Spec == Init /\ [][Next]_vars

-----------------------------------------------------------------------------
(* Properties                                                              *)

\* Every variable keeps its type; a slot holds a team of the bracket or none.
TypeOK ==
  /\ ranking \in RankingRow
  /\ match \in [Matches -> MatchRow]
  /\ inputs \in [Matches -> [Slots -> TeamNodes \cup {NoTeam}]]

\* A later-round slot is filled only from a match that has started and only with one
\* of that match's two teams: a reset or a cascade never leaves behind a finalist
\* from a match played by others (sql_reset_match, the 409 of
\* reset_match_and_recalculate, get_inputs_to_update_in_subsequent_elimination_rounds).
SlotComesFromFeeder ==
  \A m \in Matches, slot \in Slots :
    LET feeder == Feeder(m, slot) IN
    feeder \in Matches /\ inputs[m][slot] # NoTeam =>
      /\ ~NotStarted(match[feeder], ranking)
      /\ \E s \in Slots : inputs[m][slot] = inputs[feeder][s]

\* No match runs without both its teams, whatever is reset or reconciled around it
\* (validate_match_can_be_started checks this only when the match starts).
StartedHasOpponents ==
  \A m \in Matches : ~NotStarted(match[m], ranking) => OpponentsKnown(m)

\* A team has at most one match in a round, and never meets itself.
NobodyPlaysTwiceInARound ==
  \A k \in RoundSizes : \A m, n \in Round(k), s, t \in Slots :
    inputs[m][s] # NoTeam /\ inputs[m][s] = inputs[n][t] => m = n /\ s = t

\* "No cascade may modify a downstream match that has already started", nor any
\* other request (get_inputs_to_update_in_subsequent_elimination_rounds).
StartedMatchKeepsOpponents ==
  [][\A m \in Matches : ~NotStarted(match[m], ranking) => inputs'[m] = inputs[m]]_vars

\* The slot of a match that has not started, against the feeder that fills it.
SlotInLine(f, slot) ==
  LET feeder == Feeder(f, slot) IN
  feeder \in Matches /\ NotStarted(match[f], ranking) =>
    \/ inputs[f][slot] = Winner(match[feeder], inputs[feeder], ranking)
    \/ State(match[feeder], ranking) = "COMPLETED" /\ WinningSide(match[feeder]) = "Draw"

\* A verb that changes a match leaves the match it feeds, if not started, with the
\* winner or with an empty slot (update_inputs_in_subsequent_elimination_rounds).
VerbRealignsFollower ==
  [][\A f \in Matches, slot \in Slots :
       /\ Feeder(f, slot) \in Matches
       /\ ranking' = ranking
       /\ match'[Feeder(f, slot)] # match[Feeder(f, slot)]
       => SlotInLine(f, slot)']_vars

\* Saving another ranking brings every decided feeder's winner into the matches that
\* have not started (update_inputs_in_complete_elimination_stage_item).
EditBringsWinners ==
  [][ranking' # ranking =>
       \A f \in Matches, slot \in Slots :
         Feeder(f, slot) \in Matches /\ State(match'[Feeder(f, slot)], ranking') = "COMPLETED"
         => SlotInLine(f, slot)']_vars
=============================================================================
