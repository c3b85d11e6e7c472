--------------------------- MODULE ScoreTracking ---------------------------
(***************************************************************************)
(* What the score tracking page and the match dialog make of a match: the  *)
(* view they show, the verbs they offer, the scores a tap asks for and the *)
(* reminder to switch sides; and what the server does with their requests. *)
(*                                                                         *)
(* A match is the points of each set and the progress pointer of MatchSets.*)
(***************************************************************************)
EXTENDS MatchSets

CONSTANTS
  MaxPoints, LastSetMaxPoints,      \* max_points, last_set_max_points
  TwoPointAdvantage, DrawsAllowed, PlayAllSets,
  SideSwitchEvery                   \* side_switch_every_n_points

ASSUME TrackingAssumption ==
  /\ MaxPoints \in Nat /\ LastSetMaxPoints \in Nat
  /\ {TwoPointAdvantage, DrawsAllowed, PlayAllSets} \subseteq BOOLEAN
  /\ SideSwitchEvery \in Nat \ {0}

Slots == {1, 2}

TrackedMatches == [points : [SetNumbers -> [Slots -> Nat]],
                   completed_set_count : 0..MaxSets,
                   current_set_in_progress : BOOLEAN]

\* A set that is in progress is one of the sets.
FittingMatches ==
  {m \in TrackedMatches : m.current_set_in_progress => m.completed_set_count < MaxSets}

\* The match as the rows of MatchSets have it.
Favours(points) ==
  IF points[1] > points[2] THEN "One" ELSE IF points[2] > points[1] THEN "Two" ELSE "Draw"

Row(match) ==
  [rows |-> SetNumbers, score |-> [n \in SetNumbers |-> Favours(match.points[n])],
   completed_set_count |-> match.completed_set_count,
   current_set_in_progress |-> match.current_set_in_progress]

StateOf(match) == DeriveMatchState(Row(match), PlayAllSets)

SetsIn(match, state) == {n \in SetNumbers : SetState(match, n) = state}

-----------------------------------------------------------------------------
(* The server *)

Verbs == {"start", "end", "reopen", "reset", "score_edit"}

\* What the other matches make of this one: whether both opponents are determined,
\* and whether a match that a reset of this one would change has started.
Neighbours == [opponents_known : BOOLEAN, follower_started : BOOLEAN]

\* The start of a match whose opponents are not determined; between sets nobody asks.
Unopposed(match, neighbours, request) ==
  request.verb = "start" /\ StateOf(match) = "NOT_STARTED" /\ ~neighbours.opponents_known

\* Whether the server accepts a request; it refuses with 400 otherwise, a reset with 409.
Legal(match, neighbours, request) ==
  CASE request.verb = "start"  -> MayStart(Row(match), MaxSets, PlayAllSets)
                                  /\ ~Unopposed(match, neighbours, request)
    [] request.verb = "end"    -> MayEnd(match) /\ EndAllowed(Row(match), DrawsAllowed)
    [] request.verb = "reopen" -> MayReopen(match)
    [] request.verb = "reset"  -> ~neighbours.follower_started
    [] request.verb = "score_edit" ->
         ScoreEditAllowed(match, request.set, Favours(request.points), DrawsAllowed)

Applied(match, request) ==
  CASE request.verb = "start"  -> Started(match)
    [] request.verb = "end"    -> Ended(match)
    [] request.verb = "reopen" -> Reopened(match)
    [] request.verb = "reset"  -> [points |-> [n \in SetNumbers |-> [slot \in Slots |-> 0]],
                                   completed_set_count |-> 0,
                                   current_set_in_progress |-> FALSE]
    [] request.verb = "score_edit" -> [match EXCEPT !.points[request.set] = request.points]

Answer(match, neighbours, request) ==
  IF Legal(match, neighbours, request) THEN Applied(match, request) ELSE match

-----------------------------------------------------------------------------
(* The view of a match *)

\* The view the sets call for, were a match only over when all of them were played.
ViewKindOfSets(match) ==
  IF SetsIn(match, "IN_PROGRESS") # {} THEN "playing"
  ELSE IF SetsIn(match, "NOT_STARTED") = SetNumbers THEN "not_started"
  ELSE IF SetsIn(match, "NOT_STARTED") # {} THEN "between_sets" ELSE "completed"

\* A match that is over is over, though it may have sets that were never played.
ViewKind(match) ==
  IF StateOf(match) = "COMPLETED" THEN "completed" ELSE ViewKindOfSets(match)

\* The set that is played, none (0) when the view is another.
ActiveSet(match) ==
  IF ViewKind(match) = "playing" THEN CHOOSE n \in SetsIn(match, "IN_PROGRESS") : TRUE ELSE 0

CombinedScore(match) ==
  IF ActiveSet(match) = 0 THEN 0
  ELSE match.points[ActiveSet(match)][1] + match.points[ActiveSet(match)][2]

PointLimit(set) == IF set = MaxSets THEN LastSetMaxPoints ELSE MaxPoints

EndSetDisabled(set, points) ==
  \/ points[1] < PointLimit(set) /\ points[2] < PointLimit(set)
  \/ TwoPointAdvantage /\ points[1] - points[2] \in -1..1
  \/ ~DrawsAllowed /\ points[1] = points[2]

\* nextScoresAfterAdjust: the whole score of the set is sent, not the step.
NextScores(points, slot, delta) ==
  [points EXCEPT ![slot] = IF @ + delta < 0 THEN 0 ELSE @ + delta]

Simple(verb) == [verb |-> verb]
ScoreEdit(set, points) == [verb |-> "score_edit", set |-> set, points |-> points]

\* What can be asked for on the page: the buttons of the view.
OfferedVerbs(match) ==
  CASE ViewKind(match) = "not_started"  -> {Simple("start")}
    [] ViewKind(match) = "between_sets" -> {Simple("start"), Simple("reopen")}
    [] ViewKind(match) = "completed"    -> {Simple("reopen")}
    [] ViewKind(match) = "playing" ->
         IF EndSetDisabled(ActiveSet(match), match.points[ActiveSet(match)])
         THEN {} ELSE {Simple("end")}

OfferedScores(match, steps) ==
  IF ActiveSet(match) = 0 THEN {}
  ELSE {ScoreEdit(ActiveSet(match), NextScores(match.points[ActiveSet(match)], step[1], step[2])) :
          step \in steps}

\* The verbs of the match dialog.
DialogVerbs(match) ==
  {Simple(verb) : verb \in
     {v \in {"start", "end", "reopen"} :
        \/ v = "start" /\ SetsIn(match, "IN_PROGRESS") = {}
           /\ Cardinality(SetsIn(match, "COMPLETED")) < MaxSets /\ StateOf(match) # "COMPLETED"
        \/ v = "end" /\ SetsIn(match, "IN_PROGRESS") # {}
        \/ v = "reopen" /\ SetsIn(match, "COMPLETED") # {}}}

-----------------------------------------------------------------------------
(* The reminder to switch sides *)

NoScore == -1        \* null, of a remembered score

Due(score) == score > 0 /\ score % SideSwitchEvery = 0

\* What the page remembers on its first render of a match.
FirstReminder(match) ==
  [shown |-> Due(CombinedScore(match)), dismissed |-> NoScore,
   score |-> CombinedScore(match), set |-> ActiveSet(match)]

\* computeSideSwitchState after a change of the score.
Reminded(reminder, score) ==
  LET dismissed == IF reminder.dismissed # NoScore /\ score > reminder.dismissed
                   THEN NoScore ELSE reminder.dismissed
  IN [shown |-> Due(score) /\ score > reminder.score /\ dismissed # score,
      dismissed |-> dismissed]

\* Mutant: the reminder stays when the set changes.
NextReminderAcrossSets(reminder, match) ==
  IF reminder.set \notin {0, ActiveSet(match)}
  THEN [reminder EXCEPT !.score = CombinedScore(match), !.set = ActiveSet(match)]
  ELSE [shown |-> Reminded(reminder, CombinedScore(match)).shown,
        dismissed |-> Reminded(reminder, CombinedScore(match)).dismissed,
        score |-> CombinedScore(match), set |-> ActiveSet(match)]

\* The effect that runs when the match has changed.
NextReminder(reminder, match) ==
  IF reminder.set \notin {0, ActiveSet(match)}
  THEN [shown |-> FALSE, dismissed |-> NoScore,
        score |-> CombinedScore(match), set |-> ActiveSet(match)]
  ELSE [shown |-> Reminded(reminder, CombinedScore(match)).shown,
        dismissed |-> Reminded(reminder, CombinedScore(match)).dismissed,
        score |-> CombinedScore(match), set |-> ActiveSet(match)]

\* The button that switches sides, while the reminder is shown.
Acknowledged(reminder) ==
  [shown |-> FALSE, dismissed |-> reminder.score, score |-> reminder.score, set |-> reminder.set]

=============================================================================
