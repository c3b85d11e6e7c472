-------------------------- MODULE ScorePagesProofs --------------------------
(***************************************************************************)
(* Proofs about a tracked match, for any number of sets, any points, any   *)
(* number of trackers and of taps.                                         *)
(***************************************************************************)
EXTENDS ScorePages, FiniteSetTheorems, WellFoundedInduction, TLAPS

-----------------------------------------------------------------------------
(* One match: where its sets stand, and what may be asked of it *)

Points == [Slots -> Nat]

Asks == {Simple(verb) : verb \in {"start", "end", "reopen", "reset"}}
        \cup {ScoreEdit(n, points) : n \in SetNumbers, points \in Points}

\* The sets of a match in order: completed ones, the one in progress, the rest.
LEMMA SetsInOrder ==
    ASSUME NEW m \in FittingMatches
    PROVE  /\ m.completed_set_count \in 0..MaxSets /\ m.current_set_in_progress \in BOOLEAN
           /\ m.points \in [SetNumbers -> Points]
           /\ SetsIn(m, "COMPLETED") = 1..m.completed_set_count
           /\ SetsIn(m, "IN_PROGRESS") =
                IF m.current_set_in_progress THEN {m.completed_set_count + 1} ELSE {}
           /\ \A n \in SetNumbers :
                n \in SetsIn(m, "NOT_STARTED") <=>
                  n > m.completed_set_count
                  /\ ~(n = m.completed_set_count + 1 /\ m.current_set_in_progress)
<1>1. m \in TrackedMatches /\ (m.current_set_in_progress => m.completed_set_count < MaxSets)
  BY DEF FittingMatches
<1>2. /\ m.completed_set_count \in 0..MaxSets /\ m.current_set_in_progress \in BOOLEAN
      /\ m.points \in [SetNumbers -> Points]
  BY <1>1 DEF TrackedMatches, Points
<1>3. SetsIn(m, "COMPLETED") = 1..m.completed_set_count
  BY <1>2, MaxSetsAssumption DEF SetsIn, SetState, SetNumbers
<1>4. SetsIn(m, "IN_PROGRESS") =
        IF m.current_set_in_progress THEN {m.completed_set_count + 1} ELSE {}
  BY <1>1, <1>2, MaxSetsAssumption DEF SetsIn, SetState, SetNumbers
<1>5. \A n \in SetNumbers :
        n \in SetsIn(m, "NOT_STARTED") <=>
          n > m.completed_set_count
          /\ ~(n = m.completed_set_count + 1 /\ m.current_set_in_progress)
  BY <1>1, <1>2, MaxSetsAssumption DEF SetsIn, SetState, SetNumbers
<1> QED
  BY <1>2, <1>3, <1>4, <1>5

\* A step on a score leaves points.
LEMMA NextScoresFit ==
    ASSUME NEW points \in Points, NEW slot \in Slots, NEW delta \in {-1, 1}
    PROVE  NextScores(points, slot, delta) \in Points
<1>1. points[slot] \in Nat
  BY DEF Points
<1>2. (IF points[slot] + delta < 0 THEN 0 ELSE points[slot] + delta) \in Nat
  BY <1>1
<1> QED
  BY <1>2 DEF NextScores, Points

\* What the server makes of a request is a match again.
LEMMA AnswerFits ==
    ASSUME NEW m \in FittingMatches, NEW around, NEW ask \in Asks
    PROVE  Answer(m, around, ask) \in FittingMatches
<1> USE MaxSetsAssumption DEF FittingMatches, TrackedMatches
<1>1. CASE ~Legal(m, around, ask)
  BY <1>1 DEF Answer
<1>2. CASE Legal(m, around, ask) /\ ask.verb = "start"
  BY <1>2, SetsInOrder DEF Answer, Legal, Applied, Started, MayStart, Row
<1>3. CASE Legal(m, around, ask) /\ ask.verb = "end"
  <2>1. Answer(m, around, ask) = Ended(m) /\ m.current_set_in_progress
    BY <1>3 DEF Answer, Legal, Applied, MayEnd
  <2>2. m.completed_set_count + 1 \in 0..MaxSets
    BY <2>1
  <2> QED
    BY <2>1, <2>2 DEF Ended
<1>4. CASE Legal(m, around, ask) /\ ask.verb = "reopen"
  <2>1. Answer(m, around, ask) = Reopened(m) /\ m.completed_set_count > 0
    BY <1>4 DEF Answer, Legal, Applied, MayReopen
  <2>2. m.completed_set_count - 1 \in 0..MaxSets /\ m.completed_set_count - 1 < MaxSets
    BY <2>1
  <2> QED
    BY <2>1, <2>2 DEF Reopened
<1>5. CASE Legal(m, around, ask) /\ ask.verb = "reset"
  BY <1>5 DEF Answer, Legal, Applied
<1>6. CASE Legal(m, around, ask) /\ ask.verb = "score_edit"
  <2>1. ask.set \in SetNumbers /\ ask.points \in [Slots -> Nat]
    BY <1>6 DEF Asks, Simple, ScoreEdit, Points
  <2>2. Answer(m, around, ask) = [m EXCEPT !.points[ask.set] = ask.points]
    BY <1>6 DEF Answer, Applied
  <2> QED
    BY <2>1, <2>2
<1>7. ask.verb \in {"start", "end", "reopen", "reset", "score_edit"}
  BY DEF Asks, Simple, ScoreEdit
<1> QED
  BY <1>1, <1>2, <1>3, <1>4, <1>5, <1>6, <1>7

\* The rows of a tracked match say of its sets what the match says.
LEMMA RowOfMatch ==
    ASSUME NEW m
    PROVE  /\ Row(m).rows = SetNumbers
           /\ \A n : SetState(Row(m), n) = SetState(m, n)
           /\ \A n \in SetNumbers : Row(m).score[n] = Favours(m.points[n])
BY DEF Row, SetState

\* A match of which no set has started is not decided.
LEMMA NoSetsNoWinner ==
    ASSUME NEW row, \A n \in row.rows : SetState(row, n) # "COMPLETED", row.rows = SetNumbers
    PROVE  ~IsMatchDecided(row, PlayAllSets)
<1>1. \A side : {n \in row.rows : SetState(row, n) = "COMPLETED" /\ row.score[n] = side} = {}
  OBVIOUS
<1>2. \A side : SetWins(row, side) = 0
  BY <1>1, FS_EmptySet DEF SetWins
<1>3. Cardinality(row.rows) = MaxSets
  BY FS_Interval, MaxSetsAssumption DEF SetNumbers
<1>4. ~(0 >= (MaxSets \div 2) + 1)
  BY MaxSetsAssumption
<1> QED
  BY <1>2, <1>3, <1>4 DEF IsMatchDecided

\* While a set is open to be started, a match that is not over is undecided, and only
\* its opponents can be missing.
LEMMA NotOverMayStart ==
    ASSUME NEW m \in FittingMatches, StateOf(m) # "COMPLETED", ~m.current_set_in_progress,
           m.completed_set_count < MaxSets, NEW around
    PROVE  Legal(m, around, Simple("start")) \/ Unopposed(m, around, Simple("start"))
<1> DEFINE row == Row(m)
           states == {SetState(row, n) : n \in row.rows}
<1>1. "IN_PROGRESS" \notin states
  BY RowOfMatch DEF SetState
<1>2. ~IsMatchDecided(row, PlayAllSets)
  <2>1. CASE states \subseteq {"NOT_STARTED"}
    <3>1. \A n \in row.rows : SetState(row, n) # "COMPLETED"
      BY <2>1
    <3> QED
      BY <3>1, NoSetsNoWinner, RowOfMatch
  <2>2. CASE ~(states \subseteq {"NOT_STARTED"})
    BY <1>1, <2>2 DEF StateOf, DeriveMatchState
  <2> QED
    BY <2>1, <2>2
<1>3. row.current_set_in_progress = m.current_set_in_progress
      /\ row.completed_set_count = m.completed_set_count
  BY DEF Row
<1>4. MayStart(row, MaxSets, PlayAllSets)
  BY <1>2, <1>3 DEF MayStart
<1> QED
  BY <1>4 DEF Legal, Simple

\* A match that is over has a set that may be reopened.
LEMMA OverHasCompleted ==
    ASSUME NEW m \in FittingMatches, StateOf(m) = "COMPLETED"
    PROVE  m.completed_set_count > 0 /\ ~m.current_set_in_progress
<1> DEFINE row == Row(m)
           states == {SetState(row, n) : n \in row.rows}
<1>1. /\ ~(states \subseteq {"NOT_STARTED"})
      /\ states = {"COMPLETED"} \/ "IN_PROGRESS" \notin states
  BY DEF StateOf, DeriveMatchState
<1>2. "IN_PROGRESS" \notin states
  BY <1>1
<1>3. \A n \in SetNumbers : SetState(m, n) # "IN_PROGRESS"
  BY <1>2, RowOfMatch
<1>4. PICK n \in SetNumbers : SetState(m, n) # "NOT_STARTED"
  BY <1>1, RowOfMatch
<1>5. SetState(m, n) = "COMPLETED"
  BY <1>3, <1>4 DEF SetState
<1>6. n \in SetsIn(m, "COMPLETED") /\ SetsIn(m, "IN_PROGRESS") = {}
  BY <1>3, <1>5 DEF SetsIn
<1>7. n \in 1..m.completed_set_count /\ ~m.current_set_in_progress
  BY <1>6, SetsInOrder
<1> QED
  BY <1>7, SetsInOrder

\* What the page shows is where the pointer of the match stands.
LEMMA ViewOfPointer ==
    ASSUME NEW m \in FittingMatches
    PROVE  /\ ViewKind(m) = "playing" => m.current_set_in_progress
                                         /\ ActiveSet(m) = m.completed_set_count + 1
           /\ ViewKind(m) # "playing" => ActiveSet(m) = 0
           /\ ViewKind(m) \in {"completed", "between_sets"} => m.completed_set_count > 0
           /\ ViewKind(m) \in {"not_started", "between_sets"} =>
                /\ StateOf(m) # "COMPLETED" /\ ~m.current_set_in_progress
                /\ m.completed_set_count < MaxSets
<1> USE SetsInOrder, MaxSetsAssumption
<1>1. ViewKind(m) = "playing" => SetsIn(m, "IN_PROGRESS") # {}
  BY DEF ViewKind, ViewKindOfSets
<1>2. ViewKind(m) = "playing" => m.current_set_in_progress
                                 /\ ActiveSet(m) = m.completed_set_count + 1
  BY <1>1 DEF ActiveSet
<1>3. ViewKind(m) # "playing" => ActiveSet(m) = 0
  BY DEF ActiveSet
<1>4. ViewKind(m) = "not_started" =>
        /\ StateOf(m) # "COMPLETED" /\ SetsIn(m, "IN_PROGRESS") = {}
        /\ SetsIn(m, "NOT_STARTED") = SetNumbers
  BY DEF ViewKind, ViewKindOfSets
<1>5. ViewKind(m) = "between_sets" =>
        /\ StateOf(m) # "COMPLETED" /\ SetsIn(m, "IN_PROGRESS") = {}
        /\ SetsIn(m, "NOT_STARTED") \notin {{}, SetNumbers}
  BY DEF ViewKind, ViewKindOfSets
<1>6. SetsIn(m, "NOT_STARTED") # {} => m.completed_set_count < MaxSets
  BY DEF SetsIn, SetNumbers
<1>7. SetNumbers # {}
  BY DEF SetNumbers
<1>8. ViewKind(m) = "between_sets" => m.completed_set_count > 0
  BY <1>5, MaxSetsAssumption DEF SetNumbers, SetsIn
<1>9. ViewKind(m) = "completed" => m.completed_set_count > 0
  <2>1. CASE StateOf(m) = "COMPLETED"
    BY <2>1, OverHasCompleted
  <2>2. CASE StateOf(m) # "COMPLETED" /\ ViewKind(m) = "completed"
    <3>1. SetsIn(m, "IN_PROGRESS") = {} /\ SetsIn(m, "NOT_STARTED") # SetNumbers
      BY <2>2 DEF ViewKind, ViewKindOfSets
    <3>2. PICK n \in SetNumbers : n \notin SetsIn(m, "NOT_STARTED")
      BY <3>1 DEF SetsIn
    <3> QED
      BY <3>1, <3>2 DEF SetNumbers
  <2> QED
    BY <2>1, <2>2
<1> QED
  BY <1>2, <1>3, <1>4, <1>5, <1>6, <1>7, <1>8, <1>9

\* The points of the set that is played, when "End" is offered, are no draw unless
\* draws are allowed.
LEMMA EndOfferedLegal ==
    ASSUME NEW m \in FittingMatches, ViewKind(m) = "playing",
           ~EndSetDisabled(ActiveSet(m), m.points[ActiveSet(m)]), NEW around
    PROVE  Legal(m, around, Simple("end"))
<1> DEFINE points == m.points[ActiveSet(m)]
<1>1. /\ m.current_set_in_progress /\ ActiveSet(m) = m.completed_set_count + 1
      /\ m.completed_set_count \in 0..MaxSets
  BY ViewOfPointer, SetsInOrder
<1>2. ActiveSet(m) \in SetNumbers
  BY <1>1, MaxSetsAssumption DEF FittingMatches, SetNumbers
<1>3. points[1] \in Nat /\ points[2] \in Nat
  BY <1>2, SetsInOrder DEF Points, Slots
<1>4. DrawsAllowed \in BOOLEAN
  BY TrackingAssumption
<1>5. Favours(points) = "Draw" => DrawsAllowed
  BY <1>3, <1>4 DEF EndSetDisabled, Favours
<1>6. \A n \in SetNumbers : SetState(m, n) = "IN_PROGRESS" => n = ActiveSet(m)
  BY <1>1 DEF SetState
<1>7. EndAllowed(Row(m), DrawsAllowed)
  BY <1>5, <1>6, RowOfMatch DEF EndAllowed
<1> QED
  BY <1>1, <1>7 DEF Legal, Simple, MayEnd

\* What the page of a match offers is accepted for it, but for missing opponents.
LEMMA OfferedLegal ==
    ASSUME NEW m \in FittingMatches, NEW steps, steps \subseteq Slots \X {-1, 1},
           NEW ask \in OfferedVerbs(m) \cup OfferedScores(m, steps), NEW around
    PROVE  ask \in Asks /\ (Legal(m, around, ask) \/ Unopposed(m, around, ask))
<1> USE SetsInOrder, ViewOfPointer
<1>1. CASE ask \in OfferedScores(m, steps)
  <2>1. ActiveSet(m) # 0
    BY <1>1 DEF OfferedScores
  <2>2. /\ m.current_set_in_progress /\ ActiveSet(m) = m.completed_set_count + 1
        /\ ActiveSet(m) \in SetNumbers
    BY <2>1, MaxSetsAssumption DEF FittingMatches, SetNumbers
  <2>3. PICK step \in steps : ask = ScoreEdit(ActiveSet(m),
            NextScores(m.points[ActiveSet(m)], step[1], step[2]))
    BY <1>1, <2>1 DEF OfferedScores
  <2>4. NextScores(m.points[ActiveSet(m)], step[1], step[2]) \in Points
    <3>1. step[1] \in Slots /\ step[2] \in {-1, 1}
      BY <2>3
    <3>2. m.points[ActiveSet(m)] \in Points
      BY <2>2
    <3> QED
      BY <3>1, <3>2, NextScoresFit
  <2>5. SetState(m, ActiveSet(m)) # "COMPLETED"
    BY <2>2 DEF SetState
  <2> QED
    BY <2>2, <2>3, <2>4, <2>5 DEF Asks, ScoreEdit, Legal, ScoreEditAllowed
<1>2. CASE ask = Simple("start") /\ ViewKind(m) \in {"not_started", "between_sets"}
  BY <1>2, NotOverMayStart DEF Asks
<1>3. CASE ask = Simple("reopen") /\ ViewKind(m) \in {"completed", "between_sets"}
  BY <1>3 DEF Legal, MayReopen, Simple, Asks
<1>4. CASE ask = Simple("end") /\ ask \in OfferedVerbs(m)
  <2>1. ViewKind(m) = "playing" /\ ~EndSetDisabled(ActiveSet(m), m.points[ActiveSet(m)])
    <3>1. Simple("end") # Simple("start") /\ Simple("end") # Simple("reopen")
      BY DEF Simple
    <3>2. ViewKind(m) \in {"not_started", "between_sets", "completed", "playing"}
      BY DEF ViewKind, ViewKindOfSets
    <3> QED
      BY <1>4, <3>1, <3>2 DEF OfferedVerbs
  <2> QED
    BY <1>4, <2>1, EndOfferedLegal DEF Asks
<1>5. ViewKind(m) \in {"not_started", "between_sets", "completed", "playing"}
  BY DEF ViewKind, ViewKindOfSets
<1>6. ask \in OfferedVerbs(m) =>
        \/ ask = Simple("start") /\ ViewKind(m) \in {"not_started", "between_sets"}
        \/ ask = Simple("reopen") /\ ViewKind(m) \in {"completed", "between_sets"}
        \/ ask = Simple("end")
  BY <1>5 DEF OfferedVerbs
<1> QED
  BY <1>1, <1>2, <1>3, <1>4, <1>6

\* So is what the match dialog offers, but for the end of a draw.
LEMMA DialogLegal ==
    ASSUME NEW m \in FittingMatches, NEW ask \in DialogVerbs(m), NEW around
    PROVE  /\ ask \in Asks
           /\ ask # Simple("end") => Legal(m, around, ask) \/ Unopposed(m, around, ask)
<1> USE SetsInOrder
<1>1. PICK verb \in {"start", "end", "reopen"} :
        /\ ask = Simple(verb)
        /\ \/ verb = "start" /\ SetsIn(m, "IN_PROGRESS") = {}
              /\ Cardinality(SetsIn(m, "COMPLETED")) < MaxSets /\ StateOf(m) # "COMPLETED"
           \/ verb = "end" /\ SetsIn(m, "IN_PROGRESS") # {}
           \/ verb = "reopen" /\ SetsIn(m, "COMPLETED") # {}
  BY DEF DialogVerbs
<1>2. CASE verb = "start"
  <2>1. ~m.current_set_in_progress /\ Cardinality(1..m.completed_set_count) < MaxSets
    BY <1>1, <1>2
  <2>2. Cardinality(1..m.completed_set_count) = m.completed_set_count
    BY FS_Interval
  <2> QED
    BY <1>1, <1>2, <2>1, <2>2, NotOverMayStart DEF Asks
<1>3. CASE verb = "reopen"
  BY <1>1, <1>3, MaxSetsAssumption DEF Legal, MayReopen, Simple, Asks
<1> QED
  BY <1>1, <1>2, <1>3 DEF Asks

-----------------------------------------------------------------------------
(* The pages: what each of them knows is a match, and a reminder is about  *)
(* the view it is shown with                                               *)

Page     == [view : FittingMatches, stage : PageStages, awaits : Nat]
Reminder == [shown : BOOLEAN, dismissed : Int, score : Nat, set : 0..MaxSets]
Dialog   == [stage : DialogStages, form : [SetNumbers -> Points],
             shown : SUBSET FittingMatches, typed : SUBSET SetNumbers,
             edits : SUBSET SetNumbers, verb : {"none", "start", "end", "reopen", "reset"}]

ServerInv ==
    /\ match \in FittingMatches /\ neighbours \in Neighbours
    /\ \A r \in requests : r.ask \in Asks

TrackersInv ==
    /\ page \in [Tracking -> Page] /\ fetch \in [Tracking -> SUBSET FittingMatches]
    /\ reminder \in [Tracking -> Reminder]
    /\ taps \in Nat

DialogInv ==
    /\ dialog \in Dialog
    /\ dialog.stage \notin {"absent", "closed"} => dialog.shown # {}

PagesInv == ServerInv /\ TrackersInv /\ DialogInv /\ ReminderMeansSwitchDue

\* The points of the set in play are a number, and that set is one of the match.
LEMMA ScoreOfView ==
    ASSUME NEW m \in FittingMatches
    PROVE  /\ CombinedScore(m) \in Nat /\ ActiveSet(m) \in 0..MaxSets
           /\ Due(CombinedScore(m)) \in BOOLEAN
           /\ Due(CombinedScore(m)) => ActiveSet(m) # 0
<1>1. ActiveSet(m) \in 0..MaxSets
  <2>1. m.completed_set_count \in 0..MaxSets
        /\ (m.current_set_in_progress => m.completed_set_count < MaxSets)
    BY SetsInOrder DEF FittingMatches
  <2> QED
    BY <2>1, ViewOfPointer, MaxSetsAssumption
<1>2. CombinedScore(m) \in Nat
  <2>1. CASE ActiveSet(m) = 0
    BY <2>1 DEF CombinedScore
  <2>2. CASE ActiveSet(m) # 0
    <3>1. m.points[ActiveSet(m)] \in Points
      BY <1>1, <2>2, SetsInOrder, MaxSetsAssumption DEF SetNumbers
    <3>2. m.points[ActiveSet(m)][1] \in Nat /\ m.points[ActiveSet(m)][2] \in Nat
      BY <3>1 DEF Points, Slots
    <3> QED
      BY <2>2, <3>2 DEF CombinedScore
  <2> QED
    BY <2>1, <2>2
<1>3. Due(CombinedScore(m)) => ActiveSet(m) # 0
  BY DEF Due, CombinedScore
<1> QED
  BY <1>1, <1>2, <1>3 DEF Due

\* A reminder that is worked out for a match is about that match.
LEMMA RemindersFit ==
    ASSUME NEW m \in FittingMatches
    PROVE  /\ FirstReminder(m) \in Reminder
           /\ FirstReminder(m).shown => Due(CombinedScore(m))
           /\ \A r \in Reminder : NextReminder(r, m) \in Reminder
                                  /\ (NextReminder(r, m).shown => Due(CombinedScore(m)))
<1>1. FirstReminder(m) \in Reminder /\ (FirstReminder(m).shown => Due(CombinedScore(m)))
  BY ScoreOfView DEF FirstReminder, Reminder, NoScore
<1>2. ASSUME NEW r \in Reminder
      PROVE  NextReminder(r, m) \in Reminder
             /\ (NextReminder(r, m).shown => Due(CombinedScore(m)))
  <2>1. CASE r.set \notin {0, ActiveSet(m)}
    BY <2>1, ScoreOfView DEF NextReminder, Reminder, NoScore
  <2>2. CASE r.set \in {0, ActiveSet(m)}
    <3>1. Reminded(r, CombinedScore(m)).dismissed \in Int
      BY ScoreOfView DEF Reminded, Reminder, NoScore
    <3>2. /\ Reminded(r, CombinedScore(m)).shown \in BOOLEAN
          /\ Reminded(r, CombinedScore(m)).shown => Due(CombinedScore(m))
      BY ScoreOfView DEF Reminded
    <3> QED
      BY <2>2, <3>1, <3>2, ScoreOfView DEF NextReminder, Reminder
  <2> QED
    BY <2>1, <2>2
<1> QED
  BY <1>1, <1>2

\* The page that awaits a request goes on; no view changes.
LEMMA OverKeeps ==
    ASSUME TrackersInv, NEW ids, Over(ids)
    PROVE  /\ page' \in [Tracking -> Page] /\ Tracking' = Tracking
           /\ \A t \in Tracking : page'[t].view = page[t].view
<1>1. \A t \in Tracking : page[t] \in Page
  BY DEF TrackersInv
<1>2. \A t \in Tracking : [page[t] EXCEPT !.stage = "answered", !.awaits = 0] \in Page
  BY <1>1 DEF Page, PageStages
<1>3. page' \in [Tracking -> Page]
  BY <1>1, <1>2 DEF Over
<1>4. \A t \in Tracking : page'[t].view = page[t].view
  BY <1>1 DEF Over, Page
<1> QED
  BY <1>3, <1>4 DEF Tracking

\* A closed dialog keeps the types of a dialog.
LEMMA ClosedFits ==
    /\ Closed \in Dialog
    /\ \A stage \in {"absent", "closed"} : [Closed EXCEPT !.stage = stage] \in Dialog
<1>1. NoForm \in [SetNumbers -> Points]
  BY DEF NoForm, Points
<1> QED
  BY <1>1 DEF Closed, Dialog, DialogStages

\* The pages as they are opened.
LEMMA PagesInit == Init => PagesInv
<1> SUFFICES ASSUME Init PROVE PagesInv
  OBVIOUS
<1>1. match \in FittingMatches
  BY PagesAssumption DEF Init
<1> PICK crew \in Crews :
       /\ page = [t \in crew \cap Trackers |-> Fresh(match)]
       /\ fetch = [t \in crew \cap Trackers |-> {}]
       /\ reminder = [t \in crew \cap Trackers |-> FirstReminder(match)]
       /\ dialog = [Closed EXCEPT !.stage = IF Organiser \in crew THEN "closed" ELSE "absent"]
  BY DEF Init
<1>2. Tracking = crew \cap Trackers
  BY DEF Tracking
<1>3. Fresh(match) \in Page
  BY <1>1 DEF Fresh, Page, PageStages
<1>4. TrackersInv
  BY <1>1, <1>2, <1>3, RemindersFit DEF Init, TrackersInv
<1>5. DialogInv
  BY ClosedFits DEF DialogInv, Closed
<1>6. \A t \in Tracking : page[t].view = match /\ reminder[t] = FirstReminder(match)
  BY <1>2 DEF Fresh
<1>7. ReminderMeansSwitchDue
  BY <1>1, <1>6, RemindersFit, ScoreOfView DEF ReminderMeansSwitchDue
<1>8. ServerInv
  BY <1>1 DEF Init, ServerInv
<1> QED
  BY <1>4, <1>5, <1>7, <1>8 DEF PagesInv

\* What leaves views and reminders alone keeps the reminders about their views.
LEMMA ViewsStand ==
    ASSUME PagesInv, UNCHANGED reminder, Tracking' = Tracking,
           \A t \in Tracking : page'[t].view = page[t].view
    PROVE  ReminderMeansSwitchDue'
BY DEF PagesInv, ReminderMeansSwitchDue

\* A tap sends a request that fits the match and leaves what is shown alone.
LEMMA TapKeeps ==
    ASSUME PagesInv, NEW t \in Tracking, Tap(t)
    PROVE  PagesInv'
<1>1. page[t] \in Page /\ \A o \in Tracking : page[o] \in Page
  BY DEF PagesInv, TrackersInv
<1>2. /\ page' = [page EXCEPT ![t].stage = "asking", ![t].awaits = taps + 1]
      /\ taps' = taps + 1 /\ UNCHANGED <<match, neighbours, fetch, reminder, dialog>>
  BY DEF Tap
<1>3. /\ page' \in [Tracking -> Page] /\ Tracking' = Tracking
      /\ \A o \in Tracking : page'[o].view = page[o].view
  <2> DEFINE asking == [page[t] EXCEPT !.stage = "asking", !.awaits = taps + 1]
  <2>1. taps + 1 \in Nat
    BY DEF PagesInv, TrackersInv
  <2>2. asking \in Page /\ asking.view = page[t].view
    BY <1>1, <2>1 DEF Page, PageStages
  <2>3. page' = [page EXCEPT ![t] = asking]
    BY <1>1, <1>2 DEF Tracking
  <2> HIDE DEF asking
  <2>4. page \in [Tracking -> Page]
    BY DEF PagesInv, TrackersInv
  <2> QED
    BY <2>2, <2>3, <2>4 DEF Tracking
<1>4. TrackersInv'
  BY <1>2, <1>3 DEF PagesInv, TrackersInv
<1>5. PICK ask \in OfferedVerbs(page[t].view) \cup OfferedScores(page[t].view, Steps) :
         requests' = requests \cup {[id |-> taps + 1, from |-> t, ask |-> ask]}
  BY DEF Tap
<1>6. ask \in Asks
  BY <1>1, OfferedLegal, PagesAssumption DEF Page
<1>7. ServerInv'
  BY <1>2, <1>5, <1>6 DEF PagesInv, ServerInv
<1>8. DialogInv'
  BY <1>2 DEF PagesInv, DialogInv
<1> QED
  BY <1>2, <1>3, <1>4, <1>7, <1>8, ViewsStand DEF PagesInv

\* The steps of a request that is under way.
LEMMA RequestKeeps ==
    ASSUME PagesInv, NEW r \in requests, Serve(r) \/ LoseRequest(r) \/ BreakConnection(r)
    PROVE  PagesInv'
<1>1. /\ Over({r.id}) /\ UNCHANGED <<neighbours, fetch, reminder, dialog, taps>>
      /\ requests' \subseteq requests
  BY DEF Serve, LoseRequest, BreakConnection, Faulty, counts
<1>2. match' \in FittingMatches
  <2>1. CASE Serve(r)
    BY <2>1, AnswerFits DEF PagesInv, ServerInv, Serve
  <2>2. CASE ~Serve(r)
    BY <2>2 DEF PagesInv, ServerInv, LoseRequest, BreakConnection
  <2> QED
    BY <2>1, <2>2
<1>3. /\ page' \in [Tracking -> Page] /\ Tracking' = Tracking
      /\ \A t \in Tracking : page'[t].view = page[t].view
  BY <1>1, OverKeeps DEF PagesInv
<1>4. TrackersInv'
  BY <1>1, <1>3 DEF PagesInv, TrackersInv
<1>5. ServerInv' /\ DialogInv'
  BY <1>1, <1>2 DEF PagesInv, ServerInv, DialogInv
<1> QED
  BY <1>1, <1>3, <1>4, <1>5, ViewsStand DEF PagesInv

\* A page whose stage changes, and its read with it.
LEMMA StageKeeps ==
    ASSUME PagesInv, NEW t \in Tracking, NEW stage \in PageStages,
           NEW read \in SUBSET FittingMatches,
           page' = [page EXCEPT ![t].stage = stage], fetch' = [fetch EXCEPT ![t] = read],
           UNCHANGED <<match, neighbours, reminder, requests, dialog, taps>>
    PROVE  PagesInv'
<1> DEFINE next == [page[t] EXCEPT !.stage = stage]
<1>1. page \in [Tracking -> Page] /\ fetch \in [Tracking -> SUBSET FittingMatches]
  BY DEF PagesInv, TrackersInv
<1>2. next \in Page /\ next.view = page[t].view
  BY <1>1 DEF Page
<1>3. page' = [page EXCEPT ![t] = next]
  BY <1>1
<1> HIDE DEF next
<1>4. /\ page' \in [Tracking -> Page] /\ Tracking' = Tracking
      /\ \A o \in Tracking : page'[o].view = page[o].view
  BY <1>1, <1>2, <1>3 DEF Tracking
<1>5. fetch' \in [Tracking -> SUBSET FittingMatches]
  BY <1>1
<1>6. TrackersInv'
  BY <1>4, <1>5 DEF PagesInv, TrackersInv
<1>7. ServerInv' /\ DialogInv'
  BY DEF PagesInv, ServerInv, DialogInv
<1> QED
  BY <1>4, <1>6, <1>7, ViewsStand DEF PagesInv

\* What the page shows and its reminder change together.
LEMMA ReceiveKeeps ==
    ASSUME PagesInv, NEW t \in Tracking, Receive(t)
    PROVE  PagesInv'
<1>1. page \in [Tracking -> Page] /\ fetch \in [Tracking -> SUBSET FittingMatches]
      /\ reminder \in [Tracking -> Reminder] /\ taps \in Nat
  BY DEF PagesInv, TrackersInv
<1> PICK m \in fetch[t] :
       /\ fetch' = [fetch EXCEPT ![t] = {}]
       /\ page' = [page EXCEPT ![t].view = m, ![t].stage = Saved(@)]
       /\ reminder' = IF m = page[t].view THEN reminder
                      ELSE [reminder EXCEPT ![t] = NextReminder(@, m)]
       /\ UNCHANGED <<match, neighbours, requests, dialog, taps>>
  BY DEF Receive, counts
<1> DEFINE next == [page[t] EXCEPT !.view = m, !.stage = Saved(@)]
<1>2. m \in FittingMatches
  BY <1>1
<1>3. next \in Page /\ next.view = m
  BY <1>1, <1>2 DEF Page, Saved, PageStages
<1>4. page' = [page EXCEPT ![t] = next]
  BY <1>1
<1> HIDE DEF next
<1>5. page' \in [Tracking -> Page] /\ Tracking' = Tracking
      /\ page'[t].view = m /\ \A o \in Tracking \ {t} : page'[o].view = page[o].view
  BY <1>1, <1>3, <1>4 DEF Tracking
<1>6. NextReminder(reminder[t], m) \in Reminder
      /\ (NextReminder(reminder[t], m).shown => Due(CombinedScore(m)))
  BY <1>1, <1>2, RemindersFit
<1>7. reminder' \in [Tracking -> Reminder]
  BY <1>1, <1>6
<1>8. ReminderMeansSwitchDue'
  <2>1. ASSUME NEW o \in Tracking, o # t, reminder'[o].shown
        PROVE  ActiveSet(page'[o].view) # 0 /\ Due(CombinedScore(page'[o].view))
    BY <1>1, <1>5, <2>1 DEF PagesInv, ReminderMeansSwitchDue
  <2>2. ASSUME reminder'[t].shown
        PROVE  ActiveSet(m) # 0 /\ Due(CombinedScore(m))
    <3>1. CASE m = page[t].view
      BY <3>1, <2>2 DEF PagesInv, ReminderMeansSwitchDue
    <3>2. CASE m # page[t].view
      BY <3>2, <2>2, <1>1, <1>2, <1>6, ScoreOfView
    <3> QED
      BY <3>1, <3>2
  <2> QED
    BY <1>5, <2>1, <2>2 DEF ReminderMeansSwitchDue
<1>9. fetch' \in [Tracking -> SUBSET FittingMatches]
  BY <1>1
<1>10. TrackersInv'
  BY <1>1, <1>5, <1>7, <1>9 DEF TrackersInv
<1>11. ServerInv' /\ DialogInv'
  BY DEF PagesInv, ServerInv, DialogInv
<1> QED
  BY <1>8, <1>10, <1>11 DEF PagesInv

\* Acknowledging a reminder takes it away.
LEMMA SwitchSidesKeeps ==
    ASSUME PagesInv, NEW t \in Tracking, SwitchSides(t)
    PROVE  PagesInv'
<1>1. reminder \in [Tracking -> Reminder]
  BY DEF PagesInv, TrackersInv
<1>2. Acknowledged(reminder[t]) \in Reminder /\ ~Acknowledged(reminder[t]).shown
  <2>1. reminder[t] \in Reminder
    BY <1>1
  <2> QED
    BY <2>1 DEF Acknowledged, Reminder
<1>3. reminder' = [reminder EXCEPT ![t] = Acknowledged(reminder[t])]
      /\ UNCHANGED <<match, neighbours, page, fetch, requests, dialog, taps>>
  BY DEF SwitchSides, counts
<1>4. TrackersInv'
  BY <1>1, <1>2, <1>3 DEF PagesInv, TrackersInv, Tracking
<1>5. ReminderMeansSwitchDue'
  BY <1>1, <1>2, <1>3 DEF PagesInv, ReminderMeansSwitchDue, Tracking
<1>6. ServerInv' /\ DialogInv'
  BY <1>3 DEF PagesInv, ServerInv, DialogInv
<1> QED
  BY <1>4, <1>5, <1>6 DEF PagesInv

\* A reloaded page shows the match, and the reminder of a first render.
LEMMA ReloadKeeps ==
    ASSUME PagesInv, NEW t \in Tracking, Reload(t)
    PROVE  PagesInv'
<1>1. page \in [Tracking -> Page] /\ fetch \in [Tracking -> SUBSET FittingMatches]
      /\ reminder \in [Tracking -> Reminder] /\ taps \in Nat /\ match \in FittingMatches
  BY DEF PagesInv, TrackersInv, ServerInv
<1>2. /\ page' = [page EXCEPT ![t] = Fresh(match)]
      /\ fetch' = [fetch EXCEPT ![t] = {}]
      /\ reminder' = [reminder EXCEPT ![t] = FirstReminder(match)]
      /\ UNCHANGED <<match, neighbours, requests, dialog, taps>>
  BY DEF Reload, Faulty
<1>3. Fresh(match) \in Page /\ Fresh(match).view = match
  BY <1>1 DEF Fresh, Page, PageStages
<1>4. page' \in [Tracking -> Page] /\ Tracking' = Tracking
  BY <1>1, <1>2, <1>3 DEF Tracking
<1>5. TrackersInv'
  <2>1. reminder' \in [Tracking -> Reminder]
    BY <1>1, <1>2, RemindersFit
  <2>2. fetch' \in [Tracking -> SUBSET FittingMatches] /\ taps' \in Nat
    BY <1>1, <1>2
  <2> QED
    BY <1>4, <2>1, <2>2 DEF TrackersInv
<1>6. ReminderMeansSwitchDue'
  <2>1. \A o \in Tracking \ {t} : page'[o] = page[o] /\ reminder'[o] = reminder[o]
    BY <1>1, <1>2
  <2>2. page'[t].view = match /\ reminder'[t] = FirstReminder(match)
    BY <1>1, <1>2, <1>3
  <2> QED
    BY <1>1, <1>4, <2>1, <2>2, RemindersFit, ScoreOfView DEF PagesInv, ReminderMeansSwitchDue
<1>7. ServerInv' /\ DialogInv'
  BY <1>2 DEF PagesInv, ServerInv, DialogInv
<1> QED
  BY <1>5, <1>6, <1>7 DEF PagesInv

\* What only the dialog takes part in.
LEMMA DialogKeeps ==
    ASSUME PagesInv, UNCHANGED <<page, fetch, reminder, requests, taps>>,
           match' \in FittingMatches, neighbours' \in Neighbours, DialogInv'
    PROVE  PagesInv'
<1>1. TrackersInv' /\ ServerInv'
  BY DEF PagesInv, TrackersInv, ServerInv, Tracking
<1>2. ReminderMeansSwitchDue'
  BY ViewsStand DEF Tracking
<1> QED
  BY <1>1, <1>2 DEF PagesInv

\* The dialog as the organiser submits it: what it sends is typed.
LEMMA SubmitsFits ==
    ASSUME PagesInv, dialog.stage = "open", NEW form \in Typed,
           NEW stage \in {"saving", "applying"},
           NEW verb \in {"none", "start", "end", "reopen", "reset"},
           Submits(stage, form, verb)
    PROVE  DialogInv'
<1>1. dialog \in Dialog /\ dialog.shown # {}
  BY DEF PagesInv, DialogInv
<1>2. form \in [SetNumbers -> Points]
  <2>1. CASE form = dialog.form
    BY <1>1, <2>1 DEF Dialog
  <2>2. ASSUME NEW n \in SetNumbers, NEW slot \in Corrections,
               form = [dialog.form EXCEPT ![n][slot] = @ + 1]
        PROVE  form \in [SetNumbers -> Points]
    <3>1. dialog.form \in [SetNumbers -> Points] /\ slot \in Slots
      BY <1>1, PagesAssumption DEF Dialog
    <3>2. dialog.form[n] \in Points /\ dialog.form[n][slot] + 1 \in Nat
      BY <3>1 DEF Points
    <3>3. [dialog.form[n] EXCEPT ![slot] = dialog.form[n][slot] + 1] \in Points
      BY <3>2 DEF Points
    <3>4. form = [dialog.form EXCEPT ![n] =
                     [dialog.form[n] EXCEPT ![slot] = dialog.form[n][slot] + 1]]
      BY <2>2, <3>1
    <3> QED
      BY <3>1, <3>3, <3>4
  <2> QED
    BY <2>1, <2>2 DEF Typed
<1>3. Differing(form, Shown.points) \subseteq SetNumbers
      /\ Differing(form, dialog.form) \subseteq SetNumbers
  BY DEF Differing
<1>4. stage \in DialogStages
  BY DEF DialogStages
<1>5. dialog' = [dialog EXCEPT !.stage = stage, !.form = form, !.verb = verb,
                               !.edits = IF verb = "reset" THEN {}
                                         ELSE Differing(form, Shown.points),
                               !.typed = @ \cup Differing(form, dialog.form)]
  BY DEF Submits
<1> QED
  BY <1>1, <1>2, <1>3, <1>4, <1>5 DEF DialogInv, Dialog

\* The three buttons of the dialog that submit it.
LEMMA SubmitKeeps ==
    ASSUME PagesInv, Save \/ Transition \/ Reset
    PROVE  PagesInv'
<1>1. /\ dialog.stage = "open"
      /\ UNCHANGED <<match, neighbours, page, fetch, reminder, requests, taps>>
  BY DEF Save, Transition, Reset, Submits, tracked
<1>2. dialog \in Dialog /\ Shown \in FittingMatches
  BY <1>1 DEF PagesInv, DialogInv, Dialog, Shown
<1>3. DialogInv'
  <2>1. CASE Save
    BY <1>1, <2>1, SubmitsFits DEF Save
  <2>2. CASE Transition
    <3>1. PICK form \in Typed, ask \in DialogVerbs(Shown) : Submits("applying", form, ask.verb)
      BY <2>2 DEF Transition
    <3>2. ask.verb \in {"start", "end", "reopen"}
      BY <3>1 DEF DialogVerbs, Simple
    <3> QED
      BY <1>1, <3>1, <3>2, SubmitsFits
  <2>3. CASE Reset
    BY <1>1, <2>3, SubmitsFits DEF Reset, Typed
  <2> QED
    BY <2>1, <2>2, <2>3, <1>1 DEF Save, Transition, Reset
<1>4. match' \in FittingMatches /\ neighbours' \in Neighbours
  BY <1>1 DEF PagesInv, ServerInv
<1> QED
  BY <1>1, <1>3, <1>4, DialogKeeps

\* The set whose score is sent next is one of those to be sent.
LEMMA LeastSet ==
    ASSUME NEW S \in SUBSET Nat, S # {}
    PROVE  \E n \in S : \A o \in S : n <= o
<1>1. PICK n \in S : \A o \in S : ~ (<<o, n>> \in OpToRel(<, Nat))
  BY NatLessThanWellFounded, WFMin
<1>2. \A o \in S : ~ (o < n)
  BY <1>1 DEF OpToRel
<1> QED
  BY <1>2

\* The requests of the dialog: a score it was typed for, or its verb.
LEMMA DialogRequestKeeps ==
    ASSUME PagesInv, ServeEdit \/ ServeVerb \/ LoseDialogRequest
    PROVE  PagesInv'
<1>1. dialog \in Dialog /\ match \in FittingMatches
      /\ (dialog.stage \notin {"absent", "closed"} => dialog.shown # {})
  BY DEF PagesInv, DialogInv, ServerInv
<1>2. UNCHANGED <<neighbours, page, fetch, reminder, requests, taps>>
  BY DEF ServeEdit, ServeVerb, LoseDialogRequest, Faulty, tracked, counts
<1>3. \/ dialog' = [dialog EXCEPT !.edits = @ \ {NextEdit}]
      \/ dialog' = [dialog EXCEPT !.verb = "none"]
  BY DEF ServeEdit, ServeVerb, LoseDialogRequest
<1>4. DialogInv'
  BY <1>1, <1>3 DEF DialogInv, Dialog
<1>5. match' \in FittingMatches
  <2>1. CASE ServeVerb
    <3>1. Simple(dialog.verb) \in Asks
      BY <2>1, <1>1 DEF ServeVerb, Dialog, Asks
    <3> QED
      BY <2>1, <3>1, <1>1, AnswerFits DEF ServeVerb
  <2>2. CASE LoseDialogRequest
    BY <2>2, <1>1 DEF LoseDialogRequest
  <2>3. CASE ServeEdit
    <3>1. dialog.edits \subseteq 1..MaxSets /\ dialog.edits # {}
      BY <2>3, <1>1 DEF ServeEdit, Dialog, SetNumbers
    <3>2. \E n \in dialog.edits : \A o \in dialog.edits : n <= o
      <4>1. dialog.edits \in SUBSET Nat
        BY <3>1, MaxSetsAssumption
      <4> QED
        BY <3>1, <4>1, LeastSet
    <3>3. NextEdit \in SetNumbers
      BY <3>1, <3>2 DEF NextEdit, SetNumbers
    <3>4. ScoreEdit(NextEdit, dialog.form[NextEdit]) \in Asks
      BY <3>3, <1>1 DEF Asks, Dialog
    <3> QED
      BY <2>3, <3>4, <1>1, AnswerFits DEF ServeEdit
  <2> QED
    BY <2>1, <2>2, <2>3
<1>6. neighbours' \in Neighbours
  BY <1>2 DEF PagesInv, ServerInv
<1> QED
  BY <1>2, <1>4, <1>5, <1>6, DialogKeeps

\* What the dialog does without a request: it opens, polls, finishes and closes.
LEMMA DialogShowKeeps ==
    ASSUME PagesInv, PollBoard \/ OpenDialog \/ Finish \/ Close
    PROVE  PagesInv'
<1>1. dialog \in Dialog /\ match \in FittingMatches /\ neighbours \in Neighbours
      /\ (dialog.stage \notin {"absent", "closed"} => dialog.shown # {})
  BY DEF PagesInv, DialogInv, ServerInv
<1>2. UNCHANGED <<match, neighbours, page, fetch, reminder, requests, taps>>
  BY DEF PollBoard, OpenDialog, Finish, Close, tracked, counts
<1>3. Closed \in Dialog /\ Closed.stage = "closed"
  BY ClosedFits DEF Closed
<1>4. DialogInv'
  <2>1. CASE PollBoard
    BY <2>1, <1>1 DEF PollBoard, DialogInv, Dialog
  <2>2. CASE OpenDialog
    <3>1. match.points \in [SetNumbers -> Points]
      BY <1>1, SetsInOrder
    <3>2. dialog' \in Dialog /\ dialog'.shown = {match}
      BY <2>2, <3>1, <1>1, <1>3 DEF OpenDialog, Dialog, DialogStages
    <3> QED
      BY <3>2 DEF DialogInv
  <2>3. CASE Finish
    <3>1. CASE dialog.stage = "saving"
      BY <2>3, <3>1, <1>3 DEF Finish, DialogInv
    <3>2. CASE dialog.stage # "saving"
      BY <2>3, <3>2, <1>1 DEF Finish, DialogInv, Dialog, DialogStages
    <3> QED
      BY <3>1, <3>2
  <2>4. CASE Close
    BY <2>4, <1>3 DEF Close, DialogInv
  <2> QED
    BY <2>1, <2>2, <2>3, <2>4
<1> QED
  BY <1>1, <1>2, <1>4, DialogKeeps

\* The other matches take no part in what the pages know of this one.
LEMMA ElsewhereKeeps ==
    ASSUME PagesInv, PlayElsewhere
    PROVE  PagesInv'
<1>1. neighbours' \in Neighbours
      /\ UNCHANGED <<match, page, fetch, reminder, requests, dialog, taps>>
  BY DEF PlayElsewhere, tracked, counts
<1>2. match' \in FittingMatches /\ DialogInv'
  BY <1>1 DEF PagesInv, ServerInv, DialogInv
<1> QED
  BY <1>1, <1>2, DialogKeeps

\* Every step of a tracker, of the dialog, of the server or of a fault.
LEMMA PagesStep == PagesInv /\ [Next]_vars => PagesInv'
<1> SUFFICES ASSUME PagesInv, [Next]_vars PROVE PagesInv'
  OBVIOUS
<1>1. CASE UNCHANGED vars
  <2>1. UNCHANGED <<match, neighbours, page, fetch, reminder, requests, dialog, taps>>
    BY <1>1 DEF vars, tracked, counts
  <2> QED
    BY <2>1, DialogKeeps DEF PagesInv, DialogInv, ServerInv
<1>2. ASSUME NEW t \in Tracking, Refresh(t) \/ Poll(t) \/ LoseFetch(t)
      PROVE  PagesInv'
  <2>1. match \in FittingMatches /\ page \in [Tracking -> Page]
        /\ fetch \in [Tracking -> SUBSET FittingMatches]
    BY DEF PagesInv, ServerInv, TrackersInv
  <2>2. CASE Refresh(t)
    <3>1. /\ page' = [page EXCEPT ![t].stage = "refreshing"]
          /\ fetch' = [fetch EXCEPT ![t] = {match}]
          /\ UNCHANGED <<match, neighbours, reminder, requests, dialog, taps>>
      BY <2>2 DEF Refresh, counts
    <3>2. {match} \in SUBSET FittingMatches /\ "refreshing" \in PageStages
      BY <2>1 DEF PageStages
    <3> QED
      BY <3>1, <3>2, StageKeeps
  <2>3. CASE Poll(t)
    <3>1. page[t] \in Page
      BY <2>1
    <3>2. page[t].stage \in PageStages /\ page[t] = [page[t] EXCEPT !.stage = page[t].stage]
      BY <3>1 DEF Page
    <3>3. page = [page EXCEPT ![t].stage = page[t].stage]
      BY <2>1, <3>2
    <3>4. /\ page' = [page EXCEPT ![t].stage = page[t].stage]
          /\ fetch' = [fetch EXCEPT ![t] = {match}]
          /\ UNCHANGED <<match, neighbours, reminder, requests, dialog, taps>>
      BY <2>3, <3>3 DEF Poll, counts
    <3>5. {match} \in SUBSET FittingMatches
      BY <2>1
    <3> QED
      BY <3>2, <3>4, <3>5, StageKeeps
  <2>4. CASE LoseFetch(t)
    <3>1. page[t].stage \in PageStages
      BY <2>1 DEF Page
    <3>2. Saved(page[t].stage) \in PageStages /\ {} \in SUBSET FittingMatches
      BY <3>1 DEF Saved, PageStages
    <3>3. /\ page' = [page EXCEPT ![t].stage = Saved(page[t].stage)]
          /\ fetch' = [fetch EXCEPT ![t] = {}]
          /\ UNCHANGED <<match, neighbours, reminder, requests, dialog, taps>>
      BY <2>4 DEF LoseFetch, Faulty
    <3> QED
      BY <3>2, <3>3, StageKeeps
  <2> QED
    BY <1>2, <2>2, <2>3, <2>4
<1> QED
  BY <1>1, <1>2, TapKeeps, RequestKeeps, ReceiveKeeps, SwitchSidesKeeps, ReloadKeeps,
     DialogShowKeeps, SubmitKeeps, DialogRequestKeeps, ElsewhereKeeps DEF Next

\* The strengthened invariant of the pages (views.tsx, match_modal.tsx).
THEOREM PagesAlways == Spec => []PagesInv
<1> QED
  BY PagesInit, PagesStep, PTL DEF Spec

\* Whatever the pages, the dialog and the network do, the match and what is known
\* of it stay matches whose pointer is within their sets.
THEOREM PagesTyped == Spec => []TypeOK
<1>1. PagesInv => TypeOK
  <2> SUFFICES ASSUME PagesInv PROVE TypeOK
    OBVIOUS
  <2>1. page \in [Tracking -> [view : FittingMatches, stage : PageStages, awaits : Nat]]
    BY DEF PagesInv, TrackersInv, Page
  <2>2. \A r \in requests : r.ask.verb = "score_edit" => r.ask.points \in [Slots -> Nat]
    BY DEF PagesInv, ServerInv, Asks, Simple, ScoreEdit, Points
  <2>3. \A t \in Tracking : reminder[t].score \in Nat /\ reminder[t].set \in 0..MaxSets
    BY DEF PagesInv, TrackersInv, Reminder
  <2>4. /\ dialog.stage \in DialogStages /\ dialog.shown \subseteq FittingMatches
        /\ dialog.form \in [SetNumbers -> [Slots -> Nat]]
        /\ dialog.edits \subseteq SetNumbers /\ dialog.typed \subseteq SetNumbers
    BY DEF PagesInv, DialogInv, Dialog, Points
  <2> QED
    BY <2>1, <2>2, <2>3, <2>4 DEF TypeOK, PagesInv, ServerInv, TrackersInv
<1> QED
  BY <1>1, PagesAlways, PTL

\* A reminder to switch sides is only shown while a set is played and its points
\* call for a switch (views.tsx, the effect on the match data).
THEOREM RemindersDue == Spec => []ReminderMeansSwitchDue
<1>1. PagesInv => ReminderMeansSwitchDue
  BY DEF PagesInv
<1> QED
  BY <1>1, PagesAlways, PTL

\* A page or a dialog that shows the match as it is offers nothing that the server
\* refuses, but for the start of a match whose opponents are not determined
\* (getScoreTrackingViewState and match_modal.tsx against the routes of the verbs).
THEOREM OfferedAccepted == Spec => []OfferedVerbsAccepted
<1>1. PagesInv => OfferedVerbsAccepted
  <2> SUFFICES ASSUME PagesInv PROVE OfferedVerbsAccepted
    OBVIOUS
  <2>1. match \in FittingMatches
    BY DEF PagesInv, ServerInv
  <2>2. Slots \X {-1, 1} \subseteq Slots \X {-1, 1}
    OBVIOUS
  <2>3. \A ask \in OfferedVerbs(match) \cup OfferedScores(match, Slots \X {-1, 1}) :
           Legal(match, neighbours, ask) \/ Unopposed(match, neighbours, ask)
    BY <2>1, <2>2, OfferedLegal
  <2>4. \A ask \in DialogVerbs(match) \ {Simple("end")} :
           Legal(match, neighbours, ask) \/ Unopposed(match, neighbours, ask)
    BY <2>1, DialogLegal
  <2> QED
    BY <2>3, <2>4 DEF OfferedVerbsAccepted
<1> QED
  BY <1>1, PagesAlways, PTL

-----------------------------------------------------------------------------
(* One device that tracks the match                                        *)

\* Where the one device that has tapped stands: it shows the match whenever it takes a
\* tap, its request is the only one, and what it reads after the answer is the answer.
Counted(t) ==
    /\ page[t].stage \in {"ready", "asking"} => page[t].view = match /\ fetch[t] \subseteq {match}
    /\ page[t].stage = "asking" =>
         \E r \in requests : requests = {r} /\ r.id = page[t].awaits
                             /\ r.ask \in OfferedVerbs(match) \cup OfferedScores(match, Steps)
                             /\ tally = Applied(match, r.ask)
    /\ page[t].stage # "asking" => requests = {} /\ tally = match
    /\ page[t].stage = "refreshing" => fetch[t] = {match}

CountsTyped ==
    /\ saves \in Nat /\ faults \in Nat
    /\ IsFiniteSet(hands) /\ hands \subseteq Tracking
    /\ saves = 0 => dialog.edits = {} /\ dialog.verb = "none"

TapsCount ==
    /\ CountsTyped
    /\ hands = {} /\ faults = 0 /\ saves = 0 => requests = {} /\ tally = match
    /\ \A t \in Tracking : Alone(t) => Counted(t)

\* What the tap means is what the request does, on a page that shows the match.
LEMMA MeantIsApplied ==
    ASSUME PagesInv, NEW t \in Tracking, page[t].view = match, tally = match,
           NEW ask \in OfferedVerbs(match) \cup OfferedScores(match, Steps)
    PROVE  Meant(t, ask) = Applied(match, ask)
<1>1. match \in FittingMatches
  BY DEF PagesInv, ServerInv
<1>2. ask \in Asks
  BY <1>1, OfferedLegal, PagesAssumption
<1>3. CASE ask.verb # "score_edit"
  BY <1>3 DEF Meant
<1>4. CASE ask.verb = "score_edit"
  <2>1. PICK n \in SetNumbers, points \in Points : ask = ScoreEdit(n, points)
    BY <1>2, <1>4 DEF Asks, Simple
  <2>2. ask.set = n /\ ask.points = points
    BY <2>1 DEF ScoreEdit
  <2>3. match.points[n] \in Points
    BY <1>1, <2>1, SetsInOrder
  <2> DEFINE sum == [slot \in Slots |->
                       LET step == points[slot] - match.points[n][slot]
                       IN IF match.points[n][slot] + step < 0 THEN 0
                          ELSE match.points[n][slot] + step]
  <2>4. ASSUME NEW slot \in Slots PROVE sum[slot] = points[slot]
    <3>1. match.points[n][slot] \in Nat /\ points[slot] \in Nat
      BY <2>1, <2>3 DEF Points
    <3> QED
      BY <3>1
  <2>5. sum = points
    <3>1. points = [slot \in Slots |-> points[slot]]
      BY <2>1 DEF Points
    <3> QED
      BY <2>4, <3>1
  <2>6. Meant(t, ask) = [match EXCEPT !.points[n] = sum]
    BY <1>4, <2>2 DEF Meant
  <2>7. Applied(match, ask) = [match EXCEPT !.points[n] = points]
    BY <1>4, <2>2 DEF Applied
  <2> HIDE DEF sum
  <2> QED
    BY <2>5, <2>6, <2>7
<1> QED
  BY <1>3, <1>4

\* A start that is refused for want of opponents was not to count: without its mark
\* the match is the one before.
LEMMA RefusedStart ==
    ASSUME NEW m \in FittingMatches, NEW around, NEW ask, Unopposed(m, around, ask)
    PROVE  [Applied(m, ask) EXCEPT !.current_set_in_progress = FALSE] = m
<1>1. ask.verb = "start" /\ StateOf(m) = "NOT_STARTED"
  BY DEF Unopposed
<1>2. Applied(m, ask) = [m EXCEPT !.current_set_in_progress = TRUE]
  BY <1>1 DEF Applied, Started
<1>3. \A n \in SetNumbers : SetState(m, n) # "IN_PROGRESS"
  BY <1>1, RowOfMatch DEF StateOf, DeriveMatchState
<1>4. SetsIn(m, "IN_PROGRESS") = {}
  BY <1>3 DEF SetsIn
<1>5. ~m.current_set_in_progress
  BY <1>4, SetsInOrder
<1> QED
  BY <1>2, <1>5 DEF FittingMatches, TrackedMatches

\* What concerns neither the pages of the trackers nor the match.
LEMMA AsideCounts ==
    ASSUME TapsCount,
           match' = match, page' = page, fetch' = fetch, requests' = requests,
           tally' = tally, hands' = hands, faults' = faults, saves' = saves,
           saves = 0 => dialog'.edits = {} /\ dialog'.verb = "none"
    PROVE  TapsCount'
<1>1. Tracking' = Tracking
  BY DEF Tracking
<1>2. CountsTyped'
  BY <1>1 DEF TapsCount, CountsTyped
<1>3. \A t \in Tracking : (Alone(t)' => Alone(t)) /\ (Counted(t) => Counted(t)')
  BY DEF Alone, Counted
<1> QED
  BY <1>1, <1>2, <1>3 DEF TapsCount

\* After a fault, or a submission of the dialog, nothing is asked of the taps.
LEMMA DisturbedCounts ==
    ASSUME TapsCount, Tracking' = Tracking, hands' = hands,
           faults' \in Nat, saves' \in Nat, faults' # 0 \/ saves' # 0,
           saves' = 0 => dialog'.edits = {} /\ dialog'.verb = "none"
    PROVE  TapsCount'
BY DEF TapsCount, CountsTyped, Alone

\* The faults disturb it, and the pages stay.
LEMMA FaultCounts ==
    ASSUME PagesInv, TapsCount,
           \/ \E t \in Tracking : LoseFetch(t) \/ Reload(t)
           \/ \E r \in requests : LoseRequest(r) \/ BreakConnection(r)
           \/ LoseDialogRequest
    PROVE  TapsCount'
<1>1. faults' = faults + 1 /\ saves' = saves /\ hands' = hands
  BY DEF LoseFetch, Reload, LoseRequest, BreakConnection, LoseDialogRequest, Faulty
<1>2. faults \in Nat /\ saves \in Nat
  BY DEF TapsCount, CountsTyped
<1>3. saves = 0 => dialog'.edits = {} /\ dialog'.verb = "none"
  BY DEF TapsCount, CountsTyped, LoseFetch, Reload, LoseRequest, BreakConnection,
         LoseDialogRequest
<1>4. Tracking' = Tracking
  <2>1. page \in [Tracking -> Page]
    BY DEF PagesInv, TrackersInv
  <2>2. ASSUME NEW ids, Over(ids) PROVE Tracking' = Tracking
    BY <2>2, OverKeeps DEF PagesInv
  <2>3. CASE \E r \in requests : LoseRequest(r) \/ BreakConnection(r)
    BY <2>2, <2>3 DEF LoseRequest, BreakConnection
  <2>4. CASE LoseDialogRequest
    BY <2>4 DEF LoseDialogRequest, tracked, Tracking
  <2>5. ASSUME NEW t \in Tracking, LoseFetch(t) \/ Reload(t) PROVE Tracking' = Tracking
    BY <2>5 DEF LoseFetch, Reload, Tracking
  <2> QED
    BY <2>3, <2>4, <2>5
<1> QED
  BY <1>1, <1>2, <1>3, <1>4, DisturbedCounts

\* The organiser's buttons and the requests they send.
LEMMA DialogCounts ==
    ASSUME PagesInv, TapsCount,
           PollBoard \/ OpenDialog \/ Save \/ Transition \/ Reset
           \/ ServeEdit \/ ServeVerb \/ Finish \/ Close
    PROVE  TapsCount'
<1>1. saves \in Nat /\ faults \in Nat
      /\ (saves = 0 => dialog.edits = {} /\ dialog.verb = "none")
  BY DEF TapsCount, CountsTyped
<1>2. CASE Save \/ Transition \/ Reset
  <2>1. saves' = saves + 1 /\ faults' = faults /\ hands' = hands /\ page' = page
    BY <1>2 DEF Save, Transition, Reset, Submits, tracked
  <2> QED
    BY <1>1, <2>1, DisturbedCounts DEF Tracking
<1>3. CASE ServeEdit \/ ServeVerb
  <2>1. saves' = saves /\ faults' = faults /\ hands' = hands /\ page' = page /\ saves # 0
    BY <1>1, <1>3 DEF ServeEdit, ServeVerb, tracked, counts
  <2> QED
    BY <1>1, <2>1, DisturbedCounts DEF Tracking
<1>4. CASE PollBoard \/ OpenDialog \/ Finish \/ Close
  <2>1. /\ match' = match /\ page' = page /\ fetch' = fetch /\ requests' = requests
        /\ tally' = tally /\ hands' = hands /\ faults' = faults /\ saves' = saves
    BY <1>4 DEF PollBoard, OpenDialog, Finish, Close, tracked, counts
  <2>2. Closed.edits = {} /\ Closed.verb = "none"
    BY DEF Closed
  <2>3. dialog \in Dialog
    BY DEF PagesInv, DialogInv
  <2>4. saves = 0 => dialog'.edits = {} /\ dialog'.verb = "none"
    <3>1. CASE PollBoard
      BY <1>1, <2>3, <3>1 DEF PollBoard, Dialog
    <3>2. CASE OpenDialog
      BY <3>2 DEF OpenDialog, Closed
    <3>3. CASE Finish
      BY <1>1, <2>2, <2>3, <3>3 DEF Finish, Dialog
    <3>4. CASE Close
      BY <2>2, <3>4 DEF Close
    <3> QED
      BY <1>4, <3>1, <3>2, <3>3, <3>4
  <2> QED
    BY <2>1, <2>4, AsideCounts
<1> QED
  BY <1>2, <1>3, <1>4

\* The one device that has tapped may tap again, or another one taps too.
LEMMA TapCounts ==
    ASSUME PagesInv, TapsCount, NEW t \in Tracking, Tap(t)
    PROVE  TapsCount'
<1>1. page \in [Tracking -> Page] /\ taps \in Nat
  BY DEF PagesInv, TrackersInv
<1>2. PICK ask \in OfferedVerbs(page[t].view) \cup OfferedScores(page[t].view, Steps) :
        /\ requests' = requests \cup {[id |-> taps + 1, from |-> t, ask |-> ask]}
        /\ tally' = IF Alone(t) THEN Meant(t, ask) ELSE tally
  BY DEF Tap
<1>3. /\ page[t].stage = "ready"
      /\ page' = [page EXCEPT ![t].stage = "asking", ![t].awaits = taps + 1]
      /\ hands' = hands \cup {t}
      /\ UNCHANGED <<match, fetch, dialog, saves, faults>>
  BY DEF Tap
<1>4. page[t] \in Page
  BY <1>1
<1>5. /\ Tracking' = Tracking
      /\ page'[t].view = page[t].view /\ page'[t].stage = "asking"
      /\ page'[t].awaits = taps + 1
  BY <1>1, <1>3, <1>4 DEF Tracking, Page
<1>6. CountsTyped'
  <2>1. IsFiniteSet(hands \cup {t}) /\ hands \cup {t} \subseteq Tracking
    BY FS_AddElement DEF TapsCount, CountsTyped
  <2> QED
    BY <1>3, <1>5, <2>1 DEF TapsCount, CountsTyped
<1>7. hands' # {}
  BY <1>3
<1>8. ASSUME NEW u \in Tracking, Alone(u)'
      PROVE  Counted(u)'
  <2>1. u = t /\ Alone(t)
    BY <1>3, <1>8 DEF Alone
  <2>2. requests = {} /\ tally = match /\ page[t].view = match /\ fetch[t] \subseteq {match}
    BY <1>3, <2>1 DEF TapsCount, Counted
  <2>3. tally' = Applied(match, ask)
        /\ ask \in OfferedVerbs(match) \cup OfferedScores(match, Steps)
    BY <1>2, <2>1, <2>2, MeantIsApplied
  <2> DEFINE r == [id |-> taps + 1, from |-> t, ask |-> ask]
  <2>4. /\ requests' = {r} /\ r.id = page'[t].awaits /\ tally' = Applied(match', r.ask)
        /\ r.ask \in OfferedVerbs(match') \cup OfferedScores(match', Steps)
    BY <1>2, <1>3, <1>5, <2>2, <2>3
  <2> HIDE DEF r
  <2> QED
    BY <1>3, <1>5, <2>1, <2>2, <2>4 DEF Counted
<1> QED
  BY <1>5, <1>6, <1>7, <1>8 DEF TapsCount

\* The answer to the only request makes the match what the tap meant.
LEMMA ServeCounts ==
    ASSUME PagesInv, TapsCount, NEW r \in requests, Serve(r)
    PROVE  TapsCount'
<1>1. /\ match' = Answer(match, neighbours, r.ask)
      /\ tally' = IF Unopposed(match, neighbours, r.ask)
                  THEN [tally EXCEPT !.current_set_in_progress = FALSE] ELSE tally
      /\ requests' = requests \ {r} /\ Over({r.id})
      /\ UNCHANGED <<fetch, dialog, saves, faults, hands>>
  BY DEF Serve
<1>2. page \in [Tracking -> Page] /\ Tracking' = Tracking
  BY <1>1, OverKeeps DEF PagesInv, TrackersInv
<1>3. CountsTyped'
  BY <1>1, <1>2 DEF TapsCount, CountsTyped
<1>4. ~(hands = {} /\ faults = 0 /\ saves = 0)
  BY DEF TapsCount
<1>5. ASSUME NEW t \in Tracking, Alone(t)'
      PROVE  Counted(t)'
  <2>1. Alone(t) /\ Counted(t)
    BY <1>1, <1>5 DEF Alone, TapsCount
  <2>2. page[t].stage = "asking" /\ requests = {r} /\ r.id = page[t].awaits
        /\ r.ask \in OfferedVerbs(match) \cup OfferedScores(match, Steps)
        /\ tally = Applied(match, r.ask)
    BY <2>1 DEF Counted
  <2>3. page'[t] = [page[t] EXCEPT !.stage = "answered", !.awaits = 0]
    BY <1>1, <2>2 DEF Over
  <2>4. page[t] \in Page
    BY <1>2
  <2>5. page'[t].stage = "answered"
    BY <2>3, <2>4 DEF Page
  <2>6. match \in FittingMatches
    BY DEF PagesInv, ServerInv
  <2>7. tally' = match'
    <3>1. CASE Unopposed(match, neighbours, r.ask)
      <4>1. ~Legal(match, neighbours, r.ask)
        BY <3>1 DEF Unopposed, Legal
      <4> QED
        BY <1>1, <2>2, <2>6, <3>1, <4>1, RefusedStart DEF Answer
    <3>2. CASE ~Unopposed(match, neighbours, r.ask)
      <4>1. Legal(match, neighbours, r.ask)
        BY <2>2, <2>6, <3>2, OfferedLegal, PagesAssumption
      <4> QED
        BY <1>1, <2>2, <3>2, <4>1 DEF Answer
    <3> QED
      BY <3>1, <3>2
  <2> QED
    BY <1>1, <2>2, <2>5, <2>7 DEF Counted
<1> QED
  BY <1>1, <1>2, <1>3, <1>4, <1>5 DEF TapsCount

\* What a page reads is the match: none changes it while one device asks for nothing.
LEMMA ReadCounts ==
    ASSUME PagesInv, TapsCount, NEW t \in Tracking, Refresh(t) \/ Poll(t) \/ Receive(t)
    PROVE  TapsCount'
<1>1. UNCHANGED <<match, requests, dialog, saves, faults, tally, hands>>
  BY DEF Refresh, Poll, Receive, counts
<1>2. /\ page \in [Tracking -> Page] /\ fetch \in [Tracking -> SUBSET FittingMatches]
      /\ page[t] \in Page
  BY DEF PagesInv, TrackersInv
<1>3. Tracking' = Tracking
  BY DEF Refresh, Poll, Receive, Tracking
<1>4. /\ \A u \in Tracking \ {t} : page'[u] = page[u] /\ fetch'[u] = fetch[u]
      /\ \A u \in Tracking : page'[u].awaits = page[u].awaits
  <2>1. CASE Refresh(t)
    BY <1>2, <2>1 DEF Refresh, Page
  <2>2. CASE Poll(t)
    BY <1>2, <2>2 DEF Poll
  <2>3. CASE Receive(t)
    <3>1. PICK m \in fetch[t] :
            /\ page' = [page EXCEPT ![t] = [page[t] EXCEPT !.view = m, !.stage = Saved(page[t].stage)]]
            /\ fetch' = [fetch EXCEPT ![t] = {}]
      BY <1>2, <2>3 DEF Receive
    <3> QED
      BY <1>2, <3>1 DEF Page
  <2> QED
    BY <2>1, <2>2, <2>3
<1>5. CountsTyped'
  BY <1>1, <1>3 DEF TapsCount, CountsTyped
<1>6. ASSUME Alone(t), Counted(t)
      PROVE  Counted(t)'
  <2>1. CASE Refresh(t)
    <3>1. page'[t].stage = "refreshing" /\ fetch'[t] = {match} /\ page[t].stage = "answered"
      BY <1>2, <2>1 DEF Refresh, Page
    <3> QED
      BY <1>1, <1>6, <3>1 DEF Counted
  <2>2. CASE Poll(t)
    <3>1. page' = page /\ fetch'[t] = {match}
      BY <1>2, <2>2 DEF Poll
    <3> QED
      BY <1>1, <1>6, <3>1 DEF Counted
  <2>3. CASE Receive(t)
    <3>1. PICK m \in fetch[t] :
            /\ page' = [page EXCEPT ![t] = [page[t] EXCEPT !.view = m, !.stage = Saved(page[t].stage)]]
            /\ fetch' = [fetch EXCEPT ![t] = {}]
      BY <1>2, <2>3 DEF Receive
    <3>2. page'[t].view = m /\ page'[t].stage = Saved(page[t].stage) /\ fetch'[t] = {}
      BY <1>2, <3>1 DEF Page
    <3>3. page[t].stage \in PageStages
      BY <1>2 DEF Page
    <3>4. page[t].stage \in {"ready", "asking", "refreshing"} => m = match
      BY <1>6, <3>1 DEF Counted
    <3> QED
      BY <1>1, <1>4, <1>6, <3>2, <3>3, <3>4 DEF Counted, Saved, PageStages
  <2> QED
    BY <2>1, <2>2, <2>3
<1>7. ASSUME NEW u \in Tracking, Alone(u)'
      PROVE  Counted(u)'
  <2>1. Alone(u) /\ Counted(u)
    BY <1>1, <1>7 DEF Alone, TapsCount
  <2>2. CASE u = t
    BY <1>6, <2>1, <2>2
  <2>3. CASE u # t
    BY <1>1, <1>4, <2>1, <2>3 DEF Counted
  <2> QED
    BY <2>2, <2>3
<1> QED
  BY <1>1, <1>3, <1>5, <1>7 DEF TapsCount

\* Nobody has tapped yet.
LEMMA CountsInit == Init => TapsCount
<1> SUFFICES ASSUME Init PROVE TapsCount
  OBVIOUS
<1>1. PICK crew \in Crews :
        /\ page = [t \in crew \cap Trackers |-> Fresh(match)]
        /\ fetch = [t \in crew \cap Trackers |-> {}]
        /\ dialog = [Closed EXCEPT !.stage = IF Organiser \in crew THEN "closed" ELSE "absent"]
  BY DEF Init
<1>2. requests = {} /\ saves = 0 /\ faults = 0 /\ tally = match /\ hands = {}
  BY DEF Init
<1>3. dialog.edits = {} /\ dialog.verb = "none"
  BY <1>1 DEF Closed
<1>4. \A t \in Tracking : page[t] = Fresh(match) /\ fetch[t] = {}
  BY <1>1 DEF Tracking
<1>5. \A t \in Tracking : page[t].view = match /\ page[t].stage = "ready"
  BY <1>4 DEF Fresh
<1> QED
  BY <1>2, <1>3, <1>4, <1>5, FS_EmptySet DEF TapsCount, CountsTyped, Counted

\* Every step keeps count.
LEMMA CountsStep == PagesInv /\ TapsCount /\ [Next]_vars => TapsCount'
<1> SUFFICES ASSUME PagesInv, TapsCount, [Next]_vars PROVE TapsCount'
  OBVIOUS
<1>1. saves = 0 => dialog.edits = {} /\ dialog.verb = "none"
  BY DEF TapsCount, CountsTyped
<1>2. ASSUME UNCHANGED vars \/ PlayElsewhere \/ \E t \in Tracking : SwitchSides(t)
      PROVE  TapsCount'
  <2>1. /\ match' = match /\ page' = page /\ fetch' = fetch /\ requests' = requests
        /\ tally' = tally /\ hands' = hands /\ faults' = faults /\ saves' = saves
        /\ dialog' = dialog
    BY <1>2 DEF PlayElsewhere, SwitchSides, vars, tracked, counts
  <2> QED
    BY <1>1, <2>1, AsideCounts
<1> QED
  BY <1>2, TapCounts, ServeCounts, ReadCounts, FaultCounts, DialogCounts DEF Next

\* A device that tracks the match alone, and without faults, loses no tap: its page takes
\* none while it shows less than it has sent (views.tsx, runAction).
THEOREM LoneTapsCount == Spec => []LoneTrackerCountsAll
<1>1. TapsCount => LoneTrackerCountsAll
  <2> SUFFICES ASSUME TapsCount, Cardinality(hands) <= 1, faults = 0, saves = 0, requests = {}
               PROVE  match = tally
    BY DEF LoneTrackerCountsAll
  <2>1. CASE hands = {}
    BY <2>1 DEF TapsCount
  <2>2. CASE hands # {}
    <3>1. IsFiniteSet(hands) /\ hands \subseteq Tracking /\ Cardinality(hands) \in Nat
      BY FS_CardinalityType DEF TapsCount, CountsTyped
    <3>2. Cardinality(hands) = 1
      BY <2>2, <3>1, FS_EmptySet
    <3>3. PICK t : hands = {t}
      BY <3>1, <3>2, FS_Singleton
    <3>4. t \in Tracking /\ Counted(t)
      BY <3>1, <3>3 DEF TapsCount, Alone
    <3> QED
      BY <3>4 DEF Counted
  <2> QED
    BY <2>1, <2>2
<1> QED
  BY <1>1, CountsInit, CountsStep, PagesAlways, PTL DEF Spec

=============================================================================
