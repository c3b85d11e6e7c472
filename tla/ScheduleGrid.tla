---------------------------- MODULE ScheduleGrid ----------------------------
(***************************************************************************)
(* The conflicts on the planning grid: which taps it marks as causing one, *)
(* and which conflicts its cards show.                                     *)
(***************************************************************************)
EXTENDS ScheduleConflicts, GridLayout

CONSTANTS StageOf,          \* stage item -> the place of its stage in the tournament
          LevelOf           \* stage item -> the level of its stage

ASSUME GridAssumption == StageOf \in [Items -> Nat] /\ DOMAIN LevelOf = Items

-----------------------------------------------------------------------------
(* Conflict preview *)

\* Mutant: the request kept back by a confirmation is not looked at.
ImmediateAction(step) == step.action

PendingAction(step) == IF step.sel.kind = "confirm-move" THEN step.sel.action ELSE step.action

\* A flag that the plan before, with the flags of baseline, does not have: nothing
\* new is there when nothing changed.
AddsFlags(plan, baseline, after) == after # plan /\ ConflictFlags(after) \ baseline # {}

IntroducesConflict(plan, baseline, action) ==
    action # NoAction /\ AddsFlags(plan, baseline, Optimistic(plan, action))

PlainRef(plan, m) == [GridRef(plan, m) EXCEPT !.played = FALSE, !.locked = FALSE]

\* The taps drawn as causing a conflict while sel is placed.
ConflictPreview(plan, sel) ==
    LET baseline == ConflictFlags(plan) IN
    {tap \in {TapLine(line[1], line[2]) : line \in InsertionLines(plan)}
             \cup {TapMatch(PlainRef(plan, m)) : m \in OnGrid(plan)} :
        /\ sel.kind \in {"match-selected", "tray-match-selected"}
        /\ IntroducesConflict(plan, baseline, PendingAction(SelectionReducer(sel, tap, "move")))}

-----------------------------------------------------------------------------
(* Cards: which of the flags of a match its drawing shows *)

\* A match before one of an earlier stage on its court, level by level.
StageOrderViolations(plan) ==
    {<<a, "stage_order">> : a \in {a \in OnGrid(plan) : \E b \in OnCourt(plan, plan[a].court) :
        /\ Earlier(plan, a, b)
        /\ LevelOf[ItemOf[a]] = LevelOf[ItemOf[b]]
        /\ StageOf[ItemOf[b]] < StageOf[ItemOf[a]]}}

GridFlags(plan) == ConflictFlags(plan) \cup StageOrderViolations(plan)

FlagsOf(flags, m) == {f[2] : f \in {g \in flags : g[1] = m}}

OrderKinds == {"precedence", "feeder_precedence", "round_order", "stage_order"}

PxPerMinute(zoom) == CASE zoom = "agenda" -> 8 [] zoom = "compact" -> 4 [] zoom = "overview" -> 2

CardLines(px) == CASE px >= 65 -> 4 [] px >= 49 /\ px < 65 -> 3 [] px >= 30 /\ px < 49 -> 2 [] OTHER -> 1

\* A card too small for several icons has one for all, whose tooltip lists them.
IconsMerged(lines, zoom) == lines = 1 \/ (zoom = "compact" /\ lines = 2)

\* A referee slot that names nobody yet, not even "1st of Group A".
RefereeNamed(m) ==
    Referee[m] # NoSlot /\ (TeamOf[Referee[m]] # NoTeam \/ SourceOf[Referee[m]] # NoItem)

\* The card of m at a zoom: the rows it has room for, and the icons of each.
CardShows(m, kinds, zoom, px) ==
    LET lines       == CardLines(px)
        combined    == lines <= 3
        meta        == lines >= 3
        showReferee == lines >= 3 \/ (lines = 2 /\ combined)
        orderIcons  == kinds \cap (OrderKinds \cup {"short_break"})
        metaRow     == IF meta THEN orderIcons \cup {k \in kinds : k = "referee" /\ ~showReferee}
                       ELSE {}
        firstRow    == {k \in kinds : k = SideFlag[1] \/ (combined /\ k = SideFlag[2])}
                       \cup (IF meta THEN {} ELSE orderIcons \cup (kinds \cap {"referee"}))
        secondRow   == {k \in kinds : lines >= 2 /\ ~combined /\ k = SideFlag[2]}
        refereeRow  == {k \in kinds : showReferee /\ RefereeNamed(m) /\ k = "referee"}
    IN IF IconsMerged(lines, zoom) THEN kinds ELSE metaRow \cup firstRow \cup secondRow \cup refereeRow

\* Mutant: the match others wait for is not marked.
OverviewMarkedLate(kinds) ==
    \E k \in kinds : k \in {SideFlag[1], SideFlag[2], "stage_order", "precedence",
                            "referee", "short_break"}

\* An overview block has one marker for all.
OverviewMarked(kinds) ==
    \E k \in kinds : k \in {SideFlag[1], SideFlag[2], "stage_order", "precedence",
                            "feeder_precedence", "referee", "short_break"}

=============================================================================
