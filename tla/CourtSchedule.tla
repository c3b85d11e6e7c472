--------------------------- MODULE CourtSchedule ---------------------------
(***************************************************************************)
(* The court schedule under its planner: an organiser taps the grid drawn  *)
(* from the current plan and the server handles each request, while the    *)
(* matches are started, ended, reopened and lengthened.                    *)
(***************************************************************************)
EXTENDS ScheduleGrid

CONSTANTS Lengths,          \* durations a match may be given
          Heights,          \* heights of cards, in pixels
          MaxSteps          \* bound: changes of the plan

ASSUME DayAssumption == Lengths \subseteq Nat /\ Heights \subseteq Nat /\ MaxSteps \in Nat

VARIABLES plan, steps

dayVars == <<plan, steps>>

-----------------------------------------------------------------------------
(* What the organiser can ask for on this plan *)

Selections ==
    {MatchSelected(GridRef(plan, m)) : m \in OnGrid(plan)}
    \cup {TraySelected(m) : m \in Matches \ OnGrid(plan)}

Outcome(step) ==
    LET pending == step.sel.kind = "confirm-move"
    IN [confirmed |-> pending,
        action |-> IF pending THEN SelectionReducer(step.sel, Press("confirm"), "move").action
                   ELSE step.action]

Planner(sel, mode) == [zoom |-> "compact", mode |-> mode, sel |-> sel]

TapOutcome(sel, mode, tap) ==
    LET next == PlannerReducer(Planner(sel, mode), tap)
    IN Outcome([sel |-> next.planner.sel, action |-> next.action])

TapOutcomes(sel, mode, sizes) ==
    {TapOutcome(sel, mode, tap) : tap \in GridTaps(plan, sel, sizes)}

ButtonOutcomes ==
    {TapOutcome(sel, "move", Press("unschedule")) : sel \in {s \in Selections : UnscheduleOffered(plan, s)}}

\* The requests one tap lets out, or lets out after its confirmation.
Offered ==
    {o \in (UNION {TapOutcomes(sel, "move", BreakSizes) : sel \in Selections \cup {Idle}})
           \cup TapOutcomes(Idle, "unschedule", {}) \cup ButtonOutcomes :
        o.action # NoAction}

-----------------------------------------------------------------------------

DayInit == plan \in InitialPlans /\ steps = 0

Becomes(next) ==
    /\ steps < MaxSteps
    /\ next # plan
    /\ plan' = next
    /\ steps' = steps + 1

\* The server handles a request of this type.
Answers(o, type) == o.action.type = type /\ Becomes(Handle(plan, o.action).plan)

PlaceMatch(o)      == Answers(o, "reschedule")
SwapMatches(o)     == Answers(o, "swap")
UnscheduleMatch(o) == Answers(o, "unschedule")
ResizeABreak(o)    == Answers(o, "resize-break")

\* The verbs need both teams to be known.
Resolved(m) == \A s \in Sides : SlotTeam(Side[m][s]) # NoTeam

Moves(from, to) ==
    \E m \in Matches : Resolved(m) /\ plan[m].state = from /\ Becomes([plan EXCEPT ![m].state = to])

StartMatch  == Moves("NOT_STARTED", "IN_PROGRESS")
EndMatch    == Moves("IN_PROGRESS", "COMPLETED")
ReopenMatch == Moves("COMPLETED", "IN_PROGRESS")

ChangeDuration ==
    \E m \in Matches, minutes \in Lengths : Becomes(HandleDuration(plan, m, minutes))

DayNext ==
    \/ \E o \in Offered :
           PlaceMatch(o) \/ SwapMatches(o) \/ UnscheduleMatch(o) \/ ResizeABreak(o)
    \/ StartMatch \/ EndMatch \/ ReopenMatch \/ ChangeDuration

DaySpec == DayInit /\ [][DayNext]_dayVars

-----------------------------------------------------------------------------
(* Properties *)

\* The plan and the bound are what they are declared to be.
PlanTyped == plan \in Plans /\ steps \in 0..MaxSteps

\* No sequence of placements, swaps, resized breaks and changed durations puts
\* two matches on a court at the same time: reorder_all_matches and
\* handle_match_resize_break keep every court free of overlaps.
CourtsNeverOverlap ==
    \A a, b \in Matches :
        a # b /\ plan[a].court = plan[b].court => ~Overlap(plan, a, b)

Touched(action) ==
    {plan[m].court : m \in {action.match} \cup (IF action.type = "swap" THEN {action.other} ELSE {})}
    \cup (IF action.type = "reschedule" THEN {action.newCourt} ELSE {})

\* A request on courts without short breaks, and no swap of unequal lengths.
Regular(action) ==
    /\ \A c \in Touched(action) \cap Courts : ~ShortBreak(plan, c)
    /\ action.type = "swap" => plan[action.match].minutes = plan[action.other].minutes

Succeeds(action) == Handle(plan, action).status = "ok"

\* applyPlanningActions foresees what the server does with every request the
\* grid lets out on a fresh plan, where no break has been made shorter than the
\* default and the two matches of a swap are equally long.
ActionsPredicted ==
    \A o \in Offered :
        Regular(o.action) /\ Succeeds(o.action) =>
            Handle(plan, o.action).plan = Optimistic(plan, o.action)

\* A request made on a fresh plan is never turned down, except for a swap that
\* would send a played match to the tray.
FreshRequestsAccepted ==
    \A o \in Offered :
        Handle(plan, o.action).status # "ok" =>
            o.action.type = "swap" /\ \E m \in {o.action.match, o.action.other} : Played(plan, m)

KeepsPlayed(after) == \A m \in Matches : Scheduled(plan, m) /\ Played(plan, m) => SameSlot(plan, after, m)

\* What was played keeps its court and time through every request that asked
\* for no confirmation, on courts without short breaks and between equals.
PlayedKeepSlots ==
    \A o \in Offered :
        ~o.confirmed /\ Regular(o.action) => KeepsPlayed(Handle(plan, o.action).plan)

\* A line or card is drawn as causing a conflict exactly when the request it
\* lets out gives some match a flag it did not have, for the requests foreseen.
PreviewMatchesOutcome ==
    LET baseline == ConflictFlags(plan)
        plain(tap) == IF tap.type = "tap-match" THEN TapMatch(PlainRef(plan, tap.match.id)) ELSE tap
    IN \A sel \in Selections :
        LET preview == ConflictPreview(plan, sel)
        IN \A tap \in {t \in GridTaps(plan, sel, {}) : t.type # "tap-tray-match"} :
            LET action == TapOutcome(sel, "move", tap).action
            IN action # NoAction /\ Regular(action) /\ Succeeds(action) =>
                (plain(tap) \in preview
                    <=> AddsFlags(plan, baseline, Handle(plan, action).plan))

\* The roles somebody has in a match, each named like the flag it may get.
Roles == {SideFlag[1], SideFlag[2]} \cup (IF RefereesEnabled THEN {"referee"} ELSE {})

SlotIn(m, role) ==
    CASE role = SideFlag[1] -> Side[m][1] [] role = SideFlag[2] -> Side[m][2] [] role = "referee" -> Referee[m]

SameParticipant(s, t) ==
    s # NoSlot /\ (s = t \/ (SlotTeam(s) # NoTeam /\ SlotTeam(s) = SlotTeam(t)))

\* Whoever is needed by two matches at once, as a team or as a slot without
\* one, is flagged on both of them, playing or refereeing. A match that does not
\* know both sides yet is only compared slot by slot and with referees.
DoubleBookingsSeen ==
    LET flags == ConflictFlags(plan)
    IN \A a, b \in Matches : \A mine, theirs \in Roles :
        /\ a # b /\ Overlap(plan, a, b)
        /\ SameParticipant(SlotIn(a, mine), SlotIn(b, theirs))
        /\ Definitive(a) /\ Definitive(b)
        => <<a, mine>> \in flags /\ <<b, theirs>> \in flags

FeedsDirectly(f, m) ==
    \/ \E s \in Sides : Feeder[m][s] = f
    \/ FeedsOn(m, ItemOf[f])

\* Of a match, one fed by it and one fed by that one in turn, all on the grid,
\* the last cannot start before the first ends without a flag on the way.
ChainsOfDependenceSeen ==
    LET flags == ConflictFlags(plan)
    IN \A f, g, m \in OnGrid(plan) :
        FeedsDirectly(f, g) /\ FeedsDirectly(g, m) /\ plan[m].start < EndOf(plan, f) =>
            \E late \in {g, m} : <<late, "precedence">> \in flags

\* Every flag of a match, its stage order included, can be seen on its card at
\* whatever height and card zoom, when its referee has a name; the overview
\* marks every match with a flag other than round order.
EveryConflictShown ==
    LET flags == GridFlags(plan)
    IN \A m \in OnGrid(plan) :
        LET kinds == FlagsOf(flags, m)
        IN /\ \A zoom \in {"agenda", "compact"}, px \in Heights :
                  kinds \ CardShows(m, kinds, zoom, px) \subseteq
                      (IF RefereeNamed(m) THEN {} ELSE {"referee"})
           /\ kinds \subseteq {"round_order"} \/ OverviewMarked(kinds)

=============================================================================
