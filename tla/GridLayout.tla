----------------------------- MODULE GridLayout -----------------------------
(***************************************************************************)
(* The planning grid drawn from a plan: what of it is frozen, where its    *)
(* insertion lines and breaks are, and the taps it can send the planner.   *)
(***************************************************************************)
EXTENDS CourtPacking

CONSTANTS InitialPlans,     \* schedules the day may begin with
          BreakSizes        \* what is typed into the break popup

ASSUME LayoutAssumption == InitialPlans \subseteq Plans /\ BreakSizes \subseteq Nat

-----------------------------------------------------------------------------
(* Layout: the frozen past, insertion lines and breaks *)

\* At or before the last played match of its court.
Locked(plan, m) ==
    \E o \in OnCourt(plan, plan[m].court) : Played(plan, o) /\ ~Earlier(plan, o, m)

LockedCount(plan, c) == Cardinality({m \in OnCourt(plan, c) : Locked(plan, m)})

InsertionLines(plan) ==
    {line \in Courts \X (0..Cardinality(Matches)) :
        line[2] \in LockedCount(plan, line[1])..Cardinality(OnCourt(plan, line[1]))}

BreaksOffered(plan) == {m \in Matches : Scheduled(plan, m) /\ ~Locked(plan, m)}

\* Mutant: positions counted from one.
GridRefFromOne(plan, m) ==
    [id |-> m, court |-> plan[m].court, position |-> PositionOf(plan, m) + 1,
     played |-> Played(plan, m), locked |-> Locked(plan, m)]

\* A match as the grid hands it to a tap.
GridRef(plan, m) ==
    [id |-> m, court |-> plan[m].court, position |-> PositionOf(plan, m),
     played |-> Played(plan, m), locked |-> Locked(plan, m)]

-----------------------------------------------------------------------------
(* Taps *)

TapMatch(ref)  == [type |-> "tap-match", match |-> ref]
TapTray(m)     == [type |-> "tap-tray-match", id |-> m]
TapLine(c, i)  == [type |-> "tap-insertion-line", court |-> c, index |-> i]
TapBreak(m, minutes) == [type |-> "resize-break", id |-> m, minutes |-> minutes]
Press(button)  == [type |-> button]

OnGrid(plan) == {m \in Matches : Scheduled(plan, m)}

\* What can be tapped at the card zooms: breaks give way to insertion lines
\* while a match is being placed.
GridTaps(plan, sel, breakSizes) ==
    {TapMatch(GridRef(plan, m)) : m \in OnGrid(plan)}
    \cup {TapTray(m) : m \in Matches \ OnGrid(plan)}
    \cup (IF sel.kind \in {"match-selected", "tray-match-selected"}
          THEN {TapLine(line[1], line[2]) : line \in InsertionLines(plan)}
          ELSE {TapBreak(m, d) : m \in BreaksOffered(plan), d \in breakSizes})

\* The button that sends the selected match back to the tray.
UnscheduleOffered(plan, sel) ==
    sel.kind = "match-selected" /\ plan[sel.match.id].state = "NOT_STARTED"

=============================================================================
