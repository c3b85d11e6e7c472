--------------------------- MODULE MCPlannerPage ---------------------------
(***************************************************************************)
(* Two matches, one played on the court and one in the tray.               *)
(***************************************************************************)
EXTENDS PlannerPage

At(court, start, state) == [court |-> court, start |-> start, minutes |-> 10, state |-> state]

OnePlayed == {<<At(1, 0, "IN_PROGRESS"), At(0, 0, "NOT_STARTED")>>}

MoveMode  == {<<"compact", "move">>}

=============================================================================
