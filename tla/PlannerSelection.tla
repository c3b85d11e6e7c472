-------------------------- MODULE PlannerSelection --------------------------
(***************************************************************************)
(* The tap-to-place interaction of the planning grid: what a tap does to   *)
(* the selection, and the request to the server it lets out (none or one). *)
(***************************************************************************)
EXTENDS Integers

CONSTANTS NoCourt

ZoomLevels   == {"agenda", "compact", "overview"}
PlannerModes == {"move", "unschedule", "edit"}

ZoomIn(zoom)  == IF zoom = "overview" THEN "compact" ELSE "agenda"
ZoomOut(zoom) == IF zoom = "agenda" THEN "compact" ELSE "overview"

-----------------------------------------------------------------------------
(* What is selected *)

Idle == [kind |-> "idle"]

\* ref is the match as the grid drew it when it was tapped: its court and
\* position, whether it was played, whether it was in the frozen past.
MatchSelected(ref) == [kind |-> "match-selected", match |-> ref]
TraySelected(m)    == [kind |-> "tray-match-selected", matchId |-> m]
ConfirmMove(previous, action) ==
    [kind |-> "confirm-move", previous |-> previous, action |-> action]

\* Mutant: the interval and the pause the wrong way round.
PausedWhenIdle(sel) == sel.kind = "idle"

\* Polling is paused, and the selection counts as a placement under way.
PollingPaused(sel) == sel.kind # "idle"

-----------------------------------------------------------------------------
(* The requests a tap can let out *)

NoAction == [type |-> "none"]

Swap(a, b)     == [type |-> "swap", match |-> a, other |-> b]
Unschedule(m)  == [type |-> "unschedule", match |-> m]
OpenDetails(m) == [type |-> "open-details", match |-> m]
ResizeBreak(m, minutes) == [type |-> "resize-break", match |-> m, minutes |-> minutes]
Reschedule(m, oldCourt, oldPosition, newCourt, newPosition) ==
    [type |-> "reschedule", match |-> m, oldCourt |-> oldCourt, oldPosition |-> oldPosition,
     newCourt |-> newCourt, newPosition |-> newPosition]

\* place: before the match at index; a match that moves later on its own
\* court leaves its place first.
PlaceAction(ref, court, index) ==
    CASE court = ref.court /\ index \in {ref.position, ref.position + 1} -> NoAction
      [] court = ref.court /\ index > ref.position + 1 ->
             Reschedule(ref.id, ref.court, ref.position, court, index - 1)
      [] OTHER -> Reschedule(ref.id, ref.court, ref.position, court, index)

PlaceFromTray(m, court, index) == Reschedule(m, NoCourt, 0, court, index)

-----------------------------------------------------------------------------
(* The reducer *)

Step(selection, action) == [sel |-> selection, action |-> action]
Stay(selection)         == Step(selection, NoAction)

\* Mutant: only the match that is moved is looked at.
NeedsConfirmationOfMoved(moved, targets) == moved.played

NeedsMoveConfirmation(moved, targets) ==
    \/ moved.played
    \/ \E target \in targets : moved.locked \/ target.locked \/ target.played

\* targets is the match swapped with, none for a free slot.
ConfirmOrPerform(previous, moved, targets, action) ==
    IF action # NoAction /\ NeedsMoveConfirmation(moved, targets)
    THEN Stay(ConfirmMove(previous, action))
    ELSE Step(Idle, action)

Loose == [played |-> FALSE, locked |-> FALSE]

FromIdle(event, mode) ==
    CASE event.type = "tap-match" /\ mode = "unschedule" ->
             IF event.match.locked \/ event.match.played THEN Stay(Idle)
             ELSE Step(Idle, Unschedule(event.match.id))
      [] event.type = "tap-match" /\ mode = "edit" -> Step(Idle, OpenDetails(event.match.id))
      [] event.type = "tap-match" /\ mode = "move" -> Stay(MatchSelected(event.match))
      [] event.type = "tap-tray-match" ->
             IF mode = "edit" THEN Step(Idle, OpenDetails(event.id))
             ELSE Stay(TraySelected(event.id))
      [] OTHER -> Stay(Idle)

FromMatch(sel, event) ==
    CASE event.type = "cancel" -> Stay(Idle)
      [] event.type = "tap-match" ->
             IF event.match.id = sel.match.id THEN Stay(Idle)
             ELSE ConfirmOrPerform(sel, sel.match, {event.match},
                                   Swap(sel.match.id, event.match.id))
      [] event.type = "tap-tray-match" -> Step(Idle, Swap(sel.match.id, event.id))
      [] event.type = "tap-insertion-line" ->
             ConfirmOrPerform(sel, sel.match, {}, PlaceAction(sel.match, event.court, event.index))
      [] event.type = "unschedule" -> Step(Idle, Unschedule(sel.match.id))
      [] OTHER -> Stay(sel)

FromTray(sel, event) ==
    CASE event.type = "cancel" -> Stay(Idle)
      [] event.type = "tap-match" ->
             ConfirmOrPerform(sel, Loose, {event.match}, Swap(sel.matchId, event.match.id))
      [] event.type = "tap-tray-match" ->
             IF event.id = sel.matchId THEN Stay(Idle) ELSE Stay(TraySelected(event.id))
      [] event.type = "tap-insertion-line" ->
             Step(Idle, PlaceFromTray(sel.matchId, event.court, event.index))
      [] OTHER -> Stay(sel)

FromConfirm(sel, event) ==
    CASE event.type = "confirm" -> Step(Idle, sel.action)
      [] event.type = "cancel"  -> Stay(sel.previous)
      [] OTHER -> Stay(sel)

SelectionReducer(sel, event, mode) ==
    CASE sel.kind = "idle"                -> FromIdle(event, mode)
      [] sel.kind = "match-selected"      -> FromMatch(sel, event)
      [] sel.kind = "tray-match-selected" -> FromTray(sel, event)
      [] sel.kind = "confirm-move"        -> FromConfirm(sel, event)

-----------------------------------------------------------------------------
(* The planner: the selection under a zoom level and a mode *)

Buttons == {"cancel", "unschedule", "confirm"}

InitialPlanner(zoom) == [zoom |-> zoom, mode |-> "move", sel |-> Idle]

Delegated(planner, event) ==
    LET step == SelectionReducer(planner.sel, event, planner.mode)
    IN [planner |-> [planner EXCEPT !.sel = step.sel], action |-> step.action]

Only(planner) == [planner |-> planner, action |-> NoAction]

PlannerReducer(planner, event) ==
    CASE event.type = "set-mode" -> Only([planner EXCEPT !.mode = event.mode, !.sel = Idle])
      [] event.type = "zoom-in"  -> Only([planner EXCEPT !.zoom = ZoomIn(@)])
      [] event.type = "zoom-out" -> Only([planner EXCEPT !.zoom = ZoomOut(@)])
      [] event.type = "set-zoom" -> Only([planner EXCEPT !.zoom = event.zoom])
      [] event.type = "tap-overview" ->
             IF planner.zoom = "overview" THEN Only([planner EXCEPT !.zoom = ZoomIn(@)])
             ELSE Only(planner)
      [] event.type = "resize-break" ->
             IF planner.zoom = "overview" THEN Only(planner)
             ELSE [planner |-> planner, action |-> ResizeBreak(event.id, event.minutes)]
      [] event.type \in Buttons -> Delegated(planner, event)
      [] event.type = "tap-tray-match" ->
             IF planner.zoom = "overview" /\ planner.sel.kind # "idle" THEN Only(planner)
             ELSE Delegated(planner, event)
      [] event.type \in {"tap-match", "tap-insertion-line"} ->
             IF planner.zoom = "overview" THEN Only(planner) ELSE Delegated(planner, event)

=============================================================================
