---------------------------- MODULE PlannerPage ----------------------------
(***************************************************************************)
(* The planning page on one device: the taps of an organiser, the cache it *)
(* draws the grid from (predicted, rolled back, revalidated), its polling, *)
(* and the server, where a colleague changes the schedule too. Requests    *)
(* overtake one another, and any of them or its answer may be lost.        *)
(***************************************************************************)
EXTENDS GridLayout

CONSTANTS Views,            \* bound: the <<zoom, mode>> pairs the organiser uses
          MaxRequests,      \* bound: requests of this device
          MaxEvents         \* bound: requests, changes by the colleague and losses

ASSUME PageAssumption ==
    Views \subseteq ZoomLevels \X PlannerModes /\ MaxRequests \in Nat /\ MaxEvents \in Nat

VARIABLES sched,            \* the schedule in the database
          shown,            \* the schedule the grid is drawn from
          backup,           \* what a prediction stands in for: no plan or one
          requests,         \* requests of this device without a received answer
          fetch,            \* the revalidation whose answer counts: none or one
          strays,           \* replaced revalidations that end a prediction
          failed,           \* the last revalidation did not succeed
          planner,          \* zoom, mode and selection
          began,            \* requests so far, the last one the newest
          others,           \* changes by the colleague and losses so far
          real              \* history: every schedule the database has held

page    == <<shown, backup, fetch, strays, failed, planner>>
vars    == <<sched, page, requests, began, others, real>>

AnotherEvent == began + others < MaxEvents

-----------------------------------------------------------------------------
(* The cache *)

Current == IF backup = {} THEN shown ELSE CHOOSE plan \in backup : TRUE

\* What the grid shows until the answer is there.
Predicted(current, action) == Optimistic(current, action)

Newest(request) == request.id = began

Settling == Cardinality({f \in fetch : f.settles})

\* While the newest change of the cache is open, no revalidation counts.
NewestOpen(open) == \E r \in open : Newest(r)

\* Starts a revalidation in the place of the one under way.
Revalidate(settles, void) ==
    /\ fetch' = {[read |-> {}, settles |-> settles, void |-> void]}
    /\ strays' = strays + Settling

Voided == {[f EXCEPT !.void = TRUE] : f \in fetch}

-----------------------------------------------------------------------------
(* The organiser *)

Init ==
    /\ sched \in InitialPlans /\ shown = sched /\ real = {sched}
    /\ backup = {} /\ requests = {} /\ fetch = {} /\ strays = 0 /\ failed = FALSE
    /\ \E view \in Views : planner = [InitialPlanner(view[1]) EXCEPT !.mode = view[2]]
    /\ began = 0 /\ others = 0

\* The dialog of a confirmation lies over everything else.
Taps ==
    IF planner.sel.kind = "confirm-move" THEN {Press("confirm"), Press("cancel")}
    ELSE (IF planner.zoom = "overview"
          THEN {[type |-> "tap-overview"]} \cup {TapTray(m) : m \in Matches \ OnGrid(shown)}
          ELSE GridTaps(shown, planner.sel, BreakSizes))
         \cup {[type |-> "set-mode", mode |-> mode] : mode \in PlannerModes}
         \cup {[type |-> "zoom-in"], [type |-> "zoom-out"]}
         \cup (IF planner.sel = Idle THEN {} ELSE {Press("cancel")})
         \cup (IF UnscheduleOffered(shown, planner.sel) THEN {Press("unschedule")} ELSE {})

RefreshesOnChange(before, after) == PollingPaused(before) /\ ~PollingPaused(after)

Asks(action) == action.type \notin {"none", "open-details"}

\* A tap that lets no request out.
Look(tap) ==
    LET next == PlannerReducer(planner, tap)
    IN /\ next.planner # planner /\ ~Asks(next.action)
       /\ <<next.planner.zoom, next.planner.mode>> \in Views
       /\ planner' = next.planner
       /\ UNCHANGED <<sched, shown, backup, requests, failed, began, others, real>>
       /\ IF RefreshesOnChange(planner.sel, next.planner.sel) THEN Revalidate(FALSE, NewestOpen(requests))
          ELSE UNCHANGED <<fetch, strays>>

\* A tap that lets a request out: the grid shows its outcome at once.
Ask(tap) ==
    LET next == PlannerReducer(planner, tap)
    IN /\ AnotherEvent /\ began < MaxRequests /\ Asks(next.action)
       /\ planner' = next.planner
       /\ began' = began + 1
       /\ requests' = requests \cup {[id |-> began + 1, action |-> next.action,
                                      base |-> Current, answer |-> "none"]}
       /\ backup' = {Current}
       /\ shown' = Predicted(Current, next.action)
       /\ IF RefreshesOnChange(planner.sel, next.planner.sel) THEN Revalidate(FALSE, TRUE)
          ELSE fetch' = Voided /\ UNCHANGED strays
       /\ UNCHANGED <<sched, failed, others, real>>

-----------------------------------------------------------------------------
(* The server and the network *)

Answered(r, answer) == requests' = (requests \ {r}) \cup {[r EXCEPT !.answer = answer]}

Handled(r) ==
    LET outcome == Handle(sched, r.action)
    IN sched' = outcome.plan /\ real' = real \cup {outcome.plan}

ServeRequest(r) ==
    /\ r.answer = "none"
    /\ Handled(r) /\ Answered(r, Handle(sched, r.action).status)
    /\ UNCHANGED <<page, began, others>>

Loses == AnotherEvent /\ others' = others + 1 /\ UNCHANGED began

LoseRequest(r) ==
    /\ r.answer = "none" /\ Loses
    /\ Answered(r, "failed")
    /\ UNCHANGED <<sched, real, page>>

LoseAnswer(r) ==
    /\ r.answer = "none" /\ Loses
    /\ Handled(r) /\ Answered(r, "failed")
    /\ UNCHANGED page

\* The colleague's own device is up to date.
ColleagueActions ==
    {PlaceAction(GridRef(sched, m), line[1], line[2]) : m \in OnGrid(sched), line \in InsertionLines(sched)}
    \cup {PlaceFromTray(m, line[1], line[2]) : m \in Matches \ OnGrid(sched), line \in InsertionLines(sched)}
    \cup {Unschedule(m) : m \in OnGrid(sched)}

ColleagueMoves ==
    /\ AnotherEvent /\ others' = others + 1
    /\ \/ \E action \in ColleagueActions \ {NoAction} : sched' = Handle(sched, action).plan
       \/ \E m \in Matches : sched' = [sched EXCEPT ![m].state = "IN_PROGRESS"]
    /\ sched' # sched /\ real' = real \cup {sched'}
    /\ UNCHANGED <<page, requests, began>>

-----------------------------------------------------------------------------
(* The answers *)

\* Mutant: the schedule is not read again after a request.
AcceptedForGood(r) ==
    /\ r.answer = "ok"
    /\ requests' = requests \ {r}
    /\ UNCHANGED <<sched, page, began, others, real>>

\* Only the newest change of the cache is followed by a revalidation.
Accepted(r) ==
    /\ r.answer = "ok"
    /\ requests' = requests \ {r}
    /\ IF Newest(r) THEN Revalidate(TRUE, FALSE) ELSE UNCHANGED <<fetch, strays>>
    /\ UNCHANGED <<sched, shown, backup, failed, planner, began, others, real>>

\* Mutant: a failed request takes back what the newest one predicted.
RolledBackByAny(r) == shown' = r.base /\ backup' = {}

RolledBack(r) ==
    IF Newest(r) THEN shown' = r.base /\ backup' = {} ELSE UNCHANGED <<shown, backup>>

\* Two revalidations of which the first is replaced at once.
Resynced(r) ==
    /\ fetch' = {[read |-> {}, settles |-> FALSE, void |-> NewestOpen(requests \ {r})]}
    /\ strays' = strays + Settling + IF Newest(r) THEN 1 ELSE 0

Rejected(r) ==
    /\ r.answer \in {"conflict", "refused", "failed"}
    /\ requests' = requests \ {r}
    /\ RolledBack(r) /\ Resynced(r)
    /\ planner' = [planner EXCEPT !.sel = Idle]
    /\ UNCHANGED <<sched, failed, began, others, real>>

-----------------------------------------------------------------------------
(* Revalidation *)

Poll ==
    /\ ~PollingPaused(planner.sel) /\ ~failed /\ fetch = {}
    /\ Revalidate(FALSE, NewestOpen(requests))
    /\ UNCHANGED <<sched, shown, backup, requests, failed, planner, began, others, real>>

Retry ==
    /\ failed /\ fetch = {}
    /\ Revalidate(FALSE, NewestOpen(requests))
    /\ UNCHANGED <<sched, shown, backup, requests, failed, planner, began, others, real>>

ServeFetch ==
    \E f \in fetch :
        /\ f.read = {}
        /\ fetch' = {[f EXCEPT !.read = {sched}]}
        /\ UNCHANGED <<sched, shown, backup, requests, strays, failed, planner, began, others, real>>

Settled(f) == backup' = IF f.settles THEN {} ELSE backup

ReceiveFetch ==
    \E f \in fetch :
        /\ f.read # {}
        /\ fetch' = {} /\ failed' = FALSE /\ Settled(f)
        /\ shown' = IF f.void THEN shown ELSE CHOOSE plan \in f.read : TRUE
        /\ UNCHANGED <<sched, requests, strays, planner, began, others, real>>

LoseFetch ==
    \E f \in fetch :
        /\ Loses
        /\ fetch' = {} /\ failed' = TRUE /\ Settled(f)
        /\ UNCHANGED <<sched, shown, requests, strays, planner, real>>

StraySettles ==
    /\ strays > 0 /\ strays' = strays - 1
    /\ backup' = {}
    /\ UNCHANGED <<sched, shown, requests, fetch, failed, planner, began, others, real>>

-----------------------------------------------------------------------------

Next ==
    \/ \E tap \in Taps : Look(tap) \/ Ask(tap)
    \/ \E r \in requests :
           ServeRequest(r) \/ LoseRequest(r) \/ LoseAnswer(r) \/ Accepted(r) \/ Rejected(r)
    \/ ColleagueMoves
    \/ Poll \/ Retry \/ ServeFetch \/ ReceiveFetch \/ LoseFetch \/ StraySettles

\* The network answers and the timers of the page go off; nobody has to tap.
Responding   == \E r \in requests : ServeRequest(r) \/ Accepted(r) \/ Rejected(r)
Revalidating == Poll \/ Retry \/ ServeFetch \/ ReceiveFetch

Fairness == WF_vars(Responding) /\ WF_vars(Revalidating)

Spec == Init /\ [][Next]_vars /\ Fairness

-----------------------------------------------------------------------------
(* Properties *)

SelectionKinds == {"idle", "match-selected", "tray-match-selected", "confirm-move"}

\* The schedules on both sides stay schedules, a prediction stands in for at
\* most one of them, and at most one revalidation counts.
TypeOK ==
    /\ sched \in Plans /\ shown \in Plans
    /\ backup \subseteq Plans /\ Cardinality(backup) <= 1
    /\ \A r \in requests : r.id \in 1..began /\ r.base \in Plans
    /\ Cardinality(fetch) <= 1 /\ \A f \in fetch : f.read \subseteq Plans
    /\ strays \in Nat /\ failed \in BOOLEAN
    /\ planner.zoom \in ZoomLevels /\ planner.mode \in PlannerModes
    /\ planner.sel.kind \in SelectionKinds
    /\ began \in Nat /\ others \in Nat /\ began + others <= MaxEvents

\* Once every answer is there, the grid shows a schedule the database has held
\* and no prediction, whatever was refused, lost or overtaken on the way
\* (schedule.tsx, handlePlannerEvent: revalidate, and mutate() after an error).
SettledIsReal == requests = {} /\ fetch = {} /\ ~failed => shown \in real

\* From the tap to the answer the grid shows what the newest request will do:
\* no poll, no refresh after a selection and no failure of an older request
\* takes the prediction away.
PredictionStands ==
    \A r \in requests : Newest(r) => shown = Optimistic(r.base, r.action)

\* A match that is played stays on a court, however old the page is from which
\* it is swapped or sent to the tray (validate_match_can_be_unscheduled).
PlayedStayOnCourt ==
    [][\A m \in Matches : Scheduled(sched, m) /\ Played(sched, m) => Scheduled(sched', m)]_vars

\* When the organiser stops placing, the page ends up showing the schedule of
\* the database for good, through lost requests and answers, colliding moves
\* and revalidations that are dropped: the timer of the poll sees to it.
Converges == <>[](planner.sel = Idle) => <>[](shown = sched)

=============================================================================
