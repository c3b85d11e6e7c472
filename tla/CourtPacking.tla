---------------------------- MODULE CourtPacking ----------------------------
(***************************************************************************)
(* The schedule of a tournament and what a planning request does to it,    *)
(* twice: as the server packs the courts and as the browser predicts it.   *)
(*                                                                         *)
(* A plan gives every match its court, the minutes from the tournament     *)
(* start to its own (0 in the tray, where the rows hold no time), its      *)
(* length and its lifecycle state.                                         *)
(***************************************************************************)
EXTENDS PlannerSelection, FiniteSets

CONSTANTS Matches, Courts,
          Break             \* tournament.margin_minutes

ASSUME PackingAssumption ==
    /\ Matches \subseteq Nat /\ IsFiniteSet(Matches)
    /\ NoCourt \notin Courts
    /\ Break \in Nat

MatchStates == {"NOT_STARTED", "IN_PROGRESS", "COMPLETED"}

Plans == [Matches -> [court : Courts \cup {NoCourt}, start : Nat,
                      minutes : Nat, state : MatchStates]]

-----------------------------------------------------------------------------
(* Reading a plan *)

Scheduled(plan, m) == plan[m].court # NoCourt

Played(plan, m) == plan[m].state # "NOT_STARTED"

EndOf(plan, m) == plan[m].start + plan[m].minutes

OnCourt(plan, c) == {m \in Matches : plan[m].court = c}

OnCourts(plan, cs) == {m \in Matches : plan[m].court \in cs}

Earlier(plan, a, b) ==
    plan[a].start < plan[b].start \/ (plan[a].start = plan[b].start /\ a < b)

PositionOf(plan, m) ==
    Cardinality({o \in OnCourt(plan, plan[m].court) : Earlier(plan, o, m)})

InTray(plan, m) == [plan EXCEPT ![m].court = NoCourt, ![m].start = 0]

SameSlot(plan, other, m) ==
    plan[m].court = other[m].court /\ plan[m].start = other[m].start

\* Somewhere on court c two neighbours are closer than the default break.
ShortBreak(plan, c) ==
    \E a, b \in OnCourt(plan, c) :
        Earlier(plan, a, b) /\ plan[b].start < EndOf(plan, a) + Break

-----------------------------------------------------------------------------
(* The server: reorder_all_matches and the handlers that call it *)

Ahead(plan, key, m) == {o \in OnCourt(plan, plan[m].court) : key[o] < key[m]}

LastOf(key, ms) == CHOOSE o \in ms : \A p \in ms : key[p] <= key[o]

\* m keeps its start unless the match ahead of it and the break run into it.
PackedStart(plan, key, starts, m) ==
    LET last == LastOf(key, Ahead(plan, key, m))
        free == starts[last] + plan[last].minutes + Break
    IN IF Ahead(plan, key, m) = {} \/ plan[m].start >= free THEN plan[m].start ELSE free

\* Every court of cs packed in the order of the keys of its matches.
Repacked(plan, cs, key) ==
    LET starts[m \in OnCourts(plan, cs)] == PackedStart(plan, key, starts, m)
    IN [m \in Matches |-> IF plan[m].court \in cs THEN [plan[m] EXCEPT !.start = starts[m]]
                          ELSE plan[m]]

\* Doubled, so that half a position is 1.
Positions(plan) == [m \in Matches |-> 2 * PositionOf(plan, m)]

Done(plan)    == [status |-> "ok", plan |-> plan]
Stale(plan)   == [status |-> "conflict", plan |-> plan]     \* HTTP 409
Refused(plan) == [status |-> "refused", plan |-> plan]      \* HTTP 400 and 404

\* Mutant: a match that moves later on its court stops before its place.
OffsetBefore(a) == -1

\* Before the match at the new position, or after it when moving later.
Offset(a) == IF a.newPosition < a.oldPosition \/ a.newCourt # a.oldCourt THEN -1 ELSE 1

HandleReschedule(plan, a) ==
    LET m     == a.match
        key   == [Positions(plan) EXCEPT ![m] = 2 * a.newPosition + Offset(a)]
        moved == [plan EXCEPT ![m].court = a.newCourt, ![m].start = 0]
    IN CASE a.oldCourt # NoCourt /\ a.oldCourt = a.newCourt /\ a.oldPosition = a.newPosition ->
                Done(plan)
         [] a.oldCourt = NoCourt ->
                IF Scheduled(plan, m) THEN Stale(plan)
                ELSE Done(Repacked(moved, {a.newCourt}, key))
         [] OTHER ->
                IF plan[m].court # a.oldCourt \/ PositionOf(plan, m) # a.oldPosition
                THEN Stale(plan)
                ELSE Done(Repacked(moved, {a.oldCourt, a.newCourt}, key))

\* Mutant: whether the match was played is only looked at in the browser.
HandleUnscheduleUnchecked(plan, m) == Done(InTray(plan, m))

\* validate_match_can_be_unscheduled, and the route that calls it.
HandleUnschedule(plan, m) ==
    IF Played(plan, m) THEN Refused(plan) ELSE Done(InTray(plan, m))

\* b takes the slot of a: its court, start and place in the court's order.
TakesSlot(plan, a, b) == [plan EXCEPT ![b].court = plan[a].court, ![b].start = plan[a].start]

HandleSwap(plan, a, b) ==
    LET key    == Positions(plan)
        traded == [key EXCEPT ![a] = key[b], ![b] = key[a]]
        leaves == IF Scheduled(plan, a) THEN a ELSE b
        comes  == IF Scheduled(plan, a) THEN b ELSE a
    IN CASE a = b -> Done(plan)
         [] a # b /\ ~Scheduled(plan, a) /\ ~Scheduled(plan, b) -> Refused(plan)
         [] a # b /\ Scheduled(plan, a) /\ Scheduled(plan, b) ->
                Done(Repacked([TakesSlot(plan, a, b) EXCEPT ![a] = [plan[a] EXCEPT
                                  !.court = plan[b].court, !.start = plan[b].start]],
                              {plan[a].court, plan[b].court}, traded))
         [] OTHER ->
                IF Played(plan, leaves) THEN Refused(plan)
                ELSE Done(Repacked(InTray(TakesSlot(plan, leaves, comes), leaves),
                                   {plan[leaves].court}, traded))

Before(plan, m) == {o \in OnCourt(plan, plan[m].court) : Earlier(plan, o, m)}

\* Mutant: the default break is taken off the break before the first match.
PreviousEndLessBreak(plan, m) == IF Before(plan, m) = {} THEN -Break ELSE 0

\* The tournament start, for the first match of its court.
PreviousEnd(plan, m) ==
    IF Before(plan, m) = {} THEN 0
    ELSE EndOf(plan, CHOOSE o \in Before(plan, m) : \A p \in Before(plan, m) : ~Earlier(plan, o, p))

\* The break before m becomes the given minutes: m and all after it move.
Resized(plan, m, minutes) ==
    LET delta == PreviousEnd(plan, m) + minutes - plan[m].start
        later == OnCourt(plan, plan[m].court) \ Before(plan, m)
    IN [o \in Matches |-> IF o \in later THEN [plan[o] EXCEPT !.start = @ + delta] ELSE plan[o]]

HandleResizeBreak(plan, m, minutes) ==
    IF Scheduled(plan, m) THEN Done(Resized(plan, m, minutes)) ELSE Refused(plan)

\* Mutant: the court of a match with another duration is not packed.
DurationOnly(plan, m, minutes) == [plan EXCEPT ![m].minutes = minutes]

\* update_match_by_id with another custom duration.
HandleDuration(plan, m, minutes) ==
    LET longer == [plan EXCEPT ![m].minutes = minutes]
    IN IF minutes # plan[m].minutes /\ Scheduled(plan, m)
       THEN Repacked(longer, {plan[m].court}, Positions(longer))
       ELSE longer

\* What the server answers to a request of the planner, and leaves behind.
Handle(plan, a) ==
    CASE a.type = "reschedule"   -> HandleReschedule(plan, a)
      [] a.type = "swap"         -> HandleSwap(plan, a.match, a.other)
      [] a.type = "resize-break" -> HandleResizeBreak(plan, a.match, a.minutes)
      [] a.type = "unschedule"   -> HandleUnschedule(plan, a.match)

-----------------------------------------------------------------------------
(* The browser: applyPlanningActions on the cached plan *)

ClampTo(i, n) == IF i < 0 THEN 0 ELSE IF i > n THEN n ELSE i

\* The key of the match is between those of the others of its new court,
\* which stay in the order of their starts.
InsertedKey(plan, a) ==
    LET others == OnCourt(plan, a.newCourt) \ {a.match}
        place(m) == Cardinality({o \in others : Earlier(plan, o, m)})
    IN [m \in Matches |->
            IF m = a.match THEN 2 * ClampTo(a.newPosition, Cardinality(others)) - 1
            ELSE 2 * place(m)]

\* Only the destination is packed.
OptimisticReschedule(plan, a) ==
    Repacked([plan EXCEPT ![a.match].court = a.newCourt, ![a.match].start = 0],
             {a.newCourt}, InsertedKey(plan, a))

OptimisticSwap(plan, a, b) ==
    CASE Scheduled(plan, a) /\ Scheduled(plan, b) ->
            [TakesSlot(plan, a, b) EXCEPT ![a] = [plan[a] EXCEPT
                !.court = plan[b].court, !.start = plan[b].start]]
      [] Scheduled(plan, a) /\ ~Scheduled(plan, b) -> InTray(TakesSlot(plan, a, b), a)
      [] ~Scheduled(plan, a) /\ Scheduled(plan, b) -> InTray(TakesSlot(plan, b, a), b)
      [] OTHER -> plan

Optimistic(plan, a) ==
    CASE a.type = "reschedule"   -> OptimisticReschedule(plan, a)
      [] a.type = "swap"         -> OptimisticSwap(plan, a.match, a.other)
      [] a.type = "resize-break" -> IF Scheduled(plan, a.match)
                                    THEN Resized(plan, a.match, a.minutes) ELSE plan
      [] a.type = "unschedule"   -> InTray(plan, a.match)
      [] OTHER -> plan

=============================================================================
