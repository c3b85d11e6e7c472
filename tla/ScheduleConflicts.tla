------------------------- MODULE ScheduleConflicts -------------------------
(***************************************************************************)
(* The conflict engine: which matches of a plan clash with another one.    *)
(* A flag is a pair of a match and a kind; each pass of the engine adds a  *)
(* set of them. A slot is a stage item input: a place in a stage item      *)
(* that may already hold a team.                                           *)
(***************************************************************************)
EXTENDS CourtPacking

CONSTANTS Slots, Teams, Items,
          NoSlot, NoTeam, NoItem, NoMatch,
          TeamOf,           \* slot -> team, NoTeam while it is a placeholder
          SourceOf,         \* slot -> the stage item whose ranking fills it
          ItemOf,           \* match -> stage item
          TypeOf,           \* stage item -> its type
          RoundOf,          \* match -> the id of its round
          Side,             \* match -> side -> slot, NoSlot until it is known
          Feeder,           \* match -> side -> the match whose winner plays there
          Referee,          \* match -> slot
          RefereesEnabled

Sides == 1..2

ASSUME ConflictAssumption ==
    /\ NoMatch \notin Matches /\ NoSlot \notin Slots /\ NoTeam \notin Teams /\ NoItem \notin Items
    /\ TeamOf \in [Slots -> Teams \cup {NoTeam}]
    /\ SourceOf \in [Slots -> Items \cup {NoItem}]
    /\ ItemOf \in [Matches -> Items]
    /\ RoundOf \in [Matches -> Nat]
    /\ Side \in [Matches -> [Sides -> Slots \cup {NoSlot}]]
    /\ Feeder \in [Matches -> [Sides -> Matches \cup {NoMatch}]]
    /\ Referee \in [Matches -> Slots \cup {NoSlot}]
    /\ \A m \in Matches : \A s \in Sides : Referee[m] # NoSlot => Referee[m] # Side[m][s]
    /\ RefereesEnabled \in BOOLEAN

SideFlag == <<"stage_item_input1", "stage_item_input2">>
FlagKinds == {SideFlag[1], SideFlag[2], "precedence", "feeder_precedence",
              "short_break", "referee", "round_order"}

-----------------------------------------------------------------------------

Overlap(plan, a, b) ==
    /\ Scheduled(plan, a) /\ Scheduled(plan, b)
    /\ plan[a].start < EndOf(plan, b) /\ plan[b].start < EndOf(plan, a)

Definitive(m) == \A s \in Sides : Side[m][s] # NoSlot

SlotTeam(slot) == IF slot = NoSlot THEN NoTeam ELSE TeamOf[slot]

\* Mutant: each pair is looked at once, and only its first match is flagged.
ClashesOnce(plan) == {c \in Matches \X Matches : c[1] < c[2] /\ Overlap(plan, c[1], c[2])}

\* Two matches at the same time, both ways round.
Clashes(plan) == {c \in Matches \X Matches : c[1] # c[2] /\ Overlap(plan, c[1], c[2])}

Plays(m, s, team) == team # NoTeam /\ SlotTeam(Side[m][s]) = team

TeamOverlapConflicts(clashes) ==
    {<<x[1][1], SideFlag[x[2]]>> : x \in
        {x \in clashes \X Sides :
            /\ Definitive(x[1][1]) /\ Definitive(x[1][2])
            /\ \E t \in Sides : Plays(x[1][2], t, SlotTeam(Side[x[1][1]][x[2]]))}}

\* A referee that plays or referees another match meanwhile. The side that
\* plays is flagged too when both sides of its match are known.
RefereeOverlapConflicts(clashes) ==
    LET team(m) == SlotTeam(Referee[m])
        plays   == {x \in clashes \X Sides : Plays(x[1][2], x[2], team(x[1][1]))}
        twice   == {c \in clashes : team(c[1]) # NoTeam /\ team(c[1]) = team(c[2])}
    IN {<<x[1][1], "referee">> : x \in plays} \cup {<<c[1], "referee">> : c \in twice}
       \cup {<<x[1][2], SideFlag[x[2]]>> : x \in {y \in plays : Definitive(y[1][2])}}

\* The roles in which a match needs a slot, and the flag each one gets.
Occupancies(m) ==
    {<<Side[m][s], SideFlag[s]>> : s \in Sides}
    \cup (IF RefereesEnabled THEN {<<Referee[m], "referee">>} ELSE {})

SlotOverlapConflicts(clashes) ==
    UNION {{<<c[1], mine[2]>> : mine \in
        {o \in Occupancies(c[1]) : o[1] # NoSlot /\ \E theirs \in Occupancies(c[2]) : theirs[1] = o[1]}}
        : c \in clashes}

WinnerOfPrecedenceConflicts(plan) ==
    LET fed  == {m \in Matches : Scheduled(plan, m)} \X Sides
        late == {x \in fed : LET f == Feeder[x[1]][x[2]] IN
                    /\ f # NoMatch
                    /\ Scheduled(plan, f) /\ plan[x[1]].start < EndOf(plan, f)}
    IN {<<x[1], "precedence">> : x \in late}
       \cup {<<Feeder[x[1]][x[2]], "feeder_precedence">> : x \in late}

MatchesOf(plan, i) == {m \in Matches : ItemOf[m] = i /\ Scheduled(plan, m)}

\* A side of m waits for the ranking of stage item i.
FeedsOn(m, i) == \E s \in Sides : Side[m][s] # NoSlot /\ SourceOf[Side[m][s]] = i

\* Mutant: a match only waits for the first end in the stage item it feeds on.
CrossStageFirstEndConflicts(plan) ==
    {<<m, "precedence">> : m \in
        {m \in Matches : Scheduled(plan, m) /\ \E i \in Items : FeedsOn(m, i) /\
            MatchesOf(plan, i) # {} /\ \A o \in MatchesOf(plan, i) : plan[m].start < EndOf(plan, o)}}

\* A match waits for the whole stage item it feeds on.
CrossStagePrecedenceConflicts(plan) ==
    {<<m, "precedence">> : m \in
        {m \in Matches : Scheduled(plan, m) /\ \E i \in Items : FeedsOn(m, i) /\
            \E o \in MatchesOf(plan, i) : plan[m].start < EndOf(plan, o)}}

\* A match should end before the earliest match of a stage item of which any
\* match feeds on its own.
CrossStageFeederPrecedenceConflicts(plan) ==
    {<<m, "feeder_precedence">> : m \in
        {m \in Matches : Scheduled(plan, m) /\ \E i \in Items :
            /\ \E d \in Matches : ItemOf[d] = i /\ FeedsOn(d, ItemOf[m])
            /\ \E o \in MatchesOf(plan, i) : EndOf(plan, m) > plan[o].start}}

ShortBreakConflicts(plan) ==
    {<<b, "short_break">> : b \in
        {b \in Matches : Scheduled(plan, b) /\ \E a \in OnCourt(plan, plan[b].court) :
            /\ Earlier(plan, a, b)
            /\ ~\E c \in OnCourt(plan, plan[b].court) : Earlier(plan, a, c) /\ Earlier(plan, c, b)
            /\ plan[b].start < EndOf(plan, a) + Break}}

RoundOrderConflicts(plan) ==
    {<<m, "round_order">> : m \in
        {m \in Matches : Scheduled(plan, m) /\ TypeOf[ItemOf[m]] # "ROUND_ROBIN" /\
            \E o \in MatchesOf(plan, ItemOf[m]) :
                /\ RoundOf[o] < RoundOf[m] /\ plan[m].start < EndOf(plan, o)
                /\ ~\E p \in Matches : ItemOf[p] = ItemOf[m]
                        /\ RoundOf[o] < RoundOf[p] /\ RoundOf[p] < RoundOf[m]}}

ConflictFlags(plan) ==
    LET clashes == Clashes(plan) IN
    TeamOverlapConflicts(clashes)
    \cup (IF RefereesEnabled THEN RefereeOverlapConflicts(clashes) ELSE {})
    \cup SlotOverlapConflicts(clashes)
    \cup WinnerOfPrecedenceConflicts(plan)
    \cup CrossStagePrecedenceConflicts(plan)
    \cup CrossStageFeederPrecedenceConflicts(plan)
    \cup ShortBreakConflicts(plan)
    \cup RoundOrderConflicts(plan)

=============================================================================
