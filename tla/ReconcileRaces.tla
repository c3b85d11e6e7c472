--------------------------- MODULE ReconcileRaces ---------------------------
(***************************************************************************)
(* Verbs on different matches of one stage item, as the READ COMMITTED     *)
(* transactions they are.  Each locks the row of its own match only, and   *)
(* then reconciles all of the stage item: statistics, the other round and  *)
(* the input elsewhere that waits for the winner.  A match is reduced to   *)
(* its derived state and, once completed, the side that won; its sets and  *)
(* the pointer are the subject of MatchVerbs.  Points are wins, and every  *)
(* team plays in every round of a Mexicano.                                *)
(***************************************************************************)
EXTENDS Naturals, FiniteSets

CONSTANTS
  Clients,       \* those who send verbs
  Kinds,         \* the types of stage item looked at
  Matches,
  Opening,       \* the matches of the first round
  Later,         \* Later[k]: the matches of the second round of a stage item of type k
  Feeder,        \* Feeder[f][s]: the match whose winner an elimination sends to slot s of f
  Teams,
  NoTeam,
  Drawings,      \* ways to pair every round
  Outcomes,      \* Outcomes[m]: the sides that may win m
  Verbs          \* Verbs[m]: the verbs clients send for m

Slots == {1, 2}
Completed == {"One", "Two"}
RowState == {"NOT_STARTED", "IN_PROGRESS"} \cup Completed
AllVerbs == {"start", "end", "reopen", "reset", "score_edit"}
Pair == [Slots -> Teams \cup {NoTeam}]

ASSUME KindsAssumption == Kinds \subseteq {"ROUND_ROBIN", "MEXICANO", "SINGLE_ELIMINATION"}
ASSUME MatchesAssumption == IsFiniteSet(Matches)
ASSUME OpeningAssumption == Opening \subseteq Matches /\ Opening # {}
ASSUME LaterAssumption == \A k \in Kinds : Later[k] \subseteq Matches \ Opening
ASSUME FeederAssumption == Feeder \in [Matches \ Opening -> [Slots -> Opening]]
ASSUME TeamsAssumption == Teams # {} /\ NoTeam \notin Teams
ASSUME DrawingsAssumption == Drawings \subseteq [Matches -> [Slots -> Teams]]
ASSUME OutcomesAssumption == Outcomes \in [Matches -> SUBSET Completed]
ASSUME VerbsAssumption == Verbs \in [Matches -> SUBSET AllVerbs]

VARIABLES
  kind,          \* the type of the stage item
  row,           \* row[m]: the committed state of a match
  inputs,        \* inputs[m]: the teams in its two slots
  wins,          \* wins[t]: the statistics kept for a team's input
  advanced,      \* the team of the input that waits for the winner of the stage item
  client         \* client[c]: the request of c, with what its transaction has not committed

vars == <<kind, row, inputs, wins, advanced, client>>

-----------------------------------------------------------------------------
(* What reconciliation derives                                             *)

Here == Opening \cup Later[kind]

Empty == [s \in Slots |-> NoTeam]

Definitive(m, slots) == \A s \in Slots : slots[m][s] # NoTeam

\* An elimination match that is not completed has no winner.
Winner(m, rows, slots) ==
  CASE rows[m] = "One" -> slots[m][1]
    [] rows[m] = "Two" -> slots[m][2]
    [] OTHER -> NoTeam

Wins(rows, slots) ==
  [t \in Teams |-> Cardinality({m \in Matches :
     Definitive(m, slots) /\ Winner(m, rows, slots) = t})]

Complete(ms, rows) == \A m \in ms : rows[m] \in Completed

Untouched(ms, rows) == \A m \in ms : rows[m] = "NOT_STARTED"

\* The team in the first position, from the matches and not from the statistics kept.
Leader(rows, slots) ==
  CHOOSE t \in Teams : \A u \in Teams : Wins(rows, slots)[u] <= Wins(rows, slots)[t]

-----------------------------------------------------------------------------
(* Transactions                                                            *)

Blank == [row |-> [m \in Matches |-> "NOT_STARTED"], inputs |-> [m \in Matches |-> Empty]]

Idle ==
  [at |-> "idle", verb |-> "reset", match |-> CHOOSE m \in Opening : TRUE,
   after |-> "NOT_STARTED", seen |-> Blank, wins |-> [t \in Teams |-> 0],
   changed |-> {}, slots |-> Blank.inputs, advanced |-> NoTeam]

Phases == {"read", "planned", "advanced"}
Ranked == {"planned", "advanced"}

Request ==
  [at : {"idle", "checked"} \cup Phases, verb : AllVerbs, match : Matches, after : RowState,
   seen : [row : [Matches -> RowState], inputs : [Matches -> Pair]],
   wins : [Teams -> Nat], changed : SUBSET Matches, slots : [Matches -> Pair],
   advanced : Teams \cup {NoTeam}]

\* The rows of matches a transaction has locked: its own, and those it gave other teams.
RowLocks(c) ==
  {m \in Matches : client[c].at \in Phases /\ m = client[c].match}
    \cup {m \in client[c].changed : client[c].at = "advanced"}

RowsFree(c, ms) == \A d \in Clients \ {c} : ms \cap RowLocks(d) = {}

\* Mutant: only the inputs of the match that changed get new statistics.
RankedTeamsOfMatch(c) ==
  {t \in Teams : \E s \in Slots : t = inputs[client[c].match][s]}

\* Every input with a team gets its statistics written, whatever has changed.
RankedTeams(c) == Teams

InputLocks(c) == {t \in RankedTeams(c) : client[c].at \in Ranked}

InputsFree(c) == \A d \in Clients \ {c} : RankedTeams(c) \cap InputLocks(d) = {}

\* What a statement of the transaction reads now.
Rows(c) == [row EXCEPT ![client[c].match] = client[c].after]
Inputs(c) == [m \in Matches |-> IF m \in client[c].changed THEN client[c].slots[m] ELSE inputs[m]]

Results(verb, m) ==
  CASE verb = "start" -> IF row[m] = "NOT_STARTED" THEN {"IN_PROGRESS"} ELSE {}
    [] verb = "end" -> IF row[m] = "IN_PROGRESS" THEN Outcomes[m] ELSE {}
    [] verb = "reopen" -> IF row[m] \in Completed THEN {"IN_PROGRESS"} ELSE {}
    [] verb = "reset" -> {"NOT_STARTED"}
    [] verb = "score_edit" -> IF row[m] \in Completed THEN Outcomes[m] ELSE {row[m]}

\* The matches that must not have started when m is reset.
Blockers(m) ==
  CASE kind = "SINGLE_ELIMINATION" -> {f \in Later[kind] : \E s \in Slots : Feeder[f][s] = m}
    [] kind = "MEXICANO" -> IF m \in Opening THEN Later[kind] ELSE {}
    [] kind = "ROUND_ROBIN" -> {}

\* A start or a reset is let through, by checks that precede the transaction.
Check(c) ==
  \E m \in Here, verb \in {"start", "reset"} :
    /\ verb \in Verbs[m]
    /\ client[c].at = "idle"
    /\ verb = "start" /\ row[m] = "NOT_STARTED" => Definitive(m, inputs)
    /\ verb = "reset" => Untouched(Blockers(m), row)
    /\ client' = [client EXCEPT ![c] = [Idle EXCEPT !.at = "checked", !.verb = verb, !.match = m]]
    /\ UNCHANGED <<kind, row, inputs, wins, advanced>>

\* The row of the match is locked, the verb applied and completed_at brought along;
\* then the stage item is read for the reconciliation.
Lock(c, m, verb) ==
  \E after \in Results(verb, m) :
    /\ RowsFree(c, {m})
    /\ client' = [client EXCEPT ![c] = [Idle EXCEPT !.at = "read", !.match = m, !.after = after,
         !.seen = [row |-> [row EXCEPT ![m] = after], inputs |-> inputs]]]
    /\ UNCHANGED <<kind, row, inputs, wins, advanced>>

LockChecked(c) == client[c].at = "checked" /\ Lock(c, client[c].match, client[c].verb)

\* The other verbs have no check that another match could make stale.
LockUnchecked(c) ==
  \E m \in Here, verb \in {"end", "reopen", "score_edit"} :
    /\ verb \in Verbs[m]
    /\ client[c].at = "idle"
    /\ Lock(c, m, verb)

\* The pointer does not allow the start: IllegalMatchTransitionError.
Refuse(c) ==
  /\ client[c].at = "checked"
  /\ RowsFree(c, {client[c].match})
  /\ Results(client[c].verb, client[c].match) = {}
  /\ client' = [client EXCEPT ![c] = Idle]
  /\ UNCHANGED <<kind, row, inputs, wins, advanced>>

\* Statistics of what was read are written, which waits for the rows of the inputs.
\* The transaction will then give the matches ms the teams in slots.
Rank(c, ms, slots) ==
  /\ client[c].at = "read"
  /\ InputsFree(c)
  /\ client' = [client EXCEPT ![c].at = "planned", ![c].seen = Blank,
       ![c].wins = Wins(client[c].seen.row, client[c].seen.inputs),
       ![c].changed = ms,
       ![c].slots = [m \in Matches |-> IF m \in ms THEN slots[m] ELSE Empty]]
  /\ UNCHANGED <<kind, row, inputs, wins, advanced>>

\* Each round has the teams it was built with.
PlanNothing(c) == kind = "ROUND_ROBIN" /\ Rank(c, {}, inputs)

\* The winner or nobody goes to the match fed, if it has not started: both of its
\* slots are written, and all of it is from what was read before the statistics.
PlanCascade(c) ==
  LET m == client[c].match
      seen == client[c].seen
      fed == [f \in Matches |-> [s \in Slots |->
                IF f \notin Opening /\ Feeder[f][s] = m
                THEN Winner(m, seen.row, seen.inputs) ELSE seen.inputs[f][s]]]
  IN  /\ kind = "SINGLE_ELIMINATION"
      /\ Rank(c, {f \in Later[kind] : seen.row[f] = "NOT_STARTED" /\ fed[f] # seen.inputs[f]}, fed)

\* Mutant: rounds are drawn on what was read before the statistics.
ReadForDrawSeen(c) == client[c].seen

\* auto_resolve_next_round reads the stage item again.
ReadForDraw(c) == [row |-> Rows(c), inputs |-> Inputs(c)]

Drawn(ms, slots) == \A m \in ms : Definitive(m, slots)

\* A drawn round before whose start the previous one was taken back.
Premature(read) ==
  /\ Drawn(Later[kind], read.inputs)
  /\ Untouched(Later[kind], read.row)
  /\ ~Complete(Opening, read.row)

\* A placeholder behind a complete round, and every drawn round that has not started.
RoundsToDraw(read) ==
  {ms \in {Opening, Later[kind]} :
     \/ Drawn(ms, read.inputs) /\ Untouched(ms, read.row)
     \/ ms = Later[kind] /\ ~Drawn(ms, read.inputs) /\ Complete(Opening, read.row)}

PlanUnwire(c) ==
  /\ kind = "MEXICANO"
  /\ Premature(ReadForDraw(c))
  /\ Rank(c, Later[kind], Blank.inputs)

PlanDrawings(c) ==
  \E pairs \in Drawings :
    /\ kind = "MEXICANO"
    /\ ~Premature(ReadForDraw(c))
    /\ Rank(c, UNION RoundsToDraw(ReadForDraw(c)), pairs)

\* Mutant: the advance is decided on what is committed.
ReadForAdvanceCommitted(c) == [row |-> row, inputs |-> inputs]

\* resolve_dependent_inputs_for_completed_stage_item reads the tournament.
ReadForAdvance(c) == [row |-> Rows(c), inputs |-> Inputs(c)]

\* The plan is written, once nobody else has locked the matches it names, and the
\* input that waits for the winner gets the leader of a complete stage item.
Advance(c) ==
  LET read == ReadForAdvance(c) IN
  /\ client[c].at = "planned"
  /\ RowsFree(c, client[c].changed)
  /\ client' = [client EXCEPT ![c].at = "advanced",
       ![c].advanced = IF Complete(Here, read.row) THEN Leader(read.row, read.inputs) ELSE advanced]
  /\ UNCHANGED <<kind, row, inputs, wins, advanced>>

Commit(c) ==
  /\ client[c].at = "advanced"
  /\ row' = Rows(c)
  /\ inputs' = Inputs(c)
  /\ wins' = [t \in Teams |-> IF t \in RankedTeams(c) THEN client[c].wins[t] ELSE wins[t]]
  /\ advanced' = client[c].advanced
  /\ client' = [client EXCEPT ![c] = Idle]
  /\ UNCHANGED kind

\* A victim of a deadlock, a statement that fails, a connection that is lost.
Rollback(c) ==
  /\ client[c].at \in Phases
  /\ client' = [client EXCEPT ![c] = Idle]
  /\ UNCHANGED <<kind, row, inputs, wins, advanced>>

Init ==
  \E pairs \in Drawings :
    /\ kind \in Kinds
    /\ row = Blank.row
    /\ inputs = [m \in Matches |->
         IF m \in Opening \/ kind = "ROUND_ROBIN" THEN pairs[m] ELSE Empty]
    /\ wins = [t \in Teams |-> 0]
    /\ advanced = NoTeam
    /\ client = [c \in Clients |-> Idle]

Verb(c) ==
  \/ Check(c) \/ LockChecked(c) \/ LockUnchecked(c) \/ Refuse(c)
  \/ PlanNothing(c) \/ PlanCascade(c) \/ PlanUnwire(c) \/ PlanDrawings(c)
  \/ Advance(c) \/ Commit(c) \/ Rollback(c)

Next == \E c \in Clients : Verb(c)

Spec == Init /\ [][Next]_vars

-----------------------------------------------------------------------------
(* Properties                                                              *)

\* Every variable and every field of a request keeps its type.
TypeOK ==
  /\ kind \in Kinds
  /\ row \in [Matches -> RowState]
  /\ inputs \in [Matches -> Pair]
  /\ wins \in [Teams -> Nat]
  /\ advanced \in Teams \cup {NoTeam}
  /\ client \in [Clients -> Request]

\* Whichever of the last results commits last, and in whatever order the transactions
\* read and waited, a complete stage item has sent its leader on
\* (resolve_dependent_inputs_for_completed_stage_item).
AdvanceNotLost == Complete(Here, row) => advanced = Leader(row, inputs)

\* Two results that complete a round at once do not leave the next one waiting
\* (auto_resolve_next_round).
NextRoundDrawn == kind = "MEXICANO" /\ Complete(Opening, row) => Drawn(Later[kind], inputs)

\* "No cascade may ever modify a downstream round that has started": a Mexicano match that
\* starts while a drawing is under way keeps the teams it has, and so does any match of
\* a round robin (build_unwire_plan, get_rounds_to_re_resolve).
StartedKeepsPairs ==
  [][kind # "SINGLE_ELIMINATION" =>
       \A m \in Matches :
         Definitive(m, inputs) /\ row[m] # "NOT_STARTED" /\ row'[m] # "NOT_STARTED"
         => inputs'[m] = inputs[m]]_vars

\* "Bring every standings-derived structure back in line" (reconcile_stage_item): once the
\* results of the first round are in and no request is open, the statistics are those of
\* the results, and an elimination match of the second round knows its opponents.
FirstRoundReconciled ==
  Complete(Opening, row) /\ (\A c \in Clients : client[c].at \notin Phases) =>
    /\ wins = Wins(row, inputs)
    /\ kind = "SINGLE_ELIMINATION" => Drawn(Later[kind], inputs)
=============================================================================
