--------------------------- MODULE RoundResolution ---------------------------
(***************************************************************************)
(* A Swiss or Mexicano stage item.  Its rounds are built as placeholders   *)
(* and resolved one after the other from the standings: reconciliation     *)
(* draws the next round when its predecessor completes, draws again what   *)
(* waits, and takes back what was drawn too early.                         *)
(*                                                                         *)
(* The standings are left out: a drawing is any pairing of the pool.  The  *)
(* sets of a match are left out: it has not started, runs or is completed. *)
(* A pair, a bye and a referee are sets of inputs, empty for none.         *)
(***************************************************************************)
EXTENDS Integers, FiniteSets

CONSTANTS
  Inputs,        \* the inputs of the stage item
  MaxRounds,     \* bound on the rounds it may have
  BuiltRounds,   \* rounds its skeleton is built with
  RoundCounts,   \* round counts an organiser may change to
  OpenInputs,    \* inputs an organiser fills and empties by hand
  Sources,       \* sets of inputs that wait for one other stage item each
  DropOuts,      \* inputs whose team may be (de)activated
  Deletable,     \* rounds an organiser may delete
  Editors        \* pages that may have the form of a round open

ASSUME InputsAssumption == IsFiniteSet(Inputs) /\ Cardinality(Inputs) >= 2
ASSUME RoundsAssumption ==
  /\ MaxRounds \in Nat
  /\ BuiltRounds \in 1..MaxRounds
  /\ RoundCounts \subseteq 1..MaxRounds
ASSUME InputSetsAssumption ==
  /\ OpenInputs \subseteq Inputs
  /\ Sources \subseteq SUBSET Inputs
  /\ DropOuts \subseteq Inputs

VARIABLES
  planned,       \* rounds of the skeleton for the current games_per_player
  rounds,        \* the rounds that exist, in the order of their ids
  round,         \* the round rows, each with its matches
  final,         \* inputs with a concrete team
  active,        \* inputs whose team is, or will be, an active one
  form           \* form[e]: the round e has open and the lifecycle it shows

vars == <<planned, rounds, round, final, active, form>>

-----------------------------------------------------------------------------
(* The stored data                                                         *)

RoundIds == 1..MaxRounds
Tables == 1..(Cardinality(Inputs) \div 2)
HasByeSlot == Cardinality(Inputs) % 2 = 1

Lifecycle == {"PLACEHOLDER", "RESOLVED"}
MatchState == {"NOT_STARTED", "IN_PROGRESS", "COMPLETED"}

RoundRow == [lifecycle : Lifecycle,
             pinned : BOOLEAN,
             pair : [Tables -> SUBSET Inputs],
             referee : [Tables -> SUBSET Inputs],
             state : [Tables -> MatchState]]

PlaceholderRound == [lifecycle |-> "PLACEHOLDER",
                     pinned |-> FALSE,
                     pair |-> [t \in Tables |-> {}],
                     referee |-> [t \in Tables |-> {}],
                     state |-> [t \in Tables |-> "NOT_STARTED"]]

Closed == <<0, "PLACEHOLDER">>
Forms == {Closed} \cup (RoundIds \X Lifecycle)

NotStarted(row) == \A t \in Tables : row.state[t] = "NOT_STARTED"

\* Mutant: a match nobody was drawn for keeps its round from completing.
CompleteWithoutSurplus(row) == \A t \in Tables : row.state[t] = "COMPLETED"

\* A match nobody was drawn for counts as concluded in a resolved round only.
Complete(row) ==
  \A t \in Tables :
    \/ row.state[t] = "COMPLETED"
    \/ row.lifecycle = "RESOLVED" /\ row.pair[t] = {}

\* The inputs that are drawn.
Pool(fs, as) == fs \cap as

-----------------------------------------------------------------------------
(* Drawing a round                                                         *)

\* Half the pool, rounded down, is paired at the first tables.
Drawings(pool) ==
  {pair \in [Tables -> {p \in SUBSET pool : Cardinality(p) \in {0, 2}}] :
     /\ \A t \in Tables : pair[t] # {} <=> t <= Cardinality(pool) \div 2
     /\ \A t, u \in Tables : t # u => pair[t] \cap pair[u] = {}}

Bye(pool, pair) == pool \ UNION {pair[t] : t \in Tables}

\* Mutant: a match nobody was drawn for is skipped.
DrawnSkipsSurplus(row, pool, pair) ==
  [row EXCEPT !.lifecycle = "RESOLVED",
              !.pair = [t \in Tables |-> IF pair[t] = {} THEN row.pair[t] ELSE pair[t]],
              !.referee = IF HasByeSlot /\ Bye(pool, pair) # {}
                          THEN [t \in Tables |-> Bye(pool, pair)] ELSE @]

\* Mutant: the lifecycle is not advanced.
DrawnStaysPlaceholder(row, pool, pair) ==
  [row EXCEPT !.pair = pair,
              !.referee = IF HasByeSlot /\ Bye(pool, pair) # {}
                          THEN [t \in Tables |-> Bye(pool, pair)] ELSE @]

\* The bye referees every match of the round; without a bye the referees stay.
Drawn(row, pool, pair) ==
  [row EXCEPT !.lifecycle = "RESOLVED",
              !.pair = pair,
              !.referee = IF HasByeSlot /\ Bye(pool, pair) # {}
                          THEN [t \in Tables |-> Bye(pool, pair)] ELSE @]

Unwired(row) == [row EXCEPT !.lifecycle = "PLACEHOLDER",
                            !.pair = [t \in Tables |-> {}]]

-----------------------------------------------------------------------------
(* Reconciliation.  rs and rows are the rounds as a request leaves them.   *)

\* Mutant: a pinned round is drawn again.
AutomatedIgnoresPin(row) == row.lifecycle = "RESOLVED" /\ NotStarted(row)

\* Mutant: a round with a match in play is drawn again.
AutomatedIgnoresStart(row) ==
  row.lifecycle = "RESOLVED" /\ ~row.pinned /\ \E t \in Tables : row.state[t] = "NOT_STARTED"

\* The resolved rounds the policy still owns.
Automated(row) == row.lifecycle = "RESOLVED" /\ ~row.pinned /\ NotStarted(row)

UnwirableRounds(rs, rows) ==
  {r \in rs : Automated(rows[r]) /\ \E p \in rs : p < r /\ ~Complete(rows[p])}

Previous(rs, r) == {p \in rs : p < r /\ \A q \in rs : q < r => q <= p}

\* Mutant: a round is drawn before its predecessor is complete.
ReadyEarly(rs, rows, r) == rows[r].lifecycle = "PLACEHOLDER"

Ready(rs, rows, r) ==
  /\ rows[r].lifecycle = "PLACEHOLDER"
  /\ \A p \in Previous(rs, r) : Complete(rows[p])

NextToResolve(rs, rows) ==
  {r \in rs : Ready(rs, rows, r) /\ \A q \in rs : Ready(rs, rows, q) => r <= q}

\* With an empty pool nothing is drawn, and a placeholder stays one.
Resolved(rows, pool, drawn) ==
  IF pool = {} THEN {rows}
  ELSE {[r \in RoundIds |-> IF r \in drawn THEN Drawn(rows[r], pool, draw[r]) ELSE rows[r]] :
          draw \in [drawn -> Drawings(pool)]}

\* What may become of the rows.  Taking a round back ends the reconciliation.
Reconciled(rs, rows, pool) ==
  LET unwirable == UnwirableRounds(rs, rows)
  IN  IF unwirable # {}
      THEN {[r \in RoundIds |-> IF r \in unwirable THEN Unwired(rows[r]) ELSE rows[r]]}
      ELSE Resolved(rows, pool,
                    NextToResolve(rs, rows) \cup {r \in rs : Automated(rows[r])})

FirstRound(rs) == {r \in rs : \A q \in rs : r <= q}

\* Round 1 alone, while it is a placeholder.
FirstResolved(rs, rows, pool) ==
  Resolved(rows, pool, {r \in FirstRound(rs) : rows[r].lifecycle = "PLACEHOLDER"})

-----------------------------------------------------------------------------
(* The match verbs                                                         *)

SetMatchState(r, t, state) == [round EXCEPT ![r].state[t] = state]

ReconcileMatch(r, t, state) ==
  /\ round' \in Reconciled(rounds, SetMatchState(r, t, state), Pool(final, active))
  /\ UNCHANGED <<planned, rounds, final, active, form>>

OpponentsKnown(r, t) == round[r].pair[t] # {} /\ round[r].pair[t] \subseteq final

\* The first set, or the next one of a match in play.
Start(r, t) ==
  /\ round[r].state[t] # "COMPLETED"
  /\ round[r].state[t] = "NOT_STARTED" => OpponentsKnown(r, t)
  /\ ReconcileMatch(r, t, "IN_PROGRESS")

\* A set of several, or the one that concludes the match.
End(r, t) ==
  /\ round[r].state[t] = "IN_PROGRESS"
  /\ \E state \in {"IN_PROGRESS", "COMPLETED"} : ReconcileMatch(r, t, state)

Reopen(r, t) ==
  /\ round[r].state[t] # "NOT_STARTED"
  /\ ReconcileMatch(r, t, "IN_PROGRESS")

\* Refused while any match of a later round has started.
Reset(r, t) ==
  /\ \A q \in rounds : q > r => NotStarted(round[q])
  /\ ReconcileMatch(r, t, "NOT_STARTED")

\* A score may decide a match in play or reopen the question; it starts none.
ScoreEdit(r, t) ==
  \E state \in MatchState :
    /\ state = "NOT_STARTED" <=> round[r].state[t] = "NOT_STARTED"
    /\ ReconcileMatch(r, t, state)

-----------------------------------------------------------------------------
(* The other requests                                                      *)

\* A set count or play_all_sets decides matches in play and reopens others.
EditRanking ==
  \E states \in [rounds -> [Tables -> MatchState]] :
    /\ \A r \in rounds, t \in Tables :
         states[r][t] = "NOT_STARTED" <=> round[r].state[t] = "NOT_STARTED"
    /\ round' \in Reconciled(rounds,
         [r \in RoundIds |-> IF r \in rounds THEN [round[r] EXCEPT !.state = states[r]]
                             ELSE round[r]],
         Pool(final, active))
    /\ UNCHANGED <<planned, rounds, final, active, form>>

Swapped(row, t, u) ==
  [row EXCEPT !.pinned = TRUE,
              !.pair = [row.pair EXCEPT ![t] = row.pair[u], ![u] = row.pair[t]]]

\* Swaps two pairs and pins the round; nothing is reconciled.
SwapMatchInputs(r, t, u) ==
  /\ t # u
  /\ round[r].lifecycle = "RESOLVED"
  /\ NotStarted(round[r])
  /\ round[r].referee[t] \cap round[r].pair[u] = {}
  /\ round[r].referee[u] \cap round[r].pair[t] = {}
  /\ round' = [round EXCEPT ![r] = Swapped(round[r], t, u)]
  /\ UNCHANGED <<planned, rounds, final, active, form>>

\* Mutant: nothing is reconciled after a deletion.
DeleteRoundOnly(r) ==
  /\ rounds' = rounds \ {r}
  /\ round' = [round EXCEPT ![r] = PlaceholderRound]
  /\ UNCHANGED <<planned, final, active, form>>

DeleteRound(r) ==
  /\ rounds' = rounds \ {r}
  /\ round' \in Reconciled(rounds', [round EXCEPT ![r] = PlaceholderRound], Pool(final, active))
  /\ UNCHANGED <<planned, final, active, form>>

\* New rounds are numbered after the last one.
AddRounds(count) ==
  {r \in RoundIds : \E last \in rounds \cup {0} :
     (\A q \in rounds : q <= last) /\ r > last /\ r <= last + count}

RoundsBeyond(count) == {r \in rounds : Cardinality({q \in rounds : q < r}) >= count}

\* Mutant: the matches of a removed round stay.
UpdateStageItemKeepsMatches(count) ==
  /\ count > planned => Cardinality(AddRounds(count - planned)) = count - planned
  /\ rounds' = IF count > planned THEN rounds \cup AddRounds(count - planned)
               ELSE IF count < planned THEN rounds \ RoundsBeyond(count) ELSE rounds
  /\ \A r \in rounds \ rounds' : NotStarted(round[r])
  /\ planned' = count
  /\ round' \in Reconciled(rounds', round, Pool(final, active))
  /\ UNCHANGED <<final, active, form>>

\* Saving the stage item, with another games_per_player or the same.
UpdateStageItem(count) ==
  /\ count > planned => Cardinality(AddRounds(count - planned)) = count - planned
  /\ rounds' = IF count > planned THEN rounds \cup AddRounds(count - planned)
               ELSE IF count < planned THEN rounds \ RoundsBeyond(count) ELSE rounds
  /\ \A r \in rounds \ rounds' : NotStarted(round[r])
  /\ planned' = count
  /\ round' \in Reconciled(rounds',
       [r \in RoundIds |-> IF r \in rounds' THEN round[r] ELSE PlaceholderRound],
       Pool(final, active))
  /\ UNCHANGED <<final, active, form>>

\* Under an advisory lock: round 1 is resolved once no input is tentative.
AssignTeam(i) ==
  /\ final' = final \cup {i}
  /\ round' \in IF final' = Inputs THEN FirstResolved(rounds, round, Pool(final', active))
                ELSE {round}
  /\ UNCHANGED <<planned, rounds, active, form>>

UnassignTeam(i) ==
  /\ final' = final \ {i}
  /\ UNCHANGED <<planned, rounds, round, active, form>>

\* The stage item the inputs of s wait for has completed.
AdvanceInputs(s) ==
  /\ final' = final \cup s
  /\ round' \in FirstResolved(rounds, round, Pool(final', active))
  /\ UNCHANGED <<planned, rounds, active, form>>

\* A deactivated team referees no match that has not started.
WithoutReferee(rows, i) ==
  [r \in RoundIds |->
     [rows[r] EXCEPT !.referee = [t \in Tables |->
        IF rows[r].state[t] = "NOT_STARTED" THEN rows[r].referee[t] \ {i}
        ELSE rows[r].referee[t]]]]

\* Only a team that takes part concerns the stage item.
DeactivateTeam(i) ==
  /\ i \in active
  /\ active' = active \ {i}
  /\ IF i \in final
     THEN \E rows \in Reconciled(rounds, round, Pool(final, active')) :
            round' = WithoutReferee(rows, i)
     ELSE UNCHANGED round
  /\ UNCHANGED <<planned, rounds, final, form>>

ActivateTeam(i) ==
  /\ i \notin active
  /\ active' = active \cup {i}
  /\ round' \in IF i \in final THEN Reconciled(rounds, round, Pool(final, active'))
                ELSE {round}
  /\ UNCHANGED <<planned, rounds, final, form>>

\* The form of a round sends back the lifecycle its page was loaded with.
OpenForm(e, r) ==
  /\ form' = [form EXCEPT ![e] = <<r, round[r].lifecycle>>]
  /\ UNCHANGED <<planned, rounds, round, final, active>>

UpdateRound(e) ==
  /\ form[e][1] \in rounds
  /\ round' = [round EXCEPT ![form[e][1]].lifecycle = form[e][2]]
  /\ form' = [form EXCEPT ![e] = Closed]
  /\ UNCHANGED <<planned, rounds, final, active>>

-----------------------------------------------------------------------------
(* The stage item is new, or the last of its inputs has just been assigned. *)
Init ==
  /\ planned = BuiltRounds
  /\ rounds = 1..BuiltRounds
  /\ final = Inputs \ (OpenInputs \cup UNION Sources)
  /\ active = Inputs
  /\ form = [e \in Editors |-> Closed]
  /\ LET built == [r \in RoundIds |-> PlaceholderRound]
     IN  round \in IF final = Inputs THEN FirstResolved(rounds, built, Inputs) ELSE {built}

Verb(r, t) == Start(r, t) \/ End(r, t) \/ Reopen(r, t) \/ Reset(r, t) \/ ScoreEdit(r, t)

Next ==
  \/ \E r \in rounds, t \in Tables : Verb(r, t)
  \/ EditRanking
  \/ \E r \in rounds, t, u \in Tables : SwapMatchInputs(r, t, u)
  \/ \E r \in rounds \cap Deletable : DeleteRound(r)
  \/ \E count \in RoundCounts \cup {planned} : UpdateStageItem(count)
  \/ \E i \in OpenInputs : AssignTeam(i) \/ UnassignTeam(i)
  \/ \E s \in Sources : AdvanceInputs(s)
  \/ \E i \in DropOuts : DeactivateTeam(i) \/ ActivateTeam(i)
  \/ \E e \in Editors, r \in rounds : OpenForm(e, r)
  \/ \E e \in Editors : UpdateRound(e)

Spec == Init /\ [][Next]_vars

-----------------------------------------------------------------------------
(* Properties                                                              *)

\* Every variable keeps its type, and a round that does not exist has no row.
TypeOK ==
  /\ planned \in RoundIds
  /\ rounds \subseteq RoundIds
  /\ round \in [RoundIds -> RoundRow]
  /\ final \subseteq Inputs
  /\ active \subseteq Inputs
  /\ form \in [Editors -> Forms]
  /\ \A r \in RoundIds \ rounds : round[r] = PlaceholderRound

\* An input has at most one match in a round, whatever is drawn again around dropouts,
\* swapped or left over (build_round_assignment_plan clears surplus matches).
NobodyPlaysTwiceInARound ==
  \A r \in rounds, t, u \in Tables :
    t # u => round[r].pair[t] \cap round[r].pair[u] = {}

\* "No cascade may ever modify a downstream round that has started"
\* (build_unwire_plan): no request changes the pairs of a round in which a match runs
\* or is over, the one that starts its first match included.
StartedRoundKeepsPairs ==
  [][\A r \in rounds \cap rounds' :
       ~NotStarted(round'[r]) => round'[r].pair = round[r].pair]_vars

\* "Pinned rounds are never touched by the automated policy"
\* (get_rounds_to_re_resolve): who meets whom stays, at one table or another.
PinnedRoundKeepsPairs ==
  [][\A r \in rounds \cap rounds' :
       round[r].pinned =>
         /\ round'[r].pinned /\ round'[r].lifecycle = "RESOLVED"
         /\ {round'[r].pair[t] : t \in Tables} = {round[r].pair[t] : t \in Tables}]_vars

\* A round that waits for its start and is not pinned follows a complete round:
\* what is reopened, reset or deleted before it takes it back (build_unwire_plan).
WaitingRoundFollowsComplete ==
  \A r \in rounds : Automated(round[r]) =>
    \A p \in Previous(rounds, r) : Complete(round[p])

\* Of the rounds that are not complete the first.
FirstOpen(rs, rows) ==
  {r \in rs : ~Complete(rows[r]) /\ \A p \in rs : p < r => Complete(rows[p])}

FirstOpenIsDrawn(rs, rows) == \A r \in FirstOpen(rs, rows) : rows[r].lifecycle = "RESOLVED"

Playable(row, t) ==
  \/ row.state[t] = "IN_PROGRESS"
  \/ row.state[t] = "NOT_STARTED" /\ row.pair[t] # {} /\ row.pair[t] \subseteq final

\* A surplus match "must not block the round - or the whole stage item"
\* (is_round_complete) and no request may: wherever they have led, the next
\* reconciliation leaves an open round that can be played on, and keeps none of its
\* pairs from playing.
FirstOpenRoundIsPlayable ==
  final = Inputs /\ Cardinality(active) >= 2 =>
    \A rows \in Reconciled(rounds, round, Pool(final, active)) :
      \A r \in FirstOpen(rounds, rows) :
        /\ rows[r].lifecycle = "RESOLVED"
        /\ \E t \in Tables : Playable(rows[r], t)
        /\ \A t \in Tables :
             Playable(rows[r], t) \/ rows[r].state[t] = "COMPLETED" \/ rows[r].pair[t] = {}

\* A request that takes no round back never leaves the stage item waiting for a drawing:
\* what completes or deletes a round draws the one that opens (auto_resolve_next_round).
OpenRoundStaysDrawn ==
  [][/\ \A r \in rounds \cap rounds' :
          round[r].lifecycle = "RESOLVED" => round'[r].lifecycle = "RESOLVED"
     /\ FirstOpenIsDrawn(rounds, round)
     => FirstOpenIsDrawn(rounds', round')]_vars
=============================================================================
