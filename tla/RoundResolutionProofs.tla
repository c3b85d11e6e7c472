------------------------ MODULE RoundResolutionProofs ------------------------
(***************************************************************************)
(* Proofs about RoundResolution: types, that nobody plays twice in a       *)
(* round, and, when no form sends back an old lifecycle, that the pairs of *)
(* a started or pinned round stay, that rounds are drawn in order and that *)
(* the round that opens can be played.                                     *)
(***************************************************************************)
EXTENDS RoundResolution, FiniteSetTheorems, TLAPS

\* No input sits at two tables of the round.
Disjoint(row) == \A t, u \in Tables : t # u => row.pair[t] \cap row.pair[u] = {}

\* A placeholder has no pairs, no started match and no pin.
Orderly(row) ==
  row.lifecycle = "PLACEHOLDER" =>
    ~row.pinned /\ \A t \in Tables : row.pair[t] = {} /\ row.state[t] = "NOT_STARTED"

\* What a reconciliation may make of one row.
Redrawn(row, new, pool) ==
  \/ new = row
  \/ Automated(row) /\ new = Unwired(row)
  \/ /\ Automated(row) \/ row.lifecycle = "PLACEHOLDER"
     /\ \E pair \in Drawings(pool) : new = Drawn(row, pool, pair)

RedrawnRows(rs, rows, new, pool) ==
  /\ new \in [RoundIds -> RoundRow]
  /\ \A r \in RoundIds : Redrawn(rows[r], new[r], pool) /\ (r \notin rs => new[r] = rows[r])

\* What a request itself does to a row: at most its matches move on.
Moved(row, new) ==
  /\ new \in RoundRow
  /\ new.lifecycle = row.lifecycle /\ new.pinned = row.pinned /\ new.pair = row.pair
  /\ Orderly(row) => Orderly(new)

SamePairs(row, new) == {new.pair[t] : t \in Tables} = {row.pair[t] : t \in Tables}

\* What every request but UpdateRound keeps of a row.
Frozen(row, new) ==
  Orderly(row) =>
    /\ Orderly(new)
    /\ ~NotStarted(new) => new.pair = row.pair
    /\ row.pinned => new.pinned /\ new.lifecycle = "RESOLVED" /\ SamePairs(row, new)

Preserved(row, new) == new \in RoundRow /\ (Disjoint(row) => Disjoint(new)) /\ Frozen(row, new)

\* What every request keeps of the rounds.
PreservedRounds ==
  /\ rounds' \subseteq RoundIds
  /\ round' \in [RoundIds -> RoundRow]
  /\ \A r \in RoundIds \ rounds' : round'[r] = PlaceholderRound
  /\ \A r \in RoundIds : Preserved(round[r], round'[r]) \/ round'[r] = PlaceholderRound
  /\ \A r \in rounds \cap rounds' : Preserved(round[r], round'[r])

\* A request that moves rows on and then reconciles.
Requested(pool) ==
  /\ rounds' \subseteq RoundIds
  /\ \E mid \in [RoundIds -> RoundRow] :
       /\ round' \in Reconciled(rounds', mid, pool)
       /\ \A r \in rounds' : Moved(round[r], mid[r])
       /\ \A r \in RoundIds \ rounds' : mid[r] = PlaceholderRound

-----------------------------------------------------------------------------
(* Drawings                                                                *)

\* A drawing pairs each input at most once, and only inputs of the pool.
LEMMA DrawingPairs ==
  ASSUME NEW pool \in SUBSET Inputs, NEW pair \in Drawings(pool)
  PROVE  /\ pair \in [Tables -> SUBSET Inputs]
         /\ \A t, u \in Tables : t # u => pair[t] \cap pair[u] = {}
BY DEF Drawings

\* A placeholder row is of its type.
LEMMA PlaceholderType == PlaceholderRound \in RoundRow /\ Disjoint(PlaceholderRound)
                         /\ Orderly(PlaceholderRound) /\ NotStarted(PlaceholderRound)
BY DEF PlaceholderRound, RoundRow, Lifecycle, MatchState, Disjoint, Orderly, NotStarted

\* A drawn row is of its type and keeps its matches and its pin.
LEMMA DrawnRow ==
  ASSUME NEW row \in RoundRow, NEW pool \in SUBSET Inputs, NEW pair \in Drawings(pool)
  PROVE  /\ Drawn(row, pool, pair) \in RoundRow
         /\ Drawn(row, pool, pair).lifecycle = "RESOLVED"
         /\ Drawn(row, pool, pair).state = row.state
         /\ Drawn(row, pool, pair).pinned = row.pinned
         /\ Drawn(row, pool, pair).pair = pair
<1> DEFINE bye == Bye(pool, pair)
           referee == IF HasByeSlot /\ bye # {} THEN [t \in Tables |-> bye] ELSE row.referee
<1>1. bye \in SUBSET Inputs
  BY DEF Bye
<1> HIDE DEF bye
<1>2. referee \in [Tables -> SUBSET Inputs]
  BY <1>1 DEF RoundRow
<1> HIDE DEF referee
<1>3. Drawn(row, pool, pair) =
        [row EXCEPT !.lifecycle = "RESOLVED", !.pair = pair, !.referee = referee]
  BY DEF Drawn, bye, referee
<1> QED
  BY <1>2, <1>3, DrawingPairs DEF RoundRow, Lifecycle

\* A row taken back is an empty placeholder again.
LEMMA UnwiredRow ==
  ASSUME NEW row \in RoundRow
  PROVE  /\ Unwired(row) \in RoundRow
         /\ Unwired(row).lifecycle = "PLACEHOLDER"
         /\ Unwired(row).state = row.state
         /\ Unwired(row).pinned = row.pinned
         /\ \A t \in Tables : Unwired(row).pair[t] = {}
BY DEF Unwired, RoundRow, Lifecycle

\* Reconciliation redraws rows that wait or are placeholders, and no others.
LEMMA RedrawnPreserved ==
  ASSUME NEW row \in RoundRow, NEW mid, NEW new, NEW pool \in SUBSET Inputs,
         Moved(row, mid), Redrawn(mid, new, pool)
  PROVE  Preserved(row, new)
<1>1. mid \in RoundRow /\ mid.pair = row.pair /\ mid.pinned = row.pinned
      /\ mid.lifecycle = row.lifecycle /\ (Orderly(row) => Orderly(mid))
  BY DEF Moved
<1>2. CASE new = mid
  <2>1. Orderly(row) /\ row.pinned => new.lifecycle = "RESOLVED"
    BY <1>1, <1>2 DEF Orderly, RoundRow, Lifecycle
  <2> QED
    BY <1>1, <1>2, <2>1 DEF Preserved, Frozen, SamePairs, Disjoint
<1>3. CASE Automated(mid) /\ new = Unwired(mid)
  <2>1. new \in RoundRow /\ Disjoint(new)
    BY <1>1, <1>3, UnwiredRow DEF Disjoint
  <2>2. ~row.pinned /\ NotStarted(new) /\ Orderly(new)
    BY <1>1, <1>3, UnwiredRow DEF Automated, NotStarted, Orderly
  <2> QED
    BY <2>1, <2>2 DEF Preserved, Frozen
<1>4. ASSUME Automated(mid) \/ mid.lifecycle = "PLACEHOLDER",
             NEW pair \in Drawings(pool), new = Drawn(mid, pool, pair)
      PROVE  Preserved(row, new)
  <2>1. new \in RoundRow /\ Disjoint(new) /\ Orderly(new)
    BY <1>1, <1>4, DrawnRow, DrawingPairs DEF Disjoint, Orderly
  <2>2. Orderly(row) => ~row.pinned /\ NotStarted(new)
    BY <1>1, <1>4, DrawnRow DEF Automated, NotStarted, Orderly
  <2> QED
    BY <2>1, <2>2 DEF Preserved, Frozen
<1> QED
  BY <1>2, <1>3, <1>4 DEF Redrawn

\* The same of a whole drawing.
LEMMA ResolvedRows ==
  ASSUME NEW rs \in SUBSET RoundIds, NEW rows \in [RoundIds -> RoundRow],
         NEW pool \in SUBSET Inputs, NEW drawn \in SUBSET rs,
         \A r \in drawn : Automated(rows[r]) \/ rows[r].lifecycle = "PLACEHOLDER",
         NEW new \in Resolved(rows, pool, drawn)
  PROVE  RedrawnRows(rs, rows, new, pool)
<1>1. CASE new = rows
  BY <1>1 DEF RedrawnRows, Redrawn
<1>2. ASSUME NEW draw \in [drawn -> Drawings(pool)],
             new = [r \in RoundIds |->
                      IF r \in drawn THEN Drawn(rows[r], pool, draw[r]) ELSE rows[r]]
      PROVE  RedrawnRows(rs, rows, new, pool)
  <2>1. \A r \in drawn : draw[r] \in Drawings(pool) /\ new[r] = Drawn(rows[r], pool, draw[r])
    BY <1>2
  <2>2. \A r \in RoundIds \ drawn : new[r] = rows[r]
    BY <1>2
  <2>3. \A r \in RoundIds : new[r] \in RoundRow /\ Redrawn(rows[r], new[r], pool)
    BY <2>1, <2>2, DrawnRow DEF Redrawn
  <2>4. new \in [RoundIds -> RoundRow]
    BY <1>2, <2>3
  <2> QED
    BY <2>2, <2>3, <2>4 DEF RedrawnRows
<1> QED
  BY <1>1, <1>2 DEF Resolved

\* The resolution of round 1 redraws nothing but a placeholder.
LEMMA FirstResolvedRows ==
  ASSUME NEW rs \in SUBSET RoundIds, NEW rows \in [RoundIds -> RoundRow],
         NEW pool \in SUBSET Inputs, NEW new \in FirstResolved(rs, rows, pool)
  PROVE  RedrawnRows(rs, rows, new, pool)
<1> DEFINE drawn == {r \in FirstRound(rs) : rows[r].lifecycle = "PLACEHOLDER"}
<1>1. drawn \in SUBSET rs
  BY DEF FirstRound
<1>2. \A r \in drawn : rows[r].lifecycle = "PLACEHOLDER"
  OBVIOUS
<1>3. new \in Resolved(rows, pool, drawn)
  BY DEF FirstResolved
<1> HIDE DEF drawn
<1> QED
  BY <1>1, <1>2, <1>3, ResolvedRows

\* A reconciliation, whichever way it ends.
LEMMA ReconciledRows ==
  ASSUME NEW rs \in SUBSET RoundIds, NEW rows \in [RoundIds -> RoundRow],
         NEW pool \in SUBSET Inputs, NEW new \in Reconciled(rs, rows, pool)
  PROVE  RedrawnRows(rs, rows, new, pool)
<1> DEFINE unwirable == UnwirableRounds(rs, rows)
           drawn == NextToResolve(rs, rows) \cup {r \in rs : Automated(rows[r])}
<1>1. unwirable \subseteq rs /\ \A r \in unwirable : Automated(rows[r])
  BY DEF UnwirableRounds
<1>2. drawn \in SUBSET rs
      /\ \A r \in drawn : Automated(rows[r]) \/ rows[r].lifecycle = "PLACEHOLDER"
  BY DEF NextToResolve, Ready
<1>3. \/ new = [r \in RoundIds |-> IF r \in unwirable THEN Unwired(rows[r]) ELSE rows[r]]
      \/ new \in Resolved(rows, pool, drawn)
  BY DEF Reconciled
<1> HIDE DEF unwirable, drawn
<1>4. CASE new = [r \in RoundIds |-> IF r \in unwirable THEN Unwired(rows[r]) ELSE rows[r]]
  <2>1. \A r \in RoundIds : new[r] \in RoundRow /\ Redrawn(rows[r], new[r], pool)
    BY <1>1, <1>4, UnwiredRow DEF Redrawn
  <2> QED
    BY <1>1, <1>4, <2>1 DEF RedrawnRows
<1>5. CASE new \in Resolved(rows, pool, drawn)
  BY <1>2, <1>5, ResolvedRows
<1> QED
  BY <1>3, <1>4, <1>5

-----------------------------------------------------------------------------
(* The requests                                                            *)

\* A request that moves rows on and then reconciles keeps what PreservedRounds says.
LEMMA ReconcileKeeps ==
  ASSUME TypeOK, NEW pool \in SUBSET Inputs, NEW mid \in [RoundIds -> RoundRow],
         rounds' \subseteq RoundIds,
         RedrawnRows(rounds', mid, round', pool),
         \A r \in rounds' : Moved(round[r], mid[r]),
         \A r \in RoundIds \ rounds' : mid[r] = PlaceholderRound
  PROVE  PreservedRounds
<1>1. round' \in [RoundIds -> RoundRow]
      /\ \A r \in RoundIds \ rounds' : round'[r] = PlaceholderRound
  BY DEF RedrawnRows
<1>2. ASSUME NEW r \in rounds'
      PROVE  Preserved(round[r], round'[r])
  <2>1. round[r] \in RoundRow /\ Moved(round[r], mid[r])
    BY DEF TypeOK
  <2>2. Redrawn(mid[r], round'[r], pool)
    BY DEF RedrawnRows
  <2> QED
    BY <2>1, <2>2, RedrawnPreserved
<1> QED
  BY <1>1, <1>2 DEF PreservedRounds

\* A row that a request leaves alone.
LEMMA Unmoved ==
  ASSUME NEW row \in RoundRow
  PROVE  Moved(row, row)
BY DEF Moved

\* The rows of a stage item that exists, and its pool.
LEMMA RowTypes ==
  ASSUME TypeOK
  PROVE  /\ rounds \in SUBSET RoundIds
         /\ round \in [RoundIds -> RoundRow]
         /\ \A r \in RoundIds \ rounds : round[r] = PlaceholderRound
         /\ Pool(final, active) \in SUBSET Inputs
         /\ Pool(final, active') \in SUBSET Inputs
         /\ \A r \in RoundIds : Moved(round[r], round[r])
BY Unmoved DEF TypeOK, Pool

\* A verb moves one match, and never one of a placeholder, before it reconciles.
LEMMA MatchRequested ==
  ASSUME TypeOK, NEW r \in rounds, NEW t \in Tables, NEW state \in MatchState,
         Orderly(round[r]) /\ round[r].lifecycle = "PLACEHOLDER" => state = "NOT_STARTED",
         ReconcileMatch(r, t, state)
  PROVE  Requested(Pool(final, active))
<1> DEFINE mid == SetMatchState(r, t, state)
           states == [round[r].state EXCEPT ![t] = state]
<1>1. mid = [round EXCEPT ![r] = [round[r] EXCEPT !.state = states]]
  BY DEF SetMatchState
<1>2. round[r] \in RoundRow /\ round[r].state \in [Tables -> MatchState] /\ r \in RoundIds
  BY RowTypes DEF RoundRow
<1>3. /\ states \in [Tables -> MatchState]
      /\ states[t] = state
      /\ \A u \in Tables \ {t} : states[u] = round[r].state[u]
  BY <1>2
<1>4. rounds' = rounds /\ round' \in Reconciled(rounds, mid, Pool(final, active))
  BY DEF ReconcileMatch
<1> HIDE DEF mid, states
<1>5. [round[r] EXCEPT !.state = states] \in RoundRow
  BY <1>2, <1>3 DEF RoundRow
<1>6. /\ mid \in [RoundIds -> RoundRow]
      /\ mid[r] = [round[r] EXCEPT !.state = states]
      /\ \A q \in RoundIds \ {r} : mid[q] = round[q]
  BY <1>1, <1>2, <1>5, RowTypes
<1>7. Moved(round[r], mid[r])
  BY <1>2, <1>3, <1>5, <1>6 DEF Moved, Orderly, RoundRow
<1>8. \A q \in rounds' : Moved(round[q], mid[q])
  BY <1>4, <1>6, <1>7, RowTypes
<1>9. \A q \in RoundIds \ rounds' : mid[q] = PlaceholderRound
  BY <1>4, <1>6, RowTypes
<1> QED
  BY <1>4, <1>6, <1>8, <1>9, RowTypes DEF Requested

\* Every verb is such a request.
LEMMA VerbRequested ==
  ASSUME TypeOK, NEW r \in rounds, NEW t \in Tables, Verb(r, t)
  PROVE  Requested(Pool(final, active))
<1>1. {"NOT_STARTED", "IN_PROGRESS", "COMPLETED"} = MatchState
  BY DEF MatchState
<1>2. Orderly(round[r]) /\ round[r].lifecycle = "PLACEHOLDER" =>
        round[r].state[t] = "NOT_STARTED" /\ ~OpponentsKnown(r, t)
  BY DEF Orderly, OpponentsKnown
<1>3. CASE Start(r, t)
  BY <1>1, <1>2, <1>3, MatchRequested DEF Start
<1>4. CASE End(r, t)
  BY <1>1, <1>2, <1>4, MatchRequested DEF End
<1>5. CASE Reopen(r, t)
  BY <1>1, <1>2, <1>5, MatchRequested DEF Reopen
<1>6. CASE Reset(r, t)
  BY <1>1, <1>2, <1>6, MatchRequested DEF Reset
<1>7. CASE ScoreEdit(r, t)
  BY <1>1, <1>2, <1>7, MatchRequested DEF ScoreEdit
<1> QED
  BY <1>3, <1>4, <1>5, <1>6, <1>7 DEF Verb

\* Saving a ranking starts no match.
LEMMA EditRequested ==
  ASSUME TypeOK, EditRanking
  PROVE  Requested(Pool(final, active))
<1>1. PICK states \in [rounds -> [Tables -> MatchState]] :
        /\ \A r \in rounds, t \in Tables :
             states[r][t] = "NOT_STARTED" <=> round[r].state[t] = "NOT_STARTED"
        /\ round' \in Reconciled(rounds,
             [r \in RoundIds |-> IF r \in rounds THEN [round[r] EXCEPT !.state = states[r]]
                                 ELSE round[r]],
             Pool(final, active))
        /\ rounds' = rounds
  BY DEF EditRanking
<1> DEFINE mid == [r \in RoundIds |->
                     IF r \in rounds THEN [round[r] EXCEPT !.state = states[r]] ELSE round[r]]
<1>2. ASSUME NEW r \in rounds
      PROVE  mid[r] \in RoundRow /\ Moved(round[r], mid[r])
  <2>1. round[r] \in RoundRow /\ states[r] \in [Tables -> MatchState] /\ r \in RoundIds
    BY <1>1, RowTypes
  <2>2. mid[r] = [round[r] EXCEPT !.state = states[r]]
    BY <2>1
  <2> HIDE DEF mid
  <2>3. \A t \in Tables : states[r][t] = "NOT_STARTED" <=> round[r].state[t] = "NOT_STARTED"
    BY <1>1
  <2> QED
    BY <2>1, <2>2, <2>3 DEF Moved, Orderly, RoundRow
<1>3. mid \in [RoundIds -> RoundRow] /\ \A r \in RoundIds \ rounds : mid[r] = round[r]
  BY <1>2, RowTypes
<1>4. round' \in Reconciled(rounds, mid, Pool(final, active))
  BY <1>1
<1> HIDE DEF mid
<1> QED
  BY <1>1, <1>2, <1>3, <1>4, RowTypes DEF Requested

\* A swap moves pairs between tables and pins the round.
LEMMA SwappedPreserved ==
  ASSUME NEW row \in RoundRow, NEW t \in Tables, NEW u \in Tables, t # u,
         row.lifecycle = "RESOLVED", NotStarted(row)
  PROVE  Preserved(row, Swapped(row, t, u))
<1> DEFINE pair == [row.pair EXCEPT ![t] = row.pair[u], ![u] = row.pair[t]]
           new == Swapped(row, t, u)
<1>1. row.pair \in [Tables -> SUBSET Inputs]
  BY DEF RoundRow
<1>2. /\ pair \in [Tables -> SUBSET Inputs]
      /\ pair[t] = row.pair[u] /\ pair[u] = row.pair[t]
      /\ \A v \in Tables \ {t, u} : pair[v] = row.pair[v]
  BY <1>1
<1>3. new = [row EXCEPT !.pinned = TRUE, !.pair = pair]
  BY DEF Swapped
<1> HIDE DEF pair, new
<1>4. /\ new \in RoundRow
      /\ new.pair = pair /\ new.pinned /\ new.lifecycle = "RESOLVED" /\ new.state = row.state
  BY <1>2, <1>3 DEF RoundRow
<1>5. Disjoint(row) => Disjoint(new)
  BY <1>2, <1>4 DEF Disjoint
<1>6. NotStarted(new) /\ Orderly(new)
  BY <1>4 DEF NotStarted, Orderly
<1>7. SamePairs(row, new)
  <2>1. \A v \in Tables : \E w \in Tables : new.pair[v] = row.pair[w]
    BY <1>2, <1>4
  <2>2. \A v \in Tables : \E w \in Tables : row.pair[v] = new.pair[w]
    BY <1>2, <1>4
  <2> QED
    BY <2>1, <2>2 DEF SamePairs
<1>8. Preserved(row, new)
  BY <1>4, <1>5, <1>6, <1>7 DEF Preserved, Frozen
<1> QED
  BY <1>8 DEF new

\* A row that is left as it is.
LEMMA RowKept ==
  ASSUME NEW row \in RoundRow
  PROVE  Preserved(row, row)
BY DEF Preserved, Frozen, SamePairs, Orderly, RoundRow, Lifecycle

\* The rounds as they are.
LEMMA RoundsKept ==
  ASSUME TypeOK, rounds' = rounds, round' = round
  PROVE  PreservedRounds
BY RowTypes, RowKept DEF PreservedRounds

\* A swap keeps the rounds.
LEMMA SwapKeeps ==
  ASSUME TypeOK, NEW r \in rounds, NEW t \in Tables, NEW u \in Tables, SwapMatchInputs(r, t, u)
  PROVE  PreservedRounds
<1>1. r \in RoundIds /\ round[r] \in RoundRow
  BY RowTypes
<1>2. Preserved(round[r], Swapped(round[r], t, u))
  BY <1>1, SwappedPreserved DEF SwapMatchInputs
<1>3. rounds' = rounds /\ round' = [round EXCEPT ![r] = Swapped(round[r], t, u)]
  BY DEF SwapMatchInputs
<1>4. round'[r] = Swapped(round[r], t, u) /\ \A q \in RoundIds \ {r} : round'[q] = round[q]
  BY <1>1, <1>3, RowTypes
<1>5. Swapped(round[r], t, u) \in RoundRow
  BY <1>2 DEF Preserved
<1>6. \A q \in RoundIds : Preserved(round[q], round'[q])
  BY <1>2, <1>4, RowTypes, RowKept
<1>7. round' \in [RoundIds -> RoundRow]
  BY <1>1, <1>3, <1>5, RowTypes
<1> QED
  BY <1>1, <1>3, <1>4, <1>6, <1>7, RowTypes DEF PreservedRounds

\* A deleted round leaves no row; the others are reconciled.
LEMMA DeleteRequested ==
  ASSUME TypeOK, NEW r \in rounds, DeleteRound(r)
  PROVE  Requested(Pool(final, active))
<1> DEFINE mid == [round EXCEPT ![r] = PlaceholderRound]
<1>1. /\ mid \in [RoundIds -> RoundRow]
      /\ mid[r] = PlaceholderRound
      /\ \A q \in RoundIds \ {r} : mid[q] = round[q]
  BY RowTypes, PlaceholderType
<1>2. rounds' = rounds \ {r} /\ round' \in Reconciled(rounds', mid, Pool(final, active))
  BY DEF DeleteRound
<1> HIDE DEF mid
<1>3. rounds' \in SUBSET RoundIds
  BY <1>2, RowTypes
<1>4. \A q \in rounds' : Moved(round[q], mid[q])
  BY <1>1, <1>2, RowTypes
<1>5. \A q \in RoundIds \ rounds' : mid[q] = PlaceholderRound
  BY <1>1, <1>2, RowTypes
<1> QED
  BY <1>1, <1>2, <1>3, <1>4, <1>5 DEF Requested

\* Rounds are added empty and removed with their matches.
LEMMA ResizeRequested ==
  ASSUME TypeOK, NEW count, UpdateStageItem(count)
  PROVE  Requested(Pool(final, active))
<1> DEFINE mid == [r \in RoundIds |-> IF r \in rounds' THEN round[r] ELSE PlaceholderRound]
<1>1. rounds' \in SUBSET RoundIds
  BY RowTypes DEF UpdateStageItem, AddRounds, RoundsBeyond
<1>2. /\ mid \in [RoundIds -> RoundRow]
      /\ \A r \in rounds' : Moved(round[r], mid[r])
      /\ \A r \in RoundIds \ rounds' : mid[r] = PlaceholderRound
  BY <1>1, RowTypes, PlaceholderType
<1>3. round' \in Reconciled(rounds', mid, Pool(final, active))
  BY DEF UpdateStageItem
<1> HIDE DEF mid
<1> QED
  BY <1>1, <1>2, <1>3 DEF Requested

\* What follows from the input side: round 1 is resolved, or nothing is.
LEMMA FirstKeeps ==
  ASSUME TypeOK, NEW pool \in SUBSET Inputs, rounds' = rounds,
         round' \in FirstResolved(rounds, round, pool)
  PROVE  PreservedRounds
<1>1. RedrawnRows(rounds', round, round', pool)
  BY RowTypes, FirstResolvedRows
<1> QED
  BY <1>1, RowTypes, ReconcileKeeps

\* Reconciling what is there is such a request.
LEMMA ReconciledRequested ==
  ASSUME TypeOK, NEW pool, rounds' = rounds, round' \in Reconciled(rounds, round, pool)
  PROVE  Requested(pool)
BY RowTypes DEF Requested

\* Such a request keeps the rounds.
LEMMA RequestKeeps ==
  ASSUME TypeOK, NEW pool \in SUBSET Inputs, Requested(pool)
  PROVE  PreservedRounds
<1>1. PICK mid \in [RoundIds -> RoundRow] :
        /\ round' \in Reconciled(rounds', mid, pool)
        /\ \A r \in rounds' : Moved(round[r], mid[r])
        /\ \A r \in RoundIds \ rounds' : mid[r] = PlaceholderRound
  BY DEF Requested
<1>2. rounds' \subseteq RoundIds
  BY DEF Requested
<1>3. RedrawnRows(rounds', mid, round', pool)
  BY <1>1, <1>2, ReconciledRows
<1> QED
  BY <1>1, <1>2, <1>3, ReconcileKeeps

\* Clearing referees leaves pairs and matches alone, and nothing to clear in a placeholder.
LEMMA WithoutRefereeRows ==
  ASSUME NEW rows \in [RoundIds -> RoundRow], NEW i, NEW r \in RoundIds
  PROVE  LET new == WithoutReferee(rows, i)[r]
         IN  /\ new \in RoundRow
             /\ new.lifecycle = rows[r].lifecycle /\ new.pinned = rows[r].pinned
             /\ new.pair = rows[r].pair /\ new.state = rows[r].state
             /\ rows[r] = PlaceholderRound => new = PlaceholderRound
<1> DEFINE row == rows[r]
           referee == [t \in Tables |-> IF rows[r].state[t] = "NOT_STARTED"
                                        THEN rows[r].referee[t] \ {i} ELSE rows[r].referee[t]]
           new == [row EXCEPT !.referee = referee]
<1>1. WithoutReferee(rows, i)[r] = new
  BY DEF WithoutReferee
<1>2. row \in RoundRow
  OBVIOUS
<1>3. referee \in [Tables -> SUBSET Inputs]
  BY <1>2 DEF RoundRow
<1>4. row = PlaceholderRound => referee = row.referee
  BY DEF PlaceholderRound
<1> HIDE DEF row, referee
<1>5. /\ new \in RoundRow
      /\ new.lifecycle = row.lifecycle /\ new.pinned = row.pinned
      /\ new.pair = row.pair /\ new.state = row.state /\ new.referee = referee
  BY <1>2, <1>3 DEF RoundRow
<1>6. referee = row.referee => new = row
  BY <1>2 DEF RoundRow
<1>7. row = PlaceholderRound => new = PlaceholderRound
  BY <1>4, <1>6
<1> QED
  BY <1>1, <1>5, <1>7 DEF row

\* What a row preserves, another with the same pairs and matches preserves.
LEMMA PreservedAlike ==
  ASSUME NEW row, NEW mid, NEW new \in RoundRow, Preserved(row, mid),
         new.lifecycle = mid.lifecycle, new.pinned = mid.pinned,
         new.pair = mid.pair, new.state = mid.state
  PROVE  Preserved(row, new)
BY DEF Preserved, Frozen, Orderly, Disjoint, SamePairs, NotStarted

\* A deactivation draws again what waits and clears the team as a referee.
LEMMA DeactivateKeeps ==
  ASSUME TypeOK, NEW i, DeactivateTeam(i)
  PROVE  PreservedRounds
<1>1. rounds' = rounds
  BY DEF DeactivateTeam
<1>2. CASE round' = round
  BY <1>1, <1>2, RoundsKept
<1>3. ASSUME NEW rows \in Reconciled(rounds, round, Pool(final, active')),
             round' = WithoutReferee(rows, i)
      PROVE  PreservedRounds
  <2>0. Pool(final, active') \in SUBSET Inputs
    BY RowTypes
  <2>1. RedrawnRows(rounds, round, rows, Pool(final, active'))
    BY RowTypes, ReconciledRows
  <2>2. rows \in [RoundIds -> RoundRow]
        /\ \A r \in RoundIds \ rounds : rows[r] = PlaceholderRound
    BY <2>1, RowTypes DEF RedrawnRows
  <2>3. \A r \in RoundIds : Preserved(round[r], rows[r])
    BY <2>0, <2>1, RowTypes, RedrawnPreserved DEF RedrawnRows
  <2>4. \A r \in RoundIds :
          /\ round'[r] \in RoundRow
          /\ Preserved(round[r], round'[r])
          /\ rows[r] = PlaceholderRound => round'[r] = PlaceholderRound
    BY <1>3, <2>2, <2>3, WithoutRefereeRows, PreservedAlike
  <2>5. round' \in [RoundIds -> RoundRow]
    <3>1. round' = [r \in RoundIds |-> round'[r]]
      BY <1>3 DEF WithoutReferee
    <3> QED
      BY <2>4, <3>1
  <2> QED
    BY <1>1, <2>2, <2>4, <2>5, RowTypes DEF PreservedRounds
<1> QED
  BY <1>2, <1>3 DEF DeactivateTeam

\* What a request does to the rounds, unless a form sends a lifecycle back.
LEMMA NextKeeps ==
  ASSUME TypeOK, [Next]_vars, ~\E e \in Editors : UpdateRound(e)
  PROVE  PreservedRounds
<1>1. ASSUME NEW r \in rounds, NEW t \in Tables, Verb(r, t)
      PROVE  PreservedRounds
  BY <1>1, VerbRequested, RowTypes, RequestKeeps
<1>2. CASE EditRanking
  BY <1>2, EditRequested, RowTypes, RequestKeeps
<1>3. ASSUME NEW r \in rounds, NEW t \in Tables, NEW u \in Tables, SwapMatchInputs(r, t, u)
      PROVE  PreservedRounds
  BY <1>3, SwapKeeps
<1>4. ASSUME NEW r \in rounds, DeleteRound(r)
      PROVE  PreservedRounds
  BY <1>4, DeleteRequested, RowTypes, RequestKeeps
<1>5. ASSUME NEW count, UpdateStageItem(count)
      PROVE  PreservedRounds
  BY <1>5, ResizeRequested, RowTypes, RequestKeeps
<1>6. ASSUME NEW i \in OpenInputs, AssignTeam(i)
      PROVE  PreservedRounds
  <2>1. rounds' = rounds /\ Pool(final', active) \in SUBSET Inputs
    BY <1>6 DEF AssignTeam, TypeOK, Pool
  <2>2. round' = round \/ round' \in FirstResolved(rounds, round, Pool(final', active))
    BY <1>6 DEF AssignTeam
  <2> QED
    BY <2>1, <2>2, RoundsKept, FirstKeeps
<1>7. ASSUME NEW i \in OpenInputs, UnassignTeam(i)
      PROVE  PreservedRounds
  BY <1>7, RoundsKept DEF UnassignTeam
<1>8. ASSUME NEW s \in Sources, AdvanceInputs(s)
      PROVE  PreservedRounds
  <2>1. rounds' = rounds /\ Pool(final', active) \in SUBSET Inputs
    BY <1>8 DEF AdvanceInputs, TypeOK, Pool
  <2> QED
    BY <1>8, <2>1, FirstKeeps DEF AdvanceInputs
<1>9. ASSUME NEW i \in DropOuts, DeactivateTeam(i)
      PROVE  PreservedRounds
  BY <1>9, DeactivateKeeps
<1>10. ASSUME NEW i \in DropOuts, ActivateTeam(i)
       PROVE  PreservedRounds
  <2>1. rounds' = rounds /\ Pool(final, active') \in SUBSET Inputs
    BY <1>10, RowTypes DEF ActivateTeam
  <2>2. round' = round \/ round' \in Reconciled(rounds, round, Pool(final, active'))
    BY <1>10 DEF ActivateTeam
  <2> QED
    BY <2>1, <2>2, RoundsKept, ReconciledRequested, RequestKeeps
<1>11. ASSUME NEW e \in Editors, NEW r \in rounds, OpenForm(e, r)
       PROVE  PreservedRounds
  BY <1>11, RoundsKept DEF OpenForm
<1>12. CASE UNCHANGED vars
  BY <1>12, RoundsKept DEF vars
<1> QED
  BY <1>1, <1>2, <1>3, <1>4, <1>5, <1>6, <1>7, <1>8, <1>9, <1>10, <1>11, <1>12 DEF Next

\* A form sends a lifecycle back and touches nothing else.
LEMMA FormKeeps ==
  ASSUME TypeOK, NEW e \in Editors, UpdateRound(e)
  PROVE  /\ rounds' = rounds
         /\ round' \in [RoundIds -> RoundRow]
         /\ \A r \in RoundIds : round'[r].pair = round[r].pair
         /\ \A r \in RoundIds \ rounds : round'[r] = round[r]
<1> DEFINE r == form[e][1]
           lifecycle == form[e][2]
           row == [round[r] EXCEPT !.lifecycle = lifecycle]
<1>1. r \in rounds /\ r \in RoundIds /\ lifecycle \in Lifecycle
  <2>1. form[e] \in Forms /\ form[e][1] \in RoundIds
    BY RowTypes DEF UpdateRound, TypeOK
  <2>2. form[e] # Closed
    BY <2>1 DEF Closed, RoundIds, RoundsAssumption
  <2> QED
    BY <2>1, <2>2 DEF Forms, UpdateRound
<1>2. rounds' = rounds /\ round' = [round EXCEPT ![r] = row]
  BY DEF UpdateRound
<1> HIDE DEF r, lifecycle
<1>3. row \in RoundRow /\ row.pair = round[r].pair
  BY <1>1, RowTypes DEF RoundRow
<1> HIDE DEF row
<1> QED
  BY <1>1, <1>2, <1>3, RowTypes

-----------------------------------------------------------------------------
(* Types                                                                   *)

\* The rounds of a new stage item.
LEMMA InitRows ==
  ASSUME Init
  PROVE  /\ rounds \subseteq RoundIds
         /\ round \in [RoundIds -> RoundRow]
         /\ \A r \in RoundIds \ rounds : round[r] = PlaceholderRound
         /\ \A r \in RoundIds : Disjoint(round[r]) /\ Orderly(round[r])
<1> DEFINE built == [r \in RoundIds |-> PlaceholderRound]
<1>1. built \in [RoundIds -> RoundRow] /\ \A r \in RoundIds : built[r] = PlaceholderRound
  BY PlaceholderType
<1>2. rounds \in SUBSET RoundIds
  BY RoundsAssumption DEF Init, RoundIds
<1>3. round \in FirstResolved(rounds, built, Inputs) \/ round = built
  BY DEF Init
<1> HIDE DEF built
<1>4. RedrawnRows(rounds, built, round, Inputs)
  BY <1>1, <1>2, <1>3, FirstResolvedRows DEF RedrawnRows, Redrawn
<1>5. \A r \in RoundIds : Preserved(built[r], round[r])
  BY <1>1, <1>4, Unmoved, RedrawnPreserved DEF RedrawnRows
<1> QED
  BY <1>1, <1>2, <1>4, <1>5, PlaceholderType DEF RedrawnRows, Preserved, Frozen

\* What a step leaves of the rounds has its type.
LEMMA StepRows ==
  ASSUME TypeOK, [Next]_vars
  PROVE  /\ rounds' \subseteq RoundIds
         /\ round' \in [RoundIds -> RoundRow]
         /\ \A r \in RoundIds \ rounds' : round'[r] = PlaceholderRound
<1>1. CASE \E e \in Editors : UpdateRound(e)
  BY <1>1, FormKeeps, RowTypes
<1>2. CASE ~\E e \in Editors : UpdateRound(e)
  BY <1>2, NextKeeps DEF PreservedRounds
<1> QED
  BY <1>1, <1>2

\* What a step leaves of the other variables has its type.
LEMMA StepOthers ==
  ASSUME TypeOK, [Next]_vars
  PROVE  /\ planned' \in RoundIds
         /\ final' \subseteq Inputs /\ active' \subseteq Inputs
         /\ form' \in [Editors -> Forms]
<1> USE DEF TypeOK
<1>1. ASSUME NEW r \in rounds, NEW t \in Tables, Verb(r, t)
      PROVE  UNCHANGED <<planned, final, active, form>>
  BY <1>1 DEF Verb, Start, End, Reopen, Reset, ScoreEdit, ReconcileMatch
<1>2. CASE EditRanking
  BY <1>2 DEF EditRanking
<1>3. ASSUME NEW r \in rounds, NEW t \in Tables, NEW u \in Tables, SwapMatchInputs(r, t, u)
      PROVE  UNCHANGED <<planned, final, active, form>>
  BY <1>3 DEF SwapMatchInputs
<1>4. ASSUME NEW r \in rounds, DeleteRound(r)
      PROVE  UNCHANGED <<planned, final, active, form>>
  BY <1>4 DEF DeleteRound
<1>5. ASSUME NEW count \in RoundCounts \cup {planned}, UpdateStageItem(count)
      PROVE  planned' \in RoundIds /\ UNCHANGED <<final, active, form>>
  BY <1>5, RoundsAssumption DEF UpdateStageItem, RoundIds
<1>6. ASSUME NEW i \in OpenInputs, AssignTeam(i) \/ UnassignTeam(i)
      PROVE  final' \subseteq Inputs /\ UNCHANGED <<planned, active, form>>
  BY <1>6, InputSetsAssumption DEF AssignTeam, UnassignTeam
<1>7. ASSUME NEW s \in Sources, AdvanceInputs(s)
      PROVE  final' \subseteq Inputs /\ UNCHANGED <<planned, active, form>>
  BY <1>7, InputSetsAssumption DEF AdvanceInputs
<1>8. ASSUME NEW i \in DropOuts, DeactivateTeam(i) \/ ActivateTeam(i)
      PROVE  active' \subseteq Inputs /\ UNCHANGED <<planned, final, form>>
  BY <1>8, InputSetsAssumption DEF DeactivateTeam, ActivateTeam
<1>9. ASSUME NEW e \in Editors, NEW r \in rounds, OpenForm(e, r)
      PROVE  form' \in [Editors -> Forms] /\ UNCHANGED <<planned, final, active>>
  <2>1. r \in RoundIds /\ round[r].lifecycle \in Lifecycle
    BY RowTypes DEF RoundRow
  <2>2. <<r, round[r].lifecycle>> \in Forms
    BY <2>1 DEF Forms
  <2> QED
    BY <1>9, <2>2 DEF OpenForm
<1>10. ASSUME NEW e \in Editors, UpdateRound(e)
       PROVE  form' \in [Editors -> Forms] /\ UNCHANGED <<planned, final, active>>
  BY <1>10 DEF UpdateRound, Forms
<1>11. CASE UNCHANGED vars
  BY <1>11 DEF vars
<1> QED
  BY <1>1, <1>2, <1>3, <1>4, <1>5, <1>6, <1>7, <1>8, <1>9, <1>10, <1>11 DEF Next

\* TypeOK: the variables keep their types through every request.
THEOREM RoundTypeCorrect == Spec => []TypeOK
<1>1. Init => TypeOK
  <2> SUFFICES ASSUME Init PROVE TypeOK
    OBVIOUS
  <2>1. planned \in RoundIds /\ final \subseteq Inputs /\ active \subseteq Inputs
    BY RoundsAssumption DEF Init, RoundIds
  <2>2. form \in [Editors -> Forms]
    BY DEF Init, Forms
  <2> QED
    BY <2>1, <2>2, InitRows DEF TypeOK
<1>2. TypeOK /\ [Next]_vars => TypeOK'
  BY StepRows, StepOthers DEF TypeOK
<1> QED
  BY <1>1, <1>2, PTL DEF Spec

-----------------------------------------------------------------------------
(* One match an input and round                                            *)

\* The pairs of every row are disjoint: a reconciliation draws disjoint pairs, a swap
\* exchanges two and the form of a round touches none.
DisjointRounds == \A r \in RoundIds : Disjoint(round[r])

\* NobodyPlaysTwiceInARound, for every set of inputs and every number of rounds: a
\* drawing replaces all pairs of a round (build_round_assignment_plan).
THEOREM NobodyPlaysTwice == Spec => []NobodyPlaysTwiceInARound
<1>1. Init => DisjointRounds
  BY InitRows DEF DisjointRounds
<1>2. TypeOK /\ DisjointRounds /\ [Next]_vars => DisjointRounds'
  <2> SUFFICES ASSUME TypeOK, DisjointRounds, [Next]_vars
               PROVE  \A r \in RoundIds : Disjoint(round'[r])
    BY DEF DisjointRounds
  <2>1. CASE \E e \in Editors : UpdateRound(e)
    BY <2>1, FormKeeps DEF DisjointRounds, Disjoint
  <2>2. CASE ~\E e \in Editors : UpdateRound(e)
    BY <2>2, NextKeeps, PlaceholderType DEF PreservedRounds, Preserved, DisjointRounds
  <2> QED
    BY <2>1, <2>2
<1>3. TypeOK /\ DisjointRounds => NobodyPlaysTwiceInARound
  BY DEF TypeOK, DisjointRounds, Disjoint, NobodyPlaysTwiceInARound
<1> QED
  BY <1>1, <1>2, <1>3, RoundTypeCorrect, PTL DEF Spec

-----------------------------------------------------------------------------
(* Started and pinned rounds                                               *)

\* Without forms a placeholder is empty, unpinned and not started.
OrderlyRounds == \A r \in RoundIds : Orderly(round[r])

\* Without the form of a round, no request makes a placeholder of a started round.
LEMMA OrderlyInvariant ==
  ASSUME Editors = {}
  PROVE  Spec => []OrderlyRounds
<1>1. Init => OrderlyRounds
  BY InitRows DEF OrderlyRounds
<1>2. TypeOK /\ OrderlyRounds /\ [Next]_vars => OrderlyRounds'
  BY NextKeeps, PlaceholderType
     DEF PreservedRounds, Preserved, Frozen, OrderlyRounds
<1> QED
  BY <1>1, <1>2, RoundTypeCorrect, PTL DEF Spec

\* StartedRoundKeepsPairs: no cascade modifies a round that has started
\* (get_rounds_to_re_resolve, build_unwire_plan), if no page sends back an old lifecycle.
THEOREM StartedRoundsKept ==
  ASSUME Editors = {}
  PROVE  Spec => StartedRoundKeepsPairs
<1>1. TypeOK /\ OrderlyRounds /\ [Next]_vars =>
        [\A r \in rounds \cap rounds' :
           ~NotStarted(round'[r]) => round'[r].pair = round[r].pair]_vars
  BY NextKeeps DEF PreservedRounds, Preserved, Frozen, OrderlyRounds, TypeOK
<1> QED
  BY <1>1, RoundTypeCorrect, OrderlyInvariant, PTL DEF Spec, StartedRoundKeepsPairs

\* PinnedRoundKeepsPairs: the policy leaves a round alone whose matches an organiser has
\* swapped (RoundInstance.is_pinned), if no page sends back an old lifecycle.
THEOREM PinnedRoundsKept ==
  ASSUME Editors = {}
  PROVE  Spec => PinnedRoundKeepsPairs
<1>1. TypeOK /\ OrderlyRounds /\ [Next]_vars =>
        [\A r \in rounds \cap rounds' :
           round[r].pinned =>
             /\ round'[r].pinned /\ round'[r].lifecycle = "RESOLVED"
             /\ {round'[r].pair[t] : t \in Tables} = {round[r].pair[t] : t \in Tables}]_vars
  BY NextKeeps DEF PreservedRounds, Preserved, Frozen, SamePairs, OrderlyRounds, TypeOK
<1> QED
  BY <1>1, RoundTypeCorrect, OrderlyInvariant, PTL DEF Spec, PinnedRoundKeepsPairs

-----------------------------------------------------------------------------
(* The order of the rounds                                                 *)

\* Inputs no organiser fills, no stage item sends and no dropout takes away.
Lasting == Inputs \ (OpenInputs \cup (UNION Sources) \cup DropOuts)

\* The parameters leave a pair to draw at any time.
SomePairLasts == \E i, j \in Lasting : i # j

LastingPlay == Lasting \subseteq Pool(final, active)

\* Two at least are drawn.
Drawable(pool) == \E i, j \in pool : i # j

\* Orderly, and a resolved round has a match to play.
Seated(row) ==
  /\ Orderly(row)
  /\ row.lifecycle = "RESOLVED" => \E t \in Tables : row.pair[t] # {}

SeatedRows(rows) == \A r \in RoundIds : Seated(rows[r])

\* WaitingRoundFollowsComplete, of any rows.
FollowsComplete(rs, rows) ==
  \A r \in rs : Automated(rows[r]) => \A p \in Previous(rs, r) : Complete(rows[p])

\* Nothing waits behind an open round that is not drawn.
FollowsDrawn(rs, rows) == (\E r \in rs : Automated(rows[r])) => FirstOpenIsDrawn(rs, rows)

InLine(rs, rows) == SeatedRows(rows) /\ FollowsComplete(rs, rows) /\ FollowsDrawn(rs, rows)

\* There is a table.
LEMMA FirstTable == 1 \in Tables
<1>1. Cardinality(Inputs) \in Nat
  BY InputsAssumption, FS_CardinalityType
<1>2. Cardinality(Inputs) \div 2 \in Nat /\ Cardinality(Inputs) \div 2 >= 1
  BY <1>1, InputsAssumption
<1> QED
  BY <1>2 DEF Tables

\* A drawing of two inputs or more fills the first table.
LEMMA DrawingFillsTable ==
  ASSUME NEW pool \in SUBSET Inputs, Drawable(pool), NEW pair \in Drawings(pool)
  PROVE  pair[1] # {}
<1>1. PICK i \in pool, j \in pool : i # j
  BY DEF Drawable
<1>2. IsFiniteSet(pool)
  BY InputsAssumption, FS_Subset
<1>3. {i, j} \subseteq pool /\ Cardinality({i, j}) = 2
  <2>1. {i, j} = {i} \cup {j} /\ IsFiniteSet({i}) /\ Cardinality({i}) = 1
    BY FS_Singleton
  <2>2. Cardinality({i} \cup {j}) = Cardinality({i}) + 1
    BY <1>1, <2>1, FS_AddElement
  <2> QED
    BY <2>1, <2>2
<1>4. Cardinality(pool) \in Nat /\ Cardinality(pool) >= 2
  BY <1>2, <1>3, FS_CardinalityType, FS_Subset
<1>5. 1 <= Cardinality(pool) \div 2
  BY <1>4
<1> QED
  BY <1>5, FirstTable DEF Drawings

\* A round none of whose matches has started is not complete.
LEMMA NotStartedIsOpen ==
  ASSUME NEW row \in RoundRow, Seated(row), NotStarted(row)
  PROVE  ~Complete(row)
<1>1. CASE row.lifecycle = "PLACEHOLDER"
  BY <1>1, FirstTable DEF Complete, NotStarted
<1>2. CASE row.lifecycle = "RESOLVED"
  BY <1>2 DEF Complete, NotStarted, Seated
<1> QED
  BY <1>1, <1>2 DEF RoundRow, Lifecycle

\* Redrawing a row leaves it seated and open.
LEMMA RedrawnSeated ==
  ASSUME NEW row \in RoundRow, Seated(row), NEW pool \in SUBSET Inputs, Drawable(pool),
         NEW new \in RoundRow, Redrawn(row, new, pool)
  PROVE  Seated(new) /\ (Complete(new) <=> Complete(row))
<1>1. CASE new = row
  BY <1>1
<1>2. CASE Automated(row) /\ new = Unwired(row)
  <2>1. NotStarted(row) /\ ~row.pinned
    BY <1>2 DEF Automated
  <2>2. Seated(new) /\ NotStarted(new)
    BY <1>2, <2>1, UnwiredRow DEF Seated, Orderly, NotStarted
  <2> QED
    BY <2>1, <2>2, NotStartedIsOpen
<1>3. ASSUME Automated(row) \/ row.lifecycle = "PLACEHOLDER",
             NEW pair \in Drawings(pool), new = Drawn(row, pool, pair)
      PROVE  Seated(new) /\ (Complete(new) <=> Complete(row))
  <2>1. NotStarted(row)
    BY <1>3 DEF Automated, Seated, Orderly, NotStarted
  <2>2. new.lifecycle = "RESOLVED" /\ new.pair = pair /\ new.state = row.state
    BY <1>3, DrawnRow
  <2>3. Seated(new) /\ NotStarted(new)
    BY <1>3, <2>1, <2>2, DrawingFillsTable, FirstTable DEF Seated, Orderly, NotStarted
  <2> QED
    BY <2>1, <2>3, NotStartedIsOpen
<1> QED
  BY <1>1, <1>2, <1>3 DEF Redrawn

\* Which rounds are complete decides which of them are open first.
LEMMA SameFirstOpen ==
  ASSUME NEW rs, NEW rows, NEW new, \A r \in rs : Complete(new[r]) <=> Complete(rows[r])
  PROVE  FirstOpen(rs, new) = FirstOpen(rs, rows)
BY DEF FirstOpen

\* What a reconciliation draws that takes nothing back.
ToDraw(rs, rows) == NextToResolve(rs, rows) \cup {r \in rs : Automated(rows[r])}

\* A drawing leaves the rounds in line, and the one that opens drawn.
LEMMA DrawingInLine ==
  ASSUME NEW rs \in SUBSET RoundIds, NEW rows \in [RoundIds -> RoundRow],
         SeatedRows(rows), UnwirableRounds(rs, rows) = {},
         NEW new \in [RoundIds -> RoundRow], SeatedRows(new),
         \A r \in RoundIds : Complete(new[r]) <=> Complete(rows[r]),
         \A r \in ToDraw(rs, rows) : new[r].lifecycle = "RESOLVED",
         \A r \in RoundIds \ ToDraw(rs, rows) : new[r] = rows[r]
  PROVE  FollowsComplete(rs, new) /\ FirstOpenIsDrawn(rs, new)
<1>1. \A r \in rs, p \in rs : Automated(rows[r]) /\ p < r => Complete(rows[p])
  BY DEF UnwirableRounds
<1>2. ASSUME NEW r \in rs, Automated(new[r]), NEW p \in Previous(rs, r)
      PROVE  Complete(new[p])
  <2>1. p \in rs /\ p < r
    BY DEF Previous
  <2>2. CASE Automated(rows[r])
    BY <1>1, <2>1, <2>2
  <2>3. CASE r \in NextToResolve(rs, rows)
    BY <2>1, <2>3 DEF NextToResolve, Ready
  <2> QED
    BY <1>2, <2>2, <2>3 DEF ToDraw
<1>3. ASSUME NEW r \in FirstOpen(rs, new), new[r].lifecycle # "RESOLVED"
      PROVE  FALSE
  <2>1. r \in rs /\ ~Complete(rows[r]) /\ \A p \in rs : p < r => Complete(rows[p])
    BY <1>3 DEF FirstOpen
  <2>2. r \notin ToDraw(rs, rows) /\ rows[r].lifecycle = "PLACEHOLDER"
    BY <1>3, <2>1 DEF RoundRow, Lifecycle
  <2>3. Ready(rs, rows, r)
    BY <2>1, <2>2 DEF Ready, Previous
  <2>4. ASSUME NEW q \in rs, Ready(rs, rows, q) PROVE r <= q
    <3>1. ~Complete(rows[q])
      BY <2>4, NotStartedIsOpen DEF Ready, SeatedRows, Seated, Orderly, NotStarted
    <3> QED
      BY <2>1, <3>1 DEF RoundIds
  <2>5. r \in NextToResolve(rs, rows)
    BY <2>1, <2>3, <2>4 DEF NextToResolve
  <2> QED
    BY <2>2, <2>5 DEF ToDraw
<1> QED
  BY <1>2, <1>3 DEF FollowsComplete, FirstOpenIsDrawn

\* Taking back what is drawn too early leaves the rounds in line.
LEMMA UnwiringInLine ==
  ASSUME NEW rs \in SUBSET RoundIds, NEW rows \in [RoundIds -> RoundRow],
         NEW new \in [RoundIds -> RoundRow], SeatedRows(new),
         \A r \in RoundIds : Complete(new[r]) <=> Complete(rows[r]),
         \A r \in UnwirableRounds(rs, rows) : new[r].lifecycle = "PLACEHOLDER",
         \A r \in RoundIds \ UnwirableRounds(rs, rows) : new[r] = rows[r]
  PROVE  FollowsComplete(rs, new) /\ FollowsDrawn(rs, new)
<1>1. ASSUME NEW r \in rs, Automated(new[r]), NEW p \in rs, p < r
      PROVE  Complete(new[p])
  <2>1. r \notin UnwirableRounds(rs, rows) /\ Automated(rows[r])
    BY <1>1 DEF Automated
  <2> QED
    BY <1>1, <2>1 DEF UnwirableRounds
<1>2. ASSUME NEW q \in rs, Automated(new[q]), NEW r \in FirstOpen(rs, new)
      PROVE  new[r].lifecycle = "RESOLVED"
  <2>1. ~Complete(new[q])
    BY <1>2, NotStartedIsOpen DEF SeatedRows, Automated
  <2>2. r \in rs /\ ~Complete(new[r]) /\ ~(q < r)
    BY <1>2, <2>1 DEF FirstOpen
  <2>3. r = q
    BY <1>1, <1>2, <2>2 DEF RoundIds
  <2> QED
    BY <1>2, <2>3 DEF Automated
<1> QED
  BY <1>1, <1>2 DEF FollowsComplete, FollowsDrawn, FirstOpenIsDrawn, Previous

\* What redraws rows keeps them seated and tells nothing else of their completion.
LEMMA RedrawnRowsSeated ==
  ASSUME NEW rs, NEW rows \in [RoundIds -> RoundRow], SeatedRows(rows),
         NEW pool \in SUBSET Inputs, Drawable(pool), NEW new, RedrawnRows(rs, rows, new, pool)
  PROVE  /\ new \in [RoundIds -> RoundRow] /\ SeatedRows(new)
         /\ \A r \in RoundIds : Complete(new[r]) <=> Complete(rows[r])
<1>1. ASSUME NEW r \in RoundIds
      PROVE  Seated(new[r]) /\ (Complete(new[r]) <=> Complete(rows[r]))
  <2>1. rows[r] \in RoundRow /\ new[r] \in RoundRow /\ Redrawn(rows[r], new[r], pool)
    BY DEF RedrawnRows
  <2> QED
    BY <2>1, RedrawnSeated DEF SeatedRows
<1> QED
  BY <1>1 DEF RedrawnRows, SeatedRows

\* A drawing resolves what it draws and leaves the rest.
LEMMA ResolvedLifecycles ==
  ASSUME NEW rows \in [RoundIds -> RoundRow], NEW pool \in SUBSET Inputs, Drawable(pool),
         NEW drawn \in SUBSET RoundIds, NEW new \in Resolved(rows, pool, drawn)
  PROVE  /\ \A r \in drawn : new[r].lifecycle = "RESOLVED"
         /\ \A r \in RoundIds \ drawn : new[r] = rows[r]
<1>1. PICK draw \in [drawn -> Drawings(pool)] :
        new = [r \in RoundIds |-> IF r \in drawn THEN Drawn(rows[r], pool, draw[r]) ELSE rows[r]]
  BY DEF Resolved, Drawable
<1>2. \A r \in drawn : draw[r] \in Drawings(pool) /\ new[r] = Drawn(rows[r], pool, draw[r])
  BY <1>1
<1> QED
  BY <1>1, <1>2, DrawnRow

\* A reconciliation leaves the rounds in line, whatever it finds, and the round that opens
\* drawn unless it takes a round back.
LEMMA ReconciledInLine ==
  ASSUME NEW rs \in SUBSET RoundIds, NEW rows \in [RoundIds -> RoundRow], SeatedRows(rows),
         NEW pool \in SUBSET Inputs, Drawable(pool), NEW new \in Reconciled(rs, rows, pool)
  PROVE  /\ new \in [RoundIds -> RoundRow]
         /\ \A r \in RoundIds : Complete(new[r]) <=> Complete(rows[r])
         /\ InLine(rs, new)
         /\ \/ FirstOpenIsDrawn(rs, new)
            \/ \E r \in rs : Automated(rows[r]) /\ new[r].lifecycle = "PLACEHOLDER"
         /\ FollowsDrawn(rs, rows) => FirstOpenIsDrawn(rs, new)
<1> DEFINE unwirable == UnwirableRounds(rs, rows)
           drawn == ToDraw(rs, rows)
<1>1. /\ new \in [RoundIds -> RoundRow] /\ SeatedRows(new)
      /\ \A r \in RoundIds : Complete(new[r]) <=> Complete(rows[r])
  BY ReconciledRows, RedrawnRowsSeated
<1>2. CASE unwirable # {}
  <2>1. new = [r \in RoundIds |-> IF r \in unwirable THEN Unwired(rows[r]) ELSE rows[r]]
    BY <1>2 DEF Reconciled
  <2>2. unwirable \subseteq rs /\ \A r \in unwirable : Automated(rows[r])
    BY DEF UnwirableRounds
  <2> HIDE DEF unwirable
  <2>3. \A r \in unwirable : new[r].lifecycle = "PLACEHOLDER"
    BY <2>1, <2>2, UnwiredRow
  <2>4. \A r \in RoundIds \ unwirable : new[r] = rows[r]
    BY <2>1
  <2>5. FollowsComplete(rs, new) /\ FollowsDrawn(rs, new)
    BY <1>1, <2>3, <2>4, UnwiringInLine DEF unwirable
  <2>6. \E r \in rs : Automated(rows[r]) /\ new[r].lifecycle = "PLACEHOLDER"
    BY <1>2, <2>2, <2>3
  <2>7. ASSUME FollowsDrawn(rs, rows), NEW r \in FirstOpen(rs, new)
        PROVE  new[r].lifecycle = "RESOLVED"
    <3>1. r \in FirstOpen(rs, rows) /\ r \in rs
      BY <1>1, <2>7 DEF FirstOpen
    <3>2. rows[r].lifecycle = "RESOLVED"
      BY <2>6, <2>7, <3>1 DEF FollowsDrawn, FirstOpenIsDrawn
    <3>3. r \notin unwirable
      BY <3>1 DEF unwirable, UnwirableRounds, FirstOpen
    <3> QED
      BY <2>4, <3>1, <3>2, <3>3
  <2> QED
    BY <1>1, <2>5, <2>6, <2>7 DEF InLine, FirstOpenIsDrawn
<1>3. CASE unwirable = {}
  <2>1. new \in Resolved(rows, pool, drawn)
    BY <1>3 DEF Reconciled, ToDraw
  <2>2. drawn \in SUBSET RoundIds
    BY DEF ToDraw, NextToResolve
  <2> HIDE DEF drawn
  <2>3. /\ \A r \in drawn : new[r].lifecycle = "RESOLVED"
        /\ \A r \in RoundIds \ drawn : new[r] = rows[r]
    BY <2>1, <2>2, ResolvedLifecycles
  <2>4. FollowsComplete(rs, new) /\ FirstOpenIsDrawn(rs, new)
    BY <1>1, <1>3, <2>3, DrawingInLine DEF drawn
  <2> QED
    BY <1>1, <2>4 DEF InLine, FollowsDrawn
<1> QED
  BY <1>2, <1>3

\* Rounds stay in line when none completes, opens or is taken back and at most the first of
\* them is drawn.
LEMMA KeptInLine ==
  ASSUME NEW rs \in SUBSET RoundIds, NEW rows \in [RoundIds -> RoundRow], InLine(rs, rows),
         NEW new \in [RoundIds -> RoundRow], SeatedRows(new),
         \A r \in RoundIds : Complete(new[r]) <=> Complete(rows[r]),
         \A r \in rs : rows[r].lifecycle = "RESOLVED" => new[r].lifecycle = "RESOLVED",
         \A r \in rs : Automated(new[r]) => Automated(rows[r]) \/ r \in FirstRound(rs)
  PROVE  InLine(rs, new) /\ (FirstOpenIsDrawn(rs, rows) => FirstOpenIsDrawn(rs, new))
<1>1. FirstOpen(rs, new) = FirstOpen(rs, rows) /\ FirstOpen(rs, rows) \subseteq rs
  BY DEF FirstOpen
<1>2. FirstOpenIsDrawn(rs, rows) => FirstOpenIsDrawn(rs, new)
  BY <1>1 DEF FirstOpenIsDrawn
<1>3. FollowsComplete(rs, new)
  BY DEF InLine, FollowsComplete, Previous, FirstRound, RoundIds
<1>4. ASSUME NEW q \in rs, Automated(new[q]), NEW r \in FirstOpen(rs, new)
      PROVE  new[r].lifecycle = "RESOLVED"
  <2>1. CASE Automated(rows[q])
    BY <1>1, <1>4, <2>1 DEF InLine, FollowsDrawn, FirstOpenIsDrawn
  <2>2. CASE q \in FirstRound(rs)
    <3>1. ~Complete(new[q])
      BY <1>4, NotStartedIsOpen DEF SeatedRows, Automated
    <3>2. r \in rs /\ ~(q < r) /\ q <= r
      BY <1>4, <2>2, <3>1 DEF FirstOpen, FirstRound
    <3>3. r = q
      BY <3>2 DEF RoundIds
    <3> QED
      BY <1>4, <3>3 DEF Automated
  <2> QED
    BY <1>4, <2>1, <2>2
<1> QED
  BY <1>2, <1>3, <1>4 DEF InLine, FollowsDrawn, FirstOpenIsDrawn

\* The input side leaves the rounds in line.
LEMMA FirstResolvedInLine ==
  ASSUME NEW rs \in SUBSET RoundIds, NEW rows \in [RoundIds -> RoundRow], InLine(rs, rows),
         NEW pool \in SUBSET Inputs, Drawable(pool), NEW new \in FirstResolved(rs, rows, pool)
  PROVE  /\ InLine(rs, new) /\ (FirstOpenIsDrawn(rs, rows) => FirstOpenIsDrawn(rs, new))
         /\ \A r \in rs : rows[r].lifecycle = "RESOLVED" => new[r].lifecycle = "RESOLVED"
<1> DEFINE drawn == {r \in FirstRound(rs) : rows[r].lifecycle = "PLACEHOLDER"}
<1>1. /\ new \in [RoundIds -> RoundRow] /\ SeatedRows(new)
      /\ \A r \in RoundIds : Complete(new[r]) <=> Complete(rows[r])
  BY FirstResolvedRows, RedrawnRowsSeated DEF InLine
<1>2. drawn \in SUBSET RoundIds /\ drawn \subseteq FirstRound(rs)
  BY DEF FirstRound
<1>3. new \in Resolved(rows, pool, drawn)
  BY DEF FirstResolved
<1> HIDE DEF drawn
<1>4. /\ \A r \in drawn : new[r].lifecycle = "RESOLVED"
      /\ \A r \in RoundIds \ drawn : new[r] = rows[r]
  BY <1>2, <1>3, ResolvedLifecycles
<1>5. \A r \in rs : rows[r].lifecycle = "RESOLVED" => new[r].lifecycle = "RESOLVED"
  BY <1>4
<1>6. \A r \in rs : Automated(new[r]) => Automated(rows[r]) \/ r \in FirstRound(rs)
  BY <1>2, <1>4
<1> QED
  BY <1>1, <1>5, <1>6, KeptInLine

-----------------------------------------------------------------------------
(* The requests leave the rounds in line                                   *)

\* What every request leaves of the line.
StaysInLine ==
  /\ InLine(rounds', round')
  /\ /\ \A r \in rounds \cap rounds' :
          round[r].lifecycle = "RESOLVED" => round'[r].lifecycle = "RESOLVED"
     /\ FirstOpenIsDrawn(rounds, round)
     => FirstOpenIsDrawn(rounds', round')

\* The matches of a row move on and it stays seated.
LEMMA MovedSeated ==
  ASSUME NEW row, NEW mid, Seated(row), Moved(row, mid)
  PROVE  Seated(mid)
BY DEF Moved, Seated

\* What a request reconciles, and the referees it clears after that.
LEMMA ReconciledStaysInLine ==
  ASSUME TypeOK, SeatedRows(round), NEW pool \in SUBSET Inputs, Drawable(pool),
         rounds' \subseteq RoundIds,
         NEW mid \in [RoundIds -> RoundRow],
         \A r \in rounds' : Moved(round[r], mid[r]),
         \A r \in RoundIds \ rounds' : mid[r] = PlaceholderRound,
         NEW rows \in Reconciled(rounds', mid, pool),
         \A r \in RoundIds :
           /\ round'[r].lifecycle = rows[r].lifecycle /\ round'[r].pinned = rows[r].pinned
           /\ round'[r].pair = rows[r].pair /\ round'[r].state = rows[r].state
  PROVE  StaysInLine
<1>1. SeatedRows(mid)
  <2>1. Seated(PlaceholderRound)
    BY PlaceholderType DEF Seated, PlaceholderRound
  <2> QED
    BY <2>1, MovedSeated DEF SeatedRows
<1>2. /\ InLine(rounds', rows)
      /\ \/ FirstOpenIsDrawn(rounds', rows)
         \/ \E r \in rounds' : Automated(mid[r]) /\ rows[r].lifecycle = "PLACEHOLDER"
  BY <1>1, ReconciledInLine
<1>3. \A r \in RoundIds :
        /\ Complete(round'[r]) <=> Complete(rows[r])
        /\ Automated(round'[r]) <=> Automated(rows[r])
        /\ Seated(round'[r]) <=> Seated(rows[r])
  BY DEF Complete, Automated, Seated, Orderly, NotStarted
<1>4. FirstOpenIsDrawn(rounds', rows) => FirstOpenIsDrawn(rounds', round')
  <2>1. FirstOpen(rounds', round') = FirstOpen(rounds', rows)
    BY <1>3, SameFirstOpen
  <2>2. FirstOpen(rounds', rows) \subseteq RoundIds
    BY DEF FirstOpen
  <2> QED
    BY <2>1, <2>2 DEF FirstOpenIsDrawn
<1>5. InLine(rounds', round')
  <2>1. SeatedRows(round')
    BY <1>2, <1>3 DEF InLine, SeatedRows
  <2>2. FollowsComplete(rounds', round')
    BY <1>2, <1>3 DEF InLine, FollowsComplete, Previous
  <2>3. FollowsDrawn(rounds', round')
    BY <1>2, <1>3, <1>4 DEF InLine, FollowsDrawn
  <2> QED
    BY <2>1, <2>2, <2>3 DEF InLine
<1>6. ASSUME NEW r \in rounds', Automated(mid[r]), rows[r].lifecycle = "PLACEHOLDER"
      PROVE  /\ r \in rounds /\ round[r].lifecycle = "RESOLVED"
             /\ round'[r].lifecycle # "RESOLVED"
  <2>1. round[r].lifecycle = "RESOLVED"
    BY <1>6 DEF Moved, Automated
  <2>2. r \in rounds
    BY <2>1, RowTypes DEF PlaceholderRound
  <2> QED
    BY <1>6, <2>1, <2>2
<1> QED
  BY <1>2, <1>4, <1>5, <1>6 DEF StaysInLine

\* A request that reconciles last.
LEMMA RequestStaysInLine ==
  ASSUME TypeOK, SeatedRows(round), NEW pool \in SUBSET Inputs, Drawable(pool), Requested(pool)
  PROVE  StaysInLine
<1>1. PICK mid \in [RoundIds -> RoundRow] :
        /\ round' \in Reconciled(rounds', mid, pool)
        /\ \A r \in rounds' : Moved(round[r], mid[r])
        /\ \A r \in RoundIds \ rounds' : mid[r] = PlaceholderRound
  BY DEF Requested
<1>2. rounds' \subseteq RoundIds
  BY DEF Requested
<1> QED
  BY <1>1, <1>2, ReconciledStaysInLine

\* A request that leaves the rounds alone.
LEMMA RoundsStayInLine ==
  ASSUME InLine(rounds, round), rounds' = rounds, round' = round
  PROVE  StaysInLine
BY DEF StaysInLine

\* The resolution of round 1.
LEMMA FirstStaysInLine ==
  ASSUME TypeOK, InLine(rounds, round), NEW pool \in SUBSET Inputs, Drawable(pool),
         rounds' = rounds, round' \in FirstResolved(rounds, round, pool)
  PROVE  StaysInLine
BY RowTypes, FirstResolvedInLine DEF StaysInLine

\* A swap takes a waiting round out of the policy's hands; it stays open and drawn.
LEMMA SwapStaysInLine ==
  ASSUME TypeOK, InLine(rounds, round),
         NEW r \in rounds, NEW t \in Tables, NEW u \in Tables, SwapMatchInputs(r, t, u)
  PROVE  StaysInLine
<1> DEFINE row == round[r]
           new == Swapped(row, t, u)
<1>1. r \in RoundIds /\ row \in RoundRow /\ Seated(row)
  BY RowTypes DEF InLine, SeatedRows
<1>2. t # u /\ row.lifecycle = "RESOLVED" /\ NotStarted(row)
      /\ rounds' = rounds /\ round' = [round EXCEPT ![r] = new]
  BY DEF SwapMatchInputs
<1>3. round'[r] = new /\ \A q \in RoundIds \ {r} : round'[q] = round[q]
  BY <1>1, <1>2, RowTypes
<1>4. Preserved(row, new)
  BY <1>1, <1>2, SwappedPreserved
<1>5. new.lifecycle = "RESOLVED" /\ new.pinned /\ new.state = row.state
  BY <1>1, <1>2 DEF Swapped, RoundRow
<1>6. \E v \in Tables : new.pair[v] # {}
  <2>1. PICK v \in Tables : row.pair[v] # {}
    BY <1>1, <1>2 DEF Seated
  <2>2. row.pair \in [Tables -> SUBSET Inputs]
    BY <1>1 DEF RoundRow
  <2>3. new.pair = [row.pair EXCEPT ![t] = row.pair[u], ![u] = row.pair[t]]
    BY <1>1 DEF Swapped, RoundRow
  <2>4. /\ new.pair[t] = row.pair[u] /\ new.pair[u] = row.pair[t]
        /\ \A w \in Tables \ {t, u} : new.pair[w] = row.pair[w]
    BY <1>2, <2>2, <2>3
  <2> QED
    BY <2>1, <2>4
<1> HIDE DEF new
<1>7. new \in RoundRow /\ Seated(new) /\ NotStarted(new)
  BY <1>1, <1>2, <1>4, <1>5, <1>6 DEF Preserved, Frozen, Seated, NotStarted
<1>8. ~Complete(new) /\ ~Complete(row) /\ ~Automated(new)
  BY <1>1, <1>2, <1>5, <1>7, NotStartedIsOpen DEF Automated
<1> HIDE DEF row
<1>9. /\ round' \in [RoundIds -> RoundRow] /\ SeatedRows(round')
      /\ \A q \in RoundIds : Complete(round'[q]) <=> Complete(round[q])
  <2>1. round' \in [RoundIds -> RoundRow]
    BY <1>1, <1>2, <1>7, RowTypes
  <2> QED
    BY <1>3, <1>7, <1>8, <2>1 DEF row, InLine, SeatedRows
<1>10. /\ \A q \in rounds : round[q].lifecycle = "RESOLVED" => round'[q].lifecycle = "RESOLVED"
       /\ \A q \in rounds : Automated(round'[q]) => Automated(round[q]) \/ q \in FirstRound(rounds)
  BY <1>3, <1>5, <1>8, RowTypes
<1> QED
  BY <1>2, <1>9, <1>10, RowTypes, KeptInLine DEF StaysInLine

\* The inputs that last are in the pool of every request.
LEMMA LastingDrawable ==
  ASSUME SomePairLasts, NEW pool, Lasting \subseteq pool
  PROVE  Drawable(pool)
BY DEF SomePairLasts, Drawable

\* No step takes a lasting input from the pool.
LEMMA LastingStaysInPlay ==
  ASSUME LastingPlay, [Next]_vars
  PROVE  /\ Lasting \subseteq Pool(final', active)
         /\ Lasting \subseteq Pool(final, active')
         /\ LastingPlay'
<1>0. Lasting \subseteq final /\ Lasting \subseteq active
  BY DEF LastingPlay, Pool
<1>1. ASSUME NEW r \in rounds, NEW t \in Tables, Verb(r, t)
      PROVE  final' = final /\ active' = active
  BY <1>1 DEF Verb, Start, End, Reopen, Reset, ScoreEdit, ReconcileMatch
<1>2. ASSUME EditRanking PROVE final' = final /\ active' = active
  BY <1>2 DEF EditRanking
<1>3. ASSUME NEW r \in rounds, NEW t \in Tables, NEW u \in Tables, SwapMatchInputs(r, t, u)
      PROVE  final' = final /\ active' = active
  BY <1>3 DEF SwapMatchInputs
<1>4. ASSUME NEW r \in rounds, DeleteRound(r)
      PROVE  final' = final /\ active' = active
  BY <1>4 DEF DeleteRound
<1>5. ASSUME NEW count, UpdateStageItem(count)
      PROVE  final' = final /\ active' = active
  BY <1>5 DEF UpdateStageItem
<1>6. ASSUME NEW i \in OpenInputs, AssignTeam(i) \/ UnassignTeam(i)
      PROVE  Lasting \subseteq final' /\ active' = active
  BY <1>0, <1>6 DEF AssignTeam, UnassignTeam, Lasting
<1>7. ASSUME NEW s \in Sources, AdvanceInputs(s)
      PROVE  Lasting \subseteq final' /\ active' = active
  BY <1>0, <1>7 DEF AdvanceInputs
<1>8. ASSUME NEW i \in DropOuts, DeactivateTeam(i) \/ ActivateTeam(i)
      PROVE  Lasting \subseteq active' /\ final' = final
  <2>1. final' = final /\ (active' = active \ {i} \/ active' = active \cup {i})
    BY <1>8 DEF DeactivateTeam, ActivateTeam
  <2>2. i \notin Lasting
    BY <1>8 DEF Lasting
  <2> QED
    BY <1>0, <2>1, <2>2
<1>9. ASSUME NEW e \in Editors, NEW r \in rounds, OpenForm(e, r)
      PROVE  final' = final /\ active' = active
  BY <1>9 DEF OpenForm
<1>10. ASSUME NEW e \in Editors, UpdateRound(e)
       PROVE  final' = final /\ active' = active
  BY <1>10 DEF UpdateRound
<1>11. ASSUME UNCHANGED vars PROVE final' = final /\ active' = active
  BY <1>11 DEF vars
<1>12. Lasting \subseteq final' /\ Lasting \subseteq active'
  BY <1>0, <1>1, <1>2, <1>3, <1>4, <1>5, <1>6, <1>7, <1>8, <1>9, <1>10, <1>11 DEF Next
<1> QED
  BY <1>0, <1>12 DEF LastingPlay, Pool

\* A deactivation draws again what waits; the referees do not matter.
LEMMA DeactivateStaysInLine ==
  ASSUME TypeOK, InLine(rounds, round), Drawable(Pool(final, active')), NEW i, DeactivateTeam(i)
  PROVE  StaysInLine
<1>1. rounds' = rounds
  BY DEF DeactivateTeam
<1>2. CASE round' = round
  BY <1>1, <1>2, RoundsStayInLine
<1>3. ASSUME NEW rows \in Reconciled(rounds, round, Pool(final, active')),
             round' = WithoutReferee(rows, i)
      PROVE  StaysInLine
  <2>1. rows \in [RoundIds -> RoundRow]
    BY RowTypes, ReconciledRows DEF RedrawnRows
  <2>2. \A r \in RoundIds :
          /\ round'[r].lifecycle = rows[r].lifecycle /\ round'[r].pinned = rows[r].pinned
          /\ round'[r].pair = rows[r].pair /\ round'[r].state = rows[r].state
    BY <1>3, <2>1, WithoutRefereeRows
  <2>3. rows \in Reconciled(rounds', round, Pool(final, active'))
    BY <1>1, <1>3
  <2>4. /\ \A r \in rounds' : Moved(round[r], round[r])
        /\ \A r \in RoundIds \ rounds' : round[r] = PlaceholderRound
        /\ rounds' \subseteq RoundIds
        /\ SeatedRows(round)
    BY <1>1, RowTypes DEF InLine
  <2> QED
    BY <2>2, <2>3, <2>4, RowTypes, ReconciledStaysInLine
<1> QED
  BY <1>2, <1>3 DEF DeactivateTeam

\* Every step leaves the rounds in line.
LEMMA NextStaysInLine ==
  ASSUME Editors = {}, SomePairLasts, TypeOK, LastingPlay, InLine(rounds, round), [Next]_vars
  PROVE  StaysInLine
<1>1. /\ Drawable(Pool(final, active)) /\ Drawable(Pool(final', active))
      /\ Drawable(Pool(final, active'))
  BY LastingStaysInPlay, LastingDrawable DEF LastingPlay
<1>2. SeatedRows(round)
  BY DEF InLine
<1>3. ASSUME Requested(Pool(final, active))
      PROVE  StaysInLine
  BY <1>1, <1>2, <1>3, RowTypes, RequestStaysInLine
<1>4. ASSUME NEW r \in rounds, NEW t \in Tables, Verb(r, t)
      PROVE  StaysInLine
  BY <1>3, <1>4, VerbRequested
<1>5. CASE EditRanking
  BY <1>3, <1>5, EditRequested
<1>6. ASSUME NEW r \in rounds, NEW t \in Tables, NEW u \in Tables, SwapMatchInputs(r, t, u)
      PROVE  StaysInLine
  BY <1>6, SwapStaysInLine
<1>7. ASSUME NEW r \in rounds, DeleteRound(r)
      PROVE  StaysInLine
  BY <1>3, <1>7, DeleteRequested
<1>8. ASSUME NEW count, UpdateStageItem(count)
      PROVE  StaysInLine
  BY <1>3, <1>8, ResizeRequested
<1>9. ASSUME NEW i \in OpenInputs, AssignTeam(i)
      PROVE  StaysInLine
  <2>1. rounds' = rounds /\ Pool(final', active) \in SUBSET Inputs
    BY <1>9 DEF AssignTeam, TypeOK, Pool
  <2>2. round' = round \/ round' \in FirstResolved(rounds, round, Pool(final', active))
    BY <1>9 DEF AssignTeam
  <2> QED
    BY <1>1, <2>1, <2>2, RoundsStayInLine, FirstStaysInLine
<1>10. ASSUME NEW i \in OpenInputs, UnassignTeam(i)
       PROVE  StaysInLine
  BY <1>10, RoundsStayInLine DEF UnassignTeam
<1>11. ASSUME NEW s \in Sources, AdvanceInputs(s)
       PROVE  StaysInLine
  <2>1. rounds' = rounds /\ Pool(final', active) \in SUBSET Inputs
    BY <1>11 DEF AdvanceInputs, TypeOK, Pool
  <2> QED
    BY <1>1, <1>11, <2>1, FirstStaysInLine DEF AdvanceInputs
<1>12. ASSUME NEW i \in DropOuts, DeactivateTeam(i)
       PROVE  StaysInLine
  BY <1>1, <1>12, DeactivateStaysInLine
<1>13. ASSUME NEW i \in DropOuts, ActivateTeam(i)
       PROVE  StaysInLine
  <2>1. rounds' = rounds /\ Pool(final, active') \in SUBSET Inputs
    BY <1>13, RowTypes DEF ActivateTeam
  <2>2. round' = round \/ round' \in Reconciled(rounds, round, Pool(final, active'))
    BY <1>13 DEF ActivateTeam
  <2>3. round' # round => Requested(Pool(final, active'))
    BY <2>1, <2>2, ReconciledRequested
  <2> QED
    BY <1>1, <1>2, <2>1, <2>3, RoundsStayInLine, RequestStaysInLine
<1>14. CASE UNCHANGED vars
  BY <1>14, RoundsStayInLine DEF vars
<1> QED
  BY <1>4, <1>5, <1>6, <1>7, <1>8, <1>9, <1>10, <1>11, <1>12, <1>13, <1>14 DEF Next

\* A new stage item is in line.
LEMMA InitInLine ==
  ASSUME SomePairLasts, Init
  PROVE  LastingPlay /\ InLine(rounds, round)
<1> DEFINE built == [r \in RoundIds |-> PlaceholderRound]
<1>1. built \in [RoundIds -> RoundRow] /\ \A r \in RoundIds : built[r] = PlaceholderRound
  BY PlaceholderType
<1>2. rounds \in SUBSET RoundIds
  BY RoundsAssumption DEF Init, RoundIds
<1>3. round \in FirstResolved(rounds, built, Inputs) \/ round = built
  BY DEF Init
<1>4. LastingPlay
  BY DEF Init, LastingPlay, Lasting, Pool
<1>5. Drawable(Inputs)
  BY LastingDrawable DEF Lasting
<1> HIDE DEF built
<1>6. InLine(rounds, built)
  <2>1. SeatedRows(built)
    <3>1. Seated(PlaceholderRound)
      BY PlaceholderType DEF Seated, PlaceholderRound
    <3> QED
      BY <1>1, <3>1 DEF SeatedRows
  <2>2. \A r \in rounds : ~Automated(built[r])
    BY <1>1, <1>2 DEF Automated, PlaceholderRound
  <2> QED
    BY <2>1, <2>2 DEF InLine, FollowsComplete, FollowsDrawn
<1> QED
  BY <1>1, <1>2, <1>3, <1>4, <1>5, <1>6, FirstResolvedInLine

\* Without forms, and with a pair to draw at any time, the rounds are in line.
LEMMA LineInvariant ==
  ASSUME Editors = {}, SomePairLasts
  PROVE  Spec => [](LastingPlay /\ InLine(rounds, round))
<1>1. Init => LastingPlay /\ InLine(rounds, round)
  BY InitInLine
<1>2. TypeOK /\ LastingPlay /\ InLine(rounds, round) /\ [Next]_vars
        => LastingPlay' /\ InLine(rounds', round')
  BY NextStaysInLine, LastingStaysInPlay DEF StaysInLine
<1>3. InLine(rounds, round)' <=> InLine(rounds', round')
  BY DEF InLine, SeatedRows, FollowsComplete, FollowsDrawn, FirstOpenIsDrawn
<1> QED
  BY <1>1, <1>2, <1>3, RoundTypeCorrect, PTL DEF Spec

\* WaitingRoundFollowsComplete, for every field and every number of rounds: what no longer
\* follows a complete round is taken back by the request that undoes it (build_unwire_plan),
\* if no page sends back an old lifecycle and some pair takes part throughout.
THEOREM WaitingRoundsFollow ==
  ASSUME Editors = {}, SomePairLasts
  PROVE  Spec => []WaitingRoundFollowsComplete
<1>1. InLine(rounds, round) => WaitingRoundFollowsComplete
  BY DEF InLine, FollowsComplete, WaitingRoundFollowsComplete
<1> QED
  BY <1>1, LineInvariant, PTL

\* FirstOpenRoundIsPlayable, for every field and every number of rounds: nothing ever waits
\* behind an open placeholder, so a reconciliation leaves the open round drawn even when it
\* takes others back (auto_resolve_next_round), and a surplus match does not count
\* (is_round_complete).
THEOREM OpenRoundsCanBePlayed ==
  ASSUME Editors = {}, SomePairLasts
  PROVE  Spec => []FirstOpenRoundIsPlayable
<1>1. TypeOK /\ LastingPlay /\ InLine(rounds, round) => FirstOpenRoundIsPlayable
  <2> SUFFICES ASSUME TypeOK, LastingPlay, InLine(rounds, round), final = Inputs,
                      NEW rows \in Reconciled(rounds, round, Pool(final, active)),
                      NEW r \in FirstOpen(rounds, rows)
               PROVE  /\ rows[r].lifecycle = "RESOLVED"
                      /\ \E t \in Tables : Playable(rows[r], t)
                      /\ \A t \in Tables : \/ Playable(rows[r], t)
                                          \/ rows[r].state[t] = "COMPLETED"
                                          \/ rows[r].pair[t] = {}
    BY DEF FirstOpenRoundIsPlayable
  <2>1. Drawable(Pool(final, active)) /\ Pool(final, active) \in SUBSET Inputs
    BY LastingDrawable, RowTypes DEF LastingPlay
  <2>2. rows \in [RoundIds -> RoundRow] /\ FirstOpenIsDrawn(rounds, rows)
    BY <2>1, RowTypes, ReconciledInLine DEF InLine
  <2>3. rows[r].lifecycle = "RESOLVED" /\ rows[r] \in RoundRow /\ ~Complete(rows[r])
    BY <2>2, RowTypes DEF FirstOpenIsDrawn, FirstOpen
  <2>4. \A t \in Tables : rows[r].state[t] \in MatchState /\ rows[r].pair[t] \subseteq final
    BY <2>3 DEF RoundRow
  <2>5. \A t \in Tables : \/ Playable(rows[r], t)
                          \/ rows[r].state[t] = "COMPLETED"
                          \/ rows[r].pair[t] = {}
    BY <2>4 DEF Playable, MatchState
  <2>6. \E t \in Tables : Playable(rows[r], t)
    BY <2>3, <2>5 DEF Complete
  <2> QED
    BY <2>3, <2>5, <2>6
<1> QED
  BY <1>1, LineInvariant, RoundTypeCorrect, PTL

\* OpenRoundStaysDrawn, for every field and every number of rounds: a request that takes no
\* round back draws the one it opens (auto_resolve_next_round).
THEOREM OpenRoundsStayDrawn ==
  ASSUME Editors = {}, SomePairLasts
  PROVE  Spec => OpenRoundStaysDrawn
<1>1. TypeOK /\ LastingPlay /\ InLine(rounds, round) /\ [Next]_vars =>
        [/\ \A r \in rounds \cap rounds' :
              round[r].lifecycle = "RESOLVED" => round'[r].lifecycle = "RESOLVED"
         /\ FirstOpenIsDrawn(rounds, round)
         => FirstOpenIsDrawn(rounds', round')]_vars
  BY NextStaysInLine DEF StaysInLine
<1> QED
  BY <1>1, LineInvariant, RoundTypeCorrect, PTL DEF Spec, OpenRoundStaysDrawn
=============================================================================
