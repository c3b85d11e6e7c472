---------------------- MODULE EliminationBracketProofs ----------------------
(***************************************************************************)
(* Proofs about the elimination bracket, for any number of rounds, any     *)
(* bound on the sets of a match and any rankings.                          *)
(*                                                                         *)
(* The invariant couples the slots with the pointers: a filled slot comes  *)
(* from a match that has started, and a started match has both slots       *)
(* filled.  Each part needs the other.  A cascade leaves started matches   *)
(* alone, so a slot filled from one keeps naming its teams; a reset would  *)
(* break that, and its guard looks only at matches that have started.      *)
(* That a winner reaches the match it feeds is then read off the plans:    *)
(* the plan that writes that match last has the decided feeder as a seed,  *)
(* or finds its winner in place.                                           *)
(***************************************************************************)
EXTENDS EliminationBracket, MatchSetsProofs, WellFoundedInduction

-----------------------------------------------------------------------------
(* The tree                                                                *)

\* The bounds of the heap and of its rounds are integers.
LEMMA TreeType == Teams \in Int /\ RoundSizes \subseteq Int
<1>1. \A k \in Nat : 2^k \in Int
  OBVIOUS
<1>2. NumRounds \in Nat /\ 0..(NumRounds - 1) \subseteq Nat
  BY NumRoundsAssumption
<1> QED
  BY <1>1, <1>2 DEF Teams, RoundSizes

\* Of the plans that change a match, one belongs to the latest round.
LEMMA LatestRound ==
  ASSUME NEW S \in SUBSET Nat, S # {}
  PROVE  \E k \in S : \A j \in S : k <= j
<1>1. PICK k \in S : \A j \in S : ~ (<<j, k>> \in OpToRel(<, Nat))
  BY NatLessThanWellFounded, WFMin
<1>2. \A j \in S : ~ (j < k)
  BY <1>1 DEF OpToRel
<1> QED
  BY <1>2

\* The match a match feeds is a follower the reset guard looks at.
LEMMA FeederFollows ==
  ASSUME NEW f \in Matches, NEW m \in Matches, NEW slot \in Slots, m = Feeder(f, slot)
  PROVE  f \in Followers(m)
<1>1. m \div 2 = f
  BY TreeType DEF Feeder, Slots, Matches
<1>2. 2^1 = 2 /\ 1 \in 1..NumRounds
  BY NumRoundsAssumption
<1>3. m \div (2^1) = f
  BY <1>1, <1>2
<1> QED
  BY <1>2, <1>3 DEF Followers

-----------------------------------------------------------------------------
(* A match has not started exactly when its pointer stands at the start.   *)

Untouched(row) == row.completed_set_count = 0 /\ ~row.current_set_in_progress

LEMMA NotStartedPointer ==
  ASSUME NEW row \in MatchRow, NEW n \in 1..MaxSets, PointerAligned(row, n), NEW rk
  PROVE  NotStarted(row, rk) <=> Untouched(row)
<1>1. DeriveMatchState(row, rk.play_all_sets) =
        StateFromPointer(row, Cardinality(row.rows), IsMatchDecided(row, rk.play_all_sets))
  BY ViewsAgree
<1> QED
  BY <1>1 DEF NotStarted, State, StateFromPointer, Untouched

\* Stamping completed_at leaves the pointer, and what it is aligned with, alone.
LEMMA SyncKeepsPointer ==
  ASSUME NEW row \in MatchRow, NEW n, PointerAligned(row, n), NEW p
  PROVE  /\ SyncCompletedAt(row, p) \in MatchRow
         /\ PointerAligned(SyncCompletedAt(row, p), n)
         /\ Untouched(SyncCompletedAt(row, p)) <=> Untouched(row)
  BY DEF SyncCompletedAt, MatchRow, PointerAligned, Untouched

\* A resize to at least one set neither starts a match nor undoes its start.
LEMMA ResizeKeepsUntouched ==
  ASSUME NEW row \in MatchRow, NEW old \in 1..MaxSets, NEW n \in 1..MaxSets,
         PointerAligned(row, old)
  PROVE  /\ Resized(row, old, n) \in MatchRow
         /\ PointerAligned(Resized(row, old, n), n)
         /\ Untouched(Resized(row, old, n)) <=> Untouched(row)
<1> DEFINE after == Resized(row, old, n)
<1>1. row \in FittingRow
  BY MaxSetsAssumption DEF FittingRow, PointerAligned, MatchRow
<1>2. after \in MatchRow
  BY <1>1, ResizedFits DEF FittingRow
<1>3. PointerAligned(after, n)
  BY ResizedAligns
<1>4. /\ after.completed_set_count =
           IF row.completed_set_count <= n THEN row.completed_set_count ELSE n
      /\ row.completed_set_count < n =>
           after.current_set_in_progress = row.current_set_in_progress
      /\ ~(row.completed_set_count < n) => after.current_set_in_progress = FALSE
  BY ResizedPointer
<1> HIDE DEF after
<1>5. row.completed_set_count \in Nat /\ n \in Nat /\ n > 0
  BY MaxSetsAssumption DEF MatchRow
<1>6. after.completed_set_count = 0 <=> row.completed_set_count = 0
  BY <1>4, <1>5
<1>7. row.completed_set_count = 0 =>
        after.current_set_in_progress = row.current_set_in_progress
  BY <1>4, <1>5
<1>8. Untouched(after) <=> Untouched(row)
  BY <1>6, <1>7, Zenon DEF Untouched
<1> QED
  BY <1>2, <1>3, <1>8 DEF after

-----------------------------------------------------------------------------
(* The invariant, and what a reconciliation has to do to preserve it.      *)

BracketInv ==
  /\ TypeOK
  /\ \A m \in Matches : PointerAligned(match[m], ranking.num_sets)
  /\ SlotComesFromFeeder
  /\ StartedHasOpponents

LEMMA AcceptedIsRanking == AcceptedRankings \subseteq RankingRow
  BY RankingsAssumption DEF AcceptedRankings, Normalized

LEMMA InvPointer ==
  ASSUME BracketInv
  PROVE  /\ ranking.num_sets \in 1..MaxSets
         /\ \A m \in Matches : NotStarted(match[m], ranking) <=> Untouched(match[m])
<1>1. ranking.num_sets \in 1..MaxSets
  BY DEF BracketInv, TypeOK, RankingRow
<1> QED
  BY <1>1, NotStartedPointer DEF BracketInv, TypeOK

\* The rows and the ranking a request writes: aligned, and as started as it says.
RowsAfter(rows, rk) ==
  /\ rk \in RankingRow
  /\ rows \in [Matches -> MatchRow]
  /\ \A m \in Matches : /\ PointerAligned(rows[m], rk.num_sets)
                        /\ NotStarted(rows[m], rk) <=> Untouched(rows[m])

\* New inputs that fit these rows: no match started before or after gets other inputs,
\* a filled slot names a team of a started feeder, a started match has its opponents.
InputsFit(rows, new) ==
  /\ new \in [Matches -> [Slots -> TeamNodes \cup {NoTeam}]]
  /\ \A f \in Matches : new[f] # inputs[f] => Untouched(rows[f]) /\ Untouched(match[f])
  /\ \A f \in Matches, slot \in Slots :
       Feeder(f, slot) \in Matches /\ new[f][slot] # NoTeam =>
         /\ ~Untouched(rows[Feeder(f, slot)])
         /\ \E s \in Slots : new[f][slot] = inputs[Feeder(f, slot)][s]
  /\ \A f \in Matches : ~Untouched(rows[f]) => OpponentsKnown(f)

LEMMA FittingKeepsInv ==
  ASSUME RowsAfter(match', ranking'), InputsFit(match', inputs')
  PROVE  BracketInv'
<1>1. TypeOK'
  BY DEF RowsAfter, InputsFit, TypeOK
<1>2. \A m \in Matches : PointerAligned(match'[m], ranking'.num_sets)
  BY DEF RowsAfter
<1>3. \A f \in Matches : ~Untouched(match'[f]) => inputs'[f] = inputs[f]
  BY DEF InputsFit
<1>4. SlotComesFromFeeder'
  <2> SUFFICES ASSUME NEW f \in Matches, NEW slot \in Slots, Feeder(f, slot) \in Matches,
                      inputs'[f][slot] # NoTeam
               PROVE  /\ ~NotStarted(match'[Feeder(f, slot)], ranking')
                      /\ \E s \in Slots : inputs'[f][slot] = inputs'[Feeder(f, slot)][s]
    BY DEF SlotComesFromFeeder
  <2>1. /\ ~Untouched(match'[Feeder(f, slot)])
        /\ \E s \in Slots : inputs'[f][slot] = inputs[Feeder(f, slot)][s]
    BY DEF InputsFit
  <2> QED
    BY <1>3, <2>1 DEF RowsAfter
<1>5. StartedHasOpponents'
  <2> SUFFICES ASSUME NEW f \in Matches, ~NotStarted(match'[f], ranking')
               PROVE  \A slot \in Slots : inputs'[f][slot] # NoTeam
    BY DEF StartedHasOpponents, OpponentsKnown
  <2>1. ~Untouched(match'[f])
    BY DEF RowsAfter
  <2>2. OpponentsKnown(f)
    BY <2>1 DEF InputsFit
  <2> QED
    BY <1>3, <2>1, <2>2 DEF OpponentsKnown
<1> QED
  BY <1>1, <1>2, <1>4, <1>5 DEF BracketInv

\* A planned slot is empty, or names a team of a feeder that is completed, or is kept.
LEMMA PlannedSlot ==
  ASSUME TypeOK, NEW f \in Matches, NEW slot \in Slots, NEW rows, NEW rk,
         NEW seeds \in SUBSET Matches, NEW cleared
  PROVE  LET g == Feeder(f, slot)
             new == PlannedInputs(f, rows, rk, seeds, cleared)[slot]
         IN  /\ new \in TeamNodes \cup {NoTeam}
             /\ new # NoTeam =>
                  /\ g \notin cleared
                  /\ \/ g \in seeds /\ \E s \in Slots : new = inputs[g][s]
                     \/ new = inputs[f][slot]
<1> DEFINE g == Feeder(f, slot)
           winner == Winner(rows[g], inputs[g], rk)
           new == PlannedInputs(f, rows, rk, seeds, cleared)[slot]
<1>1. winner = NoTeam \/ \E s \in Slots : winner = inputs[g][s]
  BY DEF Winner, Slots
<1>2. g \in seeds => winner \in TeamNodes \cup {NoTeam}
  BY <1>1 DEF TypeOK
<1>3. inputs[f][slot] \in TeamNodes \cup {NoTeam}
  BY DEF TypeOK
<1> HIDE DEF winner, g
<1>4. new = IF g \in cleared THEN NoTeam
            ELSE IF g \in seeds /\ winner # NoTeam THEN winner ELSE inputs[f][slot]
  BY DEF PlannedInputs, winner, g
<1> HIDE DEF new
<1> QED
  BY <1>1, <1>2, <1>3, <1>4 DEF g, new

-----------------------------------------------------------------------------
(* The two reconciliations                                                 *)

\* A cascade is seeded by started matches and changes only matches that have not.
LEMMA CascadeFacts ==
  ASSUME NEW rows, NEW rk, RowsAfter(rows, rk), NEW ms \in SUBSET Matches
  PROVE  /\ CompletedIn(ms, rows, rk) \in SUBSET Matches
         /\ \A g \in CompletedIn(ms, rows, rk) : ~Untouched(rows[g])
         /\ \A k, seeds, unsettled, changed :
              IsCascade(changed, k, rows, rk, seeds, unsettled) =>
                \A f \in changed : f \in Matches /\ f < k /\ Untouched(rows[f])
<1>1. \A g \in CompletedIn(ms, rows, rk) : g \in Matches /\ ~NotStarted(rows[g], rk)
  BY DEF CompletedIn, NotStarted
<1>2. ASSUME NEW k, NEW seeds, NEW unsettled, NEW changed,
             IsCascade(changed, k, rows, rk, seeds, unsettled), NEW f \in changed
      PROVE  f \in Matches /\ f < k /\ NotStarted(rows[f], rk)
  BY <1>2 DEF IsCascade, SubsequentRounds
<1> QED
  BY <1>1, <1>2 DEF RowsAfter, CompletedIn

\* A verb moved match m.  If that made it start, its opponents were known; if that
\* undid its start, the match it feeds has not started.
LEMMA MatchCascade ==
  ASSUME BracketInv, NEW m \in Matches, NEW after, ReconcileMatch(m, after),
         Moved(match[m], after, ranking.num_sets),
         ~Untouched(after) /\ Untouched(match[m]) => OpponentsKnown(m),
         Untouched(after) /\ ~Untouched(match[m]) =>
           \A f \in Matches, slot \in Slots : m = Feeder(f, slot) => Untouched(match[f])
  PROVE  /\ BracketInv'
         /\ \A f \in Matches : ~Untouched(match[f]) => inputs'[f] = inputs[f]
<1> DEFINE p == ranking.play_all_sets
           rows == Synced([match EXCEPT ![m] = after], ranking)
           seeds == CompletedIn({m}, rows, ranking)
           unsettled == {m} \ seeds
<1>0. PICK k \in RoundSizes : \E changed \in SUBSET SubsequentRounds(k) :
        /\ m \in Round(k)
        /\ IsCascade(changed, k, rows, ranking, seeds, unsettled)
        /\ match' = rows
        /\ inputs' = [f \in Matches |->
             IF f \in changed
             THEN PlannedInputs(f, rows, ranking, seeds, unsettled \cup changed)
             ELSE inputs[f]]
        /\ UNCHANGED ranking
  BY DEF ReconcileMatch
<1>1. PICK changed \in SUBSET SubsequentRounds(k) :
        /\ m \in Round(k)
        /\ IsCascade(changed, k, rows, ranking, seeds, unsettled)
        /\ match' = rows
        /\ inputs' = [f \in Matches |->
             IF f \in changed
             THEN PlannedInputs(f, rows, ranking, seeds, unsettled \cup changed)
             ELSE inputs[f]]
        /\ UNCHANGED ranking
  BY <1>0
<1>2. \A f \in Matches :
        rows[f] = SyncCompletedAt(IF f = m THEN after ELSE match[f], p)
  BY DEF Synced, BracketInv, TypeOK
<1>3. /\ ranking \in RankingRow /\ ranking.num_sets \in 1..MaxSets
      /\ after \in MatchRow /\ PointerAligned(after, ranking.num_sets)
  BY InvPointer DEF BracketInv, TypeOK, Moved
<1>4. \A f \in Matches :
        /\ rows[f] \in MatchRow
        /\ PointerAligned(rows[f], ranking.num_sets)
        /\ Untouched(rows[f]) <=> Untouched(IF f = m THEN after ELSE match[f])
  BY <1>2, <1>3, SyncKeepsPointer DEF BracketInv, TypeOK
<1>5. rows \in [Matches -> MatchRow]
  BY <1>4 DEF Synced
<1> HIDE DEF rows
<1>6. RowsAfter(rows, ranking)
  BY <1>3, <1>4, <1>5, NotStartedPointer DEF RowsAfter
<1>7. /\ seeds \in SUBSET Matches
      /\ \A g \in seeds : ~Untouched(rows[g])
      /\ \A f \in changed : f \in Matches /\ f < k /\ Untouched(rows[f])
  BY <1>1, <1>6, CascadeFacts
<1>8. m \notin changed /\ k <= m
  BY <1>1, <1>7, TreeType DEF Round, Matches
<1> HIDE DEF seeds
<1>9. \A f \in changed : Untouched(match[f]) /\ Untouched(rows[f])
  BY <1>4, <1>7, <1>8
<1>10. \A f \in Matches : inputs'[f] # inputs[f] => f \in changed
  BY <1>1
<1>11. \A f \in Matches :
         inputs'[f] = IF f \in changed
                      THEN PlannedInputs(f, rows, ranking, seeds, unsettled \cup changed)
                      ELSE inputs[f]
  BY <1>1
<1>12. InputsFit(rows, inputs')
  <2>1. inputs' \in [Matches -> [Slots -> TeamNodes \cup {NoTeam}]]
    <3>1. ASSUME NEW f \in Matches
          PROVE  PlannedInputs(f, rows, ranking, seeds, unsettled \cup changed)
                   \in [Slots -> TeamNodes \cup {NoTeam}]
      <4>1. \A slot \in Slots :
              PlannedInputs(f, rows, ranking, seeds, unsettled \cup changed)[slot]
                \in TeamNodes \cup {NoTeam}
        BY <1>7, PlannedSlot DEF BracketInv
      <4> QED
        BY <4>1 DEF PlannedInputs
    <3> QED
      BY <1>1, <3>1 DEF BracketInv, TypeOK
  <2>2. ASSUME NEW f \in Matches, NEW slot \in Slots, Feeder(f, slot) \in Matches,
               inputs'[f][slot] # NoTeam
        PROVE  /\ ~Untouched(rows[Feeder(f, slot)])
               /\ \E s \in Slots : inputs'[f][slot] = inputs[Feeder(f, slot)][s]
    <3> DEFINE g == Feeder(f, slot)
    <3>1. inputs[f][slot] # NoTeam =>
            ~Untouched(match[g]) /\ \E s \in Slots : inputs[f][slot] = inputs[g][s]
      BY <2>2, InvPointer DEF BracketInv, SlotComesFromFeeder
    <3>2. CASE f \in changed
      <4>1. /\ g \notin unsettled \cup changed
            /\ \/ g \in seeds /\ \E s \in Slots : inputs'[f][slot] = inputs[g][s]
               \/ inputs'[f][slot] = inputs[f][slot]
        BY <1>7, <1>11, <2>2, <3>2, PlannedSlot DEF BracketInv
      <4>2. g = m => g \in seeds
        BY <4>1
      <4> QED
        BY <1>4, <1>7, <2>2, <3>1, <4>1, <4>2
    <3>3. CASE f \notin changed
      <4>1. inputs'[f][slot] = inputs[f][slot]
        BY <1>11, <3>3
      <4>2. CASE g # m
        BY <1>4, <2>2, <3>1, <4>1, <4>2
      <4>3. CASE g = m
        <5>1. f < k
          BY <1>1, <1>8, <4>3, TreeType DEF Round, Feeder, Slots, Matches
        <5>2. CASE Untouched(match[f])
          <6>1. f # m
            BY <1>8, <5>1, TreeType DEF Matches
          <6>2. NotStarted(rows[f], ranking)
            BY <1>4, <1>6, <5>2, <6>1 DEF RowsAfter
          <6>3. PlannedInputs(f, rows, ranking, seeds, unsettled \cup changed) = inputs[f]
            BY <1>1, <3>3, <5>1, <6>2 DEF IsCascade, SubsequentRounds
          <6>4. g \in seeds
            BY <1>7, <2>2, <4>1, <4>3, <6>3, PlannedSlot DEF BracketInv
          <6> QED
            BY <1>7, <2>2, <3>1, <4>1, <6>4
        <5>3. CASE ~Untouched(match[f])
          BY <1>4, <2>2, <3>1, <4>1, <4>3, <5>3
        <5> QED
          BY <5>2, <5>3
      <4> QED
        BY <4>2, <4>3
    <3> QED
      BY <3>2, <3>3
  <2>3. ASSUME NEW f \in Matches, ~Untouched(rows[f])
        PROVE  OpponentsKnown(f)
    BY <1>4, <2>3, InvPointer DEF BracketInv, StartedHasOpponents
  <2> QED
    BY <1>9, <1>10, <2>1, <2>2, <2>3 DEF InputsFit
<1>13. BracketInv'
  BY <1>1, <1>6, <1>12, FittingKeepsInv
<1> QED
  BY <1>9, <1>10, <1>13

\* A request changed the ranking or nothing, and all rows with it, starting no match and
\* undoing no start.
LEMMA StageItemCascade ==
  ASSUME BracketInv, NEW before, NEW rk \in RankingRow, ReconcileStageItem(before, rk),
         \A f \in Matches : /\ before[f] \in MatchRow
                            /\ PointerAligned(before[f], rk.num_sets)
                            /\ Untouched(before[f]) <=> Untouched(match[f])
  PROVE  /\ BracketInv'
         /\ \A f \in Matches : ~Untouched(match[f]) => inputs'[f] = inputs[f]
<1> DEFINE rows == Synced(before, rk)
           seeds == [k \in RoundSizes |-> CompletedIn(Round(k), rows, rk)]
           cascades == [k \in RoundSizes |->
             {c \in SUBSET SubsequentRounds(k) : IsCascade(c, k, rows, rk, seeds[k], {})}]
<1>1. PICK changed \in [RoundSizes -> UNION {cascades[k] : k \in RoundSizes}] :
        /\ \A k \in RoundSizes : changed[k] \in cascades[k]
        /\ ranking' = rk
        /\ match' = rows
        /\ inputs' = [f \in Matches |->
             LET last == Latest({k \in RoundSizes : f \in changed[k]})
             IN  IF {k \in RoundSizes : f \in changed[k]} = {} THEN inputs[f]
                 ELSE PlannedInputs(f, rows, rk, seeds[last], changed[last])]
  BY DEF ReconcileStageItem
<1>2. \A k \in RoundSizes : IsCascade(changed[k], k, rows, rk, seeds[k], {})
  BY <1>1
<1>3. \A f \in Matches : rows[f] = SyncCompletedAt(before[f], rk.play_all_sets)
  BY DEF Synced
<1>4. \A f \in Matches :
        /\ rows[f] \in MatchRow
        /\ PointerAligned(rows[f], rk.num_sets)
        /\ Untouched(rows[f]) <=> Untouched(match[f])
  BY <1>3, SyncKeepsPointer
<1>5. rows \in [Matches -> MatchRow] /\ rk.num_sets \in 1..MaxSets
  BY <1>4 DEF Synced, RankingRow
<1> HIDE DEF rows, cascades
<1>6. RowsAfter(rows, rk)
  BY <1>4, <1>5, NotStartedPointer DEF RowsAfter
<1>7. \A k \in RoundSizes :
        \A f \in changed[k] : f \in Matches /\ f < k /\ Untouched(rows[f])
  BY <1>2, <1>6, CascadeFacts
<1>8. \A k \in RoundSizes : /\ seeds[k] \in SUBSET Matches
                             /\ \A g \in seeds[k] : ~Untouched(rows[g])
  <2> SUFFICES ASSUME NEW k \in RoundSizes
               PROVE  /\ CompletedIn(Round(k), rows, rk) \in SUBSET Matches
                      /\ \A g \in CompletedIn(Round(k), rows, rk) : ~Untouched(rows[g])
    OBVIOUS
  <2>1. Round(k) \in SUBSET Matches
    BY DEF Round
  <2> QED
    BY <1>6, <2>1, CascadeFacts
<1> HIDE DEF seeds
<1>9. \A f \in Matches :
        \/ inputs'[f] = inputs[f]
        \/ \E k \in RoundSizes :
             /\ f \in changed[k]
             /\ inputs'[f] = PlannedInputs(f, rows, rk, seeds[k], changed[k])
  <2> SUFFICES ASSUME NEW f \in Matches
               PROVE  \/ inputs'[f] = inputs[f]
                      \/ \E k \in RoundSizes :
                           /\ f \in changed[k]
                           /\ inputs'[f] = PlannedInputs(f, rows, rk, seeds[k], changed[k])
    OBVIOUS
  <2> DEFINE writers == {k \in RoundSizes : f \in changed[k]}
             last == Latest(writers)
  <2>1. inputs'[f] = IF writers = {} THEN inputs[f]
                     ELSE PlannedInputs(f, rows, rk, seeds[last], changed[last])
    BY <1>1
  <2>2. writers \in SUBSET Nat
    <3>1. \A k \in writers : k \in Int /\ f \in Int /\ 1 <= f /\ f < k
      BY <1>7, TreeType DEF Matches
    <3>2. \A k \in writers : k \in Nat
      BY <3>1
    <3> QED
      BY <3>2
  <2>3. writers # {} => last \in writers
    BY <2>2, LatestRound DEF Latest
  <2> QED
    BY <2>1, <2>3
<1>10. \A f \in Matches : inputs'[f] # inputs[f] => Untouched(match[f]) /\ Untouched(rows[f])
  BY <1>4, <1>7, <1>9
<1>11. InputsFit(rows, inputs')
  <2>1. inputs' \in [Matches -> [Slots -> TeamNodes \cup {NoTeam}]]
    <3>1. ASSUME NEW f \in Matches
          PROVE  inputs'[f] \in [Slots -> TeamNodes \cup {NoTeam}]
      <4>1. CASE inputs'[f] = inputs[f]
        BY <4>1 DEF BracketInv, TypeOK
      <4>2. ASSUME NEW k \in RoundSizes,
                   inputs'[f] = PlannedInputs(f, rows, rk, seeds[k], changed[k])
            PROVE  inputs'[f] \in [Slots -> TeamNodes \cup {NoTeam}]
        <5>1. \A slot \in Slots :
                PlannedInputs(f, rows, rk, seeds[k], changed[k])[slot]
                  \in TeamNodes \cup {NoTeam}
          BY <1>8, PlannedSlot DEF BracketInv
        <5> QED
          BY <4>2, <5>1 DEF PlannedInputs
      <4> QED
        BY <1>9, <4>1, <4>2
    <3>2. inputs' = [f \in Matches |-> inputs'[f]]
      BY <1>1
    <3> QED
      BY <3>1, <3>2
  <2>2. ASSUME NEW f \in Matches, NEW slot \in Slots, Feeder(f, slot) \in Matches,
               inputs'[f][slot] # NoTeam
        PROVE  /\ ~Untouched(rows[Feeder(f, slot)])
               /\ \E s \in Slots : inputs'[f][slot] = inputs[Feeder(f, slot)][s]
    <3> DEFINE g == Feeder(f, slot)
    <3>1. inputs[f][slot] # NoTeam =>
            ~Untouched(rows[g]) /\ \E s \in Slots : inputs[f][slot] = inputs[g][s]
      BY <1>4, <2>2, InvPointer DEF BracketInv, SlotComesFromFeeder
    <3>2. ASSUME NEW k \in RoundSizes,
                 inputs'[f] = PlannedInputs(f, rows, rk, seeds[k], changed[k])
          PROVE  \/ g \in seeds[k] /\ \E s \in Slots : inputs'[f][slot] = inputs[g][s]
                 \/ inputs'[f][slot] = inputs[f][slot]
      BY <1>8, <2>2, <3>2, PlannedSlot DEF BracketInv
    <3> QED
      BY <1>8, <1>9, <2>2, <3>1, <3>2
  <2>3. ASSUME NEW f \in Matches, ~Untouched(rows[f])
        PROVE  OpponentsKnown(f)
    BY <1>4, <2>3, InvPointer DEF BracketInv, StartedHasOpponents
  <2> QED
    BY <1>10, <2>1, <2>2, <2>3 DEF InputsFit
<1>12. BracketInv'
  BY <1>1, <1>6, <1>11, FittingKeepsInv
<1> QED
  BY <1>4, <1>10, <1>12

-----------------------------------------------------------------------------
(* The invariant is inductive.                                             *)

\* A new bracket: no match has started, and only first-round slots are filled.
LEMMA BracketInit == Init => BracketInv
<1> SUFFICES ASSUME Init PROVE BracketInv
  OBVIOUS
<1>1. ranking \in RankingRow /\ ranking.num_sets \in 1..MaxSets
  BY AcceptedIsRanking DEF Init, RankingRow
<1>2. ASSUME NEW m \in Matches
      PROVE  /\ match[m] \in MatchRow
             /\ PointerAligned(match[m], ranking.num_sets)
             /\ Untouched(match[m])
  <2>1. match[m] = NewMatch(ranking.num_sets)
    BY DEF Init
  <2>2. 1..ranking.num_sets \in SUBSET SetNumbers /\ 0 \in 0..MaxSets
    BY <1>1, MaxSetsAssumption DEF SetNumbers
  <2>3. [s \in SetNumbers |-> "Draw"] \in [SetNumbers -> Score]
    BY DEF Score
  <2> QED
    BY <1>1, <2>1, <2>2, <2>3, MaxSetsAssumption
    DEF NewMatch, MatchRow, PointerAligned, Untouched
<1>3. \A m \in Matches : NotStarted(match[m], ranking)
  BY <1>1, <1>2, NotStartedPointer
<1>4. \A m \in Matches, slot \in Slots :
        inputs[m][slot] =
          IF Feeder(m, slot) \in TeamNodes THEN Feeder(m, slot) ELSE NoTeam
  BY DEF Init
<1>5. \A m : m \in Matches => m \notin TeamNodes
  BY TreeType DEF Matches, TeamNodes
<1>6. TypeOK
  BY <1>1, <1>2 DEF Init, TypeOK
<1>7. SlotComesFromFeeder
  BY <1>4, <1>5 DEF SlotComesFromFeeder
<1>8. StartedHasOpponents
  BY <1>3 DEF StartedHasOpponents
<1> QED
  BY <1>2, <1>6, <1>7, <1>8 DEF BracketInv

\* Every request preserves the invariant and leaves the opponents of started matches.
LEMMA BracketStep ==
  ASSUME BracketInv, Next
  PROVE  /\ BracketInv'
         /\ \A f \in Matches : ~Untouched(match[f]) => inputs'[f] = inputs[f]
<1>1. /\ ranking \in RankingRow /\ ranking.num_sets \in 1..MaxSets
      /\ \A m \in Matches : /\ match[m] \in MatchRow
                            /\ PointerAligned(match[m], ranking.num_sets)
                            /\ Cardinality(match[m].rows) = ranking.num_sets
                            /\ NotStarted(match[m], ranking) <=> Untouched(match[m])
  BY InvPointer, AlignedCount DEF BracketInv, TypeOK
<1>2. ASSUME NEW m \in Matches, Start(m)
      PROVE  /\ BracketInv'
             /\ \A f \in Matches : ~Untouched(match[f]) => inputs'[f] = inputs[f]
  <2>1. /\ Untouched(match[m]) => OpponentsKnown(m)
        /\ MayStart(match[m], ranking.num_sets, ranking.play_all_sets)
        /\ ReconcileMatch(m, Started(match[m]))
    BY <1>1, <1>2 DEF Start
  <2>2. Moved(match[m], Started(match[m]), ranking.num_sets)
    BY <1>1, <2>1, StartedMoves
  <2>3. ~Untouched(Started(match[m]))
    BY <1>1 DEF Started, Untouched, MatchRow
  <2> QED
    BY <2>1, <2>2, <2>3, MatchCascade
<1>3. ASSUME NEW m \in Matches, End(m)
      PROVE  /\ BracketInv'
             /\ \A f \in Matches : ~Untouched(match[f]) => inputs'[f] = inputs[f]
  <2>1. MayEnd(match[m]) /\ ReconcileMatch(m, Ended(match[m]))
    BY <1>3 DEF End
  <2>2. Moved(match[m], Ended(match[m]), ranking.num_sets)
    BY <1>1, <2>1, EndedMoves
  <2>3. ~Untouched(match[m]) /\ ~Untouched(Ended(match[m]))
    BY <1>1, <2>1 DEF MayEnd, Ended, Untouched, MatchRow
  <2> QED
    BY <2>1, <2>2, <2>3, MatchCascade
<1>4. ASSUME NEW m \in Matches, Reopen(m)
      PROVE  /\ BracketInv'
             /\ \A f \in Matches : ~Untouched(match[f]) => inputs'[f] = inputs[f]
  <2>1. MayReopen(match[m]) /\ ReconcileMatch(m, Reopened(match[m]))
    BY <1>4 DEF Reopen
  <2>2. Moved(match[m], Reopened(match[m]), ranking.num_sets)
    BY <1>1, <2>1, ReopenedMoves
  <2>3. ~Untouched(match[m]) /\ ~Untouched(Reopened(match[m]))
    BY <1>1, <2>1 DEF MayReopen, Reopened, Untouched, MatchRow
  <2> QED
    BY <2>1, <2>2, <2>3, MatchCascade
<1>5. ASSUME NEW m \in Matches, Reset(m)
      PROVE  /\ BracketInv'
             /\ \A f \in Matches : ~Untouched(match[f]) => inputs'[f] = inputs[f]
  <2>1. ReconcileMatch(m, WithoutResult(match[m]))
    BY <1>5 DEF Reset
  <2>2. Moved(match[m], WithoutResult(match[m]), ranking.num_sets)
    BY <1>1, WithoutResultMoves
  <2>3. Untouched(WithoutResult(match[m]))
    BY <1>1 DEF WithoutResult, Untouched, MatchRow
  <2>4. \A f \in Matches, slot \in Slots : m = Feeder(f, slot) => Untouched(match[f])
    BY <1>1, <1>5, FeederFollows DEF Reset
  <2> QED
    BY <2>1, <2>2, <2>3, <2>4, MatchCascade
<1>6. ASSUME NEW m \in Matches, ScoreEdit(m)
      PROVE  /\ BracketInv'
             /\ \A f \in Matches : ~Untouched(match[f]) => inputs'[f] = inputs[f]
  <2>1. PICK set \in match[m].rows \cap ScoredSets, side \in ScoreInputs :
          ReconcileMatch(m, Scored(match[m], set, side))
    BY <1>6 DEF ScoreEdit
  <2>2. side \in Score
    BY ScoreInputsAssumption
  <2>3. Moved(match[m], Scored(match[m], set, side), ranking.num_sets)
    BY <1>1, <2>2, ScoredMoves
  <2>4. Untouched(Scored(match[m], set, side)) <=> Untouched(match[m])
    BY <1>1 DEF Scored, Untouched, MatchRow
  <2> QED
    BY <2>1, <2>3, <2>4, MatchCascade
<1>7. ASSUME EditRanking
      PROVE  /\ BracketInv'
             /\ \A f \in Matches : ~Untouched(match[f]) => inputs'[f] = inputs[f]
  <2> DEFINE before(body) ==
               [m \in Matches |-> Resized(match[m], ranking.num_sets, body.num_sets)]
  <2>1. PICK body \in AcceptedRankings : ReconcileStageItem(before(body), body)
    BY <1>7 DEF EditRanking
  <2>2. body \in RankingRow /\ body.num_sets \in 1..MaxSets
    BY AcceptedIsRanking DEF RankingRow
  <2>3. \A f \in Matches :
          before(body)[f] = Resized(match[f], ranking.num_sets, body.num_sets)
    OBVIOUS
  <2> HIDE DEF before
  <2>4. \A f \in Matches : /\ before(body)[f] \in MatchRow
                           /\ PointerAligned(before(body)[f], body.num_sets)
                           /\ Untouched(before(body)[f]) <=> Untouched(match[f])
    BY <1>1, <2>2, <2>3, ResizeKeepsUntouched
  <2> QED
    BY <2>1, <2>2, <2>4, StageItemCascade
<1>8. ASSUME ToggleTeam
      PROVE  /\ BracketInv'
             /\ \A f \in Matches : ~Untouched(match[f]) => inputs'[f] = inputs[f]
  BY <1>1, <1>8, StageItemCascade DEF ToggleTeam
<1> QED
  BY <1>2, <1>3, <1>4, <1>5, <1>6, <1>7, <1>8 DEF Next, Verb

\* What the theorems below rest on.
LEMMA BracketInvariant == Spec => []BracketInv
<1>1. BracketInv /\ [Next]_vars => BracketInv'
  <2>1. ASSUME BracketInv, UNCHANGED vars
        PROVE  BracketInv'
    BY <2>1 DEF vars, BracketInv, TypeOK, SlotComesFromFeeder, StartedHasOpponents,
                OpponentsKnown
  <2> QED
    BY <2>1, BracketStep
<1> QED
  BY <1>1, BracketInit, PTL DEF Spec

-----------------------------------------------------------------------------
(* Nobody plays twice in a round.  A team in a slot is in the feeder as    *)
(* well, and so on down to its own leaf; two paths to one leaf through the *)
(* same level are one path.  The argument goes from the leaves up, along   *)
(* the numbers of the heap, and needs no property of powers of two.        *)

\* A slot that no match feeds keeps the team it was built with.
FirstRoundKeepsTeams ==
  \A m \in Matches, slot \in Slots :
    Feeder(m, slot) \notin Matches => inputs[m][slot] = Feeder(m, slot)

\* No plan writes another team into such a slot: a cascade only ever looks at matches.
LEMMA PlansKeepLeaves ==
  ASSUME NEW rows, NEW rk, NEW seeds \in SUBSET Matches, NEW cleared \in SUBSET Matches,
         NEW m \in Matches, NEW slot \in Slots, Feeder(m, slot) \notin Matches
  PROVE  PlannedInputs(m, rows, rk, seeds, cleared)[slot] = inputs[m][slot]
  BY DEF PlannedInputs

\* A reconciliation, of one match or of the whole bracket, leaves the slots of the first
\* round as they were drawn.
LEMMA ReconciliationsKeepLeaves ==
  ASSUME BracketInv, FirstRoundKeepsTeams,
         \/ \E m \in Matches : \E after : ReconcileMatch(m, after)
         \/ \E before, rk : ReconcileStageItem(before, rk)
  PROVE  FirstRoundKeepsTeams'
<1>1. SUFFICES \A m \in Matches, slot \in Slots :
        Feeder(m, slot) \notin Matches => inputs'[m][slot] = inputs[m][slot]
  BY DEF FirstRoundKeepsTeams
<1>2. CASE \E m \in Matches : \E after : ReconcileMatch(m, after)
  <2>1. PICK m \in Matches : \E after : ReconcileMatch(m, after)
    BY <1>2
  <2>4. PICK after : ReconcileMatch(m, after)
    BY <2>1
  <2> DEFINE rows == Synced([match EXCEPT ![m] = after], ranking)
             seeds == CompletedIn({m}, rows, ranking)
             unsettled == {m} \ seeds
  <2>2. PICK changed \in SUBSET Matches :
          inputs' = [f \in Matches |->
             IF f \in changed
             THEN PlannedInputs(f, rows, ranking, seeds, unsettled \cup changed)
             ELSE inputs[f]]
    <3>1. \A k \in RoundSizes : SubsequentRounds(k) \subseteq Matches
      BY DEF SubsequentRounds
    <3> QED
      BY <2>4, <3>1 DEF ReconcileMatch
  <2>3. seeds \in SUBSET Matches /\ unsettled \cup changed \in SUBSET Matches
    BY DEF CompletedIn
  <2> HIDE DEF rows, seeds, unsettled
  <2> QED
    BY <2>2, <2>3, PlansKeepLeaves
<1>3. CASE \E before, rk : ReconcileStageItem(before, rk)
  <2>1. PICK before, rk : ReconcileStageItem(before, rk)
    BY <1>3
  <2> DEFINE rows == Synced(before, rk)
             seeds == [k \in RoundSizes |-> CompletedIn(Round(k), rows, rk)]
             cascades == [k \in RoundSizes |->
               {c \in SUBSET SubsequentRounds(k) : IsCascade(c, k, rows, rk, seeds[k], {})}]
             writers(changed, f) == {k \in RoundSizes : f \in changed[k]}
  <2>2. PICK changed \in [RoundSizes -> UNION {cascades[k] : k \in RoundSizes}] :
        /\ \A k \in RoundSizes : changed[k] \in cascades[k]
        /\ inputs' = [f \in Matches |->
             IF writers(changed, f) = {} THEN inputs[f]
             ELSE PlannedInputs(f, rows, rk, seeds[Latest(writers(changed, f))],
                                changed[Latest(writers(changed, f))])]
    BY <2>1 DEF ReconcileStageItem
  <2>3. \A k \in RoundSizes :
          seeds[k] \in SUBSET Matches /\ changed[k] \in SUBSET Matches
    BY <2>2 DEF CompletedIn, Round, SubsequentRounds
  <2>4. ASSUME NEW f \in Matches, writers(changed, f) # {}
        PROVE  Latest(writers(changed, f)) \in RoundSizes
    <3>1. writers(changed, f) \in SUBSET Nat
      <4>1. \A k \in RoundSizes : k \in Int
        BY TreeType
      <4>2. ASSUME NEW k \in RoundSizes, f \in changed[k]
            PROVE  k \in Nat
        <5>1. f \in SubsequentRounds(k)
          BY <2>2, <4>2
        <5> QED
          BY <5>1, <4>1, TreeType DEF SubsequentRounds, Matches
      <4> QED
        BY <4>2
    <3>2. \E k \in writers(changed, f) : \A j \in writers(changed, f) : k <= j
      BY <2>4, <3>1, LatestRound
    <3>3. Latest(writers(changed, f)) \in writers(changed, f)
      BY <3>2 DEF Latest
    <3> QED
      BY <3>3
  <2> HIDE DEF rows, seeds, cascades, writers
  <2> QED
    BY <2>2, <2>3, <2>4, PlansKeepLeaves
<1> QED
  BY <1>2, <1>3

\* No request ever changes the drawing of the first round.
LEMMA LeavesInvariant == Spec => []FirstRoundKeepsTeams
<1>1. Init => FirstRoundKeepsTeams
  <2>1. SUFFICES ASSUME Init, NEW m \in Matches, NEW slot \in Slots,
                        Feeder(m, slot) \notin Matches
                 PROVE  inputs[m][slot] = Feeder(m, slot)
    BY DEF FirstRoundKeepsTeams
  <2>2. Feeder(m, slot) \in TeamNodes
    BY <2>1, TreeType DEF Feeder, Matches, TeamNodes, Slots
  <2> QED
    BY <2>1, <2>2 DEF Init
<1>2. BracketInv /\ FirstRoundKeepsTeams /\ [Next]_vars => FirstRoundKeepsTeams'
  <2>1. ASSUME BracketInv, FirstRoundKeepsTeams, Next
        PROVE  FirstRoundKeepsTeams'
    <3>1. \/ \E m \in Matches : \E after : ReconcileMatch(m, after)
          \/ \E before, rk : ReconcileStageItem(before, rk)
      BY <2>1 DEF Next, Verb, Start, End, Reopen, Reset, ScoreEdit, EditRanking, ToggleTeam
    <3> QED
      BY <2>1, <3>1, ReconciliationsKeepLeaves
  <2>2. ASSUME FirstRoundKeepsTeams, UNCHANGED vars
        PROVE  FirstRoundKeepsTeams'
    BY <2>2 DEF vars, FirstRoundKeepsTeams
  <2> QED
    BY <2>1, <2>2
<1> QED
  BY <1>1, <1>2, BracketInvariant, PTL DEF Spec

Nodes == 1..(2 * Teams - 1)

\* A team is at its own leaf and in the matches that have it in a slot.
At(node, team) ==
  \/ node \notin Matches /\ node = team
  \/ node \in Matches /\ \E slot \in Slots : inputs[node][slot] = team

\* Where a team is, there it came from.
LEMMA TeamFromBelow ==
  ASSUME BracketInv, FirstRoundKeepsTeams, NEW m \in Matches, NEW slot \in Slots,
         inputs[m][slot] # NoTeam
  PROVE  Feeder(m, slot) \in Nodes /\ At(Feeder(m, slot), inputs[m][slot])
<1>1. Feeder(m, slot) \in Nodes
  BY TreeType DEF Feeder, Slots, Matches, Nodes
<1>2. CASE Feeder(m, slot) \in Matches
  BY <1>1, <1>2 DEF BracketInv, SlotComesFromFeeder, At
<1>3. CASE Feeder(m, slot) \notin Matches
  BY <1>1, <1>3 DEF FirstRoundKeepsTeams, At
<1> QED
  BY <1>1, <1>2, <1>3

\* A team is never above a number greater than its leaf.
LEMMA LeafIsBelow ==
  ASSUME BracketInv, FirstRoundKeepsTeams, NEW node \in Nodes, NEW team,
         team # NoTeam, At(node, team)
  PROVE  team \in Int /\ node <= team
<1> DEFINE wrong == {n \in Nat : \E f \in Nodes :
              n = 2 * Teams - f /\ At(f, team) /\ ~ (team \in Int /\ f <= team)}
<1>1. SUFFICES ASSUME wrong # {} PROVE FALSE
  <2>1. 2 * Teams - node \in Nat
    BY TreeType DEF Nodes
  <2> QED
    BY <1>1, <2>1
<1>2. PICK n \in wrong : \A o \in wrong : n <= o
  BY <1>1, LatestRound
<1>3. PICK f \in Nodes : n = 2 * Teams - f /\ At(f, team) /\ ~ (team \in Int /\ f <= team)
  BY <1>2
<1>4. f \in Matches
  BY <1>3 DEF At, Nodes
<1>5. PICK slot \in Slots : inputs[f][slot] = team
  BY <1>3, <1>4 DEF At
<1>6. Feeder(f, slot) \in Nodes /\ At(Feeder(f, slot), team)
  BY <1>4, <1>5, TeamFromBelow
<1>7. f < Feeder(f, slot)
  BY <1>4, TreeType DEF Feeder, Slots, Matches
<1>8. CASE team \in Int /\ Feeder(f, slot) <= team
  BY <1>3, <1>6, <1>7, <1>8, TreeType DEF Nodes
<1>9. CASE ~ (team \in Int /\ Feeder(f, slot) <= team)
  <2>1. 2 * Teams - Feeder(f, slot) \in Nat /\ 2 * Teams - Feeder(f, slot) < n
    BY <1>3, <1>6, <1>7, TreeType DEF Nodes
  <2>2. 2 * Teams - Feeder(f, slot) \in wrong
    BY <1>6, <1>9, <2>1
  <2>3. n <= 2 * Teams - Feeder(f, slot)
    BY <1>2, <2>2
  <2> QED
    BY <2>1, <2>3, TreeType DEF Nodes
<1> QED
  BY <1>8, <1>9

\* On each level of the heap a team is in one place.
LEMMA OncePerLevel ==
  ASSUME BracketInv, FirstRoundKeepsTeams, NEW k \in Nat, NEW f \in Nodes, NEW g \in Nodes,
         k <= f, f < 2 * k, k <= g, g < 2 * k,
         NEW team, team # NoTeam, At(f, team), At(g, team)
  PROVE  f = g
<1> DEFINE twice(x) == \E h, i \in Nodes : /\ x <= h /\ h < 2 * x
                                          /\ x <= i /\ i < 2 * x
                                          /\ At(h, team) /\ At(i, team) /\ h # i
           wrong == {n \in Nat : \E x \in Nat : n = 2 * Teams - x /\ twice(x)}
<1>1. SUFFICES ASSUME wrong # {} PROVE FALSE
  <2>1. 2 * Teams - k \in Nat
    BY TreeType DEF Nodes
  <2>2. SUFFICES ASSUME f # g PROVE FALSE
    OBVIOUS
  <2>3. twice(k)
    BY <2>2
  <2> QED
    BY <1>1, <2>1, <2>3
<1>2. PICK n \in wrong : \A o \in wrong : n <= o
  BY <1>1, LatestRound
<1>3. PICK x \in Nat : n = 2 * Teams - x /\ twice(x)
  BY <1>2
<1>4. PICK h \in Nodes, i \in Nodes : /\ x <= h /\ h < 2 * x /\ x <= i /\ i < 2 * x
                                     /\ At(h, team) /\ At(i, team) /\ h # i
  BY <1>3
<1>5. CASE h \notin Matches /\ i \notin Matches
  BY <1>4, <1>5 DEF At
<1>6. ASSUME NEW p \in Nodes, NEW q \in Nodes, p \in Matches, q \notin Matches,
             x <= p, q < 2 * x, At(p, team), At(q, team)
      PROVE  FALSE
  <2>1. PICK slot \in Slots : inputs[p][slot] = team
    BY <1>6 DEF At
  <2>2. Feeder(p, slot) \in Nodes /\ At(Feeder(p, slot), team)
    BY <1>6, <2>1, TeamFromBelow
  <2>3. Feeder(p, slot) <= team /\ team = q
    BY <1>6, <2>2, LeafIsBelow DEF At
  <2> QED
    BY <1>6, <2>2, <2>3, TreeType DEF Feeder, Slots, Matches, Nodes
<1>7. CASE h \in Matches /\ i \in Matches
  <2>1. PICK s \in Slots : inputs[h][s] = team
    BY <1>4, <1>7 DEF At
  <2>2. PICK t \in Slots : inputs[i][t] = team
    BY <1>4, <1>7 DEF At
  <2>3. /\ Feeder(h, s) \in Nodes /\ At(Feeder(h, s), team)
        /\ Feeder(i, t) \in Nodes /\ At(Feeder(i, t), team)
    BY <1>7, <2>1, <2>2, TeamFromBelow
  <2>4. /\ 2 * x <= Feeder(h, s) /\ Feeder(h, s) < 2 * (2 * x)
        /\ 2 * x <= Feeder(i, t) /\ Feeder(i, t) < 2 * (2 * x)
        /\ Feeder(h, s) # Feeder(i, t)
    BY <1>4, <1>7, TreeType DEF Feeder, Slots, Matches
  <2>5. 2 * Teams - 2 * x \in Nat /\ 2 * Teams - 2 * x < n
    BY <1>3, <1>4, <2>3, <2>4, TreeType DEF Nodes
  <2>6. twice(2 * x)
    BY <2>3, <2>4
  <2>7. 2 * Teams - 2 * x \in wrong
    BY <2>5, <2>6
  <2>8. n <= 2 * Teams - 2 * x
    BY <1>2, <2>7
  <2> QED
    BY <2>5, <2>8, <1>3, TreeType
<1> QED
  BY <1>4, <1>5, <1>6, <1>7

-----------------------------------------------------------------------------
(* What a request tells the next match.                                    *)

\* completed_at is in line with the state of every match, since every reconciliation
\* stamps all of them: a verb changes the row of its own match only.
AllInLine == \A m \in Matches : SyncCompletedAt(match[m], ranking.play_all_sets) = match[m]

\* A second stamp of completed_at writes what the first one wrote.
LEMMA SyncTwice ==
  ASSUME NEW row, NEW p, SyncCompletedAt(row, p) \in MatchRow
  PROVE  SyncCompletedAt(SyncCompletedAt(row, p), p) = SyncCompletedAt(row, p)
<1> DEFINE synced == SyncCompletedAt(row, p)
<1>1. synced \in MatchRow /\ synced = [row EXCEPT !.completed_at =
                                            DeriveMatchState(row, p) = "COMPLETED"]
  BY DEF SyncCompletedAt
<1>2. DOMAIN row = {"rows", "score", "completed_set_count", "current_set_in_progress",
                    "completed_at"}
  <2>1. DOMAIN synced = DOMAIN row
    BY <1>1
  <2>2. DOMAIN synced = {"rows", "score", "completed_set_count", "current_set_in_progress",
                    "completed_at"}
    BY <1>1 DEF MatchRow
  <2> QED
    BY <2>1, <2>2
<1>3. /\ synced.rows = row.rows /\ synced.score = row.score
      /\ synced.completed_set_count = row.completed_set_count
      /\ synced.current_set_in_progress = row.current_set_in_progress
      /\ synced.completed_at = (DeriveMatchState(row, p) = "COMPLETED")
  BY <1>1, <1>2
<1> HIDE DEF synced
<1>4. DeriveMatchState(synced, p) = DeriveMatchState(row, p)
  BY <1>3 DEF DeriveMatchState, IsMatchDecided, SetWins, SetState
<1>5. SyncCompletedAt(synced, p) = [synced EXCEPT !.completed_at = synced.completed_at]
  BY <1>3, <1>4 DEF SyncCompletedAt
<1>6. SyncCompletedAt(synced, p) = synced
  BY <1>1, <1>5 DEF MatchRow
<1> QED
  BY <1>6 DEF synced

\* Whatever is written, all matches are stamped, so they are in line afterwards.
LEMMA InLineInvariant == Spec => []AllInLine
<1>1. Init => AllInLine
  <2>1. SUFFICES ASSUME Init, NEW m \in Matches
                 PROVE  SyncCompletedAt(match[m], ranking.play_all_sets) = match[m]
    BY DEF AllInLine
  <2>2. match[m] = NewMatch(ranking.num_sets) /\ ranking.num_sets \in 1..MaxSets
    BY <2>1, AcceptedIsRanking DEF Init, RankingRow
  <2>3. match[m] \in MatchRow /\ match[m].completed_at = FALSE
    <3>1. \A n : NewMatch(n).completed_at = FALSE
      BY DEF NewMatch
    <3>2. match \in [Matches -> MatchRow]
      BY <2>1, BracketInit DEF BracketInv, TypeOK
    <3>3. match[m].completed_at = FALSE
      BY <2>2, <3>1
    <3> QED
      BY <3>2, <3>3
  <2>4. DeriveMatchState(match[m], ranking.play_all_sets) # "COMPLETED"
    BY <2>2 DEF NewMatch, DeriveMatchState, SetState
  <2>5. SyncCompletedAt(match[m], ranking.play_all_sets) =
          [match[m] EXCEPT !.completed_at = match[m].completed_at]
    BY <2>3, <2>4 DEF SyncCompletedAt
  <2> QED
    BY <2>3, <2>5 DEF MatchRow
<1>2. BracketInv /\ BracketInv' /\ AllInLine /\ [Next]_vars => AllInLine'
  <2>1. ASSUME BracketInv, BracketInv', Next
        PROVE  AllInLine'
    <3>1. \/ \E m \in Matches : \E after : ReconcileMatch(m, after)
          \/ \E before, rk : ReconcileStageItem(before, rk)
      BY <2>1 DEF Next, Verb, Start, End, Reopen, Reset, ScoreEdit, EditRanking, ToggleTeam
    <3>2. \E rows : match' = Synced(rows, ranking')
      BY <3>1 DEF ReconcileMatch, ReconcileStageItem
    <3>3. PICK rows : match' = Synced(rows, ranking')
      BY <3>2
    <3>4. SUFFICES ASSUME NEW m \in Matches
                   PROVE  SyncCompletedAt(match'[m], ranking'.play_all_sets) = match'[m]
      BY DEF AllInLine
    <3>5. /\ match'[m] = SyncCompletedAt(rows[m], ranking'.play_all_sets)
          /\ match'[m] \in MatchRow
      BY <2>1, <3>3 DEF Synced, BracketInv, TypeOK
    <3> QED
      BY <3>5, SyncTwice
  <2>2. ASSUME AllInLine, UNCHANGED vars
        PROVE  AllInLine'
    BY <2>2 DEF vars, AllInLine
  <2> QED
    BY <2>1, <2>2
<1> QED
  BY <1>1, <1>2, BracketInvariant, PTL DEF Spec

\* The match a reconciled match feeds comes out in line with it.
LEMMA ReconciledFeeds ==
  ASSUME BracketInv, BracketInv', NEW m \in Matches, NEW after, ReconcileMatch(m, after),
         NEW f \in Matches, NEW slot \in Slots, Feeder(f, slot) = m
  PROVE  SlotInLine(f, slot)'
<1> DEFINE rows == Synced([match EXCEPT ![m] = after], ranking)
           seeds == CompletedIn({m}, rows, ranking)
           unsettled == {m} \ seeds
           planned(changed) == PlannedInputs(f, rows, ranking, seeds, unsettled \cup changed)
           winner == Winner(rows[m], inputs[m], ranking)
           written(k, changed) ==
             /\ m \in Round(k)
             /\ IsCascade(changed, k, rows, ranking, seeds, unsettled)
             /\ match' = rows
             /\ inputs' = [x \in Matches |->
                  IF x \in changed
                  THEN PlannedInputs(x, rows, ranking, seeds, unsettled \cup changed)
                  ELSE inputs[x]]
             /\ ranking' = ranking
<1>1. PICK k \in RoundSizes : \E changed \in SUBSET SubsequentRounds(k) : written(k, changed)
  BY DEF ReconcileMatch
<1>2. PICK changed \in SUBSET SubsequentRounds(k) : written(k, changed)
  BY <1>1
<1>3. f \in SubsequentRounds(k) /\ m \notin changed
  <2>1. k \in Int /\ f \in Int /\ m \in Int /\ m = 2 * f + slot /\ slot \in {0, 1}
    BY TreeType DEF Feeder, Slots, Matches
  <2>2. k <= m /\ m < 2 * k
    BY <1>2 DEF Round
  <2>3. f < k /\ ~ (m < k)
    BY <2>1, <2>2
  <2> QED
    BY <2>3 DEF SubsequentRounds
<1>4. inputs'[m] = inputs[m] /\ match'[m] = rows[m]
  BY <1>2, <1>3
<1>5. SUFFICES ASSUME NotStarted(rows[f], ranking)
               PROVE  \/ inputs'[f][slot] = winner
                      \/ State(rows[m], ranking) = "COMPLETED" /\ WinningSide(rows[m]) = "Draw"
  BY <1>2, <1>4 DEF SlotInLine
<1>6. seeds = (IF State(rows[m], ranking) = "COMPLETED" THEN {m} ELSE {})
  BY DEF CompletedIn
<1> HIDE DEF rows, seeds
<1>7. inputs'[f] = planned(changed)
  BY <1>2, <1>3, <1>5 DEF IsCascade
<1>8. planned(changed)[slot] =
        IF m \in unsettled \cup changed THEN NoTeam
        ELSE IF m \in seeds /\ winner # NoTeam THEN winner ELSE inputs[f][slot]
  BY DEF PlannedInputs
<1>9. CASE State(rows[m], ranking) = "COMPLETED"
  <2>1. winner # NoTeam => inputs'[f][slot] = winner
    BY <1>3, <1>6, <1>7, <1>8, <1>9
  <2>2. winner = NoTeam => WinningSide(rows[m]) = "Draw"
    <3>1. ~NotStarted(match'[m], ranking')
      BY <1>2, <1>9 DEF NotStarted
    <3>2. \A s \in Slots : inputs'[m][s] # NoTeam
      BY <3>1 DEF BracketInv, StartedHasOpponents, OpponentsKnown
    <3>3. inputs[m][0] # NoTeam /\ inputs[m][1] # NoTeam
      BY <1>4, <3>2 DEF Slots
    <3> QED
      BY <1>9, <3>3 DEF Winner, WinningSide
  <2> QED
    BY <1>9, <2>1, <2>2
<1>10. CASE State(rows[m], ranking) # "COMPLETED"
  <2>1. winner = NoTeam
    BY <1>10 DEF Winner
  <2>2. inputs'[f][slot] = NoTeam
    BY <1>6, <1>7, <1>8, <1>10
  <2> QED
    BY <2>1, <2>2
<1> QED
  BY <1>9, <1>10

-----------------------------------------------------------------------------
(* What saving another ranking brings into the matches that wait.          *)

\* A set with one more element has twice as many subsets.
LEMMA TwiceThePower ==
  ASSUME NEW n \in Nat
  PROVE  2^(n + 1) = 2 * 2^n
<1> DEFINE A == SUBSET (1..n)
           B == {T \cup {n + 1} : T \in A}
           f == [T \in A |-> T \cup {n + 1}]
<1>1. /\ IsFiniteSet(1..n) /\ Cardinality(1..n) = n
      /\ IsFiniteSet(1..(n + 1)) /\ Cardinality(1..(n + 1)) = n + 1
  BY FS_Interval
<1>2. /\ IsFiniteSet(A) /\ Cardinality(A) = 2^n
      /\ Cardinality(SUBSET (1..(n + 1))) = 2^(n + 1)
  BY <1>1, FS_SUBSET
<1>3. SUBSET (1..(n + 1)) = A \cup B
  <2>1. ASSUME NEW T \in SUBSET (1..(n + 1)), n + 1 \notin T
        PROVE  T \in A
    BY <2>1
  <2>2. ASSUME NEW T \in SUBSET (1..(n + 1)), n + 1 \in T
        PROVE  T \in B
    <3>1. T \ {n + 1} \in A /\ T = (T \ {n + 1}) \cup {n + 1}
      BY <2>2
    <3> QED
      BY <3>1
  <2>3. A \subseteq SUBSET (1..(n + 1))
    OBVIOUS
  <2>4. ASSUME NEW T \in A
        PROVE  T \cup {n + 1} \in SUBSET (1..(n + 1))
    <3>1. T \subseteq 1..(n + 1) /\ n + 1 \in 1..(n + 1)
      BY <2>3
    <3> QED
      BY <3>1
  <2>5. B \subseteq SUBSET (1..(n + 1))
    <3>1. \A U \in B : \E T \in A : U = T \cup {n + 1}
      OBVIOUS
    <3> HIDE DEF A, B
    <3> QED
      BY <2>4, <3>1, Zenon
  <2> HIDE DEF A, B
  <2> QED
    BY <2>1, <2>2, <2>3, <2>5
<1>4. A \cap B = {}
  OBVIOUS
<1>5. ExistsBijection(A, B)
  <2>1. f \in [A -> B]
    OBVIOUS
  <2>2. ASSUME NEW S \in A, NEW T \in A, f[S] = f[T]
        PROVE  S = T
    <3>1. n + 1 \notin S /\ n + 1 \notin T
      OBVIOUS
    <3> QED
      BY <2>2, <3>1
  <2>3. \A T \in B : \E S \in A : f[S] = T
    OBVIOUS
  <2> QED
    BY <2>1, <2>2, <2>3 DEF ExistsBijection, Bijection, Injection, Surjection, IsInjective
<1>6. IsFiniteSet(B) /\ Cardinality(B) = 2^n
  BY <1>2, <1>5, FS_Bijection
<1> HIDE DEF A, B
<1>7. Cardinality(A \cup B) = 2^n + 2^n - Cardinality(A \cap B)
  BY <1>2, <1>6, FS_Union
<1>8. Cardinality(A \cap B) = 0 /\ 2^n \in Int
  BY <1>4, FS_EmptySet
<1> QED
  BY <1>2, <1>3, <1>7, <1>8

\* Every match is in a round of the bracket.
LEMMA InSomeRound ==
  ASSUME NEW m \in Matches
  PROVE  \E k \in RoundSizes : m \in Round(k)
<1> DEFINE above == {n \in Nat : m < 2^n}
<1>1. NumRounds \in above
  BY NumRoundsAssumption, TreeType DEF Teams, Matches
<1>2. PICK n \in above : \A o \in above : n <= o
  BY <1>1, LatestRound
<1>3. m \in Int /\ 1 <= m /\ 2^0 = 1
  BY TreeType DEF Matches
<1>4. n \in Nat /\ m < 2^n /\ n # 0
  <2>1. n \in Nat /\ m < 2^n
    BY <1>2
  <2>2. n = 0 => 2^n = 1
    BY <1>3
  <2>3. n # 0
    BY <1>3, <2>1, <2>2
  <2> QED
    BY <2>1, <2>3
<1>5. n - 1 \in Nat /\ n - 1 \in 0..(NumRounds - 1)
  BY <1>1, <1>2, <1>4, NumRoundsAssumption
<1>6. ~ (m < 2^(n - 1)) /\ 2^(n - 1) \in Int
  <2>1. n - 1 \notin above
    BY <1>2, <1>4, <1>5
  <2> QED
    BY <1>5, <2>1
<1>7. 2^n = 2 * 2^(n - 1)
  <2>1. 2^((n - 1) + 1) = 2 * 2^(n - 1)
    BY <1>5, TwiceThePower
  <2>2. (n - 1) + 1 = n
    BY <1>4
  <2> QED
    BY <2>1, <2>2
<1>8. m \in Round(2^(n - 1))
  BY <1>3, <1>4, <1>6, <1>7 DEF Round
<1> QED
  BY <1>5, <1>8 DEF RoundSizes

\* A plan that reaches f and is not written before that of the feeder's own round is the
\* plan of that round: the later ones lie behind f.
LEMMA LastPlanHasFeeder ==
  ASSUME NEW f \in Matches, NEW slot \in Slots, NEW g \in Matches, Feeder(f, slot) = g,
         NEW k \in RoundSizes, g \in Round(k),
         NEW j \in RoundSizes, f \in SubsequentRounds(j), j <= k
  PROVE  g \in Round(j)
<1>1. f \in Int /\ g \in Int /\ j \in Int /\ k \in Int /\ slot \in {0, 1} /\ g = 2 * f + slot
  BY TreeType DEF Feeder, Slots, Matches
<1>2. f < j /\ k <= g
  BY DEF Round, SubsequentRounds
<1>3. j <= g /\ g < 2 * j
  BY <1>1, <1>2
<1> QED
  BY <1>3 DEF Round

\* The whole stage item reconciled, a decided match has sent its winner on: the plan
\* of its own round sees it as a seed, and no plan written later reaches its follower.
LEMMA StageItemFeeds ==
  ASSUME BracketInv, BracketInv', NEW before, NEW rk, ReconcileStageItem(before, rk),
         NEW f \in Matches, NEW slot \in Slots, NEW g \in Matches, Feeder(f, slot) = g,
         State(match'[g], ranking') = "COMPLETED"
  PROVE  SlotInLine(f, slot)'
<1> DEFINE rows == Synced(before, rk)
           seeds == [k \in RoundSizes |-> CompletedIn(Round(k), rows, rk)]
           cascades == [k \in RoundSizes |->
             {c \in SUBSET SubsequentRounds(k) : IsCascade(c, k, rows, rk, seeds[k], {})}]
           writers(changed, x) == {k \in RoundSizes : x \in changed[k]}
           winner == Winner(rows[g], inputs[g], rk)
<1>1. PICK changed \in [RoundSizes -> UNION {cascades[k] : k \in RoundSizes}] :
      /\ \A k \in RoundSizes : changed[k] \in cascades[k]
      /\ ranking' = rk
      /\ match' = rows
      /\ inputs' = [x \in Matches |->
           IF writers(changed, x) = {} THEN inputs[x]
           ELSE PlannedInputs(x, rows, rk, seeds[Latest(writers(changed, x))],
                              changed[Latest(writers(changed, x))])]
  BY DEF ReconcileStageItem
<1> DEFINE plan(k) == PlannedInputs(f, rows, rk, seeds[k], changed[k])
<1>2. \A k \in RoundSizes : /\ changed[k] \in SUBSET SubsequentRounds(k)
                           /\ IsCascade(changed[k], k, rows, rk, seeds[k], {})
  BY <1>1
<1>3. \A k \in RoundSizes : seeds[k] = {m \in Round(k) : State(rows[m], rk) = "COMPLETED"}
  BY DEF CompletedIn
<1>4. State(rows[g], rk) = "COMPLETED"
  BY <1>1
<1>5. SUFFICES ASSUME NotStarted(rows[f], rk)
               PROVE  \/ inputs'[f][slot] = Winner(rows[g], inputs'[g], rk)
                      \/ WinningSide(rows[g]) = "Draw"
  BY <1>1, <1>4 DEF SlotInLine
<1> HIDE DEF rows, seeds, cascades
<1>6. \A k \in RoundSizes : g \notin changed[k]
  BY <1>2, <1>4 DEF IsCascade, NotStarted
<1>7. inputs'[g] = inputs[g]
  <2>1. writers(changed, g) = {}
    BY <1>6
  <2> QED
    BY <1>1, <2>1
<1>8. CASE winner = NoTeam
  <2>1. ~NotStarted(match'[g], ranking')
    BY <1>1, <1>4 DEF NotStarted
  <2>2. \A s \in Slots : inputs'[g][s] # NoTeam
    BY <2>1 DEF BracketInv, StartedHasOpponents, OpponentsKnown
  <2>3. inputs[g][0] # NoTeam /\ inputs[g][1] # NoTeam
    BY <1>7, <2>2 DEF Slots
  <2> QED
    BY <1>4, <1>8, <2>3 DEF Winner, WinningSide
<1>9. CASE winner # NoTeam
  <2>1. \A k \in RoundSizes : plan(k)[slot] = IF g \in seeds[k] THEN winner ELSE inputs[f][slot]
    BY <1>6, <1>9 DEF PlannedInputs
  <2>2. PICK k \in RoundSizes : g \in Round(k)
    BY InSomeRound
  <2>3. g \in seeds[k]
    BY <1>3, <1>4, <2>2
  <2>4. f \in SubsequentRounds(k)
    <3>1. k \in Int /\ f \in Int /\ g \in Int /\ g = 2 * f + slot /\ slot \in {0, 1}
      BY TreeType DEF Feeder, Slots, Matches
    <3>2. g < 2 * k
      BY <2>2 DEF Round
    <3>3. f < k
      BY <3>1, <3>2
    <3> QED
      BY <3>3 DEF SubsequentRounds
  <2>5. f \notin changed[k] => inputs[f][slot] = winner
    <3>1. f \notin changed[k] => plan(k) = inputs[f]
      BY <1>2, <1>5, <2>4 DEF IsCascade
    <3> QED
      BY <2>1, <2>3, <3>1
  <2>6. CASE writers(changed, f) = {}
    <3>1. inputs'[f] = inputs[f]
      BY <1>1, <2>6
    <3> QED
      BY <1>7, <2>5, <2>6, <3>1
  <2>7. CASE writers(changed, f) # {}
    <3> DEFINE last == Latest(writers(changed, f))
    <3>1. last \in writers(changed, f) /\ \A j \in writers(changed, f) : last <= j
      <4>1. writers(changed, f) \in SUBSET Nat
        <5>1. ASSUME NEW j \in RoundSizes, f \in changed[j]
              PROVE  j \in Nat
          BY <1>2, <5>1, TreeType DEF SubsequentRounds, Matches
        <5> QED
          BY <5>1
      <4>2. \E j \in writers(changed, f) : \A i \in writers(changed, f) : j <= i
        BY <2>7, <4>1, LatestRound
      <4> QED
        BY <4>2 DEF Latest
    <3>2. inputs'[f] = plan(last)
      BY <1>1, <2>7
    <3> HIDE DEF last
    <3>3. last \in RoundSizes /\ f \in changed[last]
      BY <3>1
    <3>4. inputs'[f][slot] = winner
      <4>1. CASE f \in changed[k]
        <5>1. last <= k
          BY <3>1, <4>1
        <5>2. f \in SubsequentRounds(last)
          BY <1>2, <3>3
        <5>3. g \in Round(last)
          BY <2>2, <3>3, <5>1, <5>2, LastPlanHasFeeder
        <5> QED
          BY <1>3, <1>4, <2>1, <3>2, <3>3, <5>3
      <4>2. CASE f \notin changed[k]
        BY <2>1, <2>5, <3>2, <3>3, <4>2
      <4> QED
        BY <4>1, <4>2
    <3> QED
      BY <1>7, <3>4
  <2> QED
    BY <2>6, <2>7
<1> QED
  BY <1>8, <1>9

-----------------------------------------------------------------------------
(* Theorems                                                                *)

\* Whatever is requested, the columns of a bracket of any size keep their types and a
\* slot holds a team of the bracket or none (TypeOK).
THEOREM BracketTypeCorrect == Spec => []TypeOK
  BY BracketInvariant, PTL DEF BracketInv

\* In a bracket of any size a later-round slot is filled only from a started match
\* with one of its teams, whatever is reset and corrected before (SlotComesFromFeeder).
THEOREM SlotsComeFromFeeders == Spec => []SlotComesFromFeeder
  BY BracketInvariant, PTL DEF BracketInv

\* In a bracket of any size a started match has both its teams: the cascade skips it
\* and the 409 of a reset protects the matches behind it (StartedHasOpponents).
THEOREM StartedMatchesHaveOpponents == Spec => []StartedHasOpponents
  BY BracketInvariant, PTL DEF BracketInv

\* In a bracket of any size a team has at most one match in a round and never meets
\* itself, whatever was started, reset, edited and reconciled before, the plans of
\* several rounds on one snapshot included (NobodyPlaysTwiceInARound).
THEOREM NobodyPlaysTwice == Spec => []NobodyPlaysTwiceInARound
<1>1. BracketInv /\ FirstRoundKeepsTeams => NobodyPlaysTwiceInARound
  <2>1. SUFFICES ASSUME BracketInv, FirstRoundKeepsTeams,
                        NEW k \in RoundSizes, NEW m \in Round(k), NEW n \in Round(k),
                        NEW s \in Slots, NEW t \in Slots,
                        inputs[m][s] # NoTeam, inputs[m][s] = inputs[n][t]
                 PROVE  m = n /\ s = t
    BY DEF NobodyPlaysTwiceInARound
  <2>2. /\ Feeder(m, s) \in Nodes /\ At(Feeder(m, s), inputs[m][s])
        /\ Feeder(n, t) \in Nodes /\ At(Feeder(n, t), inputs[m][s])
    BY <2>1, TeamFromBelow DEF Round
  <2>3. k \in Int
    BY TreeType
  <2>4. /\ 2 * k \in Nat
        /\ 2 * k <= Feeder(m, s) /\ Feeder(m, s) < 2 * (2 * k)
        /\ 2 * k <= Feeder(n, t) /\ Feeder(n, t) < 2 * (2 * k)
    BY <2>3, TreeType DEF Round, Matches, Feeder, Slots
  <2>5. Feeder(m, s) = Feeder(n, t)
    BY <2>1, <2>2, <2>4, OncePerLevel
  <2> QED
    BY <2>5, TreeType DEF Feeder, Slots, Round, Matches
<1> QED
  BY <1>1, BracketInvariant, LeavesInvariant, PTL

\* No request gives a started match other opponents: what
\* get_inputs_to_update_in_subsequent_elimination_rounds promises of a cascade holds
\* of every request, in a bracket of any size (StartedMatchKeepsOpponents).
THEOREM StartedMatchesKept == Spec => StartedMatchKeepsOpponents
<1>1. BracketInv /\ [Next]_vars =>
        [\A m \in Matches : ~NotStarted(match[m], ranking) => inputs'[m] = inputs[m]]_vars
  BY BracketStep, InvPointer
<1> QED
  BY <1>1, BracketInvariant, PTL DEF Spec, StartedMatchKeepsOpponents

\* A request that keeps the ranking changes at most the match it is about, and then
\* leaves the match that one feeds, if not started, with the winner or an empty slot,
\* unless it is decided level (VerbRealignsFollower).
THEOREM VerbsRealignFollowers == Spec => VerbRealignsFollower
<1>1. ASSUME BracketInv, BracketInv', AllInLine, Next, ranking' = ranking,
             NEW f \in Matches, NEW slot \in Slots, Feeder(f, slot) \in Matches,
             match'[Feeder(f, slot)] # match[Feeder(f, slot)]
      PROVE  SlotInLine(f, slot)'
  <2> DEFINE g == Feeder(f, slot)
  <2>1. CASE \E m \in Matches : \E after : ReconcileMatch(m, after)
    <3>1. PICK m \in Matches : \E after : ReconcileMatch(m, after)
      BY <2>1
    <3>2. PICK after : ReconcileMatch(m, after)
      BY <3>1
    <3>3. match' = Synced([match EXCEPT ![m] = after], ranking)
      BY <3>2 DEF ReconcileMatch
    <3>4. g # m => match'[g] = SyncCompletedAt(match[g], ranking.play_all_sets)
      BY <1>1, <3>3 DEF Synced, BracketInv, TypeOK
    <3>5. g = m
      BY <1>1, <3>4 DEF AllInLine
    <3> QED
      BY <1>1, <3>2, <3>5, ReconciledFeeds
  <2>2. CASE ToggleTeam \/ EditRanking
    <3>1. match' = Synced(match, ranking)
      <4>1. CASE ToggleTeam
        BY <4>1 DEF ToggleTeam, ReconcileStageItem
      <4>2. CASE EditRanking
        <5>1. PICK body \in AcceptedRankings :
                ReconcileStageItem([m \in Matches |->
                    Resized(match[m], ranking.num_sets, body.num_sets)], body)
          BY <4>2 DEF EditRanking
        <5>2. body = ranking
          BY <1>1, <5>1 DEF ReconcileStageItem
        <5>3. [m \in Matches |-> Resized(match[m], ranking.num_sets, body.num_sets)] = match
          BY <1>1, <5>2 DEF Resized, BracketInv, TypeOK
        <5> QED
          BY <5>1, <5>2, <5>3 DEF ReconcileStageItem
      <4> QED
        BY <2>2, <4>1, <4>2
    <3>2. match'[g] = match[g]
      BY <1>1, <3>1 DEF Synced, AllInLine
    <3> QED
      BY <1>1, <3>2
  <2> QED
    BY <1>1, <2>1, <2>2 DEF Next, Verb, Start, End, Reopen, Reset, ScoreEdit
<1>2. BracketInv /\ BracketInv' /\ AllInLine /\ [Next]_vars =>
        [\A f \in Matches, slot \in Slots :
           /\ Feeder(f, slot) \in Matches
           /\ ranking' = ranking
           /\ match'[Feeder(f, slot)] # match[Feeder(f, slot)]
           => SlotInLine(f, slot)']_vars
  BY <1>1
<1> QED
  BY <1>2, BracketInvariant, InLineInvariant, PTL DEF Spec, VerbRealignsFollower

\* Saving another ranking in a bracket of any size leaves every match that has not
\* started with the winners of its decided feeders, although the plans of all rounds
\* are made on one snapshot and overwrite each other (EditBringsWinners).
THEOREM EditsBringWinners == Spec => EditBringsWinners
<1>1. ASSUME BracketInv, BracketInv', Next, ranking' # ranking,
             NEW f \in Matches, NEW slot \in Slots, Feeder(f, slot) \in Matches,
             State(match'[Feeder(f, slot)], ranking') = "COMPLETED"
      PROVE  SlotInLine(f, slot)'
  <2>1. \E before, rk : ReconcileStageItem(before, rk)
    <3>1. \A m \in Matches : \A after : ReconcileMatch(m, after) => ranking' = ranking
      BY DEF ReconcileMatch
    <3>2. ASSUME NEW m \in Matches, Verb(m)
          PROVE  \E after : ReconcileMatch(m, after)
      BY <3>2 DEF Verb, Start, End, Reopen, Reset, ScoreEdit
    <3> QED
      BY <1>1, <3>1, <3>2 DEF Next, EditRanking, ToggleTeam
  <2> QED
    BY <1>1, <2>1, StageItemFeeds
<1>2. BracketInv /\ BracketInv' /\ [Next]_vars =>
        [ranking' # ranking =>
           \A f \in Matches, slot \in Slots :
             Feeder(f, slot) \in Matches /\ State(match'[Feeder(f, slot)], ranking') = "COMPLETED"
             => SlotInLine(f, slot)']_vars
  BY <1>1
<1> QED
  BY <1>2, BracketInvariant, PTL DEF Spec, EditBringsWinners
=============================================================================
