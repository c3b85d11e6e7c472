---------------------------- MODULE MatchSetsProofs ----------------------------
(***************************************************************************)
(* Facts about one match row, for any bound on the number of sets: what    *)
(* each transition, resize and stamp keeps of its type and of its          *)
(* agreement with the ranking.                                             *)
(***************************************************************************)
EXTENDS MatchSets, FiniteSetTheorems, TLAPS

-----------------------------------------------------------------------------
(* A set in progress has a number, so its end keeps the pointer within its *)
(* column.                                                                 *)

FittingRow ==
  {row \in MatchRow : row.current_set_in_progress => row.completed_set_count < MaxSets}

\* A stored row's sets are at most MaxSets (the COUNT of the locking statement).
LEMMA CountOfRows ==
  ASSUME NEW row \in MatchRow
  PROVE  Cardinality(row.rows) \in 0..MaxSets
<1>1. row.rows \subseteq 1..MaxSets
  BY DEF MatchRow, SetNumbers
<1>2. IsFiniteSet(1..MaxSets) /\ Cardinality(1..MaxSets) = MaxSets
  BY FS_Interval, MaxSetsAssumption
<1>3. IsFiniteSet(row.rows) /\ Cardinality(row.rows) <= MaxSets
  BY <1>1, <1>2, FS_Subset
<1> QED
  BY <1>3, FS_CardinalityType, MaxSetsAssumption

\* Stamping or clearing completed_at changes no other column.
LEMMA SyncFits ==
  ASSUME NEW row \in FittingRow, NEW p
  PROVE  /\ SyncCompletedAt(row, p) \in FittingRow
         /\ \A seen \in BOOLEAN : Recalculated(row, seen, p) \in FittingRow
  BY DEF FittingRow, MatchRow, SyncCompletedAt, Recalculated

\* A resize of the set rows leaves a fitting row.
LEMMA ResizedFits ==
  ASSUME NEW row \in FittingRow, NEW old \in 1..MaxSets, NEW new \in 1..MaxSets
  PROVE  Resized(row, old, new) \in FittingRow
<1>1. AddTrailingSets(row, old + 1, new) \in FittingRow
  BY MaxSetsAssumption DEF FittingRow, MatchRow, AddTrailingSets, SetNumbers
<1>2. DeleteTrailingSets(row, new) \in FittingRow
  <2>1. row \in MatchRow
    BY DEF FittingRow
  <2>2. [n \in SetNumbers |-> IF n <= new THEN row.score[n] ELSE "Draw"]
          \in [SetNumbers -> Score]
    BY <2>1 DEF MatchRow, Score
  <2>3. (IF row.completed_set_count <= new THEN row.completed_set_count ELSE new) \in 0..MaxSets
    BY <2>1, MaxSetsAssumption DEF MatchRow
  <2>4. DeleteTrailingSets(row, new) \in MatchRow
    BY <2>1, <2>2, <2>3 DEF MatchRow, DeleteTrailingSets
  <2>5. DeleteTrailingSets(row, new).current_set_in_progress
          => DeleteTrailingSets(row, new).completed_set_count < MaxSets
    BY <2>1, MaxSetsAssumption DEF MatchRow, DeleteTrailingSets
  <2> QED
    BY <2>4, <2>5 DEF FittingRow
<1> QED
  BY <1>1, <1>2 DEF Resized

-----------------------------------------------------------------------------
(* A row is aligned when it agrees with the ranking.                       *)

PointerAligned(row, n) ==
  /\ row.rows = 1..n
  /\ row.completed_set_count <= n
  /\ row.current_set_in_progress => row.completed_set_count < n

Aligned(row, r) == PointerAligned(row, r.num_sets) /\ InLine(row, r.play_all_sets)

\* An aligned row has as many set rows as num_sets.
LEMMA AlignedCount ==
  ASSUME NEW row, NEW n \in 1..MaxSets, PointerAligned(row, n)
  PROVE  Cardinality(row.rows) = n
<1>1. n \in Int /\ n >= 1
  BY MaxSetsAssumption
<1>2. Cardinality(1..n) = n - 1 + 1
  BY <1>1, FS_Interval
<1> QED
  BY <1>1, <1>2 DEF PointerAligned

\* Reconciliation aligns completed_at of the verb's match, whatever the request saw of it.
LEMMA SyncAligns ==
  ASSUME NEW row \in MatchRow, NEW r \in RankingRow, PointerAligned(row, r.num_sets)
  PROVE  Aligned(SyncCompletedAt(row, r.play_all_sets), r)
<1> DEFINE p == r.play_all_sets
           synced == SyncCompletedAt(row, p)
<1>1. /\ synced.rows = row.rows
      /\ synced.score = row.score
      /\ synced.completed_set_count = row.completed_set_count
      /\ synced.current_set_in_progress = row.current_set_in_progress
  BY DEF SyncCompletedAt, MatchRow
<1>2. DeriveMatchState(synced, p) = DeriveMatchState(row, p)
  BY <1>1 DEF DeriveMatchState, SetState, IsMatchDecided, SetWins
<1>3. synced.completed_at = (DeriveMatchState(row, p) = "COMPLETED")
  BY DEF SyncCompletedAt, MatchRow
<1>4. InLine(synced, p)
  BY <1>2, <1>3 DEF InLine
<1>5. PointerAligned(synced, r.num_sets)
  BY <1>1 DEF PointerAligned
<1> QED
  BY <1>4, <1>5 DEF Aligned

\* What a verb may do to the pointer of a row with n sets.
Move(before, after, n) ==
  \/ /\ after.completed_set_count = before.completed_set_count
     /\ after.current_set_in_progress = before.current_set_in_progress
  \/ /\ ~before.current_set_in_progress /\ before.completed_set_count < n
     /\ after.completed_set_count = before.completed_set_count
     /\ after.current_set_in_progress = TRUE
  \/ /\ before.current_set_in_progress
     /\ after.completed_set_count = before.completed_set_count + 1
     /\ after.current_set_in_progress = FALSE
  \/ /\ before.completed_set_count > 0
     /\ after.completed_set_count = before.completed_set_count - 1
     /\ after.current_set_in_progress = TRUE
  \/ /\ after.completed_set_count = 0
     /\ after.current_set_in_progress = FALSE

\* Each verb moves an aligned row to an aligned row by a legal move.  Start relies on the
\* number of rows it counted being the ranking's num_sets.
Moved(before, after, n) ==
  after \in MatchRow /\ PointerAligned(after, n) /\ Move(before, after, n)

LEMMA StartedMoves ==
  ASSUME NEW row \in MatchRow, NEW n \in 1..MaxSets, PointerAligned(row, n), NEW p,
         MayStart(row, n, p)
  PROVE  Moved(row, Started(row), n)
<1>1. row.completed_set_count < n /\ ~row.current_set_in_progress
  BY DEF MayStart
<1>2. Started(row) \in MatchRow /\ PointerAligned(Started(row), n)
  BY <1>1 DEF Started, PointerAligned, MatchRow
<1>3. Move(row, Started(row), n)
  BY <1>1 DEF Started, Move, MatchRow
<1> QED
  BY <1>2, <1>3 DEF Moved

LEMMA EndedMoves ==
  ASSUME NEW row \in MatchRow, NEW n \in 1..MaxSets, PointerAligned(row, n), MayEnd(row)
  PROVE  Moved(row, Ended(row), n)
<1> DEFINE after == Ended(row)
<1>1. row.completed_set_count < n /\ row.completed_set_count + 1 \in 0..MaxSets
  BY MaxSetsAssumption DEF PointerAligned, MayEnd, MatchRow
<1>2. after \in MatchRow
  BY <1>1 DEF Ended, MatchRow
<1>3. /\ after.rows = row.rows
      /\ after.completed_set_count = row.completed_set_count + 1
      /\ after.current_set_in_progress = FALSE
  BY DEF Ended, MatchRow
<1> HIDE DEF after
<1>4. PointerAligned(after, n)
  BY <1>1, <1>3, MaxSetsAssumption DEF PointerAligned, MatchRow
<1>5. Move(row, after, n)
  BY <1>3 DEF MayEnd, Move
<1> QED
  BY <1>2, <1>4, <1>5 DEF Moved, after

LEMMA ReopenedMoves ==
  ASSUME NEW row \in MatchRow, NEW n \in 1..MaxSets, PointerAligned(row, n), MayReopen(row)
  PROVE  Moved(row, Reopened(row), n)
<1> DEFINE after == Reopened(row)
<1>1. row.completed_set_count - 1 < n /\ row.completed_set_count - 1 \in 0..MaxSets
  BY MaxSetsAssumption DEF PointerAligned, MayReopen, MatchRow
<1>2. after \in MatchRow
  BY <1>1 DEF Reopened, MatchRow
<1>3. /\ after.rows = row.rows
      /\ after.completed_set_count = row.completed_set_count - 1
      /\ after.current_set_in_progress = TRUE
  BY DEF Reopened, MatchRow
<1> HIDE DEF after
<1>4. PointerAligned(after, n)
  BY <1>1, <1>3, MaxSetsAssumption DEF PointerAligned, MatchRow
<1>5. Move(row, after, n)
  BY <1>3 DEF MayReopen, Move
<1> QED
  BY <1>2, <1>4, <1>5 DEF Moved, after

LEMMA WithoutResultMoves ==
  ASSUME NEW row \in MatchRow, NEW n \in 1..MaxSets, PointerAligned(row, n)
  PROVE  Moved(row, WithoutResult(row), n)
<1> DEFINE after == WithoutResult(row)
<1>1. [k \in SetNumbers |-> "Draw"] \in [SetNumbers -> Score] /\ 0 \in 0..MaxSets
  BY MaxSetsAssumption DEF Score
<1>2. after \in MatchRow
  BY <1>1 DEF WithoutResult, MatchRow
<1>3. /\ after.rows = row.rows
      /\ after.completed_set_count = 0
      /\ after.current_set_in_progress = FALSE
  BY DEF WithoutResult, MatchRow
<1> HIDE DEF after
<1>4. PointerAligned(after, n)
  BY <1>3, MaxSetsAssumption DEF PointerAligned
<1>5. Move(row, after, n)
  BY <1>3 DEF Move
<1> QED
  BY <1>2, <1>4, <1>5 DEF Moved, after

LEMMA ScoredMoves ==
  ASSUME NEW row \in MatchRow, NEW n \in 1..MaxSets, PointerAligned(row, n),
         NEW set, NEW side \in Score
  PROVE  Moved(row, Scored(row, set, side), n)
<1> DEFINE score == [k \in SetNumbers |->
              IF k = set /\ k \in row.rows THEN side ELSE row.score[k]]
           after == [row EXCEPT !.score = score]
<1>1. score \in [SetNumbers -> Score]
  BY DEF MatchRow
<1>2. Scored(row, set, side) = after
  BY DEF Scored
<1> HIDE DEF score
<1>3. after \in MatchRow /\ PointerAligned(after, n)
  BY <1>1 DEF PointerAligned, MatchRow
<1>4. Move(row, after, n)
  BY DEF Move, MatchRow
<1> QED
  BY <1>2, <1>3, <1>4 DEF Moved

\* A resize from the committed num_sets keeps rows and pointer aligned.
LEMMA ResizedAligns ==
  ASSUME NEW row \in MatchRow, NEW old \in 1..MaxSets, NEW new \in 1..MaxSets,
         PointerAligned(row, old)
  PROVE  PointerAligned(Resized(row, old, new), new)
<1>1. CASE new = old
  BY <1>1 DEF Resized
<1>2. CASE new > old
  <2>1. Resized(row, old, new) = AddTrailingSets(row, old + 1, new)
    BY <1>2, MaxSetsAssumption DEF Resized
  <2>2. (1..old) \cup ((old + 1)..new) = 1..new
    BY <1>2, MaxSetsAssumption
  <2> QED
    BY <1>2, <2>1, <2>2, MaxSetsAssumption DEF PointerAligned, AddTrailingSets, MatchRow
<1>3. CASE new < old
  <2>1. Resized(row, old, new) = DeleteTrailingSets(row, new)
    BY <1>3, MaxSetsAssumption DEF Resized
  <2>2. {k \in 1..old : k <= new} = 1..new
    BY <1>3, MaxSetsAssumption
  <2> QED
    BY <1>3, <2>1, <2>2, MaxSetsAssumption DEF PointerAligned, DeleteTrailingSets, MatchRow
<1> QED
  BY <1>1, <1>2, <1>3, MaxSetsAssumption

\* Set by set or from the pointer: the state of an aligned row is the same.
LEMMA ViewsAgree ==
  ASSUME NEW row \in MatchRow, NEW n \in 1..MaxSets, PointerAligned(row, n), NEW p
  PROVE  DeriveMatchState(row, p) =
           StateFromPointer(row, Cardinality(row.rows), IsMatchDecided(row, p))
<1> DEFINE states == {SetState(row, k) : k \in row.rows}
<1>1. /\ n \in 1..MaxSets /\ row.completed_set_count \in 0..MaxSets
      /\ row.current_set_in_progress \in BOOLEAN
      /\ PointerAligned(row, n) /\ Cardinality(row.rows) = n
  BY AlignedCount DEF MatchRow
<1>2. CASE row.current_set_in_progress
  <2>1. row.completed_set_count + 1 \in row.rows
    BY <1>1, <1>2, MaxSetsAssumption DEF PointerAligned
  <2>2. SetState(row, row.completed_set_count + 1) = "IN_PROGRESS"
    BY <1>1, <1>2, MaxSetsAssumption DEF SetState
  <2>3. "IN_PROGRESS" \in states
    BY <2>1, <2>2
  <2>4. DeriveMatchState(row, p) = "IN_PROGRESS"
    BY <2>3 DEF DeriveMatchState
  <2> QED
    BY <1>2, <2>4 DEF StateFromPointer
<1>3. CASE ~row.current_set_in_progress /\ row.completed_set_count = 0
  <2>1. \A k \in row.rows : SetState(row, k) = "NOT_STARTED"
    BY <1>1, <1>3, MaxSetsAssumption DEF PointerAligned, SetState
  <2>2. DeriveMatchState(row, p) = "NOT_STARTED"
    BY <2>1 DEF DeriveMatchState
  <2> QED
    BY <1>3, <2>2 DEF StateFromPointer
<1>4. CASE ~row.current_set_in_progress /\ row.completed_set_count > 0
  <2>1. 1 \in row.rows /\ n \in row.rows
    BY <1>1, MaxSetsAssumption DEF PointerAligned
  <2>2. SetState(row, 1) = "COMPLETED"
    BY <1>1, <1>4, MaxSetsAssumption DEF SetState
  <2>3. "COMPLETED" \in states
    BY <2>1, <2>2
  <2>4. \A k \in row.rows : SetState(row, k) # "IN_PROGRESS"
    BY <1>4 DEF SetState
  <2>5. "IN_PROGRESS" \notin states
    BY <2>4
  <2>6. CASE row.completed_set_count = n
    <3>1. \A k \in row.rows : SetState(row, k) = "COMPLETED"
      BY <1>1, <2>6, MaxSetsAssumption DEF PointerAligned, SetState
    <3>2. states = {"COMPLETED"}
      BY <2>3, <3>1
    <3>3. DeriveMatchState(row, p) = "COMPLETED"
      BY <3>2 DEF DeriveMatchState
    <3> QED
      BY <1>1, <1>4, <2>6, <3>3, MaxSetsAssumption DEF StateFromPointer
  <2>7. CASE row.completed_set_count < n
    <3>1. SetState(row, n) = "NOT_STARTED"
      BY <1>1, <1>4, <2>7, MaxSetsAssumption DEF SetState
    <3>2. "NOT_STARTED" \in states
      BY <2>1, <3>1
    <3>3. DeriveMatchState(row, p) = IF IsMatchDecided(row, p) THEN "COMPLETED" ELSE "IN_PROGRESS"
      BY <2>3, <2>5, <3>2 DEF DeriveMatchState
    <3> QED
      BY <1>1, <1>4, <2>7, <3>3, MaxSetsAssumption DEF StateFromPointer
  <2> QED
    BY <1>1, <2>6, <2>7, MaxSetsAssumption DEF PointerAligned
<1> QED
  BY <1>1, <1>2, <1>3, <1>4, MaxSetsAssumption

\* A resize from the committed num_sets clips the pointer of an aligned row.
LEMMA ResizedPointer ==
  ASSUME NEW row \in MatchRow, NEW old \in 1..MaxSets, NEW n \in 1..MaxSets,
         PointerAligned(row, old)
  PROVE  /\ Resized(row, old, n).completed_set_count =
              IF row.completed_set_count <= n THEN row.completed_set_count ELSE n
         /\ row.completed_set_count < n =>
              Resized(row, old, n).current_set_in_progress = row.current_set_in_progress
         /\ ~(row.completed_set_count < n) =>
              Resized(row, old, n).current_set_in_progress = FALSE
<1> DEFINE count == row.completed_set_count
           resized == Resized(row, old, n)
<1>1. count \in Nat /\ n \in Nat /\ old \in Nat
  BY MaxSetsAssumption DEF MatchRow
<1>2. CASE n < old
  <2>1. resized = DeleteTrailingSets(row, n)
    BY <1>1, <1>2 DEF Resized
  <2>2. resized.completed_set_count = IF count <= n THEN count ELSE n
    BY <2>1 DEF DeleteTrailingSets
  <2>3. resized.current_set_in_progress =
          IF count >= n THEN FALSE ELSE row.current_set_in_progress
    BY <2>1 DEF DeleteTrailingSets
  <2> HIDE DEF resized, count
  <2>4. (count < n) <=> ~(count >= n)
    BY <1>1
  <2>5. count < n => resized.current_set_in_progress = row.current_set_in_progress
    BY <2>3, <2>4, Zenon
  <2>6. ~(count < n) => resized.current_set_in_progress = FALSE
    BY <2>3, <2>4, Zenon
  <2> QED
    BY <2>2, <2>5, <2>6 DEF resized, count
<1>3. CASE n >= old
  <2>1. /\ resized.completed_set_count = count
        /\ resized.current_set_in_progress = row.current_set_in_progress
    BY <1>1, <1>3 DEF Resized, AddTrailingSets, MatchRow
  <2>2. count <= n
    BY <1>1, <1>3 DEF PointerAligned
  <2>3. ~(count < n) => row.current_set_in_progress = FALSE
    BY <1>1, <1>3 DEF PointerAligned, MatchRow
  <2> HIDE DEF resized
  <2> QED
    BY <2>1, <2>2, <2>3 DEF resized
<1>4. n < old \/ n >= old
  BY <1>1
<1> QED
  BY <1>2, <1>3, <1>4
=============================================================================
