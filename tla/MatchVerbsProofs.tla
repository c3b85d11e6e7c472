-------------------------- MODULE MatchVerbsProofs --------------------------
(***************************************************************************)
(* Proofs about the match verbs, for any number of matches, clients and    *)
(* editors and any bound on the number of sets.                            *)
(***************************************************************************)
EXTENDS MatchVerbs, MatchSetsProofs

-----------------------------------------------------------------------------
(* Type correctness needs one fact more than types: a set in progress has  *)
(* a number, so the end of that set keeps the pointer within its column.   *)

TypeInv ==
  /\ ranking \in RankingRow
  /\ match \in [Matches -> FittingRow]
  /\ request \in [Clients -> {Idle} \cup Validated \cup Locking \cup
                    [phase : {"applied"},
                     writes : UNION {[ms -> FittingRow] : ms \in SUBSET Matches}]]
  /\ edit \in [Editors -> {Idle} \cup Gated]

\* Every ranking an organiser can store is a ranking row.
LEMMA AcceptedIsRanking == AcceptedRankings \subseteq RankingRow
  BY NumSetsAssumption DEF AcceptedRankings, Normalized, RankingRow

\* The writes of a transaction that has not committed yet.
Held == [phase : {"applied"}, writes : UNION {[ms -> FittingRow] : ms \in SUBSET Matches}]

\* The reconciliation of a transaction keeps the types, given that the row its verb
\* leaves is a fitting one.
LEMMA ReconcileTypes ==
  ASSUME TypeInv, NEW c \in Clients, request[c].phase = "locking",
         NEW row \in FittingRow, Reconcile(c, row)
  PROVE  TypeInv'
<1> DEFINE r == request[c]
           play_all == ranking.play_all_sets
           others == {o \in Matches \ {r.match} : ~InLine(match[o], play_all)}
           written == {r.match} \cup others
           writes == [o \in written |->
              SyncCompletedAt(IF o = r.match THEN Recalculated(row, r.seen, play_all)
                              ELSE match[o], play_all)]
<1>1. r \in Locking
  BY DEF TypeInv, Idle, Validated, Locking, Applied
<1>2. written \in SUBSET Matches
  BY <1>1 DEF Locking
<1>3. \A o \in written : writes[o] \in FittingRow
  BY <1>1, <1>2, SyncFits DEF TypeInv, Locking
<1>4. writes \in [written -> FittingRow]
  BY <1>3
<1>5. [phase |-> "applied", writes |-> writes] \in Held
  BY <1>2, <1>4 DEF Held
<1>6. request' = [request EXCEPT ![c] = [phase |-> "applied", writes |-> writes]]
  BY DEF Reconcile
<1>7. UNCHANGED <<ranking, match, edit>>
  BY DEF Reconcile
<1> HIDE DEF writes, written
<1> QED
  BY <1>5, <1>6, <1>7 DEF TypeInv, Held

\* Every verb leaves its match a fitting row: only end moves the count up, and it
\* ends a set in progress.
LEMMA VerbFits ==
  ASSUME TypeInv, NEW c \in Clients,
         ApplyStart(c) \/ ApplyEnd(c) \/ ApplyReopen(c) \/ ApplyReset(c) \/ ApplyScoreEdit(c)
  PROVE  TypeInv'
<1> DEFINE m == request[c].match
           row == match[m]
<1>1. /\ request[c].phase = "locking"
      /\ request[c] \in Locking
  BY DEF TypeInv, Idle, Validated, Locking, Applied, LockGranted,
         ApplyStart, ApplyEnd, ApplyReopen, ApplyReset, ApplyScoreEdit
<1>2. row \in FittingRow /\ row \in MatchRow
  BY <1>1 DEF TypeInv, FittingRow, Locking
<1>3. CASE ApplyStart(c)
  <2>1. row.completed_set_count < MaxSets
    BY <1>1, <1>2, <1>3, MaxSetsAssumption DEF ApplyStart, MayStart, Started, Locking, MatchRow
  <2>2. [row EXCEPT !.current_set_in_progress = TRUE] \in FittingRow
    BY <1>2, <2>1 DEF FittingRow, MatchRow
  <2> QED
    BY <1>1, <1>3, <2>2, ReconcileTypes DEF ApplyStart, MayStart, Started
<1>4. CASE ApplyEnd(c)
  <2>1. row.completed_set_count + 1 \in 0..MaxSets
    BY <1>2, <1>4, MaxSetsAssumption DEF ApplyEnd, MayEnd, Ended, FittingRow, MatchRow
  <2>2. [row EXCEPT !.completed_set_count = @ + 1,
                    !.current_set_in_progress = FALSE] \in FittingRow
    BY <1>2, <2>1 DEF FittingRow, MatchRow
  <2> QED
    BY <1>1, <1>4, <2>2, ReconcileTypes DEF ApplyEnd, MayEnd, Ended
<1>5. CASE ApplyReopen(c)
  <2>1. row.completed_set_count - 1 \in 0..MaxSets /\ row.completed_set_count - 1 < MaxSets
    BY <1>2, <1>5, MaxSetsAssumption DEF ApplyReopen, MayReopen, Reopened, FittingRow, MatchRow
  <2>2. [row EXCEPT !.completed_set_count = @ - 1,
                    !.current_set_in_progress = TRUE] \in FittingRow
    BY <1>2, <2>1 DEF FittingRow, MatchRow
  <2> QED
    BY <1>1, <1>5, <2>2, ReconcileTypes DEF ApplyReopen, MayReopen, Reopened
<1>6. CASE ApplyReset(c)
  <2> DEFINE score == [n \in SetNumbers |-> "Draw"]
             after == [row EXCEPT !.score = score, !.completed_set_count = 0,
                                  !.current_set_in_progress = FALSE, !.completed_at = FALSE]
  <2>1. score \in [SetNumbers -> Score]
    BY DEF Score
  <2>2. Reconcile(c, after)
    BY <1>6 DEF ApplyReset, WithoutResult
  <2> HIDE DEF score
  <2>3. 0 \in 0..MaxSets
    BY MaxSetsAssumption
  <2>4. after \in MatchRow
    BY <1>2, <2>1, <2>3 DEF MatchRow
  <2>5. after.current_set_in_progress = FALSE
    BY <1>2 DEF MatchRow
  <2>6. after \in FittingRow
    BY <2>4, <2>5 DEF FittingRow
  <2> QED
    BY <1>1, <2>2, <2>6, ReconcileTypes
<1>7. CASE ApplyScoreEdit(c)
  <2> DEFINE score == [n \in SetNumbers |->
                IF n = request[c].set /\ n \in row.rows THEN request[c].score ELSE row.score[n]]
  <2>1. score \in [SetNumbers -> Score]
    BY <1>1, <1>2 DEF MatchRow, Locking
  <2>2. [row EXCEPT !.score = score] \in FittingRow
    BY <1>2, <2>1 DEF FittingRow, MatchRow
  <2>3. Reconcile(c, [row EXCEPT !.score = score])
    BY <1>7 DEF ApplyScoreEdit, Scored
  <2> QED
    BY <1>1, <2>2, <2>3, ReconcileTypes
<1> QED
  BY <1>3, <1>4, <1>5, <1>6, <1>7

\* A ranking edit leaves a storable ranking and fitting rows.
LEMMA CommitEditTypes ==
  ASSUME TypeInv, NEW e \in Editors, CommitEdit(e)
  PROVE  TypeInv'
<1> DEFINE body == edit[e].body
           old == edit[e].old_num_sets
<1>1. body \in RankingRow /\ body.num_sets \in 1..MaxSets /\ old \in 1..MaxSets
  BY DEF TypeInv, CommitEdit, Idle, Gated, RankingRow
<1>2. match' \in [Matches -> FittingRow]
  <2>1. \A m \in Matches :
          SyncCompletedAt(Resized(match[m], old, body.num_sets), body.play_all_sets)
            \in FittingRow
    BY <1>1, ResizedFits, SyncFits DEF TypeInv
  <2> QED
    BY <2>1 DEF CommitEdit
<1>3. \A c \in Clients :
        request[c].phase \in {"validated", "locking"} =>
          [request[c] EXCEPT !.set = 0] \in Validated \cup Locking
  BY MaxSetsAssumption DEF TypeInv, Idle, Validated, Locking
<1>4. request' \in [Clients -> {Idle} \cup Validated \cup Locking \cup Held]
  BY <1>3 DEF CommitEdit, TypeInv, Held
<1>5. ranking' = body /\ edit' = [edit EXCEPT ![e] = Idle]
  BY DEF CommitEdit
<1> QED
  BY <1>1, <1>2, <1>4, <1>5 DEF TypeInv, Held

LEMMA TypeStep == TypeInv /\ [Next]_vars => TypeInv'
<1> SUFFICES ASSUME TypeInv, [Next]_vars PROVE TypeInv'
  OBVIOUS
<1>1. CASE UNCHANGED vars
  BY <1>1 DEF TypeInv, vars
<1>2. ASSUME NEW c \in Clients, NEW verb \in Verbs, NEW m \in Matches,
             NEW set \in 0..MaxSets, NEW score \in Score, Validate(c, verb, m, set, score)
      PROVE  TypeInv'
  <2>1. match[m].completed_at \in BOOLEAN
    BY DEF TypeInv, FittingRow, MatchRow
  <2>2. [phase |-> "validated", verb |-> verb, match |-> m, set |-> set, score |-> score,
         seen |-> match[m].completed_at] \in Validated
    BY <2>1 DEF Validated
  <2> QED
    BY <1>2, <2>2 DEF TypeInv, Validate
<1>3. ASSUME NEW c \in Clients, ValidateUnchecked(c) \/ ValidateEnd(c) \/ ValidateScoreEdit(c)
      PROVE  TypeInv'
  <2>1. CASE ValidateUnchecked(c)
    BY <1>2, <2>1, MaxSetsAssumption DEF ValidateUnchecked, Verbs, Score
  <2>2. CASE ValidateEnd(c)
    BY <1>2, <2>2, MaxSetsAssumption DEF ValidateEnd, Verbs, Score
  <2>3. CASE ValidateScoreEdit(c)
    <3>1. PICK m \in Matches, score \in Score : \E n \in match[m].rows :
            Validate(c, "score_edit", m, n, score)
      BY <2>3, ScoreInputsAssumption DEF ValidateScoreEdit, Score
    <3>2. match[m].rows \subseteq 0..MaxSets
      BY MaxSetsAssumption DEF TypeInv, FittingRow, MatchRow, SetNumbers
    <3> QED
      BY <1>2, <3>1, <3>2 DEF Verbs
  <2> QED
    BY <1>3, <2>1, <2>2, <2>3
<1>4. ASSUME NEW c \in Clients, Begin(c)
      PROVE  TypeInv'
  <2> DEFINE r == request[c]
             n == Cardinality(match[r.match].rows)
  <2>1. r \in Validated
    BY <1>4 DEF TypeInv, Begin, Idle, Locking
  <2>2. n \in 0..MaxSets
    BY <2>1, CountOfRows DEF TypeInv, Validated, FittingRow
  <2>3. [phase |-> "locking", verb |-> r.verb, match |-> r.match, set |-> r.set,
         score |-> r.score, seen |-> r.seen, num_sets |-> n] \in Locking
    BY <2>1, <2>2 DEF Validated, Locking
  <2> QED
    BY <1>4, <2>3 DEF TypeInv, Begin
<1>5. ASSUME NEW c \in Clients, Commit(c)
      PROVE  TypeInv'
  <2>1. request[c] \in Held
    BY <1>5 DEF TypeInv, Commit, Idle, Validated, Locking, Held
  <2>2. \A m \in DOMAIN request[c].writes : request[c].writes[m] \in FittingRow
    BY <2>1 DEF Held
  <2>3. match' \in [Matches -> FittingRow]
    BY <1>5, <2>2 DEF TypeInv, Commit
  <2> QED
    BY <1>5, <2>3 DEF TypeInv, Commit
<1>6. ASSUME NEW c \in Clients, Rollback(c)
      PROVE  TypeInv'
  BY <1>6 DEF TypeInv, Rollback
<1>7. ASSUME NEW e \in Editors, GateEdit(e)
      PROVE  TypeInv'
  <2>1. PICK body \in AcceptedRankings :
          edit' = [edit EXCEPT ![e] = [phase |-> "gated", body |-> body,
                                       old_num_sets |-> ranking.num_sets]]
    BY <1>7 DEF GateEdit
  <2>2. [phase |-> "gated", body |-> body, old_num_sets |-> ranking.num_sets] \in Gated
    BY AcceptedIsRanking DEF TypeInv, RankingRow, Gated
  <2> QED
    BY <1>7, <2>1, <2>2 DEF TypeInv, GateEdit
<1>8. ASSUME NEW e \in Editors, AbandonEdit(e)
      PROVE  TypeInv'
  BY <1>8 DEF TypeInv, AbandonEdit
<1> QED
  BY <1>1, <1>3, <1>4, <1>5, <1>6, <1>7, <1>8, VerbFits, CommitEditTypes
     DEF Next, VerbStep, EditStep

LEMMA TypeInit == Init => TypeInv
<1> SUFFICES ASSUME Init PROVE TypeInv
  OBVIOUS
<1>1. ranking \in RankingRow
  BY AcceptedIsRanking DEF Init
<1>2. NewMatch(ranking.num_sets) \in FittingRow
  BY <1>1, MaxSetsAssumption DEF NewMatch, FittingRow, MatchRow, RankingRow, SetNumbers, Score
<1> QED
  BY <1>1, <1>2 DEF Init, TypeInv

\* Every variable keeps its type in every behaviour, with ranking edits and verbs
\* overlapping in any way.
THEOREM TypeCorrect == Spec => []TypeOK
<1>1. TypeInv => TypeOK
  BY DEF TypeInv, TypeOK, FittingRow, Applied
<1> QED
  BY <1>1, TypeInit, TypeStep, PTL DEF Spec

-----------------------------------------------------------------------------
(* The safety of the verbs when an edit commits only while no verb holds   *)
(* or awaits a lock.  A row is aligned when it agrees with the committed   *)
(* ranking.  The invariant says so of the rows transactions hold as well,  *)
(* since these become committed rows without another look at them.         *)

QuietInv ==
  /\ \A m \in Matches : Aligned(match[m], ranking)
  /\ \A c \in Clients : request[c].phase = "locking" => request[c].num_sets = ranking.num_sets
  /\ \A c \in Clients : request[c].phase = "applied" =>
       \A m \in DOMAIN request[c].writes : Aligned(request[c].writes[m], ranking)

\* In an aligned stage item reconciliation writes the verb's own match and no other.
LEMMA ReconcileAligns ==
  ASSUME TypeInv, QuietInv, NEW c \in Clients, request[c].phase = "locking",
         NEW row \in MatchRow, Reconcile(c, row),
         PointerAligned(row, ranking.num_sets)
  PROVE  /\ QuietInv'
         /\ \E new : request' = [request EXCEPT ![c] =
                 [phase |-> "applied", writes |-> [o \in {request[c].match} |-> new]]]
                 /\ new.completed_set_count = row.completed_set_count
                 /\ new.current_set_in_progress = row.current_set_in_progress
<1> DEFINE r == request[c]
           p == ranking.play_all_sets
           mid == Recalculated(row, r.seen, p)
           new == SyncCompletedAt(mid, p)
<1>1. r \in Locking
  BY DEF TypeInv, Idle, Validated, Locking, Applied
<1>2. {o \in Matches \ {r.match} : ~InLine(match[o], p)} = {}
  BY DEF QuietInv, Aligned
<1>3. request' = [request EXCEPT ![c] =
        [phase |-> "applied", writes |-> [o \in {r.match} |-> new]]]
  BY <1>2 DEF Reconcile
<1>4. mid \in MatchRow /\ mid.rows = row.rows
        /\ mid.completed_set_count = row.completed_set_count
        /\ mid.current_set_in_progress = row.current_set_in_progress
  BY <1>1 DEF Recalculated, MatchRow, Locking
<1>5. Aligned(new, ranking)
  <2>1. PointerAligned(mid, ranking.num_sets) /\ ranking \in RankingRow
    BY <1>4 DEF PointerAligned, TypeInv
  <2> HIDE DEF mid
  <2> QED
    BY <1>4, <2>1, SyncAligns
<1>6. new.completed_set_count = row.completed_set_count
        /\ new.current_set_in_progress = row.current_set_in_progress
  <2> HIDE DEF mid
  <2> QED
    BY <1>4 DEF SyncCompletedAt, MatchRow
<1>7. UNCHANGED <<ranking, match, edit>>
  BY DEF Reconcile
<1>8. QuietInv'
  <2> HIDE DEF new
  <2>1. \A m \in Matches : Aligned(match[m], ranking)'
    BY <1>7 DEF QuietInv
  <2>2. \A d \in Clients : request'[d] = IF d = c
          THEN [phase |-> "applied", writes |-> [o \in {r.match} |-> new]] ELSE request[d]
    BY <1>3 DEF TypeInv
  <2>3. ASSUME NEW d \in Clients, request'[d].phase = "locking"
        PROVE  request'[d].num_sets = ranking'.num_sets
    BY <1>7, <2>2, <2>3 DEF QuietInv
  <2>4. ASSUME NEW d \in Clients, request'[d].phase = "applied"
        PROVE  \A m \in DOMAIN request'[d].writes : Aligned(request'[d].writes[m], ranking')
    <3>1. CASE d = c
      <4>1. request'[d].writes = [o \in {r.match} |-> new]
        BY <2>2, <3>1
      <4> QED
        BY <1>5, <1>7, <4>1
    <3>2. CASE d # c
      BY <1>7, <2>2, <2>4, <3>2 DEF QuietInv
    <3> QED
      BY <3>1, <3>2
  <2> QED
    BY <2>1, <2>3, <2>4 DEF QuietInv
<1> QED
  BY <1>3, <1>6, <1>8

\* Each verb moves an aligned pointer to an aligned pointer by a legal move; start needs
\* the COUNT of its locking statement to be the ranking's num_sets.
LEMMA VerbMoves ==
  ASSUME TypeInv, QuietInv, NEW c \in Clients,
         ApplyStart(c) \/ ApplyEnd(c) \/ ApplyReopen(c) \/ ApplyReset(c) \/ ApplyScoreEdit(c)
  PROVE  /\ request[c].phase = "locking"
         /\ \E after \in MatchRow : /\ Reconcile(c, after)
                                   /\ Moved(match[request[c].match], after, ranking.num_sets)
<1> DEFINE row == match[request[c].match]
           n == ranking.num_sets
<1>1. /\ request[c].phase = "locking"
      /\ request[c] \in Locking
      /\ n \in 1..MaxSets
  BY DEF TypeInv, Idle, Validated, Locking, Applied, LockGranted, RankingRow,
         ApplyStart, ApplyEnd, ApplyReopen, ApplyReset, ApplyScoreEdit
<1>2. row \in MatchRow /\ PointerAligned(row, n) /\ request[c].num_sets = n
  BY <1>1 DEF TypeInv, QuietInv, Aligned, FittingRow, Locking
<1>3. CASE ApplyStart(c)
  BY <1>1, <1>2, <1>3, StartedMoves DEF ApplyStart, Moved
<1>4. CASE ApplyEnd(c)
  BY <1>1, <1>2, <1>4, EndedMoves DEF ApplyEnd, Moved
<1>5. CASE ApplyReopen(c)
  BY <1>1, <1>2, <1>5, ReopenedMoves DEF ApplyReopen, Moved
<1>6. CASE ApplyReset(c)
  BY <1>1, <1>2, <1>6, WithoutResultMoves DEF ApplyReset, Moved
<1>7. CASE ApplyScoreEdit(c)
  BY <1>1, <1>2, <1>7, ScoredMoves DEF ApplyScoreEdit, Moved, Locking
<1> QED
  BY <1>1, <1>3, <1>4, <1>5, <1>6, <1>7

LEMMA VerbAligns ==
  ASSUME TypeInv, QuietInv, NEW c \in Clients,
         ApplyStart(c) \/ ApplyEnd(c) \/ ApplyReopen(c) \/ ApplyReset(c) \/ ApplyScoreEdit(c)
  PROVE  QuietInv'
  BY VerbMoves, ReconcileAligns DEF Moved

\* An edit that commits in quiet aligns every match with the ranking it stores.
LEMMA CommitEditAligns ==
  ASSUME TypeInv, QuietInv, ~EditsOverlap, NEW e \in Editors, CommitEdit(e)
  PROVE  QuietInv'
<1> DEFINE body == edit[e].body
           old == edit[e].old_num_sets
<1>1. body \in RankingRow /\ body.num_sets \in 1..MaxSets /\ old \in 1..MaxSets
  BY DEF TypeInv, CommitEdit, Idle, Gated, RankingRow
<1>2. old = ranking.num_sets /\ ranking' = body
        /\ \A c \in Clients : request[c].phase \in {"idle", "validated"}
  BY DEF CommitEdit
<1>3. ASSUME NEW m \in Matches
      PROVE  Aligned(match[m], ranking)'
  <2> DEFINE row == Resized(match[m], old, body.num_sets)
  <2>1. match[m] \in MatchRow /\ match[m] \in FittingRow /\ PointerAligned(match[m], old)
    BY <1>2 DEF TypeInv, QuietInv, Aligned, FittingRow
  <2>2. row \in MatchRow
    BY <1>1, <2>1, ResizedFits DEF FittingRow
  <2>3. PointerAligned(row, body.num_sets)
    BY <1>1, <2>1, ResizedAligns
  <2>4. Aligned(SyncCompletedAt(row, body.play_all_sets), body)
    <3> HIDE DEF row
    <3> QED
      BY <1>1, <2>2, <2>3, SyncAligns
  <2>5. match'[m] = SyncCompletedAt(row, body.play_all_sets)
    BY DEF CommitEdit
  <2> QED
    BY <1>2, <2>4, <2>5
<1>4. ASSUME NEW c \in Clients
      PROVE  request'[c].phase \in {"idle", "validated"}
  <2>1. request[c] \in {Idle} \cup Validated
    BY <1>2 DEF TypeInv, Locking
  <2>2. request'[c] = request[c] \/ request'[c] = [request[c] EXCEPT !.set = 0]
    BY DEF CommitEdit
  <2>3. request[c] \in Validated => [request[c] EXCEPT !.set = 0].phase = "validated"
    BY DEF Validated
  <2>4. request[c] = Idle => request'[c] = request[c]
    BY DEF CommitEdit, Idle
  <2> QED
    BY <1>2, <2>1, <2>2, <2>3, <2>4
<1> QED
  BY <1>3, <1>4 DEF QuietInv

LEMMA QuietStep == ~EditsOverlap /\ TypeInv /\ QuietInv /\ [Next]_vars => QuietInv'
<1> SUFFICES ASSUME ~EditsOverlap, TypeInv, QuietInv, [Next]_vars PROVE QuietInv'
  OBVIOUS
<1>1. CASE UNCHANGED vars
  BY <1>1 DEF QuietInv, vars
<1>2. ASSUME NEW c \in Clients, NEW verb, NEW m, NEW set, NEW score,
             Validate(c, verb, m, set, score)
      PROVE  QuietInv'
  BY <1>2 DEF TypeInv, QuietInv, Validate, Idle
<1>3. ASSUME NEW c \in Clients, ValidateUnchecked(c) \/ ValidateEnd(c) \/ ValidateScoreEdit(c)
      PROVE  QuietInv'
  BY <1>2, <1>3 DEF ValidateUnchecked, ValidateEnd, ValidateScoreEdit
<1>4. ASSUME NEW c \in Clients, Begin(c)
      PROVE  QuietInv'
  <2> DEFINE r == request[c]
  <2>1. r \in Validated
    BY <1>4 DEF TypeInv, Begin, Idle, Locking
  <2>2. match[r.match].rows = 1..ranking.num_sets
    BY <2>1 DEF QuietInv, Aligned, PointerAligned, Validated
  <2>3. Cardinality(match[r.match].rows) = ranking.num_sets
    BY <2>2, FS_Interval, MaxSetsAssumption DEF TypeInv, RankingRow
  <2> QED
    BY <1>4, <2>3 DEF TypeInv, QuietInv, Begin
<1>5. ASSUME NEW c \in Clients, Commit(c)
      PROVE  QuietInv'
  <2>1. \A m \in Matches : Aligned(match'[m], ranking)
    BY <1>5 DEF QuietInv, Commit
  <2>2. ranking' = ranking /\ request' = [request EXCEPT ![c] = Idle]
    BY <1>5 DEF Commit
  <2> QED
    BY <2>1, <2>2 DEF TypeInv, QuietInv, Idle
<1>6. ASSUME NEW c \in Clients, Rollback(c)
      PROVE  QuietInv'
  BY <1>6 DEF TypeInv, QuietInv, Rollback, Idle
<1>7. ASSUME NEW e \in Editors, GateEdit(e) \/ AbandonEdit(e)
      PROVE  QuietInv'
  BY <1>7 DEF QuietInv, GateEdit, AbandonEdit
<1> QED
  BY <1>1, <1>3, <1>4, <1>5, <1>6, <1>7, VerbAligns, CommitEditAligns
     DEF Next, VerbStep, EditStep

LEMMA QuietInit == Init => QuietInv
<1> SUFFICES ASSUME Init PROVE QuietInv
  OBVIOUS
<1> DEFINE n == ranking.num_sets
<1>1. n \in 1..MaxSets
  BY AcceptedIsRanking DEF Init, RankingRow
<1>2. PointerAligned(NewMatch(n), n)
  BY <1>1, MaxSetsAssumption DEF PointerAligned, NewMatch
<1>3. \A k \in 1..n : SetState(NewMatch(n), k) = "NOT_STARTED"
  BY <1>1, MaxSetsAssumption DEF SetState, NewMatch
<1>4. DeriveMatchState(NewMatch(n), ranking.play_all_sets) = "NOT_STARTED"
  BY <1>3 DEF DeriveMatchState, NewMatch
<1>5. InLine(NewMatch(n), ranking.play_all_sets)
  BY <1>4 DEF InLine, NewMatch
<1> QED
  BY <1>2, <1>5 DEF Init, QuietInv, Aligned, Idle

\* An aligned row's sets are 1 to num_sets, as many as num_sets.
LEMMA AlignedPointer ==
  ASSUME TypeInv, NEW m \in Matches, Aligned(match[m], ranking)
  PROVE  /\ PointerWithin(match[m])
         /\ Cardinality(match[m].rows) = ranking.num_sets
<1>1. ranking.num_sets \in 1..MaxSets /\ match[m].completed_set_count \in 0..MaxSets
  BY DEF TypeInv, RankingRow, FittingRow, MatchRow
<1>2. Cardinality(match[m].rows) = ranking.num_sets
  BY <1>1, AlignedCount DEF Aligned
<1> QED
  BY <1>1, <1>2, MaxSetsAssumption DEF Aligned, PointerAligned, PointerWithin

\* The invariant of quiet edits, and what it says of the committed rows.
LEMMA QuietInvariant ==
  ~EditsOverlap => (Spec => [](TypeInv /\ QuietInv))
<1> SUFFICES ASSUME ~EditsOverlap
             PROVE  Spec => [](TypeInv /\ QuietInv)
  OBVIOUS
<1>1. Init => TypeInv /\ QuietInv
  BY TypeInit, QuietInit
<1>2. TypeInv /\ QuietInv /\ [Next]_vars => (TypeInv /\ QuietInv)'
  BY TypeStep, QuietStep
<1> QED
  BY <1>1, <1>2, PTL DEF Spec

\* Every match has a set row for each of the ranking's num_sets and no other, whatever
\* verbs are under way when an edit adds or deletes rows (_resize_sets_for_matches).
THEOREM RowsMatchRanking == ~EditsOverlap => (Spec => []SetRowsMatchRanking)
<1>1. QuietInv => SetRowsMatchRanking
  BY DEF QuietInv, Aligned, PointerAligned, SetRowsMatchRanking
<1> QED
  BY <1>1, QuietInvariant, PTL

\* The pointer of a match never leaves its set rows: two trackers that end or start a
\* set at once do not move it twice, an edit that deletes rows clips it.
THEOREM PointerStaysWithinSets == ~EditsOverlap => (Spec => []PointerWithinSets)
<1>1. TypeInv /\ QuietInv => PointerWithinSets
  BY AlignedPointer DEF TypeInv, RankingRow, QuietInv, PointerWithinSets
<1> QED
  BY <1>1, QuietInvariant, PTL

\* completed_at is set on exactly the completed matches, although verbs decide about it
\* from a row they read before the lock (recalculate_after_match_change).
THEOREM CompletedAtStaysInLine == ~EditsOverlap => (Spec => []CompletedAtInLine)
<1>1. QuietInv => CompletedAtInLine
  BY DEF QuietInv, Aligned, CompletedAtInLine
<1> QED
  BY <1>1, QuietInvariant, PTL

\* The state derived from the set rows is the one derived from the pointer, for every
\* row the verbs and edits leave behind (derive_match_state_from_pointer).
THEOREM ViewsAlwaysAgree == ~EditsOverlap => (Spec => []PointerViewAgrees)
<1>1. TypeInv /\ QuietInv => PointerViewAgrees
  BY ViewsAgree
     DEF TypeInv, RankingRow, FittingRow, QuietInv, Aligned, PointerAligned, PointerViewAgrees
<1> QED
  BY <1>1, QuietInvariant, PTL

-----------------------------------------------------------------------------
(* The verbs implement MatchLifecycle.  A transaction that holds a row has *)
(* one legal transition of that row in hand, and the lock keeps both the   *)
(* row and the transition as they are until it commits.                    *)

HeldInv ==
  /\ \A c \in Clients : request[c].phase = "applied" =>
       \E m \in Matches : /\ DOMAIN request[c].writes = {m}
                          /\ Move(match[m], request[c].writes[m], ranking.num_sets)
  /\ \A c, d \in Clients :
       c # d /\ request[c].phase = "applied" /\ request[d].phase = "applied"
         => DOMAIN request[c].writes \cap DOMAIN request[d].writes = {}

Inv == TypeInv /\ QuietInv /\ HeldInv

\* Reconciling a legal transition holds that transition, on a row nobody else holds.
LEMMA ReconcileHolds ==
  ASSUME Inv, NEW c \in Clients, request[c].phase = "locking",
         NEW row \in MatchRow, Reconcile(c, row),
         PointerAligned(row, ranking.num_sets),
         Move(match[request[c].match], row, ranking.num_sets)
  PROVE  HeldInv'
<1> DEFINE m == request[c].match
<1>1. PICK new : /\ request' = [request EXCEPT ![c] =
                        [phase |-> "applied", writes |-> [o \in {m} |-> new]]]
                 /\ new.completed_set_count = row.completed_set_count
                 /\ new.current_set_in_progress = row.current_set_in_progress
  BY ReconcileAligns DEF Inv
<1>2. ranking' = ranking /\ match' = match /\ ~Locked(m)
  BY DEF Reconcile
<1>3. m \in Matches
  BY DEF Inv, TypeInv, Idle, Validated, Locking, Applied
<1>4. \A d \in Clients : request'[d] =
        IF d = c THEN [phase |-> "applied", writes |-> [o \in {m} |-> new]] ELSE request[d]
  BY <1>1 DEF Inv, TypeInv
<1>5. Move(match[m], new, ranking.num_sets)
  BY <1>1 DEF Move
<1>6. ASSUME NEW d \in Clients, request'[d].phase = "applied"
      PROVE  \E k \in Matches : /\ DOMAIN request'[d].writes = {k}
                                /\ Move(match'[k], request'[d].writes[k], ranking'.num_sets)
  <2>1. CASE d = c
    BY <1>2, <1>3, <1>4, <1>5, <2>1
  <2>2. CASE d # c
    BY <1>2, <1>4, <1>6, <2>2 DEF Inv, HeldInv
  <2> QED
    BY <2>1, <2>2
<1>7. \A d \in Clients : d # c /\ request[d].phase = "applied" => m \notin DOMAIN request[d].writes
  BY <1>2 DEF Locked
<1>8. ASSUME NEW d \in Clients, NEW f \in Clients, d # f,
             request'[d].phase = "applied", request'[f].phase = "applied"
      PROVE  DOMAIN request'[d].writes \cap DOMAIN request'[f].writes = {}
  <2>1. DOMAIN [o \in {m} |-> new] = {m}
    OBVIOUS
  <2>2. CASE d = c
    BY <1>4, <1>7, <1>8, <2>1, <2>2
  <2>3. CASE f = c
    BY <1>4, <1>7, <1>8, <2>1, <2>3
  <2>4. CASE d # c /\ f # c
    BY <1>4, <1>8, <2>4 DEF Inv, HeldInv
  <2> QED
    BY <2>2, <2>3, <2>4
<1> QED
  BY <1>6, <1>8 DEF HeldInv

LEMMA VerbHolds ==
  ASSUME Inv, NEW c \in Clients,
         ApplyStart(c) \/ ApplyEnd(c) \/ ApplyReopen(c) \/ ApplyReset(c) \/ ApplyScoreEdit(c)
  PROVE  HeldInv' /\ UNCHANGED <<ranking, match>>
<1>1. PICK after \in MatchRow :
        /\ Reconcile(c, after)
        /\ PointerAligned(after, ranking.num_sets)
        /\ Move(match[request[c].match], after, ranking.num_sets)
  BY VerbMoves DEF Inv, Moved
<1>2. request[c].phase = "locking"
  BY VerbMoves DEF Inv
<1>3. HeldInv'
  BY <1>1, <1>2, ReconcileHolds
<1> QED
  BY <1>1, <1>3 DEF Reconcile

\* A commit makes the held transition of one row and keeps the others' rows as they were.
LEMMA CommitMoves ==
  ASSUME Inv, NEW c \in Clients, Commit(c)
  PROVE  /\ HeldInv'
         /\ ranking' = ranking
         /\ \E m \in Matches, new \in MatchRow :
              match' = [match EXCEPT ![m] = new] /\ Move(match[m], new, ranking.num_sets)
<1>1. request[c] \in Held
  BY DEF Inv, TypeInv, Commit, Idle, Validated, Locking, Held
<1>2. PICK m \in Matches : /\ DOMAIN request[c].writes = {m}
                           /\ Move(match[m], request[c].writes[m], ranking.num_sets)
  BY DEF Inv, HeldInv, Commit
<1> DEFINE new == request[c].writes[m]
<1>3. new \in MatchRow
  BY <1>1, <1>2 DEF Held, FittingRow
<1>4. match' = [match EXCEPT ![m] = new]
  BY <1>2 DEF Commit, Inv, TypeInv
<1>5. ranking' = ranking /\ request' = [request EXCEPT ![c] = Idle]
  BY DEF Commit
<1>6. \A d \in Clients : request'[d].phase = "applied" => d # c /\ request'[d] = request[d]
  BY <1>5 DEF Inv, TypeInv, Idle
<1>7. ASSUME NEW d \in Clients, request'[d].phase = "applied"
      PROVE  \E k \in Matches : /\ DOMAIN request'[d].writes = {k}
                                /\ Move(match'[k], request'[d].writes[k], ranking'.num_sets)
  <2>1. d # c /\ request'[d] = request[d] /\ request[d].phase = "applied"
    BY <1>6, <1>7
  <2>2. PICK k \in Matches : /\ DOMAIN request[d].writes = {k}
                             /\ Move(match[k], request[d].writes[k], ranking.num_sets)
    BY <2>1 DEF Inv, HeldInv
  <2>3. k # m
    BY <1>2, <2>1, <2>2 DEF Inv, HeldInv, Commit
  <2>4. match'[k] = match[k]
    BY <1>4, <2>3 DEF Inv, TypeInv
  <2> QED
    BY <1>5, <2>1, <2>2, <2>4
<1>8. HeldInv'
  BY <1>6, <1>7 DEF Inv, HeldInv
<1> QED
  BY <1>2, <1>3, <1>4, <1>5, <1>8

\* Steps that neither commit nor apply a verb keep what is held.
LEMMA OtherStepsHold ==
  ASSUME Inv, NEW c \in Clients,
         ValidateUnchecked(c) \/ ValidateEnd(c) \/ ValidateScoreEdit(c) \/ Begin(c) \/ Rollback(c)
  PROVE  HeldInv' /\ UNCHANGED <<ranking, match>>
<1>1. UNCHANGED <<ranking, match>>
  BY DEF ValidateUnchecked, ValidateEnd, ValidateScoreEdit, Validate, Begin, Rollback
<1>2. PICK new : request' = [request EXCEPT ![c] = new] /\ new.phase # "applied"
  BY DEF ValidateUnchecked, ValidateEnd, ValidateScoreEdit, Validate, Begin, Rollback, Idle
<1>3. \A d \in Clients : request'[d].phase = "applied" => request'[d] = request[d]
  BY <1>2 DEF Inv, TypeInv
<1> QED
  BY <1>1, <1>3 DEF Inv, HeldInv

\* One step of the requests and edits is one step of the lifecycle, or none.
LEMMA LifecycleStep ==
  ASSUME ~EditsOverlap, Inv, [Next]_vars
  PROVE  HeldInv' /\ [Lifecycle!LifecycleNext]_(Lifecycle!lvars)
<1>1. ASSUME UNCHANGED <<ranking, match>>
      PROVE  UNCHANGED Lifecycle!lvars
  BY <1>1 DEF Lifecycle!lvars
<1>2. CASE UNCHANGED vars
  BY <1>1, <1>2 DEF vars, Inv, HeldInv
<1>3. ASSUME NEW c \in Clients, Commit(c)
      PROVE  HeldInv' /\ (Lifecycle!LifecycleNext \/ UNCHANGED Lifecycle!lvars)
  <2>1. PICK m \in Matches, new \in MatchRow :
          match' = [match EXCEPT ![m] = new] /\ Move(match[m], new, ranking.num_sets)
    BY <1>3, CommitMoves
  <2>2. ranking' = ranking /\ HeldInv'
    BY <1>3, CommitMoves
  <2> DEFINE completed == [k \in Matches |-> match[k].completed_set_count]
             running == [k \in Matches |-> match[k].current_set_in_progress]
  <2>3. match' \in [Matches -> MatchRow] /\ match \in [Matches -> MatchRow]
    BY <2>1 DEF Inv, TypeInv, FittingRow
  <2>4. /\ completed' = [completed EXCEPT ![m] = new.completed_set_count]
        /\ running' = [running EXCEPT ![m] = new.current_set_in_progress]
    BY <2>1, <2>3
  <2>5. match[m].completed_set_count = completed[m] /\ match[m].current_set_in_progress = running[m]
    OBVIOUS
  <2>6. running[m] \in BOOLEAN /\ completed[m] \in Nat
    BY <2>3, MaxSetsAssumption DEF MatchRow
  <2>7. \/ completed' = completed /\ running' = running
        \/ Lifecycle!Start(m) \/ Lifecycle!End(m) \/ Lifecycle!Reopen(m) \/ Lifecycle!Reset(m)
    <3>1. CASE /\ new.completed_set_count = match[m].completed_set_count
               /\ new.current_set_in_progress = match[m].current_set_in_progress
      BY <2>4, <2>5, <3>1
    <3>2. CASE /\ ~match[m].current_set_in_progress
               /\ match[m].completed_set_count < ranking.num_sets
               /\ new.completed_set_count = match[m].completed_set_count
               /\ new.current_set_in_progress = TRUE
      BY <2>2, <2>4, <2>5, <3>2 DEF Lifecycle!Start
    <3>3. CASE /\ match[m].current_set_in_progress
               /\ new.completed_set_count = match[m].completed_set_count + 1
               /\ new.current_set_in_progress = FALSE
      BY <2>2, <2>4, <2>5, <3>3 DEF Lifecycle!End
    <3>4. CASE /\ match[m].completed_set_count > 0
               /\ new.completed_set_count = match[m].completed_set_count - 1
               /\ new.current_set_in_progress = TRUE
      BY <2>2, <2>4, <2>5, <3>4 DEF Lifecycle!Reopen
    <3>5. CASE new.completed_set_count = 0 /\ new.current_set_in_progress = FALSE
      BY <2>2, <2>4, <3>5 DEF Lifecycle!Reset
    <3> QED
      BY <2>1, <3>1, <3>2, <3>3, <3>4, <3>5 DEF Move
  <2> QED
    BY <2>2, <2>7 DEF Lifecycle!LifecycleNext, Lifecycle!lvars
<1>4. ASSUME NEW e \in Editors, GateEdit(e) \/ AbandonEdit(e)
      PROVE  HeldInv' /\ UNCHANGED <<ranking, match>>
  BY <1>4 DEF Inv, HeldInv, GateEdit, AbandonEdit
<1>5. ASSUME NEW e \in Editors, CommitEdit(e)
      PROVE  HeldInv' /\ Lifecycle!LifecycleNext
  <2> DEFINE body == edit[e].body
             old == ranking.num_sets
             n == body.num_sets
  <2>1. body \in RankingRow /\ n \in 1..MaxSets /\ old \in 1..MaxSets
    BY <1>5 DEF Inv, TypeInv, CommitEdit, Idle, Gated, RankingRow
  <2>2. /\ ranking' = body /\ edit[e].old_num_sets = old
        /\ \A c \in Clients : request[c].phase \in {"idle", "validated"}
    BY <1>5 DEF CommitEdit
  <2>3. \A c \in Clients : request'[c].phase # "applied"
    <3>1. ASSUME NEW c \in Clients
          PROVE  request'[c].phase # "applied"
      <4>1. request[c] \in {Idle} \cup Validated
        BY <2>2 DEF Inv, TypeInv, Locking
      <4>2. request'[c] = request[c] \/ request'[c] = [request[c] EXCEPT !.set = 0]
        BY <1>5 DEF CommitEdit
      <4>3. request[c] \in Validated => [request[c] EXCEPT !.set = 0].phase = "validated"
        BY DEF Validated
      <4>4. request[c] = Idle => request'[c] = request[c]
        BY <1>5 DEF CommitEdit, Idle
      <4> QED
        BY <2>2, <4>1, <4>2, <4>3, <4>4
    <3> QED
      BY <3>1
  <2>4. ASSUME NEW m \in Matches
        PROVE  /\ match'[m].completed_set_count =
                    IF match[m].completed_set_count <= n THEN match[m].completed_set_count ELSE n
               /\ match'[m].current_set_in_progress =
                    (match[m].current_set_in_progress /\ match[m].completed_set_count < n)
    <3> DEFINE row == match[m]
               resized == Resized(row, old, n)
    <3>1. row \in FittingRow /\ row \in MatchRow /\ PointerAligned(row, old)
      BY DEF Inv, TypeInv, QuietInv, Aligned, FittingRow
    <3>2. resized \in MatchRow
      BY <2>1, <3>1, ResizedFits DEF FittingRow
    <3>3. /\ resized.completed_set_count =
               IF row.completed_set_count <= n THEN row.completed_set_count ELSE n
          /\ row.completed_set_count < n =>
               resized.current_set_in_progress = row.current_set_in_progress
          /\ ~(row.completed_set_count < n) => resized.current_set_in_progress = FALSE
      BY <2>1, <3>1, ResizedPointer
    <3>4. match'[m] = SyncCompletedAt(resized, body.play_all_sets)
      BY <1>5, <2>2 DEF CommitEdit
    <3>5. /\ match'[m].completed_set_count = resized.completed_set_count
          /\ match'[m].current_set_in_progress = resized.current_set_in_progress
      <4> HIDE DEF resized
      <4> QED
        BY <3>2, <3>4 DEF SyncCompletedAt, MatchRow
    <3>6. row.current_set_in_progress \in BOOLEAN
      BY <3>1 DEF MatchRow
    <3> HIDE DEF resized
    <3> QED
      BY <3>3, <3>5, <3>6
  <2>5. PICK k \in 1..MaxSets : k = n
    BY <2>1
  <2>6. HeldInv'
    BY <2>3 DEF HeldInv
  <2>7. Lifecycle!Resize(k)
    BY <2>2, <2>4, <2>5, Zenon DEF Lifecycle!Resize
  <2> QED
    BY <2>6, <2>7 DEF Lifecycle!LifecycleNext
<1>6. ASSUME NEW c \in Clients, VerbStep(c), ~Commit(c)
      PROVE  HeldInv' /\ UNCHANGED <<ranking, match>>
  BY <1>6, VerbHolds, OtherStepsHold DEF VerbStep
<1> QED
  BY <1>1, <1>2, <1>3, <1>4, <1>5, <1>6 DEF Next, EditStep

\* With edits in quiet, requests take effect one at a time: the committed pointers move
\* as MatchLifecycle moves them.
THEOREM VerbsImplementLifecycle == ~EditsOverlap => (Spec => ImplementsLifecycle)
<1> SUFFICES ASSUME ~EditsOverlap PROVE Spec => Lifecycle!LifecycleSpec
  BY DEF ImplementsLifecycle
<1>1. Init => Inv
  BY TypeInit, QuietInit DEF Init, Inv, HeldInv, Idle
<1>2. Init => Lifecycle!LifecycleInit
  <2> SUFFICES ASSUME Init PROVE Lifecycle!LifecycleInit
    OBVIOUS
  <2>1. ranking.num_sets \in 1..MaxSets
    BY AcceptedIsRanking DEF Init, RankingRow
  <2> QED
    BY <2>1 DEF Init, NewMatch, Lifecycle!LifecycleInit
<1>3. Inv /\ [Next]_vars => Inv' /\ [Lifecycle!LifecycleNext]_(Lifecycle!lvars)
  BY TypeStep, QuietStep, LifecycleStep DEF Inv
<1> QED
  BY <1>1, <1>2, <1>3, PTL DEF Spec, Lifecycle!LifecycleSpec
=============================================================================
