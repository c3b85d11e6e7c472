----------------------------- MODULE MatchVerbs -----------------------------
(***************************************************************************)
(* The match verbs (start, end, reopen, reset, score-edit) and the edits   *)
(* of the ranking that configures the matches, as concurrent PostgreSQL    *)
(* transactions in READ COMMITTED mode.                                    *)
(*                                                                         *)
(* A verb is an HTTP request.  It validates what it read before any        *)
(* transaction, takes the row lock of its match (FOR UPDATE), applies the  *)
(* pointer rules of pointer.py to the row the lock returned, reconciles,   *)
(* and commits.  A ranking edit reads the old ranking and the "active      *)
(* sets" gate before its transaction, which then updates the ranking,      *)
(* resizes the set rows of every match and realigns completed_at.          *)
(*                                                                         *)
(* All matches here belong to one stage item, their opponents are known    *)
(* and no match follows another: the elimination tree is another module.   *)
(***************************************************************************)
EXTENDS MatchSets

CONSTANTS
  Matches,       \* the matches of the stage item
  Clients,       \* requests that may be under way at once, one verb each
  Editors,       \* ranking edits that may be under way at once
  NumSets,       \* the values of num_sets an organiser may pick
  ScoreInputs,   \* the scores a score-edit may enter
  Forced,        \* the values of the force parameter an organiser may pass
  EditsOverlap   \* FALSE: an edit commits only when nothing else is under way

ASSUME NumSetsAssumption == NumSets \subseteq 1..MaxSets
ASSUME ScoreInputsAssumption == ScoreInputs \subseteq {"Draw", "One", "Two"}
ASSUME ForcedAssumption == Forced \subseteq BOOLEAN
ASSUME EditsOverlapAssumption == EditsOverlap \in BOOLEAN

VARIABLES
  ranking,       \* the committed ranking row
  match,         \* the committed match rows, each with its match_sets rows
  request,       \* the verb each client has under way
  edit           \* the ranking edit each editor has under way

vars == <<ranking, match, request, edit>>

AcceptedRankings ==
  Normalized([num_sets : NumSets, play_all_sets : BOOLEAN, draws_allowed : BOOLEAN])

-----------------------------------------------------------------------------
(* Requests under way.  A "validated" request has run its checks, a        *)
(* "locking" one has sent its FOR UPDATE statement, whose snapshot fixes   *)
(* the COUNT of set rows, an "applied" one holds the locks of the rows it  *)
(* has written and not committed.                                          *)

Verbs == {"start", "end", "reopen", "reset", "score_edit"}

Idle == [phase |-> "idle"]
Validated == [phase : {"validated"}, verb : Verbs, match : Matches,
              set : 0..MaxSets, score : Score, seen : BOOLEAN]
Locking == [phase : {"locking"}, verb : Verbs, match : Matches,
            set : 0..MaxSets, score : Score, seen : BOOLEAN,
            num_sets : 0..MaxSets]
Applied == [phase : {"applied"},
            writes : UNION {[ms -> MatchRow] : ms \in SUBSET Matches}]
Gated == [phase : {"gated"}, body : RankingRow, old_num_sets : 1..MaxSets]

\* Mutant: the pointer is read without FOR UPDATE.
LockedNever(m) == FALSE

Locked(m) == \E c \in Clients : request[c].phase = "applied" /\ m \in DOMAIN request[c].writes

ActiveSets(m) == match[m].completed_set_count > 0 \/ match[m].current_set_in_progress

Init ==
  /\ ranking \in AcceptedRankings
  /\ match = [m \in Matches |-> NewMatch(ranking.num_sets)]
  /\ request = [c \in Clients |-> Idle]
  /\ edit = [e \in Editors |-> Idle]

\* The request passed its checks, all of them made before the transaction.
Validate(c, verb, m, set, score) ==
  /\ request[c] = Idle
  /\ request' = [request EXCEPT ![c] =
                   [phase |-> "validated", verb |-> verb, match |-> m,
                    set |-> set, score |-> score, seen |-> match[m].completed_at]]
  /\ UNCHANGED <<ranking, match, edit>>

\* start, reopen and reset: nothing to check for matches with known opponents.
ValidateUnchecked(c) ==
  \E verb \in {"start", "reopen", "reset"}, m \in Matches : Validate(c, verb, m, 0, "Draw")

ValidateEnd(c) ==
  \E m \in Matches : EndAllowed(match[m], ranking.draws_allowed) /\ Validate(c, "end", m, 0, "Draw")

ValidateScoreEdit(c) ==
  \E m \in Matches, side \in ScoreInputs : \E n \in match[m].rows :
    /\ ScoreEditAllowed(match[m], n, side, ranking.draws_allowed)
    /\ Validate(c, "score_edit", m, n, side)

\* The transaction sends its locking statement.  A score-edit whose set row is
\* gone finds nothing to lock and fails (Rollback).
Begin(c) ==
  LET r == request[c] IN
  /\ r.phase = "validated"
  /\ r.verb = "score_edit" => r.set \in match[r.match].rows
  /\ request' = [request EXCEPT ![c] =
                   [phase |-> "locking", verb |-> r.verb, match |-> r.match,
                    set |-> r.set, score |-> r.score, seen |-> r.seen,
                    num_sets |-> Cardinality(match[r.match].rows)]]
  /\ UNCHANGED <<ranking, match, edit>>

\* The rest of the transaction, up to its commit, for a verb that changed the
\* row of its match to row: the state derived under the lock, completed_at, and
\* the reconciliation of the other matches of the stage item.
Reconcile(c, row) ==
  LET r == request[c]
      play_all == ranking.play_all_sets
      others == {o \in Matches \ {r.match} : ~InLine(match[o], play_all)}
      written == {r.match} \cup others
  IN  /\ \A o \in written : ~Locked(o)
      /\ request' = [request EXCEPT ![c] =
           [phase |-> "applied",
            writes |-> [o \in written |->
              SyncCompletedAt(IF o = r.match THEN Recalculated(row, r.seen, play_all)
                              ELSE match[o], play_all)]]]
      /\ UNCHANGED <<ranking, match, edit>>

\* The lock is granted: the pointer is the row's latest, num_sets the snapshot's.
LockGranted(c, verb) ==
  /\ request[c].phase = "locking"
  /\ request[c].verb = verb

ApplyStart(c) ==
  LET row == match[request[c].match] IN
  /\ LockGranted(c, "start")
  /\ MayStart(row, request[c].num_sets, ranking.play_all_sets)
  /\ Reconcile(c, Started(row))

ApplyEnd(c) ==
  LET row == match[request[c].match] IN
  /\ LockGranted(c, "end")
  /\ MayEnd(row)
  /\ Reconcile(c, Ended(row))

ApplyReopen(c) ==
  LET row == match[request[c].match] IN
  /\ LockGranted(c, "reopen")
  /\ MayReopen(row)
  /\ Reconcile(c, Reopened(row))

ApplyReset(c) ==
  /\ LockGranted(c, "reset")
  /\ Reconcile(c, WithoutResult(match[request[c].match]))

ApplyScoreEdit(c) ==
  /\ LockGranted(c, "score_edit")
  /\ Reconcile(c, Scored(match[request[c].match], request[c].set, request[c].score))

Commit(c) ==
  /\ request[c].phase = "applied"
  /\ match' = [m \in Matches |->
                 IF m \in DOMAIN request[c].writes THEN request[c].writes[m] ELSE match[m]]
  /\ request' = [request EXCEPT ![c] = Idle]
  /\ UNCHANGED <<ranking, edit>>

\* An illegal transition, a row that is gone, a deadlock victim, a lost connection.
Rollback(c) ==
  /\ request[c] # Idle
  /\ request' = [request EXCEPT ![c] = Idle]
  /\ UNCHANGED <<ranking, match, edit>>

-----------------------------------------------------------------------------
(* Ranking edits                                                           *)

\* A change to what match state is derived from is refused once a set has been
\* started, unless forced.  The gate and old_num_sets precede the transaction.
DestructiveEdit(body) ==
  body.num_sets # ranking.num_sets \/ body.play_all_sets # ranking.play_all_sets

GateEdit(e) ==
  \E body \in AcceptedRankings, force \in Forced :
    /\ edit[e] = Idle
    /\ DestructiveEdit(body) /\ ~force => \A m \in Matches : ~ActiveSets(m)
    /\ edit' = [edit EXCEPT ![e] =
                  [phase |-> "gated", body |-> body, old_num_sets |-> ranking.num_sets]]
    /\ UNCHANGED <<ranking, match, request>>

\* The whole transaction of the edit.  It waits for the lock of every row it
\* writes.  The id of a set row it deletes names no row afterwards (set 0).
CommitEdit(e) ==
  LET body == edit[e].body
      old == edit[e].old_num_sets
      resize == body.num_sets # old
      aligned(m) == SyncCompletedAt(Resized(match[m], old, body.num_sets),
                                    body.play_all_sets)
  IN  /\ edit[e].phase = "gated"
      /\ \A m \in Matches : resize \/ aligned(m) # match[m] => ~Locked(m)
      /\ ~EditsOverlap => /\ \A c \in Clients : request[c].phase \in {"idle", "validated"}
                          /\ old = ranking.num_sets
      /\ ranking' = body
      /\ match' = [m \in Matches |-> aligned(m)]
      /\ request' = [c \in Clients |->
           IF /\ request[c].phase \in {"validated", "locking"}
              /\ request[c].set \in match[request[c].match].rows
              /\ request[c].set \notin match'[request[c].match].rows
           THEN [request[c] EXCEPT !.set = 0] ELSE request[c]]
      /\ edit' = [edit EXCEPT ![e] = Idle]

AbandonEdit(e) ==
  /\ edit[e] # Idle
  /\ edit' = [edit EXCEPT ![e] = Idle]
  /\ UNCHANGED <<ranking, match, request>>

VerbStep(c) ==
  \/ ValidateUnchecked(c) \/ ValidateEnd(c) \/ ValidateScoreEdit(c)
  \/ Begin(c)
  \/ ApplyStart(c) \/ ApplyEnd(c) \/ ApplyReopen(c) \/ ApplyReset(c) \/ ApplyScoreEdit(c)
  \/ Commit(c) \/ Rollback(c)

EditStep(e) == GateEdit(e) \/ CommitEdit(e) \/ AbandonEdit(e)

Next == (\E c \in Clients : VerbStep(c)) \/ (\E e \in Editors : EditStep(e))

Spec == Init /\ [][Next]_vars

-----------------------------------------------------------------------------
(* Properties                                                              *)

\* Every variable keeps its type through every verb and ranking edit.
TypeOK ==
  /\ ranking \in RankingRow
  /\ match \in [Matches -> MatchRow]
  /\ request \in [Clients -> {Idle} \cup Validated \cup Locking \cup Applied]
  /\ edit \in [Editors -> {Idle} \cup Gated]

\* "Set rows can't be left inconsistent with the ranking's num_sets": the rows of
\* every match are numbered 1 to the committed num_sets (update_ranking_by_id).
SetRowsMatchRanking == \A m \in Matches : match[m].rows = 1..ranking.num_sets

\* The progress pointer never runs past the match's set rows: no more sets are
\* completed than exist and the set in progress exists (_lock_match_pointer).
PointerWithin(row) ==
  /\ row.completed_set_count <= Cardinality(row.rows)
  /\ row.current_set_in_progress => row.completed_set_count + 1 \in row.rows
PointerWithinSets == \A m \in Matches : PointerWithin(match[m])

\* completed_at is set on exactly the matches whose derived state is COMPLETED,
\* whichever requests read it before another changed it (recalculate_after_match_change,
\* _sync_completed_at_for_stage_item).
CompletedAtInLine == \A m \in Matches : InLine(match[m], ranking.play_all_sets)

\* Deriving the state from the set rows and deriving it from the pointer agree on
\* every row the verbs leave behind (derive_match_state, derive_match_state_from_pointer).
PointerViewAgrees ==
  \A m \in Matches :
    DeriveMatchState(match[m], ranking.play_all_sets) =
    StateFromPointer(match[m], Cardinality(match[m].rows),
                     IsMatchDecided(match[m], ranking.play_all_sets))

\* Seen from outside, each committed row moves as if requests took effect one at a
\* time: no commit loses or repeats a transition another request committed first.
Lifecycle == INSTANCE MatchLifecycle WITH
  num_sets <- ranking.num_sets,
  completed <- [m \in Matches |-> match[m].completed_set_count],
  running <- [m \in Matches |-> match[m].current_set_in_progress]
ImplementsLifecycle == Lifecycle!LifecycleSpec
=============================================================================
