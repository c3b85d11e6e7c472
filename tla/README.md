# Bracket: a formal model

TLA+ modules that model Bracket: the logic of its backend (`src/backend/bracket`) and
what its pages keep in a browser (`src/frontend/src`), the TLC runs that check them on small
tournaments, and the theorems the TLA+ proof system checks about them for tournaments of any
size. Paths of Python files are relative to `src/backend/bracket`, those of TypeScript files to
`src/frontend/src`, unless they start with `src/`.

## 1. The system

Bracket runs tournaments. A FastAPI server keeps everything in PostgreSQL. There
is no queue and no cache on the server, and no background job touches a tournament: every change
is an HTTP request that reads and writes rows. Requests run concurrently, in
READ COMMITTED transactions or in none at all. The hard part is what follows
from the rows, which is partly *derived* when read (the state of a set, of a
match) and partly *stored and kept in line* (`completed_at`, statistics, the
inputs of later matches, the rounds that standings resolve). The code calls
the latter *Reconciliation* (`logic/reconcile.py`, `src/docs/CONTEXT.md`): after
anything moves standings, one function brings everything else back in line.

The browser keeps copies: one SWR cache per list, read again by polls and by the dialogs that
change something, and on the planning page a prediction of what a move will do. Here the hard
part is that what is shown is always older than what is stored: requests and reads overlap, get
lost, are answered out of order, and forms send back what they were filled with.

| Component | State it keeps | Operations | What makes it correct | What is hard |
|---|---|---|---|---|
| Match verbs, set pointer (`logic/match_sets`, `sql/match*.py`, `models/db/match.py`) | per match `completed_set_count`, `current_set_in_progress`, `completed_at`; per set a row with scores | start, end, reopen, reset, score-edit | the pointer stays within the set rows; the two derivations of the state agree; `completed_at` is set exactly on completed matches; each commit is one legal transition | two score trackers at once; what is read before the row lock is used after it |
| Ranking edits (`routes/rankings.py`, `sql/rankings.py`, `sql/match_sets.py`) | `num_sets`, `play_all_sets`, `draws_allowed`, shared by every match of the stage items that use the ranking | save, with or without force | set rows match `num_sets`; an edit that was not forced never touches a match in play | the gate and the old value are read before the transaction; the edit races the verbs |
| Elimination bracket (`logic/ranking/elimination.py`, `logic/scheduling/elimination.py`) | the two inputs of every match, links to the feeders | cascade after a verb, cascade over the stage item, reset guard | a slot holds a team its feeder sent; a started match keeps its opponents; a waiting match awaits the right ones | results change after they were used; every plan writes both slots from one snapshot |
| Reconciliation (`logic/reconcile.py`, `plan.py`, `apply_plan.py`) | none of its own | `completed_at`, statistics, round resolution, cascade, advance, in this order | nothing stale is left | it runs inside some transactions and outside others |
| Standings (`logic/ranking/calculation.py`) | points, ELO and differences per input | recomputed whole from the matches | equal to what the matches say | concurrent recomputations write stale statistics |
| Standings-resolved rounds (`logic/scheduling/standings_resolution*.py`, `routes/rounds.py`) | `lifecycle_state`, `is_pinned`, inputs of each round | resolve, re-resolve, unwire, swap, delete, set state | rounds resolve in order; a started or pinned round is never re-drawn; everyone plays at most once per round | three ways in, one under an advisory lock |
| Cross-stage advance (`logic/scheduling/handle_stage_activation.py`) | the team of each input that follows another stage item | advance when the source completes, re-advance on correction | the unique (stage item, team) holds at every step; dependents follow the source | swaps, corrections after the dependent started |
| Stage building (`logic/scheduling/builder.py`, `routes/stage_items.py`, `routes/stages.py`) | stages, stage items, rounds, matches | create, rebuild, delete, reassign a ranking | the built structure is what the type demands | several transactions per request |
| Court schedule (`logic/planning/matches.py`) | court, start time and position of each match | optimise (external CP-SAT), reschedule, swap, unschedule, resize a break, another duration | matches of one court do not overlap; what was played stays | the packing; an optimistic 409 that knows the old place only |
| Planning logic (`logic/planning`) | selection, planner mode, the grid's layout, conflicts | taps; prediction; conflict flags and their preview | the prediction is what the server will do; what was played is confirmed; every conflict is seen | the same arithmetic twice, in two languages; passes that each see some of the pairs |
| Planning page (`pages/tournaments/[id]/schedule.tsx`) | SWR cache with an optimistic copy, open requests | tap, poll, revalidate, roll back | no prediction is taken back too early; the page catches up | answers, revalidations and failures in any order; a colleague |
| Score tracking (`logic/score_tracking.ts`, `logic/side_switch.ts`, `components/score_tracking`) | the match as last read, a reminder to switch sides | verbs and points, polls, reminder | what is offered is accepted, but for a start without opponents; no tap is lost; the reminder is due | whole scores are sent; state derived from a sequence of reads |
| Match dialog (`components/modals/match_modal.tsx`) | a form filled from the match | save, verbs | nothing is written that nobody typed | the match changes under the open form |
| Administration pages (`pages`, `components/modals`, `components/forms`, `services`) | one cache per list, the badges of the navigation bar | some forty requests; what each reads again | the page shows what was changed on it | each dialog lists by hand what it made stale |
| Self-signup (`routes/signup.py`) | players, team membership | join, create a team, sign up alone | limits hold | limits are counted before the transaction |
| Teams, players, levels, clubs, tournaments, users, courts, referees | rows | create, update, delete | foreign keys | (de)activating a team reconciles its stage items |

Calls between them: a route validates, opens a transaction, writes, and calls
`reconcile_stage_item`, which calls the standings, the round resolution, the
elimination cascade and the advance, each of which returns a plan that
`apply_plan` writes. A page sends a request through `performMutation`
(`services/adapter.tsx`), which reads the tournament's issues again when it has settled, and then
calls the `mutate` of the caches its dialog names. The planning page hands its request to
`mutate` together with the prediction. `PROJECT.json` lists every component with its status, and
the hazards of the code, each at its line, with the properties that watch it or the reason why none does.

## 2. The modules

| Module | What it is |
|---|---|
| `MatchSets` | One match: set rows, pointer, derivations, resize, the pointer rules of the verbs. Pure operators on a row, shared by the next three modules and the score pages. |
| `MatchVerbs` | The verbs and the ranking edits as concurrent transactions on the matches of one stage item. |
| `MatchLifecycle` | What the verbs promise: requests that take effect one at a time. `MatchVerbs` implements it. |
| `EliminationBracket` | A single elimination: tree, cascade, reset guard, start check, ranking edits, with requests one at a time. |
| `RoundResolution` | A Swiss or Mexicano stage item: how its rounds are drawn, drawn again and taken back, with requests one at a time. |
| `ReconcileRaces` | Verbs on different matches of one stage item as concurrent transactions: what each reads, waits for and writes back. |
| `PlannerSelection` | The reducers of the planning page: what a tap does to the selection, and the request it lets out. |
| `CourtPacking` | Schedules; what the server does with each planning request, and what the browser predicts. |
| `GridLayout`, `ScheduleConflicts`, `ScheduleGrid` | What the grid offers to tap; the conflict engine; the preview of conflicts and what the cards show of them. |
| `CourtSchedule` | A schedule that changes by what the grid offers. Composes the five modules above. |
| `PlannerPage` | The planning page on one device beside a colleague and over a network that loses messages. Composes the reducers, the packing and the layout. |
| `ScoreTracking` | The score tracking page's view, verbs, scores and reminder, and the server's answer. Built on `MatchSets`. |
| `ScorePages` | Score trackers, match dialog, server and network on one match. |
| `AdminOperations` | A catalogue: the requests, what each changes, what each cache shows, which dialog reads what again, which page has which dialogs. |
| `AdminPages` | One organiser on these pages: dialogs, reads, badges and faults. |
| `MatchVerbsProofs` (with `MatchSetsProofs`), `EliminationBracketProofs`, `RoundResolutionProofs`, `PlanningProofs` (the schedule and the planning page), `ScorePagesProofs`, `AdminPagesProofs`, `ReconcileRacesProofs` | Lemmas and theorems. |
| `MCMatchVerbs`, `MCEliminationBracket`, `MCRoundResolution`, `MCCourtSchedule`, `MCPlannerPage`, `MCScorePages`, `MCAdminPages`, `MCReconcileRaces` | Model values, small sets and symmetry for TLC. |

### MatchSets

A row of `MatchRow` is a `matches` row with its `match_sets` rows: `rows` is the set
of set numbers that exist, `score[n]` the score of set n. Scores
are only ever compared side to side, so a score is kept as the side it favours or
`"Draw"`; `completed_at` is kept as "not NULL". `SetState` is the CASE
expression of `sql/match_sets.py`, `DeriveMatchState` and `StateFromPointer` are
the two derivations the code has (`models/db/match.py`, `pointer.py`), and `Resized`
is `_resize_sets_for_matches` with the clipping of the pointer in
`sql_delete_trailing_sets`. `MaxSets` bounds the number of sets.

### MatchVerbs

A request is in one of four phases. *Validated*: the route has read the match
and run its checks, all outside any transaction; what it keeps is the verb, the
match, the set and score of a score-edit and the `completed_at` it saw. *Locking*: the
transaction has sent `SELECT ... FOR UPDATE`; the snapshot of that statement
fixes the COUNT of the set rows, while PostgreSQL re-reads the locked row itself
when it gets the lock. *Applied*: the verb and its reconciliation have written
rows that nobody else sees, and hold their locks. Then `Commit`, or `Rollback`
at any phase for an illegal transition, a deadlock victim or a lost connection.
A ranking edit is *gated* (the 409 check and `old_num_sets`, outside the
transaction) and then commits in one step, waiting for the locks of the rows it
writes. `EditsOverlap = FALSE` restricts the edits to commits that meet no verb in
a transaction and no other edit since their gate: what a single careful organiser does.

Here opponents are known and no match follows another. What the reconciliation writes
besides `completed_at` does not feed back into these rows.

### EliminationBracket

The tree is numbered as a heap: match 1 is the final, match m is fed by nodes 2m
and 2m+1, the nodes from 2^NumRounds on are the teams. The code's ids go the other
way, so "a later round" (`round_.id >`) is "a smaller number" here. `ReconcileMatch` is
`recalculate_after_match_change` with `changed_match_ids`, `ReconcileStageItem` is
the reconciliation of a whole stage item; both plan on one
snapshot (`rows`, `rk`, the unchanged `inputs`) as the code does, and a plan writes
*both* slots of each match it changes. The code computes the changed matches round by round;
`IsCascade` states the same set by its defining equation, which on a tree has
one solution. `Followers` is the whole path to the final: the
code's traversal stops at the first started match, which decides the guard the
same way. Requests take effect one at a time in this module.

### RoundResolution

A `RoundRow` is a `rounds` row with its matches, one to a table. A round that does not
exist keeps the row of a placeholder, so that rows are a total function. `pair[t]` is the
two inputs of a match as a set, `referee[t]` its referee, both empty for NULL. A match is
reduced to its derived state, which the verbs may change as `MatchSets` has it: ending a set
may or may not conclude the match, a score may decide a match in play. The standings
enter the code only as the order in which the pool is paired, so a drawing is *any* pairing of
half the pool, rounded down, at the first tables (`assign_mexicano_pairs_to_slots`,
`assign_pairs_to_slots`), and what is shown holds for every order, for Swiss and
Mexicano alike, and for every rotation of the bye.

`Reconciled` is `auto_resolve_next_round`: take back the resolved rounds that have not started, are
not pinned and have an incomplete predecessor, and *stop*; otherwise draw the first
placeholder whose predecessor is complete, and draw every waiting round again. `FirstResolved`
is the other way in: round 1, from the input side, when an organiser fills the last input
(`AssignTeam`) or a source stage item completes (`AdvanceInputs`). Every verb, ranking edit,
deletion, save of the stage item and (de)activation reconciles in the action itself;
`SwapMatchInputs` and `UpdateRound` do not, as in the code. `form[e]` is a page
with the form of a round open: the form edits the name only, but sends back the
`lifecycle_state` it was loaded with. `active` and `final` are kept per input: `Pool` is
their intersection. Deleting a round shifts positions but not the plan for
`games_per_player`, so `AddRounds` counts from the skeleton and `RoundsBeyond` from what is left.

### ReconcileRaces

The two modules above take requests one at a time; here is what happens when they do not. A
match is its derived state and the side that won, a stage item has two rounds. A request goes
through the statements that read or wait: `Check` (the opponents of a start, the guard of a
reset, outside the transaction), `Lock` (the row of the match; then the stage item is read, once),
`Rank` (the statistics of that reading are written to every input that has a team, which waits
for whoever has written them and not committed), the plan for the other round, `Advance` (the
plan is written, which waits for the rows of the matches it names, and the tournament is read
for the input that follows this stage item), `Commit` or, at any of these, `Rollback`. The plan
of an elimination (`PlanCascade`) is made of the old reading; a Mexicano is read again after the
statistics (`ReadForDraw`), when nobody else can have committed: what `Rank` and the plan do is one
step. A cycle of waits, such as a start of a match that the other request is about to rewrite,
ends when PostgreSQL aborts one of the two, which is `Rollback`.

Points are wins, a drawing is any of `Drawings`, and all teams play in every round. The ELO of
Swiss is computed from the points stored before, so what a Swiss stage item sends on is no function
of its results; its rounds are drawn by the code that draws those of a Mexicano.

### PlannerSelection, CourtPacking, GridLayout

A schedule (`Plans`) gives each match a court (`NoCourt` for the tray), a start in minutes from the
start of the tournament, a length and the state that decides whether it was played. Positions are
not kept: the code writes `position_in_schedule` from the order of the starts with every packing,
so `PositionOf` derives them. `SelectionReducer` and `PlannerReducer` are the reducers of
`logic/planning/selection.ts`; a `Step` is the new selection with the request it lets out, one
request or none. `Handle` is what the route and `logic/planning/matches.py` make of a
request: the checks (400, 404, 409), the moves, and `reorder_all_matches`, which is
`Repacked`: every match keeps its start unless the one before it and the default break run into it.
`Optimistic` is `applyPlanningActions`: it packs the destination only, and a swap exchanges slots.
`GridLayout` has what `layout.ts` derives for the taps: the frozen past (`Locked`), the insertion
lines, the breaks that can be resized.

### ScheduleConflicts, ScheduleGrid, CourtSchedule

Each pass of `conflicts.ts` is an operator that returns a set of pairs *match, kind of flag*; `ConflictFlags`
is their union. A slot is a `stage_item_input`; it has a team, or stands for a place in a stage item that
is not finished, or for the winner of a match. Team members and intervals are what `Overlap` and
`Plays` need of them. `ScheduleGrid` adds the preview (`conflict_preview.ts`: a tap is run through the
reducer, and the flags with its prediction compared with those without), the stage order
of a court, and which icons a card has room for at a height and a zoom.

`CourtSchedule` (`DaySpec`) lets the schedule change by every request the grid offers (`Offered`: two taps and a
confirmation, on a page that is up to date), by another duration, and by verbs. Between two changes nothing
is kept but the schedule, so the requests of one step are those of every selection. Its
properties relate the two sides: prediction and server, preview and outcome, flags and overlaps.

### PlannerPage

`shown` is SWR's cache, `backup` what a prediction stands in for, `fetch` the one revalidation whose
answer counts. SWR gives every `mutate` a timestamp: only the newest change is rolled back or followed by a
revalidation (`Newest`), a revalidation that begins while the newest change is open, or that
was begun before it, is `void`, and a replaced one still ends a prediction when it is answered
(`strays`). A tap is a step of the reducer; `Ask` shows the prediction and sends the
request; `Accepted` and `Rejected` are the two ends of `handlePlannerEvent`. `Poll` is the
interval of `polling.ts`, which stands still while something is selected; `Retry` is SWR's retry
after an error. `ServeRequest` is `Handle` on the schedule as it is then; `LoseRequest`,
`LoseAnswer`, `LoseFetch` are the faults; `ColleagueMoves` is everything a second organiser or a tracker may do.

### ScoreTracking, ScorePages

`TrackedMatches` keep points, since the reminder counts them; `Row` maps a match to the rows of
`MatchSets`, so that the states the page sees are the server's. `ViewKind`, `OfferedVerbs` and `OfferedScores` are
`getScoreTrackingViewState` and the buttons of `views.tsx`, `NextReminder` is the effect with
`computeSideSwitchState`. `Legal` is all that the routes of the verbs check: the pointer
(`pointer.py`), draws and, from `Neighbours`, what the other matches make of this one. A match that has not
started is only started when both opponents are determined (`validate_match_can_be_started`, 400; `Unopposed`), and
none is reset while a match that depends on it has started (`_get_started_downstream_matches`, 409). `Applied`
is what an accepted verb does.

In `ScorePages` a device shows the score tracking page (`Trackers`) or the planning page with the match dialog
(`Organiser`). `Tap` sends what the page shows, changed by one step; the page takes no further tap until the
request is over and the match was read (`asking`, `answered`, `refreshing`). `PlayElsewhere` lets the other
matches change `neighbours` at any time: the opponents become known and unknown while the match has not started,
as cascades leave a started one alone; a match that blocks the reset comes and goes as it likes. Which
matches those are is the matter of `EliminationBracket` and `RoundResolution`. The dialog keeps its
`form` and the match the page under it shows; saving sends the scores that differ, one after the other, then the
verb; an error is shown and the next request is sent (`handleRequestError` does not
throw). Left out: what is typed is typed when the button is pressed; the
dialog has one chain of requests at a time, though its Save button is not disabled during a verb;
a poll that reads what is shown already; what `updateMatch` changes after the scores.

### AdminOperations, AdminPages

Data is cut into *aspects* ("members", "player names"): a request changes some, a cache shows some,
and a cache that shows an aspect an own request has changed is *behind* on that request until it is read again.
`AdminOperations` is the catalogue: one definition per service function, per dialog (its request, and in order the sets of
caches it reads again), and per page (its caches and dialogs). An `Uncaught` request is one with
`catchErrors: false`: its error ends the dialog, and neither the issues nor the caches are read.

In `AdminPages` a dialog's request is `Serve`d, `Refuse`d (what was written half-way stays) or lost, and each `Follow` is
its next read. A read that is under way is replaced by a dialog's and joined by a page that opens (SWR's
dedupe). Only reads of the `slow` caches take time; the others are answered at once.
A request whose connection breaks has been handled by then or never will be; focus revalidation,
SWR's two-second window of equal reads and deleting a tournament are left out, and the several requests of
`AutoAssign` are one.

## 3. The runs

| Run | Instance | What it shows |
|---|---|---|
| `verbs_quiet` | 1 match, 2 clients, 1 editor, 1 or 3 sets, any flags, level or decided scores, force given or not | With edits in quiet, the rows, the pointer, `completed_at` and both derivations agree at every commit, and the commits implement `MatchLifecycle`. |
| `bracket_four` | 4 teams, 1 or 3 sets, draws wherever the server accepts them, any score of the first set, edits always forced | Requests in any order keep slots, opponents and followers consistent when results come and go by reopening, flipping, deciding and forced resizing; an edit brings the winners it decides. |
| `rounds_dropouts` | 4 inputs, 2 rounds, 2 teams drop out and return | Surplus matches are cleared and filled again, started and swapped rounds stay, the first open round can be played to its end. |
| `rounds_bye` | 3 inputs, 1 filled by hand, 3 rounds of at most 4, deletions, any round count | The order of the rounds holds while rounds are deleted, added and removed under play, and no request that takes no round back leaves the stage item waiting for a drawing. |
| `rounds_forms` | 4 inputs, 2 rounds, 2 sources, 1 form | Nobody is drawn twice, even when a form sends an old lifecycle back. |
| `reconcile_races` | 2 clients, 2 and 2 matches (1 in the second round of an elimination), all three types, one match with either winner | No order of reads, waits, commits and rollbacks loses the advance of the leader, the drawing of the next round or the pair of a match that starts meanwhile. |
| `reconcile_lost_finalist` (violated) | 2 semifinals and a final | Both semifinals end at once: the statistics lack the first result, the final lacks the first finalist. |
| `schedule_moves` | 4 matches of 2 stage items, 2 courts, lengths 10 and 15, breaks 0 and 10, from an empty schedule, a full one and a day under way, 2 changes | Courts never overlap; the browser predicts the server; fresh requests are accepted; what was played stays; the preview is the outcome; who is needed twice, and who waits for whom, is flagged; every flag is on the card. |
| `planner_page` | 2 matches, one played and one in the tray, 1 court, 2 requests of two taps each, 3 requests, losses and changes by the colleague in all | A prediction stands until its answer; a page at rest shows a schedule that was real, and in the end the current one; a played match stays on its court. |
| `score_tracker` | 2 trackers, or 1 and the organiser, a best of three that has not started or is between its first and second set, with opponents and followers that change, 3 taps, saves and faults in all | What is offered is accepted but for a start without opponents, a reminder is due, a lone tracker counts every tap, all pages end up with the match and with their buttons enabled. |
| `modal_writes_back` (violated) | 1 tracker and the organiser | The dialog writes back the score of a set nobody typed in, when a tracker has scored since it was opened. |
| `admin_pages` | all ten pages with their 42 dialogs, 2 requests, or 1 and 2 changes of page or failed reads, 1 slow cache of five | Once nothing is under way, the page and its badges show what was changed on it, but for what a dialog is listed to forget. |

The violated runs state what a comment or docstring of the repository says and
what the code does not do; `PROJECT.json` quotes the lines. Each needs two actors.

Deadlock is checked where a request is always possible or a page polls for ever: the first seven
runs and `planner_page`. In the others the steps are bounded and every device may be done, so
the behaviour ends.

### What the modules also have

Behaviours the code has and no run singles out, found while modelling; some of them are exceptions
in the properties.

*Verbs and edits*, with edits that overlap: a start that waited behind an edit that removes sets
puts a set in progress that was deleted (`sql/matches.py:399`, against `models/db/match.py:67-69`); set rows that
do not fit after two edits that read the same `num_sets`, a wrong `completed_at` after an edit of
`play_all_sets` beside an uncommitted verb, an edit that was not forced and meets a set
started since its gate; and, with or without edits, a best of three that completes level.

*Bracket*: when a follower is reset after its feeder's winner was flipped under it, it waits
with the team that lost; a forced edit that makes a result undecided leaves the finalist in place.

*Rounds*: with round 1 reopened under a complete round 2, reconciliations take round 3 back and
draw it again in turns; round 1 is drawn when the first of two sources completes; a
started round renamed from a page loaded while it was a placeholder is drawn again (hence the
assumption `Editors = {}` of several theorems); the early end of a take-back leaves
the round it took back a placeholder, though its predecessor is complete, when a later round was pinned meanwhile,
until another request reconciles; a
deactivated team stays in a waiting round when the same request takes another round back,
and the former bye may be drawn into the match it referees.

*Concurrent verbs*: opponents are checked before the transaction of a start, so a match can start just
after another request has emptied its slot, with nobody in it; the pairs of a Mexicano may be drawn from
standings that the next commit replaces, and stay once the round has started.

*Schedule and planning logic*: a match of the frozen past that is selected before one of the tray is
swapped without a confirmation (`selection.ts:213`, against `selection.ts:9-11`); on a court with a break
shorter than the default, a placement moves played matches,
though `layout.ts:95-98` says a repack never does, and predictions differ there and for a swap of
unequal lengths (`optimistic.ts:4-7`); `feeder_precedence` looks at the earliest match of the dependent
stage item, whichever of its matches depends on the source (`conflicts.ts:334-362`); a chain of dependence with
its middle match in
the tray is not flagged; nor is a team that is known on one side of a half-known match and plays meanwhile in another
slot; a card shows no icon for the clash of a referee slot without a name, and
the overview none for the round order (`schedule_grid.tsx:646-656`).

*Planning page*: a 409 follows only when the old place has changed, so a move onto a destination that
changed is accepted (against `polling.ts:10-13`), and an organiser's own overlapping
requests cause one too; a poll under way when a match is selected moves the grid under
the finger; an older request that finishes after the newest is not read until the next poll.

*Score tracking*: both pages offer the start of a match whose opponents are not determined
(`views.tsx:459-486`, `match_modal.tsx:389`), which the server refuses with 400, and the dialog offers the reset of a
match whose follower has started, answered with 409, and the end of a level set where draws are not allowed,
answered with 400; two trackers of one match lose a point; an End sent from an old view ends the
set after it; a reminder is missed when two points arrive in one poll (`side_switch.ts:31`) or hidden
by an unrelated change of the match; reopening a set shows an acknowledged reminder again.

*Administration*: `performMutation` reads the issues "after the request settles" (`adapter.tsx:149-151`,
and `services/tournament.tsx` has it unconditional), but not when a request that does not catch its errors fails, so badges
and caches stay old when only its answer was lost. Some dialogs forget a cache their page shows (`Forgets`):
the available inputs after another ranking or team count of a stage item or the first stage, the
player options after several teams were created, the stages after a team's name or logo or a ranking.
Opening a page again joins a read that an earlier visit began and that may be older than a
change; a page left while its dialog is under way can leave the next page old.

### Why the bounds are enough

Verbs of different matches touch disjoint rows and only
meet in the reconciliation's bookkeeping, so one match with two clients has every
interleaving of statements; one set and three sets differ in everything the code
distinguishes (`len(sets) <= 1`, a majority before the last set, a clip below, at and above
the pointer), two sets add only levels that draws already give. Four teams have a
match with two feeders and a cascade of one step. In `bracket_four` only the first set
is scored, so a match of three sets is decided by it or by an edit to one set, and never by
a majority of two (`verbs_quiet` has those). A cascade of two steps needs eight teams, more states than a run has time
for; all six properties are proved for a bracket of any size. Two rounds also leave out that the plan of
a ranking edit for a later round writes over that for an earlier one: that `EditBringsWinners` and
`NobodyPlaysTwiceInARound` hold then as well rests on the theorems alone.

A round relates to the one before it and to all before it, so three rounds have
every case of the policy (`rounds_bye`); two suffice where dropouts or forms multiply the states.
Four inputs have two tables, the least at which a dropout leaves a surplus match and at which
pairs can be swapped; three have a bye and none to spare. `DropOuts` has at most two
members, so that `FirstOpenRoundIsPlayable`, which presupposes two active teams and no
tentative input, speaks of every state of `rounds_dropouts`. In `rounds_bye` two of the three inputs last, so a pair
can always be drawn. `MaxRounds` bounds the ids of rounds: when it
is used up, `UpdateStageItem` adds none. The symmetry permutes the inputs that
no request names (`InputSymmetry`); the properties do not tell inputs apart.

In `reconcile_races` two clients have every way for one transaction to read before and wait for another;
a third could only wait as well, and the theorems have any number. Two matches complete the first round
together or apart. One match of each round can be taken back and one has two possible winners (`VerbsOfOne`,
`OpenMatch`); the others add permutations of these.

In `schedule_moves` the four matches have every relation the conflict engine knows: two in a group that
share a team and a slot, one fed by the group's ranking, one fed by that one's winner, each with a
referee that plays elsewhere. `MaxSteps = 2` changes start from an empty schedule, a full one without conflicts,
and a day under way with a short break, a match that is over, one that is played and one in the tray; so there are
crowded courts, breaks made shorter (0), kept and longer (10 against the default of 5), lengths that
do and do not fit a gap, and played prefixes. A longer day adds no new kind of schedule, and the theorems have
any number of changes. One height for each number of
lines a card may have (`Heights`).

`planner_page` has two matches because a prediction, its roll-back and a colleague's move need two
places to tell apart: one match that is played on the court and one in the tray have a placement, a
swap that must be refused and a card that goes stale. Two requests are the least that overlap, and a third only repeats
"older than the newest", which the theorems about the page have for any number. `MaxEvents = 3`
leaves a loss or a colleague's move beside both requests. `MoveMode` lets requests out from two taps; the
other modes send the same kinds of requests.

In `score_tracker` the match has not started, so that its opponents matter, or is between its first and
second set of three: from there a set is won, reopened, the match decided early or played to its last set, whose limit
is another. `modal_writes_back` starts in the second set as well (`LateMatches`). `Steps` raises one side and
lowers the same or the other, `SideSwitchEvery = 2` makes every other point due.
`MaxEvents = 3` taps, saves and faults, `MaxSaves = 1`, `Corrections` one point.

In `admin_pages` a property speaks of one cache at a time. What the reads of *other* caches do
to it is to delay the next read of a dialog, and interleaving delays it anyway; so `MaxSlow = 1`.
`SlowCaches` has the caches that dialogs forget (`stages`, `inputs`, `freePlayers`), the one of the badges (`issues`) and
one that a refused request leaves changed half-way (`teamsPage`); the others go through the same steps. `Events`
weighs a request twice, a change of page and
a failed read once, and `MaxEvents = 4` bounds the sum. The two theorems do not depend on these bounds.

### Fairness

The backend alone has none: nothing acts on its own, so nothing must eventually happen. The
pages do: `planner_page` and `score_tracker` assume weak fairness of the server's answers
(`Responding`, `Serving`) and of the page's reads (`Revalidating`, `Reading`). The first is HTTP with a time limit: a
request ends, if in an error. The second is justified by timers: both pages set SWR's `refreshInterval`, and
SWR tries again after an error. Taps, losses and a colleague's moves are not fair. Under it `Converges` says
that the pages catch up.
On the planning page it presupposes that the organiser stops placing, because polling pauses
while something is selected. The same pause bounds what is assumed of the match dialog: `PollBoard` is fair for a dialog
that was opened by a tap in the edit mode, which leaves nothing selected. One opened from the pill
of a selected match shows it as it was until the selection is gone, and one on the results page, which does
not poll, the match as it was when it was tapped (`results.tsx:53`): there the conjunct of `Converges` about
the dialog is not claimed, the one about the trackers is.

## 4. The proofs

All theorems hold for every value of the constants under the ASSUMEs of the
modules (`MaxSets` positive, the sets of inputs subsets of their types, bounds that are numbers). tlapm
checks every leaf.

`MatchVerbsProofs`:
- `TypeCorrect`: `Spec => []TypeOK` for any matches, clients and overlapping edits.
  The invariant is that every row that is stored or about to be is *fitting*: of
  its type, its count of set rows within `MaxSets`.
- `RowsMatchRanking`, `PointerStaysWithinSets`, `CompletedAtStaysInLine` and `ViewsAlwaysAgree`
  (`SetRowsMatchRanking`, `PointerWithinSets`, `CompletedAtInLine`, `PointerViewAgrees`), with
  `EditsOverlap = FALSE`. The properties are not inductive:
  a commit installs rows computed earlier. The strengthened invariant says of
  every uncommitted write that it is aligned with the ranking as it
  stands and one pointer transition away from the row it will replace, that no two
  requests hold the same row, and that the count of a waiting request is the current one.
- `VerbsImplementLifecycle`: the same invariant maps every step of `MatchVerbs` to
  a step of `MatchLifecycle` or to a stutter.

`EliminationBracketProofs`:
- `BracketTypeCorrect`, `SlotsComeFromFeeders` (`SlotComesFromFeeder`), `StartedMatchesHaveOpponents`
  (`StartedHasOpponents`) and `StartedMatchesKept` (`StartedMatchKeepsOpponents`), for any number of rounds. The invariant
  adds to these that pointers are aligned with the set rows, so that "not started" means
  that the pointer stands at the start. The two parts need each other: a started match keeps
  its opponents because cascades skip it, a slot keeps naming a team of its feeder because the
  feeder's teams no longer change, and a reset does not break this because its guard
  finds the follower. `FittingKeepsInv` says what a reconciliation must guarantee,
  `MatchCascade` and `StageItemCascade` that the two reconciliations do, and
  `BracketStep` has one step per request.
- `NobodyPlaysTwice` (`NobodyPlaysTwiceInARound`): a team in a slot is in a slot of the feeder
  below (`TeamFromBelow`, from `SlotComesFromFeeder`), and the slots of the first round stay as they were drawn
  (`LeavesInvariant`). Hence the path down from a slot ends at the one leaf of its team
  (`LeafIsBelow`), and of the nodes above a leaf each round has one (`OncePerLevel`). Both descents are by a
  least counterexample, since induction over data is out of the prover's reach.
- `VerbsRealignFollowers` (`VerbRealignsFollower`): every row is in line with its own state
  (`AllInLine`), so a request that keeps the ranking changes the row of its own match only, and that match's plan reaches
  the match it feeds (`ReconciledFeeds`). A decided match without a winner is level, because it has both opponents.
- `EditsBringWinners` (`EditBringsWinners`): a decided feeder is a seed of the plan of its own round
    (`InSomeRound`), so that plan writes its winner or finds it in place. The plans of later rounds are written
  after it, but do not
    reach the match it feeds (`LastPlanHasFeeder`); and where the winner is in place already, no other plan
  takes it out. That the rounds of 1, 2, 4, ... matches cover the tree needs
  that a power of two doubles (`TwiceThePower`), which is read off the number of subsets.

`RoundResolutionProofs`:
- `RoundTypeCorrect` and `NobodyPlaysTwice`, for any inputs, rounds, sources, dropouts and forms.
  The invariant of the second is that the pairs of *every* row are disjoint: a drawing replaces
  all pairs of a round, a swap exchanges two, the form of a round touches none.
- `StartedRoundsKept` and `PinnedRoundsKept`: `StartedRoundKeepsPairs` and
    `PinnedRoundKeepsPairs` under the assumption `Editors = {}` (no form of a round is open), without which the
  first is false.
  The invariant is `OrderlyRounds`: a placeholder has no pairs, no
  started match and no pin. Only it makes the policy safe, because `get_next_round_to_resolve`
  looks at the lifecycle alone and would draw a started or pinned placeholder.
- The argument has two layers. `ReconciledRows` and `FirstResolvedRows` say that a
  reconciliation touches waiting rounds and placeholders and no others;
  `RedrawnPreserved` that this preserves what a row promises; then one lemma per
  request says what the request itself does to the rows before (`NextKeeps`).
- `WaitingRoundsFollow`, `OpenRoundsCanBePlayed` and `OpenRoundsStayDrawn`: `WaitingRoundFollowsComplete`,
  `FirstOpenRoundIsPlayable` and `OpenRoundStaysDrawn`, under `Editors = {}` and `SomePairLasts`: two inputs
    at least are never missing, tentative or dropped out, because a pool of one draws rounds without a match,
  which count as complete at
  once. The invariant `InLine` has three parts: a drawn round has a pair at a table that is not surplus (`SeatedRows`), a
    waiting round follows complete ones (`FollowsComplete`), and nothing waits behind an open placeholder
  (`FollowsDrawn`). The last
  is why the early end of a take-back is harmless: it takes back a whole tail, so what is left open
    is drawn. `ReconciledInLine` has this for the policy, and one lemma per request that the policy finds, or
  leaves, the rounds so.

`PlanningProofs`, about the schedule of a day (`CourtSchedule`), for any matches, courts, lengths, breaks,
stages and teams:
- `CourtsNeverOverlapAlways` (`CourtsNeverOverlap`), if the day is `Roomy`: no two matches overlap at first and
none is given
  a length of 0, which the form for a match allows (`match_modal.tsx:235-241`). `Repacked` is a recursive function along
  a court; that each of its starts exists and follows the one before is by a least counterexample
    over the order of the keys (`RepackedIs`, `PackedIsSpacious`). `DayStepKeeps` carries `PlanTyped` and
  `Spacious` through every request.
- `ActionsAreForeseen` (`ActionsPredicted`): server and browser order the matches of the destination by
different keys, the position read
  from the database (`PlacedKey`) and the place in the list without the moved match (`InsertedKey`). They are in
    the same order (`PlacedKeysAgree`), and schedules packed in the same order are the same
  (`SameOrderSamePack`). The browser leaves the
    court of origin alone, and the server's repack of it moves nothing where each break is the default at least
  (`StaysAhead`).
- `FreshRequestsAreAccepted` (`FreshRequestsAccepted`), `PlayedAlwaysKeepSlots` (`PlayedKeepSlots`) and
    `PreviewAlwaysMatches` (`PreviewMatchesOutcome`) rest on the shapes of what the grid offers: which request
  each selection and
  confirmation lets out, from which place, and behind what was played.
- `DoubleBookingsAreSeen`, `ChainsOfDependenceAreSeen` and `EveryConflictIsShown` (`DoubleBookingsSeen`,
`ChainsOfDependenceSeen`,
  `EveryConflictShown`) go through the passes of the conflict engine and through the icons of a card. They hold
  of every schedule; that a `NoTeam`, `NoSlot` or `NoItem` is none of the teams, slots and items is an ASSUME.

and about the planning page (`PlannerPage`), for any matches, requests, losses and colleagues:
- `PredictionStandsAlways` (`PredictionStands`): the invariant adds that requests have different numbers up to
the newest, and that while
  the newest is open the revalidation that counts is void. So nothing that is received
  can be drawn, only the failure of the newest request takes the prediction back, and it ends with it. The
  argument uses nothing of `Handle` and `Optimistic`: it is about the cache alone.
- `PageStaysTyped` (`TypeOK`) and `PlayedAreKeptOnCourt` (`PlayedStayOnCourt`), from `PageTyped`, which says of
  every request under way that it is one a planner can make, on whatever schedule it was drawn from; `Handle` then
  keeps a schedule one, and what was played on its court.
- `SettledIsAlwaysReal` (`SettledIsReal`), from `SettlingInv`: whatever is shown, kept for a roll-back or about to be
  received is a schedule the database has held, or a request is open that will end the prediction.

`ScorePagesProofs`:
- `PagesAlways`: the invariant the others rest on. `PagesTyped` (`TypeOK`), `RemindersDue`
(`ReminderMeansSwitchDue`) and `OfferedAccepted` (`OfferedVerbsAccepted`), for any
  devices, sets, points and rules. The last compares two derivations: `ViewOfPointer` says what the page
    shows in terms of the pointer, `OfferedLegal` and `DialogLegal` that each button then meets the server's
  rule, whatever the other matches are, but for a start without opponents. The invariant
  says that what is remembered by a reminder is the score of the set that is shown.
- `LoneTapsCount` (`LoneTrackerCountsAll`): for a device that tracks alone and without faults, `TapsCount` relates what
  was tapped to what is stored, under way or answered and not yet read, in each stage of a tap. A start that is refused for want of opponents (`RefusedStart`) changes nothing and counts for
  nothing.

`AdminPagesProofs`:
- `OwnChangesAlwaysShown` and `BadgesAlwaysCount` (`OwnChangesShown`, `BadgesCount`), for any requests, losses,
  visits and slow caches. The properties only speak of rest; the
  invariant says why rest is safe: while an open page's cache is behind on a request, or the read under way misses it,
  either that read will be followed by one of the request's dialog (`Owes`) or the cache is excused (`Excused`).
  A read is started or replaced after the change and so misses nothing
  (`FollowKeeps`), what changes meanwhile joins what the read misses (`SettleKeeps`).
- Its first half is about the code's lists: for each dialog of each page, every cache
  of the page that shows an aspect its request changes is read by it, or forgotten (`OffersFollowed`).

`ReconcileRacesProofs`:
- `AdvanceAlwaysSent` (`AdvanceNotLost`), `NextRoundAlwaysDrawn` (`NextRoundDrawn`), `StartedPairsKept`
    (`StartedKeepsPairs`) and `RacesTypeCorrect`, for any clients, matches, teams and drawings. Nothing in the
  code locks the stage
  item; what serialises its reconciliations is that each writes the statistics of all its inputs. The invariant
  says so: one transaction at a time has ranked them (`Exclusive`), what it has planned is sound
  for what it will commit (`PlansInv`, `Leading`), and it can plan so because what it reads
  from then on is all there is. `RankKeeps` has this once for all plans. A plan made of the
  reading before has no such argument, and `reconcile_lost_finalist` shows what becomes of it.

Model-checked only are the two `Converges`, since liveness under fairness is out of the prover's reach, and
the properties of the violated runs, which do not hold. All other properties of the runs are theorems. No module that
is proved about has a RECURSIVE operator; recursion is by functions, and what they compute is shown by least
counterexamples, since the induction theorems of the library cannot be instantiated.

## 5. Not modelled, and the plan

Left out of the components that are modelled, beyond what section 2 names: creating and deleting
rankings on the server; reassigning a stage item to another ranking, which resizes without the gate;
names, points and wording; the `start_time` check of the score tracking token; inputs of
a bracket that are not yet known when it is built; changing the number of teams of a stage item;
referees set by hand; in `RoundResolution` the requests whose several transactions another request can
meet half-way, and the `ACTIVE` and `LOCKED` lifecycles, which the rounds of these stage
types are never built with; the solver (external CP-SAT), its inputs and weights; gestures, zoom anchors, ruler
ticks, highlighting; in `AdminPages` the planning page's polling, which `PlannerPage` has, and the
match dialog's referee options.

Not modelled as components, for these reasons. The generated client (`openapi/*.gen.ts`, a quarter of the
TypeScript lines) is types and one-line calls. The greater part of the pages and components
is JSX that lays out one answer: it has no state, no order of events and no rule that
could be wrong otherwise than by looking wrong; dashboards, presentation screens, sign-up and login pages,
tables, styling. Of a
component with behaviour the modules take the handlers and effects, so the lines the map covers are a fraction of
its file, and a share of a third of all TypeScript lines could only be had by claiming markup. Access
control and cron jobs are a check and a deletion; the database schema is
declarations whose constraints are guards here.

Next, in this order:

1. An abstract specification of `RoundResolution`, *rounds resolve in order and freeze when they
   start*, that it implements when no form is open.
2. `InputAdvance`: assignments between stage items, `ordered_team_assignment_writes` against
   the unique constraint, corrections of a source whose dependents have started.
3. In `ReconcileRaces`: a round swapped or deleted half-way, dropouts and ranking edits beside verbs, a third round.
4. `Algorithms`: circle method, Swiss and Mexicano skeletons, pairing with byes, the stages built
   from a template (`logic/planning/template.py`, mirrored by the wizard's preview), as functions
   checked against reference definitions over bounded inputs.
5. `Signup`: limits counted before the transaction that inserts.
