----------------------------- MODULE ScorePages -----------------------------
(***************************************************************************)
(* A match that is tracked: the score tracking page on several devices,    *)
(* the match dialog of the organiser, and the server all of them change    *)
(* it through.  Each page draws what it last read; requests may get lost   *)
(* or be answered by nobody and still be handled, pages may be reloaded.   *)
(***************************************************************************)
EXTENDS ScoreTracking

CONSTANTS Trackers,         \* devices that may show the score tracking page
          Organiser,        \* the device of the organiser
          Crews,            \* bound: who has the match open, sets of devices
          InitialMatches,   \* what the match may be when the pages are opened
          Steps,            \* bound: the taps on + and -, sets of <<slot, delta>>
          Corrections,      \* bound: the slots a correction in the dialog is for
          MaxSaves,         \* bound: submissions of the dialog
          MaxEvents         \* bound: taps, submissions of the dialog and faults

ASSUME PagesAssumption ==
    /\ \A m \in InitialMatches : m \in FittingMatches
    /\ Steps \subseteq Slots \X {-1, 1} /\ Corrections \subseteq Slots
    /\ Organiser \notin Trackers

VARIABLES match,            \* the match in the database
          neighbours,       \* what its other matches make of it
          page,             \* per tracker: view, stage and the request it awaits
          fetch,            \* per tracker: the read whose answer counts, none or one
          reminder,         \* per tracker: the reminder to switch sides
          requests,         \* requests of the trackers the server has not handled
          dialog,           \* the match dialog
          taps, saves, faults,
          tally, hands      \* history: the match if every tap had counted, who tapped

tracked == <<page, fetch, reminder>>
counts  == <<taps, saves, faults, tally, hands>>
vars    == <<match, neighbours, tracked, requests, dialog, counts>>

Tracking == DOMAIN page

AnotherEvent == taps + saves + faults < MaxEvents

-----------------------------------------------------------------------------

NoForm == [n \in SetNumbers |-> [slot \in Slots |-> 0]]

\* edits: the sets whose score is still to be sent, one after the other, before the verb.
Closed == [stage |-> "closed", form |-> NoForm, shown |-> {}, typed |-> {},
           edits |-> {}, verb |-> "none"]

Fresh(m) == [view |-> m, stage |-> "ready", awaits |-> 0]

Init ==
    /\ match \in InitialMatches
    /\ neighbours \in Neighbours
    /\ StateOf(match) # "NOT_STARTED" => neighbours.opponents_known
    /\ \E crew \in Crews :
         /\ page = [t \in crew \cap Trackers |-> Fresh(match)]
         /\ fetch = [t \in crew \cap Trackers |-> {}]
         /\ reminder = [t \in crew \cap Trackers |-> FirstReminder(match)]
         /\ dialog = [Closed EXCEPT !.stage = IF Organiser \in crew THEN "closed" ELSE "absent"]
    /\ requests = {}
    /\ taps = 0 /\ saves = 0 /\ faults = 0
    /\ tally = match /\ hands = {}

-----------------------------------------------------------------------------
(* A tracker *)

\* What the tap means, whatever the page shows: a point is a step.
Meant(t, ask) ==
    IF ask.verb # "score_edit" THEN Applied(tally, ask)
    ELSE [tally EXCEPT !.points[ask.set] =
            [slot \in Slots |->
               LET step == ask.points[slot] - page[t].view.points[ask.set][slot]
               IN IF tally.points[ask.set][slot] + step < 0 THEN 0
                  ELSE tally.points[ask.set][slot] + step]]

Alone(t) == hands \subseteq {t} /\ faults = 0 /\ saves = 0

\* While an action is saved every button that asks for one is disabled.
Tap(t) ==
    /\ page[t].stage = "ready" /\ AnotherEvent
    /\ \E ask \in OfferedVerbs(page[t].view) \cup OfferedScores(page[t].view, Steps) :
        /\ requests' = requests \cup {[id |-> taps + 1, from |-> t, ask |-> ask]}
        /\ tally' = IF Alone(t) THEN Meant(t, ask) ELSE tally
    /\ page' = [page EXCEPT ![t].stage = "asking", ![t].awaits = taps + 1]
    /\ taps' = taps + 1 /\ hands' = hands \cup {t}
    /\ UNCHANGED <<match, neighbours, fetch, reminder, dialog, saves, faults>>

\* The page goes on when its request is over, however it ended.
Over(ids) ==
    page' = [t \in Tracking |-> IF page[t].stage = "asking" /\ page[t].awaits \in ids
                                THEN [page[t] EXCEPT !.stage = "answered", !.awaits = 0] ELSE page[t]]

\* The start of a match without opponents is refused, so that it was not to count.
Serve(r) ==
    /\ match' = Answer(match, neighbours, r.ask)
    /\ tally' = IF Unopposed(match, neighbours, r.ask)
                THEN [tally EXCEPT !.current_set_in_progress = FALSE] ELSE tally
    /\ requests' = requests \ {r} /\ Over({r.id})
    /\ UNCHANGED <<neighbours, fetch, reminder, dialog, taps, saves, faults, hands>>

\* Mutant: the refresh after an action joins a read that is under way.
RefreshJoins(t) ==
    /\ page[t].stage = "answered"
    /\ page' = [page EXCEPT ![t].stage = "refreshing"]
    /\ fetch' = [fetch EXCEPT ![t] = IF @ = {} THEN {match} ELSE @]
    /\ UNCHANGED <<match, neighbours, reminder, requests, dialog, counts>>

\* The refresh after an action takes the place of a read that is under way.  A
\* read is the match at the moment the server answers it; until then it is as
\* good as not begun.
Refresh(t) ==
    /\ page[t].stage = "answered"
    /\ page' = [page EXCEPT ![t].stage = "refreshing"]
    /\ fetch' = [fetch EXCEPT ![t] = {match}]
    /\ UNCHANGED <<match, neighbours, reminder, requests, dialog, counts>>

\* Every two seconds, and again after a read that failed; a page at rest that
\* reads the match it shows already draws nothing anew.
Poll(t) ==
    /\ fetch[t] = {} /\ (page[t].view # match \/ page[t].stage = "asking")
    /\ fetch' = [fetch EXCEPT ![t] = {match}]
    /\ UNCHANGED <<match, neighbours, page, reminder, requests, dialog, counts>>

Saved(stage) == IF stage = "refreshing" THEN "ready" ELSE stage

\* A match that is read as it was known draws nothing anew.
Receive(t) ==
    \E m \in fetch[t] :
        /\ fetch' = [fetch EXCEPT ![t] = {}]
        /\ page' = [page EXCEPT ![t].view = m, ![t].stage = Saved(@)]
        /\ reminder' = IF m = page[t].view THEN reminder
                       ELSE [reminder EXCEPT ![t] = NextReminder(@, m)]
        /\ UNCHANGED <<match, neighbours, requests, dialog, counts>>

SwitchSides(t) ==
    /\ reminder[t].shown
    /\ reminder' = [reminder EXCEPT ![t] = Acknowledged(@)]
    /\ UNCHANGED <<match, neighbours, page, fetch, requests, dialog, counts>>

-----------------------------------------------------------------------------
(* The other matches *)

\* They are played, reopened and reset.  What decides them fills and empties the slots
\* of a match that has not started; matches that would block a reset come and go.
PlayElsewhere ==
    /\ \E n \in Neighbours :
         /\ n # neighbours
         /\ StateOf(match) # "NOT_STARTED" => n.opponents_known = neighbours.opponents_known
         /\ neighbours' = n
    /\ UNCHANGED <<match, tracked, requests, dialog, counts>>

-----------------------------------------------------------------------------
(* Faults *)

Faulty == AnotherEvent /\ faults' = faults + 1 /\ UNCHANGED <<taps, saves, tally, hands>>

LoseRequest(r) ==
    /\ Faulty /\ requests' = requests \ {r} /\ Over({r.id})
    /\ UNCHANGED <<match, neighbours, fetch, reminder, dialog>>

\* The error is shown and the page goes on; the server may handle the request later.
BreakConnection(r) ==
    /\ Faulty /\ page[r.from].stage = "asking" /\ page[r.from].awaits = r.id
    /\ Over({r.id})
    /\ UNCHANGED <<match, neighbours, fetch, reminder, requests, dialog>>

\* Mutant: a page whose read failed goes on saving.
LoseFetchStillSaving(t) ==
    /\ Faulty /\ fetch[t] # {}
    /\ fetch' = [fetch EXCEPT ![t] = {}]
    /\ page' = [page EXCEPT ![t].stage = IF @ = "refreshing" THEN "asking" ELSE @]
    /\ UNCHANGED <<match, neighbours, reminder, requests, dialog>>

LoseFetch(t) ==
    /\ Faulty /\ fetch[t] # {}
    /\ fetch' = [fetch EXCEPT ![t] = {}]
    /\ page' = [page EXCEPT ![t].stage = Saved(@)]
    /\ UNCHANGED <<match, neighbours, reminder, requests, dialog>>

Reload(t) ==
    /\ Faulty
    /\ page' = [page EXCEPT ![t] = Fresh(match)]
    /\ fetch' = [fetch EXCEPT ![t] = {}]
    /\ reminder' = [reminder EXCEPT ![t] = FirstReminder(match)]
    /\ UNCHANGED <<match, neighbours, requests, dialog>>

-----------------------------------------------------------------------------
(* The organiser and the match dialog *)

\* The organiser's page polls too.  What it read before the dialog opens is left
\* out: the dialog may as well have been opened then.
OpenDialog ==
    /\ dialog.stage = "closed"
    /\ dialog' = [Closed EXCEPT !.stage = "open", !.form = match.points, !.shown = {match}]
    /\ UNCHANGED <<match, neighbours, tracked, requests, counts>>

Shown == CHOOSE m \in dialog.shown : TRUE

\* The planning page polls while nothing is selected, as when the dialog was opened
\* by a tap in the edit mode.
PollBoard ==
    /\ dialog.stage \notin {"absent", "closed"} /\ match \notin dialog.shown
    /\ dialog' = [dialog EXCEPT !.shown = {match}]
    /\ UNCHANGED <<match, neighbours, tracked, requests, counts>>

\* What is typed before a button is pressed: nothing or a point more; a set
\* that has not started takes no score.
Typed ==
    {dialog.form} \cup
    {[dialog.form EXCEPT ![n][slot] = @ + 1] :
        n \in SetNumbers \ SetsIn(Shown, "NOT_STARTED"), slot \in Corrections}

Differing(form, points) == {n \in SetNumbers : form[n] # points[n]}

\* Sent are the scores of the form that differ from the match as the page shows
\* it now; saving then updates fields of the match this module leaves out.
Submits(stage, form, verb) ==
    /\ AnotherEvent /\ saves < MaxSaves
    /\ dialog' = [dialog EXCEPT !.stage = stage, !.form = form, !.verb = verb,
                                !.edits = IF verb = "reset" THEN {}
                                          ELSE Differing(form, Shown.points),
                                !.typed = @ \cup Differing(form, dialog.form)]
    /\ saves' = saves + 1
    /\ UNCHANGED <<match, neighbours, tracked, requests, taps, faults, tally, hands>>

Save ==
    /\ dialog.stage = "open"
    /\ \E form \in Typed : Submits("saving", form, "none")

Transition ==
    /\ dialog.stage = "open"
    /\ \E form \in Typed, ask \in DialogVerbs(Shown) : Submits("applying", form, ask.verb)

Reset ==
    /\ dialog.stage = "open"
    /\ Submits("saving", dialog.form, "reset")

\* A refusal is shown and the next request is sent.
NextEdit == CHOOSE n \in dialog.edits : \A o \in dialog.edits : n <= o

ServeEdit ==
    /\ dialog.edits # {}
    /\ match' = Answer(match, neighbours, ScoreEdit(NextEdit, dialog.form[NextEdit]))
    /\ dialog' = [dialog EXCEPT !.edits = @ \ {NextEdit}]
    /\ UNCHANGED <<neighbours, tracked, requests, counts>>

ServeVerb ==
    /\ dialog.edits = {} /\ dialog.verb # "none"
    /\ match' = Answer(match, neighbours, Simple(dialog.verb))
    /\ dialog' = [dialog EXCEPT !.verb = "none"]
    /\ UNCHANGED <<neighbours, tracked, requests, counts>>

LoseDialogRequest ==
    /\ Faulty
    /\ \/ dialog.edits # {} /\ dialog' = [dialog EXCEPT !.edits = @ \ {NextEdit}]
       \/ dialog.edits = {} /\ dialog.verb # "none" /\ dialog' = [dialog EXCEPT !.verb = "none"]
    /\ UNCHANGED <<match, neighbours, tracked, requests>>

\* Saving closes the dialog; after a verb it stays open, with its form.
Finish ==
    /\ dialog.stage \in {"saving", "applying"} /\ dialog.edits = {} /\ dialog.verb = "none"
    /\ dialog' = IF dialog.stage = "saving" THEN Closed
                 ELSE [dialog EXCEPT !.stage = "open", !.shown = {match}]
    /\ UNCHANGED <<match, neighbours, tracked, requests, counts>>

Close ==
    /\ dialog.stage = "open" /\ dialog' = Closed
    /\ UNCHANGED <<match, neighbours, tracked, requests, counts>>

-----------------------------------------------------------------------------

Next ==
    \/ \E t \in Tracking : Tap(t) \/ Refresh(t) \/ Poll(t) \/ Receive(t)
                           \/ SwitchSides(t) \/ LoseFetch(t) \/ Reload(t)
    \/ \E r \in requests : Serve(r) \/ LoseRequest(r) \/ BreakConnection(r)
    \/ PollBoard \/ OpenDialog \/ Save \/ Transition \/ Reset
    \/ ServeEdit \/ ServeVerb \/ LoseDialogRequest \/ Finish \/ Close
    \/ PlayElsewhere

\* The server answers and the timers go off; nobody has to tap.
Serving == (\E r \in requests : Serve(r)) \/ ServeEdit \/ ServeVerb
Reading == (\E t \in Tracking : Refresh(t) \/ Poll(t) \/ Receive(t)) \/ PollBoard \/ Finish

Fairness == WF_vars(Serving) /\ WF_vars(Reading)

Spec == Init /\ [][Next]_vars /\ Fairness

-----------------------------------------------------------------------------
(* Properties *)

PageStages   == {"ready", "asking", "answered", "refreshing"}
DialogStages == {"absent", "closed", "open", "saving", "applying"}

\* The match and what every page knows of it stay matches whose running set is
\* one of their sets, and all that is sent makes sense for the match.
TypeOK ==
    /\ match \in FittingMatches /\ neighbours \in Neighbours
    /\ page \in [Tracking -> [view : FittingMatches, stage : PageStages, awaits : Nat]]
    /\ fetch \in [Tracking -> SUBSET FittingMatches]
    /\ \A r \in requests : r.ask.verb = "score_edit" => r.ask.points \in [Slots -> Nat]
    /\ \A t \in Tracking : reminder[t].score \in Nat /\ reminder[t].set \in 0..MaxSets
    /\ dialog.stage \in DialogStages /\ dialog.shown \subseteq FittingMatches
    /\ dialog.form \in [SetNumbers -> [Slots -> Nat]]
    /\ dialog.edits \subseteq SetNumbers /\ dialog.typed \subseteq SetNumbers

\* A page that shows the match as it is offers nothing the server refuses, but for
\* the start of a match whose opponents are not determined: neither page asks for
\* them (getScoreTrackingViewState and the buttons of views.tsx, and match_modal.tsx:
\* "the backend refuses to start those, so don't offer it", against
\* routes/matches.py and routes/match_sets.py).  The dialog also offers the end of
\* a level set, and a reset that a started match stands in the way of.
OfferedVerbsAccepted ==
    /\ \A t \in Tracking : page[t].view = match =>
         \A ask \in OfferedVerbs(match) \cup OfferedScores(match, Slots \X {-1, 1}) :
            Legal(match, neighbours, ask) \/ Unopposed(match, neighbours, ask)
    /\ dialog.shown = {match} =>
         \A ask \in DialogVerbs(match) \ {Simple("end")} :
            Legal(match, neighbours, ask) \/ Unopposed(match, neighbours, ask)

\* The page reminds of a switch of sides only while a set is played whose
\* points call for one (views.tsx, the effect on the match data).
ReminderMeansSwitchDue ==
    \A t \in Tracking : reminder[t].shown =>
        ActiveSet(page[t].view) # 0 /\ Due(CombinedScore(page[t].view))

\* As long as one device tracks the match and nothing fails, every tap counts,
\* though a score is sent whole: the page never takes a tap while it shows
\* less than it has sent (runAction: the request, then swrResponse.mutate()).  A start
\* that is refused because the opponents are not determined counts for nothing.
LoneTrackerCountsAll ==
    (Cardinality(hands) <= 1 /\ faults = 0 /\ saves = 0 /\ requests = {}) => match = tally

\* The dialog writes no score that the organiser has not typed (match_modal.tsx,
\* saveChangedSetScores: "Persist edited scores of played sets").
UntouchedScoresKept ==
    dialog.edits \subseteq dialog.typed

\* Every page ends up showing the match as it is and takes taps again, through
\* lost requests, refused ones, reads that fail and reads that are replaced.
Converges ==
    <>[](/\ \A t \in Tracking : page[t].view = match /\ page[t].stage = "ready"
         /\ requests = {} /\ dialog.shown \subseteq {match})

=============================================================================
