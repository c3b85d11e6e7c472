----------------------------- MODULE AdminPages -----------------------------
(* One organiser's browser: dialogs send requests (performMutation), then  *)
(* read again what they think has changed, while pages are opened and      *)
(* left, reads are under way, and requests, answers and reads are lost.    *)
(* The caches are SWR's: a read started for a change replaces the one under *)
(* way, whose answer is dropped; one started by opening a page joins it.   *)
(*                                                                         *)
(* A request is answered when it is served: between the two nothing can be *)
(* told apart.  Only the reads of slow caches take time, the others are    *)
(* answered at once.  Reading again on focus, and the two seconds in which *)
(* a page that is opened reuses an answer, are left out.                   *)
EXTENDS AdminOperations, Naturals, FiniteSets

CONSTANTS
  Pages,        \* the pages that are opened
  SlowCaches,   \* bound: the caches whose reads may take time
  MaxSlow,      \* bound: how many of them do
  MaxLost,      \* bound: reads that fail
  MaxEvents     \* bound: pages opened after the first, reads that fail and, twice, requests

ASSUME PagesAssumption == Pages \subseteq DOMAIN Site /\ SlowCaches \subseteq Caches
ASSUME BoundsAssumption == MaxEvents \in Nat /\ MaxLost \in Nat /\ MaxSlow \in Nat

VARIABLES
  page,      \* the page that is open
  multiple,  \* players may be in several teams (a setting of the tournament)
  slow,      \* the caches whose reads take time
  asked,     \* the requests made so far, with what is left of their dialog
  behind,    \* per cache, the own changes its data does not show
  read,      \* per cache, the read under way
  visits,    \* pages opened after the first
  lost       \* reads that failed
vars == <<page, multiple, slow, asked, behind, read, visits, lost>>

Asked == DOMAIN asked
Events == 2 * Len(asked) + visits + lost
Idle == [state |-> "idle", by |-> 0, misses |-> {}]
Sent(by) == [state |-> "sent", by |-> by, misses |-> {}]
\* Failed, and tried again after a while (onErrorRetry).
Broken == [state |-> "broken", by |-> 0, misses |-> {}]

\* The caches a page subscribes to: the options of a team's members are one of two.
Mounted(p) ==
  Site[p].caches \ (IF multiple THEN {"freePlayers"} ELSE {"anyPlayers"})

\* What follows a request: the issues, then the reads of its dialog.
Steps(dialog) ==
  (IF dialog.request.issues THEN <<{"issues"}>> ELSE <<>>) \o dialog.reads

Over(r) == r.state = "thrown" \/ (r.state = "settled" /\ r.next > Len(Steps(r.dialog)))

\* A page that is opened reads what it shows, unless it is being read already.
Opened(p, rd) ==
  [k \in Caches |->
     IF rd[k].state = "sent" THEN rd[k]
     ELSE IF k \in Mounted(p) \cap slow THEN Sent(0) ELSE Idle]

\* Answered at once, these caches miss nothing.
UpToDate(ks) == [k \in Caches |-> IF k \in ks \ slow THEN {} ELSE behind[k]]

Init ==
  /\ page \in Pages
  /\ multiple \in BOOLEAN
  /\ slow \in {ks \in SUBSET SlowCaches : Cardinality(ks) <= MaxSlow}
  /\ asked = <<>>
  /\ behind = [k \in Caches |-> {}]
  /\ read = Opened(page, [k \in Caches |-> Idle])
  /\ visits = 0
  /\ lost = 0

\* A dialog of the page is submitted.
Ask(dialog) ==
  /\ Events + 2 <= MaxEvents
  /\ asked' = Append(asked, [dialog |-> dialog, state |-> "sent", next |-> 1,
                             here |-> TRUE, strays |-> {}])
  /\ UNCHANGED <<page, multiple, slow, behind, read, visits, lost>>

\* Request c changes some aspects: of the reads under way, those answered before miss it.
Changed(c, aspects) ==
  LET shown == {k \in Caches : Shows[k] \cap aspects # {}} IN
  \E answered \in SUBSET {k \in shown : read[k].state = "sent"} :
    /\ {k \in shown : read[k].misses # {}} \subseteq answered
    /\ read' = [k \in Caches |->
         IF k \in answered THEN [read[k] EXCEPT !.misses = @ \cup {c}] ELSE read[k]]
    /\ behind' = [k \in Caches |-> IF k \in shown THEN behind[k] \cup {c} ELSE behind[k]]

\* Reads under way for a page that was left.
Strays == {k \in Caches \ Mounted(page) : read[k].state = "sent"}

\* An error that is not caught leaves the rest of the dialog undone.
Settle(c, failed) ==
  /\ asked[c].state = "sent"
  /\ asked' = [asked EXCEPT
       ![c].state =
         IF failed /\ ~asked[c].dialog.request.catches THEN "thrown" ELSE "settled",
       ![c].strays = Strays]
  /\ UNCHANGED <<page, multiple, slow, visits, lost>>

Serve(c) == Settle(c, FALSE) /\ Changed(c, asked[c].dialog.request.changes)
Refuse(c) == Settle(c, TRUE) /\ Changed(c, asked[c].dialog.request.halfway)
LoseRequest(c) == Settle(c, TRUE) /\ UNCHANGED <<behind, read>>
LoseAnswer(c) == Settle(c, TRUE) /\ Changed(c, asked[c].dialog.request.changes)

\* Mutant: a read under way is joined, as when a page is opened.
FollowJoins(c) ==
  LET step == Steps(asked[c].dialog)[asked[c].next] IN
  /\ asked[c].state = "settled" /\ ~Over(asked[c])
  /\ \A k \in Caches : ~(read[k].state = "sent" /\ read[k].by = c)
  /\ read' = [k \in Caches |->
       IF k \notin step THEN read[k]
       ELSE IF k \notin Mounted(page) \cap slow THEN Idle
       ELSE IF read[k].state = "sent" THEN [read[k] EXCEPT !.by = c] ELSE Sent(c)]
  /\ behind' = UpToDate(step \cap Mounted(page))
  /\ asked' = [asked EXCEPT ![c].next = @ + 1]
  /\ UNCHANGED <<page, multiple, slow, visits, lost>>

\* The next read of the dialog, once the one before it is over or replaced. A cache that
\* no page shows is not read, and a read of it under way is dropped.
Follow(c) ==
  LET step == Steps(asked[c].dialog)[asked[c].next] IN
  /\ asked[c].state = "settled" /\ ~Over(asked[c])
  /\ \A k \in Caches : ~(read[k].state = "sent" /\ read[k].by = c)
  /\ read' = [k \in Caches |->
       IF k \notin step THEN read[k]
       ELSE IF k \in Mounted(page) \cap slow THEN Sent(c) ELSE Idle]
  /\ behind' = UpToDate(step \cap Mounted(page))
  /\ asked' = [asked EXCEPT ![c].next = @ + 1]
  /\ UNCHANGED <<page, multiple, slow, visits, lost>>

Receive(k) ==
  /\ read[k].state = "sent"
  /\ behind' = [behind EXCEPT ![k] = read[k].misses]
  /\ read' = [read EXCEPT ![k] = Idle]
  /\ UNCHANGED <<page, multiple, slow, asked, visits, lost>>

LoseRead(k) ==
  /\ read[k].state = "sent"
  /\ lost < MaxLost /\ Events < MaxEvents
  /\ lost' = lost + 1
  /\ read' = [read EXCEPT ![k] = IF k \in Mounted(page) THEN Broken ELSE Idle]
  /\ UNCHANGED <<page, multiple, slow, asked, behind, visits>>

Retry(k) ==
  /\ read[k].state = "broken"
  /\ read' = [read EXCEPT ![k] = Sent(0)]
  /\ UNCHANGED <<page, multiple, slow, asked, behind, visits, lost>>

\* Another page is opened; dialogs that are not over go on without theirs.
Open(p) ==
  /\ Events < MaxEvents
  /\ p # page
  /\ page' = p
  /\ read' = Opened(p, read)
  /\ behind' = UpToDate(Mounted(p))
  /\ asked' = [c \in Asked |-> [asked[c] EXCEPT !.here = @ /\ Over(asked[c])]]
  /\ visits' = visits + 1
  /\ UNCHANGED <<multiple, slow, lost>>

Next ==
  \/ \E dialog \in Site[page].offers : Ask(dialog)
  \/ \E c \in Asked : Serve(c) \/ Refuse(c) \/ LoseRequest(c) \/ LoseAnswer(c) \/ Follow(c)
  \/ \E k \in Caches : Receive(k) \/ LoseRead(k) \/ Retry(k)
  \/ \E p \in Pages : Open(p)

Spec == Init /\ [][Next]_vars
-----------------------------------------------------------------------------
\* Nothing is under way.
AtRest ==
  /\ \A c \in Asked : Over(asked[c])
  /\ \A k \in Caches : read[k].state = "idle"

\* The caches a dialog leaves out of date on its own page: nothing reads them until the page
\* is opened again or the window focused.
Forgets(dialog, k) ==
  \/ k = "inputs"
     /\ dialog \in {UpdateStageItemModal, SetStageRankingModal, CreateStageButtonLarge}
  \/ k \in {"freePlayers", "anyPlayers"}
     /\ dialog = MultiTeamTab
  \/ k = "stages"
     /\ dialog \in {TeamUpdateModal, EditRankingForm, DropzoneButton, RemoveTeamLogo}

\* Once nothing is under way an open page shows every change its organiser made on it,
\* whatever else was asked or read meanwhile and whatever was lost: the order in which a
\* dialog reads after its request, and replacing reads under way. Excepted are the caches
\* a dialog forgets, those a read for a page left earlier was under way for (opening the page
\* again joins it), a dialog whose page was left before it was over, and one that ended in an
\* error it did not catch.
OwnChangesShown ==
  AtRest => \A k \in Mounted(page) \ {"issues"} : \A c \in behind[k] :
    \/ Forgets(asked[c].dialog, k)
    \/ ~asked[c].here
    \/ k \in asked[c].strays
    \/ asked[c].state = "thrown"

\* The badges of the navigation bar count every change the organiser made, also one whose
\* answer was lost or whose page was left, unless its dialog ended in an error that
\* performMutation passes on.
BadgesCount ==
  AtRest /\ "issues" \in Mounted(page) =>
    \A c \in behind["issues"] : asked[c].state = "thrown"
=============================================================================
