------------------------ MODULE ReconcileRacesProofs ------------------------
(* For any number of clients, matches and teams: the transactions of one   *)
(* stage item, although each locks only its own match, lose no advance, no *)
(* drawing and no pair of a match that has started.  All of it rests on    *)
(* the rows of the inputs, which one transaction at a time has locked: from*)
(* then on it reads what the others committed, and nobody else commits.    *)
EXTENDS ReconcileRaces, FiniteSetTheorems, NaturalsInduction, WellFoundedInduction, TLAPS

\* One transaction at a time has ranked the inputs.
Exclusive ==
  \A c, d \in Clients : client[c].at \in Ranked /\ client[d].at \in Ranked => c = d

\* Nothing is rewritten before that.
Unplanned == \A c \in Clients : client[c].at = "read" => client[c].changed = {}

\* What the transaction will send on is the leader of what it will commit.
Leading ==
  \A c \in Clients : client[c].at = "advanced" /\ Complete(Here, Rows(c)) =>
    client[c].advanced = Leader(Rows(c), Inputs(c))

\* The second round of a Mexicano is drawn as a whole, and once the first is complete.
RoundInv(rows, slots) ==
  kind = "MEXICANO" =>
    /\ \A m, n \in Later[kind] : Definitive(m, slots) => Definitive(n, slots)
    /\ Complete(Opening, rows) => Drawn(Later[kind], slots)

\* A match that is under way, before and after, keeps its teams.
Kept(c) ==
  kind # "SINGLE_ELIMINATION" =>
    \A m \in Matches :
      Definitive(m, inputs) /\ row[m] # "NOT_STARTED" /\ Rows(c)[m] # "NOT_STARTED"
      => Inputs(c)[m] = inputs[m]

PlansInv ==
  \A c \in Clients : client[c].at \in Ranked => RoundInv(Rows(c), Inputs(c)) /\ Kept(c)

Inv ==
  /\ TypeOK
  /\ Exclusive
  /\ Unplanned
  /\ AdvanceNotLost
  /\ Leading
  /\ RoundInv(row, inputs)
  /\ PlansInv

-----------------------------------------------------------------------------
(* Types                                                                   *)

LEMMA BlankTyped == Empty \in Pair /\ Blank \in [row : [Matches -> RowState], inputs : [Matches -> Pair]]
BY DEF Empty, Pair, Blank, RowState

LEMMA IdleTyped ==
  /\ Idle \in Request
  /\ Idle.at = "idle" /\ Idle.changed = {}
<1>1. (CHOOSE m \in Opening : TRUE) \in Matches
  BY OpeningAssumption
<1> QED
  BY <1>1, BlankTyped DEF Idle, Request, AllVerbs, RowState, Pair, Blank

\* A team is counted at most once for every match.
LEMMA WinsTyped ==
  ASSUME NEW rows, NEW slots
  PROVE  /\ Wins(rows, slots) \in [Teams -> Nat]
         /\ \A t \in Teams : Wins(rows, slots)[t] <= Cardinality(Matches)
<1> DEFINE W(t) == {m \in Matches : Definitive(m, slots) /\ Winner(m, rows, slots) = t}
<1>1. ASSUME NEW t \in Teams PROVE Cardinality(W(t)) \in Nat /\ Cardinality(W(t)) <= Cardinality(Matches)
  <2>1. W(t) \subseteq Matches
    OBVIOUS
  <2>2. IsFiniteSet(W(t)) /\ Cardinality(W(t)) <= Cardinality(Matches)
    BY <2>1, MatchesAssumption, FS_Subset
  <2> QED
    BY <2>2, FS_CardinalityType
<1>2. Wins(rows, slots) = [t \in Teams |-> Cardinality(W(t))]
  BY DEF Wins
<1> HIDE DEF W
<1> QED
  BY <1>1, <1>2

\* The most wins any team has: the least bound on all of them is one of them.
LEMMA LeaderTyped ==
  ASSUME NEW rows, NEW slots
  PROVE  Leader(rows, slots) \in Teams
<1> DEFINE w == Wins(rows, slots)
           Bounds == {n \in Nat : \A t \in Teams : w[t] <= n}
<1>1. w \in [Teams -> Nat] /\ \A t \in Teams : w[t] <= Cardinality(Matches)
  BY WinsTyped
<1>2. Cardinality(Matches) \in Nat
  BY MatchesAssumption, FS_CardinalityType
<1> HIDE DEF w
<1>3. Bounds # {}
  BY <1>1, <1>2
<1>4. PICK n \in Bounds : \A o \in Bounds : ~ (<<o, n>> \in OpToRel(<, Nat))
  BY <1>3, NatLessThanWellFounded, WFMin
<1>5. \A o \in Bounds : ~ (o < n)
  BY <1>4 DEF OpToRel
<1>6. n \in Nat /\ \A t \in Teams : w[t] <= n
  BY <1>4
<1>7. \E t \in Teams : w[t] = n
  <2> SUFFICES ASSUME \A t \in Teams : w[t] # n
               PROVE  FALSE
    OBVIOUS
  <2>1. ASSUME NEW t \in Teams PROVE w[t] < n
    BY <1>1, <1>6
  <2>2. n - 1 \in Nat /\ \A t \in Teams : w[t] <= n - 1
    BY <2>1, <1>1, <1>6, TeamsAssumption
  <2>3. n - 1 \in Bounds /\ n - 1 < n
    BY <2>2
  <2> QED
    BY <2>3, <1>5
<1>8. \E t \in Teams : \A u \in Teams : w[u] <= w[t]
  BY <1>6, <1>7
<1> QED
  BY <1>8 DEF Leader, w

-----------------------------------------------------------------------------
(* Steps                                                                   *)

LEMMA ViewsTyped ==
  ASSUME TypeOK, NEW c \in Clients
  PROVE  Rows(c) \in [Matches -> RowState] /\ Inputs(c) \in [Matches -> Pair]
<1>1. client[c] \in Request /\ row \in [Matches -> RowState] /\ inputs \in [Matches -> Pair]
  BY DEF TypeOK
<1> QED
  BY <1>1 DEF Rows, Inputs, Request

\* Where nothing is committed, nothing that is said of the committed state changes.
LEMMA Committed ==
  ASSUME Inv, UNCHANGED <<kind, row, inputs, wins, advanced>>
  PROVE  AdvanceNotLost' /\ RoundInv(row, inputs)'
BY DEF Inv, AdvanceNotLost, RoundInv, Here, Complete, Drawn, Definitive, Leader, Wins, Winner

\* A client that has not ranked the inputs, before or after, disturbs nobody.
LEMMA Aside ==
  ASSUME Inv, NEW c \in Clients, NEW r \in Request,
         r.at \notin Ranked, r.at = "read" => r.changed = {},
         client' = [client EXCEPT ![c] = r],
         UNCHANGED <<kind, row, inputs, wins, advanced>>
  PROVE  Inv'
<1> USE DEF Inv
<1>1. TypeOK'
  BY DEF TypeOK
<1>2. client'[c] = r /\ \A d \in Clients \ {c} : client'[d] = client[d]
  BY DEF TypeOK
<1>3. \A d \in Clients : client'[d].at \in Ranked => client'[d] = client[d]
  BY <1>2
<1>4. Exclusive' /\ Unplanned'
  BY <1>2, <1>3 DEF Exclusive, Unplanned
<1>5. AdvanceNotLost' /\ RoundInv(row, inputs)'
  BY Committed
<1>6. ASSUME NEW d \in Clients, client'[d].at \in Ranked
      PROVE  /\ client[d].at \in Ranked /\ client'[d] = client[d]
             /\ Rows(d)' = Rows(d) /\ Inputs(d)' = Inputs(d)
  <2>1. client'[d] = client[d]
    BY <1>3, <1>6
  <2>2. client[d].at \in Ranked
    BY <2>1, <1>6
  <2>3. Rows(d)' = Rows(d)
    BY <2>1 DEF Rows
  <2>4. Inputs(d)' = Inputs(d)
    BY <2>1 DEF Inputs
  <2> QED
    BY <2>1, <2>2, <2>3, <2>4
<1>7. Leading'
  <2> SUFFICES ASSUME NEW d \in Clients, client'[d].at = "advanced", Complete(Here, Rows(d))'
               PROVE  (client[d].advanced = Leader(Rows(d), Inputs(d)))'
    BY DEF Leading
  <2>1. client'[d] = client[d] /\ Rows(d)' = Rows(d) /\ Inputs(d)' = Inputs(d)
    BY <1>6 DEF Ranked
  <2>2. Complete(Here, Rows(d))
    BY <2>1 DEF Complete, Here
  <2>3. client[d].advanced = Leader(Rows(d), Inputs(d))
    BY <2>1, <2>2 DEF Leading
  <2> QED
    BY <2>1, <2>3
<1>8. PlansInv'
  BY <1>6 DEF PlansInv, RoundInv, Kept, Complete, Drawn, Definitive
<1> QED
  BY <1>1, <1>4, <1>5, <1>7, <1>8

\* Ranking the inputs keeps the invariant, if the plan made then is sound.
LEMMA RankKeeps ==
  ASSUME Inv, NEW c \in Clients, NEW ms \in SUBSET Matches, NEW slots \in [Matches -> Pair],
         Rank(c, ms, slots),
         RoundInv(Rows(c), [m \in Matches |-> IF m \in ms THEN slots[m] ELSE inputs[m]]),
         kind # "SINGLE_ELIMINATION" =>
           \A m \in ms : Definitive(m, inputs) /\ row[m] # "NOT_STARTED"
                         /\ Rows(c)[m] # "NOT_STARTED" => slots[m] = inputs[m]
  PROVE  Inv'
<1> USE DEF Inv
<1>0. UNCHANGED <<kind, row, inputs, wins, advanced>>
  BY DEF Rank
<1>1. client \in [Clients -> Request] /\ client[c] \in Request /\ client[c].at = "read"
  BY DEF TypeOK, Rank
<1> DEFINE r == client'[c]
<1>2. /\ UNCHANGED <<kind, row, inputs, wins, advanced>>
      /\ \A d \in Clients \ {c} : client'[d] = client[d]
      /\ client' \in [Clients -> Request]
      /\ r.at = "planned" /\ r.match = client[c].match /\ r.after = client[c].after
      /\ r.changed = ms /\ r.slots = [m \in Matches |-> IF m \in ms THEN slots[m] ELSE Empty]
  <2>1. Wins(client[c].seen.row, client[c].seen.inputs) \in [Teams -> Nat]
    BY WinsTyped
  <2>2. [m \in Matches |-> IF m \in ms THEN slots[m] ELSE Empty] \in [Matches -> Pair]
    BY BlankTyped
  <2> QED
    BY <1>1, <2>1, <2>2, BlankTyped DEF Rank, Request, Phases
<1>3. TypeOK'
  BY <1>2 DEF TypeOK
<1>4. \A d \in Clients \ {c} : client[d].at \notin Ranked
  <2>1. PICK t \in Teams : TRUE
    BY TeamsAssumption
  <2> QED
    BY <2>1 DEF Rank, InputsFree, InputLocks, RankedTeams
<1>5. Exclusive' /\ Unplanned'
  BY <1>2, <1>4 DEF Exclusive, Unplanned
<1>6. AdvanceNotLost' /\ RoundInv(row, inputs)'
  BY <1>0, Committed
<1>7. Leading'
  BY <1>2, <1>4 DEF Leading, Ranked
<1>8. Rows(c)' = Rows(c)
  BY <1>2 DEF Rows
<1>9. Inputs(c)' = [m \in Matches |-> IF m \in ms THEN slots[m] ELSE inputs[m]]
  BY <1>2 DEF Inputs
<1>10. RoundInv(Rows(c), Inputs(c))'
  <2> DEFINE after == [m \in Matches |-> IF m \in ms THEN slots[m] ELSE inputs[m]]
             rows == Rows(c)
  <2>1. RoundInv(rows, after)
    OBVIOUS
  <2>2. kind' = kind /\ Rows(c)' = rows /\ Inputs(c)' = after
    BY <1>0, <1>8, <1>9
  <2> HIDE DEF after, rows
  <2> QED
    BY <2>1, <2>2 DEF RoundInv, Complete, Drawn, Definitive
<1>11. Kept(c)'
  BY <1>2, <1>8, <1>9 DEF Kept, Definitive
<1>12. PlansInv'
  BY <1>2, <1>4, <1>10, <1>11 DEF PlansInv
<1> QED
  BY <1>3, <1>5, <1>6, <1>7, <1>12

\* The advance is decided on what the transaction will commit.
LEMMA AdvanceKeeps ==
  ASSUME Inv, NEW c \in Clients, Advance(c)
  PROVE  Inv'
<1> USE DEF Inv
<1>1. client \in [Clients -> Request] /\ client[c] \in Request /\ client[c].at = "planned"
  BY DEF TypeOK, Advance
<1> DEFINE r == client'[c]
           leads == IF Complete(Here, Rows(c)) THEN Leader(Rows(c), Inputs(c)) ELSE advanced
<1>2. leads \in Teams \cup {NoTeam}
  BY LeaderTyped DEF TypeOK
<1>3. client' = [client EXCEPT ![c].at = "advanced", ![c].advanced = leads]
  BY DEF Advance, ReadForAdvance
<1>4. UNCHANGED <<kind, row, inputs, wins, advanced>>
  BY DEF Advance
<1> HIDE DEF leads
<1>5. /\ \A d \in Clients \ {c} : client'[d] = client[d]
      /\ client' \in [Clients -> Request]
      /\ r.at = "advanced" /\ r.match = client[c].match /\ r.after = client[c].after
      /\ r.changed = client[c].changed /\ r.slots = client[c].slots /\ r.advanced = leads
  BY <1>1, <1>2, <1>3 DEF Request, Phases
<1>6. TypeOK'
  BY <1>4, <1>5 DEF TypeOK
<1>7. Exclusive' /\ Unplanned'
  BY <1>1, <1>5 DEF Exclusive, Unplanned, Ranked
<1>8. AdvanceNotLost' /\ RoundInv(row, inputs)'
  BY <1>4, Committed
<1>9. \A d \in Clients : Rows(d)' = Rows(d)
  BY <1>4, <1>5 DEF Rows
<1>10. \A d \in Clients : Inputs(d)' = Inputs(d)
  BY <1>4, <1>5 DEF Inputs
<1>11. \A d \in Clients : client'[d].at = "advanced" => d = c
  BY <1>1, <1>5 DEF Exclusive, Ranked
<1>12. Leading'
  <2>1. Complete(Here, Rows(c))' => Complete(Here, Rows(c))
    BY <1>4, <1>9 DEF Complete, Here
  <2>2. Complete(Here, Rows(c))' => (client[c].advanced = Leader(Rows(c), Inputs(c)))'
    <3>1. client'[c].advanced = leads
      BY <1>5
    <3>2. Complete(Here, Rows(c))' => leads = Leader(Rows(c), Inputs(c))
      BY <2>1 DEF leads
    <3>3. Rows(c)' = Rows(c) /\ Inputs(c)' = Inputs(c)
      BY <1>9, <1>10
    <3> QED
      BY <3>1, <3>2, <3>3
  <2> QED
    BY <2>2, <1>11 DEF Leading
<1>13. PlansInv'
  <2> SUFFICES ASSUME NEW d \in Clients, client'[d].at \in Ranked
               PROVE  RoundInv(Rows(d), Inputs(d))' /\ Kept(d)'
    BY DEF PlansInv
  <2>1. client[d].at \in Ranked
    BY <1>1, <1>5 DEF Ranked
  <2>2. RoundInv(Rows(d), Inputs(d)) /\ Kept(d)
    BY <2>1 DEF PlansInv
  <2>3. Rows(d)' = Rows(d) /\ Inputs(d)' = Inputs(d)
    BY <1>9, <1>10
  <2> QED
    BY <2>2, <2>3, <1>4 DEF RoundInv, Kept, Complete, Drawn, Definitive
<1> QED
  BY <1>6, <1>7, <1>8, <1>12, <1>13

\* Only the one that has ranked the inputs commits, and nobody else has seen less.
LEMMA CommitKeeps ==
  ASSUME Inv, NEW c \in Clients, Commit(c)
  PROVE  Inv'
<1> USE DEF Inv
<1>1. client \in [Clients -> Request] /\ client[c] \in Request /\ client[c].at = "advanced"
  BY DEF TypeOK, Commit
<1>2. /\ kind' = kind /\ row' = Rows(c) /\ inputs' = Inputs(c)
      /\ advanced' = client[c].advanced
      /\ wins' = [t \in Teams |-> client[c].wins[t]]
      /\ client' = [client EXCEPT ![c] = Idle]
  BY DEF Commit, RankedTeams
<1>3. client'[c] = Idle /\ \A d \in Clients \ {c} : client'[d] = client[d]
  BY <1>1, <1>2
<1>4. \A d \in Clients : client'[d].at \notin Ranked
  BY <1>1, <1>3, IdleTyped DEF Exclusive, Ranked
<1>5. TypeOK'
  <2>1. row' \in [Matches -> RowState] /\ inputs' \in [Matches -> Pair]
    BY <1>2, ViewsTyped
  <2>2. wins' \in [Teams -> Nat] /\ advanced' \in Teams \cup {NoTeam}
    BY <1>1, <1>2 DEF Request
  <2>3. client' \in [Clients -> Request] /\ kind' \in Kinds
    BY <1>1, <1>2, IdleTyped DEF TypeOK
  <2> QED
    BY <2>1, <2>2, <2>3 DEF TypeOK
<1>6. Exclusive' /\ Leading' /\ PlansInv'
  BY <1>4 DEF Exclusive, Leading, PlansInv, Ranked
<1>7. Unplanned'
  BY <1>3, IdleTyped DEF Unplanned
<1>8. AdvanceNotLost'
  <2> SUFFICES ASSUME Complete(Here, row)' PROVE (advanced = Leader(row, inputs))'
    BY DEF AdvanceNotLost
  <2>1. Complete(Here, Rows(c))
    BY <1>2 DEF Complete, Here
  <2>2. client[c].advanced = Leader(Rows(c), Inputs(c))
    BY <2>1, <1>1 DEF Leading
  <2> QED
    BY <2>2, <1>2
<1>9. RoundInv(row, inputs)'
  <2>1. RoundInv(Rows(c), Inputs(c))
    BY <1>1 DEF PlansInv, Ranked
  <2> QED
    BY <2>1, <1>2 DEF RoundInv, Complete, Drawn, Definitive
<1> QED
  BY <1>5, <1>6, <1>7, <1>8, <1>9

\* What a verb makes of a match.
LEMMA ResultsTyped ==
  ASSUME TypeOK, NEW verb \in AllVerbs, NEW m \in Matches
  PROVE  Results(verb, m) \subseteq RowState
<1>1. Outcomes[m] \subseteq RowState /\ row[m] \in RowState
  BY OutcomesAssumption DEF TypeOK, RowState
<1> QED
  BY <1>1 DEF Results, RowState, AllVerbs

LEMMA HereTyped ==
  ASSUME TypeOK
  PROVE  Here \subseteq Matches /\ Later[kind] \subseteq Matches \ Opening
BY OpeningAssumption, LaterAssumption DEF Here, TypeOK

LEMMA CheckKeeps ==
  ASSUME Inv, NEW c \in Clients, Check(c)
  PROVE  Inv'
<1>1. PICK m \in Here, verb \in {"start", "reset"} :
        client' = [client EXCEPT ![c] = [Idle EXCEPT !.at = "checked", !.verb = verb, !.match = m]]
  BY DEF Check
<1> DEFINE r == [Idle EXCEPT !.at = "checked", !.verb = verb, !.match = m]
<1>2. m \in Matches
  BY HereTyped DEF Inv
<1>3. r \in Request /\ r.at = "checked"
  BY <1>2, IdleTyped DEF Request, AllVerbs
<1>4. client' = [client EXCEPT ![c] = r] /\ UNCHANGED <<kind, row, inputs, wins, advanced>>
  BY <1>1 DEF Check
<1> HIDE DEF r
<1> QED
  BY <1>3, <1>4, Aside DEF Ranked

LEMMA LockKeeps ==
  ASSUME Inv, NEW c \in Clients, NEW m \in Matches, NEW verb \in AllVerbs, Lock(c, m, verb)
  PROVE  Inv'
<1>1. PICK after \in Results(verb, m) :
        client' = [client EXCEPT ![c] = [Idle EXCEPT !.at = "read", !.match = m, !.after = after,
          !.seen = [row |-> [row EXCEPT ![m] = after], inputs |-> inputs]]]
  BY DEF Lock
<1> DEFINE r == [Idle EXCEPT !.at = "read", !.match = m, !.after = after,
                   !.seen = [row |-> [row EXCEPT ![m] = after], inputs |-> inputs]]
<1>2. after \in RowState
  BY ResultsTyped DEF Inv
<1>3. [row |-> [row EXCEPT ![m] = after], inputs |-> inputs]
        \in [row : [Matches -> RowState], inputs : [Matches -> Pair]]
  BY <1>2 DEF Inv, TypeOK
<1>4. r \in Request /\ r.at = "read" /\ r.changed = {}
  BY <1>2, <1>3, IdleTyped DEF Request, Phases
<1>5. client' = [client EXCEPT ![c] = r] /\ UNCHANGED <<kind, row, inputs, wins, advanced>>
  BY <1>1 DEF Lock
<1> HIDE DEF r
<1> QED
  BY <1>4, <1>5, Aside DEF Ranked

LEMMA BackToIdleKeeps ==
  ASSUME Inv, NEW c \in Clients, Refuse(c) \/ Rollback(c)
  PROVE  Inv'
<1>1. /\ client' = [client EXCEPT ![c] = Idle]
      /\ UNCHANGED <<kind, row, inputs, wins, advanced>>
  BY DEF Refuse, Rollback
<1> QED
  BY <1>1, IdleTyped, Aside DEF Ranked

LEMMA PlanNothingKeeps ==
  ASSUME Inv, NEW c \in Clients, PlanNothing(c)
  PROVE  Inv'
<1>1. kind = "ROUND_ROBIN" /\ Rank(c, {}, inputs) /\ inputs \in [Matches -> Pair]
  BY DEF PlanNothing, Inv, TypeOK
<1>2. RoundInv(Rows(c), [m \in Matches |-> IF m \in {} THEN inputs[m] ELSE inputs[m]])
  BY <1>1 DEF RoundInv
<1> QED
  BY <1>1, <1>2, RankKeeps

LEMMA PlanCascadeKeeps ==
  ASSUME Inv, NEW c \in Clients, PlanCascade(c)
  PROVE  Inv'
<1> DEFINE m0 == client[c].match
           seen == client[c].seen
           fed == [f \in Matches |-> [s \in Slots |->
                     IF f \notin Opening /\ Feeder[f][s] = m0
                     THEN Winner(m0, seen.row, seen.inputs) ELSE seen.inputs[f][s]]]
           ms == {f \in Later[kind] : seen.row[f] = "NOT_STARTED" /\ fed[f] # seen.inputs[f]}
<1>1. m0 \in Matches /\ seen.inputs \in [Matches -> Pair]
  BY DEF Inv, TypeOK, Request
<1>2. Winner(m0, seen.row, seen.inputs) \in Teams \cup {NoTeam}
  BY <1>1 DEF Winner, Pair, Slots
<1>3. fed \in [Matches -> Pair]
  BY <1>1, <1>2 DEF Pair
<1>4. ms \in SUBSET Matches
  BY HereTyped DEF Inv
<1>5. kind = "SINGLE_ELIMINATION" /\ Rank(c, ms, fed)
  BY DEF PlanCascade
<1> HIDE DEF ms, fed
<1>6. RoundInv(Rows(c), [m \in Matches |-> IF m \in ms THEN fed[m] ELSE inputs[m]])
  BY <1>5 DEF RoundInv
<1> QED
  BY <1>3, <1>4, <1>5, <1>6, RankKeeps

\* A second round that waits cannot have started, and its first round is not complete.
LEMMA PlanUnwireKeeps ==
  ASSUME Inv, NEW c \in Clients, PlanUnwire(c)
  PROVE  Inv'
<1> DEFINE ms == Later[kind]
<1>1. Rank(c, ms, Blank.inputs) /\ Blank.inputs \in [Matches -> Pair]
  BY BlankTyped DEF PlanUnwire
<1>2. ms \in SUBSET Matches
  BY HereTyped DEF Inv
<1>3. (\A m \in ms : Rows(c)[m] = "NOT_STARTED") /\ ~Complete(Opening, Rows(c))
  BY DEF PlanUnwire, Premature, ReadForDraw, Untouched
<1>4. \A m \in ms : ~Definitive(m, [n \in Matches |-> IF n \in ms THEN Blank.inputs[n] ELSE inputs[n]])
  BY <1>2 DEF Definitive, Blank, Empty, Slots
<1>5. RoundInv(Rows(c), [m \in Matches |-> IF m \in ms THEN Blank.inputs[m] ELSE inputs[m]])
  BY <1>3, <1>4 DEF RoundInv
<1> HIDE DEF ms
<1> QED
  BY <1>1, <1>2, <1>3, <1>5, RankKeeps

\* What is drawn has not started, or had no pairs.
LEMMA PlanDrawingsKeeps ==
  ASSUME Inv, NEW c \in Clients, PlanDrawings(c)
  PROVE  Inv'
<1>1. PICK pairs \in Drawings :
        kind = "MEXICANO" /\ Rank(c, UNION RoundsToDraw(ReadForDraw(c)), pairs)
  BY DEF PlanDrawings
<1> DEFINE rounds == RoundsToDraw(ReadForDraw(c))
           ms == UNION rounds
           after == [m \in Matches |-> IF m \in ms THEN pairs[m] ELSE inputs[m]]
<1>2. pairs \in [Matches -> [Slots -> Teams]] /\ pairs \in [Matches -> Pair]
  BY DrawingsAssumption DEF Pair
<1>3. Later[kind] \subseteq Matches \ Opening /\ Opening \subseteq Matches
  BY HereTyped, OpeningAssumption DEF Inv
<1>4. ReadForDraw(c).row = Rows(c) /\ ReadForDraw(c).inputs = inputs
  <2>1. client[c].changed = {} /\ inputs \in [Matches -> Pair]
    BY <1>1 DEF Inv, TypeOK, Rank, Unplanned
  <2>2. Inputs(c) = inputs
    BY <2>1 DEF Inputs
  <2> QED
    BY <2>2 DEF ReadForDraw
<1>5. \A round \in rounds :
        /\ round \in {Opening, Later[kind]}
        /\ \/ Drawn(round, inputs) /\ Untouched(round, Rows(c))
           \/ round = Later[kind] /\ ~Drawn(round, inputs)
  BY <1>4 DEF RoundsToDraw
<1>6. Complete(Opening, Rows(c)) /\ ~Drawn(Later[kind], inputs) => Later[kind] \in rounds
  BY <1>4 DEF RoundsToDraw
<1>7. \A m, n \in Later[kind] : Definitive(m, inputs) => Definitive(n, inputs)
  BY <1>1 DEF Inv, RoundInv
<1> HIDE DEF rounds
<1>8. ms \in SUBSET Matches
  BY <1>3, <1>5
<1>9. \A m \in ms : Definitive(m, after)
  BY <1>2, <1>8, TeamsAssumption DEF Definitive
<1>10. Later[kind] \notin rounds => \A m \in Later[kind] : m \notin ms
  BY <1>3, <1>5
<1>11. \A m \in Matches \ ms : Definitive(m, after) <=> Definitive(m, inputs)
  BY DEF Definitive
<1>12. RoundInv(Rows(c), after)
  <2>1. CASE Later[kind] \in rounds
    BY <2>1, <1>9 DEF RoundInv, Drawn
  <2>2. CASE Later[kind] \notin rounds
    <3>1. \A m \in Later[kind] : Definitive(m, after) <=> Definitive(m, inputs)
      BY <2>2, <1>3, <1>10, <1>11
    <3>2. Complete(Opening, Rows(c)) => Drawn(Later[kind], inputs)
      BY <2>2, <1>6
    <3> QED
      BY <3>1, <3>2, <1>7 DEF RoundInv, Drawn
  <2> QED
    BY <2>1, <2>2
<1>13. \A m \in ms : ~(Definitive(m, inputs) /\ Rows(c)[m] # "NOT_STARTED")
  <2> SUFFICES ASSUME NEW round \in rounds, NEW m \in round, Definitive(m, inputs)
               PROVE  Rows(c)[m] = "NOT_STARTED"
    OBVIOUS
  <2>1. CASE Drawn(round, inputs) /\ Untouched(round, Rows(c))
    BY <2>1 DEF Untouched
  <2>2. CASE round = Later[kind] /\ ~Drawn(round, inputs)
    BY <2>2, <1>7 DEF Drawn
  <2> QED
    BY <2>1, <2>2, <1>5
<1>14. Rank(c, ms, pairs)
  BY <1>1 DEF rounds
<1> HIDE DEF ms
<1> QED
  BY <1>2, <1>8, <1>12, <1>13, <1>14, RankKeeps

-----------------------------------------------------------------------------
(* The invariant of the specification                                      *)

\* Nobody has played, the first round is drawn and nobody has sent anything.
LEMMA InitHolds == Init => Inv
<1> SUFFICES ASSUME Init
             PROVE  Inv
  OBVIOUS
<1>1. PICK pairs \in Drawings :
        inputs = [m \in Matches |->
          IF m \in Opening \/ kind = "ROUND_ROBIN" THEN pairs[m] ELSE Empty]
  BY DEF Init
<1>2. TypeOK
  <2>1. pairs \in [Matches -> Pair]
    BY DrawingsAssumption DEF Pair
  <2>2. inputs \in [Matches -> Pair]
    BY <1>1, <2>1, BlankTyped
  <2>3. row \in [Matches -> RowState]
    BY BlankTyped DEF Init
  <2> QED
    BY <2>2, <2>3, IdleTyped DEF Init, TypeOK
<1>3. \A c \in Clients : client[c].at = "idle"
  BY IdleTyped DEF Init
<1>4. Exclusive /\ Unplanned /\ Leading /\ PlansInv
  BY <1>3 DEF Exclusive, Unplanned, Leading, PlansInv, Ranked
<1>5. PICK m \in Opening : TRUE
  BY OpeningAssumption
<1>6. row[m] \notin Completed /\ m \in Here
  BY <1>5, OpeningAssumption DEF Init, Blank, Completed, Here
<1>7. AdvanceNotLost
  BY <1>6 DEF AdvanceNotLost, Complete
<1>8. RoundInv(row, inputs)
  <2>1. ASSUME kind = "MEXICANO", NEW n \in Later[kind] PROVE ~Definitive(n, inputs)
    BY <1>1, <1>2, <2>1, HereTyped DEF Definitive, Empty, Slots
  <2>2. ~Complete(Opening, row)
    BY <1>5, <1>6 DEF Complete
  <2> QED
    BY <2>1, <2>2 DEF RoundInv
<1> QED
  BY <1>2, <1>4, <1>7, <1>8 DEF Inv

LEMMA StepHolds == Inv /\ [Next]_vars => Inv'
<1> SUFFICES ASSUME Inv, [Next]_vars
             PROVE  Inv'
  OBVIOUS
<1>1. ASSUME NEW c \in Clients, Verb(c)
      PROVE  Inv'
  <2>1. client[c] \in Request
    BY DEF Inv, TypeOK
  <2>2. CASE Check(c)
    BY <2>2, CheckKeeps
  <2>3. CASE LockChecked(c)
    <3>1. client[c].match \in Matches /\ client[c].verb \in AllVerbs
      BY <2>1 DEF Request
    <3> QED
      BY <2>3, <3>1, LockKeeps DEF LockChecked
  <2>4. CASE LockUnchecked(c)
    <3>1. PICK m \in Here, verb \in {"end", "reopen", "score_edit"} : Lock(c, m, verb)
      BY <2>4 DEF LockUnchecked
    <3>2. m \in Matches /\ verb \in AllVerbs
      BY HereTyped DEF Inv, AllVerbs
    <3> QED
      BY <3>1, <3>2, LockKeeps
  <2>5. CASE Refuse(c) \/ Rollback(c)
    BY <2>5, BackToIdleKeeps
  <2>6. CASE PlanNothing(c)
    BY <2>6, PlanNothingKeeps
  <2>7. CASE PlanCascade(c)
    BY <2>7, PlanCascadeKeeps
  <2>8. CASE PlanUnwire(c)
    BY <2>8, PlanUnwireKeeps
  <2>9. CASE PlanDrawings(c)
    BY <2>9, PlanDrawingsKeeps
  <2>10. CASE Advance(c)
    BY <2>10, AdvanceKeeps
  <2>11. CASE Commit(c)
    BY <2>11, CommitKeeps
  <2> QED
    BY <1>1, <2>2, <2>3, <2>4, <2>5, <2>6, <2>7, <2>8, <2>9, <2>10, <2>11 DEF Verb
<1>2. ASSUME UNCHANGED vars
      PROVE  Inv'
  <2> USE DEF Inv
  <2>1. UNCHANGED <<kind, row, inputs, wins, advanced, client>>
    BY <1>2 DEF vars
  <2>2. AdvanceNotLost' /\ RoundInv(row, inputs)'
    BY <2>1, Committed
  <2>3. TypeOK' /\ Exclusive' /\ Unplanned'
    BY <2>1 DEF TypeOK, Exclusive, Unplanned
  <2>4. \A c \in Clients : Rows(c)' = Rows(c) /\ Inputs(c)' = Inputs(c)
    BY <2>1 DEF Rows, Inputs
  <2>5. Leading'
    <3> SUFFICES ASSUME NEW c \in Clients, client'[c].at = "advanced", Complete(Here, Rows(c))'
                 PROVE  (client[c].advanced = Leader(Rows(c), Inputs(c)))'
      BY DEF Leading
    <3>1. Complete(Here, Rows(c))
      BY <2>1, <2>4 DEF Complete, Here
    <3>2. client[c].advanced = Leader(Rows(c), Inputs(c))
      BY <3>1, <2>1 DEF Leading
    <3> QED
      BY <3>2, <2>1, <2>4
  <2>6. PlansInv'
    BY <2>1, <2>4 DEF PlansInv, RoundInv, Kept, Complete, Drawn, Definitive
  <2> QED
    BY <2>2, <2>3, <2>5, <2>6
<1> QED
  BY <1>1, <1>2 DEF Next

LEMMA InvHolds == Spec => []Inv
BY InitHolds, StepHolds, PTL DEF Spec

\* Every variable, and every field of a request, keeps its type.
THEOREM RacesTypeCorrect == Spec => []TypeOK
<1>1. Inv => TypeOK
  BY DEF Inv
<1> QED
  BY <1>1, InvHolds, PTL

\* Whichever of the last results is committed last, a complete stage item has sent its
\* leader on (resolve_dependent_inputs_for_completed_stage_item).
THEOREM AdvanceAlwaysSent == Spec => []AdvanceNotLost
<1>1. Inv => AdvanceNotLost
  BY DEF Inv
<1> QED
  BY <1>1, InvHolds, PTL

\* Results that complete a round at once do not leave the next one without pairings
\* (auto_resolve_next_round).
THEOREM NextRoundAlwaysDrawn == Spec => []NextRoundDrawn
<1>1. Inv => NextRoundDrawn
  BY DEF Inv, RoundInv, NextRoundDrawn
<1> QED
  BY <1>1, InvHolds, PTL

\* A match that starts while another transaction draws its round keeps its teams
\* (get_rounds_to_re_resolve, build_unwire_plan).
THEOREM StartedPairsKept == Spec => StartedKeepsPairs
<1> DEFINE Keeps ==
  kind # "SINGLE_ELIMINATION" =>
    \A m \in Matches :
      Definitive(m, inputs) /\ row[m] # "NOT_STARTED" /\ row'[m] # "NOT_STARTED"
      => inputs'[m] = inputs[m]
<1>1. Inv /\ [Next]_vars => [Keeps]_vars
  <2> SUFFICES ASSUME Inv, Next
               PROVE  Keeps
    OBVIOUS
  <2>1. PICK c \in Clients : Verb(c)
    BY DEF Next
  <2>2. CASE Commit(c)
    <3>1. client[c].at = "advanced" /\ row' = Rows(c) /\ inputs' = Inputs(c)
      BY <2>2 DEF Commit
    <3>2. Kept(c)
      BY <3>1 DEF Inv, PlansInv, Ranked
    <3> QED
      BY <3>1, <3>2 DEF Kept
  <2>3. CASE ~Commit(c)
    <3>1. inputs' = inputs
      BY <2>1, <2>3 DEF Verb, Check, LockChecked, LockUnchecked, Lock, Refuse, PlanNothing,
         PlanCascade, PlanUnwire, PlanDrawings, Rank, Advance, Rollback
    <3> QED
      BY <3>1
  <2> QED
    BY <2>2, <2>3
<1> QED
  BY <1>1, InvHolds, PTL DEF Spec, StartedKeepsPairs
=============================================================================
