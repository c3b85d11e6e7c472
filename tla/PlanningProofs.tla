--------------------------- MODULE PlanningProofs ---------------------------
(***************************************************************************)
(* Proofs about planning: the cache of the planning page, for any number   *)
(* of requests and any interleaving with the colleague, the network and    *)
(* the timers, and the courts under any sequence of requests, for any      *)
(* matches, courts, lengths and breaks.                                    *)
(***************************************************************************)
EXTENDS CourtSchedule, PlannerPage,
        FiniteSetTheorems, NaturalsInduction, WellFoundedInduction, TLAPS

-----------------------------------------------------------------------------
(* Packing a court.  The starts of a packed court are defined match by     *)
(* match, each from the match ahead of it; that such starts exist follows  *)
(* from the keys, which are bounded: the starts of the matches with a key  *)
(* below n exist for every n.                                              *)

KeyBound(key, max) ==
    max \in Nat /\ \A m \in Matches : key[m] \in Int /\ -1 <= key[m] /\ key[m] <= max

\* A set of naturals that is not empty has a least element.
LEMMA LeastSet ==
    ASSUME NEW S \in SUBSET Nat, S # {}
    PROVE  \E n \in S : \A o \in S : n <= o
<1>1. PICK n \in S : \A o \in S : ~ (<<o, n>> \in OpToRel(<, Nat))
  BY NatLessThanWellFounded, WFMin
<1>2. \A o \in S : ~ (o < n)
  BY <1>1 DEF OpToRel
<1> QED
  BY <1>2

\* The match with the highest key is one of them.
LEMMA LastIsLast ==
    ASSUME NEW key, NEW max, KeyBound(key, max), NEW ms \in SUBSET Matches, ms # {}
    PROVE  LastOf(key, ms) \in ms /\ \A o \in ms : key[o] <= key[LastOf(key, ms)]
<1> DEFINE gaps == {max - key[o] : o \in ms}
<1>1. gaps \in SUBSET Nat /\ gaps # {}
  BY DEF KeyBound
<1>2. PICK least \in gaps : \A g \in gaps : least <= g
  BY <1>1, LeastSet
<1>3. PICK last \in ms : least = max - key[last]
  BY <1>2
<1>4. ASSUME NEW o \in ms PROVE key[o] <= key[last]
  <2>1. least <= max - key[o]
    BY <1>2
  <2> QED
    BY <1>3, <2>1 DEF KeyBound
<1> QED
  BY <1>4 DEF LastOf

\* A start computed from starts is one.
LEMMA PackedStartIsNat ==
    ASSUME NEW p \in Plans, NEW key, NEW max, KeyBound(key, max), NEW cs,
           NEW f \in [OnCourts(p, cs) -> Nat],
           NEW m \in Matches, p[m].court \in cs
    PROVE  PackedStart(p, key, f, m) \in Nat
<1>1. p[m].start \in Nat /\ Break \in Nat
  BY PackingAssumption DEF Plans
<1>2. CASE Ahead(p, key, m) = {}
  BY <1>1, <1>2 DEF PackedStart
<1>3. CASE Ahead(p, key, m) # {}
  <2> DEFINE last == LastOf(key, Ahead(p, key, m))
  <2>1. last \in Ahead(p, key, m)
    BY <1>3, LastIsLast DEF Ahead, OnCourt
  <2> HIDE DEF last
  <2>2. last \in Matches /\ last \in OnCourts(p, cs)
    BY <2>1 DEF Ahead, OnCourt, OnCourts
  <2>3. f[last] \in Nat /\ p[last].minutes \in Nat
    BY <2>2 DEF Plans
  <2> QED
    BY <1>1, <2>3 DEF PackedStart, last
<1> QED
  BY <1>2, <1>3

\* It depends on the starts of matches with a smaller key only.
LEMMA PackedStartLooksBack ==
    ASSUME NEW p \in Plans, NEW key, NEW max, KeyBound(key, max),
           NEW f, NEW g, NEW m \in Matches,
           \A o \in Ahead(p, key, m) : f[o] = g[o]
    PROVE  PackedStart(p, key, f, m) = PackedStart(p, key, g, m)
<1>1. CASE Ahead(p, key, m) = {}
  BY <1>1 DEF PackedStart
<1>2. CASE Ahead(p, key, m) # {}
  <2>1. LastOf(key, Ahead(p, key, m)) \in Ahead(p, key, m)
    BY <1>2, LastIsLast DEF Ahead, OnCourt
  <2> QED
    BY <2>1 DEF PackedStart
<1> QED
  BY <1>1, <1>2

\* Starts that follow the rule as far as key n exist for every n, so they exist.
LEMMA StartsExist ==
    ASSUME NEW p \in Plans, NEW key, NEW max, KeyBound(key, max), NEW cs
    PROVE  \E f \in [OnCourts(p, cs) -> Nat] :
               f = [m \in OnCourts(p, cs) |-> PackedStart(p, key, f, m)]
<1> DEFINE packed == OnCourts(p, cs)
           Follows(f, n) == \A m \in packed : key[m] < n => f[m] = PackedStart(p, key, f, m)
           bad == {n \in Nat : ~ \E f \in [packed -> Nat] : Follows(f, n)}
<1>1. bad = {}
  <2> SUFFICES ASSUME bad # {} PROVE FALSE
    OBVIOUS
  <2>1. PICK n \in bad : \A o \in bad : n <= o
    BY LeastSet
  <2>2. PICK f \in [packed -> Nat] : Follows(f, n - 1)
    <3>1. CASE n = 0
      <4> DEFINE kept == [m \in packed |-> p[m].start]
      <4>1. kept \in [packed -> Nat]
        BY DEF Plans, OnCourts
      <4>2. \A m \in packed : ~ (key[m] < n - 1)
        BY <3>1 DEF KeyBound, OnCourts
      <4> HIDE DEF kept
      <4>3. Follows(kept, n - 1)
        BY <4>2
      <4> QED
        BY <4>1, <4>3
    <3>2. CASE n # 0
      <4>1. n - 1 \in Nat /\ ~ (n <= n - 1)
        BY <3>2
      <4>2. n - 1 \notin bad
        BY <2>1, <4>1
      <4> QED
        BY <4>1, <4>2
    <3> QED
      BY <3>1, <3>2
  <2> DEFINE g == [m \in packed |-> IF key[m] < n - 1 THEN f[m] ELSE PackedStart(p, key, f, m)]
  <2>3. g \in [packed -> Nat]
    <3>1. \A m \in packed : PackedStart(p, key, f, m) \in Nat
      BY PackedStartIsNat DEF OnCourts
    <3> QED
      BY <3>1
  <2>4. ASSUME NEW m \in packed, key[m] < n
        PROVE  g[m] = PackedStart(p, key, g, m)
    <3>1. \A o \in Ahead(p, key, m) : o \in packed /\ key[o] < n - 1
      BY <2>4 DEF Ahead, OnCourt, OnCourts, KeyBound
    <3>2. \A o \in Ahead(p, key, m) : f[o] = g[o]
      BY <3>1
    <3>3. g[m] = PackedStart(p, key, f, m)
      BY <2>2, <2>4
    <3> HIDE DEF g
    <3>4. PackedStart(p, key, f, m) = PackedStart(p, key, g, m)
      <4>1. m \in Matches
        BY DEF OnCourts
      <4> QED
        BY <4>1, <3>2, PackedStartLooksBack
    <3> QED
      BY <3>3, <3>4
  <2> HIDE DEF g
  <2> QED
    BY <2>1, <2>3, <2>4
<1>2. max + 1 \in Nat
  BY DEF KeyBound
<1>3. PICK f \in [packed -> Nat] : Follows(f, max + 1)
  BY <1>1, <1>2
<1>4. \A m \in packed : f[m] = PackedStart(p, key, f, m)
  BY <1>3 DEF KeyBound, OnCourts
<1>5. f = [m \in packed |-> PackedStart(p, key, f, m)]
  BY <1>4
<1> QED
  BY <1>5

\* r is p with other starts.
Restarted(p, r) ==
    /\ r \in Plans
    /\ \A m \in Matches : r[m].court = p[m].court /\ r[m].minutes = p[m].minutes
                          /\ r[m].state = p[m].state

\* The start of m in r is the one it had in p, or the end of the match ahead of it
\* in r and the break when that is later.
PackedAfter(p, r, key, m) ==
    LET free == EndOf(r, LastOf(key, Ahead(p, key, m))) + Break
    IN r[m].start = IF Ahead(p, key, m) = {} \/ p[m].start >= free THEN p[m].start ELSE free

\* No other function follows the rule.
LEMMA StartsUnique ==
    ASSUME NEW p \in Plans, NEW key, NEW max, KeyBound(key, max), NEW cs,
           NEW f, f = [m \in OnCourts(p, cs) |-> PackedStart(p, key, f, m)],
           NEW g, g = [m \in OnCourts(p, cs) |-> PackedStart(p, key, g, m)]
    PROVE  f = g
<1> DEFINE bad == {key[m] + 1 : m \in {m \in OnCourts(p, cs) : f[m] # g[m]}}
<1>1. bad = {}
  <2> SUFFICES ASSUME bad # {} PROVE FALSE
    OBVIOUS
  <2>1. bad \in SUBSET Nat
    BY DEF KeyBound, OnCourts
  <2>2. PICK n \in bad : \A o \in bad : n <= o
    BY <2>1, LeastSet
  <2>3. PICK m \in OnCourts(p, cs) : n = key[m] + 1 /\ f[m] # g[m]
    OBVIOUS
  <2>4. ASSUME NEW o \in Ahead(p, key, m) PROVE f[o] = g[o]
    <3>1. o \in OnCourts(p, cs) /\ key[o] < key[m] /\ m \in Matches
      BY DEF Ahead, OnCourt, OnCourts
    <3>2. ~ (n <= key[o] + 1)
      BY <3>1, <2>3 DEF KeyBound, OnCourts
    <3> QED
      BY <2>2, <3>1, <3>2
  <2>5. PackedStart(p, key, f, m) = PackedStart(p, key, g, m)
    <3>1. m \in Matches
      BY DEF OnCourts
    <3> QED
      BY <3>1, <2>4, PackedStartLooksBack
  <2> QED
    BY <2>3, <2>5
<1> QED
  BY <1>1

\* What Repacked changes: starts on the courts of cs, each after the match ahead.
LEMMA RepackedIs ==
    ASSUME NEW p \in Plans, NEW key, NEW max, KeyBound(key, max), NEW cs
    PROVE  LET r == Repacked(p, cs, key)
           IN /\ Restarted(p, r)
              /\ \A m \in Matches : IF p[m].court \in cs THEN PackedAfter(p, r, key, m)
                                    ELSE r[m] = p[m]
<1> DEFINE r == Repacked(p, cs, key)
           S == CHOOSE f : f = [m \in OnCourts(p, cs) |-> PackedStart(p, key, f, m)]
<1>1. r = [m \in Matches |-> IF p[m].court \in cs THEN [p[m] EXCEPT !.start = S[m]] ELSE p[m]]
  BY DEF Repacked
<1>2. S = [m \in OnCourts(p, cs) |-> PackedStart(p, key, S, m)]
  BY StartsExist
<1> HIDE DEF S, r
<1>3. S \in [OnCourts(p, cs) -> Nat]
  BY <1>2, StartsExist, StartsUnique
<1>4. Restarted(p, r)
  BY <1>1, <1>3 DEF Restarted, Plans, OnCourts
<1>5. ASSUME NEW m \in Matches, p[m].court \in cs PROVE PackedAfter(p, r, key, m)
  <2>1. r[m].start = PackedStart(p, key, S, m)
    BY <1>1, <1>2, <1>5 DEF OnCourts, Plans
  <2>2. CASE Ahead(p, key, m) = {}
    BY <2>1, <2>2 DEF PackedAfter, PackedStart
  <2>3. CASE Ahead(p, key, m) # {}
    <3> DEFINE last == LastOf(key, Ahead(p, key, m))
    <3>1. last \in Ahead(p, key, m)
      BY <2>3, LastIsLast DEF Ahead, OnCourt
    <3> HIDE DEF last
    <3>2. EndOf(r, last) = S[last] + p[last].minutes
      BY <3>1, <1>1, <1>5 DEF EndOf, Ahead, OnCourt, Plans
    <3> QED
      BY <2>1, <2>3, <3>2 DEF PackedAfter, PackedStart, last
  <2> QED
    BY <2>2, <2>3
<1> QED
  BY <1>1, <1>4, <1>5 DEF r

\* Keys that tell the matches of every court in cs apart.
KeysDiffer(p, key, cs) ==
    \A a, b \in OnCourts(p, cs) : a # b /\ p[a].court = p[b].court => key[a] # key[b]

\* On a packed court every match comes after the ones with smaller keys and a break.
LEMMA RepackedIsSpaced ==
    ASSUME NEW p \in Plans, NEW key, NEW max, KeyBound(key, max), NEW cs,
           KeysDiffer(p, key, cs), NEW r, r = Repacked(p, cs, key)
    PROVE  \A a, b \in OnCourts(p, cs) :
               p[a].court = p[b].court /\ key[a] < key[b] => EndOf(r, a) + Break <= r[b].start
<1> DEFINE Spaced(a, b) ==
               p[a].court = p[b].court /\ key[a] < key[b] => EndOf(r, a) + Break <= r[b].start
           late == {b \in OnCourts(p, cs) : \E a \in OnCourts(p, cs) : ~Spaced(a, b)}
           bad  == {key[b] + 1 : b \in late}
<1>1. Restarted(p, r) /\ \A m \in OnCourts(p, cs) : PackedAfter(p, r, key, m)
  BY RepackedIs DEF OnCourts
<1>2. bad = {}
  <2> SUFFICES ASSUME bad # {} PROVE FALSE
    OBVIOUS
  <2>1. bad \in SUBSET Nat
    BY DEF KeyBound, OnCourts
  <2>2. PICK n \in bad : \A o \in bad : n <= o
    <3> HIDE DEF bad
    <3> QED
      BY <2>1, LeastSet
  <2>3. PICK b \in OnCourts(p, cs), a \in OnCourts(p, cs) : n = key[b] + 1 /\ ~Spaced(a, b)
    OBVIOUS
  <2> DEFINE last == LastOf(key, Ahead(p, key, b))
  <2>4. a \in Ahead(p, key, b)
    BY <2>3 DEF Ahead, OnCourt, OnCourts
  <2>5. last \in Ahead(p, key, b) /\ key[a] <= key[last]
    BY <2>4, LastIsLast DEF Ahead, OnCourt
  <2> HIDE DEF last
  <2>6. /\ last \in OnCourts(p, cs) /\ p[last].court = p[b].court /\ key[last] < key[b]
        /\ a \in Matches /\ b \in Matches /\ last \in Matches
    BY <2>5 DEF Ahead, OnCourt, OnCourts
  <2>7. /\ r[a].start \in Nat /\ r[a].minutes \in Nat /\ r[b].start \in Nat
        /\ r[last].start \in Nat /\ r[last].minutes \in Nat /\ Break \in Nat
        /\ p[b].start \in Nat /\ key[a] \in Int /\ key[b] \in Int /\ key[last] \in Int
    BY <1>1, <2>6, PackingAssumption DEF Restarted, Plans, KeyBound
  <2>8. EndOf(r, last) + Break <= r[b].start
    BY <1>1, <2>4, <2>7 DEF PackedAfter, EndOf, last
  <2>9. CASE a = last
    BY <2>3, <2>8, <2>9
  <2>10. CASE a # last
    <3>1. key[a] < key[last]
      BY <2>3, <2>5, <2>6, <2>7, <2>10 DEF KeysDiffer
    <3>2. ~ (n <= key[last] + 1)
      BY <2>3, <2>6, <2>7
    <3>3. Spaced(a, last)
      BY <2>2, <2>6, <3>2
    <3> QED
      BY <2>3, <2>6, <2>7, <2>8, <3>1, <3>3 DEF EndOf
  <2> QED
    BY <2>9, <2>10
<1> QED
  BY <1>2

-----------------------------------------------------------------------------
(* The order of a court and the positions in it *)

\* One of two matches is the earlier one, not both.
LEMMA EarlierOrders ==
    ASSUME NEW p \in Plans, NEW a \in Matches, NEW b \in Matches
    PROVE  /\ a # b => Earlier(p, a, b) \/ Earlier(p, b, a)
           /\ ~ (Earlier(p, a, b) /\ Earlier(p, b, a))
           /\ ~ Earlier(p, a, a)
           /\ \A c \in Matches : Earlier(p, a, b) /\ Earlier(p, b, c) => Earlier(p, a, c)
           /\ Earlier(p, a, b) => p[a].start <= p[b].start
BY PackingAssumption DEF Earlier, Plans

\* Sets of matches are finite.
LEMMA MatchSetsFinite ==
    ASSUME NEW S \in SUBSET Matches
    PROVE  IsFiniteSet(S) /\ Cardinality(S) \in Nat /\ Cardinality(S) <= Cardinality(Matches)
           /\ Cardinality(Matches) \in Nat
BY FS_Subset, FS_CardinalityType, PackingAssumption

\* A set with one more element is larger.
LEMMA MoreIsLarger ==
    ASSUME NEW S \in SUBSET Matches, NEW T \in SUBSET S, NEW x \in S, x \notin T
    PROVE  Cardinality(T) < Cardinality(S)
<1>1. IsFiniteSet(S) /\ IsFiniteSet(T) /\ Cardinality(T) \in Nat /\ Cardinality(S) \in Nat
  BY MatchSetsFinite
<1>2. Cardinality(T) <= Cardinality(S) /\ (Cardinality(S) = Cardinality(T) => S = T)
  BY <1>1, FS_Subset
<1> QED
  BY <1>1, <1>2

\* How many matches of S come before m.
PlaceIn(p, S, m) == Cardinality({o \in S : Earlier(p, o, m)})

\* The earlier of two matches of a set has fewer matches of the set before it.
LEMMA PlacesOrder ==
    ASSUME NEW p \in Plans, NEW S \in SUBSET Matches, NEW a \in S, NEW b \in S
    PROVE  /\ PlaceIn(p, S, a) \in Nat
           /\ PlaceIn(p, S, a) < Cardinality(S)
           /\ PlaceIn(p, S, a) < PlaceIn(p, S, b) <=> Earlier(p, a, b)
           /\ a # b => PlaceIn(p, S, a) # PlaceIn(p, S, b)
<1> DEFINE Place(m) == {o \in S : Earlier(p, o, m)}
<1>1. \A m \in S : Place(m) \in SUBSET S /\ Place(m) \in SUBSET Matches /\ m \notin Place(m)
  BY EarlierOrders
<1>2. \A m \in S : Cardinality(Place(m)) \in Nat /\ Cardinality(Place(m)) < Cardinality(S)
  BY <1>1, MoreIsLarger, MatchSetsFinite
<1>3. ASSUME NEW m \in S, NEW n \in S, Earlier(p, m, n)
      PROVE  Cardinality(Place(m)) < Cardinality(Place(n))
  <2>1. Place(m) \in SUBSET Place(n)
    BY <1>3, EarlierOrders
  <2>2. m \in Place(n) /\ m \notin Place(m)
    BY <1>1, <1>3
  <2> HIDE DEF Place
  <2> QED
    BY <1>1, <2>1, <2>2, MoreIsLarger
<1> HIDE DEF Place
<1>4. a # b => Earlier(p, a, b) \/ Earlier(p, b, a)
  BY EarlierOrders
<1>5. /\ Cardinality(Place(a)) \in Nat /\ Cardinality(Place(a)) < Cardinality(S)
      /\ Cardinality(Place(a)) < Cardinality(Place(b)) <=> Earlier(p, a, b)
      /\ a # b => Cardinality(Place(a)) # Cardinality(Place(b))
  BY <1>2, <1>3, <1>4, EarlierOrders
<1> QED
  BY <1>5 DEF Place, PlaceIn

\* Positions are those of the order of the court.
LEMMA PositionsOrder ==
    ASSUME NEW p \in Plans, NEW a \in Matches, NEW b \in Matches, p[a].court = p[b].court
    PROVE  /\ PositionOf(p, a) \in Nat
           /\ PositionOf(p, a) < Cardinality(OnCourt(p, p[a].court))
           /\ PositionOf(p, a) < PositionOf(p, b) <=> Earlier(p, a, b)
           /\ a # b => PositionOf(p, a) # PositionOf(p, b)
<1> DEFINE S == OnCourt(p, p[a].court)
<1>1. S \in SUBSET Matches /\ a \in S /\ b \in S /\ S = OnCourt(p, p[b].court)
  BY DEF OnCourt
<1>2. PositionOf(p, a) = PlaceIn(p, S, a) /\ PositionOf(p, b) = PlaceIn(p, S, b)
  BY DEF PositionOf, PlaceIn
<1> HIDE DEF S
<1>3. /\ PositionOf(p, a) \in Nat
      /\ PositionOf(p, a) < Cardinality(S)
      /\ PositionOf(p, a) < PositionOf(p, b) <=> Earlier(p, a, b)
      /\ a # b => PositionOf(p, a) # PositionOf(p, b)
  BY <1>1, <1>2, PlacesOrder
<1> QED
  BY <1>3 DEF S

-----------------------------------------------------------------------------
(* What a request does to a schedule.  Courts are kept free of overlaps    *)
(* because matches have a length and are in the order of their starts, as  *)
(* on every court the day begins with: that order is what handlers read.   *)

\* Every match has a length and ends before the next one on its court starts.
Spacious(p) ==
    /\ \A m \in Matches : p[m].minutes > 0
    /\ \A a, b \in Matches :
           Scheduled(p, a) /\ p[a].court = p[b].court /\ Earlier(p, a, b) => EndOf(p, a) <= p[b].start

\* Only courts and starts differ, what was played is still on a court, and no
\* overlap is new.
Replanned(p, r) ==
    /\ r \in Plans
    /\ \A m \in Matches : r[m].minutes = p[m].minutes /\ r[m].state = p[m].state
    /\ \A m \in Matches : Scheduled(p, m) /\ Played(p, m) => Scheduled(r, m)
    /\ Spacious(p) => Spacious(r)

\* The requests a planner can make, on whatever schedule it drew them from.
Requested(a) ==
    \/ \E m \in Matches, oldCourt \in Courts \cup {NoCourt}, oldPosition \in Nat,
          newCourt \in Courts, newPosition \in Nat :
           a = Reschedule(m, oldCourt, oldPosition, newCourt, newPosition)
    \/ \E m, o \in Matches : a = Swap(m, o)
    \/ \E m \in Matches, minutes \in Nat : a = ResizeBreak(m, minutes)
    \/ \E m \in Matches : a = Unschedule(m)

\* A packed court is spacious by itself, the others must have been.
LEMMA PackedIsSpacious ==
    ASSUME NEW p \in Plans, NEW key, NEW max, KeyBound(key, max), NEW cs, KeysDiffer(p, key, cs),
           \A m \in Matches : p[m].minutes > 0,
           \A a, b \in Matches :
               /\ Scheduled(p, a) /\ p[a].court = p[b].court /\ p[a].court \notin cs
               /\ Earlier(p, a, b)
               => EndOf(p, a) <= p[b].start
    PROVE  Spacious(Repacked(p, cs, key))
<1> DEFINE r == Repacked(p, cs, key)
<1>1. /\ Restarted(p, r)
      /\ \A m \in Matches : p[m].court \notin cs => r[m] = p[m]
  BY RepackedIs
<1>2. \A a, b \in OnCourts(p, cs) :
          p[a].court = p[b].court /\ key[a] < key[b] => EndOf(r, a) + Break <= r[b].start
  BY RepackedIsSpaced
<1> HIDE DEF r
<1>3. ASSUME NEW a \in Matches, NEW b \in Matches,
             Scheduled(r, a), r[a].court = r[b].court, Earlier(r, a, b)
      PROVE  EndOf(r, a) <= r[b].start
  <2>1. /\ p[a].court = p[b].court /\ p[a].court = r[a].court
        /\ r \in Plans /\ r[a].minutes > 0 /\ r[b].minutes > 0 /\ Break \in Nat
        /\ r[a].start \in Nat /\ r[a].minutes \in Nat /\ r[b].start \in Nat /\ r[b].minutes \in Nat
    BY <1>1, <1>3, PackingAssumption DEF Restarted, Plans
  <2>2. CASE p[a].court \notin cs
    <3>1. r[a] = p[a] /\ r[b] = p[b]
      BY <1>1, <2>1, <2>2
    <3>2. Scheduled(p, a) /\ Earlier(p, a, b)
      BY <1>3, <2>1, <3>1 DEF Earlier, Scheduled
    <3>3. EndOf(p, a) <= p[b].start
      BY <2>1, <2>2, <3>2
    <3> QED
      BY <3>1, <3>3 DEF EndOf
  <2>3. CASE p[a].court \in cs
    <3>1. a # b
      BY <1>3, <2>1, EarlierOrders
    <3>2. key[a] < key[b] \/ key[b] < key[a]
      <4>1. a \in OnCourts(p, cs) /\ b \in OnCourts(p, cs)
        BY <2>1, <2>3 DEF OnCourts
      <4>2. key[a] # key[b]
        BY <2>1, <3>1, <4>1 DEF KeysDiffer
      <4>3. key[a] \in Int /\ key[b] \in Int
        BY DEF KeyBound
      <4> QED
        BY <4>2, <4>3
    <3>3. CASE key[b] < key[a]
      <4>1. EndOf(r, b) + Break <= r[a].start
        BY <1>2, <2>1, <2>3, <3>3 DEF OnCourts
      <4>2. r[a].start <= r[b].start
        BY <1>3, <2>1 DEF Earlier
      <4> QED
        BY <2>1, <4>1, <4>2 DEF EndOf
    <3>4. CASE key[a] < key[b]
      <4>1. EndOf(r, a) + Break <= r[b].start
        BY <1>2, <2>1, <2>3, <3>4 DEF OnCourts
      <4> QED
        BY <2>1, <4>1 DEF EndOf
    <3> QED
      BY <3>2, <3>3, <3>4
  <2> QED
    BY <2>2, <2>3
<1>4. \A m \in Matches : r[m].minutes > 0
  BY <1>1 DEF Restarted
<1> QED
  BY <1>3, <1>4 DEF Spacious, r

\* The keys of a court are its positions, so they tell its matches apart.
LEMMA PositionsAreKeys ==
    ASSUME NEW p \in Plans
    PROVE  /\ Positions(p) \in [Matches -> Nat]
           /\ \A m \in Matches : Positions(p)[m] = 2 * PositionOf(p, m) /\ PositionOf(p, m) \in Nat
           /\ KeyBound(Positions(p), 2 * Cardinality(Matches))
<1>1. ASSUME NEW m \in Matches
      PROVE  PositionOf(p, m) \in Nat /\ PositionOf(p, m) <= Cardinality(Matches)
             /\ Cardinality(Matches) \in Nat
  <2>1. PositionOf(p, m) \in Nat /\ PositionOf(p, m) < Cardinality(OnCourt(p, p[m].court))
    BY PositionsOrder
  <2>2. /\ Cardinality(OnCourt(p, p[m].court)) <= Cardinality(Matches)
        /\ Cardinality(OnCourt(p, p[m].court)) \in Nat /\ Cardinality(Matches) \in Nat
    BY MatchSetsFinite DEF OnCourt
  <2> QED
    BY <2>1, <2>2
<1>2. Cardinality(Matches) \in Nat
  BY MatchSetsFinite
<1> QED
  BY <1>1, <1>2 DEF Positions, KeyBound

\* The key of a match that is placed lies between two positions.
PlacedKey(p, m, position, offset) == [Positions(p) EXCEPT ![m] = 2 * position + offset]

LEMMA PlacedKeyFits ==
    ASSUME NEW p \in Plans, NEW m \in Matches, NEW position \in Nat, NEW offset \in {-1, 1},
           NEW q \in Plans, \A o \in Matches \ {m} : q[o] = p[o], NEW cs
    PROVE  /\ KeyBound(PlacedKey(p, m, position, offset), 2 * Cardinality(Matches) + 2 * position + 1)
           /\ KeysDiffer(q, PlacedKey(p, m, position, offset), cs)
<1> DEFINE key == PlacedKey(p, m, position, offset)
<1>1. /\ key[m] = 2 * position + offset
      /\ \A o \in Matches \ {m} : key[o] = 2 * PositionOf(p, o) /\ PositionOf(p, o) \in Nat
                                 /\ 2 * PositionOf(p, o) <= 2 * Cardinality(Matches)
      /\ Cardinality(Matches) \in Nat
  BY PositionsAreKeys, MatchSetsFinite DEF PlacedKey, KeyBound
<1> HIDE DEF key
<1>2. KeyBound(key, 2 * Cardinality(Matches) + 2 * position + 1)
  BY <1>1 DEF KeyBound
<1>3. ASSUME NEW a \in OnCourts(q, cs), NEW b \in OnCourts(q, cs), a # b, q[a].court = q[b].court
      PROVE  key[a] # key[b]
  <2>1. a \in Matches /\ b \in Matches
    BY DEF OnCourts
  <2>2. CASE a # m /\ b # m
    <3>1. p[a].court = p[b].court
      BY <1>3, <2>1, <2>2
    <3> QED
      BY <1>1, <1>3, <2>1, <2>2, <3>1, PositionsOrder
  <2>3. CASE a = m \/ b = m
    BY <1>1, <1>3, <2>1, <2>3
  <2> QED
    BY <2>2, <2>3
<1> QED
  BY <1>2, <1>3 DEF KeysDiffer, key

\* Whatever is placed and packed by its key is well placed.
LEMMA PlacedIsReplanned ==
    ASSUME NEW p \in Plans, NEW m \in Matches, NEW court \in Courts, NEW position \in Nat,
           NEW offset \in {-1, 1}, NEW cs, court \in cs
    PROVE  Replanned(p, Repacked([p EXCEPT ![m].court = court, ![m].start = 0], cs,
                                 PlacedKey(p, m, position, offset)))
<1> DEFINE q == [p EXCEPT ![m].court = court, ![m].start = 0]
           key == PlacedKey(p, m, position, offset)
<1>1. /\ q \in Plans
      /\ \A o \in Matches \ {m} : q[o] = p[o]
      /\ q[m] = [p[m] EXCEPT !.court = court, !.start = 0]
  BY DEF Plans
<1>2. q[m].court = court /\ q[m].minutes = p[m].minutes /\ q[m].state = p[m].state
  BY <1>1 DEF Plans
<1>3. 2 * Cardinality(Matches) + 2 * position + 1 \in Nat
  BY MatchSetsFinite
<1> HIDE DEF q
<1>4. KeyBound(key, 2 * Cardinality(Matches) + 2 * position + 1) /\ KeysDiffer(q, key, cs)
  BY <1>1, PlacedKeyFits
<1> HIDE DEF key
<1>5. Restarted(q, Repacked(q, cs, key))
  BY <1>1, <1>4, RepackedIs
<1>6. ASSUME Spacious(p) PROVE Spacious(Repacked(q, cs, key))
  <2>1. \A o \in Matches : q[o].minutes > 0
    BY <1>1, <1>2, <1>6 DEF Spacious
  <2>2. ASSUME NEW a \in Matches, NEW b \in Matches,
               Scheduled(q, a), q[a].court = q[b].court, q[a].court \notin cs, Earlier(q, a, b)
        PROVE  EndOf(q, a) <= q[b].start
    <3>1. q[a] = p[a] /\ q[b] = p[b]
      BY <1>1, <1>2, <2>2
    <3>2. Scheduled(p, a) /\ p[a].court = p[b].court /\ Earlier(p, a, b)
      BY <2>2, <3>1 DEF Scheduled, Earlier
    <3> QED
      BY <1>6, <3>1, <3>2 DEF Spacious, EndOf
  <2> QED
    BY <1>1, <1>4, <2>1, <2>2, PackedIsSpacious
<1>7. \A o \in Matches : Scheduled(p, o) => Scheduled(q, o)
  BY <1>1, <1>2, PackingAssumption DEF Scheduled
<1> QED
  BY <1>1, <1>2, <1>5, <1>6, <1>7 DEF Replanned, Restarted, Scheduled, q, key

\* A request that changes nothing.
LEMMA SameIsReplanned == ASSUME NEW p \in Plans PROVE Replanned(p, p)
BY DEF Replanned

\* A match is placed, or its request is stale, or it is there already.
LEMMA RescheduleReplans ==
    ASSUME NEW p \in Plans, NEW m \in Matches, NEW oldCourt, NEW oldPosition,
           NEW newCourt \in Courts, NEW newPosition \in Nat
    PROVE  Replanned(p, HandleReschedule(p, Reschedule(m, oldCourt, oldPosition, newCourt, newPosition)).plan)
<1> DEFINE a == Reschedule(m, oldCourt, oldPosition, newCourt, newPosition)
           moved == [p EXCEPT ![m].court = newCourt, ![m].start = 0]
<1>1. /\ a.match = m /\ a.oldCourt = oldCourt /\ a.oldPosition = oldPosition
      /\ a.newCourt = newCourt /\ a.newPosition = newPosition
  BY DEF Reschedule
<1>2. Offset(a) \in {-1, 1}
  BY DEF Offset
<1> HIDE DEF a
<1>3. \/ HandleReschedule(p, a).plan = p
      \/ HandleReschedule(p, a).plan = Repacked(moved, {newCourt}, PlacedKey(p, m, newPosition, Offset(a)))
      \/ HandleReschedule(p, a).plan =
             Repacked(moved, {oldCourt, newCourt}, PlacedKey(p, m, newPosition, Offset(a)))
  BY <1>1 DEF HandleReschedule, PlacedKey, Done, Stale
<1> QED
  BY <1>2, <1>3, PlacedIsReplanned, SameIsReplanned DEF a

\* A match goes to the tray unless it was played.
LEMMA TrayIsReplanned ==
    ASSUME NEW p \in Plans, NEW m \in Matches
    PROVE  /\ InTray(p, m) \in Plans
           /\ InTray(p, m)[m].court = NoCourt /\ InTray(p, m)[m].start = 0
           /\ InTray(p, m)[m].minutes = p[m].minutes /\ InTray(p, m)[m].state = p[m].state
           /\ \A o \in Matches \ {m} : InTray(p, m)[o] = p[o]
           /\ ~Played(p, m) => Replanned(p, InTray(p, m))
<1> DEFINE r == InTray(p, m)
<1>1. /\ r \in Plans
      /\ \A o \in Matches \ {m} : r[o] = p[o]
      /\ r[m] = [p[m] EXCEPT !.court = NoCourt, !.start = 0]
  BY DEF InTray, Plans
<1>2. r[m].court = NoCourt /\ r[m].start = 0 /\ r[m].minutes = p[m].minutes /\ r[m].state = p[m].state
  BY <1>1 DEF Plans
<1> HIDE DEF r
<1>3. ASSUME Spacious(p) PROVE Spacious(r)
  <2>1. \A o \in Matches : r[o].minutes > 0
    BY <1>1, <1>2, <1>3 DEF Spacious
  <2>2. ASSUME NEW a \in Matches, NEW b \in Matches,
               Scheduled(r, a), r[a].court = r[b].court, Earlier(r, a, b)
        PROVE  EndOf(r, a) <= r[b].start
    <3>1. r[a] = p[a] /\ r[b] = p[b]
      BY <1>1, <1>2, <2>2 DEF Scheduled
    <3> QED
      BY <1>3, <2>2, <3>1 DEF Spacious, EndOf, Scheduled, Earlier
  <2> QED
    BY <2>1, <2>2 DEF Spacious
<1>4. ~Played(p, m) => Replanned(p, r)
  BY <1>1, <1>2, <1>3 DEF Replanned, Played, Scheduled
<1> QED
  BY <1>1, <1>2, <1>4 DEF r

\* q is p with the slots of a and b traded: each has the court and start of the other.
Traded(p, q, a, b) ==
    /\ q \in Plans
    /\ \A m \in Matches : q[m].minutes = p[m].minutes /\ q[m].state = p[m].state
    /\ \A m \in Matches \ {a, b} : q[m] = p[m]
    /\ q[a].court = p[b].court /\ q[b].court = p[a].court

TradedKey(p, a, b) == [Positions(p) EXCEPT ![a] = Positions(p)[b], ![b] = Positions(p)[a]]

\* Traded keys tell the matches of a court apart, too.
LEMMA TradedKeyFits ==
    ASSUME NEW p \in Plans, NEW a \in Matches, NEW b \in Matches, NEW q, Traded(p, q, a, b), NEW cs
    PROVE  /\ KeyBound(TradedKey(p, a, b), 2 * Cardinality(Matches))
           /\ KeysDiffer(q, TradedKey(p, a, b), cs)
<1> DEFINE of(m) == IF m = a THEN b ELSE IF m = b THEN a ELSE m
           key == TradedKey(p, a, b)
<1>1. \A m \in Matches : of(m) \in Matches /\ q[m].court = p[of(m)].court
  BY DEF Traded
<1>2. \A m, n \in Matches : m # n => of(m) # of(n)
  OBVIOUS
<1>3. \A m \in Matches : key[m] = 2 * PositionOf(p, of(m)) /\ PositionOf(p, of(m)) \in Nat
  BY PositionsAreKeys DEF TradedKey
<1>4. KeyBound(key, 2 * Cardinality(Matches))
  BY PositionsAreKeys DEF TradedKey, KeyBound
<1> HIDE DEF of, key
<1>5. ASSUME NEW m \in OnCourts(q, cs), NEW n \in OnCourts(q, cs), m # n, q[m].court = q[n].court
      PROVE  key[m] # key[n]
  <2>1. m \in Matches /\ n \in Matches
    BY DEF OnCourts
  <2>2. PositionOf(p, of(m)) # PositionOf(p, of(n))
    BY <1>1, <1>2, <1>5, <2>1, PositionsOrder
  <2> QED
    BY <1>3, <2>1, <2>2
<1> QED
  BY <1>4, <1>5 DEF KeysDiffer, key

\* Two slots are traded and their courts packed.
LEMMA TradedIsReplanned ==
    ASSUME NEW p \in Plans, NEW a \in Matches, NEW b \in Matches, NEW q, Traded(p, q, a, b), NEW cs,
           \A m \in {a, b} : Scheduled(p, m) => p[m].court \in cs,
           \A m \in {a, b} : Scheduled(p, m) /\ Played(p, m) => Scheduled(q, m)
    PROVE  Replanned(p, Repacked(q, cs, TradedKey(p, a, b)))
<1> DEFINE key == TradedKey(p, a, b)
<1>1. q \in Plans /\ 2 * Cardinality(Matches) \in Nat
  BY MatchSetsFinite DEF Traded
<1>2. KeyBound(key, 2 * Cardinality(Matches)) /\ KeysDiffer(q, key, cs)
  BY TradedKeyFits
<1> HIDE DEF key
<1>3. Restarted(q, Repacked(q, cs, key))
  BY <1>1, <1>2, RepackedIs
<1>4. ASSUME Spacious(p) PROVE Spacious(Repacked(q, cs, key))
  <2>1. \A o \in Matches : q[o].minutes > 0
    BY <1>4 DEF Spacious, Traded
  <2>2. ASSUME NEW x \in Matches, NEW y \in Matches,
               Scheduled(q, x), q[x].court = q[y].court, q[x].court \notin cs, Earlier(q, x, y)
        PROVE  EndOf(q, x) <= q[y].start
    <3>1. x \notin {a, b} /\ y \notin {a, b}
      BY <2>2 DEF Traded, Scheduled
    <3>2. q[x] = p[x] /\ q[y] = p[y]
      BY <3>1 DEF Traded
    <3> QED
      BY <1>4, <2>2, <3>2 DEF Spacious, EndOf, Scheduled, Earlier
  <2> QED
    BY <1>1, <1>2, <2>1, <2>2, PackedIsSpacious
<1>5. \A m \in Matches : Scheduled(p, m) /\ Played(p, m) => Scheduled(q, m)
  BY DEF Traded, Scheduled
<1> QED
  BY <1>3, <1>4, <1>5 DEF Replanned, Restarted, Traded, Scheduled, key

\* What a swap of two scheduled matches trades before the courts are packed.
BothTraded(p, a, b) ==
    [TakesSlot(p, a, b) EXCEPT ![a] = [p[a] EXCEPT !.court = p[b].court, !.start = p[b].start]]

LEMMA BothAreTraded ==
    ASSUME NEW p \in Plans, NEW a \in Matches, NEW b \in Matches, a # b
    PROVE  /\ Traded(p, BothTraded(p, a, b), a, b)
           /\ BothTraded(p, a, b)[a].start = p[b].start /\ BothTraded(p, a, b)[b].start = p[a].start
BY DEF BothTraded, TakesSlot, Traded, Plans

\* What a swap with the tray trades: the slot of the one that leaves is taken.
LEMMA TrayIsTraded ==
    ASSUME NEW p \in Plans, NEW leaves \in Matches, NEW comes \in Matches,
           Scheduled(p, leaves), ~Scheduled(p, comes)
    PROVE  /\ Traded(p, InTray(TakesSlot(p, leaves, comes), leaves), leaves, comes)
           /\ InTray(TakesSlot(p, leaves, comes), leaves)[comes].start = p[leaves].start
BY DEF InTray, TakesSlot, Traded, Plans, Scheduled

\* A swap trades two slots; a played match is not sent to the tray by it.
LEMMA SwapReplans ==
    ASSUME NEW p \in Plans, NEW a \in Matches, NEW b \in Matches
    PROVE  Replanned(p, HandleSwap(p, a, b).plan)
<1>1. CASE a = b \/ (~Scheduled(p, a) /\ ~Scheduled(p, b))
  <2>1. HandleSwap(p, a, b).plan = p
    <3>1. CASE a = b
      BY <3>1 DEF HandleSwap, Done, Refused
    <3>2. CASE a # b /\ ~Scheduled(p, a) /\ ~Scheduled(p, b)
      BY <3>2 DEF HandleSwap, Done, Refused
    <3> QED
      BY <1>1, <3>1, <3>2
  <2> QED
    BY <2>1, SameIsReplanned
<1>2. CASE a # b /\ Scheduled(p, a) /\ Scheduled(p, b)
  <2>1. HandleSwap(p, a, b).plan =
            Repacked(BothTraded(p, a, b), {p[a].court, p[b].court}, TradedKey(p, a, b))
    BY <1>2 DEF HandleSwap, Done, BothTraded, TradedKey
  <2>2. Traded(p, BothTraded(p, a, b), a, b)
    BY <1>2, BothAreTraded
  <2>3. \A m \in {a, b} : Scheduled(BothTraded(p, a, b), m)
    BY <1>2, <2>2 DEF Traded, Scheduled
  <2> QED
    BY <2>1, <2>2, <2>3, TradedIsReplanned
<1>3. ASSUME NEW leaves \in Matches, NEW comes \in Matches, Scheduled(p, leaves), ~Scheduled(p, comes),
             (leaves = a /\ comes = b) \/ (leaves = b /\ comes = a)
      PROVE  Replanned(p, HandleSwap(p, a, b).plan)
  <2> DEFINE q == InTray(TakesSlot(p, leaves, comes), leaves)
  <2>1. TradedKey(p, a, b) = TradedKey(p, leaves, comes)
    BY <1>3, PositionsAreKeys DEF TradedKey
  <2>2. \/ HandleSwap(p, a, b).plan = p
        \/ /\ ~Played(p, leaves)
           /\ HandleSwap(p, a, b).plan = Repacked(q, {p[leaves].court}, TradedKey(p, leaves, comes))
    BY <1>3, <2>1 DEF HandleSwap, Done, Refused, TradedKey
  <2>3. Traded(p, q, leaves, comes)
    BY <1>3, TrayIsTraded
  <2> HIDE DEF q
  <2>4. CASE ~Played(p, leaves)
    <3>1. \A m \in {leaves, comes} : Scheduled(p, m) => p[m].court \in {p[leaves].court}
      BY <1>3
    <3>2. \A m \in {leaves, comes} : Scheduled(p, m) /\ Played(p, m) => Scheduled(q, m)
      BY <1>3, <2>4
    <3>3. Replanned(p, Repacked(q, {p[leaves].court}, TradedKey(p, leaves, comes)))
      BY <2>3, <3>1, <3>2, TradedIsReplanned
    <3> QED
      BY <2>2, <3>3, SameIsReplanned
  <2> QED
    BY <2>2, <2>4, SameIsReplanned
<1>4. CASE Scheduled(p, a) /\ ~Scheduled(p, b)
  BY <1>3, <1>4
<1>5. CASE ~Scheduled(p, a) /\ Scheduled(p, b)
  BY <1>3, <1>5
<1> QED
  BY <1>1, <1>2, <1>4, <1>5

\* Where the match before m ends, and all matches before m with it.
LEMMA PreviousEndIs ==
    ASSUME NEW p \in Plans, NEW m \in Matches
    PROVE  /\ PreviousEnd(p, m) \in Nat
           /\ Spacious(p) /\ Scheduled(p, m) => \A o \in Before(p, m) : EndOf(p, o) <= PreviousEnd(p, m)
<1> DEFINE last == CHOOSE o \in Before(p, m) : \A x \in Before(p, m) : ~Earlier(p, o, x)
<1>1. CASE Before(p, m) = {}
  BY <1>1 DEF PreviousEnd
<1>2. CASE Before(p, m) # {}
  <2>1. Before(p, m) \in SUBSET Matches /\ \A o \in Before(p, m) : p[o].court = p[m].court
    BY DEF Before, OnCourt
  <2>2. PICK top \in Before(p, m) : \A o \in Before(p, m) : Positions(p)[o] <= Positions(p)[top]
    BY <1>2, <2>1, LastIsLast, PositionsAreKeys
  <2>3. ASSUME NEW o \in Before(p, m) PROVE ~Earlier(p, top, o)
    <3>1. PositionOf(p, o) \in Nat /\ PositionOf(p, top) \in Nat /\ PositionOf(p, o) <= PositionOf(p, top)
      BY <2>1, <2>2, PositionsAreKeys
    <3>2. p[top].court = p[o].court /\ top \in Matches /\ o \in Matches
      BY <2>1
    <3> QED
      BY <3>1, <3>2, PositionsOrder
  <2>4. last \in Before(p, m) /\ \A x \in Before(p, m) : ~Earlier(p, last, x)
    BY <2>3
  <2> HIDE DEF last
  <2>5. PreviousEnd(p, m) = EndOf(p, last)
    BY <1>2 DEF PreviousEnd, last
  <2>6. p[last].start \in Nat /\ p[last].minutes \in Nat
    BY <2>1, <2>4 DEF Plans
  <2>7. ASSUME Spacious(p), Scheduled(p, m), NEW o \in Before(p, m)
        PROVE  EndOf(p, o) <= EndOf(p, last)
    <3>1. CASE o = last
      BY <3>1, <2>6 DEF EndOf
    <3>2. CASE o # last
      <4>1. Earlier(p, o, last)
        BY <2>1, <2>4, <3>2, EarlierOrders
      <4>2. EndOf(p, o) <= p[last].start
        BY <2>1, <2>4, <2>7, <4>1 DEF Spacious, Scheduled
      <4>3. p[o].start \in Nat /\ p[o].minutes \in Nat
        BY <2>1 DEF Plans
      <4> QED
        BY <2>6, <4>2, <4>3 DEF EndOf
    <3> QED
      BY <3>1, <3>2
  <2> QED
    BY <2>5, <2>6, <2>7 DEF EndOf
<1> QED
  BY <1>1, <1>2

\* The break before m is resized: m and the later matches move together.
LEMMA ResizedIsReplanned ==
    ASSUME NEW p \in Plans, NEW m \in Matches, Scheduled(p, m), NEW minutes \in Nat
    PROVE  Replanned(p, Resized(p, m, minutes))
<1> DEFINE delta == PreviousEnd(p, m) + minutes - p[m].start
           later == OnCourt(p, p[m].court) \ Before(p, m)
           r == Resized(p, m, minutes)
<1>1. /\ PreviousEnd(p, m) \in Nat /\ p[m].start \in Nat
      /\ Spacious(p) => \A o \in Before(p, m) : EndOf(p, o) <= PreviousEnd(p, m)
  BY PreviousEndIs DEF Plans
<1>2. r = [o \in Matches |-> IF o \in later THEN [p[o] EXCEPT !.start = @ + delta] ELSE p[o]]
  BY DEF Resized
<1>3. \A o \in later : o \in Matches /\ p[o].court = p[m].court /\ p[o].start \in Nat /\ p[m].start <= p[o].start
  <2> SUFFICES ASSUME NEW o \in later PROVE p[o].start \in Nat /\ p[m].start <= p[o].start
    BY DEF OnCourt
  <2>1. o \in Matches /\ p[o].start \in Nat /\ ~Earlier(p, o, m)
    BY DEF OnCourt, Before, Plans
  <2> QED
    BY <1>1, <2>1 DEF Earlier
<1>4. delta \in Int /\ \A o \in later : p[o].start + delta \in Nat
                                       /\ PreviousEnd(p, m) <= p[o].start + delta
  BY <1>1, <1>3
<1> HIDE DEF r, delta
<1>5. \A o \in Matches : /\ r[o].court = p[o].court /\ r[o].minutes = p[o].minutes /\ r[o].state = p[o].state
                         /\ r[o].start = IF o \in later THEN p[o].start + delta ELSE p[o].start
  BY <1>2 DEF Plans
<1>6. r \in Plans
  BY <1>2, <1>3, <1>4 DEF Plans
<1>7. ASSUME Spacious(p), NEW a \in Matches, NEW b \in Matches,
             Scheduled(r, a), r[a].court = r[b].court, Earlier(r, a, b)
      PROVE  EndOf(r, a) <= r[b].start
  <2>1. /\ p[a].court = p[b].court /\ Scheduled(p, a) /\ Scheduled(p, b)
        /\ p[a].start \in Nat /\ p[a].minutes \in Nat /\ p[b].start \in Nat /\ p[b].minutes \in Nat
        /\ p[b].minutes > 0 /\ p[a].minutes > 0
    BY <1>5, <1>7 DEF Scheduled, Plans, Spacious
  <2>2. CASE (a \in later /\ b \in later) \/ (a \notin later /\ b \notin later)
    <3>1. Earlier(p, a, b)
      BY <1>4, <1>5, <1>7, <2>1, <2>2 DEF Earlier
    <3>2. EndOf(p, a) <= p[b].start
      BY <1>7, <2>1, <3>1 DEF Spacious
    <3> QED
      BY <1>4, <1>5, <2>1, <2>2, <3>2 DEF EndOf
  <2>3. CASE a \notin later /\ b \in later
    <3>1. a \in Before(p, m)
      BY <1>3, <2>1, <2>3 DEF OnCourt
    <3>2. EndOf(p, a) <= PreviousEnd(p, m)
      BY <1>1, <1>7, <3>1
    <3> QED
      BY <1>1, <1>4, <1>5, <2>1, <2>3, <3>2 DEF EndOf
  <2>4. CASE a \in later /\ b \notin later
    <3>1. b \in Before(p, m)
      BY <1>3, <2>1, <2>4 DEF OnCourt
    <3>2. EndOf(p, b) <= PreviousEnd(p, m)
      BY <1>1, <1>7, <3>1
    <3>3. r[b].start < r[a].start
      BY <1>1, <1>4, <1>5, <2>1, <2>4, <3>2 DEF EndOf
    <3>4. r[a].start <= r[b].start
      BY <1>6, <1>7, EarlierOrders
    <3>5. r[a].start \in Nat /\ r[b].start \in Nat
      BY <1>6 DEF Plans
    <3> QED
      BY <3>3, <3>4, <3>5
  <2> QED
    BY <2>2, <2>3, <2>4
<1>8. Spacious(p) => Spacious(r)
  BY <1>5, <1>7 DEF Spacious
<1> QED
  BY <1>5, <1>6, <1>8 DEF Replanned, Scheduled, r

\* Every request the server handles leaves a schedule behind.
LEMMA HandleReplans ==
    ASSUME NEW p \in Plans, NEW a, Requested(a)
    PROVE  Replanned(p, Handle(p, a).plan)
<1>1. ASSUME NEW m \in Matches, NEW oldCourt, NEW oldPosition, NEW newCourt \in Courts,
             NEW newPosition \in Nat, a = Reschedule(m, oldCourt, oldPosition, newCourt, newPosition)
      PROVE  Replanned(p, Handle(p, a).plan)
  <2>1. Handle(p, a) = HandleReschedule(p, a)
    BY <1>1 DEF Handle, Reschedule
  <2> QED
    BY <1>1, <2>1, RescheduleReplans
<1>2. ASSUME NEW m \in Matches, NEW o \in Matches, a = Swap(m, o)
      PROVE  Replanned(p, Handle(p, a).plan)
  <2>1. Handle(p, a) = HandleSwap(p, m, o)
    BY <1>2 DEF Handle, Swap
  <2> QED
    BY <2>1, SwapReplans
<1>3. ASSUME NEW m \in Matches, NEW minutes \in Nat, a = ResizeBreak(m, minutes)
      PROVE  Replanned(p, Handle(p, a).plan)
  <2>1. Handle(p, a) = HandleResizeBreak(p, m, minutes)
    BY <1>3 DEF Handle, ResizeBreak
  <2> QED
    BY <2>1, ResizedIsReplanned, SameIsReplanned DEF HandleResizeBreak, Done, Refused
<1>4. ASSUME NEW m \in Matches, a = Unschedule(m)
      PROVE  Replanned(p, Handle(p, a).plan)
  <2>1. Handle(p, a) = HandleUnschedule(p, m)
    BY <1>4 DEF Handle, Unschedule
  <2> QED
    BY <2>1, TrayIsReplanned, SameIsReplanned DEF HandleUnschedule, Done, Refused
<1> QED
  BY <1>1, <1>2, <1>3, <1>4 DEF Requested

\* Another duration moves the later matches of the court, when there are any.
LEMMA DurationReplans ==
    ASSUME NEW p \in Plans, NEW m \in Matches, NEW minutes \in Nat
    PROVE  /\ HandleDuration(p, m, minutes) \in Plans
           /\ minutes > 0 /\ Spacious(p) => Spacious(HandleDuration(p, m, minutes))
<1> DEFINE longer == [p EXCEPT ![m].minutes = minutes]
           key == Positions(longer)
<1>1. /\ longer \in Plans
      /\ \A o \in Matches : /\ longer[o].court = p[o].court /\ longer[o].start = p[o].start
                            /\ o # m => longer[o].minutes = p[o].minutes
      /\ longer[m].minutes = minutes
      /\ minutes = p[m].minutes => longer = p
  BY DEF Plans
<1>2. HandleDuration(p, m, minutes) =
          IF minutes # p[m].minutes /\ Scheduled(p, m) THEN Repacked(longer, {p[m].court}, key)
          ELSE longer
  BY DEF HandleDuration
<1> HIDE DEF longer
<1>3. KeyBound(key, 2 * Cardinality(Matches)) /\ 2 * Cardinality(Matches) \in Nat
  BY <1>1, PositionsAreKeys DEF KeyBound
<1>4. KeysDiffer(longer, key, {p[m].court})
  <2> SUFFICES ASSUME NEW a \in Matches, NEW b \in Matches, a # b, longer[a].court = longer[b].court
               PROVE  key[a] # key[b]
    BY DEF KeysDiffer, OnCourts
  <2>1. PositionOf(longer, a) # PositionOf(longer, b)
    BY <1>1, PositionsOrder
  <2>2. /\ key[a] = 2 * PositionOf(longer, a) /\ key[b] = 2 * PositionOf(longer, b)
        /\ PositionOf(longer, a) \in Nat /\ PositionOf(longer, b) \in Nat
    BY <1>1, PositionsAreKeys
  <2> QED
    BY <2>1, <2>2
<1> HIDE DEF key
<1>5. Repacked(longer, {p[m].court}, key) \in Plans
  BY <1>1, <1>3, RepackedIs DEF Restarted
<1>6. ASSUME minutes > 0, Spacious(p) PROVE Spacious(HandleDuration(p, m, minutes))
  <2>1. \A o \in Matches : longer[o].minutes > 0
    BY <1>1, <1>6 DEF Spacious
  <2>2. ASSUME NEW a \in Matches, NEW b \in Matches,
               Scheduled(longer, a), longer[a].court = longer[b].court, a # m,
               Earlier(longer, a, b)
        PROVE  EndOf(longer, a) <= longer[b].start
    <3>1. EndOf(p, a) <= p[b].start
      BY <1>1, <1>6, <2>2 DEF Spacious, Scheduled, Earlier
    <3> QED
      BY <1>1, <2>2, <3>1 DEF EndOf
  <2>3. CASE minutes # p[m].minutes /\ Scheduled(p, m)
    <3>1. \A a \in Matches : longer[a].court \notin {p[m].court} => a # m
      BY <1>1
    <3>2. Spacious(Repacked(longer, {p[m].court}, key))
      BY <1>1, <1>3, <1>4, <2>1, <2>2, <3>1, PackedIsSpacious
    <3> QED
      BY <1>2, <2>3, <3>2
  <2>4. CASE ~ (minutes # p[m].minutes /\ Scheduled(p, m))
    <3>1. CASE minutes = p[m].minutes
      BY <1>1, <1>2, <1>6, <3>1
    <3>2. CASE ~Scheduled(p, m)
      <4>1. ~Scheduled(longer, m)
        BY <1>1, <3>2 DEF Scheduled
      <4>2. Spacious(longer)
        BY <2>1, <2>2, <4>1 DEF Spacious
      <4> QED
        BY <1>2, <2>4, <4>2
    <3> QED
      BY <2>4, <3>1, <3>2
  <2> QED
    BY <2>3, <2>4
<1> QED
  BY <1>1, <1>2, <1>5, <1>6

-----------------------------------------------------------------------------
(* What the reducer lets out, whatever is tapped in whatever order *)

\* A match as some schedule, perhaps an old one, drew it.
Drawn(ref) ==
    /\ ref.id \in Matches /\ ref.court \in Courts /\ ref.position \in Nat
    /\ ref.played \in BOOLEAN /\ ref.locked \in BOOLEAN

Placing(sel) ==
    \/ \E ref : Drawn(ref) /\ sel = MatchSelected(ref)
    \/ \E m \in Matches : sel = TraySelected(m)

Selected(sel) ==
    \/ sel = Idle
    \/ Placing(sel)
    \/ \E previous, action : Placing(previous) /\ Requested(action) /\ sel = ConfirmMove(previous, action)

Tapped(tap) ==
    \/ \E ref : Drawn(ref) /\ tap = TapMatch(ref)
    \/ \E m \in Matches : tap = TapTray(m)
    \/ \E c \in Courts, i \in Nat : tap = TapLine(c, i)
    \/ \E button \in Buttons : tap = Press(button)

LetOut(action) == action = NoAction \/ Requested(action) \/ \E m \in Matches : action = OpenDetails(m)

\* The request for a place is one, or none when the match is there already.
LEMMA PlaceIsRequested ==
    ASSUME NEW ref, Drawn(ref), NEW c \in Courts, NEW i \in Nat
    PROVE  PlaceAction(ref, c, i) = NoAction \/ Requested(PlaceAction(ref, c, i))
<1>1. \/ PlaceAction(ref, c, i) = NoAction
      \/ PlaceAction(ref, c, i) = Reschedule(ref.id, ref.court, ref.position, c, i)
      \/ /\ PlaceAction(ref, c, i) = Reschedule(ref.id, ref.court, ref.position, c, i - 1)
         /\ i > ref.position + 1
  BY DEF PlaceAction
<1>2. i > ref.position + 1 => i - 1 \in Nat
  BY DEF Drawn
<1> QED
  BY <1>1, <1>2 DEF Requested, Drawn

\* A request that may have to be confirmed.
LEMMA ConfirmOrPerformFits ==
    ASSUME NEW previous, Placing(previous), NEW moved, NEW targets, NEW action,
           action = NoAction \/ Requested(action)
    PROVE  LET step == ConfirmOrPerform(previous, moved, targets, action)
           IN Selected(step.sel) /\ (step.action = NoAction \/ Requested(step.action))
BY DEF ConfirmOrPerform, Selected, Stay, Step

LEMMA FromMatchFits ==
    ASSUME NEW ref, Drawn(ref), NEW sel, sel = MatchSelected(ref), NEW tap, Tapped(tap)
    PROVE  Selected(FromMatch(sel, tap).sel)
           /\ (FromMatch(sel, tap).action = NoAction \/ Requested(FromMatch(sel, tap).action))
<1>1. sel.match = ref /\ Placing(sel) /\ Selected(sel) /\ Selected(Idle)
  BY DEF MatchSelected, Placing, Selected
<1>2. \A o \in Matches : Requested(Swap(ref.id, o)) /\ Requested(Unschedule(ref.id))
  BY DEF Requested, Drawn
<1>3. ASSUME NEW other, Drawn(other), tap = TapMatch(other)
      PROVE  \/ FromMatch(sel, tap) = Stay(Idle)
             \/ FromMatch(sel, tap) = ConfirmOrPerform(sel, ref, {other}, Swap(ref.id, other.id))
  BY <1>1, <1>3 DEF FromMatch, TapMatch
<1>4. ASSUME NEW m \in Matches, tap = TapTray(m)
      PROVE  FromMatch(sel, tap) = Step(Idle, Swap(ref.id, m))
  BY <1>1, <1>4 DEF FromMatch, TapTray
<1>5. ASSUME NEW c \in Courts, NEW i \in Nat, tap = TapLine(c, i)
      PROVE  FromMatch(sel, tap) = ConfirmOrPerform(sel, ref, {}, PlaceAction(ref, c, i))
  BY <1>1, <1>5 DEF FromMatch, TapLine
<1>6. ASSUME NEW button \in Buttons, tap = Press(button)
      PROVE  FromMatch(sel, tap) \in {Stay(Idle), Stay(sel), Step(Idle, Unschedule(ref.id))}
  BY <1>1, <1>6 DEF FromMatch, Press, Buttons
<1>7. CASE \E other : Drawn(other) /\ tap = TapMatch(other)
  <2> PICK other : Drawn(other) /\ tap = TapMatch(other)
    BY <1>7
  <2>1. Requested(Swap(ref.id, other.id))
    BY <1>2 DEF Drawn
  <2>2. CASE FromMatch(sel, tap) = Stay(Idle)
    BY <1>1, <2>2 DEF Stay, Step
  <2>3. CASE FromMatch(sel, tap) = ConfirmOrPerform(sel, ref, {other}, Swap(ref.id, other.id))
    BY <1>1, <2>1, <2>3, ConfirmOrPerformFits
  <2> QED
    BY <1>3, <2>2, <2>3
<1>8. CASE \E m \in Matches : tap = TapTray(m)
  BY <1>1, <1>2, <1>4, <1>8 DEF Step
<1>9. CASE \E c \in Courts, i \in Nat : tap = TapLine(c, i)
  BY <1>1, <1>5, <1>9, PlaceIsRequested, ConfirmOrPerformFits
<1>10. CASE \E button \in Buttons : tap = Press(button)
  <2>1. FromMatch(sel, tap) \in {Stay(Idle), Stay(sel), Step(Idle, Unschedule(ref.id))}
    BY <1>6, <1>10
  <2>2. Requested(Unschedule(ref.id))
    BY DEF Requested, Drawn
  <2> QED
    BY <1>1, <2>1, <2>2 DEF Stay, Step
<1> QED
  BY <1>7, <1>8, <1>9, <1>10 DEF Tapped

LEMMA FromTrayFits ==
    ASSUME NEW m \in Matches, NEW sel, sel = TraySelected(m), NEW tap, Tapped(tap)
    PROVE  Selected(FromTray(sel, tap).sel)
           /\ (FromTray(sel, tap).action = NoAction \/ Requested(FromTray(sel, tap).action))
<1>1. sel.matchId = m /\ Placing(sel) /\ Selected(sel) /\ Selected(Idle)
      /\ \A o \in Matches : Selected(TraySelected(o))
  BY DEF TraySelected, Placing, Selected
<1>2. CASE \E other : Drawn(other) /\ tap = TapMatch(other)
  <2> PICK other : Drawn(other) /\ tap = TapMatch(other)
    BY <1>2
  <2>1. Requested(Swap(m, other.id))
    BY DEF Drawn, Requested
  <2>2. FromTray(sel, tap) = ConfirmOrPerform(sel, Loose, {other}, Swap(m, other.id))
    BY <1>1 DEF FromTray, TapMatch
  <2> QED
    BY <1>1, <2>1, <2>2, ConfirmOrPerformFits
<1>3. CASE \E o \in Matches : tap = TapTray(o)
  <2> PICK o \in Matches : tap = TapTray(o)
    BY <1>3
  <2>1. FromTray(sel, tap) \in {Stay(Idle), Stay(TraySelected(o))}
    BY <1>1 DEF FromTray, TapTray
  <2> QED
    BY <1>1, <2>1 DEF Stay, Step
<1>4. CASE \E c \in Courts, i \in Nat : tap = TapLine(c, i)
  <2> PICK c \in Courts, i \in Nat : tap = TapLine(c, i)
    BY <1>4
  <2>1. FromTray(sel, tap) = Step(Idle, PlaceFromTray(m, c, i))
    BY <1>1 DEF FromTray, TapLine
  <2>2. Requested(PlaceFromTray(m, c, i))
    BY DEF Requested, PlaceFromTray
  <2> QED
    BY <1>1, <2>1, <2>2 DEF Step
<1>5. CASE \E button \in Buttons : tap = Press(button)
  <2>1. FromTray(sel, tap) \in {Stay(Idle), Stay(sel)}
    BY <1>1, <1>5 DEF FromTray, Press, Buttons
  <2> QED
    BY <1>1, <2>1 DEF Stay, Step
<1> QED
  BY <1>2, <1>3, <1>4, <1>5 DEF Tapped

\* What a tap does to the selection, in any mode.
LEMMA ReducerFits ==
    ASSUME NEW sel, Selected(sel), NEW tap, Tapped(tap), NEW mode \in PlannerModes
    PROVE  Selected(SelectionReducer(sel, tap, mode).sel)
           /\ LetOut(SelectionReducer(sel, tap, mode).action)
<1>1. CASE sel = Idle
  <2>1. SelectionReducer(sel, tap, mode) = FromIdle(tap, mode) /\ Selected(Idle)
    BY <1>1 DEF SelectionReducer, Idle, Selected
  <2>2. CASE \E ref : Drawn(ref) /\ tap = TapMatch(ref)
    <3> PICK ref : Drawn(ref) /\ tap = TapMatch(ref)
      BY <2>2
    <3>1. FromIdle(tap, mode) \in {Stay(Idle), Step(Idle, Unschedule(ref.id)),
                                  Step(Idle, OpenDetails(ref.id)), Stay(MatchSelected(ref))}
      BY DEF FromIdle, TapMatch, PlannerModes
    <3>2. Selected(MatchSelected(ref)) /\ LetOut(Unschedule(ref.id)) /\ LetOut(OpenDetails(ref.id))
          /\ LetOut(NoAction)
      BY DEF Selected, Placing, LetOut, Requested, Drawn
    <3> QED
      BY <2>1, <3>1, <3>2 DEF Stay, Step
  <2>3. CASE \E m \in Matches : tap = TapTray(m)
    <3> PICK m \in Matches : tap = TapTray(m)
      BY <2>3
    <3>1. FromIdle(tap, mode) \in {Step(Idle, OpenDetails(m)), Stay(TraySelected(m))}
      BY DEF FromIdle, TapTray
    <3>2. Selected(TraySelected(m)) /\ LetOut(OpenDetails(m)) /\ LetOut(NoAction)
      BY DEF Selected, Placing, LetOut
    <3> QED
      BY <2>1, <3>1, <3>2 DEF Stay, Step
  <2>4. CASE (\E c \in Courts, i \in Nat : tap = TapLine(c, i)) \/ \E button \in Buttons : tap = Press(button)
    <3>1. FromIdle(tap, mode) = Stay(Idle)
      BY <2>4 DEF FromIdle, TapLine, Press, Buttons
    <3> QED
      BY <2>1, <3>1 DEF Stay, Step, LetOut
  <2> QED
    BY <2>2, <2>3, <2>4 DEF Tapped
<1>2. ASSUME NEW ref, Drawn(ref), sel = MatchSelected(ref)
      PROVE  SelectionReducer(sel, tap, mode) = FromMatch(sel, tap)
  BY <1>2 DEF SelectionReducer, MatchSelected
<1>3. ASSUME NEW m \in Matches, sel = TraySelected(m)
      PROVE  SelectionReducer(sel, tap, mode) = FromTray(sel, tap)
  BY <1>3 DEF SelectionReducer, TraySelected
<1>4. ASSUME NEW previous, NEW action, Placing(previous), Requested(action),
             sel = ConfirmMove(previous, action)
      PROVE  Selected(SelectionReducer(sel, tap, mode).sel)
             /\ LetOut(SelectionReducer(sel, tap, mode).action)
  <2>1. SelectionReducer(sel, tap, mode) = FromConfirm(sel, tap)
    BY <1>4 DEF SelectionReducer, ConfirmMove
  <2>2. FromConfirm(sel, tap) \in {Step(Idle, action), Stay(previous), Stay(sel)}
    BY <1>4 DEF FromConfirm, ConfirmMove
  <2>3. Selected(previous) /\ Selected(Idle)
    BY <1>4 DEF Selected
  <2> QED
    BY <1>4, <2>1, <2>2, <2>3 DEF Stay, Step, LetOut
<1> QED
  BY <1>1, <1>2, <1>3, <1>4, FromMatchFits, FromTrayFits DEF Selected, Placing, LetOut

-----------------------------------------------------------------------------
(* The page: what it holds is what it says it holds *)

\* Among the matches of a court the inserted one is told apart.
LEMMA InsertedKeyFits ==
    ASSUME NEW p \in Plans, NEW a, a.match \in Matches, a.newPosition \in Nat
    PROVE  KeyBound(InsertedKey(p, a), 2 * Cardinality(Matches))
<1> DEFINE rest == OnCourt(p, a.newCourt) \ {a.match}
           key == InsertedKey(p, a)
<1>1. rest \in SUBSET Matches
  BY DEF OnCourt
<1>2. /\ Cardinality(rest) \in Nat /\ Cardinality(rest) <= Cardinality(Matches)
      /\ Cardinality(Matches) \in Nat
  BY <1>1, MatchSetsFinite
<1>3. ASSUME NEW m \in Matches
      PROVE  PlaceIn(p, rest, m) \in Nat /\ PlaceIn(p, rest, m) <= Cardinality(Matches)
  <2>1. {o \in rest : Earlier(p, o, m)} \in SUBSET Matches
    BY <1>1
  <2> QED
    BY <2>1, MatchSetsFinite DEF PlaceIn
<1>4. ClampTo(a.newPosition, Cardinality(rest)) \in Nat
      /\ ClampTo(a.newPosition, Cardinality(rest)) <= Cardinality(rest)
  BY <1>2 DEF ClampTo
<1>5. \A m \in Matches : key[m] = IF m = a.match THEN 2 * ClampTo(a.newPosition, Cardinality(rest)) - 1
                                  ELSE 2 * PlaceIn(p, rest, m)
  BY DEF InsertedKey, PlaceIn
<1> HIDE DEF rest, key
<1> QED
  BY <1>2, <1>3, <1>4, <1>5 DEF KeyBound, key

\* What the grid shows until the answer is there is a schedule.
LEMMA OptimisticIsPlan ==
    ASSUME NEW p \in Plans, NEW a, Requested(a)
    PROVE  Optimistic(p, a) \in Plans
<1>1. ASSUME NEW m \in Matches, NEW oldCourt, NEW oldPosition, NEW newCourt \in Courts,
             NEW newPosition \in Nat, a = Reschedule(m, oldCourt, oldPosition, newCourt, newPosition)
      PROVE  Optimistic(p, a) \in Plans
  <2> DEFINE q == [p EXCEPT ![m].court = newCourt, ![m].start = 0]
  <2>1. /\ a.match = m /\ a.newCourt = newCourt /\ a.newPosition = newPosition
        /\ Optimistic(p, a) = OptimisticReschedule(p, a)
    BY <1>1 DEF Reschedule, Optimistic
  <2>2. Optimistic(p, a) = Repacked(q, {newCourt}, InsertedKey(p, a))
    BY <2>1 DEF OptimisticReschedule
  <2>3. q \in Plans
    BY DEF Plans
  <2> HIDE DEF q
  <2>4. KeyBound(InsertedKey(p, a), 2 * Cardinality(Matches))
    BY <2>1, InsertedKeyFits
  <2> QED
    BY <2>2, <2>3, <2>4, RepackedIs DEF Restarted
<1>2. ASSUME NEW m \in Matches, NEW o \in Matches, a = Swap(m, o)
      PROVE  Optimistic(p, a) \in Plans
  <2>1. Optimistic(p, a) = OptimisticSwap(p, m, o)
    BY <1>2 DEF Optimistic, Swap
  <2>2. BothTraded(p, m, o) \in Plans /\ TakesSlot(p, m, o) \in Plans /\ TakesSlot(p, o, m) \in Plans
    BY DEF BothTraded, TakesSlot, Plans
  <2>3. OptimisticSwap(p, m, o) \in {BothTraded(p, m, o), InTray(TakesSlot(p, m, o), m),
                                     InTray(TakesSlot(p, o, m), o), p}
    BY DEF OptimisticSwap, BothTraded
  <2> QED
    BY <2>1, <2>2, <2>3, TrayIsReplanned
<1>3. ASSUME NEW m \in Matches, NEW minutes \in Nat, a = ResizeBreak(m, minutes)
      PROVE  Optimistic(p, a) \in Plans
  <2>1. Optimistic(p, a) = IF Scheduled(p, m) THEN Resized(p, m, minutes) ELSE p
    BY <1>3 DEF Optimistic, ResizeBreak
  <2> QED
    BY <2>1, ResizedIsReplanned DEF Replanned
<1>4. ASSUME NEW m \in Matches, a = Unschedule(m)
      PROVE  Optimistic(p, a) \in Plans
  <2>1. Optimistic(p, a) = InTray(p, m)
    BY <1>4 DEF Optimistic, Unschedule
  <2> QED
    BY <2>1, TrayIsReplanned
<1> QED
  BY <1>1, <1>2, <1>3, <1>4 DEF Requested

\* What the grid hands to a tap is drawn from the schedule it shows.
LEMMA GridRefIsDrawn ==
    ASSUME NEW p \in Plans, NEW m \in OnGrid(p)
    PROVE  Drawn(GridRef(p, m)) /\ GridRef(p, m).id = m
<1>1. m \in Matches /\ p[m].court \in Courts
  BY DEF OnGrid, Scheduled, Plans
<1>2. PositionOf(p, m) \in Nat
  BY <1>1, PositionsOrder
<1> QED
  BY <1>1, <1>2 DEF Drawn, GridRef, Played, Locked

\* Taps of the page that never reach the selection.
LooksAround(tap) ==
    \/ tap \in {[type |-> "tap-overview"], [type |-> "zoom-in"], [type |-> "zoom-out"]}
    \/ \E mode \in PlannerModes : tap = [type |-> "set-mode", mode |-> mode]
    \/ \E m \in Matches, minutes \in Nat : tap = TapBreak(m, minutes)

LEMMA GridTapsAreTaps ==
    ASSUME NEW p \in Plans, NEW sel, NEW sizes \in SUBSET Nat, NEW tap \in GridTaps(p, sel, sizes)
    PROVE  Tapped(tap) \/ \E m \in BreaksOffered(p), minutes \in sizes : tap = TapBreak(m, minutes)
<1>1. ASSUME NEW m \in OnGrid(p), tap = TapMatch(GridRef(p, m)) PROVE Tapped(tap)
  BY <1>1, GridRefIsDrawn DEF Tapped
<1>2. ASSUME NEW line \in InsertionLines(p) PROVE Tapped(TapLine(line[1], line[2]))
  <2>1. line[1] \in Courts /\ line[2] \in Nat
    BY MatchSetsFinite DEF InsertionLines
  <2> QED
    BY <2>1 DEF Tapped
<1>3. \A m \in Matches : Tapped(TapTray(m))
  BY DEF Tapped
<1> QED
  BY <1>1, <1>2, <1>3 DEF GridTaps

Planning(pl) ==
    \E zoom \in ZoomLevels, mode \in PlannerModes : \E sel :
        Selected(sel) /\ pl = [zoom |-> zoom, mode |-> mode, sel |-> sel]

\* Whatever is tapped, the planner stays one and asks for something it can ask for.
LEMMA PlannerReducerFits ==
    ASSUME NEW pl, Planning(pl), NEW tap, Tapped(tap) \/ LooksAround(tap)
    PROVE  Planning(PlannerReducer(pl, tap).planner) /\ LetOut(PlannerReducer(pl, tap).action)
<1>0. PICK zoom \in ZoomLevels, mode \in PlannerModes : \E sel :
          Selected(sel) /\ pl = [zoom |-> zoom, mode |-> mode, sel |-> sel]
  BY DEF Planning
<1>1. PICK sel : Selected(sel) /\ pl = [zoom |-> zoom, mode |-> mode, sel |-> sel]
  BY <1>0
<1>2. CASE Tapped(tap)
  <2>1. PlannerReducer(pl, tap) \in {Only(pl), Delegated(pl, tap)}
    BY <1>2 DEF PlannerReducer, Tapped, TapMatch, TapTray, TapLine, Press, Buttons
  <2>2. Planning(Only(pl).planner) /\ LetOut(Only(pl).action)
    BY DEF Only, LetOut
  <2>3. /\ Delegated(pl, tap).planner = [zoom |-> zoom, mode |-> mode, sel |-> SelectionReducer(sel, tap, mode).sel]
        /\ Delegated(pl, tap).action = SelectionReducer(sel, tap, mode).action
    BY <1>1 DEF Delegated
  <2>4. Planning(Delegated(pl, tap).planner) /\ LetOut(Delegated(pl, tap).action)
    BY <1>1, <1>2, <2>3, ReducerFits DEF Planning
  <2> QED
    BY <2>1, <2>2, <2>4
<1>3. CASE LooksAround(tap)
  <2>1. CASE \E m \in Matches, minutes \in Nat : tap = TapBreak(m, minutes)
    <3> PICK m \in Matches, minutes \in Nat : tap = TapBreak(m, minutes)
      BY <2>1
    <3>1. /\ PlannerReducer(pl, tap).planner = pl
          /\ PlannerReducer(pl, tap).action \in {NoAction, ResizeBreak(m, minutes)}
      BY DEF PlannerReducer, TapBreak, Only, Buttons
    <3> QED
      BY <3>1 DEF LetOut, Requested
  <2>2. CASE \E new \in PlannerModes : tap = [type |-> "set-mode", mode |-> new]
    <3> PICK new \in PlannerModes : tap = [type |-> "set-mode", mode |-> new]
      BY <2>2
    <3>1. PlannerReducer(pl, tap) = Only([pl EXCEPT !.mode = new, !.sel = Idle])
      BY DEF PlannerReducer, Buttons
    <3>2. [pl EXCEPT !.mode = new, !.sel = Idle] = [zoom |-> zoom, mode |-> new, sel |-> Idle]
      <4> DEFINE switched == [pl EXCEPT !.mode = new]
      <4>1. [pl EXCEPT !.mode = new, !.sel = Idle] = [switched EXCEPT !.sel = Idle]
        OBVIOUS
      <4>2. switched = [zoom |-> zoom, mode |-> new, sel |-> sel]
        BY <1>1
      <4> HIDE DEF switched
      <4>3. [switched EXCEPT !.sel = Idle] = [zoom |-> zoom, mode |-> new, sel |-> Idle]
        BY <4>2
      <4> QED
        BY <4>1, <4>3
    <3>3. Planning([zoom |-> zoom, mode |-> new, sel |-> Idle])
      BY DEF Planning, Selected
    <3> QED
      BY <3>1, <3>2, <3>3 DEF Only, LetOut
  <2>3. CASE tap \in {[type |-> "tap-overview"], [type |-> "zoom-in"], [type |-> "zoom-out"]}
    <3>1. PlannerReducer(pl, tap) \in {Only(pl), Only([pl EXCEPT !.zoom = ZoomIn(@)]),
                                      Only([pl EXCEPT !.zoom = ZoomOut(@)])}
      BY <2>3 DEF PlannerReducer, Buttons
    <3>2. ZoomIn(zoom) \in ZoomLevels /\ ZoomOut(zoom) \in ZoomLevels
      BY DEF ZoomIn, ZoomOut, ZoomLevels
    <3>3. /\ [pl EXCEPT !.zoom = ZoomIn(@)] = [zoom |-> ZoomIn(zoom), mode |-> mode, sel |-> sel]
          /\ [pl EXCEPT !.zoom = ZoomOut(@)] = [zoom |-> ZoomOut(zoom), mode |-> mode, sel |-> sel]
      BY <1>1
    <3>4. \A z \in ZoomLevels : Planning([zoom |-> z, mode |-> mode, sel |-> sel])
      BY <1>1 DEF Planning
    <3>5. Planning([pl EXCEPT !.zoom = ZoomIn(@)]) /\ Planning([pl EXCEPT !.zoom = ZoomOut(@)])
      BY <3>2, <3>3, <3>4
    <3> QED
      BY <3>1, <3>5 DEF Only, LetOut
  <2> QED
    BY <1>3, <2>1, <2>2, <2>3 DEF LooksAround
<1> QED
  BY <1>2, <1>3

-----------------------------------------------------------------------------
(* The prediction stands because of three facts: a request is known by its *)
(* number and the newest one has the highest, so a failure of another one  *)
(* is told apart; and while the newest request is open the revalidation    *)
(* under way counts for nothing.                                           *)

RequestsNumbered ==
    /\ began \in Nat
    /\ \A r \in requests : {"id", "action", "base", "answer"} \subseteq DOMAIN r /\ r.id \in 1..began
    /\ \A r, s \in requests : r.id = s.id => r = s

FetchVoid ==
    \A f \in fetch : "void" \in DOMAIN f /\ (f.void \/ ~NewestOpen(requests))

PredictionInv == RequestsNumbered /\ FetchVoid /\ PredictionStands

\* No request is open on a page that has just been drawn.
LEMMA PredictionInit == Init => PredictionInv
BY DEF Init, PredictionInv, RequestsNumbered, FetchVoid, PredictionStands

\* An answer changes neither the number of a request nor what it predicts.
LEMMA AnsweredKeeps ==
    ASSUME PredictionInv, NEW r \in requests, NEW answer, Answered(r, answer),
           UNCHANGED <<shown, fetch, began>>
    PROVE  PredictionInv'
<1> DEFINE s == [r EXCEPT !.answer = answer]
<1>1. /\ DOMAIN s = DOMAIN r
      /\ s.id = r.id /\ s.action = r.action /\ s.base = r.base
  BY DEF PredictionInv, RequestsNumbered
<1>2. requests' = (requests \ {r}) \cup {s}
  BY DEF Answered
<1> HIDE DEF s
<1>3. RequestsNumbered'
  BY <1>1, <1>2 DEF PredictionInv, RequestsNumbered
<1>4. NewestOpen(requests') => NewestOpen(requests)
  BY <1>1, <1>2 DEF NewestOpen, Newest
<1>5. FetchVoid'
  <2>1. began' = began /\ fetch' = fetch
    OBVIOUS
  <2>2. NewestOpen(requests)' => NewestOpen(requests)
    BY <1>4, <2>1 DEF NewestOpen, Newest
  <2> QED
    BY <2>1, <2>2 DEF PredictionInv, FetchVoid
<1>6. PredictionStands'
  BY <1>1, <1>2 DEF PredictionInv, PredictionStands, Newest
<1> QED
  BY <1>3, <1>5, <1>6 DEF PredictionInv

\* What leaves requests and grid alone keeps the invariant when a revalidation it
\* starts is void while the newest request is open.
LEMMA CacheKeeps ==
    ASSUME PredictionInv, UNCHANGED <<requests, shown, began>>,
           fetch' \subseteq fetch \/ \E settles : Revalidate(settles, NewestOpen(requests))
    PROVE  PredictionInv'
<1>1. RequestsNumbered' /\ PredictionStands'
  BY DEF PredictionInv, RequestsNumbered, PredictionStands, Newest
<1>2. NewestOpen(requests)' = NewestOpen(requests)
  BY DEF NewestOpen, Newest
<1>3. FetchVoid'
  BY <1>2 DEF PredictionInv, FetchVoid, Revalidate
<1> QED
  BY <1>1, <1>3 DEF PredictionInv

\* A tap that asks for something: the new request is the newest, the grid shows its
\* outcome and what is being read is void.
LEMMA AskPredicts ==
    ASSUME PredictionInv, NEW tap, Ask(tap)
    PROVE  PredictionInv'
<1> DEFINE action == PlannerReducer(planner, tap).action
           new == [id |-> began + 1, action |-> action, base |-> Current, answer |-> "none"]
<1>1. /\ began' = began + 1 /\ requests' = requests \cup {new}
      /\ shown' = Optimistic(Current, action)
  BY DEF Ask, Predicted
<1>2. \A r \in requests : r.id \in 1..began
  BY DEF PredictionInv, RequestsNumbered
<1>3. RequestsNumbered'
  BY <1>1, <1>2 DEF PredictionInv, RequestsNumbered
<1>4. \A r \in requests' : r.id = began' => r = new
  BY <1>1, <1>2 DEF PredictionInv, RequestsNumbered
<1>5. PredictionStands'
  BY <1>1, <1>4 DEF PredictionStands, Newest
<1>6. \A f \in fetch' : "void" \in DOMAIN f /\ f.void
  <2>1. Revalidate(FALSE, TRUE) \/ fetch' = Voided
    BY DEF Ask
  <2>2. \A f \in fetch : "void" \in DOMAIN f
    BY DEF PredictionInv, FetchVoid
  <2> QED
    BY <2>1, <2>2 DEF Revalidate, Voided
<1>7. FetchVoid'
  BY <1>6 DEF FetchVoid
<1> QED
  BY <1>3, <1>5, <1>7 DEF PredictionInv

\* A request that is done: no other one has its number.
LEMMA DoneKeeps ==
    ASSUME PredictionInv, NEW r \in requests, requests' = requests \ {r}, began' = began
    PROVE  /\ RequestsNumbered'
           /\ NewestOpen(requests)' <=> NewestOpen(requests \ {r})
           /\ Newest(r) => ~NewestOpen(requests)'
BY DEF PredictionInv, RequestsNumbered, NewestOpen, Newest

\* The answer to the newest request takes its prediction; another one takes nothing.
LEMMA AcceptedKeeps ==
    ASSUME PredictionInv, NEW r \in requests, Accepted(r)
    PROVE  PredictionInv'
<1>1. requests' = requests \ {r} /\ began' = began /\ shown' = shown
  BY DEF Accepted
<1>2. PredictionStands'
  BY <1>1 DEF PredictionInv, PredictionStands, Newest
<1>3. FetchVoid'
  <2>1. CASE Newest(r)
    BY <2>1, <1>1, DoneKeeps DEF Accepted, Revalidate, FetchVoid
  <2>2. CASE ~Newest(r)
    BY <2>2, <1>1, DoneKeeps DEF Accepted, PredictionInv, FetchVoid, NewestOpen
  <2> QED
    BY <2>1, <2>2
<1> QED
  BY <1>1, <1>2, <1>3, DoneKeeps DEF PredictionInv

\* Only the failure of the newest request takes the prediction back, and then no
\* request is open that is the newest.
LEMMA RejectedKeeps ==
    ASSUME PredictionInv, NEW r \in requests, Rejected(r)
    PROVE  PredictionInv'
<1>1. requests' = requests \ {r} /\ began' = began
  BY DEF Rejected
<1>2. PredictionStands'
  <2>1. CASE Newest(r)
    BY <2>1, <1>1, DoneKeeps DEF PredictionStands, NewestOpen, Newest
  <2>2. CASE ~Newest(r)
    BY <2>2, <1>1 DEF Rejected, RolledBack, PredictionInv, PredictionStands, Newest
  <2> QED
    BY <2>1, <2>2
<1>3. FetchVoid'
  BY <1>1, DoneKeeps DEF Rejected, Resynced, FetchVoid
<1> QED
  BY <1>1, <1>2, <1>3, DoneKeeps DEF PredictionInv

\* What is received is drawn only when the newest request is not open.
LEMMA ReceivedKeeps ==
    ASSUME PredictionInv, ReceiveFetch
    PROVE  PredictionInv'
<1> PICK f \in fetch :
       /\ fetch' = {} /\ UNCHANGED <<requests, began>>
       /\ shown' = IF f.void THEN shown ELSE CHOOSE p \in f.read : TRUE
  BY DEF ReceiveFetch
<1>1. RequestsNumbered' /\ FetchVoid'
  BY DEF PredictionInv, RequestsNumbered, FetchVoid
<1>2. PredictionStands'
  BY DEF PredictionInv, FetchVoid, PredictionStands, NewestOpen, Newest
<1> QED
  BY <1>1, <1>2 DEF PredictionInv

\* What is read changes nothing of a revalidation but its reading.
LEMMA ReadKeeps ==
    ASSUME PredictionInv, ServeFetch
    PROVE  PredictionInv'
<1> PICK f \in fetch :
       fetch' = {[f EXCEPT !.read = {sched}]} /\ UNCHANGED <<requests, shown, began>>
  BY DEF ServeFetch
<1>1. \A g \in fetch' : "void" \in DOMAIN g /\ g.void = f.void
  BY DEF PredictionInv, FetchVoid
<1>2. FetchVoid'
  BY <1>1 DEF PredictionInv, FetchVoid, NewestOpen, Newest
<1>3. RequestsNumbered' /\ PredictionStands'
  BY DEF PredictionInv, RequestsNumbered, PredictionStands, Newest
<1> QED
  BY <1>2, <1>3 DEF PredictionInv

\* Every step of the page, of the server, of the colleague or of a fault.
LEMMA PredictionStep == PredictionInv /\ [Next]_vars => PredictionInv'
<1> SUFFICES ASSUME PredictionInv, [Next]_vars PROVE PredictionInv'
  OBVIOUS
<1>1. CASE UNCHANGED vars
  BY <1>1, CacheKeeps DEF vars, page
<1>2. ASSUME NEW tap \in Taps, Look(tap) PROVE PredictionInv'
  <2>1. \/ Revalidate(FALSE, NewestOpen(requests))
        \/ fetch' \subseteq fetch
    BY <1>2 DEF Look
  <2>2. UNCHANGED <<requests, shown, began>>
    BY <1>2 DEF Look
  <2> QED
    BY <2>1, <2>2, CacheKeeps
<1>3. ASSUME NEW r \in requests,
             ServeRequest(r) \/ LoseRequest(r) \/ LoseAnswer(r)
      PROVE PredictionInv'
  <2>1. UNCHANGED <<shown, fetch, began>>
    BY <1>3 DEF ServeRequest, LoseRequest, LoseAnswer, Loses, page
  <2>2. \E answer : Answered(r, answer)
    BY <1>3 DEF ServeRequest, LoseRequest, LoseAnswer
  <2> QED
    BY <2>1, <2>2, AnsweredKeeps
<1>4. CASE ColleagueMoves
  BY <1>4, CacheKeeps DEF ColleagueMoves, page
<1>5. CASE Poll \/ Retry
  <2>1. UNCHANGED <<requests, shown, began>> /\ Revalidate(FALSE, NewestOpen(requests))
    BY <1>5 DEF Poll, Retry
  <2> QED
    BY <2>1, CacheKeeps
<1>6. CASE LoseFetch
  <2>1. UNCHANGED <<requests, shown, began>> /\ fetch' = {}
    BY <1>6 DEF LoseFetch, Loses
  <2> QED
    BY <2>1, CacheKeeps
<1>7. CASE StraySettles
  BY <1>7, CacheKeeps DEF StraySettles
<1> QED
  BY <1>1, <1>2, <1>3, <1>4, <1>5, <1>6, <1>7, AskPredicts, AcceptedKeeps, RejectedKeeps,
     ReceivedKeeps, ReadKeeps DEF Next

\* From the tap to the answer the grid shows what the newest request will do,
\* whatever older requests, polls and refreshes do meanwhile (useSWR's mutate
\* with optimisticData, as handlePlannerEvent of schedule.tsx calls it).
THEOREM PredictionStandsAlways == Spec => []PredictionStands
<1>1. PredictionInv => PredictionStands
  BY DEF PredictionInv
<1> QED
  BY PredictionInit, PredictionStep, <1>1, PTL DEF Spec

-----------------------------------------------------------------------------
(* The page keeps schedules, and what is left of a settled page was in the *)
(* database: while no request is open that is the newest, either the grid  *)
(* shows a schedule that was real, or a revalidation that counts is under  *)
(* way or will be.                                                         *)

Fetches == [read : SUBSET Plans, settles : BOOLEAN, void : BOOLEAN]

PageTyped ==
    /\ sched \in Plans /\ shown \in Plans
    /\ backup = {} \/ \E p \in Plans : backup = {p}
    /\ \A r \in requests :
           /\ {"id", "action", "base", "answer"} \subseteq DOMAIN r
           /\ r.id \in 1..began /\ r.base \in Plans /\ Requested(r.action)
    /\ fetch = {} \/ \E f \in Fetches : fetch = {f}
    /\ strays \in Nat /\ failed \in BOOLEAN
    /\ Planning(planner)
    /\ began \in Nat /\ others \in Nat /\ began + others <= MaxEvents

LEMMA CurrentIsPlan == PageTyped => Current \in Plans
BY DEF PageTyped, Current

LEMMA SettlingIsNat == PageTyped => Settling \in Nat
<1> SUFFICES ASSUME PageTyped PROVE Settling \in Nat
  OBVIOUS
<1>1. CASE fetch = {}
  BY <1>1, FS_EmptySet DEF Settling
<1>2. CASE fetch # {}
  <2>1. PICK f : fetch = {f}
    BY <1>2 DEF PageTyped
  <2>2. {g \in fetch : g.settles} \in SUBSET {f} /\ IsFiniteSet({f})
    BY <2>1, FS_Singleton
  <2>3. IsFiniteSet({g \in fetch : g.settles})
    BY <2>2, FS_Subset
  <2> QED
    BY <2>3, FS_CardinalityType DEF Settling
<1> QED
  BY <1>1, <1>2

LEMMA PageTypedInit == Init => PageTyped
<1> SUFFICES ASSUME Init PROVE PageTyped
  OBVIOUS
<1>1. sched \in Plans /\ shown \in Plans
  BY LayoutAssumption DEF Init
<1>2. PICK view \in Views : planner = [InitialPlanner(view[1]) EXCEPT !.mode = view[2]]
  BY DEF Init
<1>3. view[1] \in ZoomLevels /\ view[2] \in PlannerModes
  BY PageAssumption
<1>4. planner = [zoom |-> view[1], mode |-> view[2], sel |-> Idle]
  BY <1>2 DEF InitialPlanner
<1>5. Planning(planner)
  BY <1>3, <1>4 DEF Planning, Selected
<1>6. began = 0 /\ others = 0 /\ backup = {} /\ requests = {} /\ fetch = {} /\ strays = 0 /\ failed = FALSE
  BY DEF Init
<1>7. began + others <= MaxEvents /\ began \in Nat /\ others \in Nat /\ strays \in Nat
  BY <1>6, PageAssumption
<1>8. failed \in BOOLEAN /\ \A r \in requests : FALSE
  BY <1>6
<1> QED
  BY <1>1, <1>5, <1>6, <1>7, <1>8 DEF PageTyped

\* Taps are taps of the grid or of the page around it.
LEMMA TapsAreTaps ==
    ASSUME PageTyped, NEW tap \in Taps
    PROVE  Tapped(tap) \/ LooksAround(tap)
<1>1. \A m \in Matches : Tapped(TapTray(m))
  BY DEF Tapped
<1>2. Tapped(Press("confirm")) /\ Tapped(Press("cancel")) /\ Tapped(Press("unschedule"))
  BY DEF Tapped, Buttons
<1>3. ASSUME tap \in GridTaps(shown, planner.sel, BreakSizes) PROVE Tapped(tap) \/ LooksAround(tap)
  BY <1>3, GridTapsAreTaps, LayoutAssumption DEF PageTyped, LooksAround, BreaksOffered
<1>4. ASSUME tap \in {[type |-> "set-mode", mode |-> mode] : mode \in PlannerModes}
              \cup {[type |-> "zoom-in"], [type |-> "zoom-out"], [type |-> "tap-overview"]}
      PROVE  LooksAround(tap)
  BY <1>4 DEF LooksAround
<1>5. \/ tap \in {Press("confirm"), Press("cancel"), Press("unschedule")}
      \/ tap \in GridTaps(shown, planner.sel, BreakSizes)
      \/ tap \in {TapTray(m) : m \in Matches}
      \/ tap \in {[type |-> "set-mode", mode |-> mode] : mode \in PlannerModes}
                 \cup {[type |-> "zoom-in"], [type |-> "zoom-out"], [type |-> "tap-overview"]}
  <2>1. CASE planner.sel.kind = "confirm-move"
    BY <2>1 DEF Taps
  <2>2. CASE planner.sel.kind # "confirm-move"
    BY <2>2, Zenon DEF Taps
  <2> QED
    BY <2>1, <2>2
<1> QED
  <2>1. CASE tap \in {Press("confirm"), Press("cancel"), Press("unschedule")}
    BY <1>2, <2>1
  <2>2. CASE tap \in {TapTray(m) : m \in Matches}
    BY <1>1, <2>2
  <2> QED
    BY <1>3, <1>4, <1>5, <2>1, <2>2

\* What replaces the revalidation under way.
LEMMA RevalidateFits ==
    ASSUME PageTyped, NEW settles \in BOOLEAN, NEW void \in BOOLEAN, Revalidate(settles, void)
    PROVE  (\E f \in Fetches : fetch' = {f}) /\ strays' \in Nat
<1>1. [read |-> {}, settles |-> settles, void |-> void] \in Fetches
  BY DEF Fetches
<1>2. strays' \in Nat
  BY SettlingIsNat DEF Revalidate, PageTyped
<1>3. fetch' = {[read |-> {}, settles |-> settles, void |-> void]}
  BY DEF Revalidate
<1> QED
  BY <1>1, <1>2, <1>3

LEMMA NewestOpenIsBoolean == \A open : NewestOpen(open) \in BOOLEAN
BY DEF NewestOpen

LEMMA AskedIsRequested ==
    ASSUME NEW action, LetOut(action), Asks(action)
    PROVE  Requested(action)
BY DEF LetOut, Asks, NoAction, OpenDetails

LEMMA VoidedFits ==
    ASSUME PageTyped
    PROVE  Voided = {} \/ \E f \in Fetches : Voided = {f}
<1>1. CASE fetch = {}
  BY <1>1 DEF Voided
<1>2. CASE fetch # {}
  <2>1. PICK f \in Fetches : fetch = {f}
    BY <1>2 DEF PageTyped
  <2>2. Voided = {[f EXCEPT !.void = TRUE]}
    BY <2>1 DEF Voided
  <2>3. [f EXCEPT !.void = TRUE] \in Fetches
    BY DEF Fetches
  <2> QED
    BY <2>2, <2>3
<1> QED
  BY <1>1, <1>2

\* What the organiser does.
LEMMA TapKeepsTypes ==
    ASSUME PageTyped, NEW tap \in Taps, Look(tap) \/ Ask(tap)
    PROVE  PageTyped'
<1> DEFINE next == PlannerReducer(planner, tap)
<1>1. Planning(next.planner) /\ LetOut(next.action)
  BY TapsAreTaps, PlannerReducerFits DEF PageTyped
<1> HIDE DEF next
<1>2. CASE Look(tap)
  <2>1. planner' = next.planner
        /\ UNCHANGED <<sched, shown, backup, requests, failed, began, others>>
    BY <1>2 DEF Look, next
  <2>2. (fetch' = {} \/ \E f \in Fetches : fetch' = {f}) /\ strays' \in Nat
    BY <1>2, RevalidateFits, NewestOpenIsBoolean DEF Look, PageTyped
  <2>3. \A r \in requests' :
            /\ {"id", "action", "base", "answer"} \subseteq DOMAIN r
            /\ r.id \in 1..began' /\ r.base \in Plans /\ Requested(r.action)
    BY <2>1 DEF PageTyped
  <2> QED
    BY <1>1, <2>1, <2>2, <2>3 DEF PageTyped
<1>3. CASE Ask(tap)
  <2> DEFINE new == [id |-> began + 1, action |-> next.action, base |-> Current, answer |-> "none"]
  <2>1. /\ planner' = next.planner /\ began' = began + 1
        /\ requests' = requests \cup {new} /\ backup' = {Current}
        /\ shown' = Optimistic(Current, next.action)
        /\ UNCHANGED <<sched, failed, others>>
        /\ Asks(next.action) /\ AnotherEvent
    BY <1>3 DEF Ask, Predicted, next
  <2>2. Requested(next.action)
    BY <1>1, <2>1, AskedIsRequested
  <2>3. Current \in Plans /\ Optimistic(Current, next.action) \in Plans
    BY <2>2, CurrentIsPlan, OptimisticIsPlan
  <2>4. (fetch' = {} \/ \E f \in Fetches : fetch' = {f}) /\ strays' \in Nat
    BY <1>3, RevalidateFits, VoidedFits DEF Ask, PageTyped
  <2>5. began' \in Nat /\ others' \in Nat /\ began' + others' <= MaxEvents
    BY <2>1, PageAssumption DEF PageTyped, AnotherEvent
  <2>6. ASSUME NEW r \in requests'
        PROVE  /\ {"id", "action", "base", "answer"} \subseteq DOMAIN r
               /\ r.id \in 1..began' /\ r.base \in Plans /\ Requested(r.action)
    <3>1. CASE r \in requests
      BY <2>1, <3>1 DEF PageTyped
    <3>2. CASE r = new
      BY <2>1, <2>2, <2>3, <3>2 DEF PageTyped
    <3> QED
      BY <2>1, <3>1, <3>2
  <2> QED
    BY <1>1, <2>1, <2>3, <2>4, <2>5, <2>6 DEF PageTyped
<1> QED
  BY <1>2, <1>3

\* What a request does to the database.
LEMMA HandledReplans ==
    ASSUME PageTyped, NEW r \in requests, Handled(r)
    PROVE  Replanned(sched, sched')
BY HandleReplans DEF PageTyped, Handled

\* The colleague asks for what can be asked for, or starts a match.
LEMMA ColleagueReplans ==
    ASSUME PageTyped, ColleagueMoves
    PROVE  /\ sched' \in Plans
           /\ \A m \in Matches : Scheduled(sched, m) /\ Played(sched, m) => Scheduled(sched', m)
<1>1. sched \in Plans
  BY DEF PageTyped
<1>2. ASSUME NEW action \in ColleagueActions \ {NoAction} PROVE Requested(action)
  <2>1. CASE \E m \in OnGrid(sched), line \in InsertionLines(sched) :
                action = PlaceAction(GridRef(sched, m), line[1], line[2])
    <3>1. \A line \in InsertionLines(sched) : line[1] \in Courts /\ line[2] \in Nat
      BY MatchSetsFinite DEF InsertionLines
    <3> QED
      BY <1>1, <1>2, <2>1, <3>1, GridRefIsDrawn, PlaceIsRequested
  <2>2. CASE \E m \in Matches \ OnGrid(sched), line \in InsertionLines(sched) :
                action = PlaceFromTray(m, line[1], line[2])
    <3>1. \A line \in InsertionLines(sched) : line[1] \in Courts /\ line[2] \in Nat
      BY MatchSetsFinite DEF InsertionLines
    <3> QED
      BY <2>2, <3>1 DEF Requested, PlaceFromTray
  <2>3. CASE \E m \in OnGrid(sched) : action = Unschedule(m)
    BY <2>3 DEF Requested, OnGrid
  <2> QED
    BY <1>2, <2>1, <2>2, <2>3 DEF ColleagueActions
<1>3. CASE \E action \in ColleagueActions \ {NoAction} : sched' = Handle(sched, action).plan
  BY <1>1, <1>2, <1>3, HandleReplans DEF Replanned
<1>4. CASE \E m \in Matches : sched' = [sched EXCEPT ![m].state = "IN_PROGRESS"]
  <2> PICK m \in Matches : sched' = [sched EXCEPT ![m].state = "IN_PROGRESS"]
    BY <1>4
  <2> QED
    BY <1>1 DEF Plans, MatchStates, Scheduled
<1> QED
  BY <1>3, <1>4 DEF ColleagueMoves

LEMMA AnsweredKeepsTypes ==
    ASSUME PageTyped, NEW r \in requests, NEW answer, Answered(r, answer),
           UNCHANGED <<page, began>>, sched' \in Plans,
           others' \in Nat, began + others' <= MaxEvents
    PROVE  PageTyped'
<1> DEFINE s == [r EXCEPT !.answer = answer]
<1>1. DOMAIN s = DOMAIN r /\ s.id = r.id /\ s.action = r.action /\ s.base = r.base
  BY DEF PageTyped
<1>2. requests' = (requests \ {r}) \cup {s}
  BY DEF Answered
<1> HIDE DEF s
<1>3. \A o \in requests' :
          /\ {"id", "action", "base", "answer"} \subseteq DOMAIN o
          /\ o.id \in 1..began /\ o.base \in Plans /\ Requested(o.action)
  BY <1>1, <1>2 DEF PageTyped
<1> QED
  BY <1>3 DEF PageTyped, page

\* What the server, the network and the colleague do.
LEMMA ServerKeepsTypes ==
    ASSUME PageTyped,
           (\E r \in requests : ServeRequest(r) \/ LoseRequest(r) \/ LoseAnswer(r)) \/ ColleagueMoves
    PROVE  PageTyped'
<1>1. ASSUME NEW r \in requests, ServeRequest(r) \/ LoseRequest(r) \/ LoseAnswer(r)
      PROVE  PageTyped'
  <2>1. UNCHANGED <<page, began>> /\ \E answer : Answered(r, answer)
    BY <1>1 DEF ServeRequest, LoseRequest, LoseAnswer, Loses
  <2>2. sched' \in Plans
    BY <1>1, HandledReplans DEF ServeRequest, LoseRequest, LoseAnswer, Replanned, PageTyped
  <2>3. others' \in Nat /\ began + others' <= MaxEvents
    BY <1>1, PageAssumption DEF ServeRequest, LoseRequest, LoseAnswer, Loses, AnotherEvent, PageTyped
  <2> QED
    BY <2>1, <2>2, <2>3, AnsweredKeepsTypes
<1>2. CASE ColleagueMoves
  <2>1. UNCHANGED <<page, requests, began>> /\ others' = others + 1 /\ AnotherEvent
    BY <1>2 DEF ColleagueMoves
  <2>2. sched' \in Plans
    BY <1>2, ColleagueReplans DEF Replanned, PageTyped
  <2>3. others' \in Nat /\ began + others' <= MaxEvents
    BY <2>1, PageAssumption DEF AnotherEvent, PageTyped
  <2> QED
    BY <2>1, <2>2, <2>3 DEF PageTyped, page
<1> QED
  BY <1>1, <1>2

\* A request is done and the page goes on.
LEMMA DoneKeepsTypes ==
    ASSUME PageTyped, NEW r \in requests, Accepted(r) \/ Rejected(r)
    PROVE  PageTyped'
<1>1. /\ requests' = requests \ {r} /\ UNCHANGED <<sched, failed, began, others>>
      /\ shown' \in Plans
      /\ backup' = {} \/ \E p \in Plans : backup' = {p}
      /\ Planning(planner')
  <2>1. CASE Accepted(r)
    BY <2>1 DEF Accepted, PageTyped
  <2>2. CASE Rejected(r)
    <3>1. /\ requests' = requests \ {r} /\ UNCHANGED <<sched, failed, began, others>>
          /\ planner' = [planner EXCEPT !.sel = Idle] /\ RolledBack(r)
      BY <2>2 DEF Rejected
    <3>2. Planning(planner')
      <4>1. PICK zoom \in ZoomLevels, mode \in PlannerModes :
                \E sel : planner = [zoom |-> zoom, mode |-> mode, sel |-> sel]
        BY DEF PageTyped, Planning
      <4>2. planner' = [zoom |-> zoom, mode |-> mode, sel |-> Idle]
        BY <3>1, <4>1
      <4> QED
        BY <4>2 DEF Planning, Selected
    <3>3. shown' \in Plans /\ (backup' = {} \/ \E p \in Plans : backup' = {p})
      BY <3>1 DEF RolledBack, PageTyped
    <3> QED
      BY <3>1, <3>2, <3>3
  <2> QED
    BY <2>1, <2>2
<1>2. (fetch' = {} \/ \E f \in Fetches : fetch' = {f}) /\ strays' \in Nat
  <2>1. CASE Accepted(r)
    BY <2>1, RevalidateFits DEF Accepted, PageTyped
  <2>2. CASE Rejected(r)
    <3>1. [read |-> {}, settles |-> FALSE, void |-> NewestOpen(requests \ {r})] \in Fetches
      BY NewestOpenIsBoolean DEF Fetches
    <3>2. strays' \in Nat
      BY <2>2, SettlingIsNat DEF Rejected, Resynced, PageTyped
    <3> QED
      BY <2>2, <3>1, <3>2 DEF Rejected, Resynced
  <2> QED
    BY <2>1, <2>2
<1>3. \A o \in requests' :
          /\ {"id", "action", "base", "answer"} \subseteq DOMAIN o
          /\ o.id \in 1..began' /\ o.base \in Plans /\ Requested(o.action)
  BY <1>1 DEF PageTyped
<1> QED
  BY <1>1, <1>2, <1>3 DEF PageTyped

\* What the timers and the answers to them do.
LEMMA RevalidationKeepsTypes ==
    ASSUME PageTyped, Poll \/ Retry \/ ServeFetch \/ ReceiveFetch \/ LoseFetch \/ StraySettles
    PROVE  PageTyped'
<1>1. UNCHANGED <<sched, requests, planner, began>>
  BY DEF Poll, Retry, ServeFetch, ReceiveFetch, LoseFetch, StraySettles, Loses
<1>2. shown' \in Plans
  <2>1. CASE ReceiveFetch
    <3>1. PICK f \in fetch : f.read # {} /\ shown' = IF f.void THEN shown ELSE CHOOSE p \in f.read : TRUE
      BY <2>1 DEF ReceiveFetch
    <3>2. f.read \subseteq Plans
      BY DEF PageTyped, Fetches
    <3> QED
      BY <3>1, <3>2 DEF PageTyped
  <2>2. CASE ~ReceiveFetch
    BY <2>2 DEF Poll, Retry, ServeFetch, LoseFetch, StraySettles, PageTyped
  <2> QED
    BY <2>1, <2>2
<1>3. backup' = {} \/ backup' = backup
  BY DEF Poll, Retry, ServeFetch, ReceiveFetch, LoseFetch, StraySettles, Settled
<1>4. fetch' = {} \/ \E f \in Fetches : fetch' = {f}
  <2>1. CASE Poll \/ Retry
    BY <2>1, RevalidateFits, NewestOpenIsBoolean DEF Poll, Retry
  <2>2. CASE ServeFetch
    <3>1. PICK f \in fetch : fetch' = {[f EXCEPT !.read = {sched}]}
      BY <2>2 DEF ServeFetch
    <3>2. [f EXCEPT !.read = {sched}] \in Fetches
      BY DEF PageTyped, Fetches
    <3> QED
      BY <3>1, <3>2
  <2>3. CASE ReceiveFetch \/ LoseFetch \/ StraySettles
    BY <2>3 DEF ReceiveFetch, LoseFetch, StraySettles, PageTyped
  <2> QED
    BY <2>1, <2>2, <2>3
<1>5. strays' \in Nat
  <2>1. CASE Poll \/ Retry
    BY <2>1, RevalidateFits, NewestOpenIsBoolean DEF Poll, Retry
  <2>2. CASE ServeFetch \/ ReceiveFetch \/ LoseFetch \/ StraySettles
    BY <2>2 DEF ServeFetch, ReceiveFetch, LoseFetch, StraySettles, PageTyped
  <2> QED
    BY <2>1, <2>2
<1>6. failed' \in BOOLEAN
  BY DEF Poll, Retry, ServeFetch, ReceiveFetch, LoseFetch, StraySettles, PageTyped
<1>7. others' \in Nat /\ began + others' <= MaxEvents
  <2>1. CASE LoseFetch
    <3>1. began' = began /\ others' = others + 1 /\ began + others < MaxEvents
      BY <2>1 DEF LoseFetch, Loses, AnotherEvent
    <3>2. began \in Nat /\ others \in Nat /\ MaxEvents \in Nat
      BY PageAssumption DEF PageTyped
    <3> QED
      BY <3>1, <3>2
  <2>2. CASE ~LoseFetch
    BY <2>2 DEF Poll, Retry, ServeFetch, ReceiveFetch, StraySettles, PageTyped
  <2> QED
    BY <2>1, <2>2
<1> QED
  BY <1>1, <1>2, <1>3, <1>4, <1>5, <1>6, <1>7 DEF PageTyped

\* Every step of the page, of the server, of the colleague or of a fault.
LEMMA PageTypedStep == PageTyped /\ [Next]_vars => PageTyped'
<1> SUFFICES ASSUME PageTyped, [Next]_vars PROVE PageTyped'
  OBVIOUS
<1>1. CASE UNCHANGED vars
  BY <1>1 DEF vars, page, PageTyped
<1>2. CASE Next
  BY <1>2, TapKeepsTypes, ServerKeepsTypes, DoneKeepsTypes, RevalidationKeepsTypes DEF Next
<1> QED
  BY <1>1, <1>2

LEMMA PageTypedAlways == Spec => []PageTyped
BY PageTypedInit, PageTypedStep, PTL DEF Spec

\* The schedules on both sides of the network stay schedules, whatever is tapped,
\* served, lost or overtaken, and a prediction stands in for one schedule at most.
THEOREM PageStaysTyped == Spec => []TypeOK
<1>1. ASSUME PageTyped PROVE TypeOK
  <2>1. Cardinality(backup) <= 1 /\ backup \subseteq Plans
    <3>1. CASE backup = {}
      BY <3>1, FS_EmptySet
    <3>2. ASSUME NEW plan_1 \in Plans, backup = {plan_1} PROVE Cardinality(backup) <= 1 /\ backup \subseteq Plans
      <4>1. Cardinality({plan_1}) = 1
        BY FS_Singleton, Zenon
      <4> QED
        BY <3>2, <4>1
    <3> QED
      BY <1>1, <3>1, <3>2 DEF PageTyped
  <2>2. Cardinality(fetch) <= 1 /\ \A f \in fetch : f.read \subseteq Plans
    <3>1. CASE fetch = {}
      BY <3>1, FS_EmptySet
    <3>2. ASSUME NEW f \in Fetches, fetch = {f} PROVE Cardinality(fetch) <= 1 /\ f.read \subseteq Plans
      <4>1. Cardinality({f}) = 1
        BY FS_Singleton, Zenon
      <4> QED
        BY <3>2, <4>1 DEF Fetches
    <3> QED
      BY <1>1, <3>1, <3>2 DEF PageTyped
  <2>3. /\ planner.zoom \in ZoomLevels /\ planner.mode \in PlannerModes
        /\ planner.sel.kind \in SelectionKinds
    <3>0. PICK zoom \in ZoomLevels, mode \in PlannerModes : \E sel :
              Selected(sel) /\ planner = [zoom |-> zoom, mode |-> mode, sel |-> sel]
      BY <1>1 DEF PageTyped, Planning
    <3>1. PICK sel : Selected(sel) /\ planner = [zoom |-> zoom, mode |-> mode, sel |-> sel]
      BY <3>0
    <3>2. sel.kind \in SelectionKinds
      BY <3>1 DEF Selected, Placing, Idle, MatchSelected, TraySelected, ConfirmMove, SelectionKinds
    <3> QED
      BY <3>1, <3>2
  <2> QED
    BY <1>1, <2>1, <2>2, <2>3 DEF PageTyped, TypeOK
<1> QED
  BY <1>1, PageTypedAlways, PTL

\* A match that is played stays on a court, however old the page is from which it is
\* swapped or sent to the tray (validate_match_can_be_unscheduled).
THEOREM PlayedAreKeptOnCourt == Spec => PlayedStayOnCourt
<1> DEFINE Kept == \A m \in Matches : Scheduled(sched, m) /\ Played(sched, m) => Scheduled(sched', m)
<1>1. ASSUME PageTyped, [Next]_vars PROVE [Kept]_vars
  <2>1. CASE UNCHANGED vars
    BY <2>1
  <2>2. CASE sched' = sched
    BY <2>2 DEF Scheduled
  <2>3. ASSUME NEW r \in requests, ServeRequest(r) \/ LoseRequest(r) \/ LoseAnswer(r) PROVE Kept
    BY <1>1, <2>3, HandledReplans DEF ServeRequest, LoseRequest, LoseAnswer, Replanned, Scheduled
  <2>4. CASE ColleagueMoves
    BY <1>1, <2>4, ColleagueReplans
  <2>5. CASE (\E tap \in Taps : Look(tap) \/ Ask(tap)) \/ \E r \in requests : Accepted(r) \/ Rejected(r)
    BY <2>2, <2>5 DEF Look, Ask, Accepted, Rejected
  <2>6. CASE Poll \/ Retry \/ ServeFetch \/ ReceiveFetch \/ LoseFetch \/ StraySettles
    BY <2>2, <2>6 DEF Poll, Retry, ServeFetch, ReceiveFetch, LoseFetch, StraySettles
  <2> QED
    BY <1>1, <2>1, <2>3, <2>4, <2>5, <2>6 DEF Next
<1> QED
  BY <1>1, PageTypedAlways, PTL DEF PlayedStayOnCourt, Spec

-----------------------------------------------------------------------------
(* What the page settles on: while the newest request is not open, the     *)
(* grid shows what the database has held, or a revalidation that counts is *)
(* under way, or the last one failed and is tried again.                   *)

FetchReal ==
    \A f \in fetch : f.read \subseteq real /\ (f.void <=> NewestOpen(requests))

Drawing ==
    ~NewestOpen(requests) => shown \in real \/ fetch # {} \/ failed

SettlingInv == PageTyped /\ PredictionInv /\ sched \in real /\ FetchReal /\ Drawing

LEMMA SettlingInit == Init => SettlingInv
<1> SUFFICES ASSUME Init PROVE SettlingInv
  OBVIOUS
<1>1. PageTyped /\ PredictionInv
  BY PageTypedInit, PredictionInit
<1>2. sched \in real /\ shown \in real /\ fetch = {}
  BY DEF Init
<1> QED
  BY <1>1, <1>2 DEF SettlingInv, FetchReal, Drawing

\* Whether the newest request is open depends on the requests alone.
LEMMA OpenDepends ==
    ASSUME UNCHANGED <<requests, began>>
    PROVE  NewestOpen(requests)' <=> NewestOpen(requests)
BY DEF NewestOpen, Newest

\* An answer opens and closes nothing.
LEMMA AnsweredStaysOpen ==
    ASSUME PredictionInv, NEW r \in requests, NEW answer, Answered(r, answer), began' = began
    PROVE  NewestOpen(requests)' <=> NewestOpen(requests)
<1> DEFINE s == [r EXCEPT !.answer = answer]
<1>1. s.id = r.id
  BY DEF PredictionInv, RequestsNumbered
<1>2. requests' = (requests \ {r}) \cup {s}
  BY DEF Answered
<1> HIDE DEF s
<1> QED
  BY <1>1, <1>2 DEF NewestOpen, Newest

\* What leaves the requests alone and starts a revalidation that counts, or none.
LEMMA CacheSettles ==
    ASSUME SettlingInv, UNCHANGED <<requests, began, shown, failed>>,
           real \subseteq real', sched' \in real',
           fetch' = fetch \/ \E settles : Revalidate(settles, NewestOpen(requests))
    PROVE  sched' \in real' /\ FetchReal' /\ Drawing'
<1>1. NewestOpen(requests)' <=> NewestOpen(requests)
  BY OpenDepends
<1>2. CASE fetch' = fetch
  BY <1>1, <1>2 DEF SettlingInv, FetchReal, Drawing
<1>3. ASSUME NEW settles, Revalidate(settles, NewestOpen(requests))
      PROVE  FetchReal' /\ Drawing'
  <2>1. fetch' = {[read |-> {}, settles |-> settles, void |-> NewestOpen(requests)]}
    BY <1>3 DEF Revalidate
  <2> QED
    BY <1>1, <2>1 DEF FetchReal, Drawing
<1> QED
  BY <1>2, <1>3

\* A request is open that is the newest, and no revalidation counts.
LEMMA AskSettles ==
    ASSUME SettlingInv, NEW tap, Ask(tap)
    PROVE  sched' \in real' /\ FetchReal' /\ Drawing'
<1>1. NewestOpen(requests)'
  <2> DEFINE new == [id |-> began + 1, action |-> PlannerReducer(planner, tap).action,
                     base |-> Current, answer |-> "none"]
  <2>1. new \in requests' /\ new.id = began'
    BY DEF Ask
  <2> HIDE DEF new
  <2> QED
    BY <2>1 DEF NewestOpen, Newest
<1>2. \A f \in fetch' : f.void /\ f.read \subseteq real
  <2>1. Revalidate(FALSE, TRUE) \/ fetch' = Voided
    BY DEF Ask
  <2>2. \A f \in fetch : f.read \subseteq real /\ f \in Fetches
    BY DEF SettlingInv, FetchReal, PageTyped
  <2>3. \A f \in fetch : [f EXCEPT !.void = TRUE].void /\ [f EXCEPT !.void = TRUE].read = f.read
    BY <2>2 DEF Fetches
  <2>4. ASSUME NEW g \in Voided PROVE g.void /\ g.read \subseteq real
    <3>1. PICK f \in fetch : g = [f EXCEPT !.void = TRUE]
      BY DEF Voided
    <3> QED
      BY <2>2, <2>3, <3>1
  <2>5. CASE Revalidate(FALSE, TRUE)
    BY <2>5 DEF Revalidate
  <2> QED
    BY <2>1, <2>4, <2>5
<1>3. UNCHANGED <<sched, real>>
  BY DEF Ask
<1> QED
  BY <1>1, <1>2, <1>3 DEF SettlingInv, FetchReal, Drawing

\* After the newest request the schedule is read again; any other one leaves that to
\* the newest.
LEMMA DoneSettles ==
    ASSUME SettlingInv, NEW r \in requests, Accepted(r) \/ Rejected(r)
    PROVE  sched' \in real' /\ FetchReal' /\ Drawing'
<1>1. requests' = requests \ {r} /\ began' = began /\ UNCHANGED <<sched, real>>
  BY DEF Accepted, Rejected
<1>2. /\ NewestOpen(requests)' <=> NewestOpen(requests \ {r})
      /\ Newest(r) => ~NewestOpen(requests)'
  BY <1>1, DoneKeeps DEF SettlingInv
<1>3. CASE Accepted(r) /\ Newest(r)
  <2>1. fetch' = {[read |-> {}, settles |-> TRUE, void |-> FALSE]}
    BY <1>3 DEF Accepted, Revalidate
  <2> QED
    BY <1>1, <1>2, <1>3, <2>1 DEF SettlingInv, FetchReal, Drawing
<1>4. CASE Accepted(r) /\ ~Newest(r)
  <2>1. NewestOpen(requests)' <=> NewestOpen(requests)
    BY <1>2, <1>4 DEF NewestOpen
  <2>2. UNCHANGED <<fetch, shown, failed>>
    BY <1>4 DEF Accepted
  <2> QED
    BY <1>1, <2>1, <2>2 DEF SettlingInv, FetchReal, Drawing
<1>5. CASE Rejected(r)
  <2>1. fetch' = {[read |-> {}, settles |-> FALSE, void |-> NewestOpen(requests \ {r})]}
    BY <1>5 DEF Rejected, Resynced
  <2> QED
    BY <1>1, <1>2, <2>1 DEF SettlingInv, FetchReal, Drawing
<1> QED
  BY <1>3, <1>4, <1>5

\* What is read is the schedule of the database, and only what counts is drawn.
LEMMA FetchSettles ==
    ASSUME SettlingInv, ServeFetch \/ ReceiveFetch \/ LoseFetch
    PROVE  sched' \in real' /\ FetchReal' /\ Drawing'
<1>1. UNCHANGED <<requests, began, sched, real>>
  BY DEF ServeFetch, ReceiveFetch, LoseFetch, Loses
<1>2. NewestOpen(requests)' <=> NewestOpen(requests)
  BY <1>1, OpenDepends
<1>3. CASE ServeFetch
  <2>1. PICK f \in fetch : fetch' = {[f EXCEPT !.read = {sched}]}
    BY <1>3 DEF ServeFetch
  <2>2. f \in Fetches
    BY DEF SettlingInv, PageTyped
  <2>3. [f EXCEPT !.read = {sched}].read = {sched} /\ [f EXCEPT !.read = {sched}].void = f.void
    BY <2>2 DEF Fetches
  <2> QED
    BY <1>1, <1>2, <2>1, <2>3 DEF SettlingInv, FetchReal, Drawing
<1>4. CASE ReceiveFetch
  <2>1. PICK f \in fetch : /\ f.read # {} /\ fetch' = {}
                           /\ shown' = IF f.void THEN shown ELSE CHOOSE p \in f.read : TRUE
    BY <1>4 DEF ReceiveFetch
  <2>2. ~NewestOpen(requests) => shown' \in real
    BY <2>1 DEF SettlingInv, FetchReal
  <2> QED
    BY <1>1, <1>2, <2>1, <2>2 DEF SettlingInv, FetchReal, Drawing
<1>5. CASE LoseFetch
  BY <1>1, <1>2, <1>5 DEF LoseFetch, SettlingInv, FetchReal, Drawing
<1> QED
  BY <1>3, <1>4, <1>5

LEMMA SettlingStep == SettlingInv /\ [Next]_vars => SettlingInv'
<1> SUFFICES ASSUME SettlingInv, [Next]_vars PROVE SettlingInv'
  OBVIOUS
<1>1. PageTyped' /\ PredictionInv'
  BY PageTypedStep, PredictionStep DEF SettlingInv
<1> SUFFICES sched' \in real' /\ FetchReal' /\ Drawing'
  BY <1>1 DEF SettlingInv
<1>2. CASE UNCHANGED vars
  <2>1. UNCHANGED <<requests, began, shown, failed, fetch, real, sched>>
    BY <1>2 DEF vars, page
  <2> QED
    BY <2>1, CacheSettles DEF SettlingInv
<1>3. ASSUME NEW tap \in Taps, Look(tap) PROVE sched' \in real' /\ FetchReal' /\ Drawing'
  <2>1. UNCHANGED <<requests, began, shown, failed, real, sched>>
    BY <1>3 DEF Look
  <2>2. Revalidate(FALSE, NewestOpen(requests)) \/ fetch' = fetch
    BY <1>3 DEF Look
  <2> QED
    BY <2>1, <2>2, CacheSettles DEF SettlingInv
<1>4. ASSUME NEW r \in requests, ServeRequest(r) \/ LoseRequest(r) \/ LoseAnswer(r)
      PROVE sched' \in real' /\ FetchReal' /\ Drawing'
  <2>1. UNCHANGED <<began, shown, failed, fetch>>
    BY <1>4 DEF ServeRequest, LoseRequest, LoseAnswer, Loses, page
  <2>2. PICK answer : Answered(r, answer)
    BY <1>4 DEF ServeRequest, LoseRequest, LoseAnswer
  <2>3. real \subseteq real' /\ sched' \in real'
    BY <1>4 DEF ServeRequest, LoseRequest, LoseAnswer, Handled, SettlingInv
  <2>4. NewestOpen(requests)' <=> NewestOpen(requests)
    BY <2>1, <2>2, AnsweredStaysOpen DEF SettlingInv
  <2> QED
    BY <2>1, <2>3, <2>4 DEF SettlingInv, FetchReal, Drawing
<1>5. CASE ColleagueMoves
  <2>1. UNCHANGED <<requests, began, shown, failed, fetch>> /\ real \subseteq real' /\ sched' \in real'
    BY <1>5 DEF ColleagueMoves, page
  <2> QED
    BY <2>1, CacheSettles
<1>6. CASE Poll \/ Retry
  <2>1. UNCHANGED <<requests, began, shown, failed, real, sched>>
    BY <1>6 DEF Poll, Retry
  <2>2. Revalidate(FALSE, NewestOpen(requests))
    BY <1>6 DEF Poll, Retry
  <2> QED
    BY <2>1, <2>2, CacheSettles DEF SettlingInv
<1>7. CASE StraySettles
  <2>1. UNCHANGED <<requests, began, shown, failed, fetch, real, sched>>
    BY <1>7 DEF StraySettles
  <2> QED
    BY <2>1, CacheSettles DEF SettlingInv
<1> QED
  BY <1>2, <1>3, <1>4, <1>5, <1>6, <1>7, AskSettles, DoneSettles, FetchSettles DEF Next

\* Once every answer is there, the grid shows a schedule the database has held
\* and no prediction, whatever was refused, lost or overtaken on the way
\* (schedule.tsx, handlePlannerEvent: revalidate, and mutate() after an error).
THEOREM SettledIsAlwaysReal == Spec => []SettledIsReal
<1>1. SettlingInv => SettledIsReal
  BY DEF SettlingInv, Drawing, SettledIsReal, NewestOpen
<1> QED
  BY SettlingInit, SettlingStep, <1>1, PTL DEF Spec

-----------------------------------------------------------------------------
(* The requests a fresh grid lets out, by kind: which matches they are     *)
(* about, and what they are about when nothing had to be confirmed.        *)

OffersPlace(o) ==
    \E m \in OnGrid(plan), line \in InsertionLines(plan) :
        /\ o.action = PlaceAction(GridRef(plan, m), line[1], line[2])
        /\ o.confirmed \/ ~Played(plan, m)

OffersTrayPlace(o) ==
    \E m \in Matches \ OnGrid(plan), line \in InsertionLines(plan) :
        o.action = PlaceFromTray(m, line[1], line[2])

OffersSwap(o) ==
    \E a, b \in Matches :
        /\ o.action = Swap(a, b) /\ a # b
        /\ a \in OnGrid(plan) \/ b \in OnGrid(plan)
        /\ a \in OnGrid(plan) /\ b \in OnGrid(plan) =>
               o.confirmed \/ (~Played(plan, a) /\ ~Played(plan, b))

OffersBreak(o) ==
    \E m \in BreaksOffered(plan), minutes \in BreakSizes : o.action = ResizeBreak(m, minutes)

OffersUnschedule(o) ==
    \E m \in OnGrid(plan) : ~Played(plan, m) /\ o.action = Unschedule(m)

Offers(o) ==
    OffersPlace(o) \/ OffersTrayPlace(o) \/ OffersSwap(o) \/ OffersBreak(o) \/ OffersUnschedule(o)

\* At the card zooms a tap reaches the selection.
LEMMA TapOutcomeIs ==
    ASSUME NEW sel, NEW mode, NEW tap, Tapped(tap)
    PROVE  TapOutcome(sel, mode, tap) = Outcome(SelectionReducer(sel, tap, mode))
<1> DEFINE pl == Planner(sel, mode)
           step == SelectionReducer(sel, tap, mode)
<1>1. PlannerReducer(pl, tap) = Delegated(pl, tap)
  <2>1. pl.zoom # "overview"
    BY DEF Planner
  <2>2. tap.type \in Buttons \cup {"tap-match", "tap-tray-match", "tap-insertion-line"}
    BY DEF Tapped, TapMatch, TapTray, TapLine, Press
  <2> HIDE DEF pl
  <2>3. CASE tap.type = "tap-tray-match"
    BY <2>1, <2>3 DEF PlannerReducer, Buttons
  <2>4. CASE tap.type \in {"tap-match", "tap-insertion-line"}
    BY <2>1, <2>4 DEF PlannerReducer, Buttons
  <2>5. CASE tap.type \in Buttons
    BY <2>5 DEF PlannerReducer, Buttons
  <2> QED
    BY <2>2, <2>3, <2>4, <2>5
<1> DEFINE next == [pl EXCEPT !.sel = step.sel]
<1>3. next.sel = step.sel
  BY DEF Planner
<1>2. Delegated(pl, tap) = [planner |-> next, action |-> step.action]
  BY DEF Delegated, Planner
<1> HIDE DEF next
<1>4. /\ PlannerReducer(pl, tap).planner.sel = step.sel
      /\ PlannerReducer(pl, tap).action = step.action
  BY <1>1, <1>2, <1>3
<1> HIDE DEF pl, step
<1>5. Outcome([sel |-> step.sel, action |-> step.action]) = Outcome(step)
  BY DEF Outcome
<1> QED
  BY <1>4, <1>5 DEF TapOutcome, pl, step

\* What is let out, at once or after a confirmation.
LEMMA OutcomeOfChoice ==
    ASSUME NEW previous, NEW moved, NEW targets, NEW action
    PROVE  LET o == Outcome(ConfirmOrPerform(previous, moved, targets, action))
           IN /\ o.action = action
              /\ action # NoAction /\ ~o.confirmed => ~NeedsMoveConfirmation(moved, targets)
<1>1. CASE action # NoAction /\ NeedsMoveConfirmation(moved, targets)
  <2> DEFINE sel == ConfirmMove(previous, action)
  <2>1. ConfirmOrPerform(previous, moved, targets, action) = Step(sel, NoAction)
    BY <1>1 DEF ConfirmOrPerform, Stay
  <2>2. sel.kind = "confirm-move" /\ sel.action = action
    BY DEF ConfirmMove
  <2> HIDE DEF sel
  <2>3. SelectionReducer(sel, Press("confirm"), "move") = Step(Idle, action)
    BY <2>2 DEF SelectionReducer, FromConfirm, Press
  <2>4. Step(sel, NoAction).sel.kind = "confirm-move" /\ Step(sel, NoAction).sel = sel
        /\ Step(Idle, action).action = action
    BY <2>2 DEF Step
  <2>5. Outcome(Step(sel, NoAction)) = [confirmed |-> TRUE, action |-> action]
    BY <2>3, <2>4 DEF Outcome
  <2> QED
    BY <2>1, <2>5
<1>2. CASE ~ (action # NoAction /\ NeedsMoveConfirmation(moved, targets))
  <2>1. ConfirmOrPerform(previous, moved, targets, action) = Step(Idle, action)
    BY <1>2 DEF ConfirmOrPerform
  <2> QED
    BY <1>2, <2>1 DEF Outcome, Step, Idle
<1> QED
  BY <1>1, <1>2

LEMMA OutcomeOfStep ==
    ASSUME NEW sel, NEW action, sel.kind # "confirm-move"
    PROVE  Outcome(Step(sel, action)) = [confirmed |-> FALSE, action |-> action]
BY DEF Outcome, Step

\* What the grid lets out for the match it has selected.
LEMMA OfferedFromMatch ==
    ASSUME plan \in Plans, NEW m \in OnGrid(plan), NEW sel, sel = MatchSelected(GridRef(plan, m)),
           NEW tap \in GridTaps(plan, sel, BreakSizes),
           NEW o, o = TapOutcome(sel, "move", tap), o.action # NoAction
    PROVE  Offers(o)
<1> DEFINE ref == GridRef(plan, m)
<1>1. /\ sel.kind = "match-selected" /\ sel.match = ref /\ ref.id = m
      /\ m \in Matches /\ ref.played = Played(plan, m)
  BY DEF MatchSelected, GridRef, OnGrid
<1> HIDE DEF ref
<1>2. \/ \E x \in OnGrid(plan) : tap = TapMatch(GridRef(plan, x))
      \/ \E x \in Matches \ OnGrid(plan) : tap = TapTray(x)
      \/ \E line \in InsertionLines(plan) : tap = TapLine(line[1], line[2])
  BY <1>1 DEF GridTaps
<1>3. /\ \A x \in OnGrid(plan) : Tapped(TapMatch(GridRef(plan, x)))
      /\ \A x \in Matches : Tapped(TapTray(x))
      /\ \A line \in InsertionLines(plan) : Tapped(TapLine(line[1], line[2]))
  <2>1. \A line \in InsertionLines(plan) : line[1] \in Courts /\ line[2] \in Nat
    BY MatchSetsFinite DEF InsertionLines
  <2> QED
    BY <2>1, GridRefIsDrawn DEF Tapped
<1>4. SelectionReducer(sel, tap, "move") = FromMatch(sel, tap)
  BY <1>1 DEF SelectionReducer
<1>5. o = Outcome(FromMatch(sel, tap))
  BY <1>2, <1>3, <1>4, TapOutcomeIs
<1>6. ASSUME NEW x \in OnGrid(plan), tap = TapMatch(GridRef(plan, x)) PROVE OffersSwap(o)
  <2> DEFINE other == GridRef(plan, x)
  <2>1. other.id = x /\ x \in Matches /\ other.played = Played(plan, x)
    BY DEF GridRef, OnGrid
  <2> HIDE DEF other
  <2>2. FromMatch(sel, tap) = IF x = m THEN Step(Idle, NoAction)
                              ELSE ConfirmOrPerform(sel, ref, {other}, Swap(m, x))
    BY <1>1, <1>6, <2>1 DEF FromMatch, TapMatch, Stay, other
  <2>3. x # m
    BY <1>5, <2>2, OutcomeOfStep DEF Idle
  <2>4. o.action = Swap(m, x)
    BY <1>5, <2>2, <2>3, OutcomeOfChoice
  <2>5. o.confirmed \/ (~Played(plan, m) /\ ~Played(plan, x))
    <3>1. Swap(m, x) # NoAction
      BY DEF Swap, NoAction
    <3>2. o.confirmed \/ ~NeedsMoveConfirmation(ref, {other})
      BY <1>5, <2>2, <2>3, <3>1, OutcomeOfChoice
    <3> QED
      BY <3>2, <1>1, <2>1 DEF NeedsMoveConfirmation
  <2> QED
    BY <1>1, <2>1, <2>3, <2>4, <2>5 DEF OffersSwap
<1>7. ASSUME NEW x \in Matches \ OnGrid(plan), tap = TapTray(x) PROVE OffersSwap(o)
  <2>1. FromMatch(sel, tap) = Step(Idle, Swap(m, x))
    BY <1>1, <1>7 DEF FromMatch, TapTray
  <2>2. o.action = Swap(m, x)
    BY <1>5, <2>1, OutcomeOfStep DEF Idle
  <2> QED
    BY <1>1, <2>2 DEF OffersSwap
<1>8. ASSUME NEW line \in InsertionLines(plan), tap = TapLine(line[1], line[2]) PROVE OffersPlace(o)
  <2> DEFINE action == PlaceAction(ref, line[1], line[2])
  <2>1. FromMatch(sel, tap) = ConfirmOrPerform(sel, ref, {}, action)
    BY <1>1, <1>8 DEF FromMatch, TapLine
  <2> HIDE DEF action
  <2>2. o.action = action /\ (o.confirmed \/ ~NeedsMoveConfirmation(ref, {}))
    BY <1>5, <2>1, OutcomeOfChoice
  <2> QED
    BY <1>1, <2>2 DEF OffersPlace, NeedsMoveConfirmation, action, ref
<1> QED
  BY <1>2, <1>6, <1>7, <1>8 DEF Offers

\* What the grid lets out for the match of the tray it has selected.
LEMMA OfferedFromTray ==
    ASSUME plan \in Plans, NEW m \in Matches \ OnGrid(plan), NEW sel, sel = TraySelected(m),
           NEW tap \in GridTaps(plan, sel, BreakSizes),
           NEW o, o = TapOutcome(sel, "move", tap), o.action # NoAction
    PROVE  Offers(o)
<1>1. sel.kind = "tray-match-selected" /\ sel.matchId = m
  BY DEF TraySelected
<1>2. \/ \E x \in OnGrid(plan) : tap = TapMatch(GridRef(plan, x))
      \/ \E x \in Matches \ OnGrid(plan) : tap = TapTray(x)
      \/ \E line \in InsertionLines(plan) : tap = TapLine(line[1], line[2])
  BY <1>1 DEF GridTaps
<1>3. /\ \A x \in OnGrid(plan) : Tapped(TapMatch(GridRef(plan, x)))
      /\ \A x \in Matches : Tapped(TapTray(x))
      /\ \A line \in InsertionLines(plan) : Tapped(TapLine(line[1], line[2]))
  <2>1. \A line \in InsertionLines(plan) : line[1] \in Courts /\ line[2] \in Nat
    BY MatchSetsFinite DEF InsertionLines
  <2> QED
    BY <2>1, GridRefIsDrawn DEF Tapped
<1>4. SelectionReducer(sel, tap, "move") = FromTray(sel, tap)
  BY <1>1 DEF SelectionReducer
<1>5. o = Outcome(FromTray(sel, tap))
  BY <1>2, <1>3, <1>4, TapOutcomeIs
<1>6. ASSUME NEW x \in OnGrid(plan), tap = TapMatch(GridRef(plan, x)) PROVE OffersSwap(o)
  <2> DEFINE other == GridRef(plan, x)
  <2>1. other.id = x /\ x \in Matches
    BY DEF GridRef, OnGrid
  <2> HIDE DEF other
  <2>2. FromTray(sel, tap) = ConfirmOrPerform(sel, Loose, {other}, Swap(m, x))
    BY <1>1, <1>6, <2>1 DEF FromTray, TapMatch, other
  <2>3. o.action = Swap(m, x)
    BY <1>5, <2>2, OutcomeOfChoice
  <2> QED
    BY <2>1, <2>3 DEF OffersSwap
<1>7. ASSUME NEW x \in Matches \ OnGrid(plan), tap = TapTray(x) PROVE FALSE
  <2>1. FromTray(sel, tap) \in {Step(Idle, NoAction), Step(TraySelected(x), NoAction)}
    BY <1>1, <1>7 DEF FromTray, TapTray, Stay
  <2> QED
    BY <1>5, <2>1, OutcomeOfStep DEF Idle, TraySelected
<1>8. ASSUME NEW line \in InsertionLines(plan), tap = TapLine(line[1], line[2]) PROVE OffersTrayPlace(o)
  <2>1. FromTray(sel, tap) = Step(Idle, PlaceFromTray(m, line[1], line[2]))
    BY <1>1, <1>8 DEF FromTray, TapLine
  <2>2. o.action = PlaceFromTray(m, line[1], line[2])
    BY <1>5, <2>1, OutcomeOfStep DEF Idle
  <2> QED
    BY <2>2 DEF OffersTrayPlace
<1> QED
  BY <1>2, <1>6, <1>7, <1>8 DEF Offers

\* With nothing selected only a break asks for something, or a match in the mode that
\* sends matches to the tray.
LEMMA OfferedFromIdle ==
    ASSUME plan \in Plans, NEW mode \in {"move", "unschedule"},
           NEW sizes \in SUBSET BreakSizes, NEW tap \in GridTaps(plan, Idle, sizes),
           NEW o, o = TapOutcome(Idle, mode, tap), o.action # NoAction
    PROVE  Offers(o)
<1>1. \/ \E x \in OnGrid(plan) : tap = TapMatch(GridRef(plan, x))
      \/ \E x \in Matches \ OnGrid(plan) : tap = TapTray(x)
      \/ \E x \in BreaksOffered(plan), d \in sizes : tap = TapBreak(x, d)
  BY DEF GridTaps, Idle
<1>2. ASSUME Tapped(tap) PROVE o = Outcome(FromIdle(tap, mode))
  <2>1. SelectionReducer(Idle, tap, mode) = FromIdle(tap, mode)
    BY DEF SelectionReducer, Idle
  <2> QED
    BY <1>2, <2>1, TapOutcomeIs
<1>3. ASSUME NEW x \in OnGrid(plan), tap = TapMatch(GridRef(plan, x)) PROVE OffersUnschedule(o)
  <2> DEFINE ref == GridRef(plan, x)
  <2>1. ref.id = x /\ ref.played = Played(plan, x)
    BY DEF GridRef
  <2>2. Tapped(tap)
    BY <1>3, GridRefIsDrawn DEF Tapped
  <2> HIDE DEF ref
  <2>3. \/ FromIdle(tap, mode) = Step(Idle, Unschedule(ref.id)) /\ ~ref.played
        \/ FromIdle(tap, mode) \in {Step(Idle, NoAction), Step(MatchSelected(ref), NoAction)}
    BY <1>3 DEF FromIdle, TapMatch, Stay, ref
  <2>4. \/ o.action = Unschedule(x) /\ ~Played(plan, x)
        \/ o.action = NoAction
    BY <1>2, <2>1, <2>2, <2>3, OutcomeOfStep DEF Idle, MatchSelected
  <2> QED
    BY <2>4 DEF OffersUnschedule
<1>4. ASSUME NEW x \in Matches \ OnGrid(plan), tap = TapTray(x) PROVE FALSE
  <2>1. FromIdle(tap, mode) = Step(TraySelected(x), NoAction)
    BY <1>4 DEF FromIdle, TapTray, Stay
  <2>2. Tapped(tap)
    BY <1>4 DEF Tapped
  <2> QED
    BY <1>2, <2>1, <2>2, OutcomeOfStep DEF TraySelected
<1>5. ASSUME NEW x \in BreaksOffered(plan), NEW d \in sizes, tap = TapBreak(x, d) PROVE OffersBreak(o)
  <2> DEFINE pl == Planner(Idle, mode)
  <2>1. pl.zoom # "overview" /\ pl.sel = Idle
    BY DEF Planner
  <2> HIDE DEF pl
  <2>2. PlannerReducer(pl, tap) = [planner |-> pl, action |-> ResizeBreak(x, d)]
    BY <1>5, <2>1 DEF PlannerReducer, TapBreak, Buttons
  <2>3. o = Outcome([sel |-> Idle, action |-> ResizeBreak(x, d)])
    BY <2>1, <2>2 DEF TapOutcome, pl
  <2>4. o.action = ResizeBreak(x, d)
    BY <2>3 DEF Outcome, Idle
  <2> QED
    BY <2>4 DEF OffersBreak
<1> QED
  BY <1>1, <1>3, <1>4, <1>5 DEF Offers

\* Every request the grid of a schedule lets out is of one of the kinds.
LEMMA OfferedShapes ==
    ASSUME plan \in Plans, NEW o \in Offered
    PROVE  Offers(o) /\ o.action # NoAction
<1>1. o.action # NoAction
  BY DEF Offered
<1>2. \/ \E sel \in Selections \cup {Idle} : o \in TapOutcomes(sel, "move", BreakSizes)
      \/ o \in TapOutcomes(Idle, "unschedule", {})
      \/ \E sel \in Selections : UnscheduleOffered(plan, sel) /\ o = TapOutcome(sel, "move", Press("unschedule"))
  <2>1. \/ \E sel \in Selections \cup {Idle} : o \in TapOutcomes(sel, "move", BreakSizes)
        \/ o \in TapOutcomes(Idle, "unschedule", {})
        \/ o \in ButtonOutcomes
    BY DEF Offered
  <2> QED
    BY <2>1 DEF ButtonOutcomes
<1>3. ASSUME NEW sel \in Selections, UnscheduleOffered(plan, sel),
             o = TapOutcome(sel, "move", Press("unschedule"))
      PROVE  OffersUnschedule(o)
  <2>1. PICK m \in OnGrid(plan) : sel = MatchSelected(GridRef(plan, m))
    BY <1>3 DEF Selections, UnscheduleOffered, TraySelected
  <2>2. sel.kind = "match-selected" /\ sel.match.id = m /\ ~Played(plan, m)
    BY <1>3, <2>1 DEF MatchSelected, GridRef, UnscheduleOffered, Played
  <2>3. SelectionReducer(sel, Press("unschedule"), "move") = Step(Idle, Unschedule(m))
    BY <2>2 DEF SelectionReducer, FromMatch, Press
  <2>4. Tapped(Press("unschedule"))
    BY DEF Tapped, Buttons
  <2>5. o = Outcome(Step(Idle, Unschedule(m)))
    BY <1>3, <2>3, <2>4, TapOutcomeIs
  <2>6. o.action = Unschedule(m)
    BY <2>5, OutcomeOfStep DEF Idle
  <2> QED
    BY <2>2, <2>6 DEF OffersUnschedule
<1>4. ASSUME NEW sel \in Selections \cup {Idle}, NEW tap \in GridTaps(plan, sel, BreakSizes),
             o = TapOutcome(sel, "move", tap)
      PROVE  Offers(o)
  <2>1. CASE sel = Idle
    BY <1>1, <1>4, <2>1, OfferedFromIdle
  <2>2. ASSUME NEW m \in OnGrid(plan), sel = MatchSelected(GridRef(plan, m)) PROVE Offers(o)
    BY <1>1, <1>4, <2>2, OfferedFromMatch
  <2>3. ASSUME NEW m \in Matches \ OnGrid(plan), sel = TraySelected(m) PROVE Offers(o)
    BY <1>1, <1>4, <2>3, OfferedFromTray
  <2> QED
    BY <2>1, <2>2, <2>3 DEF Selections
<1>5. ASSUME NEW tap \in GridTaps(plan, Idle, {}), o = TapOutcome(Idle, "unschedule", tap)
      PROVE  Offers(o)
  BY <1>1, <1>5, OfferedFromIdle
<1> QED
  BY <1>1, <1>2, <1>3, <1>4, <1>5 DEF Offers, TapOutcomes

\* What is offered can be requested.
LEMMA OfferedIsRequested ==
    ASSUME plan \in Plans, NEW o \in Offered
    PROVE  Requested(o.action)
<1>1. Offers(o) /\ o.action # NoAction
  BY OfferedShapes
<1>2. \A line \in InsertionLines(plan) : line[1] \in Courts /\ line[2] \in Nat
  BY MatchSetsFinite DEF InsertionLines
<1>3. CASE OffersPlace(o)
  BY <1>1, <1>2, <1>3, GridRefIsDrawn, PlaceIsRequested DEF OffersPlace
<1>4. CASE OffersTrayPlace(o)
  <2>1. PICK m \in Matches, line \in InsertionLines(plan) : o.action = PlaceFromTray(m, line[1], line[2])
    BY <1>4 DEF OffersTrayPlace
  <2>2. o.action = Reschedule(m, NoCourt, 0, line[1], line[2]) /\ NoCourt \in Courts \cup {NoCourt}
    BY <2>1 DEF PlaceFromTray
  <2> QED
    BY <1>2, <2>2 DEF Requested
<1>5. CASE OffersSwap(o)
  BY <1>5 DEF OffersSwap, Requested
<1>6. CASE OffersBreak(o)
  BY <1>6, LayoutAssumption DEF OffersBreak, BreaksOffered, Requested
<1>7. CASE OffersUnschedule(o)
  BY <1>7 DEF OffersUnschedule, OnGrid, Requested
<1> QED
  BY <1>1, <1>3, <1>4, <1>5, <1>6, <1>7 DEF Offers

-----------------------------------------------------------------------------
(* The day: the plan stays one *)

\* The matches of the first day have a length and do not overlap, and no match is
\* given a length of nothing.
Roomy == (\A p \in InitialPlans : Spacious(p)) /\ 0 \notin Lengths

LEMMA DayTypedInit == DayInit => PlanTyped
BY LayoutAssumption, DayAssumption DEF DayInit, PlanTyped

\* What a step of the day makes of the plan.
LEMMA DayMoves ==
    ASSUME plan \in Plans, DayNext
    PROVE  \/ \E o \in Offered : Becomes(Handle(plan, o.action).plan)
           \/ \E m \in Matches, state \in MatchStates : Becomes([plan EXCEPT ![m].state = state])
           \/ \E m \in Matches, minutes \in Lengths : Becomes(HandleDuration(plan, m, minutes))
<1>1. CASE \E o \in Offered : PlaceMatch(o) \/ SwapMatches(o) \/ UnscheduleMatch(o) \/ ResizeABreak(o)
  BY <1>1 DEF PlaceMatch, SwapMatches, UnscheduleMatch, ResizeABreak, Answers
<1>2. CASE StartMatch \/ EndMatch \/ ReopenMatch
  BY <1>2 DEF StartMatch, EndMatch, ReopenMatch, Moves, MatchStates
<1>3. CASE ChangeDuration
  BY <1>3 DEF ChangeDuration
<1> QED
  BY <1>1, <1>2, <1>3 DEF DayNext

\* A verb changes no court, no start and no length.
LEMMA VerbKeepsCourts ==
    ASSUME NEW p \in Plans, NEW m \in Matches, NEW state \in MatchStates
    PROVE  /\ [p EXCEPT ![m].state = state] \in Plans
           /\ Spacious(p) => Spacious([p EXCEPT ![m].state = state])
<1> DEFINE q == [p EXCEPT ![m].state = state]
<1>1. /\ q \in Plans
      /\ \A x \in Matches : q[x].court = p[x].court /\ q[x].start = p[x].start /\ q[x].minutes = p[x].minutes
  BY DEF Plans
<1> HIDE DEF q
<1>2. Spacious(p) => Spacious(q)
  BY <1>1 DEF Spacious, Scheduled, Earlier, EndOf
<1> QED
  BY <1>1, <1>2 DEF q

LEMMA DayStepKeeps ==
    ASSUME PlanTyped, [DayNext]_dayVars
    PROVE  PlanTyped' /\ (Spacious(plan) /\ 0 \notin Lengths => Spacious(plan)')
<1>1. CASE UNCHANGED dayVars
  BY <1>1 DEF dayVars, PlanTyped, Spacious, Scheduled, Earlier, EndOf
<1>2. CASE DayNext
  <2>1. plan \in Plans
    BY DEF PlanTyped
  <2>2. ASSUME NEW next \in Plans, Becomes(next) PROVE PlanTyped' /\ plan' = next
    BY <2>2, DayAssumption DEF PlanTyped, Becomes
  <2>3. ASSUME NEW next \in Plans, Becomes(next), Spacious(next) PROVE Spacious(plan)'
    BY <2>2, <2>3 DEF Spacious, Scheduled, Earlier, EndOf
  <2>4. ASSUME NEW o \in Offered
        PROVE  Handle(plan, o.action).plan \in Plans
               /\ (Spacious(plan) => Spacious(Handle(plan, o.action).plan))
    BY <2>1, OfferedIsRequested, HandleReplans DEF Replanned
  <2>5. ASSUME NEW m \in Matches, NEW minutes \in Lengths
        PROVE  /\ HandleDuration(plan, m, minutes) \in Plans
               /\ minutes # 0 /\ Spacious(plan) => Spacious(HandleDuration(plan, m, minutes))
    <3>1. minutes \in Nat /\ (minutes # 0 => minutes > 0)
      BY DayAssumption
    <3> QED
      BY <2>1, <3>1, DurationReplans
  <2> QED
    BY <1>2, <2>1, <2>2, <2>3, <2>4, <2>5, DayMoves, VerbKeepsCourts
<1> QED
  BY <1>1, <1>2

LEMMA DayTypedAlways == DaySpec => []PlanTyped
BY DayTypedInit, DayStepKeeps, PTL DEF DaySpec

\* No sequence of placements, swaps, resized breaks, changed durations and verbs puts
\* two matches on a court at the same time, when every match takes some time and the
\* day begins without overlaps (reorder_all_matches, handle_match_resize_break).
THEOREM CourtsNeverOverlapAlways == Roomy /\ DaySpec => []CourtsNeverOverlap
<1> DEFINE RoomyInv == Roomy /\ PlanTyped /\ Spacious(plan)
<1>1. Roomy /\ DayInit => RoomyInv
  BY DayTypedInit DEF Roomy, DayInit
<1>2. RoomyInv /\ [DayNext]_dayVars => RoomyInv'
  BY DayStepKeeps DEF Roomy
<1>3. RoomyInv => CourtsNeverOverlap
  <2> SUFFICES ASSUME RoomyInv, NEW a \in Matches, NEW b \in Matches,
                      a # b, plan[a].court = plan[b].court, Overlap(plan, a, b)
               PROVE  FALSE
    BY DEF CourtsNeverOverlap
  <2>1. plan \in Plans /\ Spacious(plan)
    BY DEF PlanTyped
  <2>2. plan[a].start \in Nat /\ plan[b].start \in Nat /\ plan[a].minutes \in Nat /\ plan[b].minutes \in Nat
    BY <2>1 DEF Plans
  <2>3. Earlier(plan, a, b) \/ Earlier(plan, b, a)
    BY <2>1, EarlierOrders
  <2>4. EndOf(plan, a) <= plan[b].start \/ EndOf(plan, b) <= plan[a].start
    BY <2>1, <2>3 DEF Spacious, Overlap
  <2> QED
    BY <2>2, <2>4 DEF Overlap, EndOf
<1> QED
  BY <1>1, <1>2, <1>3, PTL DEF DaySpec

-----------------------------------------------------------------------------
(* Conflicts *)

\* Two matches at the same time clash both ways round.
LEMMA ClashesBothWays ==
    ASSUME NEW p, NEW a \in Matches, NEW b \in Matches, a # b, Overlap(p, a, b)
    PROVE  <<a, b>> \in Clashes(p) /\ <<b, a>> \in Clashes(p)
BY DEF Clashes, Overlap

\* A slot that is needed twice is flagged in the role of the first match.
LEMMA SharedSlotFlagged ==
    ASSUME NEW a \in Matches, NEW b \in Matches, NEW mine \in Roles, NEW theirs \in Roles,
           NEW clashes, <<a, b>> \in clashes,
           SlotIn(a, mine) # NoSlot, SlotIn(a, mine) = SlotIn(b, theirs)
    PROVE  <<a, mine>> \in SlotOverlapConflicts(clashes)
<1> DEFINE c == <<a, b>>
           mineIn == {o \in Occupancies(c[1]) : o[1] # NoSlot /\ \E t \in Occupancies(c[2]) : t[1] = o[1]}
<1>1. \A m \in Matches : \A role \in Roles : <<SlotIn(m, role), role>> \in Occupancies(m)
  BY DEF Roles, SlotIn, Occupancies, Sides, SideFlag
<1>2. <<SlotIn(a, mine), mine>> \in mineIn
  <2> DEFINE x == <<SlotIn(a, mine), mine>>
             t == <<SlotIn(b, theirs), theirs>>
  <2>1. x \in Occupancies(c[1]) /\ t \in Occupancies(c[2])
    BY <1>1
  <2>2. x[1] # NoSlot /\ t[1] = x[1]
    OBVIOUS
  <2> QED
    BY <2>1, <2>2
<1>3. <<a, mine>> \in {<<c[1], o[2]>> : o \in mineIn}
  <2> HIDE DEF mineIn
  <2> QED
    BY <1>2
<1> QED
  BY <1>3 DEF SlotOverlapConflicts

\* A team on a side of both matches is flagged on the side of the first.
LEMMA SharedTeamFlagged ==
    ASSUME NEW a \in Matches, NEW b \in Matches, NEW s \in Sides, NEW t \in Sides,
           NEW clashes, <<a, b>> \in clashes, Definitive(a), Definitive(b),
           SlotTeam(Side[a][s]) # NoTeam, SlotTeam(Side[a][s]) = SlotTeam(Side[b][t])
    PROVE  <<a, SideFlag[s]>> \in TeamOverlapConflicts(clashes)
<1> DEFINE found == {x \in clashes \X Sides :
                         /\ Definitive(x[1][1]) /\ Definitive(x[1][2])
                         /\ \E u \in Sides : Plays(x[1][2], u, SlotTeam(Side[x[1][1]][x[2]]))}
           x == <<<<a, b>>, s>>
<1>1. x \in clashes \X Sides /\ x[1][1] = a /\ x[1][2] = b /\ x[2] = s
  OBVIOUS
<1>2. Plays(b, t, SlotTeam(Side[a][s]))
  BY DEF Plays
<1> HIDE DEF x
<1>3. x \in found
  BY <1>1, <1>2
<1> HIDE DEF found
<1>4. <<a, SideFlag[s]>> \in {<<y[1][1], SideFlag[y[2]]>> : y \in found}
  BY <1>1, <1>3
<1> QED
  BY <1>4 DEF TeamOverlapConflicts, found

\* A referee that plays meanwhile is flagged, and so is the side it plays on.
LEMMA PlayingRefereeFlagged ==
    ASSUME NEW a \in Matches, NEW b \in Matches, NEW t \in Sides,
           NEW clashes, <<a, b>> \in clashes, Definitive(b),
           SlotTeam(Referee[a]) # NoTeam, SlotTeam(Referee[a]) = SlotTeam(Side[b][t])
    PROVE  /\ <<a, "referee">> \in RefereeOverlapConflicts(clashes)
           /\ <<b, SideFlag[t]>> \in RefereeOverlapConflicts(clashes)
<1> DEFINE plays == {x \in clashes \X Sides : Plays(x[1][2], x[2], SlotTeam(Referee[x[1][1]]))}
           definitive == {y \in plays : Definitive(y[1][2])}
           twice == {c \in clashes : SlotTeam(Referee[c[1]]) # NoTeam
                                     /\ SlotTeam(Referee[c[1]]) = SlotTeam(Referee[c[2]])}
           x == <<<<a, b>>, t>>
<1>1. x \in clashes \X Sides /\ x[1][1] = a /\ x[1][2] = b /\ x[2] = t
  OBVIOUS
<1> HIDE DEF x
<1>2. x \in plays
  BY <1>1 DEF Plays
<1>3. x \in definitive
  <2> HIDE DEF plays
  <2> QED
    BY <1>1, <1>2
<1> HIDE DEF definitive, plays, twice
<1>4. <<a, "referee">> \in {<<y[1][1], "referee">> : y \in plays}
  BY <1>1, <1>2
<1>5. <<b, SideFlag[t]>> \in {<<y[1][2], SideFlag[y[2]]>> : y \in definitive}
  BY <1>1, <1>3
<1>6. RefereeOverlapConflicts(clashes) =
          {<<y[1][1], "referee">> : y \in plays} \cup {<<c[1], "referee">> : c \in twice}
          \cup {<<y[1][2], SideFlag[y[2]]>> : y \in definitive}
  BY DEF RefereeOverlapConflicts, plays, twice, definitive
<1> QED
  BY <1>4, <1>5, <1>6

\* A team that referees both matches is flagged on the first.
LEMMA SharedRefereeFlagged ==
    ASSUME NEW a \in Matches, NEW b \in Matches, NEW clashes, <<a, b>> \in clashes,
           SlotTeam(Referee[a]) # NoTeam, SlotTeam(Referee[a]) = SlotTeam(Referee[b])
    PROVE  <<a, "referee">> \in RefereeOverlapConflicts(clashes)
<1> DEFINE twice == {c \in clashes : SlotTeam(Referee[c[1]]) # NoTeam
                                     /\ SlotTeam(Referee[c[1]]) = SlotTeam(Referee[c[2]])}
           c == <<a, b>>
<1>1. c \in clashes /\ c[1] = a /\ c[2] = b
  OBVIOUS
<1> HIDE DEF c
<1>2. c \in twice
  BY <1>1
<1> HIDE DEF twice
<1>3. <<a, "referee">> \in {<<d[1], "referee">> : d \in twice}
  BY <1>1, <1>2
<1> QED
  BY <1>3 DEF RefereeOverlapConflicts, twice

\* Whoever is needed twice at the same time is flagged in the role of the first match.
LEMMA DoubleBookingFlagged ==
    ASSUME NEW p, NEW a \in Matches, NEW b \in Matches, NEW mine \in Roles, NEW theirs \in Roles,
           a # b, Overlap(p, a, b), Definitive(a), Definitive(b),
           SameParticipant(SlotIn(a, mine), SlotIn(b, theirs))
    PROVE  <<a, mine>> \in ConflictFlags(p)
<1> DEFINE clashes == Clashes(p)
<1>1. <<a, b>> \in clashes /\ <<b, a>> \in clashes
  BY ClashesBothWays
<1> HIDE DEF clashes
<1>2. \A m \in Matches : \A role \in Roles :
          \/ role = "referee" /\ RefereesEnabled /\ SlotIn(m, role) = Referee[m]
          \/ \E s \in Sides : role = SideFlag[s] /\ SlotIn(m, role) = Side[m][s]
  BY DEF Roles, SlotIn, Sides, SideFlag
<1>3. TeamOverlapConflicts(clashes) \cup SlotOverlapConflicts(clashes) \subseteq ConflictFlags(p)
  BY DEF ConflictFlags, clashes
<1>4. RefereesEnabled => RefereeOverlapConflicts(clashes) \subseteq ConflictFlags(p)
  BY DEF ConflictFlags, clashes
<1>5. CASE SlotIn(a, mine) = SlotIn(b, theirs)
  BY <1>1, <1>3, <1>5, SharedSlotFlagged DEF SameParticipant
<1>6. CASE SlotIn(a, mine) # SlotIn(b, theirs)
  <2>1. /\ SlotTeam(SlotIn(a, mine)) # NoTeam
        /\ SlotTeam(SlotIn(a, mine)) = SlotTeam(SlotIn(b, theirs))
    BY <1>6 DEF SameParticipant
  <2>2. ASSUME NEW s \in Sides, mine = SideFlag[s], SlotIn(a, mine) = Side[a][s],
               NEW t \in Sides, SlotIn(b, theirs) = Side[b][t]
        PROVE  <<a, mine>> \in ConflictFlags(p)
    BY <1>1, <1>3, <2>1, <2>2, SharedTeamFlagged
  <2>3. ASSUME mine = "referee", RefereesEnabled, SlotIn(a, mine) = Referee[a],
               NEW t \in Sides, SlotIn(b, theirs) = Side[b][t]
        PROVE  <<a, mine>> \in ConflictFlags(p)
    BY <1>1, <1>4, <2>1, <2>3, PlayingRefereeFlagged
  <2>4. ASSUME NEW s \in Sides, mine = SideFlag[s], SlotIn(a, mine) = Side[a][s],
               RefereesEnabled, SlotIn(b, theirs) = Referee[b]
        PROVE  <<a, mine>> \in ConflictFlags(p)
    BY <1>1, <1>4, <2>1, <2>4, PlayingRefereeFlagged
  <2>5. ASSUME mine = "referee", RefereesEnabled, SlotIn(a, mine) = Referee[a],
               SlotIn(b, theirs) = Referee[b]
        PROVE  <<a, mine>> \in ConflictFlags(p)
    BY <1>1, <1>4, <2>1, <2>5, SharedRefereeFlagged
  <2> QED
    BY <1>2, <2>2, <2>3, <2>4, <2>5
<1> QED
  BY <1>5, <1>6

\* Whoever is needed by two matches at once, as a team or as a slot without one, is
\* flagged on both of them, playing or refereeing (setTeamOverlapConflicts,
\* setRefereeOverlapConflicts, setSlotOverlapConflicts).
THEOREM DoubleBookingsAreSeen == DaySpec => []DoubleBookingsSeen
<1>1. DoubleBookingsSeen
  <2> SUFFICES ASSUME NEW a \in Matches, NEW b \in Matches, NEW mine \in Roles, NEW theirs \in Roles,
                      a # b, Overlap(plan, a, b), Definitive(a), Definitive(b),
                      SameParticipant(SlotIn(a, mine), SlotIn(b, theirs))
               PROVE  <<a, mine>> \in ConflictFlags(plan) /\ <<b, theirs>> \in ConflictFlags(plan)
    BY DEF DoubleBookingsSeen
  <2>1. <<a, mine>> \in ConflictFlags(plan)
    BY DoubleBookingFlagged
  <2>2. SameParticipant(SlotIn(b, theirs), SlotIn(a, mine)) /\ Overlap(plan, b, a)
    <3>1. SlotIn(b, theirs) # NoSlot
      BY DEF SameParticipant, SlotTeam
    <3> QED
      BY <3>1 DEF SameParticipant, Overlap
  <2>3. <<b, theirs>> \in ConflictFlags(plan)
    BY <2>2, DoubleBookingFlagged
  <2> QED
    BY <2>1, <2>3
<1> QED
  BY <1>1, PTL

\* A match that starts before one it waits for has ended gets a flag.
LEMMA LateMatchFlagged ==
    ASSUME NEW p, NEW f \in OnGrid(p), NEW m \in OnGrid(p), FeedsDirectly(f, m),
           p[m].start < EndOf(p, f)
    PROVE  <<m, "precedence">> \in ConflictFlags(p)
<1>1. /\ f \in Matches /\ m \in Matches /\ Scheduled(p, f) /\ Scheduled(p, m)
      /\ f # NoMatch /\ ItemOf[f] \in Items
  BY ConflictAssumption DEF OnGrid
<1>2. ASSUME NEW s \in Sides, Feeder[m][s] = f PROVE <<m, "precedence">> \in WinnerOfPrecedenceConflicts(p)
  <2> DEFINE late == {x \in {n \in Matches : Scheduled(p, n)} \X Sides :
                          /\ Feeder[x[1]][x[2]] # NoMatch
                          /\ Scheduled(p, Feeder[x[1]][x[2]])
                          /\ p[x[1]].start < EndOf(p, Feeder[x[1]][x[2]])}
             y == <<m, s>>
  <2>1. y \in {n \in Matches : Scheduled(p, n)} \X Sides /\ y[1] = m /\ y[2] = s
    BY <1>1
  <2> HIDE DEF y
  <2>2. y \in late
    BY <1>1, <1>2, <2>1
  <2> HIDE DEF late
  <2>3. <<m, "precedence">> \in {<<x[1], "precedence">> : x \in late}
    BY <2>1, <2>2
  <2> QED
    BY <2>3 DEF WinnerOfPrecedenceConflicts, late
<1>3. ASSUME FeedsOn(m, ItemOf[f]) PROVE <<m, "precedence">> \in CrossStagePrecedenceConflicts(p)
  <2> DEFINE late == {n \in Matches : Scheduled(p, n) /\ \E i \in Items : FeedsOn(n, i) /\
                          \E o \in MatchesOf(p, i) : p[n].start < EndOf(p, o)}
  <2>1. m \in late
    BY <1>1, <1>3 DEF MatchesOf
  <2>2. <<m, "precedence">> \in {<<n, "precedence">> : n \in late}
    <3> HIDE DEF late
    <3> QED
      BY <2>1
  <2> QED
    BY <2>2 DEF CrossStagePrecedenceConflicts
<1>4. WinnerOfPrecedenceConflicts(p) \cup CrossStagePrecedenceConflicts(p) \subseteq ConflictFlags(p)
  BY DEF ConflictFlags
<1> QED
  BY <1>2, <1>3, <1>4 DEF FeedsDirectly

\* Of a match, one fed by it and one fed by that one in turn, all on the grid, the last
\* cannot start before the first ends without a flag on the way
\* (setWinnerOfPrecedenceConflicts, setCrossStagePrecedenceConflicts).
THEOREM ChainsOfDependenceAreSeen == DaySpec => []ChainsOfDependenceSeen
<1>1. ASSUME PlanTyped PROVE ChainsOfDependenceSeen
  <2> SUFFICES ASSUME NEW f \in OnGrid(plan), NEW g \in OnGrid(plan), NEW m \in OnGrid(plan),
                      FeedsDirectly(f, g), FeedsDirectly(g, m), plan[m].start < EndOf(plan, f),
                      <<g, "precedence">> \notin ConflictFlags(plan),
                      <<m, "precedence">> \notin ConflictFlags(plan)
               PROVE  FALSE
    BY DEF ChainsOfDependenceSeen
  <2>1. ~ (plan[g].start < EndOf(plan, f)) /\ ~ (plan[m].start < EndOf(plan, g))
    BY LateMatchFlagged
  <2>2. \A x \in {f, g, m} : plan[x].start \in Nat /\ plan[x].minutes \in Nat
    BY <1>1 DEF PlanTyped, Plans, OnGrid
  <2> QED
    BY <2>1, <2>2 DEF EndOf
<1> QED
  BY <1>1, DayTypedAlways, PTL

\* The flags there are.
LEMMA FlagKindsAreKinds ==
    ASSUME NEW p, NEW m, NEW kind \in FlagsOf(GridFlags(p), m)
    PROVE  kind \in FlagKinds \cup {"stage_order"}
<1> DEFINE clashes == Clashes(p)
<1>1. PICK flag \in GridFlags(p) : flag[2] = kind
  BY DEF FlagsOf
<1> HIDE DEF clashes
<1>2. \A g \in TeamOverlapConflicts(clashes) : g[2] \in FlagKinds
  BY DEF TeamOverlapConflicts, FlagKinds, Sides, SideFlag
<1>3. \A g \in RefereeOverlapConflicts(clashes) : g[2] \in FlagKinds
  BY DEF RefereeOverlapConflicts, FlagKinds, Sides, SideFlag
<1>4. \A g \in SlotOverlapConflicts(clashes) : g[2] \in FlagKinds
  <2>1. \A n : \A o \in Occupancies(n) : o[2] \in FlagKinds
    BY DEF Occupancies, FlagKinds, Sides, SideFlag
  <2> QED
    BY <2>1 DEF SlotOverlapConflicts
<1>5. \A g \in WinnerOfPrecedenceConflicts(p) : g[2] \in FlagKinds
  BY DEF WinnerOfPrecedenceConflicts, FlagKinds
<1>6. \A g \in CrossStagePrecedenceConflicts(p) \cup CrossStageFeederPrecedenceConflicts(p) : g[2] \in FlagKinds
  BY DEF CrossStagePrecedenceConflicts, CrossStageFeederPrecedenceConflicts, FlagKinds
<1>7. \A g \in ShortBreakConflicts(p) \cup RoundOrderConflicts(p) : g[2] \in FlagKinds
  BY DEF ShortBreakConflicts, RoundOrderConflicts, FlagKinds
<1>8. \A g \in StageOrderViolations(p) : g[2] = "stage_order"
  BY DEF StageOrderViolations
<1> QED
  BY <1>1, <1>2, <1>3, <1>4, <1>5, <1>6, <1>7, <1>8 DEF GridFlags, ConflictFlags, clashes

\* Every flag of a match, its stage order included, can be seen on its card at whatever
\* height and card zoom, when its referee has a name; the overview marks every match
\* with a flag other than round order (the cards and blocks of schedule_grid.tsx).
THEOREM EveryConflictIsShown == DaySpec => []EveryConflictShown
<1>1. EveryConflictShown
  <2> SUFFICES ASSUME NEW m \in OnGrid(plan), NEW kind \in FlagsOf(GridFlags(plan), m)
               PROVE  LET kinds == FlagsOf(GridFlags(plan), m)
                      IN /\ \A zoom \in {"agenda", "compact"}, px \in Heights :
                                \/ kind \in CardShows(m, kinds, zoom, px)
                                \/ kind = "referee" /\ ~RefereeNamed(m)
                         /\ kind # "round_order" => OverviewMarked(kinds)
    BY DEF EveryConflictShown
  <2> DEFINE kinds == FlagsOf(GridFlags(plan), m)
  <2>1. kind \in kinds /\ kind \in FlagKinds \cup {"stage_order"}
    BY FlagKindsAreKinds
  <2> HIDE DEF kinds
  <2>2. ASSUME NEW zoom \in {"agenda", "compact"}, NEW px \in Heights
        PROVE  kind \in CardShows(m, kinds, zoom, px) \/ (kind = "referee" /\ ~RefereeNamed(m))
    <3> DEFINE lines == CardLines(px)
    <3>1. lines \in 1..4
      BY DayAssumption DEF CardLines
    <3> HIDE DEF lines
    <3>2. CASE kind = "referee"
      BY <2>1, <3>1, <3>2 DEF CardShows, IconsMerged, lines
    <3>3. CASE kind = SideFlag[1]
      BY <2>1, <3>1, <3>3 DEF CardShows, IconsMerged, lines
    <3>4. CASE kind = SideFlag[2]
      BY <2>1, <3>1, <3>4 DEF CardShows, IconsMerged, lines
    <3>5. CASE kind \in OrderKinds \cup {"short_break"}
      BY <2>1, <3>1, <3>5 DEF CardShows, IconsMerged, lines
    <3> QED
      BY <2>1, <3>2, <3>3, <3>4, <3>5 DEF FlagKinds, OrderKinds
  <2>3. kind # "round_order" => OverviewMarked(kinds)
    BY <2>1 DEF FlagKinds, OverviewMarked
  <2> QED
    BY <2>2, <2>3 DEF kinds
<1> QED
  BY <1>1, PTL

-----------------------------------------------------------------------------
(* Packing moves nothing that has its break already *)

\* Matches of which each comes a break after all matches ahead of it keep their slots.
LEMMA RepackKeeps ==
    ASSUME NEW p \in Plans, NEW key, NEW max, KeyBound(key, max), NEW cs,
           NEW D \in SUBSET OnCourts(p, cs),
           \A o \in D : \A x \in Ahead(p, key, o) : x \in D /\ EndOf(p, x) + Break <= p[o].start
    PROVE  \A o \in D : Repacked(p, cs, key)[o] = p[o]
<1> DEFINE r == Repacked(p, cs, key)
           moved == {o \in D : r[o].start # p[o].start}
           bad == {key[o] + 1 : o \in moved}
<1>1. Restarted(p, r) /\ \A m \in OnCourts(p, cs) : PackedAfter(p, r, key, m)
  BY RepackedIs DEF OnCourts
<1> HIDE DEF r
<1>2. \A o \in D : o \in OnCourts(p, cs) /\ o \in Matches
  BY DEF OnCourts
<1>3. bad = {}
  <2> SUFFICES ASSUME bad # {} PROVE FALSE
    OBVIOUS
  <2>1. bad \in SUBSET Nat
    BY <1>2 DEF KeyBound
  <2>2. PICK n \in bad : \A k \in bad : n <= k
    <3> HIDE DEF bad
    <3> QED
      BY <2>1, LeastSet
  <2>3. PICK o \in moved : n = key[o] + 1
    OBVIOUS
  <2>4. o \in D /\ r[o].start # p[o].start
    OBVIOUS
  <2>5. CASE Ahead(p, key, o) = {}
    BY <1>1, <1>2, <2>4, <2>5 DEF PackedAfter
  <2>6. CASE Ahead(p, key, o) # {}
    <3> DEFINE last == LastOf(key, Ahead(p, key, o))
    <3>1. last \in Ahead(p, key, o)
      BY <2>6, LastIsLast DEF Ahead, OnCourt
    <3> HIDE DEF last
    <3>2. last \in D /\ EndOf(p, last) + Break <= p[o].start
      BY <2>4, <3>1
    <3>3. ~ (n <= key[last] + 1)
      BY <1>2, <2>3, <2>4, <3>1, <3>2 DEF KeyBound, Ahead
    <3>4. last \notin moved
      BY <2>2, <3>3
    <3>5. r[last].start = p[last].start
      BY <3>2, <3>4
    <3>6. EndOf(r, last) = EndOf(p, last)
      BY <1>1, <1>2, <3>2, <3>5 DEF EndOf, Restarted
    <3>7. /\ p[o].start \in Nat /\ Break \in Nat /\ EndOf(p, last) \in Nat
      <4>1. o \in Matches /\ last \in Matches
        BY <1>2, <2>4, <3>2
      <4>2. p[o].start \in Nat /\ p[last].start \in Nat /\ p[last].minutes \in Nat
        BY <4>1 DEF Plans
      <4> QED
        BY <4>2, PackingAssumption DEF EndOf
    <3>8. r[o].start = IF Ahead(p, key, o) = {} \/ p[o].start >= EndOf(r, last) + Break THEN p[o].start
                       ELSE EndOf(r, last) + Break
      <4>1. PackedAfter(p, r, key, o)
        BY <1>1, <1>2, <2>4
      <4> QED
        BY <4>1 DEF PackedAfter, last
    <3>9. r[o].start = p[o].start
      BY <3>2, <3>6, <3>7, <3>8
    <3> QED
      BY <2>4, <3>9
  <2> QED
    BY <2>5, <2>6
<1>4. ASSUME NEW o \in D PROVE r[o] = p[o]
  <2>1. r[o].start = p[o].start
    <3> SUFFICES ASSUME o \in moved PROVE FALSE
      OBVIOUS
    <3>1. key[o] + 1 \in bad
      OBVIOUS
    <3> QED
      BY <1>3, <3>1
  <2> QED
    BY <1>1, <1>2, <2>1 DEF Restarted, Plans
<1> QED
  BY <1>4 DEF r

\* On a court without short breaks the earlier of two matches leaves the other a break.
LEMMA BreakIsKept ==
    ASSUME NEW p \in Plans, NEW x \in Matches, NEW o \in Matches, p[x].court = p[o].court,
           ~ShortBreak(p, p[o].court), Earlier(p, x, o)
    PROVE  EndOf(p, x) + Break <= p[o].start
<1>1. ~ (p[o].start < EndOf(p, x) + Break)
  BY DEF ShortBreak, OnCourt
<1>2. p[o].start \in Nat /\ EndOf(p, x) + Break \in Nat
  BY PackingAssumption DEF Plans, EndOf
<1> QED
  BY <1>1, <1>2

\* Two matches of equal length trade their slots and nothing else moves.
LEMMA TradedKeeps ==
    ASSUME NEW p \in Plans, NEW a \in Matches, NEW b \in Matches, NEW q, Traded(p, q, a, b),
           p[a].minutes = p[b].minutes, NEW cs,
           q[a].court \in cs => q[a].start = p[b].start,
           q[b].court \in cs => q[b].start = p[a].start,
           \A c \in cs : ~ShortBreak(p, c)
    PROVE  Repacked(q, cs, TradedKey(p, a, b)) = q
<1> DEFINE of(m) == IF m = a THEN b ELSE IF m = b THEN a ELSE m
           key == TradedKey(p, a, b)
<1>1. \A m \in Matches : of(m) \in Matches /\ q[m].court = p[of(m)].court
                         /\ q[m].minutes = p[of(m)].minutes
                         /\ (q[m].court \in cs => q[m].start = p[of(m)].start)
  BY DEF Traded
<1>2. \A m \in Matches : key[m] = 2 * PositionOf(p, of(m)) /\ PositionOf(p, of(m)) \in Nat
  BY PositionsAreKeys DEF TradedKey
<1>3. KeyBound(key, 2 * Cardinality(Matches)) /\ q \in Plans
  BY TradedKeyFits DEF Traded
<1> HIDE DEF of, key
<1>4. ASSUME NEW o \in OnCourts(q, cs), NEW x \in Ahead(q, key, o)
      PROVE  x \in OnCourts(q, cs) /\ EndOf(q, x) + Break <= q[o].start
  <2>1. o \in Matches /\ x \in Matches /\ q[x].court = q[o].court /\ q[o].court \in cs /\ key[x] < key[o]
    BY DEF OnCourts, Ahead, OnCourt
  <2>2. Earlier(p, of(x), of(o))
    BY <1>1, <1>2, <2>1, PositionsOrder
  <2>3. EndOf(p, of(x)) + Break <= p[of(o)].start
    BY <1>1, <2>1, <2>2, BreakIsKept
  <2> QED
    BY <1>1, <2>1, <2>3 DEF EndOf, OnCourts
<1>5. \A o \in OnCourts(q, cs) : Repacked(q, cs, key)[o] = q[o]
  BY <1>3, <1>4, RepackKeeps
<1>6. \A m \in Matches \ OnCourts(q, cs) : Repacked(q, cs, key)[m] = q[m]
  BY <1>3, RepackedIs DEF OnCourts
<1>7. Repacked(q, cs, key) \in Plans
  BY <1>3, RepackedIs DEF Restarted
<1> QED
  BY <1>3, <1>5, <1>6, <1>7 DEF Plans, key

\* A regular swap, as the server handles it and as the browser foresees it.
LEMMA RegularSwap ==
    ASSUME NEW p \in Plans, NEW a \in Matches, NEW b \in Matches, a # b,
           Scheduled(p, a) \/ Scheduled(p, b), p[a].minutes = p[b].minutes,
           \A m \in {a, b} : Scheduled(p, m) => ~ShortBreak(p, p[m].court)
    PROVE  /\ HandleSwap(p, a, b).status = "ok" => HandleSwap(p, a, b).plan = OptimisticSwap(p, a, b)
           /\ \A m \in Matches \ {a, b} : HandleSwap(p, a, b).plan[m] = p[m]
           /\ \A m \in {a, b} : Scheduled(p, m) /\ Played(p, m) /\ ~(Scheduled(p, a) /\ Scheduled(p, b)) =>
                  HandleSwap(p, a, b).plan = p
<1>1. CASE Scheduled(p, a) /\ Scheduled(p, b)
  <2> DEFINE q == BothTraded(p, a, b)
             cs == {p[a].court, p[b].court}
  <2>1. HandleSwap(p, a, b).plan = Repacked(q, cs, TradedKey(p, a, b))
    BY <1>1 DEF HandleSwap, Done, BothTraded, TradedKey
  <2>2. OptimisticSwap(p, a, b) = q
    BY <1>1 DEF OptimisticSwap, BothTraded
  <2>3. Traded(p, q, a, b) /\ q[a].start = p[b].start /\ q[b].start = p[a].start
    BY BothAreTraded
  <2> HIDE DEF q
  <2>4. \A c \in cs : ~ShortBreak(p, c)
    BY <1>1
  <2> HIDE DEF cs
  <2>5. Repacked(q, cs, TradedKey(p, a, b)) = q
    BY <2>3, <2>4, TradedKeeps
  <2> QED
    BY <1>1, <2>1, <2>2, <2>3, <2>5 DEF Traded
<1>2. ASSUME NEW leaves \in Matches, NEW comes \in Matches, Scheduled(p, leaves), ~Scheduled(p, comes),
             (leaves = a /\ comes = b) \/ (leaves = b /\ comes = a)
      PROVE  /\ HandleSwap(p, a, b).status = "ok" => HandleSwap(p, a, b).plan = OptimisticSwap(p, a, b)
             /\ \A m \in Matches \ {a, b} : HandleSwap(p, a, b).plan[m] = p[m]
             /\ Played(p, leaves) => HandleSwap(p, a, b).plan = p
  <2> DEFINE q == InTray(TakesSlot(p, leaves, comes), leaves)
  <2>1. TradedKey(p, a, b) = TradedKey(p, leaves, comes)
    BY <1>2, PositionsAreKeys DEF TradedKey
  <2>2. \/ HandleSwap(p, a, b).plan = p /\ HandleSwap(p, a, b).status # "ok"
        \/ /\ ~Played(p, leaves)
           /\ HandleSwap(p, a, b).plan = Repacked(q, {p[leaves].court}, TradedKey(p, leaves, comes))
    BY <1>2, <2>1 DEF HandleSwap, Done, Refused, TradedKey
  <2>3. Traded(p, q, leaves, comes) /\ q[comes].start = p[leaves].start
    BY <1>2, TrayIsTraded
  <2>4. OptimisticSwap(p, a, b) = q
    BY <1>2 DEF OptimisticSwap
  <2> HIDE DEF q
  <2>5. q[leaves].court \notin {p[leaves].court}
    BY <1>2, <2>3 DEF Traded, Scheduled
  <2>6. \A c \in {p[leaves].court} : ~ShortBreak(p, c)
    BY <1>2
  <2>7. Repacked(q, {p[leaves].court}, TradedKey(p, leaves, comes)) = q
    BY <1>2, <2>3, <2>5, <2>6, TradedKeeps
  <2> QED
    BY <1>2, <2>2, <2>3, <2>4, <2>7 DEF Traded
<1>3. CASE Scheduled(p, a) /\ ~Scheduled(p, b)
  BY <1>2, <1>3
<1>4. CASE ~Scheduled(p, a) /\ Scheduled(p, b)
  BY <1>2, <1>4
<1> QED
  BY <1>1, <1>3, <1>4

-----------------------------------------------------------------------------
(* Placing a match: before the match at a line of the grid *)

Moved(p, m, c) == [p EXCEPT ![m].court = c, ![m].start = 0]

\* Where the match comes among the others of its new court: when it leaves its place
\* on that court first, the later ones move up.
NewPosition(p, m, c, i) == IF p[m].court = c /\ i > PositionOf(p, m) + 1 THEN i - 1 ELSE i

LEMMA MovedIs ==
    ASSUME NEW p \in Plans, NEW m \in Matches, NEW c \in Courts
    PROVE  /\ Moved(p, m, c) \in Plans
           /\ Moved(p, m, c)[m].court = c
           /\ \A x \in Matches \ {m} : Moved(p, m, c)[x] = p[x]
BY DEF Moved, Plans

\* What the server makes of a line that was tapped for a match on the grid.
LEMMA PlaceHandled ==
    ASSUME NEW p \in Plans, NEW m \in OnGrid(p), NEW c \in Courts, NEW i \in Nat,
           NEW a, a = PlaceAction(GridRef(p, m), c, i), a # NoAction
    PROVE  /\ a = Reschedule(m, p[m].court, PositionOf(p, m), c, NewPosition(p, m, c, i))
           /\ p[m].court = c => i \notin {PositionOf(p, m), PositionOf(p, m) + 1}
           /\ Handle(p, a) = Done(Repacked(Moved(p, m, c), {p[m].court, c}, PlacedKey(p, m, i, -1)))
<1> DEFINE pos == PositionOf(p, m)
           new == NewPosition(p, m, c, i)
<1>1. m \in Matches /\ p[m].court # NoCourt /\ pos \in Nat
  BY PositionsOrder DEF OnGrid, Scheduled
<1>2. p[m].court = c => i \notin {pos, pos + 1}
  BY DEF PlaceAction, GridRef
<1>3. a = Reschedule(m, p[m].court, pos, c, new)
  BY <1>2 DEF PlaceAction, GridRef, NewPosition
<1>4. /\ a.match = m /\ a.oldCourt = p[m].court /\ a.oldPosition = pos /\ a.newCourt = c
      /\ a.newPosition = new /\ a.type = "reschedule"
  BY <1>3 DEF Reschedule
<1>5. p[m].court = c => new # pos
  BY <1>1, <1>2 DEF NewPosition
<1>6. 2 * new + Offset(a) = 2 * i - 1
  BY <1>1, <1>2, <1>4 DEF NewPosition, Offset
<1> HIDE DEF new, pos
<1>7. Handle(p, a) = HandleReschedule(p, a)
  BY <1>4 DEF Handle
<1>8. [Positions(p) EXCEPT ![m] = 2 * new + Offset(a)] = PlacedKey(p, m, i, -1)
  BY <1>6 DEF PlacedKey
<1>9. HandleReschedule(p, a) =
          Done(Repacked(Moved(p, m, c), {p[m].court, c}, [Positions(p) EXCEPT ![m] = 2 * new + Offset(a)]))
  BY <1>1, <1>4, <1>5 DEF HandleReschedule, Moved, pos
<1> QED
  BY <1>2, <1>3, <1>7, <1>8, <1>9 DEF new, pos

\* And for a match of the tray.
LEMMA TrayPlaceHandled ==
    ASSUME NEW p \in Plans, NEW m \in Matches, ~Scheduled(p, m), NEW c \in Courts, NEW i \in Nat,
           NEW a, a = PlaceFromTray(m, c, i)
    PROVE  /\ a = Reschedule(m, NoCourt, 0, c, NewPosition(p, m, c, i))
           /\ Handle(p, a) = Done(Repacked(Moved(p, m, c), {c}, PlacedKey(p, m, i, -1)))
<1>1. p[m].court # c
  BY PackingAssumption DEF Scheduled
<1>2. a = Reschedule(m, NoCourt, 0, c, i) /\ NewPosition(p, m, c, i) = i
  BY <1>1 DEF PlaceFromTray, NewPosition
<1>3. /\ a.match = m /\ a.oldCourt = NoCourt /\ a.newCourt = c /\ a.newPosition = i
      /\ a.type = "reschedule" /\ c # NoCourt
  BY <1>2, PackingAssumption DEF Reschedule
<1>4. Handle(p, a) = HandleReschedule(p, a)
  BY <1>3 DEF Handle
<1>5. 2 * i + Offset(a) = 2 * i + (-1)
  BY <1>3 DEF Offset
<1>6. [Positions(p) EXCEPT ![m] = 2 * i + Offset(a)] = PlacedKey(p, m, i, -1)
  BY <1>5 DEF PlacedKey
<1>7. HandleReschedule(p, a) = Done(Repacked(Moved(p, m, c), {c}, [Positions(p) EXCEPT ![m] = 2 * i + Offset(a)]))
  BY <1>3 DEF HandleReschedule, Moved
<1> QED
  BY <1>2, <1>4, <1>6, <1>7

\* What is not behind the line keeps its slot, on the court that is left, too.
LEMMA StaysAhead ==
    ASSUME NEW p \in Plans, NEW m \in Matches, NEW c \in Courts, NEW i \in Nat, NEW cs,
           \A d \in cs : ~ShortBreak(p, d),
           NEW o \in Matches \ {m}, p[o].court = c => PositionOf(p, o) < i
    PROVE  Repacked(Moved(p, m, c), cs, PlacedKey(p, m, i, -1))[o] = p[o]
<1> DEFINE q == Moved(p, m, c)
           key == PlacedKey(p, m, i, -1)
           D == {x \in OnCourts(q, cs) \ {m} : p[x].court = c => PositionOf(p, x) < i}
           max == 2 * Cardinality(Matches) + 2 * i + 1
<1>1. q \in Plans /\ q[m].court = c /\ \A x \in Matches \ {m} : q[x] = p[x]
  BY MovedIs
<1>2. /\ key[m] = 2 * i - 1
      /\ \A x \in Matches \ {m} : key[x] = 2 * PositionOf(p, x)
      /\ \A x \in Matches : PositionOf(p, x) \in Nat
  BY PositionsAreKeys DEF PlacedKey
<1> HIDE DEF q
<1>3. KeyBound(key, max)
  BY <1>1, PlacedKeyFits
<1> HIDE DEF key, max
<1>4. ASSUME NEW y \in D, NEW x \in Ahead(q, key, y) PROVE x \in D /\ EndOf(q, x) + Break <= q[y].start
  <2>1. /\ y \in Matches /\ y # m /\ q[y].court \in cs /\ x \in Matches
        /\ q[x].court = q[y].court /\ key[x] < key[y]
        /\ (p[y].court = c => PositionOf(p, y) < i)
    BY DEF OnCourts, Ahead, OnCourt
  <2>2. q[y] = p[y]
    BY <1>1, <2>1
  <2>3. x # m
    BY <1>1, <1>2, <2>1, <2>2
  <2>4. q[x] = p[x] /\ p[x].court = p[y].court /\ PositionOf(p, x) < PositionOf(p, y)
    BY <1>1, <1>2, <2>1, <2>2, <2>3
  <2>5. Earlier(p, x, y)
    BY <2>1, <2>4, PositionsOrder
  <2>6. EndOf(p, x) + Break <= p[y].start
    BY <2>1, <2>2, <2>4, <2>5, BreakIsKept
  <2>7. p[x].court = c => PositionOf(p, x) < i
    BY <1>2, <2>1, <2>4
  <2> QED
    BY <2>1, <2>2, <2>3, <2>4, <2>6, <2>7 DEF EndOf, OnCourts
<1>5. CASE q[o].court \in cs
  <2>1. o \in D /\ D \in SUBSET OnCourts(q, cs)
    BY <1>1, <1>5 DEF OnCourts
  <2> HIDE DEF D
  <2>2. Repacked(q, cs, key)[o] = q[o]
    BY <1>1, <1>3, <1>4, <2>1, RepackKeeps
  <2> QED
    BY <1>1, <2>2 DEF q, key
<1>6. CASE q[o].court \notin cs
  BY <1>1, <1>3, <1>6, RepackedIs DEF q, key
<1> QED
  BY <1>5, <1>6

\* What was played is ahead of every line of its court.
LEMMA PlayedIsAhead ==
    ASSUME NEW p \in Plans, NEW line \in InsertionLines(p), NEW o \in Matches, Played(p, o),
           p[o].court = line[1]
    PROVE  PositionOf(p, o) < line[2]
<1> DEFINE locked == {x \in OnCourt(p, line[1]) : Locked(p, x)}
           ahead == {x \in OnCourt(p, line[1]) : Earlier(p, x, o)}
<1>1. LockedCount(p, line[1]) <= line[2] /\ line[2] \in Nat
  BY MatchSetsFinite DEF InsertionLines
<1>2. o \in locked
  BY EarlierOrders DEF Locked, OnCourt
<1>3. ahead \in SUBSET locked /\ o \notin ahead /\ locked \in SUBSET Matches
  BY EarlierOrders DEF Locked, OnCourt
<1>4. Cardinality(locked) \in Nat /\ Cardinality(ahead) \in Nat
  BY <1>3, MatchSetsFinite
<1>5. Cardinality(locked) = LockedCount(p, line[1]) /\ Cardinality(ahead) = PositionOf(p, o)
  BY DEF LockedCount, PositionOf
<1> HIDE DEF locked, ahead
<1>6. Cardinality(ahead) < Cardinality(locked)
  BY <1>2, <1>3, MoreIsLarger
<1> QED
  BY <1>1, <1>4, <1>5, <1>6

-----------------------------------------------------------------------------
(* What was played keeps its slot *)

\* A regular request for a place is on courts without short breaks.
LEMMA RegularPlace ==
    ASSUME NEW m, NEW oldCourt, NEW oldPosition, NEW c \in Courts, NEW new,
           Regular(Reschedule(m, oldCourt, oldPosition, c, new))
    PROVE  ~ShortBreak(plan, c) /\ (plan[m].court \in Courts => ~ShortBreak(plan, plan[m].court))
<1> DEFINE a == Reschedule(m, oldCourt, oldPosition, c, new)
<1>1. a.match = m /\ a.newCourt = c /\ a.type = "reschedule"
  BY DEF Reschedule
<1> HIDE DEF a
<1>2. plan[m].court \in Touched(a) /\ c \in Touched(a)
  BY <1>1 DEF Touched
<1> QED
  BY <1>2 DEF Regular, a

\* A regular swap is between equals on courts without short breaks.
LEMMA RegularSwapIs ==
    ASSUME plan \in Plans, NEW a \in Matches, NEW b \in Matches, Regular(Swap(a, b))
    PROVE  /\ plan[a].minutes = plan[b].minutes
           /\ \A m \in {a, b} : Scheduled(plan, m) => ~ShortBreak(plan, plan[m].court)
<1> DEFINE s == Swap(a, b)
<1>1. s.match = a /\ s.other = b /\ s.type = "swap"
  BY DEF Swap
<1> HIDE DEF s
<1>2. plan[a].court \in Touched(s) /\ plan[b].court \in Touched(s)
  BY <1>1 DEF Touched
<1>3. \A m \in {a, b} : Scheduled(plan, m) => plan[m].court \in Courts
  BY DEF Plans, Scheduled
<1> QED
  BY <1>1, <1>2, <1>3 DEF Regular, s

\* The request for a line, by its parts.
LEMMA PlaceIsReschedule ==
    ASSUME NEW p \in Plans, NEW m \in OnGrid(p), NEW c \in Courts, NEW i \in Nat,
           PlaceAction(GridRef(p, m), c, i) # NoAction
    PROVE  PlaceAction(GridRef(p, m), c, i) =
               Reschedule(m, p[m].court, PositionOf(p, m), c, NewPosition(p, m, c, i))
<1> DEFINE a == PlaceAction(GridRef(p, m), c, i)
<1>1. a = PlaceAction(GridRef(p, m), c, i) /\ a # NoAction
  OBVIOUS
<1> HIDE DEF a
<1>2. a = Reschedule(m, p[m].court, PositionOf(p, m), c, NewPosition(p, m, c, i))
  BY <1>1, PlaceHandled
<1> QED
  BY <1>1, <1>2

LEMMA PlaceKeepsPlayed ==
    ASSUME plan \in Plans, NEW o \in Offered, ~o.confirmed, Regular(o.action), OffersPlace(o)
    PROVE  KeepsPlayed(Handle(plan, o.action).plan)
<1>1. PICK m \in OnGrid(plan), line \in InsertionLines(plan) :
          o.action = PlaceAction(GridRef(plan, m), line[1], line[2]) /\ ~Played(plan, m)
  BY DEF OffersPlace
<1> DEFINE c == line[1]
           i == line[2]
<1>2. c \in Courts /\ i \in Nat /\ m \in Matches /\ plan[m].court \in Courts
  BY MatchSetsFinite DEF InsertionLines, OnGrid, Scheduled, Plans
<1>3. o.action # NoAction
  BY OfferedShapes
<1>4. /\ o.action = Reschedule(m, plan[m].court, PositionOf(plan, m), c, NewPosition(plan, m, c, i))
      /\ Handle(plan, o.action).plan =
             Repacked(Moved(plan, m, c), {plan[m].court, c}, PlacedKey(plan, m, i, -1))
  <2>1. o.action = PlaceAction(GridRef(plan, m), c, i)
    BY <1>1
  <2> HIDE DEF c, i
  <2>2. Handle(plan, o.action) =
            Done(Repacked(Moved(plan, m, c), {plan[m].court, c}, PlacedKey(plan, m, i, -1)))
    BY <1>2, <1>3, <2>1, PlaceHandled
  <2>3. o.action = Reschedule(m, plan[m].court, PositionOf(plan, m), c, NewPosition(plan, m, c, i))
    BY <1>2, <1>3, <2>1, PlaceIsReschedule
  <2>4. \A r : Done(r).plan = r
    BY DEF Done
  <2> QED
    BY <2>2, <2>3, <2>4
<1>5. ~ShortBreak(plan, c) /\ ~ShortBreak(plan, plan[m].court)
  BY <1>2, <1>4, RegularPlace
<1>6. ASSUME NEW x \in Matches, Scheduled(plan, x), Played(plan, x)
      PROVE  Handle(plan, o.action).plan[x] = plan[x]
  <2>1. x # m
    BY <1>1, <1>6
  <2>2. plan[x].court = c => PositionOf(plan, x) < i
    BY <1>6, PlayedIsAhead
  <2>3. \A d \in {plan[m].court, c} : ~ShortBreak(plan, d)
    BY <1>5
  <2> HIDE DEF c, i
  <2> QED
    BY <1>2, <1>4, <2>1, <2>2, <2>3, StaysAhead
<1> QED
  BY <1>6 DEF KeepsPlayed, SameSlot

LEMMA TrayPlaceKeepsPlayed ==
    ASSUME plan \in Plans, NEW o \in Offered, Regular(o.action), OffersTrayPlace(o)
    PROVE  KeepsPlayed(Handle(plan, o.action).plan)
<1>1. PICK m \in Matches \ OnGrid(plan), line \in InsertionLines(plan) :
          o.action = PlaceFromTray(m, line[1], line[2])
  BY DEF OffersTrayPlace
<1> DEFINE c == line[1]
           i == line[2]
<1>2. c \in Courts /\ i \in Nat /\ m \in Matches /\ ~Scheduled(plan, m)
  BY MatchSetsFinite DEF InsertionLines, OnGrid
<1>4. /\ o.action = Reschedule(m, NoCourt, 0, c, NewPosition(plan, m, c, i))
      /\ Handle(plan, o.action).plan = Repacked(Moved(plan, m, c), {c}, PlacedKey(plan, m, i, -1))
  BY <1>1, <1>2, TrayPlaceHandled DEF Done
<1>5. ~ShortBreak(plan, c)
  BY <1>2, <1>4, RegularPlace
<1>6. ASSUME NEW x \in Matches, Scheduled(plan, x), Played(plan, x)
      PROVE  Handle(plan, o.action).plan[x] = plan[x]
  <2>1. x # m
    BY <1>2, <1>6
  <2>2. plan[x].court = c => PositionOf(plan, x) < i
    BY <1>6, PlayedIsAhead
  <2>3. \A d \in {c} : ~ShortBreak(plan, d)
    BY <1>5
  <2> HIDE DEF c, i
  <2> QED
    BY <1>2, <1>4, <2>1, <2>2, <2>3, StaysAhead
<1> QED
  BY <1>6 DEF KeepsPlayed, SameSlot

LEMMA SwapKeepsPlayed ==
    ASSUME plan \in Plans, NEW o \in Offered, ~o.confirmed, Regular(o.action), OffersSwap(o)
    PROVE  KeepsPlayed(Handle(plan, o.action).plan)
<1>1. PICK a \in Matches, b \in Matches :
          /\ o.action = Swap(a, b) /\ a # b
          /\ Scheduled(plan, a) \/ Scheduled(plan, b)
          /\ Scheduled(plan, a) /\ Scheduled(plan, b) => ~Played(plan, a) /\ ~Played(plan, b)
  BY DEF OffersSwap, OnGrid
<1>2. /\ plan[a].minutes = plan[b].minutes
      /\ \A m \in {a, b} : Scheduled(plan, m) => ~ShortBreak(plan, plan[m].court)
  BY <1>1, RegularSwapIs
<1>3. Handle(plan, o.action) = HandleSwap(plan, a, b)
  BY <1>1 DEF Handle, Swap
<1>4. /\ \A m \in Matches \ {a, b} : HandleSwap(plan, a, b).plan[m] = plan[m]
      /\ \A m \in {a, b} : Scheduled(plan, m) /\ Played(plan, m) /\ ~(Scheduled(plan, a) /\ Scheduled(plan, b)) =>
             HandleSwap(plan, a, b).plan = plan
  BY <1>1, <1>2, RegularSwap
<1> QED
  BY <1>1, <1>3, <1>4 DEF KeepsPlayed, SameSlot

LEMMA BreakKeepsPlayed ==
    ASSUME plan \in Plans, NEW o \in Offered, OffersBreak(o)
    PROVE  KeepsPlayed(Handle(plan, o.action).plan)
<1>1. PICK m \in BreaksOffered(plan), minutes \in BreakSizes : o.action = ResizeBreak(m, minutes)
  BY DEF OffersBreak
<1>2. m \in Matches /\ Scheduled(plan, m) /\ ~Locked(plan, m)
  BY DEF BreaksOffered
<1>3. Handle(plan, o.action).plan = Resized(plan, m, minutes)
  BY <1>1, <1>2 DEF Handle, ResizeBreak, HandleResizeBreak, Done
<1>4. ASSUME NEW x \in Matches, Scheduled(plan, x), Played(plan, x)
      PROVE  Resized(plan, m, minutes)[x] = plan[x]
  <2>1. x \notin OnCourt(plan, plan[m].court) \ Before(plan, m)
    BY <1>2, <1>4 DEF Locked, Before
  <2> QED
    BY <2>1 DEF Resized
<1> QED
  BY <1>3, <1>4 DEF KeepsPlayed, SameSlot

\* What was played keeps its court and time through every request that asked for no
\* confirmation, on courts without short breaks and between equals: lines are drawn
\* behind it, breaks are offered behind it, and reorder_all_matches moves nothing that
\* has its break.
THEOREM PlayedAlwaysKeepSlots == DaySpec => []PlayedKeepSlots
<1>1. ASSUME plan \in Plans, NEW o \in Offered, ~o.confirmed, Regular(o.action)
      PROVE  KeepsPlayed(Handle(plan, o.action).plan)
  <2>1. CASE OffersUnschedule(o)
    <3>1. PICK m \in OnGrid(plan) : ~Played(plan, m) /\ o.action = Unschedule(m)
      BY <2>1 DEF OffersUnschedule
    <3>2. Handle(plan, o.action).plan = InTray(plan, m) /\ m \in Matches
      BY <3>1 DEF Handle, Unschedule, HandleUnschedule, Done, OnGrid
    <3>3. \A x \in Matches \ {m} : InTray(plan, m)[x] = plan[x]
      BY <1>1, <3>2, TrayIsReplanned
    <3> QED
      BY <3>1, <3>2, <3>3 DEF KeepsPlayed, SameSlot
  <2>2. CASE OffersPlace(o) \/ OffersTrayPlace(o)
    BY <1>1, <2>2, PlaceKeepsPlayed, TrayPlaceKeepsPlayed
  <2>3. CASE OffersSwap(o) \/ OffersBreak(o)
    BY <1>1, <2>3, SwapKeepsPlayed, BreakKeepsPlayed
  <2> QED
    BY <1>1, <2>1, <2>2, <2>3, OfferedShapes DEF Offers
<1>2. PlanTyped => PlayedKeepSlots
  BY <1>1 DEF PlanTyped, PlayedKeepSlots
<1> QED
  BY <1>2, DayTypedAlways, PTL

-----------------------------------------------------------------------------
(* A placement as the browser foresees it: the keys differ, their order on *)
(* the new court does not                                                  *)

SameOrder(S, key, other) ==
    \A a, b \in S : /\ key[a] < key[b] <=> other[a] < other[b]
                    /\ a # b => key[a] # key[b]

\* The same match is the last one.
LEMMA SameLast ==
    ASSUME NEW key, NEW max, KeyBound(key, max), NEW other, NEW most, KeyBound(other, most),
           NEW S \in SUBSET Matches, SameOrder(S, key, other), NEW A \in SUBSET S, A # {}
    PROVE  LastOf(key, A) = LastOf(other, A) /\ LastOf(key, A) \in A
<1> DEFINE x == LastOf(key, A)
           y == LastOf(other, A)
<1>1. x \in A /\ y \in A /\ key[y] <= key[x] /\ other[x] <= other[y]
  BY LastIsLast
<1> HIDE DEF x, y
<1>2. /\ x \in S /\ y \in S
      /\ key[x] \in Int /\ key[y] \in Int /\ other[x] \in Int /\ other[y] \in Int
  BY <1>1 DEF KeyBound
<1>3. key[y] < key[x] <=> other[y] < other[x]
  BY <1>2 DEF SameOrder
<1>4. x # y => key[x] # key[y]
  BY <1>2 DEF SameOrder
<1>5. x = y
  BY <1>1, <1>2, <1>3, <1>4
<1> QED
  BY <1>1, <1>5 DEF x, y

\* Keys of the same order pack a court in the same way.
LEMMA SameOrderSamePack ==
    ASSUME NEW q \in Plans, NEW key, NEW max, KeyBound(key, max),
           NEW other, NEW most, KeyBound(other, most), NEW c,
           SameOrder(OnCourt(q, c), key, other), NEW cs, c \in cs, NEW ds, c \in ds
    PROVE  \A o \in OnCourt(q, c) : Repacked(q, cs, key)[o] = Repacked(q, ds, other)[o]
<1> DEFINE S == OnCourt(q, c)
           r == Repacked(q, cs, key)
           t == Repacked(q, ds, other)
           differ == {o \in S : r[o].start # t[o].start}
           bad == {key[o] + 1 : o \in differ}
<1>1. S \in SUBSET Matches /\ \A o \in S : o \in Matches /\ q[o].court = c
  BY DEF OnCourt
<1>2. Restarted(q, r) /\ Restarted(q, t)
  BY RepackedIs
<1>3. \A o \in S : PackedAfter(q, r, key, o) /\ PackedAfter(q, t, other, o)
  BY <1>1, RepackedIs
<1> HIDE DEF r, t
<1>4. \A o \in S : Ahead(q, key, o) \in SUBSET S /\ Ahead(q, key, o) = Ahead(q, other, o)
  BY <1>1 DEF Ahead, SameOrder
<1>5. SameOrder(S, key, other)
  OBVIOUS
<1> HIDE DEF S
<1>6. bad = {}
  <2> SUFFICES ASSUME bad # {} PROVE FALSE
    OBVIOUS
  <2>1. bad \in SUBSET Nat
    BY <1>1 DEF KeyBound
  <2>2. PICK n \in bad : \A k \in bad : n <= k
    <3> HIDE DEF bad
    <3> QED
      BY <2>1, LeastSet
  <2>3. PICK o \in differ : n = key[o] + 1
    OBVIOUS
  <2>4. o \in S /\ r[o].start # t[o].start
    OBVIOUS
  <2>5. Ahead(q, key, o) = Ahead(q, other, o) /\ Ahead(q, key, o) \in SUBSET S
    BY <1>4, <2>4
  <2>6. CASE Ahead(q, key, o) = {}
    BY <1>3, <2>4, <2>5, <2>6 DEF PackedAfter
  <2>7. CASE Ahead(q, key, o) # {}
    <3> DEFINE last == LastOf(key, Ahead(q, key, o))
    <3>1. last \in Ahead(q, key, o) /\ last = LastOf(other, Ahead(q, other, o))
      BY <1>1, <1>5, <2>5, <2>7, SameLast
    <3>2. /\ r[o].start = IF Ahead(q, key, o) = {} \/ q[o].start >= EndOf(r, last) + Break
                          THEN q[o].start ELSE EndOf(r, last) + Break
          /\ t[o].start = IF Ahead(q, key, o) = {} \/ q[o].start >= EndOf(t, last) + Break
                          THEN q[o].start ELSE EndOf(t, last) + Break
      BY <1>3, <2>4, <2>5, <3>1 DEF PackedAfter
    <3> HIDE DEF last
    <3>3. last \in S /\ key[last] < key[o]
      BY <2>5, <3>1 DEF Ahead
    <3>4. ~ (n <= key[last] + 1)
      BY <1>1, <2>3, <2>4, <3>3 DEF KeyBound
    <3>5. last \notin differ
      BY <2>2, <3>4
    <3>6. r[last].start = t[last].start
      BY <3>3, <3>5
    <3>7. EndOf(r, last) = EndOf(t, last)
      BY <1>1, <1>2, <3>3, <3>6 DEF EndOf, Restarted
    <3> QED
      BY <2>4, <3>2, <3>7
  <2> QED
    BY <2>6, <2>7
<1>7. ASSUME NEW o \in S PROVE r[o] = t[o]
  <2>1. r[o].start = t[o].start
    <3> SUFFICES ASSUME o \in differ PROVE FALSE
      OBVIOUS
    <3>1. key[o] + 1 \in bad
      OBVIOUS
    <3> QED
      BY <1>6, <3>1
  <2> QED
    BY <1>1, <1>2, <2>1 DEF Restarted, Plans
<1> QED
  BY <1>7 DEF r, t, S

\* Without m, the places of a court after it move up by one.
LEMMA PlaceWithout ==
    ASSUME NEW p \in Plans, NEW S \in SUBSET Matches, NEW m \in S, NEW o \in S \ {m}
    PROVE  PlaceIn(p, S \ {m}, o) = IF Earlier(p, m, o) THEN PlaceIn(p, S, o) - 1 ELSE PlaceIn(p, S, o)
<1> DEFINE A == {x \in S : Earlier(p, x, o)}
           B == {x \in S \ {m} : Earlier(p, x, o)}
<1>1. A \in SUBSET Matches /\ B = A \ {m} /\ (m \in A <=> Earlier(p, m, o))
  OBVIOUS
<1>2. PlaceIn(p, S \ {m}, o) = Cardinality(B) /\ PlaceIn(p, S, o) = Cardinality(A)
  BY DEF PlaceIn
<1> HIDE DEF A, B
<1>3. IsFiniteSet(A)
  BY <1>1, MatchSetsFinite
<1>4. Cardinality(A \ {m}) = IF m \in A THEN Cardinality(A) - 1 ELSE Cardinality(A)
  BY <1>3, FS_RemoveElement
<1> QED
  BY <1>1, <1>2, <1>4

\* Both keys of the placed match divide the others of its court alike.
LEMMA PlacedAmongOthers ==
    ASSUME NEW p \in Plans, NEW m \in Matches, NEW c \in Courts, NEW i \in Nat,
           i <= Cardinality(OnCourt(p, c)),
           p[m].court = c => i \notin {PositionOf(p, m), PositionOf(p, m) + 1},
           NEW o \in OnCourt(p, c) \ {m}
    PROVE  LET theRest == OnCourt(p, c) \ {m}
               clamped == ClampTo(NewPosition(p, m, c, i), Cardinality(theRest))
           IN /\ clamped \in Nat
              /\ i <= PositionOf(p, o) <=> clamped <= PlaceIn(p, theRest, o)
<1> DEFINE S == OnCourt(p, c)
           theRest == S \ {m}
<1>1. S \in SUBSET Matches /\ o \in S /\ o # m /\ o \in Matches /\ p[o].court = c
  BY DEF OnCourt
<1>2. PositionOf(p, o) = PlaceIn(p, S, o)
  BY <1>1 DEF PositionOf, PlaceIn
<1>3. /\ PositionOf(p, o) \in Nat /\ PositionOf(p, m) \in Nat
      /\ PositionOf(p, o) < Cardinality(S)
  BY <1>1, PositionsOrder
<1>4. /\ IsFiniteSet(S) /\ Cardinality(S) \in Nat
      /\ Cardinality(theRest) = IF m \in S THEN Cardinality(S) - 1 ELSE Cardinality(S)
  BY <1>1, MatchSetsFinite, FS_RemoveElement
<1>5. i <= Cardinality(S)
  OBVIOUS
<1>6. CASE p[m].court # c
  <2>1. m \notin S
    BY <1>6 DEF OnCourt
  <2>2. theRest = S /\ NewPosition(p, m, c, i) = i
    BY <1>6, <2>1 DEF NewPosition
  <2> HIDE DEF S, theRest
  <2>3. ClampTo(NewPosition(p, m, c, i), Cardinality(theRest)) = i
    BY <1>4, <1>5, <2>2 DEF ClampTo
  <2> QED
    BY <1>2, <2>2, <2>3 DEF S, theRest
<1>7. CASE p[m].court = c
  <2>1. m \in S
    BY <1>7 DEF OnCourt
  <2>2. PositionOf(p, m) < Cardinality(S)
    BY <1>7, PositionsOrder
  <2>3. /\ Earlier(p, m, o) <=> PositionOf(p, m) < PositionOf(p, o)
        /\ PositionOf(p, m) # PositionOf(p, o)
    BY <1>1, <1>7, PositionsOrder
  <2>4. PlaceIn(p, theRest, o) = IF Earlier(p, m, o) THEN PlaceIn(p, S, o) - 1 ELSE PlaceIn(p, S, o)
    BY <1>1, <2>1, PlaceWithout
  <2>5. i # PositionOf(p, m) /\ i # PositionOf(p, m) + 1
    BY <1>7
  <2>6. NewPosition(p, m, c, i) = IF i > PositionOf(p, m) + 1 THEN i - 1 ELSE i
    BY <1>7 DEF NewPosition
  <2> HIDE DEF S, theRest
  <2>7. ClampTo(NewPosition(p, m, c, i), Cardinality(theRest)) =
            IF i > PositionOf(p, m) + 1 THEN i - 1 ELSE i
    <3>1. Cardinality(theRest) = Cardinality(S) - 1
      BY <1>4, <2>1
    <3>2. CASE i > PositionOf(p, m) + 1
      BY <1>3, <1>4, <1>5, <2>6, <3>1, <3>2 DEF ClampTo
    <3>3. CASE ~ (i > PositionOf(p, m) + 1)
      <4>1. i < PositionOf(p, m)
        BY <1>3, <2>5, <3>3
      <4> QED
        BY <1>3, <1>4, <2>2, <2>6, <3>1, <3>3, <4>1 DEF ClampTo
    <3> QED
      BY <3>2, <3>3
  <2>8. PlaceIn(p, theRest, o) =
            IF PositionOf(p, m) < PositionOf(p, o) THEN PositionOf(p, o) - 1 ELSE PositionOf(p, o)
    BY <1>2, <2>3, <2>4
  <2>9. /\ ClampTo(NewPosition(p, m, c, i), Cardinality(theRest)) \in Nat
        /\ i <= PositionOf(p, o)
               <=> ClampTo(NewPosition(p, m, c, i), Cardinality(theRest)) <= PlaceIn(p, theRest, o)
    BY <1>3, <2>3, <2>5, <2>7, <2>8
  <2> QED
    BY <2>9 DEF S, theRest
<1> QED
  BY <1>6, <1>7

\* So the two keys order the new court of the match alike.
LEMMA PlacedKeysAgree ==
    ASSUME NEW p \in Plans, NEW m \in Matches, NEW c \in Courts, NEW i \in Nat,
           i <= Cardinality(OnCourt(p, c)),
           p[m].court = c => i \notin {PositionOf(p, m), PositionOf(p, m) + 1},
           NEW a, a.match = m, a.newCourt = c, a.newPosition = NewPosition(p, m, c, i)
    PROVE  SameOrder(OnCourt(Moved(p, m, c), c), PlacedKey(p, m, i, -1), InsertedKey(p, a))
<1> DEFINE S == OnCourt(p, c)
           theRest == S \ {m}
           key == PlacedKey(p, m, i, -1)
           other == InsertedKey(p, a)
           clamped == ClampTo(NewPosition(p, m, c, i), Cardinality(theRest))
<1>1. S \in SUBSET Matches /\ theRest \in SUBSET Matches
      /\ \A o \in theRest : o \in S /\ o \in Matches /\ p[o].court = c /\ o # m
  BY DEF OnCourt
<1>2. \A o \in OnCourt(Moved(p, m, c), c) : o = m \/ o \in theRest
  BY MovedIs DEF OnCourt
<1>3. /\ key[m] = 2 * i - 1
      /\ \A o \in theRest : key[o] = 2 * PositionOf(p, o) /\ PositionOf(p, o) \in Nat
  BY <1>1, PositionsAreKeys DEF PlacedKey
<1>4. /\ other[m] = 2 * clamped - 1
      /\ \A o \in theRest : other[o] = 2 * PlaceIn(p, theRest, o)
  BY <1>1 DEF InsertedKey, PlaceIn
<1>5. \A o \in theRest :
          /\ clamped \in Nat
          /\ i <= PositionOf(p, o) <=> clamped <= PlaceIn(p, theRest, o)
  BY PlacedAmongOthers
<1> HIDE DEF S, theRest, key, other, clamped
<1>6. \A x, y \in theRest :
          /\ PositionOf(p, x) < PositionOf(p, y) <=> Earlier(p, x, y)
          /\ x # y => PositionOf(p, x) # PositionOf(p, y)
          /\ PlaceIn(p, theRest, x) \in Nat
          /\ PlaceIn(p, theRest, x) < PlaceIn(p, theRest, y) <=> Earlier(p, x, y)
  BY <1>1, PositionsOrder, PlacesOrder
<1>7. ASSUME NEW x \in theRest, NEW y \in theRest
      PROVE  key[x] < key[y] <=> other[x] < other[y]
  BY <1>3, <1>4, <1>6
<1>8. ASSUME NEW o \in theRest
      PROVE  /\ key[m] < key[o] <=> other[m] < other[o]
             /\ key[o] < key[m] <=> other[o] < other[m]
             /\ key[m] # key[o]
  <2>1. /\ PositionOf(p, o) \in Nat /\ PlaceIn(p, theRest, o) \in Nat /\ clamped \in Nat
        /\ i <= PositionOf(p, o) <=> clamped <= PlaceIn(p, theRest, o)
    BY <1>3, <1>5, <1>6
  <2>2. key[o] = 2 * PositionOf(p, o) /\ other[o] = 2 * PlaceIn(p, theRest, o)
    BY <1>3, <1>4
  <2> QED
    BY <1>3, <1>4, <2>1, <2>2
<1>9. ASSUME NEW x \in theRest, NEW y \in theRest, x # y PROVE key[x] # key[y]
  BY <1>3, <1>6, <1>9
<1>10. key[m] \in Int /\ ~ (key[m] < key[m])
  BY <1>3
<1>11. ~ (other[m] < other[m])
  <2>1. clamped \in Int
    <3>1. Cardinality(theRest) \in Nat
      BY <1>1, MatchSetsFinite
    <3>2. NewPosition(p, m, c, i) \in Int
      BY DEF NewPosition
    <3> QED
      BY <3>1, <3>2 DEF ClampTo, clamped
  <2> QED
    BY <1>4, <2>1
<1>12. ASSUME NEW x \in OnCourt(Moved(p, m, c), c), NEW y \in OnCourt(Moved(p, m, c), c)
       PROVE  /\ key[x] < key[y] <=> other[x] < other[y]
              /\ x # y => key[x] # key[y]
  BY <1>2, <1>7, <1>8, <1>9, <1>10, <1>11
<1> QED
  BY <1>12 DEF SameOrder, key, other

\* A line tapped for a match ends as the browser shows it at once.
LEMMA PlaceIsForeseen ==
    ASSUME NEW p \in Plans, NEW m \in Matches, NEW c \in Courts, NEW i \in Nat,
           i <= Cardinality(OnCourt(p, c)),
           p[m].court = c => i \notin {PositionOf(p, m), PositionOf(p, m) + 1},
           NEW a, a.match = m, a.newCourt = c, a.newPosition = NewPosition(p, m, c, i),
           NewPosition(p, m, c, i) \in Nat,
           NEW cs, c \in cs, \A d \in cs : ~ShortBreak(p, d)
    PROVE  Repacked(Moved(p, m, c), cs, PlacedKey(p, m, i, -1)) = OptimisticReschedule(p, a)
<1> DEFINE q == Moved(p, m, c)
           key == PlacedKey(p, m, i, -1)
           other == InsertedKey(p, a)
           r == Repacked(q, cs, key)
           t == Repacked(q, {c}, other)
<1>1. OptimisticReschedule(p, a) = t
  BY DEF OptimisticReschedule, Moved
<1>2. q \in Plans /\ q[m].court = c /\ \A x \in Matches \ {m} : q[x] = p[x]
  BY MovedIs
<1>3. KeyBound(key, 2 * Cardinality(Matches) + 2 * i + 1)
  BY <1>2, PlacedKeyFits
<1>4. KeyBound(other, 2 * Cardinality(Matches))
  BY InsertedKeyFits
<1>5. SameOrder(OnCourt(q, c), key, other)
  BY PlacedKeysAgree
<1>6. \A o \in Matches \ {m} : p[o].court # c => r[o] = p[o]
  BY StaysAhead
<1> HIDE DEF q, key, other
<1>7. \A o \in OnCourt(q, c) : r[o] = t[o]
  BY <1>2, <1>3, <1>4, <1>5, SameOrderSamePack
<1>8. r \in Plans /\ t \in Plans /\ \A o \in Matches : q[o].court # c => t[o] = q[o]
  BY <1>2, <1>3, <1>4, RepackedIs DEF Restarted
<1> HIDE DEF r, t
<1>9. ASSUME NEW o \in Matches PROVE r[o] = t[o]
  <2>1. CASE q[o].court = c
    BY <1>7, <2>1 DEF OnCourt
  <2>2. CASE q[o].court # c
    BY <1>2, <1>6, <1>8, <2>2
  <2> QED
    BY <2>1, <2>2
<1>10. r = t
  BY <1>8, <1>9 DEF Plans
<1> QED
  BY <1>1, <1>10 DEF q, key, r

-----------------------------------------------------------------------------
(* Every regular request is foreseen *)

Foreseen(a) == Handle(plan, a).plan = Optimistic(plan, a)

\* A line is not behind the end of its court.
LEMMA LineIsOnCourt ==
    ASSUME NEW p \in Plans, NEW line \in InsertionLines(p)
    PROVE  line[1] \in Courts /\ line[2] \in Nat /\ line[2] <= Cardinality(OnCourt(p, line[1]))
<1>1. /\ line[1] \in Courts
      /\ line[2] \in LockedCount(p, line[1])..Cardinality(OnCourt(p, line[1]))
      /\ line[2] \in 0..Cardinality(Matches)
  BY DEF InsertionLines
<1>2. Cardinality(OnCourt(p, line[1])) \in Nat /\ Cardinality(Matches) \in Nat
  BY MatchSetsFinite DEF OnCourt
<1>3. LockedCount(p, line[1]) \in Nat
  <2>1. {m \in OnCourt(p, line[1]) : Locked(p, m)} \in SUBSET Matches
    BY DEF OnCourt
  <2> QED
    BY <2>1, MatchSetsFinite DEF LockedCount
<1> QED
  BY <1>1, <1>2, <1>3

LEMMA PlaceForeseen ==
    ASSUME plan \in Plans, NEW o \in Offered, Regular(o.action), OffersPlace(o)
    PROVE  Foreseen(o.action)
<1>1. PICK m \in OnGrid(plan), line \in InsertionLines(plan) :
          o.action = PlaceAction(GridRef(plan, m), line[1], line[2])
  BY DEF OffersPlace
<1> DEFINE c == line[1]
           i == line[2]
           a == o.action
<1>2. /\ c \in Courts /\ i \in Nat /\ i <= Cardinality(OnCourt(plan, c))
      /\ m \in Matches /\ plan[m].court \in Courts
  BY LineIsOnCourt DEF OnGrid, Scheduled, Plans
<1>3. a # NoAction
  BY OfferedShapes
<1>4. a = PlaceAction(GridRef(plan, m), c, i)
  BY <1>1
<1> HIDE DEF c, i
<1>5. a = Reschedule(m, plan[m].court, PositionOf(plan, m), c, NewPosition(plan, m, c, i))
  BY <1>2, <1>3, <1>4, PlaceIsReschedule
<1>6. Regular(a)
  OBVIOUS
<1> HIDE DEF a
<1>7. ~ShortBreak(plan, c) /\ ~ShortBreak(plan, plan[m].court)
  BY <1>2, <1>5, <1>6, RegularPlace
<1>8. /\ Handle(plan, a) = Done(Repacked(Moved(plan, m, c), {plan[m].court, c}, PlacedKey(plan, m, i, -1)))
      /\ plan[m].court = c => i \notin {PositionOf(plan, m), PositionOf(plan, m) + 1}
  BY <1>2, <1>3, <1>4, PlaceHandled
<1>9. /\ a.match = m /\ a.newCourt = c /\ a.newPosition = NewPosition(plan, m, c, i)
      /\ Optimistic(plan, a) = OptimisticReschedule(plan, a)
  BY <1>5 DEF Reschedule, Optimistic
<1>10. NewPosition(plan, m, c, i) \in Nat
  <2>1. PositionOf(plan, m) \in Nat
    BY <1>2, PositionsOrder
  <2> QED
    BY <1>2, <2>1 DEF NewPosition
<1>11. \A d \in {plan[m].court, c} : ~ShortBreak(plan, d)
  BY <1>7
<1>12. Repacked(Moved(plan, m, c), {plan[m].court, c}, PlacedKey(plan, m, i, -1)) =
           OptimisticReschedule(plan, a)
  BY <1>2, <1>8, <1>9, <1>10, <1>11, PlaceIsForeseen
<1>13. \A x : Done(x).plan = x
  BY DEF Done
<1>14. Handle(plan, a).plan = Optimistic(plan, a)
  BY <1>8, <1>9, <1>12, <1>13
<1> QED
  BY <1>14 DEF Foreseen, a

LEMMA TrayPlaceForeseen ==
    ASSUME plan \in Plans, NEW o \in Offered, Regular(o.action), OffersTrayPlace(o)
    PROVE  Foreseen(o.action)
<1>1. PICK m \in Matches \ OnGrid(plan), line \in InsertionLines(plan) :
          o.action = PlaceFromTray(m, line[1], line[2])
  BY DEF OffersTrayPlace
<1> DEFINE c == line[1]
           i == line[2]
           a == o.action
<1>2. /\ c \in Courts /\ i \in Nat /\ i <= Cardinality(OnCourt(plan, c))
      /\ m \in Matches /\ ~Scheduled(plan, m) /\ plan[m].court # c
  BY LineIsOnCourt, PackingAssumption DEF OnGrid, Scheduled
<1>4. a = PlaceFromTray(m, c, i)
  BY <1>1
<1>6. Regular(a)
  OBVIOUS
<1> HIDE DEF c, i, a
<1>5. /\ a = Reschedule(m, NoCourt, 0, c, NewPosition(plan, m, c, i))
      /\ Handle(plan, a) = Done(Repacked(Moved(plan, m, c), {c}, PlacedKey(plan, m, i, -1)))
  BY <1>2, <1>4, TrayPlaceHandled
<1>7. ~ShortBreak(plan, c)
  BY <1>2, <1>5, <1>6, RegularPlace
<1>9. /\ a.match = m /\ a.newCourt = c /\ a.newPosition = NewPosition(plan, m, c, i)
      /\ Optimistic(plan, a) = OptimisticReschedule(plan, a)
  BY <1>5 DEF Reschedule, Optimistic
<1>10. NewPosition(plan, m, c, i) \in Nat
  BY <1>2 DEF NewPosition
<1>11. \A d \in {c} : ~ShortBreak(plan, d)
  BY <1>7
<1>12. Repacked(Moved(plan, m, c), {c}, PlacedKey(plan, m, i, -1)) = OptimisticReschedule(plan, a)
  BY <1>2, <1>9, <1>10, <1>11, PlaceIsForeseen
<1>13. \A x : Done(x).plan = x
  BY DEF Done
<1>14. Handle(plan, a).plan = Optimistic(plan, a)
  BY <1>5, <1>9, <1>12, <1>13
<1> QED
  BY <1>14 DEF Foreseen, a

LEMMA SwapForeseen ==
    ASSUME plan \in Plans, NEW o \in Offered, Regular(o.action), Succeeds(o.action), OffersSwap(o)
    PROVE  Foreseen(o.action)
<1>1. PICK a \in Matches, b \in Matches :
          o.action = Swap(a, b) /\ a # b /\ (Scheduled(plan, a) \/ Scheduled(plan, b))
  BY DEF OffersSwap, OnGrid
<1>2. /\ plan[a].minutes = plan[b].minutes
      /\ \A m \in {a, b} : Scheduled(plan, m) => ~ShortBreak(plan, plan[m].court)
  BY <1>1, RegularSwapIs
<1>3. Handle(plan, o.action) = HandleSwap(plan, a, b)
      /\ Optimistic(plan, o.action) = OptimisticSwap(plan, a, b)
  BY <1>1 DEF Handle, Optimistic, Swap
<1>4. HandleSwap(plan, a, b).status = "ok" => HandleSwap(plan, a, b).plan = OptimisticSwap(plan, a, b)
  BY <1>1, <1>2, RegularSwap
<1> QED
  BY <1>3, <1>4 DEF Foreseen, Succeeds

LEMMA OfferForeseen ==
    ASSUME plan \in Plans, NEW o \in Offered, Regular(o.action), Succeeds(o.action)
    PROVE  Foreseen(o.action)
<1>1. CASE OffersUnschedule(o)
  <2>1. PICK m \in OnGrid(plan) : ~Played(plan, m) /\ o.action = Unschedule(m)
    BY <1>1 DEF OffersUnschedule
  <2>2. Handle(plan, o.action).plan = InTray(plan, m)
    BY <2>1 DEF Handle, Unschedule, HandleUnschedule, Done
  <2>3. Optimistic(plan, o.action) = InTray(plan, m)
    BY <2>1 DEF Optimistic, Unschedule
  <2> QED
    BY <2>2, <2>3 DEF Foreseen
<1>2. CASE OffersBreak(o)
  <2>1. PICK m \in BreaksOffered(plan), minutes \in BreakSizes : o.action = ResizeBreak(m, minutes)
    BY <1>2 DEF OffersBreak
  <2>2. Handle(plan, o.action).plan = Resized(plan, m, minutes)
    BY <2>1 DEF BreaksOffered, Handle, ResizeBreak, HandleResizeBreak, Done
  <2>3. Optimistic(plan, o.action) = Resized(plan, m, minutes)
    BY <2>1 DEF BreaksOffered, Optimistic, ResizeBreak
  <2> QED
    BY <2>2, <2>3 DEF Foreseen
<1>3. CASE OffersPlace(o) \/ OffersTrayPlace(o) \/ OffersSwap(o)
  BY <1>3, PlaceForeseen, TrayPlaceForeseen, SwapForeseen
<1> QED
  BY <1>1, <1>2, <1>3, OfferedShapes DEF Offers

\* applyPlanningActions foresees what the server does with every request the grid lets
\* out on a fresh plan, whatever the matches, courts, lengths and break: the keys of
\* insertMatchAt order the new court like the positions the server reads, the court
\* that is left keeps its starts, and so do equals that trade places, where no break
\* has been made shorter than the default.
THEOREM ActionsAreForeseen == DaySpec => []ActionsPredicted
<1>1. PlanTyped => ActionsPredicted
  BY OfferForeseen DEF PlanTyped, ActionsPredicted, Foreseen
<1> QED
  BY <1>1, DayTypedAlways, PTL

-----------------------------------------------------------------------------
(* What a fresh grid asks for is granted *)

LEMMA PlaceAccepted ==
    ASSUME plan \in Plans, NEW o \in Offered, OffersPlace(o) \/ OffersTrayPlace(o)
    PROVE  Succeeds(o.action)
<1>1. \A line \in InsertionLines(plan) : line[1] \in Courts /\ line[2] \in Nat
  BY LineIsOnCourt
<1>2. \A x : Done(x).status = "ok"
  BY DEF Done
<1>3. CASE OffersPlace(o)
  <2>1. PICK m \in OnGrid(plan), line \in InsertionLines(plan) :
            o.action = PlaceAction(GridRef(plan, m), line[1], line[2])
    BY <1>3 DEF OffersPlace
  <2>2. o.action # NoAction
    BY OfferedShapes
  <2>3. Handle(plan, o.action) = Done(Repacked(Moved(plan, m, line[1]), {plan[m].court, line[1]},
                                               PlacedKey(plan, m, line[2], -1)))
    BY <1>1, <2>1, <2>2, PlaceHandled
  <2> QED
    BY <1>2, <2>3 DEF Succeeds
<1>4. CASE OffersTrayPlace(o)
  <2>1. PICK m \in Matches \ OnGrid(plan), line \in InsertionLines(plan) :
            o.action = PlaceFromTray(m, line[1], line[2])
    BY <1>4 DEF OffersTrayPlace
  <2>2. m \in Matches /\ ~Scheduled(plan, m)
    BY DEF OnGrid
  <2>3. Handle(plan, o.action) =
            Done(Repacked(Moved(plan, m, line[1]), {line[1]}, PlacedKey(plan, m, line[2], -1)))
    BY <1>1, <2>1, <2>2, TrayPlaceHandled
  <2> QED
    BY <1>2, <2>3 DEF Succeeds
<1> QED
  BY <1>3, <1>4

\* Of a swap the server only minds a played match that would go to the tray.
LEMMA SwapAccepted ==
    ASSUME plan \in Plans, NEW o \in Offered, OffersSwap(o)
    PROVE  \/ Succeeds(o.action)
           \/ o.action.type = "swap" /\ \E m \in {o.action.match, o.action.other} : Played(plan, m)
<1>1. PICK a \in Matches, b \in Matches :
          o.action = Swap(a, b) /\ a # b /\ (Scheduled(plan, a) \/ Scheduled(plan, b))
  BY DEF OffersSwap, OnGrid
<1>2. o.action.type = "swap" /\ o.action.match = a /\ o.action.other = b
  BY <1>1 DEF Swap
<1>3. Handle(plan, o.action) = HandleSwap(plan, a, b)
  BY <1>2 DEF Handle
<1>4. /\ \A x : Done(x).status = "ok"
      /\ \/ \E x : HandleSwap(plan, a, b) = Done(x)
         \/ Played(plan, IF Scheduled(plan, a) THEN a ELSE b)
  <2>1. CASE Scheduled(plan, a) /\ Scheduled(plan, b)
    BY <1>1, <2>1 DEF HandleSwap, Done
  <2>2. CASE ~(Scheduled(plan, a) /\ Scheduled(plan, b))
    BY <1>1, <2>2 DEF HandleSwap, Done
  <2> QED
    BY <2>1, <2>2 DEF Done
<1> QED
  BY <1>2, <1>3, <1>4 DEF Succeeds

\* A request made on a fresh grid is never turned down, except for a swap that would send
\* a played match to the tray: the place a match is moved from is the one it has, a break
\* is one on the grid, and the button that unschedules is not offered for what was played.
THEOREM FreshRequestsAreAccepted == DaySpec => []FreshRequestsAccepted
<1>1. ASSUME plan \in Plans, NEW o \in Offered, ~Succeeds(o.action)
      PROVE  o.action.type = "swap" /\ \E m \in {o.action.match, o.action.other} : Played(plan, m)
  <2>1. CASE OffersUnschedule(o)
    <3>1. PICK m \in OnGrid(plan) : ~Played(plan, m) /\ o.action = Unschedule(m)
      BY <2>1 DEF OffersUnschedule
    <3>2. Handle(plan, o.action).status = "ok"
      BY <3>1 DEF Handle, Unschedule, HandleUnschedule, Done
    <3> QED
      BY <1>1, <3>2 DEF Succeeds
  <2>2. CASE OffersBreak(o)
    <3>1. PICK m \in BreaksOffered(plan), minutes \in BreakSizes : o.action = ResizeBreak(m, minutes)
      BY <2>2 DEF OffersBreak
    <3>2. Handle(plan, o.action).status = "ok"
      BY <3>1 DEF BreaksOffered, Handle, ResizeBreak, HandleResizeBreak, Done
    <3> QED
      BY <1>1, <3>2 DEF Succeeds
  <2>3. CASE OffersPlace(o) \/ OffersTrayPlace(o)
    BY <1>1, <2>3, PlaceAccepted
  <2>4. CASE OffersSwap(o)
    BY <1>1, <2>4, SwapAccepted
  <2> QED
    BY <1>1, <2>1, <2>2, <2>3, <2>4, OfferedShapes DEF Offers
<1>2. PlanTyped => FreshRequestsAccepted
  BY <1>1 DEF PlanTyped, FreshRequestsAccepted, Succeeds
<1> QED
  BY <1>2, DayTypedAlways, PTL

-----------------------------------------------------------------------------
(* The preview asks the selection the same as the tap does *)

\* What a step asks for in the preview, at once or behind a confirmation.
LEMMA PendingOfChoice ==
    ASSUME NEW previous, NEW moved, NEW targets, NEW action
    PROVE  PendingAction(ConfirmOrPerform(previous, moved, targets, action)) = action
<1>1. CASE action # NoAction /\ NeedsMoveConfirmation(moved, targets)
  <2> DEFINE sel == ConfirmMove(previous, action)
  <2>1. ConfirmOrPerform(previous, moved, targets, action) = Step(sel, NoAction)
    BY <1>1 DEF ConfirmOrPerform, Stay
  <2>2. sel.kind = "confirm-move" /\ sel.action = action
    BY DEF ConfirmMove
  <2> HIDE DEF sel
  <2>3. Step(sel, NoAction).sel = sel
    BY DEF Step
  <2> QED
    BY <2>1, <2>2, <2>3 DEF PendingAction
<1>2. CASE ~ (action # NoAction /\ NeedsMoveConfirmation(moved, targets))
  <2>1. ConfirmOrPerform(previous, moved, targets, action) = Step(Idle, action)
    BY <1>2 DEF ConfirmOrPerform
  <2> QED
    BY <2>1 DEF PendingAction, Step, Idle
<1> QED
  BY <1>1, <1>2

LEMMA PendingOfStep ==
    ASSUME NEW sel, NEW action, sel.kind # "confirm-move"
    PROVE  PendingAction(Step(sel, action)) = action
BY DEF PendingAction, Step

\* Whether the tapped match was played or is locked changes nothing of what is asked for.
LEMMA TapAsPreviewed ==
    ASSUME plan \in Plans, NEW sel \in Selections, NEW tap, NEW plain,
           \/ \E x \in OnGrid(plan) : tap = TapMatch(GridRef(plan, x)) /\ plain = TapMatch(PlainRef(plan, x))
           \/ \E line \in InsertionLines(plan) : tap = TapLine(line[1], line[2]) /\ plain = tap
    PROVE  PendingAction(SelectionReducer(sel, plain, "move")) = TapOutcome(sel, "move", tap).action
<1>1. Tapped(tap)
  <2>1. \A line \in InsertionLines(plan) : line[1] \in Courts /\ line[2] \in Nat
    BY MatchSetsFinite DEF InsertionLines
  <2> QED
    BY <2>1, GridRefIsDrawn DEF Tapped
<1>2. TapOutcome(sel, "move", tap) = Outcome(SelectionReducer(sel, tap, "move"))
  BY <1>1, TapOutcomeIs
<1>3. ASSUME NEW previous, NEW moved, NEW targets, NEW plainTargets, NEW action,
             SelectionReducer(sel, tap, "move") = ConfirmOrPerform(previous, moved, targets, action),
             SelectionReducer(sel, plain, "move") = ConfirmOrPerform(previous, moved, plainTargets, action)
      PROVE  PendingAction(SelectionReducer(sel, plain, "move")) = TapOutcome(sel, "move", tap).action
  BY <1>2, <1>3, PendingOfChoice, OutcomeOfChoice
<1>4. ASSUME NEW action,
             SelectionReducer(sel, tap, "move") = Step(Idle, action),
             SelectionReducer(sel, plain, "move") = Step(Idle, action)
      PROVE  PendingAction(SelectionReducer(sel, plain, "move")) = TapOutcome(sel, "move", tap).action
  <2>1. Idle.kind # "confirm-move"
    BY DEF Idle
  <2>2. Outcome(Step(Idle, action)).action = action
    BY <2>1, OutcomeOfStep
  <2> QED
    BY <1>2, <1>4, <2>1, <2>2, PendingOfStep
<1>5. ASSUME NEW x \in OnGrid(plan), tap = TapMatch(GridRef(plan, x)), plain = TapMatch(PlainRef(plan, x))
      PROVE  PendingAction(SelectionReducer(sel, plain, "move")) = TapOutcome(sel, "move", tap).action
  <2> DEFINE drawn == GridRef(plan, x)
             bare == PlainRef(plan, x)
  <2>1. drawn.id = x /\ bare.id = x
    BY DEF GridRef, PlainRef
  <2> HIDE DEF drawn, bare
  <2>2. /\ tap.type = "tap-match" /\ tap.match = drawn /\ plain.type = "tap-match" /\ plain.match = bare
    BY <1>5 DEF TapMatch, drawn, bare
  <2>3. ASSUME NEW m \in OnGrid(plan), sel = MatchSelected(GridRef(plan, m))
        PROVE  PendingAction(SelectionReducer(sel, plain, "move")) = TapOutcome(sel, "move", tap).action
    <3>1. sel.kind = "match-selected" /\ sel.match.id = m
      BY <2>3 DEF MatchSelected, GridRef
    <3>2. CASE x = m
      <4>1. SelectionReducer(sel, tap, "move") = Step(Idle, NoAction)
            /\ SelectionReducer(sel, plain, "move") = Step(Idle, NoAction)
        BY <2>1, <2>2, <3>1, <3>2 DEF SelectionReducer, FromMatch, Stay
      <4> QED
        BY <1>4, <4>1
    <3>3. CASE x # m
      <4>1. /\ SelectionReducer(sel, tap, "move") = ConfirmOrPerform(sel, sel.match, {drawn}, Swap(m, x))
            /\ SelectionReducer(sel, plain, "move") = ConfirmOrPerform(sel, sel.match, {bare}, Swap(m, x))
        BY <2>1, <2>2, <3>1, <3>3 DEF SelectionReducer, FromMatch
      <4> QED
        BY <1>3, <4>1
    <3> QED
      BY <3>2, <3>3
  <2>4. ASSUME NEW m \in Matches \ OnGrid(plan), sel = TraySelected(m)
        PROVE  PendingAction(SelectionReducer(sel, plain, "move")) = TapOutcome(sel, "move", tap).action
    <3>1. sel.kind = "tray-match-selected" /\ sel.matchId = m
      BY <2>4 DEF TraySelected
    <3>2. /\ SelectionReducer(sel, tap, "move") = ConfirmOrPerform(sel, Loose, {drawn}, Swap(m, x))
          /\ SelectionReducer(sel, plain, "move") = ConfirmOrPerform(sel, Loose, {bare}, Swap(m, x))
      BY <2>1, <2>2, <3>1 DEF SelectionReducer, FromTray
    <3> QED
      BY <1>3, <3>2
  <2> QED
    BY <2>3, <2>4 DEF Selections
<1>6. ASSUME NEW line \in InsertionLines(plan), tap = TapLine(line[1], line[2]), plain = tap
      PROVE  PendingAction(SelectionReducer(sel, plain, "move")) = TapOutcome(sel, "move", tap).action
  <2>1. tap.type = "tap-insertion-line" /\ tap.court = line[1] /\ tap.index = line[2]
    BY <1>6 DEF TapLine
  <2>2. ASSUME NEW m \in OnGrid(plan), sel = MatchSelected(GridRef(plan, m))
        PROVE  PendingAction(SelectionReducer(sel, plain, "move")) = TapOutcome(sel, "move", tap).action
    <3>1. sel.kind = "match-selected"
      BY <2>2 DEF MatchSelected
    <3>2. SelectionReducer(sel, tap, "move") =
              ConfirmOrPerform(sel, sel.match, {}, PlaceAction(sel.match, tap.court, tap.index))
      BY <2>1, <3>1 DEF SelectionReducer, FromMatch
    <3> QED
      BY <1>3, <1>6, <3>2
  <2>3. ASSUME NEW m \in Matches \ OnGrid(plan), sel = TraySelected(m)
        PROVE  PendingAction(SelectionReducer(sel, plain, "move")) = TapOutcome(sel, "move", tap).action
    <3>1. sel.kind = "tray-match-selected"
      BY <2>3 DEF TraySelected
    <3>2. SelectionReducer(sel, tap, "move") =
              Step(Idle, PlaceFromTray(sel.matchId, tap.court, tap.index))
      BY <2>1, <3>1 DEF SelectionReducer, FromTray
    <3> QED
      BY <1>4, <1>6, <3>2
  <2> QED
    BY <2>2, <2>3 DEF Selections
<1> QED
  BY <1>5, <1>6

\* What a tap on the grid lets out is offered.
LEMMA TapIsOffered ==
    ASSUME NEW sel \in Selections, NEW tap \in GridTaps(plan, sel, {}),
           TapOutcome(sel, "move", tap).action # NoAction
    PROVE  TapOutcome(sel, "move", tap) \in Offered
<1>1. tap \in GridTaps(plan, sel, BreakSizes)
  BY DEF GridTaps
<1>2. TapOutcome(sel, "move", tap) \in TapOutcomes(sel, "move", BreakSizes)
  BY <1>1 DEF TapOutcomes
<1>3. TapOutcome(sel, "move", tap) \in (UNION {TapOutcomes(s, "move", BreakSizes) : s \in Selections \cup {Idle}})
  BY <1>2
<1> QED
  BY <1>3 DEF Offered

\* A line or card is drawn as causing a conflict exactly when the request it lets out
\* gives some match a flag it did not have, for the requests foreseen: the preview
\* (actionsIntroduceConflict) asks the reducer the same as the tap, confirmed or not.
THEOREM PreviewAlwaysMatches == DaySpec => []PreviewMatchesOutcome
<1> DEFINE Plain(tap) == IF tap.type = "tap-match" THEN TapMatch(PlainRef(plan, tap.match.id)) ELSE tap
           candidates == {TapLine(line[1], line[2]) : line \in InsertionLines(plan)}
                         \cup {TapMatch(PlainRef(plan, m)) : m \in OnGrid(plan)}
<1>1. ASSUME plan \in Plans, NEW sel \in Selections, NEW tap \in GridTaps(plan, sel, {}),
             tap.type # "tap-tray-match",
             TapOutcome(sel, "move", tap).action # NoAction,
             Regular(TapOutcome(sel, "move", tap).action), Succeeds(TapOutcome(sel, "move", tap).action)
      PROVE  Plain(tap) \in ConflictPreview(plan, sel)
                 <=> AddsFlags(plan, ConflictFlags(plan), Handle(plan, TapOutcome(sel, "move", tap).action).plan)
  <2> DEFINE a == TapOutcome(sel, "move", tap).action
             plain == Plain(tap)
  <2>1. sel.kind \in {"match-selected", "tray-match-selected"}
    BY DEF Selections, MatchSelected, TraySelected
  <2>2. \/ \E x \in OnGrid(plan) : tap = TapMatch(GridRef(plan, x))
        \/ \E line \in InsertionLines(plan) : tap = TapLine(line[1], line[2])
    BY <1>1, <2>1 DEF GridTaps, TapTray
  <2>3. \/ \E x \in OnGrid(plan) : tap = TapMatch(GridRef(plan, x)) /\ plain = TapMatch(PlainRef(plan, x))
        \/ \E line \in InsertionLines(plan) : tap = TapLine(line[1], line[2]) /\ plain = tap
    BY <2>2 DEF TapMatch, TapLine, GridRef
  <2>4. plain \in candidates
    BY <2>3
  <2> HIDE DEF plain
  <2>5. PendingAction(SelectionReducer(sel, plain, "move")) = a
    BY <1>1, <2>3, TapAsPreviewed
  <2>6. TapOutcome(sel, "move", tap) \in Offered
    BY <1>1, TapIsOffered
  <2>7. Handle(plan, a).plan = Optimistic(plan, a)
    BY <1>1, <2>6, OfferForeseen DEF Foreseen
  <2>8. a # NoAction
    BY <1>1
  <2> HIDE DEF a
  <2>9. IntroducesConflict(plan, ConflictFlags(plan), a) <=> AddsFlags(plan, ConflictFlags(plan), Handle(plan, a).plan)
    BY <2>7, <2>8 DEF IntroducesConflict
  <2>10. plain \in ConflictPreview(plan, sel) <=> IntroducesConflict(plan, ConflictFlags(plan), a)
    BY <2>1, <2>4, <2>5 DEF ConflictPreview
  <2> QED
    BY <2>9, <2>10 DEF a, plain
<1>2. PlanTyped => PreviewMatchesOutcome
  BY <1>1 DEF PlanTyped, PreviewMatchesOutcome
<1> QED
  BY <1>2, DayTypedAlways, PTL

=============================================================================
