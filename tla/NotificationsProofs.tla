------------------------- MODULE NotificationsProofs -------------------------
(* Theorems about Notifications, for any numbers of tabs and runs, any timing and *)
(* any bounds, in a browser that has Web Locks. *)
EXTENDS Notifications, FiniteSetTheorems, WellFoundedInduction, TLAPS

USE DEF Goto
-----------------------------------------------------------------------------
(* Types *)

LEMMA IterateType ==
    ASSUME TypeOK, NEW t \in Tab, Iterate(t)
    PROVE  /\ pc' \in [Tab -> LoopState] /\ timer' \in [Tab -> Int]
           /\ claimedAt' \in [Tab -> Nat]
BY NumbersAssumption DEF TypeOK, Iterate, LoopState, Midway, LastTime

LEMMA LoopType ==
    ASSUME TypeOK, LoopKept, NEW t \in Tab,
           Look(t) \/ Claim(t) \/ Sign(t) \/ Settle(t) \/ Gather(t) \/ Answer(t) \/ Receive(t)
           \/ StartTelling(t) \/ Tell(t) \/ EndLoop(t) \/ FetchFails(t)
    PROVE  TypeOK'
<1>0. CASE Look(t) \/ Settle(t)
    BY <1>0, IterateType DEF TypeOK, Look, Settle, storage, server, history, LoopState, Midway
<1>1. CASE Claim(t) \/ Sign(t)
    BY <1>1, NumbersAssumption DEF TypeOK, Claim, Sign, server, history, LoopState, Midway
<1>2. CASE Gather(t)
    BY <1>2 DEF TypeOK, Gather, storage, server, history, RunsOf, Subscription, LoopState
<1>3. CASE Answer(t)
    <2>1. PICK answer \in Limited({e \in log : e.run \in asked[t]}) :
            /\ json' = [json EXCEPT ![t] = answer]
            /\ cut' = cut \cup ({e \in log : e.run \in asked[t]} \ answer)
        BY <1>3 DEF Answer
    <2>2. answer \subseteq log
        BY DEF Limited
    <2> QED
        BY <1>3, <2>1, <2>2 DEF TypeOK, Answer, storage, server, LoopState
<1>4. CASE Receive(t)
    BY <1>4 DEF TypeOK, Receive, storage, server, history, LoopState
<1>5. CASE StartTelling(t)
    BY <1>5 DEF TypeOK, StartTelling, storage, server, history, LoopState
<1>6. CASE Tell(t)
    <2>1. telling[t] \in Notice
        BY <1>6 DEF Tell, At, LoopKept, TypeOK
    <2> QED
        BY <1>6, <2>1 DEF TypeOK, Tell, storage, server, LoopState
<1>7. CASE EndLoop(t)
    BY <1>7 DEF TypeOK, EndLoop, storage, server, history, LoopState, Midway
<1>8. CASE FetchFails(t)
    BY <1>8, IterateType DEF TypeOK, FetchFails, storage, server, history
<1> QED
    BY <1>0, <1>1, <1>2, <1>3, <1>4, <1>5, <1>6, <1>7, <1>8

LEMMA PurgeType ==
    ASSUME TypeOK, NEW t \in Tab,
           MarkPurge(t) \/ Suspect(t) \/ ActiveRuns(t) \/ Check(t) \/ EndPurge(t)
    PROVE  TypeOK'
<1>0. CASE MarkPurge(t) \/ Suspect(t)
    BY <1>0 DEF TypeOK, MarkPurge, Suspect, storage, server, history, LoopState, Midway
<1>1. CASE ActiveRuns(t)
    BY <1>1 DEF TypeOK, ActiveRuns, NextCheck, storage, server, history, LoopState
<1>2. CASE Check(t)
    BY <1>2 DEF TypeOK, Check, NextCheck, storage, server, history, LoopState
<1>3. CASE EndPurge(t)
    BY <1>3, IterateType DEF TypeOK, EndPurge, storage, server, history
<1> QED
    BY <1>0, <1>1, <1>2, <1>3

LEMMA SectionType ==
    ASSUME TypeOK, NEW t \in Tab,
           EnterEvent(t) \/ EnterPurge(t) \/ EnterClick(t)
    PROVE  TypeOK'
<1>1. CASE EnterEvent(t)
    BY <1>1 DEF TypeOK, EnterEvent, Enter, storage, server, loop, history, Section, Event
<1>2. CASE EnterPurge(t)
    BY <1>2 DEF TypeOK, EnterPurge, Enter, storage, server, loop, history, Section, Subscription
<1>3. CASE EnterClick(t)
    BY <1>3 DEF TypeOK, EnterClick, Enter, storage, server, loop, history, Section, Click
<1> QED
    BY <1>1, <1>2, <1>3

LEMMA LeaveType ==
    ASSUME TypeOK, SectionsKept, NEW t \in Tab, LeaveStep(t)
    PROVE  TypeOK'
<1>0. ASSUME section[t] # None PROVE section[t] \in Section
    BY <1>0 DEF TypeOK
<1>1. CASE LeaveFollow(t)
    BY <1>0, <1>1 DEF TypeOK, LeaveFollow, server, loop, Section, Subscription, Dropped, LastTime
<1>2. CASE LeaveUnfollow(t)
    <2> DEFINE removed == Matching(section[t].copy, section[t].run, section[t].ts)
    <2>1. section[t] # None /\ section[t] \in Section /\ removed \subseteq Subscription
        BY <1>0, <1>2 DEF LeaveUnfollow, Section, Matching
    <2>2. section[t].by = "event" /\ section[t].event # None =>
            {[event |-> section[t].event, sub |-> s] : s \in removed} \subseteq Notice
        BY <2>1 DEF Section, Notice
    <2>3. section[t].by = "event" => section[t].event # None
        BY <2>1, NoneAssumption DEF SectionsKept, TypeOK
    <2>4. followed' \subseteq Subscription
        BY <1>2, <2>1 DEF LeaveUnfollow, Section, TypeOK
    <2> HIDE DEF removed
    <2>5. /\ json' \in [Tab -> SUBSET Event] /\ work' \in [Tab -> SUBSET Notice]
          /\ stale' \in [Tab -> SUBSET Subscription] /\ ended' \in SUBSET Subscription
          /\ click' \in [Tab -> Click \cup {None}]
        BY <1>2, <2>1, <2>2, <2>3 DEF LeaveUnfollow, TypeOK, removed
    <2> QED
        BY <1>2, <2>4, <2>5 DEF LeaveUnfollow, TypeOK, server
<1> QED
    BY <1>1, <1>2 DEF LeaveStep

LEMMA UserType ==
    ASSUME TypeOK, NEW t \in Tab, UserStep(t)
    PROVE  TypeOK'
<1>1. CASE \E r \in Run : Follow(t, r) \/ Unfollow(t, r)
    BY <1>1 DEF TypeOK, Follow, Unfollow, Clicked, storage, server, loop, history, Click
<1>2. CASE Close(t)
    <2>1. InHand(t) \subseteq Subscription
        BY DEF TypeOK, InHand, Prepared, Notice
    <2> QED
        BY <1>2, <2>1 DEF TypeOK, Close, storage, server, LoopState
<1>3. CASE Open(t)
    BY <1>3, NumbersAssumption DEF TypeOK, Open, storage, server, history, LoopState
<1> QED
    BY <1>1, <1>2, <1>3 DEF UserStep

LEMMA LoggedType ==
    ASSUME TypeOK, NEW r \in Run, Logged(r)
    PROVE  log' \in SUBSET Event
<1>1. [run |-> r, time |-> now] \in Event
    <2>1. now \in Nat
        BY NumbersAssumption DEF TypeOK, LastTime
    <2> QED
        BY <2>1 DEF Event
<1> QED
    BY <1>1 DEF TypeOK, Logged

LEMMA ServerType ==
    ASSUME TypeOK, ServerStep \/ Tick \/ Hibernate
    PROVE  TypeOK'
<1>1. CASE ServerStep
    <2>1. PICK r \in Run : End(r) \/ LogEnd(r) \/ RefuseStop(r) \/ Restart(r)
        BY <1>1 DEF ServerStep
    <2> QED
        BY <2>1, LoggedType DEF TypeOK, End, LogEnd, RefuseStop, Restart, ServerOnly, storage,
           loop, history
<1>2. CASE Tick \/ Hibernate
    <2>1. PICK d \in Nat : Pass(d)
        BY <1>2, NumbersAssumption DEF Tick, Hibernate
    <2> QED
        BY <2>1, NumbersAssumption DEF TypeOK, Pass, server, history, LastTime
<1> QED
    BY <1>1, <1>2

LEMMA TypeStep ==
    ASSUME TypeOK, LoopKept, SectionsKept, [Next]_vars
    PROVE  TypeOK'
<1>1. CASE UNCHANGED vars
    BY <1>1 DEF TypeOK, vars, storage, server, loop, history
<1>2. CASE Next
    BY <1>2, LoopType, PurgeType, SectionType, LeaveType, UserType, ServerType
    DEF Next, LoopStep
<1> QED
    BY <1>1, <1>2
-----------------------------------------------------------------------------
(* The steps that leave the subscriptions where they are *)

places == <<followed, work, telling, noticed, ended, nextId>>

\* Only handlers that write the list, the telling of news and closing a tab move one.
LEMMA QuietStep ==
    ASSUME [Next]_vars,
           \A t \in Tab : ~(LeaveStep(t) \/ StartTelling(t) \/ Tell(t) \/ Close(t))
    PROVE  UNCHANGED places
<1> USE DEF places, storage, server, loop, history
<1>1. CASE UNCHANGED vars
    BY <1>1 DEF vars
<1>2. ASSUME NEW t \in Tab,
             LoopStep(t) \/ FetchFails(t) \/ EnterClick(t) \/ UserStep(t),
             ~(StartTelling(t) \/ Tell(t) \/ Close(t))
      PROVE  UNCHANGED places
    <2>0. CASE Look(t) \/ Claim(t) \/ Sign(t) \/ Settle(t) \/ Gather(t)
        BY <2>0 DEF Look, Claim, Sign, Settle, Gather
    <2>1. CASE Answer(t) \/ Receive(t) \/ FetchFails(t)
        BY <2>1 DEF Answer, Receive, FetchFails
    <2>2. CASE EnterEvent(t) \/ EnterPurge(t) \/ EnterClick(t)
        BY <2>2 DEF EnterEvent, EnterPurge, EnterClick, Enter
    <2>3. CASE EndLoop(t) \/ MarkPurge(t) \/ Suspect(t) \/ ActiveRuns(t) \/ Check(t)
               \/ EndPurge(t)
        BY <2>3 DEF EndLoop, MarkPurge, Suspect, ActiveRuns, Check, NextCheck, EndPurge
    <2>4. CASE UserStep(t)
        BY <1>2, <2>4 DEF UserStep, Follow, Unfollow, Clicked, Open
    <2> QED
        BY <1>2, <2>0, <2>1, <2>2, <2>3, <2>4 DEF LoopStep
<1>3. CASE ServerStep
    BY <1>3 DEF ServerStep, End, LogEnd, RefuseStop, Restart, ServerOnly
<1>4. CASE Tick \/ Hibernate
    BY <1>4 DEF Tick, Hibernate, Pass
<1> QED
    BY <1>1, <1>2, <1>3, <1>4 DEF Next

Placement == ListKept /\ OnePlace /\ NumbersKept /\ NoneLost

LEMMA InPlaced ==
    ASSUME NEW s
    PROVE  s \in Placed <=>
            s \in followed \/ s \in Told \/ s \in ended \/ \E u \in Tab : s \in InHand(u)
BY DEF Placed

LEMMA QuietPlacement ==
    ASSUME Placement, UNCHANGED places
    PROVE  Placement'
<1>1. \A t \in Tab : Prepared(t)' = Prepared(t) /\ InHand(t)' = InHand(t)
    BY DEF places, Prepared, InHand
<1>2. Told' = Told /\ Placed' = Placed
    BY <1>1 DEF places, Told, Placed
<1>3. ListKept' /\ NumbersKept' /\ NoneLost'
    BY <1>2 DEF Placement, places, ListKept, NumbersKept, NoneLost
<1>4. OnePlace'
    BY <1>1, <1>2 DEF Placement, places, OnePlace
<1> QED
    BY <1>3, <1>4 DEF Placement

(* Telling the news of a run moves its subscription from tab to user. *)

LEMMA StartTellingPlacement ==
    ASSUME TypeOK, LoopKept, Placement, NEW t \in Tab, StartTelling(t)
    PROVE  Placement'
<1>1. PICK w \in work[t] :
        telling' = [telling EXCEPT ![t] = w] /\ work' = [work EXCEPT ![t] = @ \ {w}]
    BY DEF StartTelling
<1>2. telling[t] = None
    BY DEF StartTelling, At, LoopKept
<1>3. w # None
    BY NoneAssumption DEF TypeOK
<1>4. \A u \in Tab : Prepared(u)' = Prepared(u)
    BY <1>1, <1>2, <1>3 DEF TypeOK, Prepared
<1>5. \A u \in Tab : InHand(u)' = InHand(u)
    BY <1>4 DEF InHand
<1>6. UNCHANGED <<followed, noticed, ended, nextId>>
    BY DEF StartTelling, storage, history
<1>7. Told' = Told /\ Placed' = Placed
    BY <1>5, <1>6 DEF Told, Placed
<1>8. ListKept' /\ NumbersKept' /\ NoneLost'
    BY <1>6, <1>7 DEF Placement, ListKept, NumbersKept, NoneLost
<1>9. \A u \in Tab : telling'[u] \notin work'[u]
    BY <1>1, <1>3 DEF TypeOK, Placement, OnePlace
<1>10. OnePlace'
    BY <1>4, <1>5, <1>6, <1>7, <1>9 DEF Placement, OnePlace
<1> QED
    BY <1>8, <1>10 DEF Placement

LEMMA TellPlacement ==
    ASSUME TypeOK, LoopKept, Placement, NEW t \in Tab, Tell(t)
    PROVE  Placement'
<1> DEFINE w == telling[t]
<1>1. w # None /\ w \in Notice
    BY DEF Tell, At, LoopKept, TypeOK
<1>2. UNCHANGED <<followed, work, ended, nextId>> /\ noticed' = noticed \cup {w}
    BY DEF Tell, storage
<1>3. telling' = [telling EXCEPT ![t] = None]
    BY DEF Tell
<1>4. Told' = Told \cup {w.sub}
    BY <1>2 DEF Told
<1>5. \A u \in Tab \ {t} : Prepared(u)' = Prepared(u) /\ InHand(u)' = InHand(u)
    BY <1>2, <1>3 DEF TypeOK, Prepared, InHand
<1>6. Prepared(t)' = work[t] /\ Prepared(t) = work[t] \cup {w}
    BY <1>1, <1>2, <1>3 DEF TypeOK, Prepared
<1>7. InHand(t) = InHand(t)' \cup {w.sub}
    BY <1>6 DEF InHand
<1>8. w.sub \notin InHand(t)'
    <2>1. \A m \in work[t] : m.sub # w.sub
        BY <1>6 DEF Placement, OnePlace, OneNotice
    <2> QED
        BY <1>6, <2>1 DEF InHand
<1>9. Placed' = Placed
    <2>1. \A s : s \in Placed' <=>
            s \in followed' \/ s \in Told' \/ s \in ended' \/ \E u \in Tab : s \in InHand(u)'
        BY DEF Placed
    <2>2. \A s : s \in Placed' <=> s \in Placed
        BY <1>2, <1>4, <1>5, <1>7, <2>1, InPlaced
    <2> QED
        BY <2>2
<1>10. ListKept' /\ NumbersKept' /\ NoneLost'
    BY <1>2, <1>9 DEF Placement, ListKept, NumbersKept, NoneLost
<1>11. OnePlace'
    <2>0. w.sub \in InHand(t) /\ \A n \in noticed : n.sub \in Told
        BY <1>7 DEF Told
    <2>1. \A u, v \in Tab : u # v => InHand(u)' \cap InHand(v)' = {}
        BY <1>5, <1>7 DEF Placement, OnePlace
    <2>2. \A u \in Tab : InHand(u)' \cap (followed' \cup Told' \cup ended') = {}
        BY <1>2, <1>4, <1>5, <1>7, <1>8, <2>0 DEF Placement, OnePlace
    <2>3. followed' \cap (Told' \cup ended') = {} /\ Told' \cap ended' = {}
        BY <1>2, <1>4, <2>0 DEF Placement, OnePlace
    <2>4. \A u \in Tab : telling'[u] \notin work'[u]
        BY <1>2, <1>3, NoneAssumption DEF Placement, OnePlace, TypeOK
    <2>5. \A u \in Tab : OneNotice(Prepared(u)')
        BY <1>5, <1>6 DEF Placement, OnePlace, OneNotice
    <2>6. OneNotice(noticed')
        BY <1>2, <2>0 DEF Placement, OnePlace, OneNotice
    <2> QED
        BY <2>1, <2>2, <2>3, <2>4, <2>5, <2>6 DEF OnePlace, OneNotice
<1> QED
    BY <1>10, <1>11 DEF Placement

LEMMA ClosePlacement ==
    ASSUME TypeOK, LoopKept, Placement, NEW t \in Tab, Close(t)
    PROVE  Placement'
<1>1. UNCHANGED <<followed, noticed, nextId>> /\ ended' = ended \cup InHand(t)
    BY DEF Close, storage
<1>2. work' = [work EXCEPT ![t] = {}] /\ telling' = [telling EXCEPT ![t] = None]
    BY DEF Close
<1>3. Told' = Told
    BY <1>1 DEF Told
<1>4. Prepared(t)' = {} /\ InHand(t)' = {}
    BY <1>2 DEF TypeOK, Prepared, InHand
<1>5. \A u \in Tab \ {t} : Prepared(u)' = Prepared(u) /\ InHand(u)' = InHand(u)
    BY <1>2 DEF TypeOK, Prepared, InHand
<1>6. Placed' = Placed
    <2>1. \A s : s \in Placed' <=>
            s \in followed' \/ s \in Told' \/ s \in ended' \/ \E u \in Tab : s \in InHand(u)'
        BY DEF Placed
    <2>2. \A s : s \in Placed' <=> s \in Placed
        BY <1>1, <1>3, <1>4, <1>5, <2>1, InPlaced
    <2> QED
        BY <2>2
<1>7. ListKept' /\ NumbersKept' /\ NoneLost'
    BY <1>1, <1>6 DEF Placement, ListKept, NumbersKept, NoneLost
<1>8. OnePlace'
    <2>1. \A u \in Tab : telling'[u] \notin work'[u]
        BY <1>2 DEF Placement, OnePlace, TypeOK
    <2>2. \A u \in Tab : OneNotice(Prepared(u)')
        BY <1>4, <1>5 DEF Placement, OnePlace, OneNotice
    <2>3. \A u, v \in Tab : u # v => InHand(u)' \cap InHand(v)' = {}
        BY <1>4, <1>5 DEF Placement, OnePlace
    <2>4. \A u \in Tab : InHand(u)' \cap (followed' \cup Told' \cup ended') = {}
        BY <1>1, <1>3, <1>4, <1>5 DEF Placement, OnePlace
    <2>5. followed' \cap (Told' \cup ended') = {} /\ Told' \cap ended' = {}
        BY <1>1, <1>3 DEF Placement, OnePlace
    <2> QED
        BY <1>1, <2>1, <2>2, <2>3, <2>4, <2>5 DEF Placement, OnePlace, OneNotice
<1> QED
    BY <1>7, <1>8 DEF Placement
-----------------------------------------------------------------------------
(* Writing the list *)

\* A list that is not empty has a first entry.
LEMMA FirstEntry ==
    ASSUME NEW S \in SUBSET Subscription, S # {}
    PROVE  \E s \in S : \A other \in S : s.id <= other.id
<1> DEFINE T == {s.id : s \in S}
<1>1. T \subseteq Nat /\ T # {}
    BY DEF Subscription
<1>2. \E x \in T : \A y \in T : <<y, x>> \notin OpToRel(<, Nat)
    BY <1>1, WFMin, NatLessThanWellFounded
<1>3. PICK x \in T : \A y \in T : ~(y < x)
    BY <1>1, <1>2 DEF OpToRel
<1>4. \A y \in T : x <= y
    <2> HIDE DEF T
    <2> QED
        BY <1>1, <1>3
<1> QED
    BY <1>4

\* add: the list keeps its length.
LEMMA AddKeepsCapacity ==
    ASSUME NEW S \in SUBSET Subscription, IsFiniteSet(S), Cardinality(S) <= Capacity + 1
    PROVE  /\ IsFiniteSet(S \ Dropped(S)) /\ Cardinality(S \ Dropped(S)) <= Capacity
           /\ Cardinality(S) <= Capacity => Dropped(S) = {}
<1>1. Cardinality(S) \in Nat /\ Capacity \in Nat
    BY FS_CardinalityType, NumbersAssumption
<1>2. CASE Cardinality(S) <= Capacity
    <2>1. Dropped(S) = {} /\ S \ Dropped(S) = S
        BY <1>1, <1>2 DEF Dropped
    <2> QED
        BY <1>2, <2>1
<1>3. CASE Cardinality(S) > Capacity
    <2>1. S # {}
        BY <1>1, <1>3, FS_EmptySet
    <2>2. PICK s \in S : \A other \in S : s.id <= other.id
        BY <2>1, FirstEntry
    <2>3. S \ Dropped(S) \subseteq S \ {s}
        BY <1>3, <2>2 DEF Dropped
    <2>4. IsFiniteSet(S \ {s}) /\ Cardinality(S \ {s}) = Cardinality(S) - 1
        BY FS_RemoveElement
    <2>5. /\ IsFiniteSet(S \ Dropped(S))
          /\ Cardinality(S \ Dropped(S)) <= Cardinality(S \ {s})
        BY <2>3, <2>4, FS_Subset
    <2>6. Cardinality(S \ Dropped(S)) \in Nat
        BY <2>5, FS_CardinalityType
    <2> QED
        BY <1>1, <1>3, <2>4, <2>5, <2>6
<1> QED
    BY <1>1, <1>2, <1>3

LEMMA FollowPlacement ==
    ASSUME TypeOK, IsFiniteSet(followed), SectionsKept, Placement,
           NEW t \in Tab, LeaveFollow(t)
    PROVE  IsFiniteSet(followed') /\ Placement'
<1> DEFINE r == section[t].run
           n == [run |-> r, ts |-> now, id |-> nextId]
           new == IF Contains(followed, r) THEN {} ELSE {n}
           all == followed \cup new
           drop == Dropped(all)
<1>1. section[t] # None /\ section[t].copy = followed /\ r \in Run
    BY DEF LeaveFollow, SectionsKept, TypeOK, Section
<1>2. /\ followed' = all \ drop /\ ended' = ended \cup drop
      /\ nextId' = IF new = {} THEN nextId ELSE nextId + 1
    BY <1>1 DEF LeaveFollow
<1>3. UNCHANGED <<noticed, work, telling>>
    BY DEF LeaveFollow, loop
<1>4. n \in Subscription
    BY <1>1, NumbersAssumption DEF TypeOK, Subscription, LastTime
<1>5. all \in SUBSET Subscription /\ drop \subseteq all
    BY <1>4 DEF TypeOK, Dropped
<1>6. IsFiniteSet(all) /\ Cardinality(all) <= Cardinality(followed) + 1
    <2>1. new = {} \/ new = {n}
        OBVIOUS
    <2>2. Cardinality(followed) \in Nat
        BY FS_CardinalityType
    <2> HIDE DEF new
    <2>3. CASE new = {}
        <3>1. all = followed
            BY <2>3
        <3> QED
            BY <2>2, <3>1
    <2>4. CASE new = {n}
        <3>1. all = followed \cup {n}
            BY <2>4
        <3> HIDE DEF all, n
        <3> QED
            BY <2>2, <3>1, FS_AddElement
    <2> QED
        BY <2>1, <2>3, <2>4
<1>7. /\ IsFiniteSet(all \ drop) /\ Cardinality(all \ drop) <= Capacity
      /\ Cardinality(all) <= Capacity => drop = {}
    <2>1. Cardinality(followed) <= Capacity /\ Cardinality(followed) \in Nat
          /\ Cardinality(all) \in Nat /\ Capacity \in Nat
        BY <1>6, FS_CardinalityType, NumbersAssumption DEF Placement, ListKept
    <2>2. Cardinality(all) <= Capacity + 1
        BY <1>6, <2>1
    <2> HIDE DEF all
    <2> QED
        BY <1>5, <1>6, <2>2, AddKeepsCapacity
<1>8. \A s, u \in all : s.run = u.run => s = u
    BY DEF Placement, ListKept, Contains, RunsOf
<1>9. ListKept'
    BY <1>2, <1>7, <1>8 DEF ListKept
<1>10. n \notin Placed
    BY DEF Placement, NumbersKept, TypeOK
<1>11. (\A u \in Tab : Prepared(u)' = Prepared(u) /\ InHand(u)' = InHand(u)) /\ Told' = Told
    BY <1>3 DEF Prepared, InHand, Told
<1>12. \A s : s \in Placed' <=> s \in Placed \/ s \in new
    <2>1. \A s : s \in Placed' <=>
            s \in followed' \/ s \in Told' \/ s \in ended' \/ \E u \in Tab : s \in InHand(u)'
        BY DEF Placed
    <2> HIDE DEF new, drop
    <2> QED
        BY <1>2, <1>5, <1>11, <2>1, InPlaced
<1>13. NumbersKept'
    <2>1. \A s \in Placed : s.id < nextId /\ s.id \in Nat
        BY DEF Placement, NumbersKept, TypeOK, Placed, Told, InHand, Prepared, Notice, Subscription
    <2> QED
        BY <1>2, <1>12, <2>1 DEF NumbersKept, TypeOK
<1>14. NoneLost'
    <2>1. CASE new = {}
        BY <1>2, <1>12, <2>1 DEF Placement, NoneLost
    <2>2. CASE new = {n}
        <3>1. nextId' = nextId + 1 /\ n \in Placed'
            BY <1>2, <1>12, <2>2
        <3>2. SUFFICES ASSUME NEW i \in 1..nextId PROVE \E s \in Placed' : s.id = i
            BY <3>1 DEF NoneLost, TypeOK
        <3>3. CASE i = nextId
            BY <3>1, <3>3
        <3>4. CASE i \in 1..(nextId - 1)
            BY <1>12, <3>4 DEF Placement, NoneLost
        <3> QED
            BY <3>3, <3>4 DEF TypeOK
    <2> QED
        BY <2>1, <2>2
<1>15. OnePlace'
    <2>1. \A s \in all : s \notin Told /\ s \notin ended /\ \A u \in Tab : s \notin InHand(u)
        BY <1>10, InPlaced DEF Placement, OnePlace
    <2> HIDE DEF all, drop
    <2>2. followed' \cap (Told' \cup ended') = {} /\ Told' \cap ended' = {}
        BY <1>2, <1>5, <1>11, <2>1 DEF Placement, OnePlace
    <2>3. \A u \in Tab : InHand(u)' \cap (followed' \cup Told' \cup ended') = {}
        BY <1>2, <1>5, <1>11, <2>1 DEF Placement, OnePlace
    <2> QED
        BY <1>3, <1>11, <2>2, <2>3 DEF Placement, OnePlace, OneNotice
<1> QED
    BY <1>2, <1>7, <1>9, <1>13, <1>14, <1>15 DEF Placement

LEMMA UnfollowPlacement ==
    ASSUME TypeOK, IsFiniteSet(followed), SectionsKept, Placement,
           NEW t \in Tab, LeaveUnfollow(t)
    PROVE  IsFiniteSet(followed') /\ Placement'
<1> DEFINE removed == Matching(followed, section[t].run, section[t].ts)
           news == {[event |-> section[t].event, sub |-> s] : s \in removed}
<1>1. section[t] # None /\ section[t] \in Section /\ section[t].copy = followed
    BY DEF LeaveUnfollow, SectionsKept, TypeOK
<1>2. removed \subseteq followed /\ followed' = followed \ removed
    BY <1>1 DEF LeaveUnfollow, Matching
<1>3. UNCHANGED <<noticed, telling, nextId>>
    BY DEF LeaveUnfollow
<1>4. \A s, u \in removed : s = u
    BY DEF Placement, ListKept, Matching
<1>5. IsFiniteSet(followed')
    BY <1>2, FS_Subset
<1>6. ListKept'
    <2>1. Cardinality(followed') <= Cardinality(followed) /\ Cardinality(followed') \in Nat
          /\ Cardinality(followed) \in Nat /\ Capacity \in Nat
        BY <1>2, <1>5, FS_Subset, FS_CardinalityType, NumbersAssumption
    <2> QED
        BY <1>2, <2>1 DEF Placement, ListKept
<1>7. \A s \in removed : s \notin Told /\ s \notin ended /\ \A u \in Tab : s \notin InHand(u)
    BY <1>2 DEF Placement, OnePlace
<1>8. Told' = Told
    BY <1>3 DEF Told
<1>9. CASE section[t].by = "event"
    <2>1. ended' = ended /\ work' = [work EXCEPT ![t] = @ \cup news]
        BY <1>1, <1>9 DEF LeaveUnfollow
    <2> HIDE DEF removed
    <2>2. \A u \in Tab \ {t} : Prepared(u)' = Prepared(u) /\ InHand(u)' = InHand(u)
        BY <1>3, <2>1 DEF TypeOK, Prepared, InHand
    <2>3. Prepared(t)' = Prepared(t) \cup news
        BY <1>3, <2>1 DEF TypeOK, Prepared
    <2>4. InHand(t)' = InHand(t) \cup removed
        <3>1. {m.sub : m \in news} = removed
            <4>1. \A s \in removed : [event |-> section[t].event, sub |-> s].sub = s
                OBVIOUS
            <4> QED
                BY <4>1, Zenon
        <3> HIDE DEF news
        <3> QED
            BY <2>3, <3>1 DEF InHand
    <2>5. \A s : s \in Placed' <=> s \in Placed
        <3>1. \A s : s \in Placed' <=>
                s \in followed' \/ s \in Told' \/ s \in ended' \/ \E u \in Tab : s \in InHand(u)'
            BY DEF Placed
        <3> QED
            BY <1>2, <1>8, <2>1, <2>2, <2>4, <3>1, InPlaced
    <2>6. NumbersKept' /\ NoneLost'
        BY <1>3, <2>5 DEF Placement, NumbersKept, NoneLost
    <2>7. OnePlace'
        <3>1. \A u, v \in Tab : u # v => InHand(u)' \cap InHand(v)' = {}
            BY <1>7, <2>2, <2>4 DEF Placement, OnePlace
        <3>2. \A u \in Tab : InHand(u)' \cap (followed' \cup Told' \cup ended') = {}
            BY <1>2, <1>7, <1>8, <2>1, <2>2, <2>4 DEF Placement, OnePlace
        <3>3. followed' \cap (Told' \cup ended') = {} /\ Told' \cap ended' = {}
            BY <1>2, <1>8, <2>1 DEF Placement, OnePlace
        <3>4. \A m \in news : m.sub \in removed /\ (\A k \in news : k = m)
            BY <1>4
        <3>5. \A u \in Tab : \A m \in Prepared(u) : m.sub \notin removed
            BY <1>7 DEF InHand
        <3>6. \A u \in Tab : OneNotice(Prepared(u)')
            <4> HIDE DEF news
            <4> QED
                BY <2>2, <2>3, <3>4, <3>5 DEF Placement, OnePlace, OneNotice
        <3>7. \A u \in Tab : telling'[u] \notin work'[u]
            <4>1. telling[t] \notin news
                <5>1. None \notin news
                    BY <1>2, <1>9, <1>1, NoneAssumption DEF TypeOK, Section, SectionsKept, Notice
                <5> QED
                    BY <3>4, <3>5, <5>1 DEF Prepared
            <4> HIDE DEF news
            <4> QED
                BY <1>3, <2>1, <4>1 DEF Placement, OnePlace, TypeOK
        <3>8. OneNotice(noticed')
            BY <1>3 DEF Placement, OnePlace
        <3> QED
            BY <3>1, <3>2, <3>3, <3>6, <3>7, <3>8 DEF OnePlace, OneNotice
    <2> QED
        BY <1>5, <1>6, <2>6, <2>7 DEF Placement
<1>10. CASE section[t].by # "event"
    <2>1. work' = work /\ ended' = ended \cup removed
        BY <1>1, <1>10 DEF LeaveUnfollow
    <2> HIDE DEF removed
    <2>2. \A u \in Tab : Prepared(u)' = Prepared(u) /\ InHand(u)' = InHand(u)
        BY <1>3, <2>1 DEF Prepared, InHand
    <2>3. \A s : s \in Placed' <=> s \in Placed
        <3>1. \A s : s \in Placed' <=>
                s \in followed' \/ s \in Told' \/ s \in ended' \/ \E u \in Tab : s \in InHand(u)'
            BY DEF Placed
        <3> QED
            BY <1>2, <1>8, <2>1, <2>2, <3>1, InPlaced
    <2>4. NumbersKept' /\ NoneLost'
        BY <1>3, <2>3 DEF Placement, NumbersKept, NoneLost
    <2>5. OnePlace'
        <3>1. followed' \cap (Told' \cup ended') = {} /\ Told' \cap ended' = {}
            BY <1>2, <1>7, <1>8, <2>1 DEF Placement, OnePlace
        <3>2. \A u \in Tab : InHand(u)' \cap (followed' \cup Told' \cup ended') = {}
            BY <1>2, <1>7, <1>8, <2>1, <2>2 DEF Placement, OnePlace
        <3> QED
            BY <1>3, <2>1, <2>2, <3>1, <3>2 DEF Placement, OnePlace, OneNotice
    <2> QED
        BY <1>5, <1>6, <2>4, <2>5 DEF Placement
<1> QED
    BY <1>9, <1>10
-----------------------------------------------------------------------------
(* The parts of the invariant about sections and the places of the loops *)

LEMMA SectionsStep ==
    ASSUME WebLocks, TypeOK, SectionsKept, [Next]_vars
    PROVE  SectionsKept'
<1> USE DEF storage, server, loop, history
\* Who enters finds nobody else, and copies the list as it is.
<1>1. ASSUME NEW t \in Tab, EnterEvent(t) \/ EnterPurge(t) \/ EnterClick(t)
      PROVE  SectionsKept'
    <2>1. LockFree /\ UNCHANGED <<followed, pc, json>>
        BY <1>1 DEF EnterEvent, EnterPurge, EnterClick, Enter
    <2>2. PICK by, event, op, r, ts :
            /\ by \in {"event", "purge", "click"}
            /\ section' = [section EXCEPT ![t] =
                    [by |-> by, event |-> event, op |-> op, run |-> r, ts |-> ts,
                     copy |-> followed]]
            /\ op = "follow" => by = "click"
            /\ by = "event" => pc[t] = "removing" /\ event \in json[t] /\ r = event.run
                               /\ ts = None
        BY <1>1 DEF EnterEvent, EnterPurge, EnterClick, Enter
    <2> QED
        BY <2>1, <2>2 DEF SectionsKept, LockFree, TypeOK
\* Who leaves lets go of the lock; all others are outside.
<1>2. ASSUME NEW t \in Tab, LeaveStep(t) \/ Close(t)
      PROVE  SectionsKept'
    <2>1. section' = [section EXCEPT ![t] = None]
        BY <1>2 DEF LeaveStep, LeaveFollow, LeaveUnfollow, Close
    <2>2. CASE LeaveStep(t)
        <3>1. section[t] # None
            BY <2>2 DEF LeaveStep, LeaveFollow, LeaveUnfollow
        <3>2. \A u \in Tab : section'[u] = None
            BY <2>1, <3>1 DEF SectionsKept, TypeOK
        <3> QED
            BY <3>2 DEF SectionsKept
    <2>3. CASE Close(t)
        <3>1. /\ followed' = followed
              /\ \A u \in Tab \ {t} : pc'[u] = pc[u] /\ json'[u] = json[u]
            BY <2>3 DEF Close, TypeOK
        <3> QED
            BY <2>1, <3>1 DEF SectionsKept, TypeOK
    <2> QED
        BY <1>2, <2>2, <2>3
\* The other steps of a tab change its loop only outside of its section.
<1>3. ASSUME UNCHANGED <<section, followed>>,
             \A t \in Tab : section[t] # None =>
                UNCHANGED <<pc[t], json[t]>> \/ pc[t] = "asking"
      PROVE  SectionsKept'
    BY <1>3 DEF SectionsKept
<1>4. ASSUME NEW t \in Tab,
             \/ Look(t) \/ Claim(t) \/ Sign(t) \/ Settle(t) \/ Gather(t) \/ Receive(t)
             \/ FetchFails(t) \/ StartTelling(t) \/ Tell(t) \/ EndLoop(t) \/ MarkPurge(t)
             \/ Suspect(t) \/ ActiveRuns(t) \/ Check(t) \/ EndPurge(t)
      PROVE  SectionsKept'
    <2>1. section[t] = None
        BY <1>4 DEF Look, Claim, Sign, Settle, Gather, Receive, FetchFails, StartTelling, Tell,
           EndLoop, MarkPurge, Suspect, ActiveRuns, Check, EndPurge, At
    <2>2. UNCHANGED <<section, followed>>
        BY <1>4 DEF Look, Claim, Sign, Settle, Gather, Receive, FetchFails, StartTelling, Tell,
           EndLoop, MarkPurge, Suspect, ActiveRuns, Check, NextCheck, EndPurge
    <2>3. \A u \in Tab \ {t} : pc'[u] = pc[u] /\ json'[u] = json[u]
        <3>1. CASE Look(t) \/ Settle(t) \/ FetchFails(t) \/ EndPurge(t)
            BY <3>1 DEF Look, Settle, FetchFails, EndPurge, Iterate, TypeOK
        <3>2. CASE Claim(t) \/ Sign(t) \/ Gather(t) \/ EndLoop(t) \/ MarkPurge(t) \/ Suspect(t)
            BY <3>2 DEF Claim, Sign, Gather, EndLoop, MarkPurge, Suspect, TypeOK
        <3>3. CASE Receive(t) \/ StartTelling(t) \/ Tell(t) \/ ActiveRuns(t) \/ Check(t)
            BY <3>3 DEF Receive, StartTelling, Tell, ActiveRuns, Check, NextCheck, TypeOK
        <3> QED
            BY <1>4, <3>1, <3>2, <3>3
    <2> QED
        BY <1>3, <2>1, <2>2, <2>3
<1>5. ASSUME NEW t \in Tab, Answer(t) \/ Open(t)
      PROVE  SectionsKept'
    <2>1. pc[t] # "removing" /\ UNCHANGED <<section, followed>>
          /\ \A u \in Tab \ {t} : pc'[u] = pc[u] /\ json'[u] = json[u]
        BY <1>5 DEF Answer, Open, TypeOK
    <2> QED
        BY <2>1 DEF SectionsKept
<1>6. ASSUME UNCHANGED <<section, followed, pc, json>>
      PROVE  SectionsKept'
    BY <1>6 DEF SectionsKept
<1>7. CASE UNCHANGED vars
    BY <1>6, <1>7 DEF vars
<1>8. CASE ServerStep \/ Tick \/ Hibernate
    BY <1>6, <1>8 DEF ServerStep, End, LogEnd, RefuseStop, Restart, ServerOnly, Tick, Hibernate,
       Pass
<1>9. ASSUME NEW t \in Tab, NEW r \in Run, Follow(t, r) \/ Unfollow(t, r)
      PROVE  SectionsKept'
    BY <1>6, <1>9 DEF Follow, Unfollow, Clicked
<1> QED
    BY <1>1, <1>2, <1>4, <1>5, <1>7, <1>8, <1>9 DEF Next, LoopStep, UserStep

LEMMA LoopKeptStep ==
    ASSUME TypeOK, SectionsKept, LoopKept, [Next]_vars
    PROVE  LoopKept'
<1> USE DEF storage, server, loop, history
<1> DEFINE Place(t) ==
        /\ json[t] # {} => pc[t] \in {"answered", "removing"}
        /\ work[t] # {} => pc[t] \in {"removing", "telling"}
        /\ telling[t] # None <=> pc[t] = "telling"
        /\ claimedAt[t] <= now
<1>0. ASSUME NEW t \in Tab, Place(t)', now' = now,
             \A u \in Tab \ {t} : UNCHANGED <<json[u], work[u], telling[u], pc[u], claimedAt[u]>>
      PROVE  LoopKept'
    BY <1>0 DEF LoopKept
<1>1. ASSUME NEW t \in Tab,
             Look(t) \/ Settle(t) \/ FetchFails(t) \/ EndPurge(t)
      PROVE  LoopKept'
    <2>1. now' = now /\ UNCHANGED <<json, work, telling>>
          /\ \A u \in Tab \ {t} : pc'[u] = pc[u] /\ claimedAt'[u] = claimedAt[u]
        BY <1>1 DEF Look, Settle, FetchFails, EndPurge, Iterate, TypeOK
    <2>2. json[t] = {} /\ work[t] = {} /\ telling[t] = None
        BY <1>1 DEF Look, Settle, FetchFails, EndPurge, At, LoopKept
    <2>3. claimedAt'[t] <= now /\ pc'[t] # "telling"
        BY <1>1, NumbersAssumption
        DEF Look, Settle, FetchFails, EndPurge, Iterate, LoopKept, TypeOK, LastTime
    <2> QED
        BY <1>0, <2>1, <2>2, <2>3
<1>11. ASSUME NEW t \in Tab,
              Claim(t) \/ Sign(t) \/ Gather(t) \/ EndLoop(t) \/ MarkPurge(t) \/ Suspect(t)
       PROVE  LoopKept'
    <2>1. now' = now /\ UNCHANGED <<json, work, telling, claimedAt>>
          /\ \A u \in Tab \ {t} : pc'[u] = pc[u]
        BY <1>11 DEF Claim, Sign, Gather, EndLoop, MarkPurge, Suspect, TypeOK
    <2>2. json[t] = {} /\ work[t] = {} /\ telling[t] = None
        BY <1>11 DEF Claim, Sign, Gather, EndLoop, MarkPurge, Suspect, At, LoopKept
    <2>3. pc'[t] # "telling"
        BY <1>11 DEF Claim, Sign, Gather, EndLoop, MarkPurge, Suspect, TypeOK
    <2> QED
        BY <1>0, <2>1, <2>2, <2>3 DEF LoopKept
<1>2. ASSUME NEW t \in Tab,
             Answer(t) \/ Receive(t) \/ StartTelling(t) \/ Tell(t) \/ ActiveRuns(t)
             \/ Check(t)
      PROVE  LoopKept'
    <2>1. now' = now /\ claimedAt' = claimedAt
        BY <1>2 DEF Answer, Receive, StartTelling, Tell, ActiveRuns, Check, NextCheck
    <2>2. \A u \in Tab \ {t} : UNCHANGED <<json[u], work[u], telling[u], pc[u]>>
        BY <1>2 DEF Answer, Receive, StartTelling, Tell, ActiveRuns, Check, NextCheck, TypeOK
    <2>3. Place(t)'
        <3>1. CASE Answer(t) \/ Receive(t)
            BY <2>1, <3>1 DEF Answer, Receive, At, LoopKept, TypeOK
        <3>2. CASE StartTelling(t)
            BY <2>1, <3>2, NoneAssumption DEF StartTelling, At, LoopKept, TypeOK
        <3>3. CASE Tell(t)
            BY <2>1, <3>3 DEF Tell, At, LoopKept, TypeOK
        <3>4. CASE ActiveRuns(t) \/ Check(t)
            BY <2>1, <3>4 DEF ActiveRuns, Check, NextCheck, At, LoopKept, TypeOK
        <3> QED
            BY <1>2, <3>1, <3>2, <3>3, <3>4
    <2> QED
        BY <1>0, <2>1, <2>2, <2>3
<1>3. ASSUME NEW t \in Tab, LeaveUnfollow(t)
      PROVE  LoopKept'
    <2>1. now' = now /\ UNCHANGED <<telling, pc, claimedAt>>
        BY <1>3 DEF LeaveUnfollow
    <2>2. \A u \in Tab \ {t} : UNCHANGED <<json[u], work[u]>>
        BY <1>3 DEF LeaveUnfollow, TypeOK
    <2>3. \/ UNCHANGED <<json[t], work[t]>>
          \/ pc[t] = "removing"
        BY <1>3 DEF LeaveUnfollow, SectionsKept
    <2> QED
        BY <1>0, <2>1, <2>2, <2>3 DEF LoopKept
<1>4. ASSUME NEW t \in Tab, Close(t) \/ Open(t)
      PROVE  LoopKept'
    <2>1. now' = now
          /\ \A u \in Tab \ {t} : UNCHANGED <<json[u], work[u], telling[u], pc[u], claimedAt[u]>>
        BY <1>4 DEF Close, Open, TypeOK
    <2>2. Place(t)'
        BY <1>4, NumbersAssumption DEF Close, Open, LoopKept, TypeOK, LastTime
    <2> QED
        BY <1>0, <2>1, <2>2
<1>5. ASSUME UNCHANGED <<json, work, telling, pc, claimedAt>>, now' = now
      PROVE  LoopKept'
    BY <1>5 DEF LoopKept
<1>6. CASE UNCHANGED vars
    BY <1>5, <1>6 DEF vars
<1>7. CASE ServerStep
    BY <1>5, <1>7 DEF ServerStep, End, LogEnd, RefuseStop, Restart, ServerOnly
<1>8. CASE Tick \/ Hibernate
    <2>1. PICK d \in Nat : Pass(d)
        BY <1>8, NumbersAssumption DEF Tick, Hibernate
    <2>2. now' \in Nat /\ now' >= now
        BY <2>1, NumbersAssumption DEF Pass, TypeOK, LastTime
    <2>3. UNCHANGED <<json, work, telling, pc, claimedAt>>
        BY <2>1 DEF Pass
    <2>4. \A t \in Tab : claimedAt[t] \in Nat /\ now \in Nat
        BY NumbersAssumption DEF TypeOK, LastTime
    <2> QED
        BY <2>2, <2>3, <2>4 DEF LoopKept
<1>9. ASSUME NEW t \in Tab, EnterEvent(t) \/ EnterPurge(t) \/ EnterClick(t) \/ LeaveFollow(t)
      PROVE  LoopKept'
    BY <1>5, <1>9 DEF EnterEvent, EnterPurge, EnterClick, Enter, LeaveFollow
<1>10. ASSUME NEW t \in Tab, NEW r \in Run, Follow(t, r) \/ Unfollow(t, r)
       PROVE  LoopKept'
    BY <1>5, <1>10 DEF Follow, Unfollow, Clicked
<1> QED
    BY <1>1, <1>2, <1>3, <1>4, <1>6, <1>7, <1>8, <1>9, <1>10, <1>11
    DEF Next, LoopStep, LeaveStep, UserStep
-----------------------------------------------------------------------------
(* News that is older than Grace *)

\* What a step logs is as young as the step.
LEMMA LogGrows ==
    ASSUME [Next]_vars
    PROVE  /\ log \subseteq log' /\ \A e \in log' : e \in log \/ e.time = now
           /\ cut \subseteq cut'
<1> USE DEF storage, server, loop, history
<1>1. CASE ServerStep
    <2>1. PICK r \in Run : End(r) \/ LogEnd(r) \/ RefuseStop(r) \/ Restart(r)
        BY <1>1 DEF ServerStep
    <2>2. log' = log \/ log' = log \cup {[run |-> r, time |-> now]}
        BY <2>1 DEF End, LogEnd, RefuseStop, Restart, Logged
    <2>3. cut' = cut
        BY <2>1 DEF End, LogEnd, RefuseStop, Restart, ServerOnly
    <2> QED
        BY <2>2, <2>3
<1>2. CASE UNCHANGED vars \/ Tick \/ Hibernate
    BY <1>2 DEF vars, Tick, Hibernate, Pass
<1>3. ASSUME NEW t \in Tab,
             LoopStep(t) \/ FetchFails(t) \/ EnterClick(t) \/ LeaveStep(t) \/ UserStep(t)
      PROVE  log' = log /\ cut \subseteq cut'
    <2>1. CASE LoopStep(t) \/ FetchFails(t)
        BY <2>1 DEF LoopStep, Look, Claim, Sign, Settle, Gather, Answer, Receive, EnterEvent,
           Enter, StartTelling, Tell, EndLoop, MarkPurge, Suspect, ActiveRuns, Check, NextCheck,
           EnterPurge, EndPurge, FetchFails
    <2>2. CASE EnterClick(t) \/ LeaveStep(t)
        BY <2>2 DEF EnterClick, Enter, LeaveStep, LeaveFollow, LeaveUnfollow
    <2>3. CASE UserStep(t)
        BY <2>3 DEF UserStep, Follow, Unfollow, Clicked, Close, Open
    <2> QED
        BY <1>3, <2>1, <2>2, <2>3
<1> QED
    BY <1>1, <1>2, <1>3 DEF Next

\* So is a new entry of the list.
LEMMA ListGrows ==
    ASSUME SectionsKept, [Next]_vars
    PROVE  \A s \in followed' : s \in followed \/ s.ts = now
<1>1. ASSUME NEW t \in Tab, LeaveFollow(t)
      PROVE  \A s \in followed' : s \in followed \/ s.ts = now
    <2>1. section[t] # None /\ section[t].copy = followed
        BY <1>1 DEF LeaveFollow, SectionsKept
    <2> QED
        BY <1>1, <2>1 DEF LeaveFollow
<1>2. ASSUME NEW t \in Tab, LeaveUnfollow(t)
      PROVE  followed' \subseteq followed
    <2>1. section[t] # None /\ section[t].copy = followed
        BY <1>2 DEF LeaveUnfollow, SectionsKept
    <2> QED
        BY <1>2, <2>1 DEF LeaveUnfollow
<1>3. ASSUME NEW t \in Tab, StartTelling(t) \/ Tell(t) \/ Close(t)
      PROVE  followed' = followed
    BY <1>3 DEF StartTelling, Tell, Close, storage
<1> QED
    BY <1>1, <1>2, <1>3, QuietStep DEF places, LeaveStep

\* The old news of a tab changes only when the tab claims another fetch.
LEMMA OldNewsStays ==
    ASSUME TypeOK, LoopKept, [Next]_vars, NEW t \in Tab, claimedAt'[t] = claimedAt[t],
           NEW s \in Subscription
    PROVE  OldNews(t, s)' = OldNews(t, s)
<1>1. claimedAt[t] \in Nat /\ now \in Nat /\ claimedAt[t] <= now /\ Grace \in Nat
    BY NumbersAssumption DEF TypeOK, LoopKept, LastTime
<1>2. \A e \in log' : e.time < claimedAt[t] - Grace => e \in log
    BY <1>1, LogGrows
<1> QED
    BY <1>2, LogGrows DEF OldNews

\* A new entry has none.
LEMMA NewEntryNoOldNews ==
    ASSUME TypeOK, LoopKept, NEW t \in Tab, claimedAt'[t] = claimedAt[t],
           log' \in SUBSET Event, NEW s, s.ts = now
    PROVE  OldNews(t, s)' = {}
<1>1. claimedAt[t] \in Nat /\ now \in Nat /\ claimedAt[t] <= now /\ Grace \in Nat
    BY NumbersAssumption DEF TypeOK, LoopKept, LastTime
<1>2. \A e \in log' : e.time \in Nat
    BY DEF Event
<1> QED
    BY <1>1, <1>2 DEF OldNews

NewsAt(t) ==
    /\ pc[t] = "asking" => \A s \in followed : OldNews(t, s) # {} => s.run \in asked[t]
    /\ pc[t] \in {"answered", "removing", "telling"} =>
        \A s \in followed : OldNews(t, s) \subseteq json[t] \cup cut
    /\ pc[t] \in {"due", "marked"} => \A s \in followed : OldNews(t, s) \subseteq cut
    /\ pc[t] \in {"purging", "checking"} => \A s \in suspects[t] : OldNews(t, s) \subseteq cut

\* A tab whose loop stays where it is knows of its old news as before.
LEMMA NewsFrame ==
    ASSUME TypeOK, SectionsKept, LoopKept, [Next]_vars, TypeOK', NEW t \in Tab, NewsAt(t),
           UNCHANGED <<pc[t], asked[t], json[t], suspects[t], claimedAt[t]>>
    PROVE  NewsAt(t)'
<1>1. \A s \in followed' : (s \in followed /\ OldNews(t, s)' = OldNews(t, s)) \/ OldNews(t, s)' = {}
    <2> SUFFICES ASSUME NEW s \in followed'
                 PROVE  (s \in followed /\ OldNews(t, s)' = OldNews(t, s)) \/ OldNews(t, s)' = {}
        OBVIOUS
    <2>1. CASE s \in followed
        <3>1. s \in Subscription
            BY <2>1 DEF TypeOK
        <3> QED
            BY <2>1, <3>1, OldNewsStays
    <2>2. CASE s.ts = now
        <3>1. log' \in SUBSET Event
            BY DEF TypeOK
        <3> QED
            BY <2>2, <3>1, NewEntryNoOldNews
    <2> QED
        BY <2>1, <2>2, ListGrows
<1>2. \A s \in suspects[t] : OldNews(t, s)' = OldNews(t, s)
    <2>1. suspects[t] \subseteq Subscription
        BY DEF TypeOK
    <2> QED
        BY <2>1, OldNewsStays
<1>3. cut \subseteq cut'
    BY LogGrows
<1> QED
    BY <1>1, <1>2, <1>3 DEF NewsAt

LEMMA NewsStep ==
    ASSUME TypeOK, SectionsKept, LoopKept, NewsKept, [Next]_vars, TypeOK'
    PROVE  NewsKept'
<1> USE DEF storage, server, loop, history
<1>0. ASSUME NEW t \in Tab, NewsAt(t)',
             \A u \in Tab \ {t} :
                UNCHANGED <<pc[u], asked[u], json[u], suspects[u], claimedAt[u]>>
      PROVE  NewsKept'
    <2>1. \A u \in Tab \ {t} : NewsAt(u) => NewsAt(u)'
        BY <1>0, NewsFrame
    <2>2. \A u \in Tab : NewsAt(u)
        BY DEF NewsKept, NewsAt
    <2>3. \A u \in Tab : NewsAt(u)'
        BY <1>0, <2>1, <2>2
    <2> QED
        BY <2>3 DEF NewsKept, NewsAt
\* A loop that starts again has nothing to keep.
<1>1. ASSUME NEW t \in Tab, Iterate(t),
             UNCHANGED json,
             \A u \in Tab \ {t} : UNCHANGED <<asked[u], suspects[u]>>
      PROVE  NewsKept'
    <2>1. pc'[t] \in {"asleep", "claiming"}
          /\ \A u \in Tab \ {t} : UNCHANGED <<pc[u], claimedAt[u]>>
        BY <1>1 DEF Iterate, TypeOK
    <2>2. NewsAt(t)'
        BY <2>1 DEF NewsAt
    <2> QED
        BY <1>0, <1>1, <2>1, <2>2
<1>2. ASSUME NEW t \in Tab, Gather(t) PROVE NewsKept'
    <2>1. /\ asked' = [asked EXCEPT ![t] = RunsOf(followed)]
          /\ pc' = [pc EXCEPT ![t] = IF followed = {} THEN "removing" ELSE "asking"]
          /\ UNCHANGED <<json, suspects, claimedAt, followed>>
        BY <1>2 DEF Gather
    <2>2. NewsAt(t)'
        BY <2>1 DEF NewsAt, TypeOK, RunsOf
    <2>3. \A u \in Tab \ {t} :
            UNCHANGED <<pc[u], asked[u], json[u], suspects[u], claimedAt[u]>>
        BY <2>1 DEF TypeOK
    <2> QED
        BY <1>0, <2>2, <2>3
<1>17. ASSUME NEW t \in Tab, Claim(t) \/ Sign(t) \/ (Settle(t) /\ ~Preempted(t))
       PROVE  NewsKept'
    <2>1. pc'[t] \in {"signing", "settling", "settled"}
          /\ \A u \in Tab \ {t} :
                UNCHANGED <<pc[u], asked[u], json[u], suspects[u], claimedAt[u]>>
        BY <1>17 DEF Claim, Sign, Settle, TypeOK
    <2>2. NewsAt(t)'
        BY <2>1 DEF NewsAt
    <2> QED
        BY <1>0, <2>1, <2>2
<1>3. ASSUME NEW t \in Tab, Answer(t) PROVE NewsKept'
    <2> DEFINE found == {e \in log : e.run \in asked[t]}
    <2>0. PICK answer \in Limited(found) :
            json' = [json EXCEPT ![t] = answer] /\ cut' = cut \cup (found \ answer)
        BY <1>3 DEF Answer
    <2>1. NewsAt(t)'
        <3>1. /\ pc[t] = "asking" /\ pc'[t] = "answered" /\ json'[t] = answer
              /\ UNCHANGED <<followed, log, claimedAt>>
            BY <1>3, <2>0 DEF Answer, TypeOK
        <3>2. found \subseteq json'[t] \cup cut'
            BY <2>0, <3>1
        <3>3. \A s \in followed : OldNews(t, s) \subseteq found
            BY <3>1 DEF NewsKept, OldNews
        <3>4. \A s : OldNews(t, s)' = OldNews(t, s)
            BY <3>1 DEF OldNews
        <3> QED
            BY <3>1, <3>2, <3>3, <3>4 DEF NewsAt
    <2>2. \A u \in Tab \ {t} : UNCHANGED <<pc[u], asked[u], json[u], suspects[u], claimedAt[u]>>
        BY <1>3 DEF Answer, TypeOK
    <2> QED
        BY <1>0, <2>1, <2>2
<1>4. ASSUME NEW t \in Tab, Receive(t) PROVE NewsKept'
    <2>1. NewsAt(t)'
        BY <1>4 DEF Receive, At, NewsAt, NewsKept, OldNews, SinceFollowed, TypeOK
    <2>2. \A u \in Tab \ {t} : UNCHANGED <<pc[u], asked[u], json[u], suspects[u], claimedAt[u]>>
        BY <1>4 DEF Receive, TypeOK
    <2> QED
        BY <1>0, <2>1, <2>2
<1>5. ASSUME NEW t \in Tab, LeaveUnfollow(t) PROVE NewsKept'
    <2>1. section[t] # None /\ section[t].copy = followed
        BY <1>5 DEF LeaveUnfollow, SectionsKept
    <2>2. UNCHANGED <<pc, asked, suspects, claimedAt, log, cut>>
          /\ \A u \in Tab \ {t} : json'[u] = json[u]
        BY <1>5 DEF LeaveUnfollow, TypeOK
    <2>3. CASE json'[t] = json[t]
        BY <1>0, <2>2, <2>3, NewsFrame DEF NewsKept, NewsAt
    <2>4. CASE section[t].by = "event"
        <3>1. pc[t] = "removing" /\ section[t].run = section[t].event.run /\ section[t].ts = None
            BY <2>1, <2>4 DEF SectionsKept
        <3>2. followed' \subseteq followed /\ \A s \in followed' : s.run # section[t].event.run
            BY <1>5, <2>1, <3>1 DEF LeaveUnfollow, Matching
        <3>3. json'[t] = json[t] \ {section[t].event}
            BY <1>5, <2>4 DEF LeaveUnfollow, TypeOK
        <3>4. NewsAt(t)'
            BY <2>2, <3>1, <3>2, <3>3 DEF NewsAt, NewsKept, OldNews
        <3> QED
            BY <1>0, <2>2, <3>4
    <2> QED
        BY <1>5, <2>1, <2>3, <2>4 DEF LeaveUnfollow
<1>6. ASSUME NEW t \in Tab, StartTelling(t) \/ Tell(t) PROVE NewsKept'
    <2>1. /\ UNCHANGED <<followed, asked, json, suspects, claimedAt, log, cut>>
          /\ pc[t] \in {"removing", "telling"} /\ pc'[t] \in {"removing", "telling"}
          /\ \A u \in Tab \ {t} : pc'[u] = pc[u]
        BY <1>6 DEF StartTelling, Tell, At, TypeOK
    <2>2. NewsAt(t)'
        BY <2>1 DEF NewsAt, NewsKept, OldNews
    <2> QED
        BY <1>0, <2>1, <2>2
<1>7. ASSUME NEW t \in Tab, EndLoop(t) \/ MarkPurge(t) \/ Suspect(t) PROVE NewsKept'
    <2>1. /\ UNCHANGED <<followed, asked, json, claimedAt, log, cut>>
          /\ \A u \in Tab \ {t} : UNCHANGED <<pc[u], suspects[u]>>
        BY <1>7 DEF EndLoop, MarkPurge, Suspect, TypeOK
    <2>2. CASE EndLoop(t)
        <3>1. pc[t] = "removing" /\ json[t] = {} /\ pc'[t] \in {"due", "top"}
            BY <2>2 DEF EndLoop, At, TypeOK
        <3>2. NewsAt(t)'
            BY <2>1, <3>1 DEF NewsAt, NewsKept, OldNews
        <3> QED
            BY <1>0, <2>1, <3>2
    <2>3. CASE MarkPurge(t)
        <3>1. pc[t] = "due" /\ pc'[t] = "marked"
            BY <2>3 DEF MarkPurge, At, TypeOK
        <3>2. NewsAt(t)'
            BY <2>1, <3>1 DEF NewsAt, NewsKept, OldNews
        <3> QED
            BY <1>0, <2>1, <3>2
    <2>4. CASE Suspect(t)
        <3>1. pc[t] = "marked" /\ pc'[t] = "purging" /\ suspects'[t] = followed
            BY <2>4 DEF Suspect, At, TypeOK
        <3>2. NewsAt(t)'
            BY <2>1, <3>1 DEF NewsAt, NewsKept, OldNews
        <3> QED
            BY <1>0, <2>1, <3>2
    <2> QED
        BY <1>7, <2>2, <2>3, <2>4
<1>8. ASSUME NEW t \in Tab, ActiveRuns(t) \/ Check(t) PROVE NewsKept'
    <2>1. /\ UNCHANGED <<asked, json, claimedAt, log, cut>> /\ pc[t] \in {"purging", "checking"}
          /\ suspects'[t] \subseteq suspects[t] /\ pc'[t] \in {"dropping", "checking"}
          /\ \A u \in Tab \ {t} : UNCHANGED <<pc[u], suspects[u]>>
        BY <1>8 DEF ActiveRuns, Check, NextCheck, At, TypeOK
    <2>2. NewsAt(t)'
        BY <2>1 DEF NewsAt, NewsKept, OldNews
    <2> QED
        BY <1>0, <2>1, <2>2
<1>9. ASSUME NEW t \in Tab, Close(t) \/ Open(t) PROVE NewsKept'
    <2>1. pc'[t] \in {"closed", "asleep"}
          /\ \A u \in Tab \ {t} : UNCHANGED <<pc[u], asked[u], json[u], suspects[u], claimedAt[u]>>
        BY <1>9 DEF Close, Open, TypeOK
    <2>2. NewsAt(t)'
        BY <2>1 DEF NewsAt
    <2> QED
        BY <1>0, <2>1, <2>2
<1>10. ASSUME NEW t \in Tab,
              Look(t) \/ (Settle(t) /\ Preempted(t)) \/ FetchFails(t) \/ EndPurge(t)
       PROVE  NewsKept'
    <2>1. Iterate(t) /\ UNCHANGED json /\ \A u \in Tab \ {t} : UNCHANGED <<asked[u], suspects[u]>>
        BY <1>10 DEF Look, Settle, FetchFails, EndPurge, TypeOK
    <2> QED
        BY <1>1, <2>1
<1>11. ASSUME UNCHANGED <<pc, asked, json, suspects, claimedAt>> PROVE NewsKept'
    <2>1. \A t \in Tab : NewsAt(t)'
        BY <1>11, NewsFrame DEF NewsKept, NewsAt
    <2> QED
        BY <2>1 DEF NewsKept, NewsAt
<1>12. CASE UNCHANGED vars
    BY <1>11, <1>12 DEF vars
<1>13. CASE ServerStep
    BY <1>11, <1>13 DEF ServerStep, End, LogEnd, RefuseStop, Restart, ServerOnly
<1>14. CASE Tick \/ Hibernate
    BY <1>11, <1>14 DEF Tick, Hibernate, Pass
<1>15. ASSUME NEW t \in Tab, EnterEvent(t) \/ EnterPurge(t) \/ EnterClick(t) \/ LeaveFollow(t)
       PROVE  NewsKept'
    BY <1>11, <1>15 DEF EnterEvent, EnterPurge, EnterClick, Enter, LeaveFollow
<1>16. ASSUME NEW t \in Tab, NEW r \in Run, Follow(t, r) \/ Unfollow(t, r) PROVE NewsKept'
    BY <1>11, <1>16 DEF Follow, Unfollow, Clicked
<1> QED
    BY <1>2, <1>3, <1>4, <1>5, <1>6, <1>7, <1>8, <1>9, <1>10, <1>12, <1>13, <1>14, <1>15, <1>16,
       <1>17 DEF Next, LoopStep, LeaveStep, UserStep
-----------------------------------------------------------------------------
(* The invariant, and what it implies *)

LEMMA InitInductive == Init => Inductive
<1> SUFFICES ASSUME Init PROVE Inductive
    OBVIOUS
<1>1. TypeOK
    <2>1. now \in 0..LastTime
        BY NumbersAssumption DEF Init, LastTime
    <2>2. pc \in [Tab -> LoopState]
        BY DEF Init, LoopState
    <2>3. sinceClaim \in 0..FetchInterval /\ timer \in [Tab -> Int] /\ claimedAt \in [Tab -> Nat]
        BY NumbersAssumption DEF Init
    <2> QED
        BY <2>1, <2>2, <2>3 DEF Init, TypeOK
<1>2. IsFiniteSet(followed) /\ ListKept
    BY FS_EmptySet, NumbersAssumption DEF Init, ListKept
<1>3. SectionsKept /\ LoopKept /\ NewsKept
    BY DEF Init, SectionsKept, LoopKept, NewsKept
<1>4. Told = {} /\ \A t \in Tab : Prepared(t) = {} /\ InHand(t) = {}
    BY DEF Init, Told, Prepared, InHand
<1>5. Placed = {}
    BY <1>4, InPlaced DEF Init
<1>6. NumbersKept /\ NoneLost
    BY <1>5 DEF Init, NumbersKept, NoneLost
<1>7. OnePlace
    BY <1>4, NoneAssumption DEF Init, OnePlace, OneNotice
<1> QED
    BY <1>1, <1>2, <1>3, <1>6, <1>7 DEF Inductive

LEMMA StepInductive ==
    ASSUME WebLocks, Inductive, [Next]_vars
    PROVE  Inductive'
<1> USE DEF Inductive
<1>1. TypeOK'
    BY TypeStep
<1>2. SectionsKept' /\ LoopKept' /\ NewsKept'
    BY <1>1, SectionsStep, LoopKeptStep, NewsStep
<1>3. IsFiniteSet(followed') /\ Placement'
    <2>1. Placement
        BY DEF Placement
    <2>2. ASSUME NEW t \in Tab, LeaveStep(t) PROVE IsFiniteSet(followed') /\ Placement'
        BY <2>1, <2>2, FollowPlacement, UnfollowPlacement DEF LeaveStep
    <2>3. ASSUME NEW t \in Tab, StartTelling(t) \/ Tell(t) \/ Close(t)
          PROVE  IsFiniteSet(followed') /\ Placement'
        <3>1. followed' = followed
            BY <2>3 DEF StartTelling, Tell, Close, storage
        <3> QED
            BY <2>1, <2>3, <3>1, StartTellingPlacement, TellPlacement, ClosePlacement
    <2>4. ASSUME \A t \in Tab : ~(LeaveStep(t) \/ StartTelling(t) \/ Tell(t) \/ Close(t))
          PROVE  IsFiniteSet(followed') /\ Placement'
        <3>1. UNCHANGED places
            BY <2>4, QuietStep
        <3> QED
            BY <2>1, <3>1, QuietPlacement DEF places
    <2> QED
        BY <2>2, <2>3, <2>4
<1> QED
    BY <1>1, <1>2, <1>3 DEF Placement

\* In a browser with Web Locks the inductive invariant holds at all times.
THEOREM InductiveHolds == ASSUME WebLocks PROVE Spec => []Inductive
<1>1. Inductive /\ [Next]_vars => Inductive'
    BY StepInductive
<1> QED
    BY InitInductive, <1>1, PTL DEF Spec

\* The variables keep their types.
THEOREM TypeHolds == ASSUME WebLocks PROVE Spec => []TypeOK
<1>1. Inductive => TypeOK
    BY DEF Inductive
<1> QED
    BY InductiveHolds, <1>1, PTL

\* The list of followed runs has no run twice and keeps its length, for any number of
\* tabs that change it at a time.
THEOREM ListHolds == ASSUME WebLocks PROVE Spec => []ListKept
<1>1. Inductive => ListKept
    BY DEF Inductive
<1> QED
    BY InductiveHolds, <1>1, PTL

\* At most one tab tells of the end of a followed run, and tells it once.
THEOREM OnePlaceHolds == ASSUME WebLocks PROVE Spec => []OnePlace
<1>1. Inductive => OnePlace
    BY DEF Inductive
<1> QED
    BY InductiveHolds, <1>1, PTL

\* No subscription gets lost between the tabs, not even when tabs are closed.
THEOREM NoneLostHolds == ASSUME WebLocks PROVE Spec => []NoneLost
<1>1. Inductive => NoneLost
    BY DEF Inductive
<1> QED
    BY InductiveHolds, <1>1, PTL

LEMMA PurgeStep ==
    ASSUME Inductive, [Next]_vars, NEW t \in Tab, NEW s \in stale'[t] \ stale[t]
    PROVE  News(s) \subseteq cut
<1> USE DEF storage, server, loop, history
<1>1. CASE Check(t)
    <2>1. pc[t] = "checking" /\ s \in suspects[t] /\ ~Recent(t, s.run)
        BY <1>1 DEF Check, At, Inductive, TypeOK
    <2>2. OldNews(t, s) \subseteq cut
        BY <2>1 DEF Inductive, NewsKept
    <2>3. claimedAt[t] \in Nat /\ Grace \in Nat /\ \A e \in log : e.time \in Nat
        BY NumbersAssumption DEF Inductive, TypeOK, Event
    <2> QED
        BY <2>1, <2>2, <2>3 DEF News, Recent, OldNews
<1>2. ASSUME NEW u \in Tab, u # t, Check(u)
      PROVE  FALSE
    BY <1>2 DEF Check, Inductive, TypeOK
<1>3. ASSUME stale' = stale
      PROVE  FALSE
    BY <1>3
<1>4. ASSUME NEW u \in Tab, FetchFails(u) \/ LeaveUnfollow(u) \/ Close(u)
      PROVE  FALSE
    BY <1>4 DEF FetchFails, LeaveUnfollow, Close, Inductive, TypeOK
<1>5. CASE UNCHANGED vars \/ ServerStep \/ Tick \/ Hibernate
    BY <1>3, <1>5 DEF vars, ServerStep, End, LogEnd, RefuseStop, Restart, ServerOnly, Tick,
       Hibernate, Pass
<1>6. ASSUME NEW u \in Tab, LoopStep(u), ~Check(u)
      PROVE  FALSE
    BY <1>3, <1>6 DEF LoopStep, Look, Claim, Sign, Settle, Gather, Answer, Receive, EnterEvent,
       Enter, StartTelling, Tell, EndLoop, MarkPurge, Suspect, ActiveRuns, NextCheck,
       EnterPurge, EndPurge
<1>7. ASSUME NEW u \in Tab, EnterClick(u) \/ LeaveFollow(u) \/ Open(u)
      PROVE  FALSE
    BY <1>3, <1>7 DEF EnterClick, Enter, LeaveFollow, Open
<1>8. ASSUME NEW u \in Tab, NEW r \in Run, Follow(u, r) \/ Unfollow(u, r)
      PROVE  FALSE
    BY <1>3, <1>8 DEF Follow, Unfollow, Clicked
<1> QED
    BY <1>1, <1>2, <1>4, <1>5, <1>6, <1>7, <1>8 DEF Next, LeaveStep, UserStep

\* When a purge finds a subscription to be stale, the subscription has no news but what was
\* cut off an answer, whatever the timers and the network do.  (News that is logged between
\* this finding and the removal goes unnoticed.)
THEOREM PurgeKeepsNewsHolds == ASSUME WebLocks PROVE Spec => PurgeKeepsNews
<1>1. Inductive /\ [Next]_vars => 
                [\A t \in Tab : \A s \in stale'[t] \ stale[t] : News(s) \subseteq cut]_vars
    BY PurgeStep
<1> QED
    BY InductiveHolds, <1>1, PTL DEF Spec, PurgeKeepsNews
=============================================================================
