-------------------------- MODULE BroadcastsProofs --------------------------
(* Theorems about Broadcasts, for any numbers of tabs and runs and any bounds. *)
EXTENDS Broadcasts, SequenceTheorems, TLAPS

-----------------------------------------------------------------------------
(* The members of sequences *)

LEMMA ToSetEmpty == ToSet(<<>>) = {}
BY DEF ToSet

LEMMA ToSetMember ==
    ASSUME NEW S, NEW s \in Seq(S)
    PROVE  ToSet(s) \subseteq S
BY DEF ToSet

LEMMA ToSetSingle ==
    ASSUME NEW e
    PROVE  ToSet(<<e>>) = {e}
BY DEF ToSet

LEMMA ToSetPair ==
    ASSUME NEW d, NEW e
    PROVE  ToSet(<<d, e>>) = {d, e}
BY DEF ToSet

LEMMA ToSetAppend ==
    ASSUME NEW S, NEW s \in Seq(S), NEW e \in S
    PROVE  ToSet(Append(s, e)) = ToSet(s) \cup {e}
<1>1. /\ Append(s, e) \in Seq(S) /\ Len(Append(s, e)) = Len(s) + 1
      /\ Append(s, e)[Len(s) + 1] = e
      /\ \A i \in 1..Len(s) : Append(s, e)[i] = s[i]
    OBVIOUS
<1>2. DOMAIN s = 1..Len(s) /\ DOMAIN Append(s, e) = 1..(Len(s) + 1) /\ Len(s) \in Nat
    BY <1>1
<1> QED
    BY <1>1, <1>2 DEF ToSet

LEMMA ToSetTail ==
    ASSUME NEW S, NEW s \in Seq(S), s # <<>>
    PROVE  /\ Head(s) \in S /\ Tail(s) \in Seq(S)
           /\ ToSet(s) = {Head(s)} \cup ToSet(Tail(s))
<1>1. /\ Head(s) \in S /\ Tail(s) \in Seq(S) /\ Len(Tail(s)) = Len(s) - 1
      /\ Head(s) = s[1] /\ \A i \in 1..Len(Tail(s)) : Tail(s)[i] = s[i + 1]
    BY HeadTailProperties
<1>2. Len(s) \in Nat \ {0} /\ DOMAIN s = 1..Len(s) /\ DOMAIN Tail(s) = 1..(Len(s) - 1)
    BY <1>1, EmptySeq
<1>3. ASSUME NEW i \in DOMAIN s
      PROVE  s[i] = Head(s) \/ (i - 1 \in DOMAIN Tail(s) /\ s[i] = Tail(s)[i - 1])
    BY <1>1, <1>2, <1>3
<1>4. ASSUME NEW i \in DOMAIN Tail(s)
      PROVE  i + 1 \in DOMAIN s /\ Tail(s)[i] = s[i + 1]
    BY <1>1, <1>2, <1>4
<1>5. 1 \in DOMAIN s
    BY <1>2
<1> QED
    BY <1>1, <1>3, <1>4, <1>5 DEF ToSet

LEMMA ToSetConcat ==
    ASSUME NEW S, NEW s1 \in Seq(S), NEW s2 \in Seq(S)
    PROVE  s1 \o s2 \in Seq(S) /\ ToSet(s1 \o s2) = ToSet(s1) \cup ToSet(s2)
<1>1. /\ s1 \o s2 \in Seq(S) /\ Len(s1 \o s2) = Len(s1) + Len(s2)
      /\ \A i \in 1..Len(s1) + Len(s2) :
            (s1 \o s2)[i] = IF i <= Len(s1) THEN s1[i] ELSE s2[i - Len(s1)]
    BY ConcatProperties
<1>2. /\ Len(s1) \in Nat /\ Len(s2) \in Nat
      /\ DOMAIN s1 = 1..Len(s1) /\ DOMAIN s2 = 1..Len(s2)
      /\ DOMAIN (s1 \o s2) = 1..(Len(s1) + Len(s2))
    BY <1>1
<1>3. ASSUME NEW i \in DOMAIN (s1 \o s2)
      PROVE  (s1 \o s2)[i] \in ToSet(s1) \cup ToSet(s2)
    BY <1>1, <1>2, <1>3 DEF ToSet
<1>4. ASSUME NEW i \in DOMAIN s1
      PROVE  s1[i] = (s1 \o s2)[i] /\ i \in DOMAIN (s1 \o s2)
    BY <1>1, <1>2, <1>4
<1>5. ASSUME NEW i \in DOMAIN s2
      PROVE  s2[i] = (s1 \o s2)[i + Len(s1)] /\ i + Len(s1) \in DOMAIN (s1 \o s2)
    BY <1>1, <1>2, <1>5
<1>6. ToSet(s1 \o s2) \subseteq ToSet(s1) \cup ToSet(s2)
    BY <1>3 DEF ToSet
<1>7. ToSet(s1) \subseteq ToSet(s1 \o s2)
    BY <1>4 DEF ToSet
<1>8. ToSet(s2) \subseteq ToSet(s1 \o s2)
    BY <1>5 DEF ToSet
<1> QED
    BY <1>1, <1>6, <1>7, <1>8

LEMMA ToSetRemoveAt ==
    ASSUME NEW S, NEW s \in Seq(S), NEW i \in DOMAIN s
    PROVE  /\ RemoveAt(s, i) \in Seq(S)
           /\ ToSet(RemoveAt(s, i)) \subseteq ToSet(s)
           /\ ToSet(s) \ {s[i]} \subseteq ToSet(RemoveAt(s, i))
<1> DEFINE before == SubSeq(s, 1, i - 1)
           after == SubSeq(s, i + 1, Len(s))
<1>1. Len(s) \in Nat /\ DOMAIN s = 1..Len(s) /\ i \in 1..Len(s)
    OBVIOUS
<1>2. /\ before \in Seq(S) /\ Len(before) = i - 1
      /\ \A j \in 1..(i - 1) : before[j] = s[j]
    BY <1>1
<1>3. /\ after \in Seq(S) /\ Len(after) = Len(s) - i
      /\ \A j \in 1..(Len(s) - i) : after[j] = s[i + j]
    BY <1>1
<1>4. DOMAIN before = 1..(i - 1) /\ DOMAIN after = 1..(Len(s) - i)
    BY <1>1, <1>2, <1>3
<1>5. RemoveAt(s, i) \in Seq(S) /\ ToSet(RemoveAt(s, i)) = ToSet(before) \cup ToSet(after)
    BY <1>2, <1>3, ToSetConcat DEF RemoveAt
<1> HIDE DEF before, after
<1>6. ToSet(before) \subseteq ToSet(s) /\ ToSet(after) \subseteq ToSet(s)
    <2>1. ASSUME NEW j \in DOMAIN before
          PROVE  j \in DOMAIN s /\ before[j] = s[j]
        BY <1>1, <1>2, <1>4, <2>1
    <2>2. ASSUME NEW j \in DOMAIN after
          PROVE  i + j \in DOMAIN s /\ after[j] = s[i + j]
        BY <1>1, <1>3, <1>4, <2>2
    <2>3. ToSet(before) \subseteq ToSet(s)
        BY <2>1 DEF ToSet
    <2>4. ToSet(after) \subseteq ToSet(s)
        BY <2>2 DEF ToSet
    <2> QED
        BY <2>3, <2>4
<1>7. ASSUME NEW j \in DOMAIN s, s[j] # s[i]
      PROVE  s[j] \in ToSet(before) \cup ToSet(after)
    <2>1. CASE j < i
        <3>1. j \in DOMAIN before /\ before[j] = s[j]
            BY <1>1, <1>2, <1>4, <2>1
        <3> QED
            BY <3>1 DEF ToSet
    <2>2. CASE j > i
        <3>1. j - i \in DOMAIN after /\ after[j - i] = s[j]
            BY <1>1, <1>3, <1>4, <2>2
        <3> QED
            BY <3>1 DEF ToSet
    <2> QED
        BY <1>1, <1>7, <2>1, <2>2
<1>8. ToSet(s) \ {s[i]} \subseteq ToSet(before) \cup ToSet(after)
    BY <1>7 DEF ToSet
<1> QED
    BY <1>5, <1>6, <1>8
-----------------------------------------------------------------------------
(* Commands and the list *)

LEMMA CommandsDiffer ==
    ASSUME NEW r \in Run
    PROVE  /\ Status(r) \in Announcement /\ Disable(r) \in Announcement
           /\ Notify(r) \in Announcement /\ Dismissal \in Command
           /\ Notify(r) # Dismissal /\ Status(r) # Dismissal /\ Disable(r) # Dismissal
           /\ \A q \in Run : /\ Status(r) = Status(q) => r = q
                             /\ Notify(r) = Notify(q) => r = q
                             /\ Status(r) # Disable(q) /\ Status(r) # Notify(q)
                             /\ Disable(r) # Notify(q)
BY DEF Status, Disable, Notify, Dismissal, Command, Announcement

\* What a command changes: one button, and the notices.
LEMMA DispatchChanges ==
    ASSUME NEW p \in Page, NEW c \in Command
    PROVE  /\ Dispatch(p, c) \in Page
           /\ \A r \in Run : Dispatch(p, c).unfollow[r]
                = IF c = Status(r) THEN Following(r) ELSE p.unfollow[r]
           /\ c = Dismissal => Dispatch(p, c).notices = {}
           /\ c # Dismissal => p.notices \subseteq Dispatch(p, c).notices
           /\ \A r \in Run : c = Notify(r) => r \in Dispatch(p, c).notices
<1>1. CASE c = Dismissal
    BY <1>1 DEF Page, Dismissal, Dispatch, DismissNotification, Status, Notify
<1>2. ASSUME NEW q \in Run, c = Status(q)
      PROVE  /\ Dispatch(p, c) = [p EXCEPT !.unfollow[q] = Following(q)]
             /\ Following(q) \in BOOLEAN
             /\ \A r \in Run : c = Status(r) <=> r = q
             /\ \A r \in Run : c # Notify(r)
             /\ c # Dismissal
    BY <1>2 DEF Dispatch, SetNotificationStatus, Status, Dismissal, Notify, Following
<1>3. CASE \E q \in Run : c = Status(q)
    BY <1>2, <1>3 DEF Page
<1>4. CASE \E q \in Run : c = Disable(q)
    BY <1>4 DEF Page, Dispatch, DisableNotification, Status, Disable, Dismissal, Notify
<1>5. CASE \E q \in Run : c = Notify(q)
    BY <1>5 DEF Page, Dispatch, NotifyFishtest, Status, Dismissal, Notify
<1> QED
    BY <1>1, <1>3, <1>4, <1>5 DEF Command, Status, Disable, Notify, Dismissal
LEMMA ListType ==
    ASSUME followed \in Seq(Run), NEW r \in Run
    PROVE  /\ With(r) \in Seq(Run) /\ Added(r) \in Seq(Run) /\ Removed(r) \in Seq(Run)
           /\ Len(With(r)) > Capacity => With(r) # <<>>
<1>1. With(r) \in Seq(Run)
    BY DEF With
<1>2. Len(With(r)) > Capacity => With(r) # <<>>
    BY BoundsAssumption
<1>3. Added(r) \in Seq(Run)
    BY <1>1, <1>2, ToSetTail DEF Added
<1>4. Removed(r) \in Seq(Run)
    <2>1. CASE Following(r)
        <3>1. \E i \in DOMAIN followed : followed[i] = r
            BY <2>1 DEF Following, ToSet
        <3> QED
            BY <2>1, <3>1, ToSetRemoveAt DEF Removed
    <2> QED
        BY <2>1 DEF Removed
<1> QED
    BY <1>1, <1>2, <1>3, <1>4

\* LRU.add changes whether the run and the one that is dropped are followed.
LEMMA AddedRuns ==
    ASSUME followed \in Seq(Run), NEW r \in Run, NEW q \in Run,
           ~(q \in ToSet(followed) <=> q \in ToSet(Added(r)))
    PROVE  q = r \/ (Len(With(r)) > Capacity /\ q = Head(With(r)))
<1>1. ToSet(With(r)) = ToSet(followed) \cup {r}
    BY ToSetAppend DEF With, Following
<1>2. CASE Len(With(r)) > Capacity
    <2>1. ToSet(With(r)) = {Head(With(r))} \cup ToSet(Added(r))
        BY <1>2, ListType, ToSetTail DEF Added
    <2> QED
        BY <1>1, <1>2, <2>1
<1> QED
    BY <1>1, <1>2 DEF Added

\* LRU.remove changes only whether the run is followed, if it is.
LEMMA RemovedRuns ==
    ASSUME followed \in Seq(Run), NEW r \in Run, NEW q \in Run,
           ~(q \in ToSet(followed) <=> q \in ToSet(Removed(r)))
    PROVE  q = r /\ Following(r)
<1>1. CASE Following(r)
    <2> DEFINE i == CHOOSE i \in DOMAIN followed : followed[i] = r
    <2>1. i \in DOMAIN followed /\ followed[i] = r
        BY <1>1 DEF Following, ToSet
    <2>2. Removed(r) = RemoveAt(followed, i)
        BY <1>1 DEF Removed
    <2> HIDE DEF i
    <2> QED
        BY <1>1, <2>1, <2>2, ToSetRemoveAt
<1> QED
    BY <1>1 DEF Removed

\* What a handler owes are announcements.
LEMMA PiecesType ==
    ASSUME followed \in Seq(Run), NEW h \in Handler
    PROVE  Pieces(h) \in Seq(Seq(Announcement))
<1>1. h.run \in Run /\ h.op \in {"follow", "unfollow", "submit", "stop", "end", "purge"}
    BY DEF Handler, Op
<1>2. /\ Status(h.run) \in Announcement /\ Disable(h.run) \in Announcement
      /\ Notify(h.run) \in Announcement
    BY <1>1, CommandsDiffer
<1>3. AnnounceDropped(h.run) \in Seq(Announcement)
    <2>1. CASE Len(With(h.run)) > Capacity
        <3>1. Status(Head(With(h.run))) \in Announcement
            BY <1>1, <2>1, ListType, ToSetTail, CommandsDiffer
        <3> QED
            BY <2>1, <3>1 DEF AnnounceDropped
    <2> QED
        BY <2>1 DEF AnnounceDropped
<1>4. AnnounceDropped(h.run) \o <<Status(h.run)>> \in Seq(Announcement)
    BY <1>2, <1>3
<1> HIDE DEF Announcement
<1> QED
    BY <1>1, <1>2, <1>4 DEF Pieces

\* A change of the list is announced, except for those that Access counts as silent.
LEMMA ChangesAnnounced ==
    ASSUME followed \in Seq(Run), NEW h \in Handler, NEW q \in Run,
           followed' = IF h.op \in {"follow", "submit"} THEN Added(h.run) ELSE Removed(h.run),
           ~(q \in ToSet(followed) <=> q \in ToSet(followed'))
    PROVE  \/ q \in Announced(Pieces(h))
           \/ h.op = "submit" /\ q # h.run
           \/ h.op \in {"stop", "purge"}
<1>1. h.run \in Run /\ h.op \in {"follow", "unfollow", "submit", "stop", "end", "purge"}
    BY DEF Handler, Op
<1>2. Status(h.run) \in Announcement /\ Disable(h.run) \in Announcement
    BY <1>1, CommandsDiffer
<1>3. CASE h.op = "follow"
    <2> DEFINE piece == AnnounceDropped(h.run) \o <<Status(h.run)>>
    <2>1. ToSet(Pieces(h)) = {piece}
        BY <1>3, ToSetSingle DEF Pieces
    <2>2. q = h.run \/ (Len(With(h.run)) > Capacity /\ q = Head(With(h.run)))
        BY <1>1, <1>3, AddedRuns
    <2>3. CASE Len(With(h.run)) > Capacity
        <3>1. Status(Head(With(h.run))) \in Announcement
            BY <1>1, <2>3, ListType, ToSetTail, CommandsDiffer
        <3>2. /\ AnnounceDropped(h.run) \in Seq(Announcement)
              /\ ToSet(AnnounceDropped(h.run)) = {Status(Head(With(h.run)))}
            BY <2>3, <3>1, ToSetSingle DEF AnnounceDropped
        <3>3. <<Status(h.run)>> \in Seq(Announcement)
            BY <1>2
        <3>4. ToSet(piece) = ToSet(AnnounceDropped(h.run)) \cup ToSet(<<Status(h.run)>>)
            BY <3>2, <3>3, ToSetConcat
        <3>5. ToSet(piece) = {Status(Head(With(h.run))), Status(h.run)}
            BY <3>2, <3>4, ToSetSingle
        <3> QED
            BY <2>1, <2>2, <3>5 DEF Announced
    <2>4. CASE ~(Len(With(h.run)) > Capacity)
        <3>1. ToSet(piece) = {Status(h.run)}
            BY <1>2, <2>4, ToSetSingle DEF AnnounceDropped
        <3> QED
            BY <2>1, <2>2, <2>4, <3>1 DEF Announced
    <2> QED
        BY <2>3, <2>4
<1>4. CASE (h.op = "submit" /\ q = h.run) \/ h.op = "unfollow"
    <2>1. ToSet(Pieces(h)) = {<<Status(h.run)>>}
        BY <1>4, ToSetSingle DEF Pieces
    <2>2. q = h.run
        BY <1>1, <1>4, RemovedRuns
    <2> QED
        BY <2>1, <2>2, ToSetSingle DEF Announced
<1>5. CASE h.op = "end"
    <2>1. q = h.run /\ Following(h.run)
        BY <1>1, <1>5, RemovedRuns
    <2>2. <<Disable(h.run), Status(h.run)>> \in ToSet(Pieces(h))
        BY <1>5, <2>1, ToSetPair DEF Pieces
    <2>3. Status(q) \in ToSet(<<Disable(h.run), Status(h.run)>>)
        BY <2>1, ToSetPair
    <2> QED
        BY <2>2, <2>3 DEF Announced
<1> QED
    BY <1>1, <1>3, <1>4, <1>5
-----------------------------------------------------------------------------
(* Types *)

LEMMA StartType ==
    ASSUME TypeOK, NEW t \in Tab, NEW r \in Run,
           NEW op \in Op,
           Start(t, op, r)
    PROVE  TypeOK'
<1>1. [op |-> op, run |-> r] \in Handler
    BY DEF Handler
<1> QED
    BY <1>1, BoundsAssumption DEF TypeOK, Start

LEMMA BroadcastType ==
    ASSUME TypeOK, NEW t \in Tab, Broadcast(t)
    PROVE  TypeOK'
<1> DEFINE c == Head(sending[t])
<1>1. sending[t] \in Seq(Command) /\ sending[t] # <<>>
    BY DEF TypeOK, Broadcast
<1>2. c \in Command /\ Tail(sending[t]) \in Seq(Command)
    BY <1>1, ToSetTail
<1>3. page[t] \in Page /\ Dispatch(page[t], c) \in Page
    BY <1>2, DispatchChanges DEF TypeOK
<1>4. Silent(silent[t], c) \subseteq Run
    BY DEF Silent, TypeOK
<1>5. unseen' \subseteq Run
    <2>1. c.cmd = "notify" => c.run \in Run
        BY <1>2 DEF Command
    <2> QED
        BY <2>1 DEF Broadcast, TypeOK
<1> HIDE DEF c
<1>6. queue' \in [Tab -> Seq(Command)]
    <2>1. \A u \in Tab : Append(queue[u], c) \in Seq(Command)
        BY <1>2 DEF TypeOK
    <2> QED
        BY <2>1 DEF Broadcast, TypeOK, c
<1> QED
    BY <1>2, <1>3, <1>4, <1>5, <1>6 DEF Broadcast, TypeOK, c

LEMMA ReceiveType ==
    ASSUME TypeOK, NEW t \in Tab, Receive(t)
    PROVE  TypeOK'
<1>1. Head(queue[t]) \in Command /\ Tail(queue[t]) \in Seq(Command)
    BY ToSetTail DEF TypeOK, Receive
<1>2. Dispatch(page[t], Head(queue[t])) \in Page
    BY <1>1, DispatchChanges DEF TypeOK
<1>3. Silent(silent[t], Head(queue[t])) \subseteq Run
    BY DEF Silent, TypeOK
<1> QED
    BY <1>1, <1>2, <1>3 DEF Receive, TypeOK

LEMMA LoadingType ==
    ASSUME TypeOK, NEW t \in Tab, Miss(t) \/ Loaded(t)
    PROVE  TypeOK'
<1>1. CASE Miss(t)
    <2>1. Tail(queue[t]) \in Seq(Command)
        BY <1>1, ToSetTail DEF TypeOK, Miss
    <2> QED
        BY <1>1, <2>1 DEF Miss, TypeOK
<1>2. CASE Loaded(t)
    <2>1. Fresh.unfollow \in [Run -> BOOLEAN]
        BY DEF Fresh, Following
    <2>2. page' \in [Tab -> Page]
        <3>1. page[t] \in Page /\ [page[t] EXCEPT !.unfollow = Fresh.unfollow] \in Page
            BY <2>1 DEF TypeOK, Page
        <3> QED
            BY <1>2, <3>1 DEF Loaded, TypeOK
    <2> QED
        BY <1>2, <2>2 DEF Loaded, TypeOK
<1> QED
    BY <1>1, <1>2

LEMMA AccessType ==
    ASSUME TypeOK, NEW t \in Tab, Access(t)
    PROVE  TypeOK'
<1>1. PICK h \in waiting[t] :
        /\ followed' = IF h.op \in {"follow", "submit"} THEN Added(h.run) ELSE Removed(h.run)
        /\ waiting' = [waiting EXCEPT ![t] = @ \ {h}]
        /\ owed' = [owed EXCEPT ![t] = @ \cup ({Pieces(h)} \ {<<>>})]
    BY DEF Access
<1>2. h \in Handler /\ h.run \in Run
    BY <1>1 DEF TypeOK, Handler
<1>3. followed' \in Seq(Run)
    BY <1>1, <1>2, ListType DEF TypeOK
<1>4. Pieces(h) \in Seq(Seq(Announcement))
    BY <1>2, PiecesType DEF TypeOK
<1>5. waiting' \in [Tab -> SUBSET Handler]
    BY <1>1 DEF TypeOK
<1>6. owed' \in [Tab -> SUBSET (Seq(Seq(Announcement)) \ {<<>>})]
    BY <1>1, <1>4 DEF TypeOK
<1>7. silent' \in [Tab -> SUBSET Run]
    <2>1. ToSet(followed) \subseteq Run /\ ToSet(followed') \subseteq Run
        BY <1>3, ToSetMember DEF TypeOK
    <2> QED
        BY <2>1 DEF Access, TypeOK
<1> QED
    BY <1>3, <1>5, <1>6, <1>7 DEF Access, TypeOK

LEMMA ContinueType ==
    ASSUME TypeOK, NEW t \in Tab, Continue(t)
    PROVE  TypeOK'
<1>1. PICK pieces \in owed[t] :
        /\ sending' = [sending EXCEPT ![t] = Head(pieces)]
        /\ owed' = [owed EXCEPT ![t] = (@ \ {pieces}) \cup ({Tail(pieces)} \ {<<>>})]
    BY DEF Continue
<1>2. pieces \in Seq(Seq(Announcement)) /\ pieces # <<>>
    BY <1>1 DEF TypeOK
<1>3. Head(pieces) \in Seq(Announcement) /\ Tail(pieces) \in Seq(Seq(Announcement))
    BY <1>2, ToSetTail
<1>4. Head(pieces) \in Seq(Command)
    BY <1>3 DEF Announcement
<1> QED
    BY <1>1, <1>3, <1>4 DEF Continue, TypeOK

LEMMA UserType ==
    ASSUME TypeOK, NEW t \in Tab, Dismiss(t) \/ Close(t) \/ Open(t)
    PROVE  TypeOK'
<1>1. CASE Dismiss(t)
    <2>1. <<Dismissal>> \in Seq(Command)
        BY DEF Command, Dismissal
    <2> QED
        BY <1>1, <2>1 DEF Dismiss, TypeOK
<1>2. CASE Close(t)
    <2>1. [unfollow |-> [r \in Run |-> FALSE], disabled |-> {}, notices |-> {}] \in Page
        BY DEF Page
    <2>2. silent' \in [Tab -> SUBSET Run]
        BY <1>2 DEF Close, TypeOK, Announced
    <2>3. <<>> \in Seq(Command)
        OBVIOUS
    <2> QED
        BY <1>2, <2>1, <2>2, <2>3 DEF Close, TypeOK
<1>3. CASE Open(t)
    <2>1. Fresh \in Page
        BY DEF Fresh, Page, Following
    <2> QED
        BY <1>3, <2>1, BoundsAssumption DEF Open, TypeOK
<1> QED
    BY <1>1, <1>2, <1>3

\* A step of Next starts a handler or is one of the others.
Starts(t) == \E r \in Run, op \in Op : Start(t, op, r)
StepOf(t) ==
    \/ Broadcast(t) \/ Receive(t) \/ Access(t) \/ Continue(t)
    \/ Dismiss(t) \/ Close(t) \/ Open(t) \/ Starts(t) \/ Miss(t) \/ Loaded(t)

LEMMA Steps ==
    ASSUME Next
    PROVE  \E t \in Tab : StepOf(t)
BY DEF Next, Toggle, Submit, StopDelete, EventOf, Stale, StepOf, Starts, Op

LEMMA TypeKept ==
    ASSUME TypeOK, [Next]_vars
    PROVE  TypeOK'
<1>1. CASE Next
    BY <1>1, Steps, StartType, BroadcastType, ReceiveType, LoadingType, AccessType,
       ContinueType, UserType
       DEF StepOf, Starts
<1>2. CASE UNCHANGED vars
    BY <1>2 DEF TypeOK, vars
<1> QED
    BY <1>1, <1>2

LEMMA ClosedKept ==
    ASSUME TypeOK, ClosedIdle, [Next]_vars
    PROVE  ClosedIdle'
<1>1. CASE Next
    <2>1. PICK t \in Tab : StepOf(t)
        BY <1>1, Steps
    <2>2. CASE Broadcast(t)
        BY <2>2 DEF Broadcast, ClosedIdle, TypeOK
    <2>3. CASE Receive(t)
        BY <2>3 DEF Receive, Idle, ClosedIdle, TypeOK
    <2>4. CASE Access(t)
        BY <2>4 DEF Access, Idle, ClosedIdle, TypeOK
    <2>5. CASE Continue(t)
        BY <2>5 DEF Continue, Idle, ClosedIdle, TypeOK
    <2>6. CASE Dismiss(t)
        BY <2>6 DEF Dismiss, Idle, ClosedIdle, TypeOK
    <2>7. CASE Close(t)
        BY <2>7 DEF Close, ClosedIdle, TypeOK
    <2>8. CASE Open(t)
        BY <2>8 DEF Open, ClosedIdle, TypeOK
    <2>9. CASE Starts(t)
        BY <2>9 DEF Starts, Start, Idle, ClosedIdle, TypeOK
    <2>10. CASE Miss(t) \/ Loaded(t)
        BY <2>10 DEF Miss, Loaded, Idle, ClosedIdle, TypeOK
    <2> QED
        BY <2>1, <2>2, <2>3, <2>4, <2>5, <2>6, <2>7, <2>8, <2>9, <2>10 DEF StepOf
<1>2. CASE UNCHANGED vars
    BY <1>2 DEF ClosedIdle, vars
<1> QED
    BY <1>1, <1>2
-----------------------------------------------------------------------------
(* Buttons *)

LEMMA BroadcastButtons ==
    ASSUME TypeOK, ButtonsCurrent, NEW t \in Tab, Broadcast(t)
    PROVE  ButtonsCurrent'
<1> DEFINE c == Head(sending[t])
<1>1. /\ c \in Command /\ Tail(sending[t]) \in Seq(Command)
      /\ ToSet(sending[t]) = {c} \cup ToSet(Tail(sending[t]))
    BY ToSetTail DEF TypeOK, Broadcast
<1>2. /\ followed' = followed /\ open' = open /\ owed' = owed
      /\ page' = [page EXCEPT ![t] = Dispatch(@, c)]
      /\ silent' = [silent EXCEPT ![t] = Silent(@, c)]
      /\ sending' = [sending EXCEPT ![t] = Tail(@)]
      /\ \A u \in Tab : queue'[u] =
            IF u \in open \ {t} THEN Append(queue[u], c) ELSE queue[u]
    BY DEF Broadcast
<1> HIDE DEF c
<1> SUFFICES ASSUME NEW u \in open, NEW r \in Run,
                    page'[u].unfollow[r] # Following(r)
             PROVE  ToBeTold(u, r)' \/ r \in silent'[u]
    BY <1>2 DEF ButtonsCurrent, Following
<1>3. u \in Tab /\ page[u] \in Page
    BY DEF TypeOK
<1>4. u = t => c # Status(r) /\ page[u].unfollow[r] # Following(r)
    BY <1>1, <1>2, <1>3, DispatchChanges DEF TypeOK
<1>5. u # t => page[u].unfollow[r] # Following(r) /\ ToSet(queue'[u]) = ToSet(queue[u]) \cup {c}
    BY <1>1, <1>2, <1>3, ToSetAppend DEF TypeOK
<1>6. ToBeTold(u, r) \/ r \in silent[u]
    BY <1>4, <1>5 DEF ButtonsCurrent
<1>7. CASE c = Status(r)
    BY <1>4, <1>5, <1>7 DEF ToBeTold
<1>8. CASE c # Status(r)
    <2>1. r \in silent[u] => r \in silent'[u]
        <3>1. c.cmd = "status" => c.run # r
            BY <1>1, <1>8 DEF Command, Status
        <3> QED
            BY <1>2, <1>3, <3>1 DEF Silent, TypeOK
    <2>2. Status(r) \in ToSet(queue[u]) => Status(r) \in ToSet(queue'[u])
        BY <1>2, <1>3, <1>5
    <2>3. ASSUME NEW v \in open, Status(r) \in ToSet(sending[v])
          PROVE  Status(r) \in ToSet(sending'[v])
        BY <1>1, <1>2, <1>8, <2>3 DEF TypeOK
    <2> QED
        BY <1>2, <1>6, <2>1, <2>2, <2>3 DEF ToBeTold, Owed
<1> QED
    BY <1>7, <1>8

LEMMA ReceiveButtons ==
    ASSUME TypeOK, ButtonsCurrent, NEW t \in Tab, Receive(t)
    PROVE  ButtonsCurrent'
<1> DEFINE c == Head(queue[t])
<1>1. c \in Command /\ ToSet(queue[t]) = {c} \cup ToSet(Tail(queue[t]))
    BY ToSetTail DEF TypeOK, Receive
<1>2. /\ followed' = followed /\ open' = open /\ owed' = owed /\ sending' = sending
      /\ page' = [page EXCEPT ![t] = Dispatch(@, c)]
      /\ silent' = [silent EXCEPT ![t] = Silent(@, c)]
      /\ queue' = [queue EXCEPT ![t] = Tail(@)]
    BY DEF Receive
<1> HIDE DEF c
<1> SUFFICES ASSUME NEW u \in open, NEW r \in Run,
                    page'[u].unfollow[r] # Following(r)
             PROVE  ToBeTold(u, r)' \/ r \in silent'[u]
    BY <1>2 DEF ButtonsCurrent, Following
<1>3. u \in Tab /\ page[u] \in Page
    BY DEF TypeOK
<1>4. page[u].unfollow[r] # Following(r) /\ (u = t => c # Status(r))
    BY <1>1, <1>2, <1>3, DispatchChanges DEF TypeOK
<1>5. ToBeTold(u, r) \/ r \in silent[u]
    BY <1>4 DEF ButtonsCurrent
<1>6. u = t /\ c.cmd = "status" => c.run # r
    BY <1>1, <1>4 DEF Command, Status
<1>7. r \in silent[u] => r \in silent'[u]
    BY <1>2, <1>3, <1>6 DEF Silent, TypeOK
<1>8. Status(r) \in ToSet(queue[u]) => Status(r) \in ToSet(queue'[u])
    BY <1>1, <1>2, <1>3, <1>4 DEF TypeOK
<1> QED
    BY <1>2, <1>5, <1>7, <1>8 DEF ToBeTold, Owed

LEMMA MissButtons ==
    ASSUME TypeOK, ButtonsCurrent, NEW t \in Tab, Miss(t)
    PROVE  ButtonsCurrent'
<1> DEFINE c == Head(queue[t])
<1>1. ToSet(queue[t]) = {c} \cup ToSet(Tail(queue[t]))
    BY ToSetTail DEF TypeOK, Miss
<1>2. /\ UNCHANGED <<followed, open, owed, sending, page>>
      /\ silent' = [silent EXCEPT ![t] = @ \cup {r \in Run : c = Status(r)}]
      /\ queue' = [queue EXCEPT ![t] = Tail(@)]
    BY DEF Miss
<1> HIDE DEF c
<1> SUFFICES ASSUME NEW u \in open, NEW r \in Run, page[u].unfollow[r] # Following(r)
             PROVE  ToBeTold(u, r)' \/ r \in silent'[u]
    BY <1>2 DEF ButtonsCurrent, Following
<1>3. u \in Tab /\ (ToBeTold(u, r) \/ r \in silent[u])
    BY DEF TypeOK, ButtonsCurrent
<1>4. r \in silent[u] => r \in silent'[u]
    BY <1>2, <1>3 DEF TypeOK
<1>5. Status(r) \in ToSet(queue[u]) => Status(r) \in ToSet(queue'[u]) \/ r \in silent'[u]
    BY <1>1, <1>2, <1>3 DEF TypeOK
<1> QED
    BY <1>2, <1>3, <1>4, <1>5 DEF ToBeTold, Owed

LEMMA LoadedButtons ==
    ASSUME TypeOK, ButtonsCurrent, NEW t \in Tab, Loaded(t)
    PROVE  ButtonsCurrent'
<1>1. UNCHANGED <<followed, open, queue, owed, sending>>
    BY DEF Loaded
<1> SUFFICES ASSUME NEW u \in open, NEW r \in Run, page'[u].unfollow[r] # Following(r)
             PROVE  ToBeTold(u, r) \/ r \in silent'[u]
    BY <1>1 DEF ButtonsCurrent, Following, ToBeTold, Owed
<1>2. u \in Tab /\ page[t] \in Page
    BY DEF TypeOK
<1>3. CASE UNCHANGED <<page, silent>>
    BY <1>3 DEF ButtonsCurrent
<1>4. CASE /\ page' = [page EXCEPT ![t].unfollow = Fresh.unfollow]
           /\ silent' = [silent EXCEPT ![t] = {}]
    <2>1. page'[t].unfollow = Fresh.unfollow
        BY <1>2, <1>4 DEF TypeOK, Page
    <2>2. u # t
        BY <2>1 DEF Fresh
    <2>3. page'[u] = page[u] /\ silent'[u] = silent[u]
        BY <1>2, <1>4, <2>2 DEF TypeOK
    <2> QED
        BY <2>3 DEF ButtonsCurrent
<1> QED
    BY <1>3, <1>4 DEF Loaded

LEMMA AccessButtons ==
    ASSUME TypeOK, ButtonsCurrent, NEW t \in Tab, Access(t)
    PROVE  ButtonsCurrent'
<1> DEFINE changed == (ToSet(followed) \ ToSet(followed'))
                        \cup (ToSet(followed') \ ToSet(followed))
           unannounced(h) == CASE h.op = "submit" -> changed \ {h.run}
                               [] h.op \in {"stop", "purge"} -> changed
                               [] OTHER -> {}
<1>1. PICK h \in waiting[t] :
        /\ followed' = IF h.op \in {"follow", "submit"} THEN Added(h.run) ELSE Removed(h.run)
        /\ owed' = [owed EXCEPT ![t] = @ \cup ({Pieces(h)} \ {<<>>})]
        /\ silent' = [u \in Tab |-> IF u \in open THEN silent[u] \cup unannounced(h) ELSE {}]
    BY DEF Access
<1>2. t \in open /\ open' = open /\ page' = page /\ queue' = queue /\ sending' = sending
    BY DEF Access, Idle
<1>3. h \in Handler
    BY <1>1 DEF TypeOK
<1> SUFFICES ASSUME NEW u \in open, NEW r \in Run,
                    page[u].unfollow[r] # Following(r)'
             PROVE  ToBeTold(u, r)' \/ r \in silent'[u]
    BY <1>2 DEF ButtonsCurrent
<1>4. u \in Tab
    BY DEF TypeOK
<1>5. CASE Following(r)' = Following(r)
    <2>1. ToBeTold(u, r) \/ r \in silent[u]
        BY <1>5 DEF ButtonsCurrent
    <2>2. \A v \in open : Owed(v, r) => Owed(v, r)'
        BY <1>1 DEF Owed, TypeOK
    <2>3. r \in silent[u] => r \in silent'[u]
        BY <1>1, <1>4
    <2> QED
        BY <1>2, <2>1, <2>2, <2>3 DEF ToBeTold
<1>6. CASE Following(r)' # Following(r)
    <2>1. ~(r \in ToSet(followed) <=> r \in ToSet(followed'))
        BY <1>6 DEF Following
    <2>2. \/ r \in Announced(Pieces(h))
          \/ h.op = "submit" /\ r # h.run
          \/ h.op \in {"stop", "purge"}
        BY <1>1, <1>3, <2>1, ChangesAnnounced DEF TypeOK
    <2>3. CASE r \in Announced(Pieces(h))
        <3>1. Pieces(h) # <<>>
            BY <2>3, ToSetEmpty DEF Announced
        <3>2. Owed(t, r)'
            BY <1>1, <2>3, <3>1 DEF Owed, TypeOK
        <3> QED
            BY <1>2, <3>2 DEF ToBeTold
    <2>4. CASE (h.op = "submit" /\ r # h.run) \/ h.op \in {"stop", "purge"}
        <3>1. r \in unannounced(h)
            BY <2>1, <2>4
        <3> QED
            BY <1>1, <1>4, <3>1
    <2> QED
        BY <2>2, <2>3, <2>4
<1> QED
    BY <1>5, <1>6

LEMMA ContinueButtons ==
    ASSUME TypeOK, ButtonsCurrent, NEW t \in Tab, Continue(t)
    PROVE  ButtonsCurrent'
<1>1. PICK pieces \in owed[t] :
        /\ sending' = [sending EXCEPT ![t] = Head(pieces)]
        /\ owed' = [owed EXCEPT ![t] = (@ \ {pieces}) \cup ({Tail(pieces)} \ {<<>>})]
    BY DEF Continue
<1>2. /\ open' = open /\ page' = page /\ queue' = queue /\ followed' = followed
      /\ silent' = silent /\ t \in open /\ sending[t] = <<>>
    BY DEF Continue, Idle
<1>3. ToSet(pieces) = {Head(pieces)} \cup ToSet(Tail(pieces))
    BY <1>1, ToSetTail DEF TypeOK
<1> SUFFICES ASSUME NEW u \in open, NEW r \in Run, ToBeTold(u, r)
             PROVE  ToBeTold(u, r)'
    BY <1>2 DEF ButtonsCurrent, Following
<1>4. CASE r \in Announced(pieces)
    <2>1. CASE Status(r) \in ToSet(Head(pieces))
        BY <1>1, <1>2, <2>1 DEF ToBeTold, TypeOK
    <2>2. CASE Status(r) \notin ToSet(Head(pieces))
        <3>1. r \in Announced(Tail(pieces))
            BY <1>3, <1>4, <2>2 DEF Announced
        <3>2. Tail(pieces) # <<>>
            BY <3>1, ToSetEmpty DEF Announced
        <3>3. Owed(t, r)'
            BY <1>1, <3>1, <3>2 DEF Owed, TypeOK
        <3> QED
            BY <1>2, <3>3 DEF ToBeTold
    <2> QED
        BY <2>1, <2>2
<1>5. CASE r \notin Announced(pieces)
    <2>1. \A v \in open : Owed(v, r) => Owed(v, r)'
        BY <1>1, <1>5 DEF Owed, TypeOK
    <2>2. \A v \in open : Status(r) \in ToSet(sending[v]) => Status(r) \in ToSet(sending'[v])
        BY <1>1, <1>2, ToSetEmpty DEF TypeOK
    <2> QED
        BY <1>2, <2>1, <2>2 DEF ToBeTold
<1> QED
    BY <1>4, <1>5

LEMMA CloseButtons ==
    ASSUME TypeOK, ButtonsCurrent, NEW t \in Tab, Close(t)
    PROVE  ButtonsCurrent'
<1>1. /\ open' = open \ {t} /\ followed' = followed /\ t \in open
      /\ \A v \in open' : /\ page'[v] = page[v] /\ queue'[v] = queue[v]
                          /\ owed'[v] = owed[v] /\ sending'[v] = sending[v]
    BY DEF Close, TypeOK
<1>2. \A v \in open' : silent'[v] = silent[v] \cup Announced(<<sending[t]>>)
                                    \cup UNION {Announced(pieces) : pieces \in owed[t]}
    BY DEF Close, TypeOK
<1> SUFFICES ASSUME NEW u \in open', NEW r \in Run, ToBeTold(u, r)
             PROVE  ToBeTold(u, r)' \/ r \in silent'[u]
    BY <1>1, <1>2 DEF ButtonsCurrent, Following
<1>3. CASE Owed(t, r) \/ Status(r) \in ToSet(sending[t])
    BY <1>2, <1>3, ToSetSingle DEF Owed, Announced
<1>4. CASE ~(Owed(t, r) \/ Status(r) \in ToSet(sending[t]))
    BY <1>1, <1>4 DEF ToBeTold, Owed
<1> QED
    BY <1>3, <1>4

LEMMA ButtonsKept ==
    ASSUME TypeOK, ClosedIdle, ButtonsCurrent, [Next]_vars
    PROVE  ButtonsCurrent'
<1>1. CASE Next
    <2>1. PICK t \in Tab : StepOf(t)
        BY <1>1, Steps
    <2>2. CASE Dismiss(t)
        <3>1. /\ UNCHANGED <<followed, open, page, queue, owed, silent>>
              /\ \A v \in open : sending[v] # <<>> => sending'[v] = sending[v]
            BY <2>2 DEF Dismiss, Idle, TypeOK
        <3> QED
            BY <3>1, ToSetEmpty DEF ButtonsCurrent, ToBeTold, Owed, Following
    <2>3. CASE Open(t)
        <3>1. /\ UNCHANGED <<followed, queue, owed, sending, silent>>
              /\ open' = open \cup {t}
              /\ \A v \in open \ {t} : page'[v] = page[v]
              /\ page'[t] = Fresh
            BY <2>3 DEF Open, TypeOK
        <3>2. \A r \in Run : page'[t].unfollow[r] = Following(r)
            BY <3>1 DEF Fresh
        <3> QED
            BY <3>1, <3>2 DEF ButtonsCurrent, ToBeTold, Owed, Following
    <2>4. CASE Starts(t)
        BY <2>4 DEF Starts, Start, ButtonsCurrent, ToBeTold, Owed, Following
    <2> QED
        BY <2>1, <2>2, <2>3, <2>4, BroadcastButtons, ReceiveButtons, MissButtons,
           LoadedButtons, AccessButtons, ContinueButtons, CloseButtons DEF StepOf
<1>2. CASE UNCHANGED vars
    BY <1>2 DEF ButtonsCurrent, ToBeTold, Owed, Following, vars
<1> QED
    BY <1>1, <1>2
-----------------------------------------------------------------------------
(* Notices *)

\* Where a dismissal can be.
LEMMA DismissalPlaces ==
    ASSUME NEW t \in Tab
    PROVE  Dismissed => /\ Dismissal \notin ToSet(sending[t])
                        /\ Dismissal \notin ToSet(queue[t])
BY DEF Dismissed

LEMMA BroadcastNotices ==
    ASSUME TypeOK, ClosedIdle, NoticesSeen, OneDismissal, NEW t \in Tab, Broadcast(t)
    PROVE  NoticesSeen' /\ OneDismissal'
<1> DEFINE c == Head(sending[t])
<1>1. /\ c \in Command /\ sending[t] \in Seq(Command) /\ sending[t] # <<>>
      /\ ToSet(sending[t]) = {c} \cup ToSet(Tail(sending[t]))
    BY ToSetTail DEF TypeOK, Broadcast
<1>2. /\ open' = open /\ loading' = loading /\ t \in open
      /\ page' = [page EXCEPT ![t] = Dispatch(@, c)]
      /\ sending' = [sending EXCEPT ![t] = Tail(@)]
      /\ \A u \in Tab : queue'[u] =
            IF u \in open \ {t} THEN Append(queue[u], c) ELSE queue[u]
      /\ unseen' = IF c.cmd = "notify" THEN unseen \cup {c.run} ELSE unseen
    BY DEF Broadcast, ClosedIdle
<1> HIDE DEF c
<1>3. /\ page[t] \in Page /\ page'[t] = Dispatch(page[t], c)
      /\ \A u \in Tab \ {t} : page'[u] = page[u] /\ sending'[u] = sending[u]
      /\ sending'[t] = Tail(sending[t]) /\ queue'[t] = queue[t]
    BY <1>2 DEF TypeOK
<1>4. \A u \in open \ {t} : ToSet(queue'[u]) = ToSet(queue[u]) \cup {c}
    BY <1>1, <1>2, ToSetAppend DEF TypeOK
<1>5. \A u \in open : Queued(u) \subseteq Queued(u)'
    BY <1>2, <1>3, <1>4 DEF Queued
<1>6. CASE c = Dismissal
    <2>1. ~Dismissed
        BY <1>1, <1>6 DEF Dismissed
    <2>2. /\ t \notin loading /\ Dismissal \notin ToSet(queue[t])
          /\ \A u \in Tab \ {t} : Dismissal \notin ToSet(sending[u])
          /\ sending[t] = <<Dismissal>> /\ unseen \subseteq Queued(t)
        BY <1>1, <1>6, <2>1 DEF OneDismissal
    <2>3. sending'[t] = <<>> /\ unseen' = unseen /\ unseen \subseteq Queued(t)'
        BY <1>2, <1>3, <1>5, <1>6, <2>2 DEF Dismissal
    <2>4. NoticesSeen'
        BY <1>2, <2>3 DEF NoticesSeen, Shown
    <2>5. OneDismissal'
        <3>1. /\ t \in open' \ loading' /\ Dismissal \notin ToSet(queue'[t])
              /\ \A u \in Tab \ {t} : Dismissal \notin ToSet(sending'[u])
              /\ Dismissal \notin ToSet(sending'[t])
              /\ unseen' \subseteq (page[t].notices \cup Queued(t))'
            BY <1>2, <1>3, <2>2, <2>3, ToSetEmpty
        <3> QED
            BY <3>1 DEF OneDismissal
    <2> QED
        BY <2>4, <2>5
<1>7. CASE c # Dismissal
    <2>1. \A u \in open : page[u].notices \subseteq page'[u].notices
        <3>1. page[t].notices \subseteq page'[t].notices
            BY <1>1, <1>3, <1>7, DispatchChanges
        <3> QED
            BY <1>3, <3>1 DEF TypeOK
    <2>2. ASSUME NEW u \in open, u \notin loading \/ u = t
          PROVE  unseen' \subseteq unseen \cup page'[u].notices \cup Queued(u)'
        <3>1. CASE c.cmd = "notify"
            <4>1. c.run \in Run /\ c = Notify(c.run)
                BY <1>1, <3>1 DEF Command, Notify
            <4>2. u = t => c.run \in page'[u].notices
                BY <1>1, <1>3, <4>1, DispatchChanges
            <4>3. u # t => c.run \in Queued(u)'
                BY <1>2, <1>4, <2>2, <4>1 DEF Queued
            <4> QED
                BY <1>2, <4>2, <4>3
        <3> QED
            BY <1>2, <3>1
    <2>3. Shown(open) \subseteq Shown(open)'
        BY <1>2, <1>5, <2>1 DEF Shown
    <2>4. NoticesSeen'
        BY <1>2, <2>2, <2>3 DEF NoticesSeen, Shown
    <2>5. \A u \in Tab : Dismissal \in ToSet(sending'[u]) => Dismissal \in ToSet(sending[u])
        BY <1>1, <1>3
    <2>6. \A u \in Tab : Dismissal \in ToSet(queue'[u]) <=> Dismissal \in ToSet(queue[u])
        BY <1>2, <1>4, <1>7
    <2>7. OneDismissal'
        <3>1. SUFFICES ASSUME ~Dismissed'
                       PROVE  OneDismissal'
            BY DEF OneDismissal
        <3>2. ~Dismissed
            BY <2>5, <2>6, <3>1 DEF Dismissed
        <3>3. PICK origin \in open \ loading :
                /\ Dismissal \notin ToSet(queue[origin])
                /\ \A u \in Tab \ {origin} : Dismissal \notin ToSet(sending[u])
                /\ IF Dismissal \in ToSet(sending[origin])
                   THEN sending[origin] = <<Dismissal>> /\ unseen \subseteq Queued(origin)
                   ELSE unseen \subseteq page[origin].notices \cup Queued(origin)
            BY <3>2 DEF OneDismissal
        <3>4. origin \in Tab
            BY DEF TypeOK
        <3>5. /\ origin \in open' \ loading' /\ Dismissal \notin ToSet(queue'[origin])
              /\ \A u \in Tab \ {origin} : Dismissal \notin ToSet(sending'[u])
            BY <1>2, <2>5, <2>6, <3>3, <3>4
        <3>6. CASE Dismissal \in ToSet(sending[origin])
            <4>1. origin # t
                BY <1>7, <3>3, <3>6 DEF c
            <4>2. unseen' \subseteq Queued(origin)'
                <5>1. c.cmd = "notify" => c.run \in Queued(origin)'
                    <6>1. c.cmd = "notify" => c.run \in Run /\ c = Notify(c.run)
                        BY <1>1 DEF Command, Notify
                    <6> QED
                        BY <1>2, <1>4, <3>3, <4>1, <6>1 DEF Queued
                <5> QED
                    BY <1>2, <1>5, <3>3, <3>6, <5>1
            <4> QED
                BY <1>3, <3>3, <3>4, <3>5, <3>6, <4>1, <4>2 DEF OneDismissal
        <3>7. CASE Dismissal \notin ToSet(sending[origin])
            <4>1. Dismissal \notin ToSet(sending'[origin])
                BY <2>5, <3>4, <3>7
            <4>2. unseen' \subseteq page'[origin].notices \cup Queued(origin)'
                BY <1>5, <2>1, <2>2, <3>3, <3>7
            <4> QED
                BY <3>5, <4>1, <4>2 DEF OneDismissal
        <3> QED
            BY <3>6, <3>7
    <2> QED
        BY <2>4, <2>7
<1> QED
    BY <1>6, <1>7

LEMMA ReceiveNotices ==
    ASSUME TypeOK, NoticesSeen, OneDismissal, NEW t \in Tab, Receive(t)
    PROVE  NoticesSeen' /\ OneDismissal'
<1> DEFINE c == Head(queue[t])
<1>1. c \in Command /\ ToSet(queue[t]) = {c} \cup ToSet(Tail(queue[t]))
    BY ToSetTail DEF TypeOK, Receive
<1>2. /\ open' = open /\ loading' = loading /\ t \in open /\ t \notin loading
      /\ sending' = sending /\ unseen' = unseen
      /\ page' = [page EXCEPT ![t] = Dispatch(@, c)]
      /\ queue' = [queue EXCEPT ![t] = Tail(@)]
      /\ sending[t] = <<>>
    BY DEF Receive, Idle
<1> HIDE DEF c
<1>3. /\ page[t] \in Page /\ page'[t] = Dispatch(page[t], c) /\ queue'[t] = Tail(queue[t])
      /\ \A u \in Tab \ {t} : page'[u] = page[u] /\ queue'[u] = queue[u]
    BY <1>2 DEF TypeOK
<1>4. c # Dismissal => page[t].notices \cup Queued(t) \subseteq (page[t].notices \cup Queued(t))'
    <2>1. ASSUME NEW r \in Queued(t), c # Notify(r)
          PROVE  r \in Queued(t)'
        BY <1>1, <1>2, <1>3, <2>1 DEF Queued
    <2>2. ASSUME NEW r \in Queued(t), c = Notify(r)
          PROVE  r \in page'[t].notices
        BY <1>1, <1>3, <2>2, DispatchChanges DEF Queued
    <2>3. c # Dismissal => page[t].notices \subseteq page'[t].notices
        BY <1>1, <1>3, DispatchChanges
    <2> QED
        BY <2>1, <2>2, <2>3
<1>5. \A u \in open : (u # t \/ c # Dismissal) =>
            page[u].notices \cup Queued(u) \subseteq (page[u].notices \cup Queued(u))'
    BY <1>2, <1>3, <1>4 DEF Queued, TypeOK
<1>6. \A u \in Tab : Dismissal \in ToSet(queue'[u]) => Dismissal \in ToSet(queue[u])
    BY <1>1, <1>3
<1>7. CASE Dismissed
    <2>1. c # Dismissal
        BY <1>1, <1>7 DEF Dismissed
    <2>2. Dismissed'
        BY <1>2, <1>6, <1>7 DEF Dismissed
    <2>3. NoticesSeen'
        BY <1>2, <1>5, <2>1 DEF NoticesSeen, Shown
    <2> QED
        BY <2>2, <2>3 DEF OneDismissal
<1>8. CASE ~Dismissed
    <2>1. PICK origin \in open \ loading :
            /\ Dismissal \notin ToSet(queue[origin])
            /\ \A u \in Tab \ {origin} : Dismissal \notin ToSet(sending[u])
            /\ IF Dismissal \in ToSet(sending[origin])
               THEN sending[origin] = <<Dismissal>> /\ unseen \subseteq Queued(origin)
               ELSE unseen \subseteq page[origin].notices \cup Queued(origin)
        BY <1>8 DEF OneDismissal
    <2>2. origin \in Tab /\ (origin # t \/ c # Dismissal)
        BY <1>1, <2>1 DEF TypeOK
    <2>3. unseen' \subseteq (page[origin].notices \cup Queued(origin))'
        BY <1>2, <1>5, <2>1, <2>2
    <2>4. NoticesSeen'
        BY <1>2, <2>3 DEF NoticesSeen, Shown
    <2>5. Dismissal \in ToSet(sending[origin]) => Queued(origin)' = Queued(origin)
        BY <1>2, <1>3, <2>2, ToSetEmpty DEF Queued
    <2>6. OneDismissal'
        BY <1>2, <1>6, <2>1, <2>2, <2>3, <2>5 DEF OneDismissal
    <2> QED
        BY <2>4, <2>6
<1> QED
    BY <1>7, <1>8

LEMMA ContinueNotices ==
    ASSUME TypeOK, NoticesSeen, OneDismissal, NEW t \in Tab, Continue(t)
    PROVE  NoticesSeen' /\ OneDismissal'
<1>1. /\ UNCHANGED <<open, loading, page, queue, unseen>> /\ sending[t] = <<>>
      /\ \E pieces \in owed[t] : sending' = [sending EXCEPT ![t] = Head(pieces)]
    BY DEF Continue, Idle
<1>2. PICK pieces \in owed[t] : sending' = [sending EXCEPT ![t] = Head(pieces)]
    BY <1>1
<1>3. Dismissal \notin ToSet(Head(pieces))
    <2>1. pieces \in Seq(Seq(Announcement)) /\ pieces # <<>>
        BY <1>2 DEF TypeOK
    <2> QED
        BY <2>1, ToSetTail, ToSetMember DEF Announcement
<1>4. /\ \A u \in Tab : Dismissal \in ToSet(sending'[u]) <=> Dismissal \in ToSet(sending[u])
      /\ \A u \in Tab : Dismissal \in ToSet(sending[u]) => sending'[u] = sending[u]
    BY <1>1, <1>2, <1>3, ToSetEmpty DEF TypeOK
<1>5. open \subseteq Tab
    BY DEF TypeOK
<1>6. NoticesSeen'
    BY <1>1 DEF NoticesSeen, Shown, Queued
<1>7. OneDismissal'
    BY <1>1, <1>4, <1>5 DEF OneDismissal, Dismissed, Queued
<1> QED
    BY <1>6, <1>7

LEMMA DismissNotices ==
    ASSUME TypeOK, NoticesSeen, NEW t \in Tab, Dismiss(t)
    PROVE  NoticesSeen' /\ OneDismissal'
<1>1. /\ UNCHANGED <<open, loading, page, queue>> /\ t \in open \ loading /\ Dismissed
      /\ unseen' = unseen \cap Queued(t)
      /\ sending'[t] = <<Dismissal>> /\ \A u \in Tab \ {t} : sending'[u] = sending[u]
    BY DEF Dismiss, Idle, TypeOK
<1>2. NoticesSeen'
    BY <1>1 DEF NoticesSeen, Shown, Queued
<1>3. Queued(t)' = Queued(t)
    BY <1>1 DEF Queued
<1>4. /\ Dismissal \notin ToSet(queue'[t]) /\ Dismissal \in ToSet(sending'[t])
      /\ \A u \in Tab \ {t} : Dismissal \notin ToSet(sending'[u])
    BY <1>1, DismissalPlaces, ToSetSingle
<1> QED
    BY <1>1, <1>2, <1>3, <1>4 DEF OneDismissal

LEMMA UserNotices ==
    ASSUME TypeOK, NoticesSeen, OneDismissal, NEW t \in Tab, Close(t) \/ Open(t)
    PROVE  NoticesSeen' /\ OneDismissal'
<1>1. CASE Close(t)
    <2>1. /\ Dismissed /\ open' = open \ {t} /\ loading' = loading \ {t}
          /\ unseen' = unseen \ (Shown({t}) \ Shown(open'))
          /\ \A u \in Tab \ {t} : /\ page'[u] = page[u] /\ queue'[u] = queue[u]
                                  /\ sending'[u] = sending[u]
          /\ queue'[t] = <<>> /\ sending'[t] = <<>>
        BY <1>1 DEF Close, TypeOK
    <2>2. Shown(open) \subseteq Shown({t}) \cup Shown(open')
        BY <2>1 DEF Shown
    <2>3. Shown(open') \subseteq Shown(open)'
        <3>1. \A u \in open' : page'[u].notices = page[u].notices /\ Queued(u)' = Queued(u)
            BY <2>1 DEF Queued, TypeOK
        <3> QED
            BY <3>1 DEF Shown
    <2>4. NoticesSeen'
        BY <2>1, <2>2, <2>3 DEF NoticesSeen
    <2>5. Dismissed'
        BY <2>1, ToSetEmpty DEF Dismissed
    <2> QED
        BY <2>4, <2>5 DEF OneDismissal
<1>2. CASE Open(t)
    <2>1. /\ UNCHANGED <<queue, sending, unseen>> /\ t \notin open /\ open' = open \cup {t}
          /\ loading' = loading \cup {t}
          /\ \A u \in open : page'[u] = page[u]
        BY <1>2 DEF Open, TypeOK
    <2>2. \A u \in open : Queued(u)' = Queued(u)
        BY <2>1 DEF Queued
    <2>3. NoticesSeen'
        BY <2>1, <2>2 DEF NoticesSeen, Shown
    <2>4. OneDismissal'
        BY <2>1, <2>2 DEF OneDismissal, Dismissed
    <2> QED
        BY <2>3, <2>4
<1> QED
    BY <1>1, <1>2

LEMMA LoadingNotices ==
    ASSUME TypeOK, NoticesSeen, OneDismissal, NEW t \in Tab, Miss(t) \/ Loaded(t)
    PROVE  NoticesSeen' /\ OneDismissal'
<1>1. /\ open' = open /\ loading' \subseteq loading /\ sending' = sending /\ unseen' = unseen
      /\ \A u \in Tab : page'[u].notices = page[u].notices
    <2>1. CASE Miss(t)
        BY <2>1 DEF Miss
    <2>2. CASE Loaded(t)
        <3>1. page[t] \in Page
            BY DEF TypeOK
        <3>2. [page[t] EXCEPT !.unfollow = Fresh.unfollow].notices = page[t].notices
            BY <3>1 DEF Page
        <3> QED
            BY <2>2, <3>2 DEF Loaded, TypeOK
    <2> QED
        BY <2>1, <2>2
<1>2. ASSUME NEW u \in Tab
      PROVE  /\ ToSet(queue'[u]) \subseteq ToSet(queue[u])
             /\ u \notin loading => queue'[u] = queue[u]
    <2>1. CASE Miss(t)
        <3>1. ToSet(Tail(queue[t])) \subseteq ToSet(queue[t]) /\ t \in loading
            BY <2>1, ToSetTail DEF Miss, TypeOK
        <3> QED
            BY <2>1, <3>1 DEF Miss, TypeOK
    <2>2. CASE Loaded(t)
        BY <2>2 DEF Loaded
    <2> QED
        BY <2>1, <2>2
<1>3. \A u \in Tab : Queued(u) \subseteq Queued(u)'
    BY <1>1, <1>2 DEF Queued
<1>4. open \subseteq Tab
    BY DEF TypeOK
<1>5. NoticesSeen'
    BY <1>1, <1>3, <1>4 DEF NoticesSeen, Shown
<1>6. OneDismissal'
    <2>1. SUFFICES ASSUME ~Dismissed'
                   PROVE  OneDismissal'
        BY DEF OneDismissal
    <2>2. ~Dismissed
        BY <1>1, <1>2, <2>1 DEF Dismissed
    <2> QED
        BY <1>1, <1>2, <1>3, <1>4, <2>2 DEF OneDismissal
<1> QED
    BY <1>5, <1>6

LEMMA NoticesKept ==
    ASSUME TypeOK, ClosedIdle, NoticesSeen, OneDismissal, [Next]_vars
    PROVE  NoticesSeen' /\ OneDismissal'
<1>1. ASSUME UNCHANGED <<open, loading, page, queue, sending, unseen>>
      PROVE  NoticesSeen' /\ OneDismissal'
    BY <1>1 DEF NoticesSeen, OneDismissal, Dismissed, Shown, Queued
<1>2. CASE Next
    <2>1. PICK t \in Tab : StepOf(t)
        BY <1>2, Steps
    <2>2. CASE Access(t) \/ Starts(t)
        BY <1>1, <2>2 DEF Access, Starts, Start
    <2> QED
        BY <2>1, <2>2, BroadcastNotices, ReceiveNotices, ContinueNotices, DismissNotices,
           UserNotices, LoadingNotices DEF StepOf
<1>3. CASE UNCHANGED vars
    BY <1>1, <1>3 DEF vars
<1> QED
    BY <1>2, <1>3
-----------------------------------------------------------------------------
(* The theorems *)

LEMMA InitInductive == ASSUME Init PROVE Inductive
<1>1. followed \in Seq(Run)
    BY ListsAssumption DEF Init
<1>2. Fresh \in Page
    BY DEF Fresh, Page, Following
<1>3. TypeOK
    BY <1>1, <1>2, BoundsAssumption DEF Init, TypeOK
<1>4. ClosedIdle
    BY DEF Init, ClosedIdle
<1>5. ButtonsCurrent
    BY DEF Init, ButtonsCurrent, Fresh
<1>6. NoticesSeen
    BY DEF Init, NoticesSeen
<1>7. Dismissed
    BY ToSetEmpty DEF Init, Dismissed
<1> QED
    BY <1>3, <1>4, <1>5, <1>6, <1>7 DEF Inductive, OneDismissal

\* The buttons and notices of the tabs, the commands on their way and the list say of each
\* other what Inductive states, in any interleaving of handlers, events and users.
THEOREM InductiveHolds == Spec => []Inductive
<1>1. Inductive /\ [Next]_vars => Inductive'
    BY TypeKept, ClosedKept, ButtonsKept, NoticesKept DEF Inductive
<1> QED
    BY <1>1, InitInductive, PTL DEF Spec

\* A button shows whether its run is followed, or its tab is going to be told, unless the
\* change was one that nobody announces.
THEOREM ButtonsHold == Spec => []ButtonsCurrent
BY InductiveHolds, PTL DEF Inductive

\* Every notice that was broadcast is shown until it is dismissed in a tab that has
\* handled it, although dismissals hide the notices of all tabs and may cross new ones.
THEOREM NoticesHold == Spec => []NoticesSeen
BY InductiveHolds, PTL DEF Inductive
=============================================================================
