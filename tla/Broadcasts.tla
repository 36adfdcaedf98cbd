----------------------------- MODULE Broadcasts -----------------------------
(***************************************************************************)
(* What the open tabs of the Fishtest site show of the list of followed    *)
(* runs and of the ends of these runs: the handlers of notifications.js    *)
(* and the commands that they broadcast to all tabs (application.js).      *)
(*                                                                         *)
(* A broadcast writes the command to the local storage, which queues an    *)
(* event for every other tab, and executes it in its own tab.  The list    *)
(* is accessed under the Web Lock, in one step here; how tabs share it and *)
(* find out about ended runs is the subject of module Notifications.       *)
(***************************************************************************)
EXTENDS Naturals, FiniteSets, Sequences, SequencesExt

CONSTANTS
    Tab, Run,
    Capacity,    \* designCapacity, the length of the list
    Lists,       \* the lists that an earlier visit of the site may have left
    MaxQueue,    \* bound on the storage events that wait for a tab
    MaxStarts,   \* bound on the handlers
    MaxLoads     \* bound on the tabs that are opened

ASSUME BoundsAssumption ==
    {Capacity, MaxQueue, MaxStarts} \subseteq Nat \ {0} /\ MaxLoads \in Nat
ASSUME ListsAssumption ==
    Lists \subseteq {list \in Seq(Run) : Len(list) <= Capacity /\ IsInjective(list)}

VARIABLES
    followed,    \* "notifications" in the storage: the followed runs, oldest first
    open,        \* the tabs that exist
    loading,     \* the open tabs whose content is being loaded: they do not listen yet
    page,        \* what a tab shows
    queue,       \* storage events that a tab has not handled
    waiting,     \* handlers of a tab that wait for the lock
    owed,        \* what handlers of a tab broadcast when they go on
    sending,     \* what the handler that runs in a tab has yet to broadcast
    starts,      \* history: how many handlers have started
    loads,       \* history: how many tabs were opened
    silent,      \* history: runs whose last change nobody announces to the tab, or was
                 \* announced before it listened
    unseen       \* history: notices that were broadcast, until the user dismisses the
                 \* notices of a tab that has handled it, or closes the last tab with it

vars == <<followed, open, loading, page, queue, waiting, owed, sending, starts, loads,
          silent, unseen>>

\* Whether the button offers to unfollow, the disabled buttons, the notices shown.
Page == [unfollow : [Run -> BOOLEAN], disabled : SUBSET Run, notices : SUBSET Run]
Command == [cmd : {"status", "disable", "notify"}, run : Run] \cup [cmd : {"dismiss"}]
Op == {"follow", "unfollow", "submit", "stop", "end", "purge"}
Handler == [op : Op, run : Run]

Status(r) == [cmd |-> "status", run |-> r]
Disable(r) == [cmd |-> "disable", run |-> r]
Notify(r) == [cmd |-> "notify", run |-> r]
Dismissal == [cmd |-> "dismiss"]

Following(r) == r \in ToSet(followed)
\* What a page shows when its script sets the buttons.
Fresh == [unfollow |-> [r \in Run |-> Following(r)], disabled |-> {}, notices |-> {}]

Init ==
    /\ followed \in Lists
    /\ open = Tab /\ loading = {}
    /\ page = [t \in Tab |-> Fresh]
    /\ queue = [t \in Tab |-> <<>>]
    /\ waiting = [t \in Tab |-> {}]
    /\ owed = [t \in Tab |-> {}]
    /\ sending = [t \in Tab |-> <<>>]
    /\ silent = [t \in Tab |-> {}]
    /\ starts = 0 /\ loads = 0 /\ unseen = {}
-----------------------------------------------------------------------------
(* The commands *)

\* setNotificationStatus_ shows what the storage says now.
SetNotificationStatus(p, r) == [p EXCEPT !.unfollow[r] = Following(r)]
DisableNotification(p, r) == [p EXCEPT !.disabled = @ \cup {r}]
\* notifyFishtest_ adds the notice to those that are shown.
\* Mutant: it replaces them.
MutNotifyFishtest(p, r) == [p EXCEPT !.notices = {r}]
NotifyFishtest(p, r) == [p EXCEPT !.notices = @ \cup {r}]
\* What dismissNotification_ hides is removed before the next notice is shown.
DismissNotification(p) == [p EXCEPT !.notices = {}]

\* broadcastDispatch: what a command does to a page.
Dispatch(p, c) ==
    CASE c.cmd = "status" -> SetNotificationStatus(p, c.run)
      [] c.cmd = "disable" -> DisableNotification(p, c.run)
      [] c.cmd = "notify" -> NotifyFishtest(p, c.run)
      [] c.cmd = "dismiss" -> DismissNotification(p)
\* A command that reads the storage makes up for changes that nobody announced.
Silent(s, c) == IF c.cmd = "status" THEN s \ {c.run} ELSE s

\* A tab runs one handler at a time, up to its next wait.
Idle(t) == t \in open /\ sending[t] = <<>>

\* broadcast: the other tabs get an event, this one executes the command.
Broadcast(t) ==
    /\ sending[t] # <<>>
    /\ \A u \in open \ {t} : Len(queue[u]) < MaxQueue
    /\ LET c == Head(sending[t]) IN
        /\ queue' = [u \in Tab |->
                IF u \in open \ {t} THEN Append(queue[u], c) ELSE queue[u]]
        /\ page' = [page EXCEPT ![t] = Dispatch(@, c)]
        /\ silent' = [silent EXCEPT ![t] = Silent(@, c)]
        /\ unseen' = IF c.cmd = "notify" THEN unseen \cup {c.run} ELSE unseen
    /\ sending' = [sending EXCEPT ![t] = Tail(@)]
    /\ UNCHANGED <<followed, open, loading, waiting, owed, starts, loads>>

\* handleTabsBroadcasting: the event of another tab.
Receive(t) ==
    /\ Idle(t) /\ t \notin loading /\ queue[t] # <<>>
    /\ page' = [page EXCEPT ![t] = Dispatch(@, Head(queue[t]))]
    /\ silent' = [silent EXCEPT ![t] = Silent(@, Head(queue[t]))]
    /\ queue' = [queue EXCEPT ![t] = Tail(@)]
    /\ UNCHANGED <<followed, open, loading, waiting, owed, sending, starts, loads, unseen>>

\* The event comes to a tab that has no listener yet.
Miss(t) ==
    /\ Idle(t) /\ t \in loading /\ queue[t] # <<>>
    /\ silent' = [silent EXCEPT ![t] = @ \cup {r \in Run : Head(queue[t]) = Status(r)}]
    /\ queue' = [queue EXCEPT ![t] = Tail(@)]
    /\ UNCHANGED <<followed, open, loading, page, waiting, owed, sending, starts, loads,
                   unseen>>
-----------------------------------------------------------------------------
(* The handlers, up to the lock *)

Start(t, op, r) ==
    /\ Idle(t) /\ starts < MaxStarts
    /\ [op |-> op, run |-> r] \notin waiting[t]
    /\ waiting' = [waiting EXCEPT ![t] = @ \cup {[op |-> op, run |-> r]}]
    /\ starts' = starts + 1
    /\ UNCHANGED <<followed, open, loading, page, queue, owed, sending, loads, silent, unseen>>

\* toggleNotifactionStatus: the storage decides, whatever the button shows.  The button can
\* be clicked while the rest of the page is being loaded.
Toggle(t, r) ==
    /\ r \notin page[t].disabled
    /\ Start(t, IF Following(r) THEN "unfollow" ELSE "follow", r)
\* tests_view.mak: the page of a run that has just been submitted follows it.
Submit(t, r) == t \notin loading /\ Start(t, "submit", r)
\* handleStopDeleteButton
StopDelete(t, r) == Start(t, "stop", r)
\* mainFollowLoop has an event of a followed run.
EventOf(t, r) == t \notin loading /\ Following(r) /\ Start(t, "end", r)
\* purgeNotifications has found the run to be stale.
Stale(t, r) == t \notin loading /\ Following(r) /\ Start(t, "purge", r)
-----------------------------------------------------------------------------
(* The handlers, from the lock on *)

\* LRU.add
With(r) == IF Following(r) THEN followed ELSE Append(followed, r)
Added(r) == IF Len(With(r)) > Capacity THEN Tail(With(r)) ELSE With(r)
\* LRU.remove
Removed(r) ==
    IF Following(r)
    THEN RemoveAt(followed, CHOOSE i \in DOMAIN followed : followed[i] = r)
    ELSE followed

\* The access of a handler to the list, and what the handler broadcasts later on: a
\* sequence of pieces without a wait inside.
\* Mutant: the run that is dropped to make room is not announced.
MutPieces(h) ==
    CASE h.op \in {"follow", "submit", "unfollow"} -> <<<<Status(h.run)>>>>
      [] h.op = "stop" -> <<<<Disable(h.run)>>>>
      [] h.op = "end" ->
            IF Following(h.run)
            THEN <<<<Disable(h.run), Status(h.run)>>, <<Notify(h.run)>>>> ELSE <<>>
      [] h.op = "purge" -> <<>>
AnnounceDropped(r) ==
    IF Len(With(r)) > Capacity THEN <<Status(Head(With(r)))>> ELSE <<>>
Pieces(h) ==
    CASE h.op = "follow" -> <<AnnounceDropped(h.run) \o <<Status(h.run)>>>>
      [] h.op \in {"submit", "unfollow"} -> <<<<Status(h.run)>>>>
      [] h.op = "stop" -> <<<<Disable(h.run)>>>>
      [] h.op = "end" ->
            IF Following(h.run)
            THEN <<<<Disable(h.run), Status(h.run)>>, <<Notify(h.run)>>>> ELSE <<>>
      [] h.op = "purge" -> <<>>

\* The runs of the status commands in a sequence of pieces.
Announced(pieces) ==
    {r \in Run : \E piece \in ToSet(pieces) : Status(r) \in ToSet(piece)}

Access(t) ==
    /\ Idle(t)
    /\ \E h \in waiting[t] :
        /\ followed' = IF h.op \in {"follow", "submit"} THEN Added(h.run) ELSE Removed(h.run)
        /\ waiting' = [waiting EXCEPT ![t] = @ \ {h}]
        /\ owed' = [owed EXCEPT ![t] = @ \cup ({Pieces(h)} \ {<<>>})]
        /\ LET changed == (ToSet(followed) \ ToSet(followed'))
                            \cup (ToSet(followed') \ ToSet(followed))
               unannounced == CASE h.op = "submit" -> changed \ {h.run}
                                [] h.op \in {"stop", "purge"} -> changed
                                [] OTHER -> {}
           IN  silent' = [u \in Tab |-> IF u \in open THEN silent[u] \cup unannounced ELSE {}]
    /\ UNCHANGED <<open, loading, page, queue, sending, starts, loads, unseen>>

\* A handler goes on after a wait.
Continue(t) ==
    /\ Idle(t)
    /\ \E pieces \in owed[t] :
        /\ sending' = [sending EXCEPT ![t] = Head(pieces)]
        /\ owed' = [owed EXCEPT ![t] = (@ \ {pieces}) \cup ({Tail(pieces)} \ {<<>>})]
    /\ UNCHANGED <<followed, open, loading, page, queue, waiting, starts, loads, silent,
                   unseen>>
-----------------------------------------------------------------------------
(* The user *)

\* The user waits for the effect of a dismissal before doing another one or closing a tab.
Dismissed == \A t \in Tab : Dismissal \notin ToSet(sending[t]) \cup ToSet(queue[t])

\* The notices whose events a tab is going to handle.
Queued(t) == {r \in Run : t \notin loading /\ Notify(r) \in ToSet(queue[t])}

\* dismissNotification: it hides the notices of all tabs, also those that this one does not
\* show because it was loaded after them or handled a dismissal that crossed them.  A tab that
\* is being loaded has none to dismiss.
Dismiss(t) ==
    /\ Idle(t) /\ t \notin loading /\ page[t].notices # {}
    /\ Dismissed
    /\ unseen' = unseen \cap Queued(t)
    /\ sending' = [sending EXCEPT ![t] = <<Dismissal>>]
    /\ UNCHANGED <<followed, open, loading, page, queue, waiting, owed, starts, loads, silent>>

\* The notices that some tab shows or is going to show.
Shown(tabs) == UNION {page[t].notices \cup Queued(t) : t \in tabs}

\* A closed tab takes with it what it shows, its events and its handlers.
Close(t) ==
    /\ t \in open /\ Dismissed
    /\ open' = open \ {t} /\ loading' = loading \ {t}
    /\ page' = [page EXCEPT ![t] =
            [unfollow |-> [r \in Run |-> FALSE], disabled |-> {}, notices |-> {}]]
    /\ queue' = [queue EXCEPT ![t] = <<>>]
    /\ waiting' = [waiting EXCEPT ![t] = {}]
    /\ owed' = [owed EXCEPT ![t] = {}]
    /\ sending' = [sending EXCEPT ![t] = <<>>]
    /\ silent' = [u \in Tab |->
            IF u \in open' THEN silent[u] \cup Announced(<<sending[t]>>)
                                \cup UNION {Announced(pieces) : pieces \in owed[t]}
            ELSE {}]
    /\ unseen' = unseen \ (Shown({t}) \ Shown(open'))
    /\ UNCHANGED <<followed, starts, loads>>

\* run_table.mak sets the buttons while the page is being parsed.
Open(t) ==
    /\ t \notin open /\ loads < MaxLoads
    /\ loads' = loads + 1
    /\ open' = open \cup {t} /\ loading' = loading \cup {t}
    /\ page' = [page EXCEPT ![t] = Fresh]
    /\ UNCHANGED <<followed, queue, waiting, owed, sending, starts, silent, unseen>>

\* DOMContentLoaded: the tab listens from now on (application.js), and the page of a run,
\* other than the table, sets its button only now (tests_view.mak).
Loaded(t) ==
    /\ Idle(t) /\ t \in loading
    /\ loading' = loading \ {t}
    /\ \/ UNCHANGED <<page, silent>>
       \/ /\ page' = [page EXCEPT ![t].unfollow = Fresh.unfollow]
          /\ silent' = [silent EXCEPT ![t] = {}]
    /\ UNCHANGED <<followed, open, queue, waiting, owed, sending, starts, loads, unseen>>
-----------------------------------------------------------------------------
Next ==
    \E t \in Tab :
        \/ Broadcast(t) \/ Receive(t) \/ Miss(t) \/ Access(t) \/ Continue(t)
        \/ \E r \in Run : \/ Toggle(t, r) \/ Submit(t, r) \/ StopDelete(t, r)
                          \/ EventOf(t, r) \/ Stale(t, r)
        \/ Dismiss(t) \/ Close(t) \/ Open(t) \/ Loaded(t)

Spec == Init /\ [][Next]_vars
-----------------------------------------------------------------------------
(* Properties *)

Announcement == Command \ {Dismissal}
TypeOK ==
    /\ followed \in Seq(Run)
    /\ open \subseteq Tab /\ loading \subseteq open
    /\ page \in [Tab -> Page]
    /\ queue \in [Tab -> Seq(Command)]
    /\ waiting \in [Tab -> SUBSET Handler]
    /\ owed \in [Tab -> SUBSET (Seq(Seq(Announcement)) \ {<<>>})]
    /\ sending \in [Tab -> Seq(Command)]
    /\ silent \in [Tab -> SUBSET Run]
    /\ unseen \subseteq Run
    /\ starts \in 0..MaxStarts /\ loads \in 0..MaxLoads

\* A button shows whether its run is followed, or the tab is going to be told: by a
\* handler that owes the command, by one that is sending it, or by a queued event.  Only
\* a change that no handler announces, whose handler went with its tab, or whose event
\* came after the page had set its button and before it listened, escapes it.
Owed(t, r) == \E pieces \in owed[t] : r \in Announced(pieces)
ToBeTold(t, r) ==
    \/ Status(r) \in ToSet(queue[t])
    \/ \E u \in open : Owed(u, r) \/ Status(r) \in ToSet(sending[u])
ButtonsCurrent ==
    \A t \in open, r \in Run :
        page[t].unfollow[r] # Following(r) => ToBeTold(t, r) \/ r \in silent[t]

\* The user gets to see every notice: one that was broadcast is shown in some tab, or
\* will be when its tab handles its events, until the user dismisses the notices of a tab
\* that has handled it, although a dismissal hides the notices of all tabs and may cross a
\* new one (notifyFishtest_, dismissNotification_).
NoticesSeen == unseen \subseteq Shown(open)

\* A closed tab has nothing to do.
ClosedIdle ==
    \A t \in Tab \ open :
        queue[t] = <<>> /\ waiting[t] = {} /\ owed[t] = {} /\ sending[t] = <<>>

\* A dismissal comes from a tab that it does not meet again, where the unseen notices are
\* shown, or will be: all of them after it, as long as it has not been broadcast.
OneDismissal ==
    ~Dismissed =>
        \E origin \in open \ loading :
            /\ Dismissal \notin ToSet(queue[origin])
            /\ \A t \in Tab \ {origin} : Dismissal \notin ToSet(sending[t])
            /\ IF Dismissal \in ToSet(sending[origin])
               THEN sending[origin] = <<Dismissal>> /\ unseen \subseteq Queued(origin)
               ELSE unseen \subseteq page[origin].notices \cup Queued(origin)

\* The inductive invariant of the proofs.
Inductive == TypeOK /\ ClosedIdle /\ ButtonsCurrent /\ NoticesSeen /\ OneDismissal
=============================================================================
