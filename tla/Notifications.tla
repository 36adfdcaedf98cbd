---------------------------- MODULE Notifications ----------------------------
(***************************************************************************)
(* The notifications of the Fishtest site: notifications.js, which every   *)
(* tab of the site runs in a browser.  The tabs share the local storage,   *)
(* where the list of followed runs is, take turns in asking the server     *)
(* what became of these runs, and tell the user of the end of a run.       *)
(*                                                                         *)
(* A tab runs one piece of JavaScript at a time: its main loop and the     *)
(* handlers of the user's clicks alternate where they wait for a timer, an *)
(* answer or the Web Lock.  Pieces of different tabs run in parallel:      *)
(* every access to the storage outside of the lock is a step of its own.   *)
(***************************************************************************)
EXTENDS Integers, FiniteSets

CONSTANTS
    Tab, Run,
    WebLocks,       \* whether the browser has Web Locks (navigator.locks)
    Capacity,       \* designCapacity, the length of the list
    FetchInterval,  \* 19000 ms: a fetch that is younger is not repeated
    SleepTime,      \* 20000 ms: between two looks at the time of that fetch
    SettleTime,     \* 1500 ms: between the claim of a fetch and the fetch
    WakeUpTime,     \* 90000 ms: a longer sleep means that the computer slept
    PurgeInterval,  \* 20000 s: between two purges
    Grace,          \* 60 s: activity this long before the claim is recent
    AnswerLimit,    \* 200: the server answers with no more actions
    Lateness,       \* bound: how late the timers of each tab may fire
    Horizon,        \* bound: users, the server and the computer act before this time
    MaxFollows,     \* bound on the number of subscriptions
    MaxEvents,      \* bound on the number of logged events
    MaxClicks,      \* bound on the clicks that are handled at a time
    Lasting,        \* the tabs that the user never closes
    None            \* no value

ASSUME NumbersAssumption ==
    /\ {Capacity, MaxFollows} \subseteq Nat \ {0}
    /\ {FetchInterval, SleepTime, SettleTime, WakeUpTime, PurgeInterval, Grace,
        AnswerLimit, Horizon, MaxEvents, MaxClicks} \subseteq Nat
    /\ Lateness \in [Tab -> Nat]

ASSUME SwitchesAssumption == WebLocks \in BOOLEAN /\ Lasting \subseteq Tab

VARIABLES
    followed,      \* "notifications" in the storage: the subscriptions
    claimant,      \* "latestFetchTimeSig": the tab that wrote it
    sinceClaim,    \* the age of "latestFetchTime", up to FetchInterval
    latestPurge,   \* "latestPurgeTime", or -1
    active,        \* server: the runs that are not finished
    unlogged,      \* server: finished runs whose end is not logged yet
    log,           \* server: logged finished_run, stop_run, delete_run
    now,           \* the clock, in units of some seconds
    pc,            \* where the main loop of a tab is
    timer,         \* time until the timer of its main loop fires
    claimedAt,     \* currentTime of its main loop, after a claim
    asked,         \* runs named in its request
    json,          \* the answer, then the entries of it that are left
    work,          \* entries to tell the user of, with their subscription
    telling,       \* the one whose details it has asked for, or None
    suspects,      \* purge: subscriptions that may be stale
    stale,         \* purge: subscriptions to remove
    section,       \* the tab's access to the list, None outside
    click,         \* the user's click that is being handled, or None
    nextId,        \* history: number of the next subscription
    noticed,       \* history: notices given
    ended,         \* history: subscriptions ended otherwise
    cut            \* history: events that were cut off an answer

storage == <<followed, claimant, sinceClaim, latestPurge>>
server == <<active, unlogged, log>>
loop == <<pc, timer, claimedAt, asked, json, work, telling,
          suspects, stale>>
history == <<nextId, noticed, ended, cut>>
vars == <<storage, server, now, loop, section, click, history>>

\* An entry of the list: its run and time of subscription.  The list is in the
\* order of the numbers, which only the history knows.
Subscription == [run : Run, ts : Nat, id : Nat]
\* A logged action.
Event == [run : Run, time : Nat]
Notice == [event : Event, sub : Subscription]

\* The loop is between two accesses to the storage in one piece of JavaScript.
Midway == {"top", "claiming", "signing", "settled", "due", "marked"}
LoopState == {"closed", "asleep", "settling", "asking", "answered", "removing",
              "telling", "purging", "checking", "dropping"} \cup Midway
Click == [op : {"follow", "unfollow"}, run : Run]
\* An access to the list: by whom, what for, and the copy that it works on.
Section == [by : {"event", "purge", "click"}, event : Event \cup {None},
            op : {"follow", "unfollow"}, run : Run, ts : Nat \cup {None},
            copy : SUBSET Subscription]

ASSUME NoneAssumption ==
    /\ None \notin Tab /\ None \notin Run /\ None \notin Nat
    /\ None \notin Event /\ None \notin Notice /\ None \notin Click /\ None \notin Section

\* The clock stops when no event can be recent any more.
LastTime == Horizon + Grace + 1

Init ==
    /\ followed = {}
    /\ claimant = None
    /\ sinceClaim = FetchInterval
    /\ latestPurge = -1
    /\ active = Run /\ unlogged = {} /\ log = {}
    /\ now \in 0..Horizon
    /\ pc \in [Tab -> {"asleep", "closed"}] /\ \A t \in Lasting : pc[t] = "asleep"
    /\ timer = [t \in Tab |-> 0]
    /\ claimedAt = [t \in Tab |-> 0]
    /\ asked = [t \in Tab |-> {}]
    /\ json = [t \in Tab |-> {}]
    /\ work = [t \in Tab |-> {}]
    /\ telling = [t \in Tab |-> None]
    /\ suspects = [t \in Tab |-> {}]
    /\ stale = [t \in Tab |-> {}]
    /\ section = [t \in Tab |-> None]
    /\ click = [t \in Tab |-> None]
    /\ nextId = 1
    /\ noticed = {} /\ ended = {} /\ cut = {}
-----------------------------------------------------------------------------
(* The list of subscriptions *)

RunsOf(subs) == {s.run : s \in subs}
\* contains: the run is in the list.
Contains(subs, r) == r \in RunsOf(subs)
\* remove: the entries of the run; only that of the given time if there is one.
\* Mutant: without a time, no entry is removed.
MutMatching(subs, r, ts) == {s \in subs : s.run = r /\ ts = s.ts}
Matching(subs, r, ts) == {s \in subs : s.run = r /\ ts \in {None, s.ts}}
\* add: the first entry of a list that has become too long is dropped.
Dropped(subs) ==
    IF Cardinality(subs) > Capacity
    THEN {s \in subs : \A other \in subs : s.id <= other.id}
    ELSE {}
-----------------------------------------------------------------------------
(* The time of the last fetch, and the top of the main loop *)

\* The main loop of a tab runs when its timer fires or its answer comes, and when
\* no handler of the tab is in the middle of its access to the list.
At(t, state) == pc[t] = state /\ section[t] = None
Goto(t, state) == pc' = [pc EXCEPT ![t] = state]
\* No other piece of JavaScript runs in the tab.
Waits(t) == pc[t] \notin Midway

\* A tab that finds a young fetch sleeps; another one is going to claim the next fetch.
Iterate(t) ==
    IF sinceClaim < FetchInterval
    THEN /\ Goto(t, "asleep")
         /\ timer' = [timer EXCEPT ![t] = SleepTime]
         /\ claimedAt' = [claimedAt EXCEPT ![t] = 0]
    ELSE /\ Goto(t, "claiming")
         /\ timer' = [timer EXCEPT ![t] = 0]
         /\ claimedAt' = [claimedAt EXCEPT ![t] = now]

\* asyncSleep: the tab sleeps no longer, and looks at the time of the last fetch; it does
\* so, too, where it has just seen that no purge is due.
Look(t) ==
    /\ At(t, "top") \/ (At(t, "asleep") /\ timer[t] <= 0)
    /\ Iterate(t)
    /\ UNCHANGED <<storage, server, now, asked, json, work, telling, suspects, stale, section,
                   click, history>>

\* It writes the time and then the signature of its claim.
Claim(t) ==
    /\ At(t, "claiming")
    /\ sinceClaim' = 0
    /\ Goto(t, "signing")
    /\ UNCHANGED <<followed, claimant, latestPurge, server, now, timer, claimedAt, asked, json,
                   work, telling, suspects, stale, section, click, history>>
Sign(t) ==
    /\ At(t, "signing")
    /\ claimant' = t
    /\ Goto(t, "settling")
    /\ timer' = [timer EXCEPT ![t] = SettleTime]
    /\ UNCHANGED <<followed, sinceClaim, latestPurge, server, now, claimedAt, asked, json, work,
                   telling, suspects, stale, section, click, history>>

\* After the settle time a tab that slept with the computer, or whose claim was
\* overwritten, starts again: what it reads of the signature does not change any more.
\* Mutant: whoever claimed the fetch does.
MutPreempted(t) == SettleTime - timer[t] > WakeUpTime \/ claimant = t
Preempted(t) == SettleTime - timer[t] > WakeUpTime \/ claimant # t
Settle(t) ==
    /\ At(t, "settling") /\ timer[t] <= 0
    /\ IF Preempted(t)
       THEN Iterate(t)
       ELSE /\ Goto(t, "settled")
            /\ timer' = [timer EXCEPT ![t] = 0]
            /\ UNCHANGED claimedAt
    /\ UNCHANGED <<storage, server, now, asked, json, work, telling, suspects, stale,
                   section, click, history>>
\* The others ask for the ends of the followed runs.
Gather(t) ==
    /\ At(t, "settled")
    /\ asked' = [asked EXCEPT ![t] = RunsOf(followed)]
    /\ Goto(t, IF followed = {} THEN "removing" ELSE "asking")
    /\ UNCHANGED <<storage, server, now, timer, claimedAt, json, work, telling, suspects, stale,
                   section, click, history>>

\* The request fails: the loop starts again.
FetchFails(t) ==
    /\ pc[t] \in {"asking", "purging", "checking"} /\ section[t] = None
    /\ Iterate(t)
    /\ asked' = [asked EXCEPT ![t] = {}]
    /\ suspects' = [suspects EXCEPT ![t] = {}]
    /\ stale' = [stale EXCEPT ![t] = {}]
    /\ UNCHANGED <<storage, server, now, json, work, telling,
                   section, click, history>>

\* The server answers with the logged ends of these runs, in no order and not too many.
Limited(found) ==
    {some \in SUBSET found :
        IF Cardinality(found) <= AnswerLimit
        THEN some = found ELSE Cardinality(some) = AnswerLimit}
Answer(t) ==
    /\ pc[t] = "asking"
    /\ LET found == {e \in log : e.run \in asked[t]} IN
        \E answer \in Limited(found) :
            /\ json' = [json EXCEPT ![t] = answer]
            /\ cut' = cut \cup (found \ answer)
    /\ asked' = [asked EXCEPT ![t] = {}]
    /\ Goto(t, "answered")
    /\ UNCHANGED <<storage, server, now, timer, claimedAt, work, telling,
                   suspects, stale, section, click, nextId, noticed, ended>>

\* The tab reads the list again and leaves out the runs that are not followed any
\* more and the events that happened before subscribing.
SinceFollowed(e) == \E s \in followed : s.run = e.run /\ e.time >= s.ts
Receive(t) ==
    /\ At(t, "answered")
    /\ json' = [json EXCEPT ![t] = {e \in @ : SinceFollowed(e)}]
    /\ Goto(t, "removing")
    /\ UNCHANGED <<storage, server, now, timer, claimedAt, asked, work, telling,
                   suspects, stale, section, click, history>>
-----------------------------------------------------------------------------
(* Accesses to the list *)

\* An access reads the list and writes it: alone if it holds the Web Lock.
LockFree == \A t \in Tab : section[t] = None
\* Mutant: without the Web Lock.
MutEnter(t, by, event, op, r, ts) ==
    /\ section[t] = None
    /\ section' = [section EXCEPT ![t] =
            [by |-> by, event |-> event, op |-> op, run |-> r, ts |-> ts,
             copy |-> followed]]
    /\ UNCHANGED <<storage, server, now, loop, click, history>>
Enter(t, by, event, op, r, ts) ==
    /\ section[t] = None
    /\ WebLocks => LockFree
    /\ section' = [section EXCEPT ![t] =
            [by |-> by, event |-> event, op |-> op, run |-> r, ts |-> ts,
             copy |-> followed]]
    /\ UNCHANGED <<storage, server, now, loop, click, history>>

\* unfollowRun as the main loop calls it, for an event, and as the purge calls it.
EnterEvent(t) ==
    /\ pc[t] = "removing"
    /\ \E e \in json[t] : Enter(t, "event", e, "unfollow", e.run, None)
EnterPurge(t) ==
    /\ pc[t] = "dropping"
    /\ \E s \in stale[t] : Enter(t, "purge", None, "unfollow", s.run, s.ts)
\* followRun and unfollowRun as the handlers of clicks call them.
EnterClick(t) ==
    /\ click[t] # None /\ Waits(t)
    /\ Enter(t, "click", None, click[t].op, click[t].run, None)

\* followRun_: a run that is in the list stays as it is.
LeaveFollow(t) ==
    /\ section[t] # None /\ section[t].op = "follow"
    /\ LET old == section[t].copy
           new == IF Contains(old, section[t].run) THEN {}
                  ELSE {[run |-> section[t].run, ts |-> now, id |-> nextId]}
           drop == Dropped(old \cup new)
       IN  /\ followed' = (old \cup new) \ drop
           /\ nextId' = IF new = {} THEN nextId ELSE nextId + 1
           /\ ended' = ended \cup drop
    /\ section' = [section EXCEPT ![t] = None]
    /\ click' = [click EXCEPT ![t] = None]
    /\ UNCHANGED <<claimant, sinceClaim, latestPurge, server, now, loop, noticed, cut>>

\* unfollowRun_, and what its caller does with the result.
LeaveUnfollow(t) ==
    /\ section[t] # None /\ section[t].op = "unfollow"
    /\ LET old == section[t].copy
           removed == Matching(old, section[t].run, section[t].ts)
       IN  /\ followed' = IF removed = {} THEN followed ELSE old \ removed
           /\ \/ /\ section[t].by = "event"
                 /\ json' = [json EXCEPT ![t] = @ \ {section[t].event}]
                 /\ work' = [work EXCEPT ![t] = @ \cup
                        {[event |-> section[t].event, sub |-> s] : s \in removed}]
                 /\ UNCHANGED <<click, stale, ended>>
              \/ /\ section[t].by = "purge"
                 /\ stale' = [stale EXCEPT ![t] =
                        {s \in @ : s.run # section[t].run \/ s.ts # section[t].ts}]
                 /\ ended' = ended \cup removed
                 /\ UNCHANGED <<click, json, work>>
              \/ /\ section[t].by = "click"
                 /\ click' = [click EXCEPT ![t] = None]
                 /\ ended' = ended \cup removed
                 /\ UNCHANGED <<json, work, stale>>
    /\ section' = [section EXCEPT ![t] = None]
    /\ UNCHANGED <<claimant, sinceClaim, latestPurge, server, now, pc, timer, claimedAt,
                   asked, telling, suspects, nextId, noticed, cut>>
-----------------------------------------------------------------------------
(* The rest of the main loop *)

\* The next entry of the work: the tab asks for the details of the run.
\* Mutant: the entry stays in the work.
MutStartTelling(t) ==
    /\ At(t, "removing") /\ json[t] = {}
    /\ \E w \in work[t] : telling' = [telling EXCEPT ![t] = w]
    /\ Goto(t, "telling")
    /\ UNCHANGED <<storage, server, now, timer, claimedAt, asked, json, work, suspects, stale,
                   section, click, history>>
StartTelling(t) ==
    /\ At(t, "removing") /\ json[t] = {}
    /\ \E w \in work[t] :
        /\ telling' = [telling EXCEPT ![t] = w]
        /\ work' = [work EXCEPT ![t] = @ \ {w}]
    /\ Goto(t, "telling")
    /\ UNCHANGED <<storage, server, now, timer, claimedAt, asked, json, suspects, stale,
                   section, click, history>>

\* notifyElo: with or without the details, as the request fails or not.
Tell(t) ==
    /\ At(t, "telling")
    /\ noticed' = noticed \cup {telling[t]}
    /\ telling' = [telling EXCEPT ![t] = None]
    /\ Goto(t, "removing")
    /\ UNCHANGED <<storage, server, now, timer, claimedAt, asked, json, work, suspects,
                   stale, section, click, nextId, ended, cut>>

\* All is told: a purge is due, or the loop starts again.
PurgeDue(t) == latestPurge = -1 \/ claimedAt[t] - latestPurge > PurgeInterval
EndLoop(t) ==
    /\ At(t, "removing") /\ json[t] = {} /\ work[t] = {}
    /\ Goto(t, IF PurgeDue(t) THEN "due" ELSE "top")
    /\ UNCHANGED <<storage, server, now, timer, claimedAt, asked, json, work, telling, suspects,
                   stale, section, click, history>>
-----------------------------------------------------------------------------
(* purgeNotifications *)

\* The time of the iteration is the time of the purge.
MarkPurge(t) ==
    /\ At(t, "due")
    /\ latestPurge' = claimedAt[t]
    /\ Goto(t, "marked")
    /\ UNCHANGED <<followed, claimant, sinceClaim, server, now, timer, claimedAt, asked, json,
                   work, telling, suspects, stale, section, click, history>>
\* The tab reads the list and asks for the active runs.
Suspect(t) ==
    /\ At(t, "marked")
    /\ suspects' = [suspects EXCEPT ![t] = followed]
    /\ Goto(t, "purging")
    /\ UNCHANGED <<storage, server, now, timer, claimedAt, asked, json, work, telling, stale,
                   section, click, history>>

NextCheck(t, left) ==
    /\ suspects' = [suspects EXCEPT ![t] = left]
    /\ Goto(t, IF left = {} THEN "dropping" ELSE "checking")
    /\ UNCHANGED <<storage, server, now, timer, claimedAt, asked, json, work, telling,
                   section, click, history>>

\* The server answers which runs are active: they stay in the list.
ActiveRuns(t) ==
    /\ At(t, "purging")
    /\ NextCheck(t, {s \in suspects[t] : s.run \notin active})
    /\ UNCHANGED stale

\* The server answers whether something happened to a run since a minute before
\* the claim of this iteration: if so the entry stays.
\* Mutant: a minute before now.
MutRecent(t, r) == \E e \in log : e.run = r /\ e.time >= now - Grace
Recent(t, r) == \E e \in log : e.run = r /\ e.time >= claimedAt[t] - Grace
Check(t) ==
    /\ At(t, "checking")
    /\ \E s \in suspects[t] :
        /\ NextCheck(t, suspects[t] \ {s})
        /\ stale' = [stale EXCEPT ![t] = IF Recent(t, s.run) THEN @ ELSE @ \cup {s}]

EndPurge(t) ==
    /\ At(t, "dropping") /\ stale[t] = {}
    /\ Iterate(t)
    /\ UNCHANGED <<storage, server, now, asked, json, work, telling, suspects, stale, section,
                   click, history>>
-----------------------------------------------------------------------------
(* Clicks, and the opening and closing of tabs *)

MayClick(t) ==
    /\ pc[t] # "closed" /\ Waits(t) /\ click[t] = None /\ section[t] = None
    /\ Cardinality({u \in Tab : click[u] # None}) < MaxClicks
Clicked(t, op, r) ==
    /\ click' = [click EXCEPT ![t] = [op |-> op, run |-> r]]
    /\ UNCHANGED <<storage, server, now, loop, section, history>>

\* toggleNotifactionStatus: the storage decides, whatever the button shows.  The page of
\* a run just submitted follows it too; handleStopDeleteButton unfollows.
Follow(t, r) ==
    /\ MayClick(t) /\ ~Contains(followed, r)
    /\ now < Horizon /\ nextId <= MaxFollows
    /\ Clicked(t, "follow", r)
Unfollow(t, r) ==
    /\ MayClick(t) /\ Contains(followed, r)
    /\ Clicked(t, "unfollow", r)

\* A closed tab loses what it was doing, and its lock.
Prepared(t) == work[t] \cup (IF telling[t] = None THEN {} ELSE {telling[t]})
InHand(t) == {n.sub : n \in Prepared(t)}
Close(t) ==
    /\ t \notin Lasting /\ pc[t] # "closed"
    /\ Goto(t, "closed")
    /\ timer' = [timer EXCEPT ![t] = 0]
    /\ claimedAt' = [claimedAt EXCEPT ![t] = 0]
    /\ asked' = [asked EXCEPT ![t] = {}]
    /\ json' = [json EXCEPT ![t] = {}]
    /\ work' = [work EXCEPT ![t] = {}]
    /\ telling' = [telling EXCEPT ![t] = None]
    /\ suspects' = [suspects EXCEPT ![t] = {}]
    /\ stale' = [stale EXCEPT ![t] = {}]
    /\ section' = [section EXCEPT ![t] = None]
    /\ click' = [click EXCEPT ![t] = None]
    /\ ended' = ended \cup InHand(t)
    /\ UNCHANGED <<storage, server, now, nextId, noticed, cut>>

\* A page is loaded: its loop waits some seconds.
Open(t) ==
    /\ pc[t] = "closed" /\ now < Horizon
    /\ Goto(t, "asleep")
    /\ timer' = [timer EXCEPT ![t] = SleepTime]
    /\ UNCHANGED <<storage, server, now, claimedAt, asked, json, work, telling, suspects,
                   stale, section, click, history>>
-----------------------------------------------------------------------------
(* The server, and time *)

\* Bounds: some events, and one of a run at a time.
MayLog(r) ==
    /\ now < Horizon /\ Cardinality(log) + Cardinality(unlogged) < MaxEvents
    /\ \A e \in log : e.run = r => e.time # now
ServerOnly == UNCHANGED <<storage, now, loop, section, click, history>>
Logged(r) == log' = log \cup {[run |-> r, time |-> now]}

\* A run finishes, is stopped or deleted; then the end is logged.
End(r) ==
    /\ r \in active /\ MayLog(r)
    /\ active' = active \ {r}
    /\ unlogged' = unlogged \cup {r}
    /\ UNCHANGED log /\ ServerOnly
LogEnd(r) ==
    /\ r \in unlogged
    /\ Logged(r)
    /\ unlogged' = unlogged \ {r}
    /\ UNCHANGED active /\ ServerOnly
\* A worker may not stop the run: the request is logged as stop_run all the same.
RefuseStop(r) ==
    /\ r \in active /\ MayLog(r)
    /\ Logged(r)
    /\ UNCHANGED <<active, unlogged>> /\ ServerOnly
\* A purge or a modification makes the run active again.
Restart(r) ==
    /\ r \notin active
    /\ active' = active \cup {r}
    /\ UNCHANGED <<unlogged, log>> /\ ServerOnly

Sleeping(t) == pc[t] \in {"asleep", "settling"}
Pass(d) ==
    /\ now' = IF now + d < LastTime THEN now + d ELSE LastTime
    /\ sinceClaim' = IF sinceClaim + d < FetchInterval THEN sinceClaim + d ELSE FetchInterval
    /\ timer' = [t \in Tab |-> IF Sleeping(t) THEN timer[t] - d ELSE timer[t]]
    /\ UNCHANGED <<followed, claimant, latestPurge, server, pc, claimedAt, asked, json,
                   work, telling, suspects, stale, section, click, history>>
\* Pieces of JavaScript and requests of the server take no time to speak of; a timer is not
\* later than the browser lets the tab be, which throttles the tabs in the background.
Instant == LockFree /\ unlogged = {} /\ \A t \in Tab : Waits(t)
Tick ==
    /\ Instant
    /\ \A t \in Tab : Sleeping(t) => timer[t] > -Lateness[t]
    /\ Pass(1)
\* The computer sleeps, with all tabs, and wakes up.
Hibernate ==
    /\ Instant /\ now < Horizon
    /\ Pass(WakeUpTime + 1)
-----------------------------------------------------------------------------
LoopStep(t) ==
    \/ Look(t) \/ Claim(t) \/ Sign(t) \/ Settle(t) \/ Gather(t) \/ Answer(t) \/ Receive(t)
    \/ EnterEvent(t) \/ StartTelling(t) \/ Tell(t) \/ EndLoop(t) \/ MarkPurge(t)
    \/ Suspect(t) \/ ActiveRuns(t) \/ Check(t) \/ EnterPurge(t) \/ EndPurge(t)
LeaveStep(t) == LeaveFollow(t) \/ LeaveUnfollow(t)
UserStep(t) ==
    \/ \E r \in Run : Follow(t, r) \/ Unfollow(t, r)
    \/ Close(t) \/ Open(t)
ServerStep == \E r \in Run : End(r) \/ LogEnd(r) \/ RefuseStop(r) \/ Restart(r)

Next ==
    \/ \E t \in Tab :
        LoopStep(t) \/ FetchFails(t) \/ EnterClick(t) \/ LeaveStep(t) \/ UserStep(t)
    \/ ServerStep
    \/ Tick \/ Hibernate

Spec == Init /\ [][Next]_vars

\* Time passes and timers fire, whatever the user does; a tab that can go on does; the
\* network does not fail for ever.
Fairness ==
    /\ SF_vars(Tick)
    /\ \A t \in Tab :
        /\ WF_vars(LoopStep(t)) /\ SF_vars(Answer(t))
        /\ WF_vars(LeaveStep(t))
    /\ \A r \in Run : WF_vars(LogEnd(r))
FairSpec == Spec /\ Fairness
-----------------------------------------------------------------------------
(* Properties *)

\* The variables have values of their types.
TypeOK ==
    /\ followed \in SUBSET Subscription
    /\ claimant \in Tab \cup {None}
    /\ sinceClaim \in 0..FetchInterval
    /\ latestPurge \in Nat \cup {-1}
    /\ active \in SUBSET Run /\ unlogged \in SUBSET Run
    /\ log \in SUBSET Event
    /\ now \in 0..LastTime
    /\ pc \in [Tab -> LoopState]
    /\ timer \in [Tab -> Int]
    /\ claimedAt \in [Tab -> Nat]
    /\ asked \in [Tab -> SUBSET Run]
    /\ json \in [Tab -> SUBSET Event]
    /\ work \in [Tab -> SUBSET Notice]
    /\ telling \in [Tab -> Notice \cup {None}]
    /\ suspects \in [Tab -> SUBSET Subscription]
    /\ stale \in [Tab -> SUBSET Subscription]
    /\ section \in [Tab -> Section \cup {None}]
    /\ click \in [Tab -> Click \cup {None}]
    /\ nextId \in Nat
    /\ noticed \in SUBSET Notice
    /\ ended \in SUBSET Subscription
    /\ cut \in SUBSET Event

\* The list holds a run at most once, and no more runs than its capacity, whatever the
\* tabs do to it at a time (LRU.add).
ListKept ==
    /\ Cardinality(followed) <= Capacity
    /\ \A s, u \in followed : s.run = u.run => s = u

\* A subscription is in one place only: in the list, in the hands of one tab that tells
\* of its end, told, or ended.  So no event is told twice although all tabs get the same
\* answers ("I won the race", "Extra defense against race", mainFollowLoop).
Told == {n.sub : n \in noticed}
OneNotice(notices) == \A m, n \in notices : m.sub = n.sub => m = n
OnePlace ==
    /\ \A t, u \in Tab : t # u => InHand(t) \cap InHand(u) = {}
    /\ \A t \in Tab : InHand(t) \cap (followed \cup Told \cup ended) = {}
    /\ followed \cap (Told \cup ended) = {} /\ Told \cap ended = {}
    /\ \A t \in Tab : telling[t] \notin work[t] /\ OneNotice(Prepared(t))
    /\ OneNotice(noticed)

\* No subscription gets lost when tabs write the list at the same time (followRun and
\* unfollowRun read and write it under the Web Lock).
Placed == followed \cup Told \cup ended \cup UNION {InHand(t) : t \in Tab}
NoneLost == \A i \in 1..(nextId - 1) : \E s \in Placed : s.id = i

\* When the purge finds out whether a subscription is stale, it keeps each one with news,
\* however long ago its iteration began ("It will be dealt with in the normal way", "This is
\* intentional!", purgeNotifications), unless the news was cut off an answer.
News(s) == {e \in log : e.run = s.run /\ e.time >= s.ts}
PurgeKeepsNews ==
    [][\A t \in Tab : \A s \in stale'[t] \ stale[t] : News(s) \subseteq cut]_vars

\* A user who follows a run and leaves a tab open gets notice of its end, unless the
\* subscription ends first or the end is cut off an answer ("Click to follow: get
\* notification", setNotificationStatus_), although another tab, whose timers are late,
\* may claim the fetch, and the computer may sleep.
FollowedIsNotified ==
    \A i \in 1..MaxFollows :
        (\E s \in followed : s.id = i /\ ~(News(s) \subseteq cut)) ~>
            \/ \E s \in Told \cup ended : s.id = i
            \/ \E s \in followed : s.id = i /\ News(s) \subseteq cut

(* What makes these properties inductive *)

\* One tab at a time is in its section, and works on the list as it is.
SectionsKept ==
    /\ \A t, u \in Tab : section[t] # None /\ section[u] # None => t = u
    /\ \A t \in Tab : section[t] # None =>
        /\ section[t].copy = followed
        /\ section[t].op = "follow" => section[t].by = "click"
        /\ section[t].by = "event" =>
            /\ pc[t] = "removing" /\ section[t].event \in json[t]
            /\ section[t].run = section[t].event.run /\ section[t].ts = None
\* What a tab has in hand belongs to the place where its loop is.
LoopKept ==
    \A t \in Tab :
        /\ json[t] # {} => pc[t] \in {"answered", "removing"}
        /\ work[t] # {} => pc[t] \in {"removing", "telling"}
        /\ telling[t] # None <=> pc[t] = "telling"
        /\ claimedAt[t] <= now
\* Subscriptions are numbered in their order.
NumbersKept == \A s \in Placed : s.id < nextId
\* News older than Grace before the claim are in the request, in the answer unless they were
\* cut off, and gone when the purge looks at the list.
OldNews(t, s) == {e \in log : e.run = s.run /\ e.time >= s.ts /\ e.time < claimedAt[t] - Grace}
NewsKept ==
    \A t \in Tab :
        /\ pc[t] = "asking" => \A s \in followed : OldNews(t, s) # {} => s.run \in asked[t]
        /\ pc[t] \in {"answered", "removing", "telling"} =>
            \A s \in followed : OldNews(t, s) \subseteq json[t] \cup cut
        /\ pc[t] \in {"due", "marked"} => \A s \in followed : OldNews(t, s) \subseteq cut
        /\ pc[t] \in {"purging", "checking"} => \A s \in suspects[t] : OldNews(t, s) \subseteq cut

\* The inductive invariant.
Inductive ==
    /\ TypeOK
    /\ IsFiniteSet(followed) /\ ListKept
    /\ SectionsKept /\ LoopKept
    /\ OnePlace /\ NumbersKept /\ NoneLost
    /\ NewsKept
=============================================================================
