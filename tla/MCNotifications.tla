--------------------------- MODULE MCNotifications ---------------------------
(* Instances of Notifications for TLC: two tabs that race for the fetch, for a short  *)
(* time; one tab for a longer time, in which several ends of a run are logged; and    *)
(* two tabs in which the user follows two runs at a time, more than the list holds.   *)
EXTENDS Notifications

CONSTANTS t1, t2, r1, r2

\* The first tab is in front; the browser throttles the timers of the other one, so
\* that they may be late by the time between two fetches.
Throttled == [t \in Tab |-> IF t = t1 THEN 0 ELSE FetchInterval]

VARIABLE instance

TabsInit ==
    /\ Init
    /\ \/ instance \in {"two tabs", "two runs"} /\ now = Horizon - 1 /\ pc[t2] = "asleep"
       \/ instance = "one tab" /\ now = 0 /\ pc[t2] = "closed"

\* With one run there is one click at a time.
OneRun ==
    /\ active \cup {r1} = Run /\ unlogged \subseteq {r1} /\ RunsOf(log) \subseteq {r1}
    /\ \A t \in Tab : click[t] # None =>
        /\ click[t].run = r1
        /\ \A u \in Tab : click[u] # None => u = t
\* With two there is nothing but clicks, until there are no more.
ClicksOnly == pc' = pc /\ UNCHANGED server
TabsNext ==
    /\ UNCHANGED instance
    /\ \/ /\ Next
          /\ IF instance = "two runs" THEN ClicksOnly ELSE OneRun'
          /\ instance = "one tab" => pc'[t2] = "closed"
       \/ instance = "two runs" /\ UNCHANGED vars

TabsSpec == TabsInit /\ [][TabsNext]_<<vars, instance>> /\ Fairness
=============================================================================
