--------------------------- MODULE RunDbInvariant ---------------------------
(***************************************************************************)
(* The inductive invariant of RunDb: the safety properties of its runs,    *)
(* and what they need to be preserved by every step.  RunDbProofs proves   *)
(* it for all values of the constants, TLC checks it on an instance.       *)
(***************************************************************************)
EXTENDS RunDb

\* What does not exist yet has no tasks, and no thread of a user works on it.
\* A thread that marks bad tasks has ids of tasks in its list.
UsersOk ==
    /\ \A r \in Run \ submitted : Ids(runs[r]) = {}
    /\ \A u \in User : user[u] # Idle => user[u].run \in submitted
    /\ \A u \in User : user[u].pc = "mark" => user[u].todo \subseteq Ids(runs[user[u].run])

\* At most one thread is in sync_request_task(), and while it goes from the
\* check of the machine limit to the increment of the counter the counter stays
\* below the limit.
LockOk ==
    /\ \A c, d \in Client : req[c] # Idle /\ req[d] # Idle => c = d
    /\ \A c \in Client : req[c] # Idle => req[c].run \in submitted
    /\ \A c \in Client : req[c].pc = "append" => conns[req[c].addr] < ConnLimit

\* total_games is the first opening that no task was given.
StartsOk(run) ==
    /\ OpeningsOk(run)
    /\ \A t \in Ids(run) : run.tasks[t].start + run.tasks[t].num_games <= run.total

AllStartsOk == \A r \in Run : StartsOk(runs[r])

\* The invariant is inductive: with TypeOK, the properties of RunDb that it
\* proves (AggregatesMatch, ConnectionsMatch, ConnectionLimit, OneTaskPerName,
\* FinishedIsQuiet, BadTasksOnce, UnfinishedListed, OpeningsDisjoint) follow from
\* themselves and from UsersOk, LockOk and StartsOk.
Inductive ==
    /\ TypeOK
    /\ AggregatesMatch
    /\ FinishedIsQuiet
    /\ BadTasksOnce
    /\ AllStartsOk
    /\ ConnectionsMatch
    /\ ConnectionLimit
    /\ UnfinishedListed
    /\ OneTaskPerName
    /\ UsersOk
    /\ LockOk

----------------------------------------------------------------------------
\* Where the results and the flag of a run come from.

\* The steps of a purge once it found a bad task, as long as the run stays finished.
PurgeSteps == {"mark", "assign", "reset", "state", "judge", "flag", "update"}

\* While a thread purges a run no other does so or reactivates the run.  The server
\* does not see to it: purge_run() takes the lock of the run for none of these steps.
LonePurge ==
    \A u, v \in User :
        /\ user[u].pc \in PurgeSteps
        /\ user[v].pc \in PurgeSteps \cup {"activate"}
        /\ user[u].run = user[v].run
        => u = v

\* If it is so, the run stays finished while it is purged, its tasks change only
\* where they are marked, and what was computed is still true when it is assigned.
ResultsOk ==
    /\ ResultsMatch
    /\ FlagsMatch
    /\ \A u \in User : user[u].pc \in PurgeSteps => runs[user[u].run].finished
    /\ \A u \in User : user[u].pc = "assign" =>
          user[u].results = compute_results(runs[user[u].run])
    /\ \A u \in User : user[u].pc = "update" =>
          user[u].flag = compute_flags(runs[user[u].run])
=============================================================================
