------------------------------ MODULE MCThreads ------------------------------
(* Instances of Scheduler and Locks for TLC.  The scheduler of periodic jobs and what its  *)
(* jobs and the requests do with the locks of the runs have nothing in common here, so a   *)
(* behaviour is of the one or of the other.                                                *)
EXTENDS Scheduler, Locks

CONSTANTS t1, t2, t3, c1, c2, r1, r2, q1, q2

\* A frequent task, a rare one that is created overdue or nearly so, and one that
\* is executed once.
Periods == [t \in Task |-> IF t = t1 THEN 1 ELSE 3]
Delays == [t \in Task |-> IF t = t2 THEN 0 ELSE 1]
MinDelays == [t \in Task |-> IF t = t1 THEN 1 ELSE 0]
Jitters == [t \in Task |-> IF t = t2 THEN 1 ELSE 0]

\* Three threads deal with one run, or two with two.
Crew(case) == IF case = "one run" THEN Thread ELSE {q1, q2}
Runs(case) == IF case = "one run" THEN {r1} ELSE Run

VARIABLE part
threadsVars == <<part, vars, todo>>

ThreadsInit == part \in {"scheduler", "one run", "two runs"} /\ Init /\ LocksInit
ThreadsNext ==
    /\ UNCHANGED part
    /\ \/ part = "scheduler" /\ Next /\ UNCHANGED todo
       \/ /\ part # "scheduler" /\ LocksNext /\ UNCHANGED vars
          /\ \A t \in Thread : todo'[t] # <<>> =>
                /\ t \in Crew(part)
                /\ \A i \in DOMAIN todo'[t] : todo'[t][i].take \in Named \cup Runs(part)

ThreadsSpec == ThreadsInit /\ [][ThreadsNext]_threadsVars /\ Fairness
=============================================================================
