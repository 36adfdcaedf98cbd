------------------------------- MODULE Locks -------------------------------
(***************************************************************************)
(* The locks of a Fishtest server (rundb.py, run_cache.py), as its threads *)
(* take them: the threads of the requests and the thread of the scheduler  *)
(* of periodic jobs.  A piece of code is what it does with the locks, a    *)
(* call being the code that it calls.                                      *)
(*                                                                         *)
(* Abstractions.  Of a thread only its locks and what it will do with them *)
(* is kept; what the locks protect is in RunDb and RunCache.  A block that *)
(* takes a lock may be left out: so are conditions, early returns and      *)
(* exceptions.  The body of a loop is there once.  Locks inside the        *)
(* dictionaries of lru_cache.py are not modelled: nothing is called while  *)
(* one is held.  update_aggregated_data runs before the other threads.     *)
(***************************************************************************)
EXTENDS Integers, Sequences

CONSTANTS
    Run,            \* each has a lock of its own
    Requester,      \* threads that handle requests
    Worker          \* the scheduler's thread

\* Named locks, and the locks of the runs; some a thread may take again.
Named == {"request_task", "wtt", "unfinished_runs", "connections", "worker_runs", "run_cache"}
Lock == Run \cup Named
Reentrant == Run \cup {"wtt"}
Thread == Requester \cup {Worker}

ASSUME LocksAssumption == Run \cap Named = {} /\ Worker \notin Requester

VARIABLE
    todo            \* [Thread -> code]: what it is going to do, first of all take a lock

\* Code is a sequence of accesses: a lock is taken, by a thread that holds some already.
Access == [holding : SUBSET Lock, take : Lock]
----------------------------------------------------------------------------
(* The code that requests and jobs share *)

\* with l: body
With(l, body) ==
    <<[holding |-> {}, take |-> l]>>
    \o [i \in DOMAIN body |-> [body[i] EXCEPT !.holding = @ \cup {l}]]
Briefly(l) == With(l, <<>>)

\* The cache.  A run is written under its lock, when that of the cache is released.
get_run == Briefly("run_cache")
buffer == Briefly("run_cache")
buffer_now(r) == buffer \o Briefly(r)
\* Mutant: the run is written before the lock of the cache is released.
MutFlush(r) == With("run_cache", Briefly(r))
flush(r) == Briefly("run_cache") \o Briefly(r)

\* The end of tasks and runs.
set_inactive_task(r) == With(r, Briefly("connections")) \o buffer
set_bad_task(r) == With(r, set_inactive_task(r) \o buffer)
set_inactive_run(r) == With(r, set_inactive_task(r)) \o buffer_now(r)
set_active_run(r) == Briefly(r) \o buffer_now(r)
purge_run(r) == set_bad_task(r) \o set_active_run(r)
stop_run(r) == get_run \o set_inactive_run(r) \o purge_run(r)
failed_task(r) == get_run \o set_inactive_task(r)

\* The table of workers: its lock first, then that of the run of the worker's old task.
insert_in_wtt_map(q) == get_run \o With("wtt", get_run \o With(q, failed_task(q)))
----------------------------------------------------------------------------
(* Requests *)

\* The lock of the run is given up before the table of workers is changed.
sync_request_task(r, q) ==
    With("wtt", get_run) \o Briefly("connections") \o With("unfinished_runs", get_run)
    \o With(r, Briefly("connections"))
    \o insert_in_wtt_map(q) \o buffer \o Briefly("worker_runs")
request_task(r, q) == With("request_task", sync_request_task(r, q))

spsa_data(r) == With(r, get_run \o buffer)
update_task(r) ==
    With(r, get_run \o spsa_data(r) \o set_inactive_task(r) \o stop_run(r) \o buffer)
beat(r) == With(r, buffer)
api_stop_run(r) == With(r, stop_run(r) \o set_inactive_task(r))

new_run(r) == buffer_now(r) \o Briefly("unfinished_runs") \o get_run
approve_run(r) == get_run \o With(r, buffer_now(r))
tests_modify(r) == Briefly(r) \o Briefly(r) \o set_active_run(r)
tests_delete(r) == set_inactive_run(r) \o buffer_now(r)

\* Each of these requests looks up its run first.
OfRun(r) == {update_task(r), failed_task(r), spsa_data(r), beat(r), api_stop_run(r),
             tests_modify(r), tests_delete(r), stop_run(r), purge_run(r), approve_run(r)}
Requests ==
    {request_task(r, q) : r \in Run, q \in Run} \cup {new_run(r) : r \in Run} \cup
    {flush(r) : r \in Run} \cup UNION {{get_run \o code : code \in OfRun(r)} : r \in Run}
----------------------------------------------------------------------------
(* Jobs of the scheduler *)

unfinished == With("unfinished_runs", get_run)
scavenge_dead_tasks(r) == unfinished \o Briefly(r) \o set_inactive_task(r)
update_itp == unfinished \o buffer
update_nps_gpm(r) == unfinished \o Briefly(r) \o With(r, buffer)
validate_random_run(r) == Briefly("unfinished_runs") \o get_run \o Briefly(r)
validate_data_structures ==
    Briefly("run_cache") \o Briefly("wtt") \o Briefly("connections")
    \o Briefly("unfinished_runs") \o Briefly("worker_runs")
clean_wtt_map == With("wtt", get_run)
clean_worker_runs == Briefly("worker_runs")
clean_cache == Briefly("run_cache")

Jobs ==
    {update_itp, validate_data_structures, clean_wtt_map, clean_worker_runs, clean_cache} \cup
    UNION {{flush(r), scavenge_dead_tasks(r), update_nps_gpm(r), validate_random_run(r)} :
           r \in Run}
----------------------------------------------------------------------------
(* Threads *)

\* A thread that waits for its next lock holds others.
Wants(t, l) == todo[t] # <<>> /\ todo[t][1].take = l
Holds(t, l) == todo[t] # <<>> /\ l \in todo[t][1].holding
Free(t, l) == \A u \in Thread : Holds(u, l) => u = t /\ l \in Reentrant

LocksInit == todo = [t \in Thread |-> <<>>]

Begin(t) ==
    /\ todo[t] = <<>>
    /\ \E code \in (IF t = Worker THEN Jobs ELSE Requests) : todo' = [todo EXCEPT ![t] = code]

\* With the locks a thread goes on to the next access for which it needs no others; it
\* releases those that it does not need.
GoOn(t, locks) ==
    \E k \in 2..(Len(todo[t]) + 1) :
        /\ \A i \in 2..(k - 1) : ~(todo[t][i].holding \subseteq locks)
        /\ k \in DOMAIN todo[t] => todo[t][k].holding \subseteq locks
        /\ todo' = [todo EXCEPT ![t] = SubSeq(@, k, Len(@))]

\* It takes the lock, or leaves out the block that takes it.
Acquire(t) ==
    /\ \E l \in Lock : Wants(t, l) /\ Free(t, l)
    /\ GoOn(t, todo[t][1].holding \cup {todo[t][1].take})
Skip(t) ==
    /\ todo[t] # <<>>
    /\ GoOn(t, todo[t][1].holding)

LocksNext == \E t \in Thread : Begin(t) \/ Acquire(t) \/ Skip(t)

LocksSpec == LocksInit /\ [][LocksNext]_todo
----------------------------------------------------------------------------
(* Properties *)

\* Threads do not wait for each other in a circle, nor one for itself, although an operation
\* holds up to four locks at a time ("Do not use this while holding an active_run_lock!",
\* insert_in_wtt_map; "We give up the lock to avoid deadlock", sync_request_task).
WaitsFor(t, u) == \E l \in Lock : Wants(t, l) /\ Holds(u, l) /\ (u = t => l \notin Reentrant)
NoDeadlock ==
    \A circle \in SUBSET Thread :
        circle # {} => \E t \in circle : \A u \in circle : ~WaitsFor(t, u)
============================================================================
