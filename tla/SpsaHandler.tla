---------------------------- MODULE SpsaHandler ----------------------------
(***************************************************************************)
(* The server's side of an SPSA tune (spsa_handler.py, and what rundb.py   *)
(* and api.py do with such a run): it deals tasks, generates a             *)
(* perturbation of the parameters for each batch of games that a worker    *)
(* asks for, and moves the parameters by the results that come back.  It   *)
(* may crash, and then goes on with the run as it was saved last.          *)
(*                                                                         *)
(* The unit of games is a batch, what a worker plays with one              *)
(* perturbation.  Whether the gain and the step size of an update are      *)
(* right is whether its "iter" is: both are functions of it.               *)
(***************************************************************************)
EXTENDS Integers, Sequences, Totals

CONSTANTS
    Worker,      \* workers, by unique_key
    Flips,       \* perturbations; their CRC tells them apart
    TaskSize,    \* batches in a task
    NumBatches,  \* length of the tune
    MaxTasks,    \* bound on the number of tasks
    MaxCrashes,  \* bound on the number of crashes
    None         \* no value

ASSUME SizesAssumption ==
    {TaskSize, NumBatches, MaxTasks} \subseteq Nat \ {0} /\ MaxCrashes \in Nat

VARIABLES
    run,      \* the run in memory
    saved,    \* the run in the database
    crashes   \* history: how often the server crashed

server == <<run, saved, crashes>>

\* A batch, by when its perturbation was generated (after which crash, for which task and
\* after how many batches of it), for which "iter", and with which flips.
Batch == [epoch : Nat, task : Nat, number : Nat, iter : Nat, flips : Flips]
\* task["spsa_params"].
Params == [iter : Nat, flips : Flips]
Task == [owner : Worker, active : BOOLEAN, played : Nat, params : Params \cup {None}]
\* A step of the parameters: the batch that it counts (which the server does not know),
\* and the iter and flips that it was computed with, and when.
Step == [batch : Batch, epoch : Nat, iter : Nat, flips : Flips]
Run == [tasks : Seq(Task), iter : Nat, theta : Seq(Step), finished : BOOLEAN]

InitServer ==
    /\ run = [tasks |-> <<>>, iter |-> 0, theta |-> <<>>, finished |-> FALSE]
    /\ saved = run
    /\ crashes = 0
-----------------------------------------------------------------------------
\* set_inactive_task.
Inactive(task) == [task EXCEPT !.active = FALSE, !.params = None]
WithTask(r, t, task) == [r EXCEPT !.tasks[t] = task]
\* set_inactive_run: no task stays active.
\* Mutant: the tasks are left to end by themselves.
MutStopped(r) == [r EXCEPT !.finished = TRUE]
Stopped(r) ==
    [r EXCEPT !.finished = TRUE,
              !.tasks = [t \in DOMAIN @ |->
                            IF @[t].active THEN Inactive(@[t]) ELSE @[t]]]

\* validate_request: the task exists and is the worker's.
Valid(w, t) == t \in DOMAIN run.tasks /\ run.tasks[t].owner = w
Alive(t) == run.tasks[t].active

\* What a worker is told.
Told(what) == [is |-> what, task |-> None, batch |-> None]
Outcome(newRun, reply) == [run |-> newRun, reply |-> reply]

\* api_request_task: a new task, while the worker's old one ends (insert_in_wtt_map).
\* RunDb tells when a run gets one.
NeedsWorkers ==
    /\ ~run.finished
    /\ Len(run.tasks) < MaxTasks
OnTask(w) ==
    IF ~NeedsWorkers THEN {Outcome(run, Told("waiting"))}
    ELSE LET others == [t \in DOMAIN run.tasks |->
                    IF run.tasks[t].owner = w /\ Alive(t)
                    THEN Inactive(run.tasks[t]) ELSE run.tasks[t]]
             new == [owner |-> w, active |-> TRUE, played |-> 0, params |-> None]
         IN  {Outcome([run EXCEPT !.tasks = Append(others, new)],
                      [Told("task") EXCEPT !.task = Len(run.tasks) + 1])}

\* api_request_spsa: new flips for the current iter.
OnSpsa(t) ==
    IF ~Alive(t) THEN {Outcome(run, Told("dead"))}
    ELSE {Outcome(WithTask(run, t, [run.tasks[t] EXCEPT
                            !.params = [iter |-> run.iter, flips |-> f]]),
                  [Told("params") EXCEPT !.batch =
                        [epoch |-> crashes, task |-> t, number |-> run.tasks[t].played,
                         iter |-> run.iter, flips |-> f]]) : f \in Flips}

\* update_spsa_data: the stored perturbation is used once, and only if the signature
\* of the results is that of its flips.
\* Mutant: without a look at the signature.
MutSignatureFits(params, batch) == TRUE
SignatureFits(params, batch) == params.flips = batch.flips
SpsaUpdated(r, t, batch) ==
    LET params == r.tasks[t].params
        used == WithTask(r, t, [r.tasks[t] EXCEPT !.params = None])
    IN  IF params = None THEN r
        ELSE IF ~SignatureFits(params, batch) THEN used
        ELSE [used EXCEPT
                !.iter = @ + 1,
                !.theta = Append(@, [batch |-> batch, epoch |-> crashes,
                                     iter |-> params.iter, flips |-> params.flips])]

Played(r) == SumOver([t \in DOMAIN r.tasks |-> r.tasks[t].played], DOMAIN r.tasks)

\* api_update_task: no fewer games than before, and more if there are SPSA results.
\* Mutant: a report may be counted again.
MutCompatible(t, played) == played >= run.tasks[t].played
Compatible(t, played) == played > run.tasks[t].played
OnUpdate(t, played, batch) ==
    IF ~Alive(t) THEN {Outcome(run, Told("dead"))}
    ELSE IF ~Compatible(t, played)
    THEN {Outcome(WithTask(run, t, Inactive(run.tasks[t])), Told("error"))}
    ELSE LET counted == WithTask(run, t, [run.tasks[t] EXCEPT !.played = played])
             updated == SpsaUpdated(counted, t, batch)
             ended == IF played < TaskSize THEN updated
                      ELSE WithTask(updated, t, Inactive(updated.tasks[t]))
             final == IF Played(ended) < NumBatches THEN ended ELSE Stopped(ended)
         IN  {Outcome(final,
                      Told(IF final.tasks[t].active THEN "alive" ELSE "dead"))}

\* api_failed_task; api_stop_run, if it was the engines that failed: it ends the run, or
\* only the task of a worker that may not do that.
OnFailed(t) ==
    {Outcome(r, Told("alive")) :
        r \in {IF Alive(t) THEN WithTask(run, t, Inactive(run.tasks[t])) ELSE run,
               Stopped(run)}}

\* api_beat.
OnBeat(t) == {Outcome(run, Told(IF Alive(t) THEN "alive" ELSE "dead"))}

\* A request of a worker: what the server makes of the run, and what it answers.
Outcomes(q) ==
    IF q.op # "task" /\ ~Valid(q.worker, q.task) THEN {Outcome(run, Told("error"))}
    ELSE CASE q.op = "task"   -> OnTask(q.worker)
           [] q.op = "spsa"   -> OnSpsa(q.task)
           [] q.op = "update" -> OnUpdate(q.task, q.played, q.batch)
           [] q.op = "failed" -> OnFailed(q.task)
           [] q.op = "beat"   -> OnBeat(q.task)
-----------------------------------------------------------------------------
(* What the server does by itself; "others" is what this leaves alone *)

\* A silent worker loses its task (scavenge_dead_tasks).
Scavenge ==
    /\ \E t \in DOMAIN run.tasks :
        /\ Alive(t)
        /\ run' = WithTask(run, t, Inactive(run.tasks[t]))
    /\ UNCHANGED <<saved, crashes>>

\* The user stops the run.
Stop ==
    /\ ~run.finished
    /\ run' = Stopped(run)
    /\ UNCHANGED <<saved, crashes>>

\* The run is written to the database (flush_buffers), as a whole; after the last crash
\* this makes no difference.
Save ==
    /\ saved # run /\ crashes < MaxCrashes
    /\ saved' = run
    /\ UNCHANGED <<run, crashes>>

\* The server starts again with the saved run; update_aggregated_data finds nothing
\* in it to correct.
Crash ==
    /\ crashes < MaxCrashes
    /\ crashes' = crashes + 1
    /\ run' = saved
    /\ UNCHANGED saved
=============================================================================
