----------------------------- MODULE Scheduler -----------------------------
(***************************************************************************)
(* The scheduler of periodic jobs (scheduler.py): a thread that executes   *)
(* tasks when they are due, and other threads that create, hasten and stop *)
(* tasks or stop the scheduler.  They share a list of tasks and an event   *)
(* that is set after every change to what the thread's choice depends on.  *)
(*                                                                         *)
(* Abstractions.  Times are relative to now, in ticks.  The list is a set: *)
(* the order in which the thread visits it, which only breaks ties, is     *)
(* arbitrary.  A call and the event it sets are separate steps; each field *)
(* is read and written in one.  The execution of a task takes any time; an *)
(* exception ends it as well, and one in the background ends at once for   *)
(* the thread.                                                             *)
(***************************************************************************)
EXTENDS Integers

CONSTANTS
    Task, NoTask,
    Caller,         \* threads other than the scheduler's
    OneShot,        \* tasks that are executed once
    Period,         \* [Task -> Nat \ {0}]
    InitialDelay,   \* [Task -> Nat]
    MinDelay,       \* [Task -> Nat]
    Jitter,         \* [Task -> Nat]: the largest change of a delay
    MaxLate,        \* bound of the model: the thread is never later than this
    MaxCalls        \* bound of the model: calls of one caller

ASSUME TaskAssumption == NoTask \notin Task /\ OneShot \subseteq Task
ASSUME TimeAssumption == /\ Period \in [Task -> Nat \ {0}]
                         /\ InitialDelay \in [Task -> Nat]
                         /\ MinDelay \in [Task -> Nat] /\ Jitter \in [Task -> Nat]
ASSUME BoundAssumption == MaxLate \in Nat /\ MaxCalls \in Nat

VARIABLES
    tasks,      \* __tasks
    created,    \* the tasks that exist (some may no longer be in the list)
    left,       \* [Task -> Int]: the time until next_schedule of the task
    expired,    \* [Task -> BOOLEAN]
    event,      \* the flag of __event
    stopped,    \* __thread_stopped
    at,         \* the scheduler thread: "plan", "visit", "woken", "work", "clear", "done"
    rest,       \* ... the tasks of its copy of the list that it has yet to visit
    next, due,  \* ... next_task, and the time until its next_schedule as it was read
    pc,         \* [Caller -> "idle", "signal", "stop" or "join"]
    calls       \* [Caller -> Nat]: calls made (bounded)

vars == <<tasks, created, left, expired, event, stopped, at, rest, next, due, pc, calls>>

Live(t) == t \in tasks /\ ~expired[t]

\* A delay, jittered.
Jittered(t, delay) == {delay + j : j \in -Jitter[t] .. Jitter[t]}

Later(x, y) == IF x < y THEN y ELSE x

----------------------------------------------------------------------------
\* Calls: the change, then the event.

Call(c, then) ==
    /\ pc[c] = "idle" /\ calls[c] < MaxCalls
    /\ pc' = [pc EXCEPT ![c] = then]
    /\ calls' = [calls EXCEPT ![c] = @ + 1]
    /\ UNCHANGED <<event, at, rest, next, due>>

create_task(c, t) ==
    /\ Call(c, "signal")
    /\ t \notin created
    /\ created' = created \cup {t}
    /\ \E delay \in Jittered(t, InitialDelay[t]) : left' = [left EXCEPT ![t] = delay]
    /\ tasks' = tasks \cup {t}
    /\ UNCHANGED <<expired, stopped>>

schedule_now(c, t) ==
    /\ Call(c, "signal")
    /\ t \in created /\ ~expired[t]
    /\ left' = [left EXCEPT ![t] = 0]
    /\ UNCHANGED <<tasks, created, expired, stopped>>

stop_task(c, t) ==
    /\ Call(c, "signal")
    /\ t \in created /\ ~expired[t]
    /\ expired' = [expired EXCEPT ![t] = TRUE]
    /\ UNCHANGED <<tasks, created, left, stopped>>

stop(c) ==
    /\ Call(c, "stop")
    /\ stopped' = TRUE
    /\ UNCHANGED <<tasks, created, left, expired>>

refresh(c) ==
    /\ pc[c] \in {"signal", "stop"}
    /\ event' = TRUE
    /\ pc' = [pc EXCEPT ![c] = IF @ = "stop" THEN "join" ELSE "idle"]
    /\ UNCHANGED <<tasks, created, left, expired, stopped, at, rest, next, due, calls>>

join(c) ==
    /\ pc[c] = "join" /\ at = "done"
    /\ pc' = [pc EXCEPT ![c] = "idle"]
    /\ UNCHANGED <<tasks, created, left, expired, event, stopped, at, rest, next, due, calls>>

----------------------------------------------------------------------------
\* The scheduler thread.

\* Mutant: a stopped thread makes another plan.
MutPlan ==
    /\ at = "plan"
    /\ at' = "visit" /\ rest' = tasks
    /\ UNCHANGED <<tasks, created, left, expired, event, stopped, next, due, pc, calls>>

Plan ==
    /\ at = "plan"
    /\ IF stopped THEN at' = "done" /\ UNCHANGED rest
                  ELSE at' = "visit" /\ rest' = tasks
    /\ UNCHANGED <<tasks, created, left, expired, event, stopped, next, due, pc, calls>>

\* Mutants: the event is cleared before the wait; the first live task is taken.
MutVisit(t) ==
    /\ at = "visit" /\ t \in rest
    /\ rest' = rest \ {t}
    /\ tasks' = IF expired[t] THEN tasks \ {t} ELSE tasks
    /\ IF ~expired[t] /\ (next = NoTask \/ left[t] < due)
       THEN next' = t /\ due' = left[t]
       ELSE UNCHANGED <<next, due>>
    /\ event' = (event /\ rest # {t})
    /\ UNCHANGED <<created, left, expired, stopped, at, pc, calls>>
MutEarlier(t) == next = NoTask

Earlier(t) == next = NoTask \/ left[t] < due

\* One iteration of the loop over the copy of the list.
Visit(t) ==
    /\ at = "visit" /\ t \in rest
    /\ rest' = rest \ {t}
    /\ tasks' = IF expired[t] THEN tasks \ {t} ELSE tasks
    /\ IF ~expired[t] /\ Earlier(t)
       THEN next' = t /\ due' = left[t]
       ELSE UNCHANGED <<next, due>>
    /\ UNCHANGED <<created, left, expired, event, stopped, at, pc, calls>>

Waiting == at = "visit" /\ rest = {}

\* The wait ends: the event is set, or the task is due.
Wake ==
    /\ Waiting
    /\ event \/ (next # NoTask /\ due <= 0)
    /\ at' = "woken"
    /\ UNCHANGED <<tasks, created, left, expired, event, stopped, rest, next, due, pc, calls>>

\* Mutant: the event is not looked at again.
MutMayWork == next # NoTask /\ ~expired[next]

MayWork == ~event /\ next # NoTask /\ ~expired[next]

Decide ==
    /\ at = "woken"
    /\ at' = IF MayWork THEN "work" ELSE "clear"
    /\ UNCHANGED <<tasks, created, left, expired, event, stopped, rest, next, due, pc, calls>>

\* The task has been executed.
FinishWork ==
    /\ at = "work"
    /\ at' = "clear"
    /\ IF next \in OneShot
       THEN expired' = [expired EXCEPT ![next] = TRUE] /\ UNCHANGED left
       ELSE /\ \E delay \in Jittered(next, Later(left[next] + Period[next], MinDelay[next])) :
                 left' = [left EXCEPT ![next] = delay]
            /\ UNCHANGED expired
    /\ UNCHANGED <<tasks, created, event, stopped, rest, next, due, pc, calls>>

\* The choice is forgotten with the event.
Clear ==
    /\ at = "clear"
    /\ event' = FALSE
    /\ at' = "plan"
    /\ next' = NoTask /\ due' = 0
    /\ UNCHANGED <<tasks, created, left, expired, stopped, rest, pc, calls>>

----------------------------------------------------------------------------
\* Time passes, but not when a task is as late as the model distinguishes.
Tick ==
    /\ at # "done"
    /\ \A t \in tasks : Live(t) => left[t] > -MaxLate
    /\ next # NoTask => due > -MaxLate
    /\ left' = [t \in Task |-> IF Live(t) THEN left[t] - 1 ELSE left[t]]
    /\ due' = IF next # NoTask THEN due - 1 ELSE due
    /\ UNCHANGED <<tasks, created, expired, event, stopped, at, rest, next, pc, calls>>

Init ==
    /\ tasks = {} /\ created = {}
    /\ left = [t \in Task |-> 0]
    /\ expired = [t \in Task |-> FALSE]
    /\ event = FALSE /\ stopped = FALSE
    /\ at = "plan" /\ rest = {} /\ next = NoTask /\ due = 0
    /\ pc = [c \in Caller |-> "idle"]
    /\ calls = [c \in Caller |-> 0]

CallerStep(c) == \/ \E t \in Task : create_task(c, t) \/ schedule_now(c, t) \/ stop_task(c, t)
                 \/ stop(c)

SchedulerStep == \/ Plan \/ Wake \/ Decide \/ FinishWork \/ Clear
                 \/ \E t \in Task : Visit(t)

Next == \/ \E c \in Caller : CallerStep(c) \/ refresh(c) \/ join(c)
        \/ SchedulerStep
        \/ Tick

Spec == Init /\ [][Next]_vars

\* Threads go on, executions of tasks end, and time passes.  Nobody needs to call.
Fairness == /\ \A c \in Caller : WF_vars(refresh(c)) /\ WF_vars(join(c))
            /\ WF_vars(SchedulerStep)
            /\ WF_vars(Tick)

FairSpec == Spec /\ Fairness

----------------------------------------------------------------------------
\* Properties

TypeOK ==
    /\ tasks \subseteq created /\ created \subseteq Task /\ rest \subseteq created
    /\ left \in [Task -> Int] /\ expired \in [Task -> BOOLEAN]
    /\ event \in BOOLEAN /\ stopped \in BOOLEAN
    /\ at \in {"plan", "visit", "woken", "work", "clear", "done"}
    /\ next \in created \cup {NoTask} /\ due \in Int
    /\ at = "work" => next # NoTask
    /\ pc \in [Caller -> {"idle", "signal", "stop", "join"}]
    /\ calls \in [Caller -> 0 .. MaxCalls]

Signalling == \E c \in Caller : pc[c] \in {"signal", "stop"}

\* No signal is lost, although the event is cleared after the wait and the work:
\* a thread that waits, and that nobody is about to wake, will wake in time for
\* every task, and was not asked to stop ("acted upon as soon as possible as it
\* might affect the next task to be executed").
NoLostSignal ==
    Waiting /\ ~event /\ ~Signalling =>
        /\ ~stopped
        /\ \A t \in tasks : ~expired[t] => next # NoTask /\ due <= left[t]

\* A task is executed at a scheduling point of its own, never before it and never
\* after it was stopped, whatever was created, hastened or stopped during the wait
\* (__next_schedule, _do_work).
OnlyDue == [][at # "work" /\ at' = "work" =>
                 next \in tasks /\ ~expired[next] /\ left[next] <= 0]_vars

\* Every task that is due is executed, unless it or the scheduler is stopped.
DueRuns ==
    \A t \in Task :
        (Live(t) /\ left[t] <= 0) ~> ((at = "work" /\ next = t) \/ expired[t] \/ stopped)

\* Scheduler.stop() returns: the thread ends even if there is no task to wake it.
StopReturns == \A c \in Caller : (pc[c] = "join") ~> (pc[c] = "idle")

----------------------------------------------------------------------------
\* What the safety properties rest on: the inductive invariant.

\* From the copy of the list to the decision, every change that the choice does not
\* take into account is signalled, or will be.
ChoiceOk ==
    at \in {"visit", "woken"} /\ ~event /\ ~Signalling =>
        /\ ~stopped
        /\ \A t \in tasks \ rest : ~expired[t] => next # NoTask /\ due <= left[t]

\* The chosen task was not put off, and its time has come when the wait ends unsignalled.
NextOk ==
    /\ at = "plan" => next = NoTask
    /\ at = "visit" => rest \subseteq tasks
    /\ at \in {"visit", "woken"} /\ next # NoTask =>
           /\ next \in tasks \ rest
           /\ ~expired[next] => left[next] <= due \/ left[next] <= 0

WokenOk == at = "woken" => event \/ (next # NoTask /\ due <= 0)

Inductive == TypeOK /\ ChoiceOk /\ NextOk /\ WokenOk
=============================================================================
