-------------------------- MODULE WorkerInvariant --------------------------
(***************************************************************************)
(* The inductive invariant behind RightPerturbation of module Worker.      *)
(*                                                                         *)
(* Its parts take the state as parameters (the run r, the number c of      *)
(* crashes, the main loops m, the late requests l), so that a step can be  *)
(* looked at in two parts: what the server makes of a request, and how the *)
(* worker goes on.                                                         *)
(***************************************************************************)
EXTENDS Worker

\* A main loop that has a task, which it may have lost at the server.
Busy(m, w) == m[w].at \in {"ready", "asking", "playing", "reporting"}
\* The requests for parameters and the reports that may still reach the server.
Asks(m, l) ==
    {q \in l : q.op = "spsa"} \cup
    {Request(w, "spsa", m[w]) : w \in {v \in Worker : m[v].at \in {"ready", "asking"}}}
Reports(m, l) ==
    {q \in l : q.op = "update"} \cup
    {Request(w, "update", m[w]) :
        w \in {v \in Worker : m[v].at \in {"playing", "reporting"}}}

\* validate_request, on the run r.
Knows(r, w, t) == t \in DOMAIN r.tasks /\ r.tasks[t].owner = w

\* A report is about a batch of its task.  If that was generated after the last crash, the
\* server still knows the task and what it generated the batch from.
ReportKept(q, r, c) ==
    /\ q.batch.task = q.task /\ q.batch.epoch <= c
    /\ q.batch.epoch = c =>
        /\ Knows(r, q.worker, q.task)
        /\ q.batch.number <= r.tasks[q.task].played
        /\ q.batch.iter <= r.iter
ReportsKept(r, c, m, l) == \A q \in Reports(m, l) : ReportKept(q, r, c)

\* Reports of one batch say the same; those of the batch that the server generated last
\* for a task come from the worker's present work on this task.
SameCount(m, l) ==
    \A q, p \in Reports(m, l) : q.batch = p.batch => q.played = p.played
PresentCount(r, c, m, l) ==
    \A w \in Worker, q \in Reports(m, l) :
        (/\ Busy(m, w) /\ q.worker = w /\ q.task = m[w].task
         /\ q.batch.epoch = c /\ q.batch.number = r.tasks[q.task].played)
        => q.played = m[w].played + 1

\* A batch that a step of the run s has counted is not counted again.
CountedOnce(s, r, c, m, l) ==
    \A i \in DOMAIN s.theta :
        LET batch == s.theta[i].batch IN
        /\ batch.epoch <= c
        /\ batch.epoch = c => batch.iter < r.iter
        /\ \A q \in Reports(m, l) : q.batch = batch =>
            q.task \in DOMAIN s.tasks /\ q.played <= s.tasks[q.task].played

\* Before the first crash a worker has its task from the server, and no request for
\* parameters of it is late; ...
OwnTask(r, m, l) ==
    \A w \in Worker : Busy(m, w) =>
        /\ Knows(r, w, m[w].task)
        /\ \A q \in Reports(m, l) :
            (q.worker = w /\ q.task = m[w].task) => q.played <= m[w].played + 1
        /\ \A q \in l : q.op = "spsa" => ~(q.worker = w /\ q.task = m[w].task)
\* ... who asks for parameters has no report on the way that would be counted; ...
AsksSettled(r, m, l) ==
    \A a \in Asks(m, l) :
        /\ Knows(r, a.worker, a.task)
        /\ \A q \in Reports(m, l) :
            (q.worker = a.worker /\ q.task = a.task) => q.played <= r.tasks[q.task].played
\* ... and so the parameters that are stored are those of the report that is counted.
ParamsKept(r, m, l) ==
    \A q \in Reports(m, l) :
        LET task == r.tasks[q.task] IN
        (q.played > task.played /\ task.params # None) => task.params.iter = q.batch.iter
NoCrash(r, c, m, l) ==
    c = 0 => OwnTask(r, m, l) /\ AsksSettled(r, m, l) /\ ParamsKept(r, m, l)

\* What a server with the run r and the saved run s, and the workers, keep.
Kept(r, s, c, m, l) ==
    /\ ReportsKept(r, c, m, l)
    /\ SameCount(m, l) /\ PresentCount(r, c, m, l)
    /\ CountedOnce(r, r, c, m, l) /\ CountedOnce(s, r, c, m, l)
    /\ NoCrash(r, c, m, l)
    /\ StepsSound(r) /\ StepsSound(s)

\* iter counts the steps of the parameters, a stored perturbation was generated for an
\* earlier number of them or the present one, and a tune that is over has no active task.
InOrder(r) ==
    /\ r.iter = Len(r.theta)
    /\ \A t \in DOMAIN r.tasks : r.tasks[t].params # None => r.tasks[t].params.iter <= r.iter
    /\ r.finished => \A t \in DOMAIN r.tasks : ~r.tasks[t].active

\* The inductive invariant.
Inductive == TypeOK /\ Kept(run, saved, crashes, main, late)
=============================================================================
