-------------------------------- MODULE RunDb --------------------------------
(***************************************************************************)
(* The life of the runs (tests) and tasks of the Fishtest server.          *)
(*                                                                         *)
(* A run is a test of a patch: a number of games to be played.  Workers    *)
(* request tasks (batches of games of a run), report cumulative statistics *)
(* for them, send heartbeats, and disappear.  Users submit, approve,       *)
(* modify, stop, purge and delete runs.  A scheduler thread scavenges the  *)
(* tasks of silent workers.  All of them are threads of one process that   *)
(* share the run objects of the run cache (rundb.py, api.py, views.py).    *)
(*                                                                         *)
(* One action is one critical section: what a handler does under the lock  *)
(* of a run (active_run_lock), or one unlocked access to shared state.     *)
(* Handlers that release the lock in between are several actions.          *)
(*                                                                         *)
(* Abstractions.  A game is a win or a loss (a draw only counts as a game  *)
(* for every decision taken here); the statistical tests on the results    *)
(* are the operators Accepts and Rejects; the choice among the suitable    *)
(* runs by priority, and the refusals that leave the state alone (blocked  *)
(* worker, memory, compiler, ...), are nondeterminism.  Wall-clock ages of *)
(* tasks are three classes: see Ages.                                      *)
(***************************************************************************)
EXTENDS Integers, Sequences, FiniteSets, Totals

CONSTANTS
    Run,          \* ids that submitted runs may get
    Client,       \* worker processes (one unique_key each)
    Name,         \* short worker names: two clients may have the same
    Addr,         \* remote addresses of clients, which may change
    User,         \* server threads that serve requests of users
    NameOf,       \* [Client -> Name]
    CoresOf,      \* [Client -> Nat], worker_info["concurrency"]
    WorkerCap,    \* [Client -> Nat], worker_cap(): games per task
    Kinds,        \* kinds of runs that are submitted
    NumGames,     \* numbers of games a user may ask for
    AutoPurge,    \* values of the auto_purge flag that users submit
    Reports,      \* statistics that a worker may send
    CrashLimit,   \* a task with more crashes is bad (crash_or_time)
    BatchGames,   \* games in an SPRT batch (2 * batch_size)
    ConnLimit,    \* machine limit of a user
    MaxTasks,     \* bound of the model: tasks per run
    Accepts(_),   \* the statistical test on the results accepts the patch
    Rejects(_)    \* ... rejects it

ASSUME RunAssumption == IsFiniteSet(Run)
ASSUME ClientAssumption == /\ NameOf \in [Client -> Name]
                           /\ CoresOf \in [Client -> Nat]
                           /\ WorkerCap \in [Client -> Nat]
ASSUME UserInputAssumption == /\ Kinds \subseteq {"sprt", "games", "spsa"}
                              /\ NumGames \subseteq Int
                              /\ AutoPurge \subseteq BOOLEAN
ASSUME ReportAssumption == Reports \subseteq [wins : Nat, losses : Nat, crashes : Nat]
ASSUME BoundAssumption == BatchGames \in Nat \ {0} /\ ConnLimit \in Nat /\ MaxTasks \in Nat

VARIABLES
    runs,         \* [Run -> run object]
    submitted,    \* the runs that exist
    unfinished,   \* self.unfinished_runs
    wtt,          \* self.wtt_map: name -> the last task given to it
    conns,        \* self.connections_counter
    req,          \* per client: the thread in sync_request_task
    user,         \* per user thread: where it is in its handler
    dead          \* the scavenger's list dead_tasks

vars == <<runs, submitted, unfinished, wtt, conns, req, user, dead>>

----------------------------------------------------------------------------
\* Data

Stat == [wins : Int, losses : Int, crashes : Int]
Zero == [wins |-> 0, losses |-> 0, crashes |-> 0]
Games(stats) == stats.wins + stats.losses
Plus(x, y) == [wins    |-> x.wins + y.wins,
               losses  |-> x.losses + y.losses,
               crashes |-> x.crashes + y.crashes]
\* Mutant: the cumulative report is added as it is.
MutMinus(x, y) == x

Minus(x, y) == [wins    |-> x.wins - y.wins,
                losses  |-> x.losses - y.losses,
                crashes |-> x.crashes - y.crashes]

\* Time since task["last_updated"]: at most 120 s (the worker is considered
\* connected), at most 360 s, more (the task is dead).
Ages == {"fresh", "quiet", "silent"}

Flags == {"none", "green", "yellow"}
Verdicts == {"", "accepted", "rejected"}

Report == [wins : Nat, losses : Nat, crashes : Nat]

Task == [client : Client, addr : Addr, num_games : Nat, start : Nat, active : BOOLEAN,
         stats : Report, age : Ages, bad : BOOLEAN]

RunObject == [kind : {"sprt", "games", "spsa"}, num_games : Int,
              auto_purge : BOOLEAN, approved : BOOLEAN, finished : BOOLEAN,
              deleted : BOOLEAN, failed : BOOLEAN, flag : Flags,
              state : Verdicts, workers : Int, cores : Int, committed : Int,
              total : Nat, results : Stat, tasks : Seq(Task),
              bad_tasks : SUBSET [task_id : Nat, stats : Report]]

Slot == Run \X Nat      \* <<run_id, task_id>>
NoSlot == <<>>

Idle == [pc |-> "idle"]

\* The object that new_run() builds.
NewRunObject(kind, n, auto) ==
    [kind |-> kind, num_games |-> n, auto_purge |-> auto, approved |-> FALSE,
     finished |-> FALSE, deleted |-> FALSE, failed |-> FALSE, flag |-> "none",
     state |-> "", workers |-> 0, cores |-> 0, committed |-> 0, total |-> 0,
     results |-> Zero, tasks |-> <<>>, bad_tasks |-> {}]

----------------------------------------------------------------------------
\* What a run's tasks say of its aggregates (schemas.py)

Ids(run) == DOMAIN run.tasks
Active(run) == {t \in Ids(run) : run.tasks[t].active}
Cores(run) == [t \in Ids(run) |-> CoresOf[run.tasks[t].client]]
Sizes(run) == [t \in Ids(run) |-> run.tasks[t].num_games]
Played(run) == [t \in Ids(run) |-> Games(run.tasks[t].stats)]
Wins(run) == [t \in Ids(run) |-> run.tasks[t].stats.wins]
Losses(run) == [t \in Ids(run) |-> run.tasks[t].stats.losses]
Crashes(run) == [t \in Ids(run) |-> run.tasks[t].stats.crashes]

compute_results(run) == [wins    |-> SumOver(Wins(run), Ids(run)),
                         losses  |-> SumOver(Losses(run), Ids(run)),
                         crashes |-> SumOver(Crashes(run), Ids(run))]
compute_workers(run) == Cardinality(Active(run))
compute_cores(run) == SumOver(Cores(run), Active(run))
compute_committed_games(run) ==
    SumOver(Sizes(run), Active(run)) + SumOver(Played(run), Ids(run) \ Active(run))
compute_total_games(run) == SumOver(Sizes(run), Ids(run))

Verdict(results) == IF Accepts(results) THEN "accepted"
                    ELSE IF Rejects(results) THEN "rejected" ELSE ""

compute_flags(run) ==
    LET state == IF run.kind = "sprt" THEN run.state ELSE Verdict(run.results)
    IN  IF ~run.finished \/ run.kind = "spsa" THEN "none"
        ELSE IF state = "accepted" THEN "green"
        ELSE IF state = "rejected" /\ run.results.wins > run.results.losses
             THEN "yellow" ELSE "none"

is_undecided(run) == /\ Games(run.results) < run.num_games
                     /\ ~ (run.kind = "sprt" /\ run.state # "")

\* update_SPRT: only SPRT runs have a state.
WithVerdict(run) ==
    [run EXCEPT !.state = IF run.kind = "sprt" THEN Verdict(run.results) ELSE @]

crash_or_time(task) == task.stats.crashes > CrashLimit

----------------------------------------------------------------------------
(***************************************************************************)
(* The operations that handlers are built from.  They act on what is known *)
(* of one run: its object, the connection counters, and whether it is in   *)
(* the set of unfinished runs.                                             *)
(***************************************************************************)
View(r) == [run |-> runs[r], conns |-> conns, listed |-> r \in unfinished]

Store(r, v) ==
    /\ runs' = [runs EXCEPT ![r] = v.run]
    /\ conns' = v.conns
    /\ unfinished' = IF v.listed THEN unfinished \cup {r} ELSE unfinished \ {r}

\* set_inactive_task() for each task of T.
set_inactive_tasks(T, v) ==
    LET run == v.run
        out == T \cap Active(run)
    IN  [v EXCEPT
          !.run = [run EXCEPT
             !.workers = @ - Cardinality(out),
             !.cores = @ - SumOver(Cores(run), out),
             !.committed = @ - SumOver(Sizes(run), out) + SumOver(Played(run), out),
             !.tasks = [t \in Ids(run) |->
                IF t \in out
                THEN [run.tasks[t] EXCEPT !.active = FALSE, !.age = "fresh"]
                ELSE run.tasks[t]]],
          !.conns = [a \in Addr |-> v.conns[a]
                - Cardinality({t \in out : run.tasks[t].addr = a})]]

\* compute_flags() and run.update(flags) by a thread that has the lock of the run
\* from the one to the other.
LockedFlag(run) == [run EXCEPT !.flag = compute_flags(run)]

set_inactive_run(v) ==
    LET quiet == set_inactive_tasks(Ids(v.run), v)
    IN  [quiet EXCEPT !.run = LockedFlag([quiet.run EXCEPT !.finished = TRUE]),
                      !.listed = FALSE]

\* Mutant: the run is not listed.
MutUnlisted(v) ==
    [v EXCEPT !.run = [v.run EXCEPT !.deleted = FALSE, !.failed = FALSE,
                                    !.flag = "none", !.finished = FALSE]]
set_active_run(v) ==
    [v EXCEPT !.run = [v.run EXCEPT !.deleted = FALSE, !.failed = FALSE,
                                    !.flag = "none", !.finished = FALSE],
              !.listed = TRUE]

\* set_bad_task() does nothing for a task that is bad already.
\* Mutant: it starts again.
MutNotBad(T, run) == T

NotBad(T, run) == {t \in T : ~run.tasks[t].bad}

\* set_bad_task() for each task of T: a task that is not bad yet is deactivated,
\* a copy of it goes to bad_tasks, and its games no longer count.
set_bad_tasks(T, v) ==
    LET new == NotBad(T, v.run)
        quiet == set_inactive_tasks(new, v)
        run == quiet.run
    IN  [quiet EXCEPT !.run = [run EXCEPT
          !.bad_tasks = @ \cup {[task_id |-> t, stats |-> run.tasks[t].stats] : t \in new},
          !.committed = @ - SumOver(Played(run), new),
          !.tasks = [t \in Ids(run) |->
              IF t \in new THEN [run.tasks[t] EXCEPT !.bad = TRUE, !.stats = Zero]
              ELSE run.tasks[t]]]]

----------------------------------------------------------------------------
(***************************************************************************)
(* purge_run().  The tasks with crashes or time losses are bad; if there   *)
(* are none, the tasks of the one worker with the worst residual, if the   *)
(* chi-squared test finds one (nondeterminism here).  If a task was bad    *)
(* the results are computed afresh and the run may come to life again.     *)
(***************************************************************************)
Purgeable(run) == run.finished /\ ~run.failed

CrashTasks(run) == {t \in NotBad(Ids(run), run) : crash_or_time(run.tasks[t])}
TasksOf(c, run) == {t \in NotBad(Ids(run), run) : run.tasks[t].client = c}

WithResults(run, results) == WithVerdict([run EXCEPT !.results = results])

\* The tasks that a purge may find to be bad.
BadSets(run) == IF CrashTasks(run) # {} THEN {CrashTasks(run)}
                ELSE {TasksOf(c, run) : c \in Client} \cup {{}}

\* purge_run() by a thread that holds the lock of the run, as in update_task().
Purged(B, v) ==
    LET marked == set_bad_tasks(B, v)
        run == WithResults(marked.run, compute_results(marked.run))
    IN  IF B = {} THEN v
        ELSE IF is_undecided(run) THEN set_active_run([marked EXCEPT !.run = run])
        ELSE [marked EXCEPT !.run = LockedFlag(run)]

\* stop_run(): all outcomes, by what the auto-purge finds.
Stopped(v) ==
    LET still == set_inactive_run(v)
    IN  IF still.run.auto_purge /\ still.run.kind # "spsa" /\ Purgeable(still.run)
        THEN {Purged(B, still) : B \in BadSets(still.run)}
        ELSE {still}

----------------------------------------------------------------------------
\* Requests of workers (api.py).  validate_request() lets a client act on a
\* task only if the task has its unique_key; requests may be late or repeated.

OwnedBy(c, r, t) == t \in Ids(runs[r]) /\ runs[r].tasks[t].client = c

IsActive(slot) == slot # NoSlot /\ runs[slot[1]].tasks[slot[2]].active

\* request_task_lock: one thread at a time executes sync_request_task().
\* Mutant: no lock.
MutRequestLockFree == TRUE

RequestLockFree == \A c \in Client : req[c] = Idle

\* Another client holds a task under this name and sent an update recently.
NameInUse(c) ==
    LET slot == wtt[NameOf[c]]
    IN  /\ IsActive(slot)
        /\ runs[slot[1]].tasks[slot[2]].client # c
        /\ runs[slot[1]].tasks[slot[2]].age = "fresh"

\* Mutant: a finished run may need games.
MutOnlyRemaining(run) == run.num_games - run.committed > 0

NeedsGames(run) == ~run.finished /\ run.num_games - run.committed > 0

\* The checks of sync_request_task() and the choice of a run.  The address is the
\* one from which this request comes; a task keeps it, wherever the later
\* requests of its worker come from (worker_info() in api.py).
RequestTask(c) ==
    /\ RequestLockFree
    /\ ~NameInUse(c)
    /\ \E r \in unfinished, a \in Addr :
         /\ conns[a] < ConnLimit
         /\ runs[r].approved /\ NeedsGames(runs[r])
         /\ Len(runs[r].tasks) < MaxTasks
         /\ req' = [req EXCEPT ![c] = [pc |-> "append", run |-> r, addr |-> a]]
    /\ UNCHANGED <<runs, submitted, unfinished, wtt, conns, user, dead>>

\* An SPRT task is cut at a multiple of the batch.
TaskSize(c, run) ==
    LET remaining == run.num_games - run.committed
        rounded == IF run.kind # "sprt" THEN remaining
                   ELSE BatchGames * ((remaining + BatchGames - 1) \div BatchGames)
    IN  IF WorkerCap[c] < rounded THEN WorkerCap[c] ELSE rounded

\* Mutant: the openings continue after the games that count, not after those that
\* were given out.
MutNewTask(c, a, run) == [client |-> c, addr |-> a, num_games |-> TaskSize(c, run),
                          start |-> run.committed, active |-> TRUE, stats |-> Zero,
                          age |-> "fresh", bad |-> FALSE]

NewTask(c, a, run) == [client |-> c, addr |-> a, num_games |-> TaskSize(c, run),
                       start |-> run.total, active |-> TRUE, stats |-> Zero,
                       age |-> "fresh", bad |-> FALSE]

\* Mutant: the cores are forgotten.
MutWithTask(run, task) == [run EXCEPT !.tasks = Append(@, task),
                                      !.workers = @ + 1,
                                      !.committed = @ + task.num_games,
                                      !.total = @ + task.num_games]

WithTask(run, task) == [run EXCEPT !.tasks = Append(@, task),
                                   !.workers = @ + 1,
                                   !.cores = @ + CoresOf[task.client],
                                   !.committed = @ + task.num_games,
                                   !.total = @ + task.num_games]

\* Add the task to the run, if the run still needs games.
AppendTask(c) ==
    /\ req[c].pc = "append"
    /\ LET r == req[c].run
       IN  \/ /\ ~NeedsGames(runs[r])
              /\ req' = [req EXCEPT ![c] = Idle]
              /\ UNCHANGED <<runs, conns>>
           \/ /\ NeedsGames(runs[r])
              /\ runs' = [runs EXCEPT ![r] = WithTask(@, NewTask(c, req[c].addr, @))]
              /\ conns' = [conns EXCEPT ![req[c].addr] = @ + 1]
              /\ req' = [req EXCEPT ![c] =
                    [pc |-> "insert", run |-> r, task |-> Len(runs[r].tasks) + 1]]
    /\ UNCHANGED <<submitted, unfinished, wtt, user, dead>>

\* insert_in_wtt_map(): the previous task under this name, if it is still
\* active, is stale and fails.  The new task is looked at before the locks are
\* taken: when it is inserted it may not be active any more.
InsertInWttMap(c) ==
    /\ req[c].pc = "insert"
    /\ req' = [req EXCEPT ![c] = Idle]
    /\ LET slot == <<req[c].run, req[c].task>>
           old == wtt[NameOf[c]]
       IN  \/ /\ ~IsActive(slot)
              /\ UNCHANGED <<runs, unfinished, wtt, conns>>
           \/ /\ wtt' = [wtt EXCEPT ![NameOf[c]] = slot]
              /\ IF IsActive(old)
                 THEN Store(old[1], set_inactive_tasks({old[2]}, View(old[1])))
                 ELSE UNCHANGED <<runs, unfinished, conns>>
    /\ UNCHANGED <<submitted, user, dead>>

\* The sanity checks on the statistics in a report.  A worker of an SPSA run
\* reports SPSA games with every update.
ReportOk(run, task, stats) ==
    /\ Games(stats) >= Games(task.stats)
    /\ run.kind = "spsa" => Games(stats) > Games(task.stats)
    /\ (Games(stats) - Games(task.stats)) % 2 = 0
    /\ run.kind = "sprt" => Games(stats) % BatchGames = 0

\* Mutant: the address from which the report came replaces that of the task.
MutRefreshed(task, stats) ==
    [task EXCEPT !.stats = stats, !.age = "fresh",
                 !.addr = CHOOSE a \in Addr : a # task.addr]

\* The report replaces the statistics of the task.
Refreshed(task, stats) == [task EXCEPT !.stats = stats, !.age = "fresh"]

\* sync_update_task() after the sanity checks: what is new in the report goes to
\* the results of the run.
Updated(t, stats, v) ==
    LET old == v.run.tasks[t]
        run == [v.run EXCEPT !.results = Plus(@, Minus(stats, old.stats)),
                             !.tasks[t] = Refreshed(@, stats)]
        told == [v EXCEPT !.run = run]
        done == IF Games(stats) >= old.num_games THEN set_inactive_tasks({t}, told) ELSE told
    IN  [done EXCEPT !.run = WithVerdict(done.run)]

\* Mutant: reports for tasks that are not active count.
MutUpdateTask(c, r, t, stats) ==
    /\ OwnedBy(c, r, t)
    /\ LET v == View(r)
           new == Updated(t, stats, v)
       IN  IF ~ReportOk(v.run, v.run.tasks[t], stats)
           THEN Store(r, set_inactive_tasks({t}, v))
           ELSE IF is_undecided(new.run) THEN Store(r, new)
           ELSE \E stopped \in Stopped(new) : Store(r, stopped)
    /\ UNCHANGED <<submitted, wtt, req, user, dead>>

UpdateTask(c, r, t, stats) ==
    /\ OwnedBy(c, r, t)
    /\ runs[r].tasks[t].active
    /\ LET v == View(r)
           new == Updated(t, stats, v)
       IN  IF ~ReportOk(v.run, v.run.tasks[t], stats)
           THEN Store(r, set_inactive_tasks({t}, v))
           ELSE IF is_undecided(new.run) THEN Store(r, new)
           ELSE \E stopped \in Stopped(new) : Store(r, stopped)
    /\ UNCHANGED <<submitted, wtt, req, user, dead>>

Beat(c, r, t) ==
    /\ OwnedBy(c, r, t)
    /\ runs[r].tasks[t].active
    /\ runs' = [runs EXCEPT ![r].tasks[t].age = "fresh"]
    /\ UNCHANGED <<submitted, unfinished, wtt, conns, req, user, dead>>

\* /api/failed_task, and /api/stop_run by a user with too few games.
FailTask(c, r, t) ==
    /\ OwnedBy(c, r, t)
    /\ runs[r].tasks[t].active
    /\ Store(r, set_inactive_tasks({t}, View(r)))
    /\ UNCHANGED <<submitted, wtt, req, user, dead>>

\* /api/stop_run: the run is at fault (it does not compile, its bench is wrong).
WorkerStopsRun(c, r, t) ==
    /\ OwnedBy(c, r, t)
    /\ ~runs[r].finished
    /\ LET v == View(r)
       IN  \E stopped \in Stopped([v EXCEPT !.run.failed = TRUE]) : Store(r, stopped)
    /\ UNCHANGED <<submitted, wtt, req, user, dead>>

----------------------------------------------------------------------------
\* Requests of users (views.py).  A thread that does not hold the lock of the
\* run from its first to its last access is several actions.

NewRun(u, r) ==
    /\ user[u] = Idle
    /\ r \notin submitted
    /\ submitted' = submitted \cup {r}
    /\ \E kind \in Kinds, n \in NumGames, auto \in AutoPurge :
         runs' = [runs EXCEPT ![r] = NewRunObject(kind, n, auto)]
    /\ user' = [user EXCEPT ![u] = [pc |-> "register", run |-> r]]
    /\ UNCHANGED <<unfinished, wtt, conns, req, dead>>

\* new_run() adds the run to unfinished_runs after it was saved.
Register(u) ==
    /\ user[u].pc = "register"
    /\ unfinished' = unfinished \cup {user[u].run}
    /\ user' = [user EXCEPT ![u] = Idle]
    /\ UNCHANGED <<runs, submitted, wtt, conns, req, dead>>

ApproveRun(u, r) ==
    /\ user[u] = Idle
    /\ r \in submitted
    /\ ~runs[r].approved
    /\ runs' = [runs EXCEPT ![r].approved = TRUE]
    /\ UNCHANGED <<submitted, unfinished, wtt, conns, req, user, dead>>

\* validate_modify(): more games only for an SPRT test, the same for SPSA.
MayModify(run, n) ==
    /\ n > run.num_games => run.kind = "sprt"
    /\ run.kind = "spsa" => n = run.num_games

\* tests_modify(): the request is validated, and a user who is not an approver
\* may lose the approval; ...
ModifyRun(u, r) ==
    /\ user[u] = Idle
    /\ r \in submitted
    /\ \E n \in NumGames, auto \in AutoPurge, keep \in BOOLEAN :
         /\ MayModify(runs[r], n)
         /\ runs' = [runs EXCEPT ![r].approved = @ /\ keep]
         /\ user' = [user EXCEPT ![u] =
               [pc |-> "modify", run |-> r, num_games |-> n, auto |-> auto]]
    /\ UNCHANGED <<submitted, unfinished, wtt, conns, req, dead>>

\* ... the arguments of the run are assigned in another critical section, ...
ModifyArgs(u) ==
    /\ user[u].pc = "modify"
    /\ runs' = [runs EXCEPT ![user[u].run].num_games = user[u].num_games,
                            ![user[u].run].auto_purge = user[u].auto]
    /\ user' = [user EXCEPT ![u] = [pc |-> "revive", run |-> @.run]]
    /\ UNCHANGED <<submitted, unfinished, wtt, conns, req, dead>>

\* ... and without the lock, whether the run comes to life again is decided.
ModifyRevive(u) ==
    /\ user[u].pc = "revive"
    /\ user' = [user EXCEPT ![u] =
          IF is_undecided(runs[@.run]) THEN [pc |-> "activate", run |-> @.run] ELSE Idle]
    /\ UNCHANGED <<runs, submitted, unfinished, wtt, conns, req, dead>>

\* set_active_run(), called by tests_modify() and by purge_run().
ActivateRun(u) ==
    /\ user[u].pc = "activate"
    /\ Store(user[u].run, set_active_run(View(user[u].run)))
    /\ user' = [user EXCEPT ![u] = Idle]
    /\ UNCHANGED <<submitted, wtt, req, dead>>

\* tests_stop(): set_inactive_run(), then the auto-purge.
StopRun(u, r) ==
    /\ user[u] = Idle
    /\ r \in submitted
    /\ Store(r, set_inactive_run(View(r)))
    /\ user' = [user EXCEPT ![u] =
          IF runs[r].auto_purge /\ runs[r].kind # "spsa"
          THEN [pc |-> "purge", run |-> r] ELSE Idle]
    /\ UNCHANGED <<submitted, wtt, req, dead>>

\* tests_delete(): set_inactive_run(), then the flag, without the lock.
DeleteRun(u, r) ==
    /\ user[u] = Idle
    /\ r \in submitted
    /\ Store(r, set_inactive_run(View(r)))
    /\ user' = [user EXCEPT ![u] = [pc |-> "delete", run |-> r]]
    /\ UNCHANGED <<submitted, wtt, req, dead>>

MarkDeleted(u) ==
    /\ user[u].pc = "delete"
    /\ runs' = [runs EXCEPT ![user[u].run].deleted = TRUE]
    /\ user' = [user EXCEPT ![u] = Idle]
    /\ UNCHANGED <<submitted, unfinished, wtt, conns, req, dead>>

\* tests_purge().
PurgeRun(u, r) ==
    /\ user[u] = Idle
    /\ r \in submitted
    /\ user' = [user EXCEPT ![u] = [pc |-> "purge", run |-> r]]
    /\ UNCHANGED <<runs, submitted, unfinished, wtt, conns, req, dead>>

\* purge_run() without the lock: the guards and the search for bad tasks, ...
PurgeSearch(u) ==
    /\ user[u].pc = "purge"
    /\ LET r == user[u].run
       IN  IF Purgeable(runs[r])
           THEN \E B \in BadSets(runs[r]) : user' = [user EXCEPT ![u] =
                  IF B = {} THEN Idle ELSE [pc |-> "mark", run |-> r, todo |-> B]]
           ELSE user' = [user EXCEPT ![u] = Idle]
    /\ UNCHANGED <<runs, submitted, unfinished, wtt, conns, req, dead>>

\* ... set_bad_task() for one after the other, ...
PurgeMark(u) ==
    /\ user[u].pc = "mark"
    /\ \E t \in user[u].todo :
         /\ \A s \in user[u].todo : t <= s
         /\ Store(user[u].run, set_bad_tasks({t}, View(user[u].run)))
         /\ user' = [user EXCEPT ![u].todo = @ \ {t}]
    /\ UNCHANGED <<submitted, wtt, req, dead>>

\* ... compute_results(), ...
PurgeCompute(u) ==
    /\ user[u].pc = "mark"
    /\ user[u].todo = {}
    /\ user' = [user EXCEPT ![u] = [pc |-> "assign", run |-> @.run,
                                    results |-> compute_results(runs[@.run])]]
    /\ UNCHANGED <<runs, submitted, unfinished, wtt, conns, req, dead>>

\* ... the assignment of the results, ...
PurgeAssign(u) ==
    /\ user[u].pc = "assign"
    /\ runs' = [runs EXCEPT ![user[u].run].results = user[u].results]
    /\ user' = [user EXCEPT ![u] =
          IF runs[user[u].run].kind = "sprt" THEN [@ EXCEPT !.pc = "reset"]
          ELSE [pc |-> "judge", run |-> @.run]]
    /\ UNCHANGED <<submitted, unfinished, wtt, conns, req, dead>>

\* ... update_SPRT() with the results that were computed: it takes back the state of
\* an SPRT run, ...
PurgeReset(u) ==
    /\ user[u].pc = "reset"
    /\ runs' = [runs EXCEPT ![user[u].run].state = ""]
    /\ user' = [user EXCEPT ![u].pc = "state"]
    /\ UNCHANGED <<submitted, unfinished, wtt, conns, req, dead>>

\* ... and sets it again, ...
PurgeState(u) ==
    /\ user[u].pc = "state"
    /\ runs' = [runs EXCEPT ![user[u].run].state = Verdict(user[u].results)]
    /\ user' = [user EXCEPT ![u] = [pc |-> "judge", run |-> @.run]]
    /\ UNCHANGED <<submitted, unfinished, wtt, conns, req, dead>>

\* ... the decision whether the run comes to life again or gets a flag, ...
PurgeJudge(u) ==
    /\ user[u].pc = "judge"
    /\ user' = [user EXCEPT ![u].pc =
          IF is_undecided(runs[user[u].run]) THEN "activate" ELSE "flag"]
    /\ UNCHANGED <<runs, submitted, unfinished, wtt, conns, req, dead>>

\* ... compute_flags(), ...
PurgeFlag(u) ==
    /\ user[u].pc = "flag"
    /\ user' = [user EXCEPT ![u] = [pc |-> "update", run |-> @.run,
                                    flag |-> compute_flags(runs[@.run])]]
    /\ UNCHANGED <<runs, submitted, unfinished, wtt, conns, req, dead>>

\* Mutant: the flag of the run stays as it was.
MutPurgeUpdate(u) ==
    /\ user[u].pc = "update"
    /\ user' = [user EXCEPT ![u] = Idle]
    /\ UNCHANGED <<runs, submitted, unfinished, wtt, conns, req, dead>>

\* ... and run.update(flags).
PurgeUpdate(u) ==
    /\ user[u].pc = "update"
    /\ runs' = [runs EXCEPT ![user[u].run].flag = user[u].flag]
    /\ user' = [user EXCEPT ![u] = Idle]
    /\ UNCHANGED <<submitted, unfinished, wtt, conns, req, dead>>

----------------------------------------------------------------------------
\* The scheduler thread, and the passing of time.

Older == [fresh |-> "quiet", quiet |-> "silent"]

GrowOlder(r, t) ==
    /\ t \in Active(runs[r])
    /\ runs[r].tasks[t].age # "silent"
    /\ runs' = [runs EXCEPT ![r].tasks[t].age = Older[@]]
    /\ UNCHANGED <<submitted, unfinished, wtt, conns, req, user, dead>>

\* Mutant: only the tasks of runs that are given to workers.
MutDeadTasks ==
    UNION {{r} \X {t \in Active(runs[r]) : runs[r].tasks[t].age = "silent"} :
             r \in {s \in unfinished : runs[s].approved}}

\* scavenge_dead_tasks(): the list of the dead tasks, ...
DeadTasks ==
    UNION {{r} \X {t \in Active(runs[r]) : runs[r].tasks[t].age = "silent"} : r \in unfinished}

Scavenge ==
    /\ dead = {}
    /\ DeadTasks # {}
    /\ dead' = DeadTasks
    /\ UNCHANGED <<runs, submitted, unfinished, wtt, conns, req, user>>

\* ... and set_inactive_task() for each, whatever happened in between.
KillDeadTask ==
    /\ \E slot \in dead :
         /\ Store(slot[1], set_inactive_tasks({slot[2]}, View(slot[1])))
         /\ dead' = dead \ {slot}
    /\ UNCHANGED <<submitted, wtt, req, user>>

\* Mutant: whether the task is active is not looked at.
MutCleanWttMap(n) ==
    /\ wtt[n] # NoSlot
    /\ wtt' = [wtt EXCEPT ![n] = NoSlot]
    /\ UNCHANGED <<runs, submitted, unfinished, conns, req, user, dead>>

\* clean_wtt_map(), for one entry.
CleanWttMap(n) ==
    /\ wtt[n] # NoSlot
    /\ ~IsActive(wtt[n])
    /\ wtt' = [wtt EXCEPT ![n] = NoSlot]
    /\ UNCHANGED <<runs, submitted, unfinished, conns, req, user, dead>>

----------------------------------------------------------------------------
Init ==
    /\ runs = [r \in Run |-> NewRunObject("games", 0, FALSE)]
    /\ submitted = {}
    /\ unfinished = {}
    /\ wtt = [n \in Name |-> NoSlot]
    /\ conns = [a \in Addr |-> 0]
    /\ req = [c \in Client |-> Idle]
    /\ user = [u \in User |-> Idle]
    /\ dead = {}

RequestNext(c) == RequestTask(c) \/ AppendTask(c) \/ InsertInWttMap(c)

WorkerNext(c, r, t) ==
    \/ \E stats \in Reports : UpdateTask(c, r, t, stats)
    \/ Beat(c, r, t)
    \/ FailTask(c, r, t)
    \/ WorkerStopsRun(c, r, t)

UserNext(u, r) == \/ NewRun(u, r) \/ ApproveRun(u, r) \/ ModifyRun(u, r)
                  \/ StopRun(u, r) \/ DeleteRun(u, r) \/ PurgeRun(u, r)

UserContinues(u) == \/ Register(u) \/ ModifyArgs(u) \/ ModifyRevive(u) \/ ActivateRun(u)
                    \/ MarkDeleted(u) \/ PurgeSearch(u) \/ PurgeMark(u)
                    \/ PurgeCompute(u) \/ PurgeAssign(u) \/ PurgeReset(u)
                    \/ PurgeState(u) \/ PurgeJudge(u) \/ PurgeFlag(u) \/ PurgeUpdate(u)

Next ==
    \/ \E c \in Client : RequestNext(c)
    \/ \E c \in Client, r \in Run : \E t \in Ids(runs[r]) : WorkerNext(c, r, t)
    \/ \E u \in User, r \in Run : UserNext(u, r)
    \/ \E u \in User : UserContinues(u)
    \/ \E r \in Run : \E t \in Ids(runs[r]) : GrowOlder(r, t)
    \/ Scavenge
    \/ KillDeadTask
    \/ \E n \in Name : CleanWttMap(n)

Spec == Init /\ [][Next]_vars

\* The threads of the server are scheduled; workers and users need not do
\* anything, and the clock goes on.
Fairness ==
    /\ \A c \in Client : WF_vars(AppendTask(c)) /\ WF_vars(InsertInWttMap(c))
    /\ \A u \in User : WF_vars(UserContinues(u))
    /\ \A r \in Run, t \in 1 .. MaxTasks : WF_vars(t \in Ids(runs[r]) /\ GrowOlder(r, t))
    /\ WF_vars(Scavenge)
    /\ WF_vars(KillDeadTask)
    /\ \A n \in Name : WF_vars(CleanWttMap(n))

FairSpec == Spec /\ Fairness

----------------------------------------------------------------------------
\* Properties

ReqState == {Idle} \cup [pc : {"append"}, run : Run, addr : Addr]
                   \cup [pc : {"insert"}, run : Run, task : Nat]
UserState == {Idle}
    \cup [pc : {"register", "revive", "activate", "delete", "purge", "judge", "flag"},
          run : Run]
    \cup [pc : {"modify"}, run : Run, num_games : Int, auto : BOOLEAN]
    \cup [pc : {"mark"}, run : Run, todo : SUBSET Nat]
    \cup [pc : {"assign", "reset", "state"}, run : Run, results : Stat]
    \cup [pc : {"update"}, run : Run, flag : Flags]

\* Every variable has its type; a slot that the server remembers is the slot
\* of a task.
TypeOK ==
    /\ runs \in [Run -> RunObject]
    /\ submitted \subseteq Run
    /\ unfinished \subseteq submitted
    /\ wtt \in [Name -> Slot \cup {NoSlot}]
    /\ conns \in [Addr -> Int]
    /\ req \in [Client -> ReqState]
    /\ user \in [User -> UserState]
    /\ dead \subseteq Slot

\* What a run says of its workers, cores and games is what its tasks say: the
\* validators *_must_match of schemas.py (valid_aggregated_data), which the
\* server logs as an internal error when they fail.  Every handler adds to
\* and subtracts from these numbers instead of computing them.
AggregatesOk(run) == /\ run.workers = compute_workers(run)
                     /\ run.cores = compute_cores(run)
                     /\ run.committed = compute_committed_games(run)
                     /\ run.total = compute_total_games(run)

AggregatesMatch == \A r \in Run : AggregatesOk(runs[r])

\* The connection counter of an address is the number of active tasks, over
\* all runs, that were given to it (connections_counter; a wrong counter locks
\* a machine out, or lets it in without limit).
ActiveAt(a, run) == {t \in Active(run) : run.tasks[t].addr = a}

ConnectionsMatch ==
    \A a \in Addr :
        conns[a] = SumOver([r \in Run |-> Cardinality(ActiveAt(a, runs[r]))], Run)

\* No address has more active tasks than its limit, although the limit is
\* checked and the counter incremented in different critical sections.
ConnectionLimit == \A a \in Addr : conns[a] <= ConnLimit

\* Each worker name has at most one active task: the one in wtt_map, and for
\* the moment between the creation of a task and its insertion in wtt_map also
\* the one about to be inserted (sync_request_task, insert_in_wtt_map).
OneTaskPerName ==
    \A r \in Run : \A t \in Active(runs[r]) :
        LET c == runs[r].tasks[t].client
        IN  \/ wtt[NameOf[c]] = <<r, t>>
            \/ req[c] = [pc |-> "insert", run |-> r, task |-> t]

\* A finished run has no active task, whatever request_task, the scavenger and
\* users did while it was being stopped (runs_schema, the finished case).
QuietOk(run) == run.finished => Active(run) = {}

FinishedIsQuiet == \A r \in Run : QuietOk(runs[r])

\* Every run that is not finished is in unfinished_runs, or the thread that
\* created it is about to add it: request_task and the scavenger look nowhere
\* else, so that a run outside of the set starves and its tasks are immortal.
UnfinishedListed ==
    \A r \in submitted : ~runs[r].finished =>
        \/ r \in unfinished
        \/ \E u \in User : user[u] = [pc |-> "register", run |-> r]

\* No two tasks of a run play the same openings: the intervals from "start" on
\* that the tasks were given are disjoint (opening_offset in sync_request_task).
OpeningsOk(run) ==
    \A t, s \in Ids(run) : t < s =>
        run.tasks[t].start + run.tasks[t].num_games <= run.tasks[s].start

OpeningsDisjoint == \A r \in Run : OpeningsOk(runs[r])

\* A bad task is settled once: it is inactive, counts no games, and has exactly
\* one copy in bad_tasks, even if two users purge the run at the same time
\* (set_bad_task).
BadTasksOk(run) ==
    /\ \A t \in Ids(run) : run.tasks[t].bad <=> \E b \in run.bad_tasks : b.task_id = t
    /\ \A b \in run.bad_tasks : b.task_id \in Ids(run)
    /\ \A b, d \in run.bad_tasks : b.task_id = d.task_id => b = d
    /\ \A t \in Ids(run) :
         run.tasks[t].bad => ~run.tasks[t].active /\ run.tasks[t].stats = Zero

BadTasksOnce == \A r \in Run : BadTasksOk(runs[r])

\* The threads of users that are in one of the steps of a purge, or about to
\* reactivate the run.
ThreadsAt(steps, r) == {u \in User : user[u].pc \in steps /\ user[u].run = r}

\* The results of a run are the sum over its tasks, unless a purge is under way
\* (final_results_must_match in schemas.py): a report is counted once, and the
\* games of bad tasks not at all.
ResultsMatch ==
    \A r \in Run : ThreadsAt({"mark", "assign"}, r) = {} =>
        runs[r].results = compute_results(runs[r])

\* The flag with which a run is shown is the one its results deserve, unless the
\* end of a purge, or a reactivation, is about to set it (flags_must_match in
\* schemas.py).
FlagsMatch ==
    \A r \in Run :
        ThreadsAt({"reset", "state", "judge", "flag", "update", "activate"}, r) = {} =>
        runs[r].flag = compute_flags(runs[r])

\* A task that became inactive never becomes active again and is never removed:
\* task ids stay valid, and a worker that was told to stop cannot come back.
NeverReactivated ==
    [][\A r \in submitted : \A t \in Ids(runs[r]) :
         /\ t \in Ids(runs'[r])
         /\ t \in Active(runs'[r]) => t \in Active(runs[r])]_vars

\* The statistics of a task that is not active are final; a purge may set them
\* to zero (late, repeated and foreign reports, sync_update_task).
SettledStats ==
    [][\A r \in submitted : \A t \in Ids(runs[r]) \ Active(runs[r]) :
         \/ runs'[r].tasks[t].stats = runs[r].tasks[t].stats
         \/ runs'[r].tasks[t].bad]_vars

\* The tasks of a run are a ledger as TaskLedger describes it: tasks are added at
\* the end, with openings that no earlier task has, and only to a run that is not
\* finished and has not committed its games, although the run was chosen without
\* its lock (sync_request_task); it gets less than a batch of games too many; tasks
\* never vanish or come to life again, statistics only grow until they are final,
\* and a bad task counts no games ever after.
Entries(run) ==
    [t \in Ids(run) |->
        LET task == run.tasks[t]
        IN  [client |-> task.client, start |-> task.start, size |-> task.num_games,
             stats |-> task.stats,
             state |-> IF task.bad THEN "void" ELSE IF task.active THEN "open" ELSE "closed"]]

Ledger(r) == INSTANCE TaskLedger
    WITH Batch <- BatchGames,
         entries <- Entries(runs[r]),
         over <- r \in submitted /\ runs[r].finished,
         wanted <- runs[r].num_games

ImplementsLedger ==
    /\ \A r \in Run : Ledger(r)!Init
    /\ [][\A r \in Run : [Ledger(r)!Next]_(Ledger(r)!vars)]_vars

\* A task that is silent for too long is taken from its worker, unless the
\* worker speaks again (scavenge_dead_tasks).
Silent(r, t) == t \in Active(runs[r]) /\ runs[r].tasks[t].age = "silent"
DeadTaskReleased ==
    \A r \in Run, t \in 1 .. MaxTasks :
        (t \in Ids(runs[r]) /\ Silent(r, t)) ~> ~(t \in Ids(runs[r]) /\ Silent(r, t))
=============================================================================
