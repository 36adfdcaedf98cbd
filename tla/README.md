# TLA+ models of the bitbytelabs repository

The repository aggregates the projects around the Stockfish chess engine. The part whose correctness
rests on concurrent state is **Fishtest**, the distributed testing framework: a server that deals games
of tests out to volunteers' machines, the worker that plays them, and the scripts of the site that tell
users what becomes of their tests. This directory models it in TLA+, checks the models with TLC and
proves theorems about them with TLAPS.

## Inventory

| Part | State | Operations | Hard behaviour | What makes it correct |
|---|---|---|---|---|
| Task queue, `fishtest/server/fishtest/rundb.py`, `api.py`, `schemas.py` | run objects with their tasks and aggregates; `unfinished_runs`; `wtt_map`; `connections_counter` | request, update, beat, fail, stop; scavenge dead tasks; clean maps; bad tasks and purges | many threads, a lock per run that handlers give up in the middle; workers that vanish, come back, repeat and delay requests | aggregates equal to what the tasks say; one task per name; limits kept; results counted once; no run starves and no task is immortal; openings never repeated |
| User requests, `views.py` | the same runs | submit, approve, modify, stop, purge, delete | validation before the lock, assignments without it, two users at once | a run is either live and clean or finished and quiet; lengths are not changed illegally |
| Statistics, `stats/` | none | SPRT, chi-squared test | numerical | (abstracted) |
| Run cache, `run_cache.py`, `kvstore.py` | cached run objects with changed marks, priorities, times; the database | get, buffer, flush one, flush all, clean, lock of a run | marks set before writes; eviction while others hold the object; crash | one object per run; what was saved is never older than what was saved before; every change is saved at last; a clean exit loses nothing |
| Scheduler, `scheduler.py` | tasks with times, an event | create, schedule now, stop, the loop | a signal between wait and clear | a due task runs, none runs early or after it was stopped; stop ends |
| LRU cache, `lru_cache.py` | entries by use and time | get, set, expire, the decorator | two threads that miss one key | all callers get one value per key (the lock of a run!) |
| SPSA handler, `spsa_handler.py` | parameters, perturbation of each task | request, update | repeated and late updates, crash between the two | an update applies once, and to the perturbation it was played with |
| User, action, worker databases | documents | wrappers of database calls, the event log | | |
| GitHub access, `github_api.py` | cached answers | download, rate limits | network failures | |
| Startup and shutdown, `__init__.py`, `exit_run`, `update_aggregated_data` | | restart recovery, signal handler | requests in flight | counters rebuilt from runs; nothing buffered lost |
| Worker, `fishtest/worker` | current run and task, alive flag, last update | main loop, heartbeat thread, signal handler, game loop, updater, directory lock | three concurrent activities on one dictionary; retries | a report counts once; a worker leaves tasks that have ended, and only those; stops when told |
| Notifications, `static/js/notifications.js`, `application.js` | the list of followed runs and the times of the last fetch and purge, in the storage that all tabs share; buttons and notices of each tab | follow, unfollow, the loop that asks for events, the purge, broadcasts to the other tabs, dismissal | tabs run in parallel, are closed, sleep, and get each other's messages late | each followed run is told of once; no subscription is lost; buttons show the list; no notice goes unseen |
| Live Elo page, `static/js/live_elo.js` | focus, requests on their way | update, timer, change of visibility | answers out of order, network errors | the page ends with the final result |
| Stockfish threads, time, UCI | searching flags, stop and ponder flags, locks | go, stop, ponderhit, wait | condition variables, relaxed atomics | a stop ends the search; one best move per go |
| Stockfish transposition table | clusters, generation | probe, save, new search | racy entries | bounded damage of races |
| Stockfish shared memory | shared network with reference counts | open, close, clean | processes that crash | no use after removal; no leak |
| Stockfish search, board, tablebases, networks | | | numerical heuristics | |
| WDL model, books, NNUE trainer | | batch programs; a bounded queue in the data loader | | |
| Charts, calculators, other sites, bot, workflows | | forms, drawings, static pages | | |

How the parts of Fishtest interact: workers call the server over HTTP (`api.py`), each request
in a thread of the server; browsers call `views.py`, also a thread per request; both use the
methods of `RunDb`. One scheduler thread calls the periodic jobs of `RunDb` and of the run cache.
All of them share the run objects that the run cache hands out. A run is protected by its
`active_run_lock`; `wtt_map`, the connection counters and the list of unfinished runs have locks
of their own; `request_task` is serialized by `request_task_lock`. The run cache writes runs to
MongoDB; after a restart `update_aggregated_data` rebuilds the rest from them. In a browser every
tab runs the scripts by itself; tabs share the local storage, in which a write is also a message to
the other tabs, and the Web Locks of the browser.

## Modules

| Module | Models |
|---|---|
| `Totals` | the sum of a function over a finite set, as a cardinality (no recursion, so that it can be proved about) |
| `TaskLedger` | what the task queue promises of one run, without counters, locks and workers: an abstract specification |
| `RunDb` | the task queue and the users' requests: the core; the refinement mapping to `TaskLedger` |
| `RunDbInvariant` | the inductive invariant of `RunDb`, and the one of the results |
| `MCRunDb`, `MCRunDb_*.cfg` | the instances for TLC |
| `TotalsProofs` | laws of sums: a change at one index, disjoint union, subset, zero |
| `RunDbOpProofs` | each operator of a handler keeps one run, its counters and its listing in order, and its results and flag in line with its tasks |
| `RunDbProofs` | each action preserves the invariant, is calm or a step of a purge, and is a step or a stutter of the ledgers; the theorems |
| `RunStore` | what the storage of runs promises, without a cache: the abstract specification |
| `RunCache` | the cache of runs, the threads that use and flush it, the database, crash and restart; its inductive invariant; the refinement mapping to `RunStore` |
| `MCRunCache`, `MCRunCache_*.cfg` | the instances for TLC |
| `RunCacheProofs` | each action preserves the invariant and is a step or a stutter of `RunStore`; the theorems |
| `Scheduler` | the thread that executes periodic jobs, its event, and the threads that call it; its inductive invariant |
| `Locks` | which locks the code of the server takes, holding which |
| `MCThreads`, `MCThreads_threads.cfg` | the instances of `Scheduler` and `Locks` for TLC |
| `ThreadsProofs` | threads never wait for each other in a circle; each action of `Scheduler` preserves its invariant; the theorems |
| `Tune` | what an SPSA tune promises, without tasks, workers and requests: an abstract specification |
| `SpsaHandler` | the server of an SPSA tune: tasks, perturbations, updates, saving, crash and recovery |
| `Worker` | workers with their two threads, and the requests between them and `SpsaHandler`, which it extends; the refinement mapping to `Tune` |
| `WorkerInvariant` | the inductive invariant of `Worker` |
| `MCWorker`, `MCWorker_*.cfg` | the instances for TLC |
| `WorkerProofs` | what the server makes of a request, and how a worker goes on, preserve the invariant; each step is one of `Tune` or a stutter; the theorems |
| `Notifications` | the list of followed runs, the main loop and the purge of each tab, the server's log; the inductive invariant |
| `MCNotifications`, `MCNotifications_notify.cfg` | the instance for TLC |
| `NotificationsProofs` | each action preserves the invariant; the theorems |
| `Broadcasts` | the commands that tabs send each other, and what the pages show |
| `LiveElo` | the live Elo page of one tab |
| `MCSite`, `MCSite_site.cfg` | the instance of these two for TLC |
| `BroadcastsProofs` | each action preserves the invariant of `Broadcasts`; the theorems |

### Correspondence of `RunDb` with the code

The variable `runs` holds the run objects: the fields that decisions depend on, with the tasks as
a sequence (a task id is the index, from 1 instead of 0). `unfinished`, `wtt`, `conns` are
`unfinished_runs`, `wtt_map`, `connections_counter`. `req` and `user` are the program counters
and local variables of the threads that serve requests; `dead` is the local list of the scavenger.

An action is one critical section of the lock of a run, or one access without it:

| Handler | Actions |
|---|---|
| `request_task` | `RequestTask` (checks and choice), `AppendTask` (under the lock), `InsertInWttMap` |
| `update_task` | `UpdateTask`: sanity checks, results, end of the task, SPRT, `stop_run` with the purge, all under the lock |
| `beat`, `failed_task`, `stop_run` of the API | `Beat`, `FailTask`, `WorkerStopsRun` |
| `new_run` | `NewRun`, `Register` |
| `approve_run` | `ApproveRun` |
| `tests_modify` | `ModifyRun`, `ModifyArgs`, `ModifyRevive`, `ActivateRun` |
| `tests_stop` | `StopRun`, then the purge |
| `tests_delete` | `DeleteRun`, `MarkDeleted` |
| `tests_purge`, `purge_run` | `PurgeRun`, `PurgeSearch`, `PurgeMark`, `PurgeCompute`, `PurgeAssign`, `PurgeReset` and `PurgeState` (`update_SPRT`), `PurgeJudge` (is it undecided?), then `ActivateRun`, or `PurgeFlag` (`compute_flags`) and `PurgeUpdate` (`run.update`); under the lock, as in `update_task`, it is the operator `Purged` |
| `scavenge_dead_tasks` | `Scavenge`, `KillDeadTask` |
| `clean_wtt_map` | `CleanWttMap` |
| passing of time | `GrowOlder` |

The helpers keep their names (`set_inactive_run`, `set_active_run`, `compute_results`,
`is_undecided`, ...). They act on a *view* of one run: its object, the connection counters, and
whether it is listed.

Abstractions, all named in the module's header: a game is a win or a loss; the statistical tests
are the operators `Accepts` and `Rejects` of the results; the order of runs by priority and the
refusals that leave the state alone are nondeterminism (a request that is refused is no step);
the age of a task has three classes, with the limits of 120 s (`sync_request_task`) and 360 s
(`scavenge_dead_tasks`) between them. A worker is part of the environment: it may send any
request of its API at any time, late and repeated, for a task that carries its unique key, which
`validate_request` checks.

### Correspondence of `RunCache` with the code

`cache` is `self.run_cache`; an object has an identity (`Obj`), so that the model can tell two
copies of a run apart, and `heap` gives the content of each object, which is the number of changes
made to the run. `db` is the collection of runs in MongoDB, and `latest` is the history that the
properties compare with. `pc` says where each thread is and which object it holds in a local
variable; `todo` is the local list of `flush_all`. An entry's `age` counts the flushes since
`last_sync_time`, and `idle` says that `last_access_time` is more than 300 s ago.

| Code | Actions |
|---|---|
| `get_run`, called by a handler or a periodic job | `GetRun` (cached or loaded), then `Done` if the run is only read |
| changes in place | `Change`; `Touch` for the jobs that call `buffer` without having changed the run |
| `buffer` | `Buffer` with a priority; `BufferNow` for `Prio.SAVE_NOW`, with the write that follows |
| a handler that ends without `buffer` (`tests_modify` of a decided run) | `Forget` |
| `new_run` | `NewRun` |
| `replace_one` under `active_run_lock` | `Encode` (the lock is taken, the object is read), `Write` (the database stores it, the lock is given back), `WriteFails` |
| `flush_buffers` | `FlushBuffers` (selects the run and marks it as saved, under `run_cache_lock`), then the write |
| `clean_cache` | `CleanCache`, of one entry |
| `exit_run`, `flush_all` | `Shutdown`, `FlushAll`, `FlushNext`, `Quit` |
| the process is killed, and started again | `Crash`, `Start` |
| passing of time | `GrowIdle` |

The history `adrift` holds the runs with changes that no thread means to save: a handler forgot to
call `buffer` and the run was not marked, or a write raised after the mark had been taken away. A
later `buffer` or write of the run ends this. When such a run is dropped from the cache, or the server
ends, its changes are gone for good, and `latest` goes back to what is in the database. `RunStore` has
the same as `Neglect`, `Mind` and `Lose`: of a run that is not neglected no change is ever lost, save in
a crash.

Two assumptions of time are written into guards. `GrowIdle`: no request works on a run for 300 s,
so an entry that a handler uses is not dropped. (The scheduler thread, which flushes, is also the
one that cleans, so its own object is safe without the assumption.) `FlushAll`: the requests in
flight end within the half second that `exit_run` waits after `_shutdown` is set. The code relies
on both; neither is enforced.

`RunDb` and `RunCache` describe the same objects at different grain: in `RunDb` there is one object
per run and no restart, which is what `OneCopy` and `LatestRead` of `RunCache` justify as long as
the server runs.

### Correspondence of `Scheduler` with the code

`tasks`, `event` and `stopped` are the fields of the scheduler, `left` and `expired` those of the
tasks; `created` are the tasks that exist, in the list or not. `at`, `rest`, `next` and `due` are
where the scheduler thread is and its local variables. All times are relative to now, so that
`Tick` subtracts one from each of them and `next_schedule = now` is zero.

| Code | Actions |
|---|---|
| `create_task`, `schedule_now`, `Task.stop`, `Scheduler.stop` | the action of that name (`stop_task`, `stop`) for the change, then `refresh` for the event, then `join` for the end of `Scheduler.stop` |
| `__next_schedule` | `Plan` (the test of the loop, the copy of the list), `Visit` (one iteration over the copy), `Wake` (`wait` returns), `Decide` (`is_set`, `expired`), `FinishWork` (the end of `_do_work`), `Clear` |

The callers are threads other than the scheduler's; `Scheduler.stop` called by a task would not join.
A background task is one whose execution ends at once for the thread. The comment at the head of
`scheduler.py` says that tasks are executed in a single thread and are atomic: this holds of those
that are not executed in the background, and the two that are (`update_books`,
`update_official_master_sha`) touch no run.

### Correspondence of `Locks` with the code

`RunDb` and `RunCache` take most locks as the atomicity of their actions, in which nobody ever waits for
two of them. `Locks` keeps what they leave out: each of its operators is a function of the server, named
like it, and its value is what the function does with locks, a sequence of accesses. An access says
which lock is taken and which are held by then; `With` is Python's `with`, a call is the code that is
called, `\o` is one after the other. `todo` is what a thread is going to do, first of all take a lock. A
thread may leave out any block that takes a lock (`Skip`), which covers every condition, early return
and exception; the body of a loop is there once, since a second iteration starts with the locks of the
first. The locks of runs and `wtt_lock` are reentrant, the others are not.

`insert_in_wtt_map` takes the lock of a run that need not be the one of its caller: the worker's old task
may be of any run, and it holds `wtt_lock` over it. So do `stop_run` and `set_bad_task` with the locks that
their callers hold already. Left out are the locks inside the dictionaries of `lru_cache.py`, under
which nothing is called, and `update_aggregated_data`, which runs before there are other threads.

### Correspondence of `SpsaHandler` and `Worker` with the code

`run` and `saved` are one SPSA run in memory and in the database, with what matters to its parameters:
the tasks with their owner, count and `spsa_params`, the `iter`, and instead of `theta` the sequence of
the updates that moved it. Games are counted in batches, what a worker plays with one perturbation;
`Played` is their number over all tasks. A batch carries when it was generated (the number of crashes
before, the task, the count, `iter`) and its flips, of which the server sees the flips alone, by their
signature.

A request is one step of the server (`Outcomes`: its new run and its answer): `request_task`,
`request_spsa`, `update_task` with the end of the task and of the run, `failed_task` and `stop_run`,
`beat`. `Scavenge`, `Stop`, `Save` and `Crash` are what it does by itself. That a request is one step
is what `active_run_lock` gives; `RunDb` has the finer grain.

`Tune` forgets all of this but the updates, the number of batches counted, whether the tune is over, and the
same three as they were saved. `Tuned` maps them: `games` is `Played(run)`, `over` is `finished`.

| Code | Actions |
|---|---|
| `fetch_and_handle_task` | `Fetch`, `Break` (a failure), the ends `Leaves` and `Fails` |
| `run_games`, `launch_fastchess` | `Ask` for the parameters of the next batch, or the end of the task |
| `parse_fastchess_output` | `Report`, and `Abandon` ("no longer necessary") |
| `send_api_post_request`, with repetitions | `Answer`, `LoseAnswer` (the server has handled it), `GiveUp` (the server may handle it later: `HandleLate`) |
| `heartbeat` | `Beat`, `AnswerBeat`, `GiveUpBeat`, `ClearCurrent` |
| `on_sigint` | `Interrupt` |

`main` and `beat` are where the two threads of a worker are and their local variables; `current` and
`alive` are the fields of `current_state` that both use. The answer to a heartbeat and the assignment
that follows it are two steps, between which the main loop goes on.

### Correspondence of `Notifications`, `Broadcasts` and `LiveElo` with the code

A tab runs one piece of JavaScript at a time, from one `await` to the next; those of different tabs run
in parallel, so that each access to the storage outside of the Web Lock is a step of its own. Between two
of them in one piece (`Midway`) the tab handles no click.
`Notifications` has the variables of the storage under the names of their meaning (`followed`,
`claimant`, `sinceClaim`, `latestPurge`), the place and local variables of `mainFollowLoop` in each
tab, the click that is handled, and what a tab in `followRun` or `unfollowRun` has read (`section`).
A subscription has a number that only the history knows, so that one can tell what becomes of it.

| Code | Actions |
|---|---|
| `mainFollowLoop` | `Look` (at the time of the last fetch), `Claim` and `Sign` (the time, then the signature), `Settle` (was it preempted?), `Gather` (the runs to ask for), `Answer` or `FetchFails`, `Receive`, `EnterEvent` (`unfollowRun`), `StartTelling`, `Tell`, `EndLoop` |
| `purgeNotifications` | `MarkPurge`, `Suspect` (the list as it is), `ActiveRuns`, `Check`, `EnterPurge`, `EndPurge` |
| `followRun`, `unfollowRun` | `Enter...` takes the lock and reads the list; `LeaveFollow`, `LeaveUnfollow` write it and give the lock back |
| clicks | `Follow`, `Unfollow`, then `EnterClick` |
| the server's log of actions | `End`, `LogEnd` (a run ends, then this is logged), `RefuseStop`, `Restart` |
| `actions` of `api.py` | `Limited`: any `AnswerLimit` of the events, where the code has 200, since the query is not sorted; the history `cut` holds what was left out |
| the user closes and opens tabs | `Close`, `Open` |
| time; the computer sleeps and wakes up | `Tick`, `Hibernate` |

`Lateness` says how late the timers of each tab may fire. A piece of JavaScript and a request to the server
take no time (`Instant`).

`Broadcasts` is about what `Notifications` leaves out, the messages between tabs. There an access to the
list is one step, which `SectionsKept` of `Notifications` justifies, and a handler (a click, the
submission of a run, stop and delete, an event of the main loop, a purge) waits for the lock and then
owes the commands that it will broadcast. A broadcast executes the command in its own tab and queues it
for the others. A page is in `loading` from the inline script of the table of runs, which sets the
buttons (`Open`, `run_table.mak:101`), to `DOMContentLoaded` (`Loaded`), when the tab begins to listen
(`application.js:9-10`), and the page of a single run sets its button (`tests_view.mak:40-45`). What is
broadcast in between reaches a tab that has no listener: `Miss` forgets it, and the run becomes `silent`
for the tab, since no other message about this change will come. `LiveElo` keeps the names of the
script; a result is the progress of the run.

The two scripts of `MCSite` share nothing, so its variable `script` picks one of them.

## Checks

Each run uses the instance `MC...` of its module. Bounds that the runs of `RunDb` share: at most two
tasks per run (`MaxTasks`), which is enough for a task to be followed by another of the same or another
worker, for a worker to come back, and for one of two tasks to be bad; runs of two, four or eight games
and tasks of one pair or two, so that a run may be decided by one report, need two tasks, have its last
task cut, or be stopped with two tasks reported and shortened, so that a purge changes its flag; three
kinds of runs, because the guards distinguish them; a patch is accepted two games ahead and rejected
four games behind, so that both verdicts and neither are reachable.

| Run | Instance | Shows |
|---|---|---|
| `tasks` | one run of any kind, two workers that share a name, one user, three reports (an odd one, a clean one, one with a crash) | `AggregatesMatch`, `OpeningsDisjoint`, `FinishedIsQuiet`, `ResultsMatch`, `FlagsMatch`, `SettledStats`, `ImplementsLedger` (the refinement of `TaskLedger`) |
| `users` | an SPRT run, two users, one worker that crashes | `BadTasksOnce`, `UnfinishedListed` under overlapping requests of users |
| `tworuns` | two runs, two addresses with a limit of one task each, a shared name | `ConnectionsMatch`, `OneTaskPerName`, `ConnectionLimit`; `Inductive`, the invariant of the proofs, which contains `TypeOK` |
| `live` | `FairSpec`, one run, two workers that share a name, one user | `DeadTaskReleased` |

The runs of `RunCache` have two objects for one or two runs, so that a run can be dropped and loaded
again into an object other than the one that a thread still holds. Handlers and the scheduler thread
may write one run at the same time. Two changes to a run are enough for an old encoding to
come after a newer one.

| Run | Instance | Shows |
|---|---|---|
| `cache` | `FairSpec`; either two handlers on one run, or one handler on two runs that compete for the objects and for the flush, buffered with `Prio.NORMAL` and `Prio.MEDIUM`; handlers may forget to buffer, the writes of one of them and of the scheduler may fail | `Sound` (the invariant of the proofs, which contains `TypeOK`), `OneCopy`, `LatestRead`, `ChangesMarked`, `NeverOlder`, `ImplementsStore` (the refinement of `RunStore`), `EverySaved` |

With `PrioWeight = 1` the largest urgency that a priority contributes, where two runs compete, is 1, which
is below `MaxAge`, so that a run of priority 0 overtakes one that is buffered with priority 1 again and
again; in the code the factor is 60 and ages have no bound.

The run `threads` has two parts. Of `Scheduler` it checks `FairSpec` with a frequent task, a rare one
with jitter that is created overdue or nearly so, and a one-shot task; two callers with two calls each,
so that a signal can come at every point of the loop, also while another is being set; and no task later
than one tick, which is enough for one to be more urgent than another that is due. It shows `Inductive`,
`NoLostSignal`, `OnlyDue`, `DueRuns` and `StopReturns`. Of `Locks` it checks `NoDeadlock`, with the
scheduler's thread and two requests on one run, and with two requests on two runs; each request and each
job is any of those that the code has. Deadlock of TLC's kind is not checked in this run, since a
stopped scheduler does nothing; `DueRuns` and `StopReturns` show that it stops for no other reason.

The run `notify` checks `FairSpec` of `Notifications`: two tabs, and a run that is followed at most
twice, with two logged events and a click at a time. It has three parts, since all together are too many
states: two tabs that race for the fetch with little time before the horizon, of which the user may
close one and open it again; one tab with more time, in which ends are logged before and after a purge;
and two tabs in which the user clicks for two runs at a time, more than the list holds, and nothing else
happens. The timers of the second tab, which is not in front, may be late by the time between two
fetches, so that it is preempted and preempts; the computer may sleep with both tabs; and the server's
answer has one event, so that another is cut off. That is enough for both tabs to have the same event in
hand, for a purge to decide from an old claim, and for a run to be followed again before and after its
event. It shows `Inductive`, `OnePlace`, `NoneLost`, `PurgeKeepsNews`, `FollowedIsNotified`.
`PurgeKeepsNews` speaks of the moment when the purge finds out that a subscription is stale, not of its
removal, which comes later (see below).

The run `tune` checks `FairSpec` of `Worker`: one worker, two flips, two tasks of two batches and a tune
of two, one crash, one late request, a report that is sent twice. It shows `RightPerturbation`,
`Inductive` (the invariant of the proofs), `ImplementsTune` (the refinement of `Tune`) and
`EndedTaskLeft`. Flips must be able to coincide and to differ, tasks to be dealt again after a crash,
and reports to be late across it: all of this happens within the bounds. What several workers add is
left to the proof.

The run `site` checks `Broadcasts` (two tabs, three runs, a full list of two, two handlers, one tab
opened later, which listens some time after it has set its buttons, two queued events) and `LiveElo`
(three requests, results 0 to 2): `ButtonsCurrent`, `NoticesSeen`, `SettlesOnResult`. With the third
run, following drops the oldest one, whose button must change too. A notice may be in the way of two
dismissals, one that crosses it and one of a notice that comes after it; that takes three handlers and
is left to the proof. The bounds of `Broadcasts` are used up at last, and a worker that was interrupted
stops, so that deadlock is not checked in `site` and `tune`.

Symmetry is used only in `tasks`, `users`, `tworuns` and `flags`, which have no liveness properties, over sets
whose members the instance does not distinguish.

Three runs are expected to find a violation. Each is a disagreement between what the code does and
what a schema or comment of the repository says:

| Run | Property | Behaviour |
|---|---|---|
| `purged` | `ResultsMatch` | a report between the computation and the assignment of the results in a purge that a user asked for is lost from the run's results |
| `flags` | `FlagsMatch` | a purge that a user asked for computes the flag of the run; before it stores the flag, a modification by another user makes the run active again: the unfinished run has the flag of a finished one, until it ends again. (Between two purges the same gap lets the flag of older results replace that of newer ones.) |
| `abandoned` | `NoLongerNecessary` | the heartbeat thread asks about a task, the main loop ends that task and fetches another, the answer says that the task is dead: the thread clears the new task, and the worker leaves it without telling the server, which frees it only after six minutes of silence |

`ResultsMatch` holds in `tasks` because a report cannot come for a run that its only user stopped and is
purging; that a second user breaks it is the run `purged`. The same is true of `FlagsMatch` and the run
`flags`.

### Other behaviours that the models show

These disagreements were seen in modelling and no property of a run claims the contrary:

- `tests_modify` (`views.py:1415`) may lower the length of a run below what has been played; the run
  is then decided, and neither finished nor stopped, against `schemas.py:851-858`, until the next report
  or stop. It also returns without `buffer` for a decided run (1426), so that the change is not
  saved: the handlers that `forget` in `RunCache` are of this kind. Nor is a change saved whose write
  raises (`run_cache.py:60`, `122-128`). Such a run is `adrift`, which the properties of the cache
  except: its changes are lost if the cache drops it, or the server ends, before it is buffered
  again. With two users, the length that `validate_modify`
  compared with may have changed before the assignment.
- `tests_delete` sets `deleted` outside the lock (1549): a run that another user revives in between is
  unfinished and deleted, against the same schema.
- `RightPerturbation` claims `iter` only as long as the server has not crashed. After a crash task ids
  are dealt again. A request for parameters of a forgotten task that comes late stores parameters in
  the new task of that id; equal flips have equal signatures, so the update of the batch that is being
  played is computed with the `iter` of the other one. The gain of that step is slightly wrong.
- `api.py:306` logs a worker's request to stop a run as `stop_run` even if it is refused. The
  notifications take the log for the truth: the user is told of a stop, and not of the real end
  (`RefuseStop`).
- The notice of an event is in the hands of one tab after `unfollowRun`; if that tab is closed before
  it shows the notice, it is lost. `FollowedIsNotified` counts it as ended.
- An event that is logged after the purge has asked for the news of a run, and before it has unfollowed it
  (`notifications.js:211-226`), is lost with the subscription; so is a subscription that is made
  again in the very millisecond of the old one. `PurgeKeepsNews` claims nothing of them, and
  `FollowedIsNotified` counts the subscription as ended.
- The server answers with 200 events in no order (`api.py:415`). Events that are cut off may stay so, as
  the next query is the same, and the purge may remove a subscription that they were about. Both
  properties except them (`cut`). It takes more than 200 ends of the twenty runs of a list.
- If the timers of all tabs were late without end, two of them could preempt each other again and again.
  Browsers let the timers of the tab in front be punctual, and in `notify` those of one tab are.
- `dismissNotification` hides the notices of all tabs, although tabs may show different ones: a tab that
  was loaded after a notice does not show it, nor does one that handled the notice and then a
  dismissal that crossed it. Dismissing in such a tab hides the notice where it is shown. `NoticesSeen`
  says only that a notice is not hidden by a dismissal in a tab that had not handled it yet.
  When two dismissals cross, or a tab is closed right after dismissing, even that fails; `NoticesSeen`
  assumes of the user not to do so (`Dismissed`).
- A purge, a stop and a deletion, and the run that the page of a submitted run drops from the full
  list, are not announced to the tabs: buttons stay as they were (`silent`). So does a button whose
  announcement comes after the inline script that set it and before its tab listens.
- The live Elo page goes on asking after the final result: the `return` of `live_elo.js:213` leaves
  one update, not the loop. An older answer may replace the final result until the next update.

### Fairness

`FairSpec` assumes weak fairness of what the server's own threads do: a request that is being
served goes on (threads of the HTTP server; every lock is a `with` block and no action waits for
the environment), the scheduler thread runs its periodic jobs (`schedule_tasks`), and the clock
advances. Nothing is assumed of workers (they may be silent for ever) or users.

`FairSpec` of `Scheduler` assumes weak fairness of the thread (executions of tasks end), of a call
that has begun, and of time. Calls are bounded in number: a caller that signals again and again, each
time before the thread decides, keeps it from executing anything.

`FairSpec` of `RunCache` assumes weak fairness of a request that holds a run, of `flush_buffers`
(called every second by the scheduler) and of the steps of `exit_run`, and strong fairness of
`Save`: a thread that wants to write waits for the lock of the run, which other threads take and
give back again and again; no thread keeps it, and that the interpreter's lock lets every waiting
thread in at last is assumed. Nothing makes
requests come, the server quit, or crash.

`FairSpec` of `Worker` assumes weak fairness of what a worker does by itself: it looks whether its
task is still necessary, takes the answers that come, sends heartbeats (every 120 s) and clears the
task; and strong fairness of a heartbeat being answered: attempts go on, and the network does not
fail for ever. Games may take for ever, and nothing makes a worker fetch, ask or report.

`FairSpec` of `Notifications` assumes that time passes and timers fire, that a tab goes on after a
wait, and that requests are answered if they are made again and again. That time passes is strong
fairness, since clicks and events, which take no time in the model, may come at any moment.
`EloFairness` assumes the same of timer and answers of the live Elo page. Nothing is assumed of users.

## Proofs

`RunDbProofs` proves, for every set of runs, clients, names, addresses, users, for all reports and
verdicts, and every bound:

- `Invariant`: `Spec => []Inductive`, and from it `TypeCorrect`, `AggregatesCorrect`,
  `ConnectionsCorrect`, `LimitKept`, `OneTask`, `FinishedQuiet`, `BadTasksSettled`,
  `NoRunForgotten`, `OpeningsSeparate`;
- `StatsSettled`: the action property `SettledStats`; and `TasksStayInactive`: `NeverReactivated`, which no
  run checks by itself, since `ImplementsLedger` contains it (entries move from open to closed or void only);
- `QueueIsLedger`: `Spec => Ledger(r)!Spec` for each run `r`, and from it `QueueImplementsLedger`:
  the tasks of a run are a ledger as the abstract specification `TaskLedger` describes it;
- `ResultsAddUp` and `FlagsFit`: `Spec /\ []LonePurge => []ResultsMatch`, and the same for `FlagsMatch`.
  `LonePurge` says that no purge that a user asked for overlaps, from its marks to its end, with another purge or
  a reactivation of the same run. The hypothesis is about users alone; nothing is assumed of workers
  and the scavenger. It cannot be left out, as the runs `purged` and `flags` show.

Assumptions of these are the named `ASSUME`s of `RunDb`: the set of runs is finite, the values of workers
and users have their types, `BatchGames` is positive. Nothing is assumed of `Accepts` and `Rejects`.

The argument. The safety properties are not inductive alone. `ConnectionLimit` needs that at most
one thread is in `sync_request_task` and that between its check and the increment the counter is
below the limit (`LockOk`: this is what `request_task_lock` is for). `OpeningsDisjoint` needs that
`total_games` is the end of the last opening (`StartsOk`). `OneTaskPerName` needs `LockOk` too, and
`ConnectionsMatch` needs that a run that was not submitted has no tasks (`UsersOk`, needed when a
run is created in its place). `UnfinishedListed`, `BadTasksOnce`, `FinishedIsQuiet` and
`AggregatesMatch` support each other, since a finished run that is purged must have no active
tasks for its committed games to be right.

The last three of these rest on `Inductive` and on what a purge by a user leaves alone. A step is
*calm* for a run if it keeps the flag and the results in line with the tasks: every handler is, since
it changes a task and the sums together, under the lock (`DataStep` in `RunDbOpProofs`). What remains
are the steps of a purge, which are looked at one by one. For the results that needs `ResultsOk`:
while a lone purge is under way the run stays finished, so that no report changes it, and what it
computed is still true when it is assigned, judged, and when the flag that was computed from it is stored.
`FlagsMatch` excepts only runs of which a purge is between its assignment and the end of it.

For the ledger, a step that adds neither a run nor a task (`Progress`) maps to `Advance`: tasks keep
their client, openings and size, and move from open to closed or void only. `AppendTask` maps to `Deal`;
this needs the guard `NeedsGames`, and that the counters it reads, which the code keeps incrementally,
are the sums over the entries (`AggregatesMatch`). `NewRun` and `ModifyArgs` map to `Resize`. A finished
run has no open task by `FinishedIsQuiet`, and a void entry has no games by `BadTasksOnce`.

The proof has three layers. `TotalsProofs` proves the laws of sums from the library's theorems on
finite sets. `RunDbOpProofs` defines what a sound step of one view is (`OpStep`: types are kept,
task ids are kept, no task becomes active, settled statistics stay, aggregates and bad tasks remain
in order, the connection counters change by as much as the active tasks at each address) and proves
it of each helper, composing them by transitivity as the handlers compose them. `RunDbProofs` lifts
a sound step of one run to the invariant of the whole server once, and then has one lemma per
action.

`RunCacheProofs` proves, for every set of runs, objects and handlers, every weight of priorities
and every bound:

- `AlwaysSound`: `Spec => []Sound`, and from it `TypeCorrect`, `OneCopyOfARun` and, as an action
  property, `NeverReplacedByOlder`. They need no assumption on what handlers do;
- `AlwaysSafe`, and from it `NoUpdateLost` (`LatestRead`), `NoChangeForgotten` (`ChangesMarked`) and
  `CacheImplementsStore`, which is `Spec => Store!Spec`. They need no such assumption either: what
  forgetful handlers and failed writes do is a run in `adrift`, and of all others nothing is lost.

The argument. `OneCopy` is inductive only with `IdleUnused` (an entry that may be dropped is not in
a handler's hands) and `PhasesOk` (no thread works when the process goes down, the flushed list is of
cached runs). `NeverOlder` needs that at most one thread writes a run (`OneWriter`, the lock of the
run) and that what it encoded lies between the database and the object (`VersionsOk`). `LatestRead`
and `ChangesMarked` support each other: a dropped entry is unmarked, so `ChangesMarked` says that the
database has the latest version, and so the next reader gets it; and a run that is loaded is the
latest, so that it is not marked rightly.

`ThreadsProofs` proves `NeverDeadlocked` (`NoDeadlock`), for any number of runs and requests. The
argument: the locks have ranks, `request_task_lock`, `wtt_lock`, the locks of runs, then all the others,
and every piece of code takes a lock of a rank above those of the locks that it holds, or one of the
reentrant ones that it holds already. This is shown of each operator from those that it calls. Then in a
circle of threads, the one that waits for the lock of the highest rank waits for one that holds it and
waits for no higher one. So no thread of a circle can wait for the next.

It also proves, for every set of tasks and callers and all periods, delays and jitters,
`AlwaysInductive`, `SignalsArrive` (`NoLostSignal`) and `ExecutedWhenDue` (`OnlyDue`). The argument:
every call changes what the choice depends on before it sets the event, and the thread clears the
event before it copies the list and reads the tasks. So between the copy and the decision the choice is
the earliest of the visited tasks, or the event is set, or a caller is about to set it (`ChoiceOk`);
and nobody but the thread ever puts a task off (`NextOk`).

`WorkerProofs` proves, for every set of workers and flips, all sizes of tasks and tunes, any number
of crashes and late requests: `InductiveHolds` (`Spec => []Inductive`), `PerturbationRight`
(`RightPerturbation`), `WorkersTune` (`ImplementsTune`, that is `Spec => Tuned!Spec`) and `TuneIsSound`.
Assumed is only that the bounds are numbers. The argument, which explains why
the handler needs so few checks: a batch must not be counted twice although a report may be sent
five times and come late. Reports of one batch say the same count of games (`SameCount`), and those
of the batch that was generated last for a task come from the present work on it (`PresentCount`).
The server accepts a report only if it raises the count of the task. So when a batch has been
counted, no report of it on its way can raise the count again (`CountedOnce`), for as long as
the server remembers the count; and when a crash makes it forget the count, it forgets the step too,
since both are saved as a whole: `CountedOnce` holds of the saved run as well. A batch that was
generated after a crash is new to all of the past (its `epoch`). The flips are right because of the
signature. `iter` is right without a crash because a worker asks for new parameters only when no
report of its task on its way would be counted (`AsksSettled`), so that the stored parameters are
those of the report that is counted (`ParamsKept`); a crash breaks `AsksSettled`, as described above.
The proof takes a step apart: what the server makes of a request, for any state of the workers
(`HandleKept`), and how a worker goes on, for any state of the server (`StepKept`, `NewTaskKept`,
`NewBatchKept`, `NextBatchKept`).

For `Tune`, everything that happens to a run before it is saved is one of three things: it counts
(`Counts`), it idles (`Idles`: no games, no step), or it ends the tune. Each outcome of the server is shown
to be one of them, whatever the worker has sent and however late (`HandleTuned`). That needs `InOrder`:
`iter` is the number of steps, the stored perturbations come from this or an earlier step, and a finished
tune has no active task, so that no report counts any more. `InOrder` holds of the run in memory and of the
saved one, since `Save` copies a run as a whole. The games of a tune are the sum of the counts of its tasks
(`Played`, by the laws of `TotalsProofs`): a report that counts raises the sum, and a task that is added has
none. That a step is not one of before, has the flips of its batch and, without a crash, its `iter`, is
`RightPerturbation` after the step, which is already proved. `Tuned!Sound` then follows from the abstract
specification and the types of what is mapped: it says, for any number of crashes, that
what is saved is a beginning of what was done, and that the parameters never move more often than
games were counted.

`NotificationsProofs` proves, for all sets of tabs and runs, all intervals, any lateness of timers, any
limit of the answers and every bound, under the assumption that the browser has Web Locks:
`InductiveHolds`, `TypeHolds`, `ListHolds`, `OnePlaceHolds`, `NoneLostHolds`, and `PurgeKeepsNewsHolds`
(an action property). The argument: since one tab at a time is between reading and writing the list
(`SectionsKept`), and `unfollowRun` says whether the run was in it, the tab that removes a subscription
is the only one that has it in hand. A purge that decides from an old time is right because events
before the claim, up to the grace, were in the answer of the same iteration and their subscriptions have
been removed by then, or were cut off it (`NewsKept`), and later ones are what the purge itself asks
for. Without Web Locks the list is read and written without a wait in between, but in parallel with
other tabs, and a subscription can be lost; the script says so in its log, and nothing is claimed of it.

`BroadcastsProofs` proves, for all sets of tabs and runs and every bound, `InductiveHolds`,
`ButtonsHold` and `NoticesHold`. The argument for buttons: a button that differs from the list has an
announcement on its way, which no step loses. A change of the list puts one into what its handler owes
(`ChangesAnnounced`: the list changes by no other runs than those that are announced), a handler that
goes on moves it to what its tab sends, a broadcast to the queues of all other tabs, and there it makes
the button show what the storage says at that time. A tab
that does not listen yet loses such an event (`Miss`), and then the run is silent for it, which is the
exception that `ButtonsCurrent` states. For notices the invariant needs `OneDismissal`: as
long as a dismissal is on its way, the tab that it comes from does not get it, and shows or will show
all notices that are unseen, so that the dismissal hides none of them for good.

Only model-checked: the liveness properties, among them the one of `LiveElo` (liveness under fairness
is beyond the prover). They are `DeadTaskReleased`, `EverySaved`,
`DueRuns`, `StopReturns`, `EndedTaskLeft`, `FollowedIsNotified` and `SettlesOnResult`. Every invariant
and action property of the runs that pass is stated by a theorem.

## Not modelled, and why

- **Recovery and the LRU cache.** `update_aggregated_data` recomputes the counters in one loop before
  any request is served, so that no interleaving is left. The operations of the LRU cache are one
  critical section each. That its expiration may replace the lock of a run that is held is excluded by
  an assumption of `RunCache` about time.
- **Locks as objects with a lifetime.** `Locks` has the order in which locks are taken, `RunDb` and
  `RunCache` what they protect; in the latter two, all but `request_task_lock` and the lock of a run
  that is being written are the atomicity of actions. That a request ends at all follows from
  `NoDeadlock` and a fair interpreter, and is no property of a run.
- **The rest of the worker.** Downloads, builds, version checks and updates come before a task is
  fetched, or end the process; the lengths of delays are covered by unbounded waits.
- **Stockfish.** Search, evaluation, tablebases and training are numerical programs whose correctness
  is not a matter of interleavings. Its thread pool, transposition table and shared memory are
  concurrent, and a different program: Fishtest starts it as a process and waits for its end.
- **Statistics** are real-valued; the models take verdicts as operators of the results.
- **Charts, calculators, tables, forms** of the site, the documentation, the Stockfish site, the wiki
  bot, books and workflows: one handler at a time, or no state. In reading them one flaw was seen:
  `spsa.js:220-228` rebuilds the columns of the chart without the colours that hiding a parameter
  has changed (248).
- **Vendored code**: `fishtest/worker/packages`, `WDL_model/external`, and Font Awesome in
  `stockfish-web/static/fontawesome/js`, which is about 13,000 of the repository's 16,000 lines of
  JavaScript and is not even loaded (`layouts/_default/baseof.html:43-45` loads its style sheets
  only). The JavaScript of the projects themselves is about 2,500 lines, of which the two files that
  hold concurrent state, `notifications.js` and `live_elo.js`, are modelled as a whole, and
  `application.js` where they use it. Most of what is modelled is the Python of server and worker.
- The set iteration of `unfinished_runs` under a lock that its writers do not take is abstracted to
  one atomic read.

## What could follow

In the order in which it would add most:

1. `Worker` and `RunDb` share the server at two grains; a refinement mapping from `RunDb` with one SPSA
   run to `SpsaHandler` would join them. It needs the parameters of a tune in `RunDb`.
2. A finer `Recovery`: `RunDb` with saved runs and a crash, several runs at a time.
3. Stockfish: `ThreadPool`, shared memory, transposition table, as a development of their own.
