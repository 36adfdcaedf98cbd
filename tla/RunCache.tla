------------------------------ MODULE RunCache ------------------------------
(***************************************************************************)
(* The cache of run objects (run_cache.py), its threads, and the database. *)
(*                                                                         *)
(* Handlers of requests and scheduled jobs obtain a run object from the    *)
(* cache, change it in place, and say that they did with buffer().  The    *)
(* scheduler thread writes one changed run per second to the database      *)
(* (flush_buffers) and drops runs that nobody used for a while             *)
(* (clean_cache).  The main thread flushes all when the server quits       *)
(* (exit_run, flush_all).                                                  *)
(*                                                                         *)
(* One action is a critical section of run_cache_lock, or a step under the *)
(* lock of a run.  A write is two steps: the object is encoded, then the   *)
(* database stores it; the thread holds the lock of the run in between.    *)
(*                                                                         *)
(* Abstractions.  The content of a run is the number of changes made to    *)
(* it.  Objects have an identity, so that two copies of a run could exist. *)
(* Of last_access_time only matters whether it is 300 s ago, and no        *)
(* request takes that long; of last_sync_time, how many flushes ago it is. *)
(* That a run with cores is not dropped only makes dropping rarer.         *)
(***************************************************************************)
EXTENDS Integers

CONSTANTS
    Run,          \* ids of runs
    Obj,          \* identities of run objects in memory
    Handler,      \* threads that serve requests, or scheduled jobs in their own
    Sched,        \* the scheduler thread
    Main,         \* the main thread
    PrioWeight,   \* flushes that one level of priority is worth (60 in the code)
    MaxAge,       \* bound of the model: ages beyond it are not distinguished
    MaxVersion,   \* bound of the model: changes to a run
    Endings,      \* how a handler may end after a change
    Failures      \* threads whose writes to the database may fail

ASSUME ThreadAssumption == /\ Sched \notin Handler /\ Main \notin Handler
                           /\ Sched # Main
ASSUME NumberAssumption == /\ PrioWeight \in Nat /\ MaxAge \in Nat /\ MaxVersion \in Nat
ASSUME EndingAssumption == /\ Endings \subseteq {"buffer", "save", "forget"}
                           /\ Failures \subseteq Handler \cup {Sched, Main}

VARIABLES
    db,       \* [Run -> Nat]: the version in the database, 0 if there is none
    latest,   \* [Run -> Nat]: changes made to the run (history)
    heap,     \* [Obj -> Nat]: the version of each object
    cache,    \* self.run_cache: [Run -> entry]
    pc,       \* [Thread -> where the thread is]
    todo,     \* flush_list of flush_all
    phase,    \* "up", "shutdown" (_shutdown is set), "flushing", "down"
    adrift    \* runs with changes that nobody said to save, or whose write failed (history)

vars == <<db, latest, heap, cache, pc, todo, phase, adrift>>

Thread == Handler \cup {Sched, Main}

Idle == [at |-> "idle"]
At(step, r, o) == [at |-> step, run |-> r, obj |-> o]

NoEntry == [obj |-> "none"]
Entry == [obj : Obj, changed : BOOLEAN, priority : 0 .. 2, age : 0 .. MaxAge, idle : BOOLEAN]

Cached(r) == cache[r] # NoEntry
Changed == {r \in Run : Cached(r) /\ cache[r].changed}

\* The threads that work on run r, and those that hold its lock.
WorkingOn(r) == {t \in Thread : pc[t] # Idle /\ pc[t].run = r}
Holding(r) == {t \in WorkingOn(r) : pc[t].at = "write"}

Referenced == {cache[r].obj : r \in {q \in Run : Cached(q)}}
              \cup {pc[t].obj : t \in {s \in Thread : pc[s] # Idle}}

----------------------------------------------------------------------------
\* get_run() and buffer(): critical sections of run_cache_lock.

Fresh(o) == [obj |-> o, changed |-> FALSE, priority |-> 0, age |-> 0, idle |-> FALSE]

GetRun(h, r) ==
    /\ phase = "up" /\ pc[h] = Idle
    /\ \/ /\ Cached(r)
          /\ cache' = [cache EXCEPT ![r].idle = FALSE]
          /\ pc' = [pc EXCEPT ![h] = At("got", r, cache[r].obj)]
          /\ UNCHANGED heap
       \/ /\ ~Cached(r) /\ db[r] > 0
          /\ \E o \in Obj \ Referenced :
               /\ heap' = [heap EXCEPT ![o] = db[r]]
               /\ cache' = [cache EXCEPT ![r] = Fresh(o)]
               /\ pc' = [pc EXCEPT ![h] = At("got", r, o)]
    /\ UNCHANGED <<db, latest, todo, phase, adrift>>

\* The handler only reads the run.
Done(h) ==
    /\ pc[h].at = "got"
    /\ pc' = [pc EXCEPT ![h] = Idle]
    /\ UNCHANGED <<db, latest, heap, cache, todo, phase, adrift>>

\* The object is changed in place (under the lock of the run, but not always).
Change(h) ==
    /\ pc[h].at = "got"
    /\ latest[pc[h].run] < MaxVersion
    /\ heap' = [heap EXCEPT ![pc[h].obj] = @ + 1]
    /\ latest' = [latest EXCEPT ![pc[h].run] = @ + 1]
    /\ pc' = [pc EXCEPT ![h].at = "changed"]
    /\ UNCHANGED <<db, cache, todo, phase, adrift>>

\* The periodic jobs buffer a run whether it changed or not (update_itp).
Touch(h) ==
    /\ pc[h].at = "got"
    /\ pc' = [pc EXCEPT ![h].at = "changed"]
    /\ UNCHANGED <<db, latest, heap, cache, todo, phase, adrift>>

\* Mutants: the priorities add up; a saved run is not marked.
MutAddPriority(entry, o, priority) ==
    [obj |-> o, changed |-> TRUE, idle |-> FALSE,
     priority |-> IF entry = NoEntry THEN priority ELSE priority + entry.priority,
     age |-> IF entry = NoEntry THEN 0 ELSE entry.age]
MutUnmarked(entry, o, priority) ==
    [obj |-> o, changed |-> entry # NoEntry /\ entry.changed, idle |-> FALSE,
     priority |-> priority,
     age |-> IF entry = NoEntry THEN 0 ELSE entry.age]

\* The entry that buffer() makes of the present one.
Buffered(entry, o, priority) ==
    [obj |-> o, changed |-> TRUE, idle |-> FALSE,
     priority |-> IF entry = NoEntry \/ entry.priority < priority
                  THEN priority ELSE entry.priority,
     age |-> IF entry = NoEntry THEN 0 ELSE entry.age]

Buffer(h) ==
    /\ pc[h].at = "changed" /\ "buffer" \in Endings
    /\ \E priority \in 0 .. 2 :
         cache' = [cache EXCEPT ![pc[h].run] = Buffered(@, pc[h].obj, priority)]
    /\ pc' = [pc EXCEPT ![h] = Idle]
    /\ adrift' = adrift \ {pc[h].run}
    /\ UNCHANGED <<db, latest, heap, todo, phase>>

\* Prio.SAVE_NOW: the entry is not marked, since the write follows.
BufferNow(h) ==
    /\ pc[h].at = "changed" /\ "save" \in Endings
    /\ cache' = [cache EXCEPT ![pc[h].run] = Fresh(pc[h].obj)]
    /\ pc' = [pc EXCEPT ![h].at = "save"]
    /\ UNCHANGED <<db, latest, heap, todo, phase, adrift>>

\* tests_modify() ends without buffer() if the run is decided.
Forget(h) ==
    /\ pc[h].at = "changed" /\ "forget" \in Endings
    /\ pc' = [pc EXCEPT ![h] = Idle]
    /\ adrift' = adrift \cup ({pc[h].run} \ Changed)
    /\ UNCHANGED <<db, latest, heap, cache, todo, phase>>

\* new_run(): a new object, saved at once.
NewRun(h, r) ==
    /\ phase = "up" /\ pc[h] = Idle
    /\ latest[r] = 0
    /\ \E o \in Obj \ Referenced :
         /\ heap' = [heap EXCEPT ![o] = 1]
         /\ cache' = [cache EXCEPT ![r] = Fresh(o)]
         /\ pc' = [pc EXCEPT ![h] = At("save", r, o)]
    /\ latest' = [latest EXCEPT ![r] = 1]
    /\ UNCHANGED <<db, todo, phase, adrift>>

----------------------------------------------------------------------------
\* with active_run_lock(run_id): replace_one(), by any thread.

\* Mutant: without the lock.
MutEncode(t) ==
    /\ pc[t].at = "save"
    /\ pc' = [pc EXCEPT ![t] = [at |-> "write", run |-> @.run, obj |-> @.obj,
                                version |-> heap[@.obj]]]
    /\ adrift' = adrift \ {pc[t].run}
    /\ UNCHANGED <<db, latest, heap, cache, todo, phase>>

Encode(t) ==
    /\ pc[t].at = "save"
    /\ Holding(pc[t].run) = {}
    /\ pc' = [pc EXCEPT ![t] = [at |-> "write", run |-> @.run, obj |-> @.obj,
                                version |-> heap[@.obj]]]
    /\ adrift' = adrift \ {pc[t].run}
    /\ UNCHANGED <<db, latest, heap, cache, todo, phase>>

Write(t) ==
    /\ pc[t].at = "write"
    /\ db' = [db EXCEPT ![pc[t].run] = pc[t].version]
    /\ pc' = [pc EXCEPT ![t] = Idle]
    /\ UNCHANGED <<latest, heap, cache, todo, phase, adrift>>

\* The database is not reachable: the exception ends the request, or the job.  (A
\* user whose new run was not saved sees an error and submits it again.)
WriteFails(t) ==
    /\ t \in Failures
    /\ pc[t].at = "write" /\ db[pc[t].run] > 0
    /\ pc' = [pc EXCEPT ![t] = Idle]
    /\ adrift' = adrift \cup {pc[t].run}
    /\ UNCHANGED <<db, latest, heap, cache, todo, phase>>

----------------------------------------------------------------------------
\* The scheduler thread: one job at a time.

\* Mutant: the time since the last save does not matter.
MutUrgency(entry) == PrioWeight * entry.priority

Urgency(entry) == entry.age + PrioWeight * entry.priority

Older(entry) == IF entry = NoEntry \/ entry.age = MaxAge THEN entry
                ELSE [entry EXCEPT !.age = @ + 1]

\* The entry is marked as saved before it is.
Synced(entry) == [entry EXCEPT !.changed = FALSE, !.priority = 0, !.age = 0]

\* flush_buffers(): the most urgent changed run is marked as saved, then written.
FlushBuffers ==
    /\ phase \in {"up", "shutdown"} /\ pc[Sched] = Idle
    /\ \E r \in Run :
         /\ Cached(r) /\ cache[r].changed
         /\ \A q \in Run : Cached(q) /\ cache[q].changed => Urgency(cache[q]) <= Urgency(cache[r])
         /\ cache' = [q \in Run |->
               IF q = r THEN Synced(cache[r]) ELSE Older(cache[q])]
         /\ pc' = [pc EXCEPT ![Sched] = At("save", r, cache[r].obj)]
    /\ UNCHANGED <<db, latest, heap, todo, phase, adrift>>

\* More than 300 s have passed since the last access.
GrowIdle(r) ==
    /\ Cached(r) /\ ~cache[r].idle
    /\ WorkingOn(r) \cap Handler = {}
    /\ cache' = [cache EXCEPT ![r].idle = TRUE]
    /\ UNCHANGED <<db, latest, heap, pc, todo, phase, adrift>>

\* Mutants: dropped while it is used; dropped before it is saved.
MutDropUsed(entry) == ~entry.changed
MutDropChanged(entry) == entry.idle

\* clean_cache(), for one entry.  An object that no thread holds is gone, and with it
\* the changes that nobody said to save.
MayDrop(entry) == ~entry.changed /\ entry.idle

CleanCache(r) ==
    /\ phase \in {"up", "shutdown"} /\ pc[Sched] = Idle
    /\ Cached(r) /\ MayDrop(cache[r])
    /\ cache' = [cache EXCEPT ![r] = NoEntry]
    /\ heap' = [heap EXCEPT ![cache[r].obj] = IF WorkingOn(r) = {} THEN 0 ELSE @]
    /\ latest' = [latest EXCEPT ![r] = IF r \in adrift THEN db[r] ELSE @]
    /\ adrift' = adrift \ {r}
    /\ UNCHANGED <<db, pc, todo, phase>>

----------------------------------------------------------------------------
\* The end of the server.

\* exit_run(): new requests are refused.
Shutdown ==
    /\ phase = "up"
    /\ phase' = "shutdown"
    /\ UNCHANGED <<db, latest, heap, cache, pc, todo, adrift>>

\* The pending requests have ended (within the delay of exit_run), the scheduler
\* has been joined: flush_all() marks all runs as saved, ...
FlushAll ==
    /\ phase = "shutdown"
    /\ \A t \in Thread : pc[t] = Idle
    /\ phase' = "flushing"
    /\ todo' = Changed
    /\ cache' = [r \in Run |-> IF r \in Changed THEN Synced(cache[r]) ELSE cache[r]]
    /\ UNCHANGED <<db, latest, heap, pc, adrift>>

\* ... and writes one after the other.
FlushNext ==
    /\ phase = "flushing" /\ pc[Main] = Idle
    /\ \E r \in todo : /\ pc' = [pc EXCEPT ![Main] = At("save", r, cache[r].obj)]
                       /\ todo' = todo \ {r}
    /\ UNCHANGED <<db, latest, heap, cache, phase, adrift>>

\* What is left when the process is gone.
Gone ==
    /\ phase' = "down"
    /\ heap' = [o \in Obj |-> 0]
    /\ cache' = [r \in Run |-> NoEntry]
    /\ pc' = [t \in Thread |-> Idle]
    /\ todo' = {}
    /\ adrift' = {}

Quit ==
    /\ phase = "flushing" /\ pc[Main] = Idle /\ todo = {}
    /\ Gone
    /\ latest' = [r \in Run |-> IF r \in adrift THEN db[r] ELSE latest[r]]
    /\ UNCHANGED db

Crash ==
    /\ phase # "down"
    /\ Gone
    /\ latest' = db
    /\ UNCHANGED db

Start ==
    /\ phase = "down"
    /\ phase' = "up"
    /\ UNCHANGED <<db, latest, heap, cache, pc, todo, adrift>>

----------------------------------------------------------------------------
Init ==
    /\ db = [r \in Run |-> 0]
    /\ latest = [r \in Run |-> 0]
    /\ heap = [o \in Obj |-> 0]
    /\ cache = [r \in Run |-> NoEntry]
    /\ pc = [t \in Thread |-> Idle]
    /\ todo = {}
    /\ phase = "up"
    /\ adrift = {}

Continue(h) == Done(h) \/ Change(h) \/ Touch(h) \/ Buffer(h) \/ BufferNow(h) \/ Forget(h)
Save(t) == Encode(t) \/ Write(t) \/ WriteFails(t)

Next ==
    \/ \E h \in Handler, r \in Run : GetRun(h, r) \/ NewRun(h, r)
    \/ \E h \in Handler : Continue(h)
    \/ \E t \in Thread : Save(t)
    \/ FlushBuffers
    \/ \E r \in Run : GrowIdle(r) \/ CleanCache(r)
    \/ Shutdown \/ FlushAll \/ FlushNext \/ Quit \/ Crash \/ Start

Spec == Init /\ [][Next]_vars

\* Requests go on, the scheduler thread runs its jobs, and exit_run() ends; whoever
\* waits for the lock of a run gets it at last, if it is given back ever again.
\* Nothing makes requests come, or the server crash or quit.
Fairness == /\ \A h \in Handler : WF_vars(Continue(h))
            /\ \A t \in Thread : SF_vars(Save(t))
            /\ WF_vars(FlushBuffers) /\ WF_vars(FlushAll)
            /\ WF_vars(FlushNext) /\ WF_vars(Quit)

FairSpec == Spec /\ Fairness

----------------------------------------------------------------------------
\* Properties

TypeOK ==
    /\ db \in [Run -> Nat] /\ latest \in [Run -> Nat] /\ heap \in [Obj -> Nat]
    /\ cache \in [Run -> Entry \cup {NoEntry}]
    /\ pc \in [Thread -> {Idle} \cup [at : {"got", "changed", "save"}, run : Run, obj : Obj]
                    \cup [at : {"write"}, run : Run, obj : Obj, version : Nat]]
    /\ todo \subseteq Run /\ adrift \subseteq Run
    /\ phase \in {"up", "shutdown", "flushing", "down"}

\* There is one copy of a run in memory: every thread that works on it has the
\* object that the cache has, although runs are dropped and loaded again without
\* asking who uses them (get_run, clean_cache).
OneCopy ==
    /\ \A r \in Run : \A t \in WorkingOn(r) : Cached(r) /\ cache[r].obj = pc[t].obj
    /\ \A q, r \in Run : Cached(q) /\ Cached(r) /\ cache[q].obj = cache[r].obj => q = r

\* Whoever gets a run gets all changes made to it: from the cache, or else from
\* the database (no update is lost, get_run).  Changes count as undone when the
\* cache drops a run that is adrift, or the server ends.
LatestRead ==
    \A r \in Run : latest[r] = IF Cached(r) THEN heap[cache[r].obj] ELSE db[r]

\* "is_changed: indicates if the run has changed since last_sync_time"
\* (cache_schema).  A change that is not in the database is marked, or a thread
\* is about to mark or to write it: nothing else would ever save it.  There are two
\* ways to lose one: tests_modify() changes a run without buffer(), and a write that
\* raises has taken the mark away before; the next buffer() or write heals both.
AboutToSave(r) ==
    \/ \E t \in WorkingOn(r) : \/ pc[t].at \in {"changed", "save"}
                               \/ pc[t].at = "write" /\ pc[t].version = latest[r]
    \/ r \in todo

ChangesMarked ==
    \A r \in Run \ adrift : db[r] # latest[r] => r \in Changed \/ AboutToSave(r)

\* The cache implements the store: what is saved is never older than what was
\* saved before, although writes of several threads overlap; a crash loses only
\* what was not saved; while the server runs, and when it quits, no change is lost
\* but of a run that is adrift.
Store == INSTANCE RunStore WITH saved <- db, up <- phase # "down"
ImplementsStore == Store!Spec

\* What is saved is never replaced by an older version, whatever handlers do and
\* whether writes fail or not (active_run_lock around replace_one).
NeverOlder == [][\A r \in Run : db[r] <= db'[r]]_db

\* Every change is saved in the end, "even if there are always cache entries
\* with priority 1" (flush_buffers), unless the server crashes before, or the run
\* goes adrift.
EverySaved ==
    \A r \in Run, v \in 1 .. MaxVersion :
        (latest[r] >= v) ~> (db[r] >= v \/ latest[r] < v \/ r \in adrift)

----------------------------------------------------------------------------
\* What the safety properties rest on: the inductive invariant.

\* A run that looks unused is not worked on by a handler.
IdleUnused == \A r \in Run : Cached(r) /\ cache[r].idle => WorkingOn(r) \cap Handler = {}

\* What the end of the server relies on.
PhasesOk ==
    /\ phase # "flushing" => pc[Main] = Idle /\ todo = {}
    /\ phase = "flushing" => /\ \A t \in Thread \ {Main} : pc[t] = Idle
                             /\ Changed = {}
                             /\ \A r \in todo : Cached(r)
    /\ phase = "down" => /\ \A t \in Thread : pc[t] = Idle
                         /\ \A r \in Run : ~Cached(r)

\* The lock of a run.
OneWriter == \A s, t \in Thread : /\ pc[s].at = "write" /\ pc[t].at = "write"
                                  /\ pc[s].run = pc[t].run
                                  => s = t

\* Whatever is written is not older than what is in the database.
VersionsOk ==
    /\ \A r \in Run : db[r] <= latest[r]
    /\ \A r \in Run : Cached(r) => /\ 0 < heap[cache[r].obj]
                                   /\ db[r] <= heap[cache[r].obj]
                                   /\ heap[cache[r].obj] <= latest[r]
    /\ \A t \in Thread : pc[t].at = "write" => /\ 0 < pc[t].version
                                               /\ db[pc[t].run] <= pc[t].version
                                               /\ pc[t].version <= heap[pc[t].obj]

\* In every reachable state, whatever handlers do.
Sound == TypeOK /\ OneCopy /\ IdleUnused /\ PhasesOk /\ OneWriter /\ VersionsOk
=============================================================================
