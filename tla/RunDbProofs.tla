----------------------------- MODULE RunDbProofs -----------------------------
(***************************************************************************)
(* The safety properties of RunDb hold for every number of runs, tasks,    *)
(* workers, users and games.                                               *)
(*                                                                         *)
(* The proof.  A step of a handler either adds a task (AppendTask) or a    *)
(* run (NewRun), or it applies operations to one run.  In the latter case  *)
(* it is a Progress step: a lemma per way of storing the result derives    *)
(* this from the lemmas of RunDbOpProofs, and ProgressKeeps derives from   *)
(* it that the invariant is preserved.  Flags and results need a closer    *)
(* look at the steps of a purge: all others are Calm.  At last, each step  *)
(* is shown to be one of the ledgers of TaskLedger.                        *)
(***************************************************************************)
EXTENDS RunDbInvariant, RunDbOpProofs, TLAPS

\* The tasks of all runs after a step that neither adds a run nor a task.
Progress ==
    /\ runs' \in [Run -> RunObject]
    /\ conns' \in [Addr -> Int]
    /\ unfinished' \subseteq submitted
    /\ \A r \in Run :
         /\ Ids(runs'[r]) = Ids(runs[r])
         /\ \A t \in Ids(runs[r]) : TaskStep(runs[r].tasks[t], runs'[r].tasks[t])
         /\ runs'[r].total = runs[r].total
         /\ Active(runs'[r]) \subseteq Active(runs[r])
    /\ \A a \in Addr : conns'[a] <= conns[a]
    /\ ConnectionsMatch => ConnectionsMatch'
    /\ AggregatesMatch => AggregatesMatch'
    /\ FinishedIsQuiet => FinishedIsQuiet'
    /\ BadTasksOnce => BadTasksOnce'
    /\ \A r \in submitted : runs[r].finished \/ r \in unfinished
                                => runs'[r].finished \/ r \in unfinished'

(* The view of a run has its type. *)
LEMMA ViewTyped ==
  ASSUME TypeOK, NEW r \in Run
  PROVE  View(r) \in ViewType
BY DEF TypeOK, View, ViewType

(* The number of active tasks of an address in a run is a natural number. *)
LEMMA ActiveAtFinite ==
  ASSUME NEW run \in RunObject, NEW a
  PROVE  IsFiniteSet(ActiveAt(a, run)) /\ Cardinality(ActiveAt(a, run)) \in Nat
<1>1. IsFiniteSet(ActiveAt(a, run))
  BY DataType, FS_Subset DEF ActiveAt
<1> QED
  BY <1>1, FS_CardinalityType

(* An operation never gives an address another active task. *)
LEMMA ActiveAtShrinks ==
  ASSUME NEW v \in ViewType, NEW w, OpStep(v, w), NEW a
  PROVE  ActiveAt(a, w.run) \subseteq ActiveAt(a, v.run)
BY DEF OpStep, ActiveAt, TaskStep, SameTask, Active

(* Storing the result of an operation on a run is a Progress step. *)
LEMMA StoreProgress ==
  ASSUME TypeOK, NEW r \in Run, NEW w, OpStep(View(r), w), Store(r, w),
         w.listed => r \in submitted
  PROVE  Progress
<1> DEFINE v == View(r)
<1>1. v \in ViewType /\ w \in ViewType
  BY ViewTyped DEF OpStep
<1>2. v.run = runs[r] /\ v.conns = conns /\ v.listed = (r \in unfinished)
  BY DEF View
<1>3. w.run \in RunObject /\ w.conns \in [Addr -> Int] /\ w.listed \in BOOLEAN
  BY <1>1 DEF ViewType
<1>4. /\ runs' = [runs EXCEPT ![r] = w.run]
      /\ conns' = w.conns
      /\ unfinished' = IF w.listed THEN unfinished \cup {r} ELSE unfinished \ {r}
  BY DEF Store
<1>5. runs \in [Run -> RunObject] /\ conns \in [Addr -> Int] /\ unfinished \subseteq submitted
  BY DEF TypeOK
<1>6. runs' \in [Run -> RunObject] /\ conns' \in [Addr -> Int]
  BY <1>3, <1>4, <1>5
<1>7. unfinished' \subseteq submitted
  BY <1>4, <1>5
<1>8. runs'[r] = w.run /\ \A s \in Run \ {r} : runs'[s] = runs[s]
  BY <1>4, <1>5
<1> HIDE DEF v
<1>9. OpStep(v, w)
  BY DEF v
<1>10. ASSUME NEW s \in Run
       PROVE  /\ Ids(runs'[s]) = Ids(runs[s])
              /\ \A t \in Ids(runs[s]) : TaskStep(runs[s].tasks[t], runs'[s].tasks[t])
              /\ runs'[s].total = runs[s].total
              /\ Active(runs'[s]) \subseteq Active(runs[s])
  <2>1. CASE s = r
    BY <1>2, <1>8, <1>9, <2>1 DEF OpStep
  <2>2. CASE s # r
    BY <1>8, <2>2 DEF TaskStep, SameTask
  <2> QED
    BY <2>1, <2>2
<1>11. \A a \in Addr :
         conns'[a] = conns[a] - Cardinality(ActiveAt(a, runs[r]))
                              + Cardinality(ActiveAt(a, runs'[r]))
  BY <1>2, <1>4, <1>8, <1>9 DEF OpStep
<1>12. \A a \in Addr : conns'[a] <= conns[a]
  <2>1. TAKE a \in Addr
  <2>2. ActiveAt(a, runs'[r]) \subseteq ActiveAt(a, runs[r])
    BY <1>1, <1>2, <1>8, <1>9, ActiveAtShrinks
  <2>3. /\ IsFiniteSet(ActiveAt(a, runs[r]))
        /\ Cardinality(ActiveAt(a, runs[r])) \in Nat
        /\ Cardinality(ActiveAt(a, runs'[r])) \in Nat
    BY <1>5, <1>6, ActiveAtFinite
  <2>4. Cardinality(ActiveAt(a, runs'[r])) <= Cardinality(ActiveAt(a, runs[r]))
    BY <2>2, <2>3, FS_Subset
  <2>5. conns[a] \in Int
    BY <1>5
  <2> QED
    BY <1>11, <2>3, <2>4, <2>5
<1>13. ConnectionsMatch => ConnectionsMatch'
  <2>1. SUFFICES ASSUME ConnectionsMatch, NEW a \in Addr
                 PROVE  conns'[a] = SumOver([s \in Run |-> Cardinality(ActiveAt(a, runs'[s]))], Run)
    BY DEF ConnectionsMatch
  <2> DEFINE f == [s \in Run |-> Cardinality(ActiveAt(a, runs[s]))]
             g == [s \in Run |-> Cardinality(ActiveAt(a, runs'[s]))]
  <2>2. NatValued(f, Run) /\ NatValued(g, Run)
    BY <1>5, <1>6, ActiveAtFinite DEF NatValued
  <2>3. \A s \in Run \ {r} : f[s] = g[s]
    BY <1>8
  <2>4. f[r] = Cardinality(ActiveAt(a, runs[r])) /\ g[r] = Cardinality(ActiveAt(a, runs'[r]))
    OBVIOUS
  <2>5. conns[a] = SumOver(f, Run)
    BY <2>1 DEF ConnectionsMatch
  <2> HIDE DEF f, g
  <2>6. SumOver(g, Run) = SumOver(f, Run) - f[r] + g[r]
    BY <2>2, <2>3, RunAssumption, SumChangeOne
  <2>7. conns'[a] = SumOver(g, Run)
    BY <1>11, <2>4, <2>5, <2>6
  <2> QED
    BY <2>7 DEF g
<1>14. AggregatesMatch => AggregatesMatch'
  BY <1>2, <1>8, <1>9 DEF AggregatesMatch, OpStep
<1>15. FinishedIsQuiet => FinishedIsQuiet'
  BY <1>2, <1>8, <1>9 DEF FinishedIsQuiet, OpStep
<1>16. BadTasksOnce => BadTasksOnce'
  BY <1>2, <1>8, <1>9 DEF BadTasksOnce, OpStep
<1>17. \A s \in submitted : runs[s].finished \/ s \in unfinished
                                => runs'[s].finished \/ s \in unfinished'
  <2>1. TAKE s \in submitted
  <2>2. HAVE runs[s].finished \/ s \in unfinished
  <2>3. CASE s = r
    BY <1>2, <1>4, <1>8, <1>9, <2>2, <2>3 DEF OpStep, ListedOk
  <2>4. CASE s # r
    <3>1. s \in Run
      BY DEF TypeOK
    <3> QED
      BY <1>4, <1>8, <2>2, <2>4, <3>1
  <2> QED
    BY <2>3, <2>4
<1> QED
  BY <1>6, <1>7, <1>10, <1>12, <1>13, <1>14, <1>15, <1>16, <1>17 DEF Progress

(* So is an assignment to the object of a run that is such an operation. *)
LEMMA AssignProgress ==
  ASSUME TypeOK, NEW r \in Run, NEW run, OpStep(View(r), [View(r) EXCEPT !.run = run]),
         runs' = [runs EXCEPT ![r] = run], conns' = conns, unfinished' = unfinished
  PROVE  Progress
<1> DEFINE w == [View(r) EXCEPT !.run = run]
<1>1. w.run = run /\ w.conns = conns /\ w.listed = (r \in unfinished)
  BY DEF View
<1>2. unfinished \subseteq submitted
  BY DEF TypeOK
<1>3. Store(r, w)
  <2> HIDE DEF w
  <2>1. unfinished' = IF r \in unfinished THEN unfinished \cup {r} ELSE unfinished \ {r}
    OBVIOUS
  <2> QED
    BY <1>1, <2>1 DEF Store
<1>4. OpStep(View(r), w)
  OBVIOUS
<1> HIDE DEF w
<1> QED
  BY <1>1, <1>2, <1>3, <1>4, StoreProgress

(* So is a step that leaves the runs alone. *)
LEMMA NoProgress ==
  ASSUME TypeOK, UNCHANGED <<runs, conns, unfinished>>
  PROVE  Progress
<1>1. conns \in [Addr -> Int] /\ runs \in [Run -> RunObject] /\ unfinished \subseteq submitted
  BY DEF TypeOK
<1>2. /\ ConnectionsMatch => ConnectionsMatch'
      /\ AggregatesMatch => AggregatesMatch'
      /\ FinishedIsQuiet => FinishedIsQuiet'
      /\ BadTasksOnce => BadTasksOnce'
  BY DEF ConnectionsMatch, AggregatesMatch, FinishedIsQuiet, BadTasksOnce
<1>3. \A a \in Addr : conns'[a] <= conns[a]
  BY <1>1
<1> QED
  BY <1>1, <1>2, <1>3 DEF Progress, TaskStep, SameTask

----------------------------------------------------------------------------
(* What Progress preserves of the invariant. *)

(* The accounts, the openings and the machine limit. *)
LEMMA ProgressRuns ==
  ASSUME Inductive, Progress
  PROVE  /\ AggregatesMatch' /\ FinishedIsQuiet' /\ BadTasksOnce'
         /\ ConnectionsMatch' /\ ConnectionLimit' /\ AllStartsOk'
         /\ \A r \in Run \ submitted : Ids(runs'[r]) = {}
<1>1. AggregatesMatch' /\ FinishedIsQuiet' /\ BadTasksOnce' /\ ConnectionsMatch'
  BY DEF Inductive, Progress
<1>2. ConnectionLimit'
  <2>1. ConnLimit \in Nat /\ conns \in [Addr -> Int] /\ conns' \in [Addr -> Int]
    BY BoundAssumption DEF Inductive, TypeOK, Progress
  <2>2. \A a \in Addr : conns'[a] <= conns[a] /\ conns[a] <= ConnLimit
    BY DEF Inductive, ConnectionLimit, Progress
  <2> QED
    BY <2>1, <2>2 DEF ConnectionLimit
<1>3. AllStartsOk'
  <2>1. SUFFICES ASSUME NEW r \in Run PROVE StartsOk(runs'[r])
    BY DEF AllStartsOk, StartsOk, OpeningsOk, Ids
  <2>2. StartsOk(runs[r])
    BY DEF Inductive, AllStartsOk
  <2>3. /\ Ids(runs'[r]) = Ids(runs[r]) /\ runs'[r].total = runs[r].total
        /\ \A t \in Ids(runs[r]) : SameTask(runs[r].tasks[t], runs'[r].tasks[t])
    BY DEF Progress, TaskStep
  <2> QED
    BY <2>2, <2>3 DEF StartsOk, OpeningsOk, SameTask
<1>4. \A r \in Run \ submitted : Ids(runs'[r]) = {}
  BY DEF Inductive, UsersOk, Progress
<1> QED
  BY <1>1, <1>2, <1>3, <1>4

\* What the steps of threads of users have in common.
UserStep ==
    /\ user' \in [User -> UserState]
    /\ \A u \in User : user'[u] # Idle => user'[u].run \in submitted
    /\ \A u \in User : user'[u].pc = "mark" => user'[u].todo \subseteq Ids(runs[user'[u].run])
    /\ \A u \in User : user[u].pc = "register" => user'[u] = user[u]

(* Runs that are not finished stay listed, unless a thread registers one. *)
LEMMA ProgressUsers ==
  ASSUME Inductive, Progress, submitted' = submitted, UserStep
  PROVE  UnfinishedListed' /\ UsersOk'
<1>1. UnfinishedListed'
  <2>1. SUFFICES ASSUME NEW r \in submitted, ~runs'[r].finished, r \notin unfinished'
                 PROVE  \E u \in User : user'[u] = [pc |-> "register", run |-> r]
    BY DEF UnfinishedListed
  <2>2. ~runs[r].finished /\ r \notin unfinished
    BY <2>1 DEF Progress
  <2>3. PICK u \in User : user[u] = [pc |-> "register", run |-> r]
    BY <2>2 DEF Inductive, UnfinishedListed
  <2>4. user'[u] = user[u]
    BY <2>3 DEF UserStep
  <2> QED
    BY <2>3, <2>4
<1>2. \A u \in User : user'[u].pc = "mark" => user'[u].todo \subseteq Ids(runs'[user'[u].run])
  <2>1. SUFFICES ASSUME NEW u \in User, user'[u].pc = "mark"
                 PROVE  user'[u].todo \subseteq Ids(runs'[user'[u].run])
    OBVIOUS
  <2>2. user'[u].run \in Run
    <3>1. user'[u] # Idle
      BY <2>1 DEF Idle
    <3> QED
      BY <3>1 DEF UserStep, Inductive, TypeOK
  <2> QED
    BY <2>1, <2>2 DEF UserStep, Progress
<1> QED
  BY <1>1, <1>2, ProgressRuns DEF UsersOk, UserStep

(* The locks of workers stay as they are. *)
LEMMA ProgressWorkers ==
  ASSUME Inductive, Progress, submitted \subseteq submitted', UNCHANGED <<wtt, req>>
  PROVE  OneTaskPerName' /\ LockOk'
<1>1. OneTaskPerName'
  <2>1. SUFFICES ASSUME NEW r \in Run, NEW t \in Active(runs'[r])
                 PROVE  LET c == runs'[r].tasks[t].client
                        IN  \/ wtt[NameOf[c]] = <<r, t>>
                            \/ req[c] = [pc |-> "insert", run |-> r, task |-> t]
    BY DEF OneTaskPerName
  <2>2. t \in Active(runs[r]) /\ runs'[r].tasks[t].client = runs[r].tasks[t].client
    BY DEF Progress, TaskStep, SameTask, Active
  <2> QED
    BY <2>2 DEF Inductive, OneTaskPerName
<1>2. \A c \in Client : req[c].pc = "append" => conns'[req[c].addr] < ConnLimit
  <2>1. TAKE c \in Client
  <2>2. HAVE req[c].pc = "append"
  <2>3. req[c].addr \in Addr /\ ConnLimit \in Nat
    BY <2>2, BoundAssumption DEF Inductive, TypeOK, ReqState, Idle
  <2>4. conns[req[c].addr] < ConnLimit
    BY <2>2 DEF Inductive, LockOk
  <2>5. conns'[req[c].addr] <= conns[req[c].addr]
    BY <2>3 DEF Progress
  <2>6. conns[req[c].addr] \in Int /\ conns'[req[c].addr] \in Int
    BY <2>3 DEF Inductive, TypeOK, Progress
  <2> QED
    BY <2>3, <2>4, <2>5, <2>6
<1> QED
  BY <1>1, <1>2 DEF Inductive, LockOk

(* A Progress step of a user, a worker with a task or the scheduler. *)
LEMMA ProgressKeeps ==
  ASSUME Inductive, Progress, UNCHANGED <<submitted, wtt, req>>, UserStep, dead' \subseteq Slot
  PROVE  Inductive'
<1>1. TypeOK'
  BY DEF Inductive, TypeOK, Progress, UserStep
<1> QED
  BY <1>1, ProgressRuns, ProgressUsers, ProgressWorkers DEF Inductive

(* Steps of others leave the threads of users alone. *)
LEMMA UsersWait ==
  ASSUME Inductive, UNCHANGED user
  PROVE  UserStep
BY DEF Inductive, TypeOK, UsersOk, UserStep

----------------------------------------------------------------------------
(* Workers that have a task. *)

(* Deactivating tasks is a Progress step, even if the task is long gone. *)
LEMMA DeactivateProgress ==
  ASSUME TypeOK, NEW r \in Run, NEW T, Store(r, set_inactive_tasks(T, View(r)))
  PROVE  Progress
<1>1. OpStep(View(r), set_inactive_tasks(T, View(r)))
  BY ViewTyped, InactiveTasksStep
<1>2. set_inactive_tasks(T, View(r)).listed = (r \in unfinished)
  <2>1. Deactivated(T \cap Active(View(r).run), View(r), set_inactive_tasks(T, View(r)))
    BY ViewTyped, InactiveTasksFields
  <2>2. set_inactive_tasks(T, View(r)).listed = View(r).listed
    BY <2>1 DEF Deactivated
  <2> QED
    BY <2>2 DEF View
<1> QED
  BY <1>1, <1>2, StoreProgress DEF TypeOK

(* A task that is there belongs to a run that was submitted. *)
LEMMA TaskSubmitted ==
  ASSUME Inductive, NEW r \in Run, NEW t \in Ids(runs[r])
  PROVE  r \in submitted
BY DEF Inductive, UsersOk

(* A report of a worker: update_task(). *)
LEMMA UpdateTaskKeeps ==
  ASSUME Inductive, NEW c \in Client, NEW r \in Run, NEW t \in Ids(runs[r]),
         NEW stats \in Reports, UpdateTask(c, r, t, stats)
  PROVE  Inductive' /\ Progress
<1> DEFINE v == View(r)
           new == Updated(t, stats, v)
<1>1. TypeOK /\ r \in submitted /\ v \in ViewType
  BY TaskSubmitted, ViewTyped DEF Inductive
<1>2. t \in Active(v.run) /\ stats \in Report
  BY ReportAssumption DEF UpdateTask, Active, View, Report
<1>3. ASSUME ReportOk(v.run, v.run.tasks[t], stats)
      PROVE  OpStep(v, new) /\ new \in ViewType
  BY <1>1, <1>2, <1>3, UpdatedStep DEF OpStep, ReportOk
<1>4. ASSUME Store(r, set_inactive_tasks({t}, v))
      PROVE  Progress
  BY <1>1, <1>4, DeactivateProgress
<1>5. ASSUME ReportOk(v.run, v.run.tasks[t], stats), Store(r, new)
      PROVE  Progress
  BY <1>1, <1>3, <1>5, StoreProgress
<1>6. ASSUME ReportOk(v.run, v.run.tasks[t], stats), NEW stopped \in Stopped(new),
             Store(r, stopped)
      PROVE  Progress
  <2>1. OpStep(v, stopped)
    BY <1>1, <1>3, <1>6, StoppedStep, StepTransitive
  <2> QED
    BY <1>1, <1>6, <2>1, StoreProgress
<1>7. Progress
  BY <1>4, <1>5, <1>6 DEF UpdateTask
<1>8. UNCHANGED <<submitted, wtt, req, user, dead>>
  BY DEF UpdateTask
<1> QED
  BY <1>1, <1>7, <1>8, UsersWait, ProgressKeeps DEF TypeOK

(* A heartbeat: api.py, beat(). *)
LEMMA BeatKeeps ==
  ASSUME Inductive, NEW c \in Client, NEW r \in Run, NEW t \in Ids(runs[r]), Beat(c, r, t)
  PROVE  Inductive' /\ Progress
<1> DEFINE run == [runs[r] EXCEPT !.tasks[t].age = "fresh"]
<1>1. TypeOK /\ View(r) \in ViewType /\ t \in Active(View(r).run)
  BY ViewTyped DEF Inductive, Beat, Active, View
<1>2. OpStep(View(r), [View(r) EXCEPT !.run.tasks[t].age = "fresh"])
  BY <1>1, AgedStep DEF Ages
<1>3. [View(r) EXCEPT !.run.tasks[t].age = "fresh"] = [View(r) EXCEPT !.run = run]
  BY DEF View
<1>4. runs' = [runs EXCEPT ![r] = run] /\ UNCHANGED <<conns, unfinished>>
  BY <1>1 DEF Beat, TypeOK
<1> HIDE DEF run
<1>5. Progress
  BY <1>1, <1>2, <1>3, <1>4, AssignProgress
<1> QED
  BY <1>1, <1>5, UsersWait, ProgressKeeps DEF Beat, TypeOK

(* A failure of a worker: failed_task(). *)
LEMMA FailTaskKeeps ==
  ASSUME Inductive, NEW c \in Client, NEW r \in Run, NEW t \in Ids(runs[r]), FailTask(c, r, t)
  PROVE  Inductive' /\ Progress
<1>1. TypeOK
  BY DEF Inductive
<1>2. Progress
  BY <1>1, DeactivateProgress DEF FailTask
<1> QED
  BY <1>1, <1>2, UsersWait, ProgressKeeps DEF FailTask, TypeOK

(* A worker that finds the run at fault: stop_run(). *)
LEMMA WorkerStopsRunKeeps ==
  ASSUME Inductive, NEW c \in Client, NEW r \in Run, NEW t \in Ids(runs[r]),
         WorkerStopsRun(c, r, t)
  PROVE  Inductive' /\ Progress
<1> DEFINE v == View(r)
           failed == [v EXCEPT !.run.failed = TRUE]
<1>1. TypeOK /\ r \in submitted /\ v \in ViewType
  BY TaskSubmitted, ViewTyped DEF Inductive
<1>2. /\ failed \in ViewType /\ SameBooks(v.run, failed.run) /\ failed.conns = v.conns
      /\ failed.run.finished = v.run.finished /\ failed.listed = v.listed
  BY <1>1 DEF ViewType, RunObject, SameBooks
<1>3. OpStep(v, failed)
  <2>1. (QuietOk(v.run) => QuietOk(failed.run)) /\ (ListedOk(v) => ListedOk(failed))
    BY <1>2, SameBooksFacts DEF QuietOk, ListedOk
  <2> HIDE DEF v, failed
  <2> QED
    BY <1>1, <1>2, <2>1, SameBooksStep
<1>4. PICK stopped \in Stopped(failed) : Store(r, stopped)
  BY DEF WorkerStopsRun
<1>5. OpStep(v, stopped)
  BY <1>1, <1>2, <1>3, <1>4, StoppedStep, StepTransitive
<1>6. Progress
  BY <1>1, <1>4, <1>5, StoreProgress
<1> QED
  BY <1>1, <1>6, UsersWait, ProgressKeeps DEF WorkerStopsRun, TypeOK

----------------------------------------------------------------------------
(* Threads of users. *)

(* A thread of a user goes on to a state in which it works on a run that was  *)
(* submitted.                                                                 *)
LEMMA UserMoves ==
  ASSUME Inductive, NEW u \in User, NEW s \in UserState, user' = [user EXCEPT ![u] = s],
         user[u].pc # "register", s # Idle => s.run \in submitted,
         s.pc = "mark" => s.todo \subseteq Ids(runs[s.run])
  PROVE  UserStep
<1>1. user \in [User -> UserState]
  BY DEF Inductive, TypeOK
<1>2. user'[u] = s /\ \A x \in User \ {u} : user'[x] = user[x]
  BY <1>1
<1> QED
  BY <1>1, <1>2 DEF Inductive, UsersOk, UserStep

(* The states of a thread have their type. *)
LEMMA UserStates ==
  ASSUME NEW r \in Run
  PROVE  /\ Idle \in UserState /\ Idle.pc = "idle"
         /\ \A pc \in {"register", "revive", "activate", "delete", "purge", "judge", "flag"} :
              [pc |-> pc, run |-> r] \in UserState
         /\ \A n \in Int, auto \in BOOLEAN :
              [pc |-> "modify", run |-> r, num_games |-> n, auto |-> auto] \in UserState
         /\ \A B \in SUBSET Nat : [pc |-> "mark", run |-> r, todo |-> B] \in UserState
         /\ \A x \in Stat : [pc |-> "assign", run |-> r, results |-> x] \in UserState
BY DEF UserState, Idle

(* A change of a run that leaves its books alone. *)
LEMMA ObjectProgress ==
  ASSUME TypeOK, NEW r \in Run, NEW run \in RunObject, SameBooks(runs[r], run),
         run.finished = runs[r].finished,
         runs' = [runs EXCEPT ![r] = run], UNCHANGED <<conns, unfinished>>
  PROVE  Progress
<1> DEFINE v == View(r)
           w == [View(r) EXCEPT !.run = run]
<1>1. v \in ViewType
  BY ViewTyped
<1>2. v.run = runs[r] /\ w.run = run /\ w.conns = v.conns /\ w.listed = v.listed
  BY DEF View
<1>3. w \in ViewType
  BY <1>1 DEF ViewType
<1>4. (QuietOk(v.run) => QuietOk(w.run)) /\ (ListedOk(v) => ListedOk(w))
  BY <1>2, SameBooksFacts DEF QuietOk, ListedOk
<1>5. OpStep(v, w)
  <2> HIDE DEF v, w
  <2> QED
    BY <1>1, <1>2, <1>3, <1>4, SameBooksStep
<1> QED
  BY <1>5, AssignProgress

(* approve_run() *)
LEMMA ApproveRunKeeps ==
  ASSUME Inductive, NEW u \in User, NEW r \in Run, ApproveRun(u, r)
  PROVE  Inductive' /\ Progress
<1> DEFINE run == [runs[r] EXCEPT !.approved = TRUE]
<1>1. TypeOK /\ runs[r] \in RunObject
  BY DEF Inductive, TypeOK
<1>2. run \in RunObject /\ SameBooks(runs[r], run) /\ run.finished = runs[r].finished
  BY <1>1 DEF RunObject, SameBooks
<1>3. runs' = [runs EXCEPT ![r] = run]
  BY <1>1 DEF ApproveRun, TypeOK
<1> HIDE DEF run
<1>4. Progress
  BY <1>1, <1>2, <1>3, ObjectProgress DEF ApproveRun
<1> QED
  BY <1>1, <1>4, UsersWait, ProgressKeeps DEF ApproveRun, TypeOK

(* A step of a user's thread that only moves the thread. *)
LEMMA OnlyMoves ==
  ASSUME Inductive, NEW u \in User, NEW s \in UserState, user' = [user EXCEPT ![u] = s],
         user[u].pc # "register", s # Idle => s.run \in submitted,
         s.pc = "mark" => s.todo \subseteq Ids(runs[s.run]),
         UNCHANGED <<runs, submitted, unfinished, wtt, conns, req, dead>>
  PROVE  Inductive' /\ Progress
<1>1. UserStep
  BY UserMoves
<1>2. Progress
  BY NoProgress DEF Inductive
<1> QED
  BY <1>1, <1>2, ProgressKeeps DEF Inductive, TypeOK

(* tests_modify() *)
LEMMA ModifyRunKeeps ==
  ASSUME Inductive, NEW u \in User, NEW r \in Run, ModifyRun(u, r)
  PROVE  Inductive' /\ Progress
<1>1. TypeOK /\ runs[r] \in RunObject /\ r \in submitted /\ user[u].pc # "register"
  BY DEF Inductive, TypeOK, ModifyRun, Idle
<1>2. PICK n \in NumGames, auto \in AutoPurge, keep \in BOOLEAN :
        /\ runs' = [runs EXCEPT ![r].approved = @ /\ keep]
        /\ user' = [user EXCEPT ![u] =
              [pc |-> "modify", run |-> r, num_games |-> n, auto |-> auto]]
  BY DEF ModifyRun
<1> DEFINE run == [runs[r] EXCEPT !.approved = @ /\ keep]
           s == [pc |-> "modify", run |-> r, num_games |-> n, auto |-> auto]
<1>3. run \in RunObject /\ SameBooks(runs[r], run) /\ run.finished = runs[r].finished
  BY <1>1 DEF RunObject, SameBooks
<1>4. runs' = [runs EXCEPT ![r] = run]
  BY <1>1, <1>2 DEF TypeOK
<1> HIDE DEF run
<1>5. Progress
  BY <1>1, <1>3, <1>4, ObjectProgress DEF ModifyRun
<1>6. s \in UserState /\ s.pc # "mark" /\ (s # Idle => s.run \in submitted)
  <2>1. n \in Int /\ auto \in BOOLEAN
    BY UserInputAssumption
  <2> QED
    BY <1>1, <2>1, UserStates
<1>7. user' = [user EXCEPT ![u] = s]
  BY <1>2
<1> HIDE DEF s
<1>8. UserStep
  BY <1>1, <1>6, <1>7, UserMoves
<1> QED
  BY <1>1, <1>5, <1>8, ProgressKeeps DEF ModifyRun, TypeOK

(* tests_modify(), the assignment of the arguments. *)
LEMMA ModifyArgsKeeps ==
  ASSUME Inductive, NEW u \in User, ModifyArgs(u)
  PROVE  Inductive' /\ Progress
<1> DEFINE r == user[u].run
           run == [runs[r] EXCEPT !.num_games = user[u].num_games, !.auto_purge = user[u].auto]
           s == [pc |-> "revive", run |-> r]
<1>1. /\ TypeOK /\ r \in submitted /\ r \in Run /\ runs[r] \in RunObject
      /\ user[u].pc = "modify" /\ user[u].num_games \in Int /\ user[u].auto \in BOOLEAN
  BY DEF Inductive, TypeOK, UsersOk, ModifyArgs, UserState, Idle
<1>2. run \in RunObject /\ SameBooks(runs[r], run) /\ run.finished = runs[r].finished
  BY <1>1 DEF RunObject, SameBooks
<1>3. runs' = [runs EXCEPT ![r] = run]
  BY <1>1 DEF ModifyArgs, TypeOK
<1>4. s \in UserState /\ s.pc # "mark" /\ s.run = r
  BY <1>1, UserStates
<1>5. user' = [user EXCEPT ![u] = s]
  BY <1>1 DEF ModifyArgs, TypeOK
<1> HIDE DEF run, s
<1>6. Progress
  BY <1>1, <1>2, <1>3, ObjectProgress DEF ModifyArgs
<1>7. UserStep
  BY <1>1, <1>4, <1>5, UserMoves
<1> QED
  BY <1>1, <1>6, <1>7, ProgressKeeps DEF ModifyArgs, TypeOK

(* tests_modify(), the decision to reactivate the run. *)
LEMMA ModifyReviveKeeps ==
  ASSUME Inductive, NEW u \in User, ModifyRevive(u)
  PROVE  Inductive' /\ Progress
<1> DEFINE r == user[u].run
           s == IF is_undecided(runs[r]) THEN [pc |-> "activate", run |-> r] ELSE Idle
<1>1. TypeOK /\ r \in submitted /\ r \in Run /\ user[u].pc = "revive"
  BY DEF Inductive, TypeOK, UsersOk, ModifyRevive, Idle
<1>2. user' = [user EXCEPT ![u] = s]
  BY <1>1 DEF ModifyRevive, TypeOK
<1>3. s \in UserState /\ s.pc # "mark" /\ (s # Idle => s.run \in submitted)
  BY <1>1, UserStates
<1> HIDE DEF s
<1> QED
  BY <1>1, <1>2, <1>3, OnlyMoves DEF ModifyRevive

(* set_active_run() after a modification or a purge. *)
LEMMA ActivateRunKeeps ==
  ASSUME Inductive, NEW u \in User, ActivateRun(u)
  PROVE  Inductive' /\ Progress
<1> DEFINE r == user[u].run
<1>1. TypeOK /\ user[u].pc = "activate" /\ r \in submitted /\ r \in Run
  BY DEF Inductive, TypeOK, UsersOk, ActivateRun, Idle
<1>2. OpStep(View(r), set_active_run(View(r)))
  BY <1>1, ViewTyped, ActiveRunStep
<1>3. Progress
  BY <1>1, <1>2, StoreProgress DEF ActivateRun
<1>4. UserStep
  BY <1>1, UserStates, UserMoves DEF ActivateRun
<1> QED
  BY <1>1, <1>3, <1>4, ProgressKeeps DEF ActivateRun, TypeOK

(* A thread that stops a run and goes on. *)
LEMMA StopKeeps ==
  ASSUME Inductive, NEW u \in User, NEW r \in submitted, NEW s \in UserState,
         user[u] = Idle, Store(r, set_inactive_run(View(r))), user' = [user EXCEPT ![u] = s],
         s.pc # "mark", s # Idle => s.run = r, UNCHANGED <<submitted, wtt, req, dead>>
  PROVE  Inductive' /\ Progress
<1>1. TypeOK /\ r \in Run /\ user[u].pc # "register"
  BY DEF Inductive, TypeOK, Idle
<1>2. OpStep(View(r), set_inactive_run(View(r)))
  BY <1>1, ViewTyped, InactiveRunStep
<1>3. Progress
  BY <1>1, <1>2, StoreProgress
<1>4. UserStep
  BY <1>1, UserMoves
<1> QED
  BY <1>1, <1>3, <1>4, ProgressKeeps DEF TypeOK

(* tests_stop() and tests_delete() *)
LEMMA StopRunKeeps ==
  ASSUME Inductive, NEW u \in User, NEW r \in Run, StopRun(u, r) \/ DeleteRun(u, r)
  PROVE  Inductive' /\ Progress
<1> DEFINE s == IF runs[r].auto_purge /\ runs[r].kind # "spsa"
                THEN [pc |-> "purge", run |-> r] ELSE Idle
           d == [pc |-> "delete", run |-> r]
<1>1. s \in UserState /\ s.pc # "mark" /\ (s # Idle => s.run = r)
  BY UserStates
<1>2. d \in UserState /\ d.pc # "mark" /\ (d # Idle => d.run = r)
  BY UserStates
<1>3. CASE StopRun(u, r)
  <2>1. user' = [user EXCEPT ![u] = s]
    BY <1>3 DEF StopRun
  <2> HIDE DEF s
  <2> QED
    BY <1>1, <1>3, <2>1, StopKeeps DEF StopRun
<1>4. CASE DeleteRun(u, r)
  <2>1. user' = [user EXCEPT ![u] = d]
    BY <1>4 DEF DeleteRun
  <2> HIDE DEF d
  <2> QED
    BY <1>2, <1>4, <2>1, StopKeeps DEF DeleteRun
<1> QED
  BY <1>3, <1>4

\* The unlocked assignment of deleted preserves the invariant.
LEMMA MarkDeletedKeeps ==
  ASSUME Inductive, NEW u \in User, MarkDeleted(u)
  PROVE  Inductive' /\ Progress
<1> DEFINE r == user[u].run
           run == [runs[r] EXCEPT !.deleted = TRUE]
<1>1. TypeOK /\ user[u].pc = "delete" /\ r \in submitted /\ r \in Run /\ runs[r] \in RunObject
  BY DEF Inductive, TypeOK, UsersOk, MarkDeleted, Idle
<1>2. run \in RunObject /\ SameBooks(runs[r], run) /\ run.finished = runs[r].finished
  BY <1>1 DEF RunObject, SameBooks
<1>3. runs' = [runs EXCEPT ![r] = run]
  BY <1>1 DEF MarkDeleted, TypeOK
<1> HIDE DEF run
<1>4. Progress
  BY <1>1, <1>2, <1>3, ObjectProgress DEF MarkDeleted
<1>5. UserStep
  BY <1>1, UserStates, UserMoves DEF MarkDeleted
<1> QED
  BY <1>1, <1>4, <1>5, ProgressKeeps DEF MarkDeleted, TypeOK

----------------------------------------------------------------------------
(* A purge, step by step. *)

\* Beginning a purge changes no run.
LEMMA PurgeRunKeeps ==
  ASSUME Inductive, NEW u \in User, NEW r \in Run, PurgeRun(u, r)
  PROVE  Inductive' /\ Progress
BY UserStates, OnlyMoves DEF PurgeRun

\* The search for bad tasks changes no run, and what it finds are tasks of the run.
LEMMA PurgeSearchKeeps ==
  ASSUME Inductive, NEW u \in User, PurgeSearch(u)
  PROVE  Inductive' /\ Progress
<1> DEFINE r == user[u].run
<1>1. r \in submitted /\ r \in Run /\ runs[r] \in RunObject /\ user[u].pc = "purge"
  BY DEF Inductive, TypeOK, UsersOk, PurgeSearch, Idle
<1>2. UNCHANGED <<runs, submitted, unfinished, wtt, conns, req, dead>>
  BY DEF PurgeSearch
<1>3. CASE user' = [user EXCEPT ![u] = Idle]
  BY <1>1, <1>2, <1>3, UserStates, OnlyMoves
<1>4. ASSUME NEW B \in BadSets(runs[r]),
             user' = [user EXCEPT ![u] = [pc |-> "mark", run |-> r, todo |-> B]]
      PROVE  Inductive' /\ Progress
  <2>1. B \subseteq Ids(runs[r]) /\ Ids(runs[r]) \subseteq Nat
    BY <1>1, <1>4, BadSetsType, TasksType
  <2> DEFINE s == [pc |-> "mark", run |-> r, todo |-> B]
  <2>2. s \in UserState /\ s.run = r /\ s.todo = B
    <3>1. B \in SUBSET Nat
      BY <2>1
    <3> QED
      BY <1>1, <3>1, UserStates
  <2>3. user' = [user EXCEPT ![u] = s]
    BY <1>4
  <2> HIDE DEF s
  <2> QED
    BY <1>1, <1>2, <2>1, <2>2, <2>3, OnlyMoves
<1> QED
  BY <1>3, <1>4 DEF PurgeSearch

\* Marking one bad task preserves the invariant, even if another user's purge
\* has marked it in between.
LEMMA PurgeMarkKeeps ==
  ASSUME Inductive, NEW u \in User, PurgeMark(u)
  PROVE  Inductive' /\ Progress
<1> DEFINE r == user[u].run
           todo == user[u].todo
<1> PICK t \in todo : /\ Store(r, set_bad_tasks({t}, View(r)))
                      /\ user' = [user EXCEPT ![u].todo = @ \ {t}]
  BY DEF PurgeMark
<1> DEFINE s == [user[u] EXCEPT !.todo = @ \ {t}]
<1>1. /\ TypeOK /\ user[u].pc = "mark" /\ user[u] \in UserState
      /\ r \in submitted /\ r \in Run /\ runs[r] \in RunObject
      /\ todo \subseteq Ids(runs[r])
  BY DEF Inductive, TypeOK, UsersOk, PurgeMark, Idle
<1>2. user[u] = [pc |-> "mark", run |-> r, todo |-> todo] /\ todo \in SUBSET Nat
  BY <1>1 DEF UserState, Idle
<1>4. s = [pc |-> "mark", run |-> r, todo |-> todo \ {t}]
  BY <1>2
<1>5. s \in UserState /\ s.pc = "mark" /\ s.run = r /\ s.todo = todo \ {t}
  <2>1. todo \ {t} \in SUBSET Nat
    BY <1>2
  <2> QED
    <3> DEFINE rest == todo \ {t}
    <3>1. s = [pc |-> "mark", run |-> r, todo |-> rest] /\ rest \in SUBSET Nat
      BY <1>4, <2>1
    <3> HIDE DEF s, rest
    <3>2. s \in UserState /\ s.pc = "mark" /\ s.run = r /\ s.todo = rest
      BY <1>1, <3>1, UserStates
    <3> QED
      BY <3>2 DEF rest
<1>6. Store(r, set_bad_tasks({t}, View(r))) /\ user' = [user EXCEPT ![u] = s]
  <2>1. user \in [User -> UserState]
    BY <1>1 DEF TypeOK
  <2> QED
    BY <2>1
<1> HIDE DEF s
<1>7. View(r) \in ViewType /\ {t} \subseteq Ids(View(r).run)
  BY <1>1, ViewTyped DEF View
<1>8. OpStep(View(r), set_bad_tasks({t}, View(r)))
  BY <1>7, BadTasksStep
<1>9. Progress
  BY <1>1, <1>6, <1>8, StoreProgress
<1>10. UserStep
  <2>1. s.todo \subseteq Ids(runs[r])
    BY <1>1, <1>5
  <2> QED
    BY <1>1, <1>5, <1>6, <2>1, UserMoves
<1> QED
  BY <1>1, <1>9, <1>10, ProgressKeeps DEF PurgeMark, TypeOK

\* Computing the results changes no run.
LEMMA PurgeComputeKeeps ==
  ASSUME Inductive, NEW u \in User, PurgeCompute(u)
  PROVE  Inductive' /\ Progress
<1> DEFINE r == user[u].run
           results == compute_results(runs[r])
           s == [pc |-> "assign", run |-> r, results |-> results]
<1>1. r \in submitted /\ r \in Run /\ runs[r] \in RunObject /\ user[u].pc = "mark"
  BY DEF Inductive, TypeOK, UsersOk, PurgeCompute, Idle
<1>2. results \in Stat
  BY <1>1, ComputedResultsType
<1>3. user' = [user EXCEPT ![u] = s]
  <2>1. user \in [User -> UserState]
    BY DEF Inductive, TypeOK
  <2> QED
    BY <2>1 DEF PurgeCompute
<1> HIDE DEF results
<1>4. s \in UserState /\ s.pc # "mark" /\ s.run = r
  BY <1>1, <1>2, UserStates
<1> HIDE DEF s
<1> QED
  BY <1>1, <1>3, <1>4, OnlyMoves DEF PurgeCompute

(* purge_run() without the lock: the assignments, and the steps that only look. *)
PurgeWrites(u) == PurgeAssign(u) \/ PurgeReset(u) \/ PurgeState(u) \/ PurgeUpdate(u)
PurgeMoves(u) == PurgeJudge(u) \/ PurgeFlag(u)

(* What such an assignment makes of the run, and of the thread. *)
PurgeWriting(u, run, s) ==
    LET r == user[u].run
    IN  /\ runs' = [runs EXCEPT ![r] = run] /\ user' = [user EXCEPT ![u] = s]
        /\ SameBooks(runs[r], run) /\ run.finished = runs[r].finished
        /\ run.num_games = runs[r].num_games /\ run.kind = runs[r].kind
        /\ run.tasks = runs[r].tasks
        /\ s # Idle => s.run = r
        /\ \/ user[u].pc = "assign" /\ s.pc \in {"reset", "judge"} /\ run.results = user[u].results
           \/ /\ user[u].pc \in {"reset", "state"} /\ s.pc \in {"state", "judge"}
              /\ run.results = runs[r].results
           \/ user[u].pc = "update" /\ s = Idle /\ run = [runs[r] EXCEPT !.flag = user[u].flag]

LEMMA PurgeWritesSo ==
  ASSUME Inductive, NEW u \in User, PurgeWrites(u)
  PROVE  \E run \in RunObject, s \in UserState : PurgeWriting(u, run, s)
<1> DEFINE r == user[u].run
<1>0. user[u].pc \in {"assign", "reset", "state", "update"}
  BY DEF PurgeWrites, PurgeAssign, PurgeReset, PurgeState, PurgeUpdate
<1>1. /\ TypeOK /\ r \in Run /\ runs[r] \in RunObject /\ user[u] \in UserState
      /\ user \in [User -> UserState] /\ runs \in [Run -> RunObject]
  <2>1. user[u] # Idle
    BY <1>0 DEF Idle
  <2>2. TypeOK /\ r \in submitted
    BY <2>1 DEF Inductive, UsersOk
  <2> QED
    BY <2>2 DEF TypeOK
<1>2. CASE PurgeAssign(u)
  <2> DEFINE run == [runs[r] EXCEPT !.results = user[u].results]
             s == IF runs[r].kind = "sprt" THEN [user[u] EXCEPT !.pc = "reset"]
                  ELSE [pc |-> "judge", run |-> r]
  <2>1. /\ runs' = [runs EXCEPT ![r] = run] /\ user' = [user EXCEPT ![u] = s]
        /\ user[u].pc = "assign"
    BY <1>1, <1>2 DEF PurgeAssign
  <2>2. user[u] \in [pc : {"assign", "reset", "state"}, run : Run, results : Stat]
    BY <1>1, <2>1 DEF UserState, Idle
  <2>3. s \in UserState /\ s.run = r /\ s.pc \in {"reset", "judge"}
    BY <1>1, <2>2 DEF UserState
  <2>4. user[u].results \in Stat
    BY <2>2
  <2>5. run \in RunObject /\ SameBooks(runs[r], run) /\ run.finished = runs[r].finished
        /\ run.num_games = runs[r].num_games /\ run.kind = runs[r].kind
        /\ run.tasks = runs[r].tasks
    BY <1>1, <2>4, AssignedResults
  <2>6. run.results = user[u].results
    BY <1>1 DEF RunObject
  <2> HIDE DEF run, s
  <2> QED
    BY <2>1, <2>3, <2>5, <2>6 DEF PurgeWriting
<1>3. CASE PurgeReset(u) \/ PurgeState(u)
  <2>1. PICK state \in Verdicts, s \in UserState :
           /\ runs' = [runs EXCEPT ![r].state = state] /\ user' = [user EXCEPT ![u] = s]
           /\ user[u].pc \in {"reset", "state"} /\ s.pc \in {"state", "judge"} /\ s.run = r
    <3>1. CASE PurgeReset(u)
      <4> DEFINE s == [user[u] EXCEPT !.pc = "state"]
      <4>1. user' = [user EXCEPT ![u] = s] /\ runs' = [runs EXCEPT ![r].state = ""]
            /\ user[u].pc = "reset"
        BY <1>1, <3>1 DEF PurgeReset
      <4>2. user[u] \in [pc : {"assign", "reset", "state"}, run : Run, results : Stat]
        <5>1. user[u] \in UserState /\ user[u].pc = "reset"
          BY <1>1, <4>1
        <5> QED
          BY <5>1 DEF UserState, Idle
      <4>3. s \in UserState /\ s.pc = "state" /\ s.run = r
        BY <4>2 DEF UserState
      <4>4. "" \in Verdicts
        BY DEF Verdicts
      <4> HIDE DEF s
      <4> QED
        BY <4>1, <4>3, <4>4
    <3>2. CASE PurgeState(u)
      <4> DEFINE s == [pc |-> "judge", run |-> r]
                 state == Verdict(user[u].results)
      <4>1. user' = [user EXCEPT ![u] = s] /\ runs' = [runs EXCEPT ![r].state = state]
            /\ user[u].pc = "state"
        BY <1>1, <3>2 DEF PurgeState
      <4>2. s \in UserState /\ s.pc = "judge" /\ s.run = r
        BY <1>1, UserStates
      <4>3. state \in Verdicts
        BY DEF Verdict, Verdicts
      <4> HIDE DEF s, state
      <4> QED
        BY <4>1, <4>2, <4>3
    <3> QED
      BY <1>3, <3>1, <3>2
  <2> DEFINE run == [runs[r] EXCEPT !.state = state]
  <2>2. runs' = [runs EXCEPT ![r] = run]
    BY <1>1, <2>1
  <2>4. run \in RunObject /\ SameBooks(runs[r], run) /\ run.finished = runs[r].finished
        /\ run.num_games = runs[r].num_games /\ run.kind = runs[r].kind
        /\ run.tasks = runs[r].tasks
    BY <1>1, AssignedState
  <2>5. run.results = runs[r].results
    BY <1>1 DEF RunObject
  <2> HIDE DEF run
  <2> QED
    BY <2>1, <2>2, <2>4, <2>5 DEF PurgeWriting
<1>4. CASE PurgeUpdate(u)
  <2> DEFINE run == [runs[r] EXCEPT !.flag = user[u].flag]
  <2>1. /\ runs' = [runs EXCEPT ![r] = run] /\ user' = [user EXCEPT ![u] = Idle]
        /\ user[u].pc = "update" /\ Idle \in UserState
    BY <1>1, <1>4, UserStates DEF PurgeUpdate
  <2>2. user[u].flag \in Flags
    BY <1>1, <2>1 DEF UserState, Idle
  <2>3. run \in RunObject /\ SameBooks(runs[r], run) /\ run.finished = runs[r].finished
        /\ run.num_games = runs[r].num_games /\ run.kind = runs[r].kind
        /\ run.tasks = runs[r].tasks
    BY <1>1, <2>2, AssignedFlag
  <2> QED
    BY <2>1, <2>3 DEF PurgeWriting
<1> QED
  BY <1>2, <1>3, <1>4 DEF PurgeWrites

(* What a step that only looks makes of the thread. *)
PurgeMoving(u, s) ==
    /\ user' = [user EXCEPT ![u] = s] /\ s.run = user[u].run
    /\ user[u].pc \in {"judge", "flag"}
    /\ \/ s.pc \in {"activate", "flag"}
       \/ s.pc = "update" /\ s.flag = compute_flags(runs[user[u].run])
    /\ UNCHANGED <<runs, submitted, unfinished, wtt, conns, req, dead>>

LEMMA PurgeMovesSo ==
  ASSUME Inductive, NEW u \in User, PurgeMoves(u)
  PROVE  \E s \in UserState : PurgeMoving(u, s)
<1> DEFINE r == user[u].run
<1>1. /\ TypeOK /\ r \in Run /\ user[u] \in UserState /\ user \in [User -> UserState]
  BY DEF Inductive, TypeOK, UsersOk, PurgeMoves, PurgeJudge, PurgeFlag, Idle
<1>2. CASE PurgeJudge(u)
  <2> DEFINE pc == IF is_undecided(runs[r]) THEN "activate" ELSE "flag"
             s == [user[u] EXCEPT !.pc = pc]
  <2>1. user' = [user EXCEPT ![u] = s] /\ user[u].pc = "judge"
    BY <1>1, <1>2 DEF PurgeJudge
  <2>2. pc \in {"activate", "flag"}
    OBVIOUS
  <2> HIDE DEF pc
  <2>3. s \in UserState /\ s.run = r /\ s.pc \in {"activate", "flag"}
    BY <1>1, <2>1, <2>2 DEF UserState, Idle
  <2> QED
    BY <1>2, <2>1, <2>3 DEF PurgeMoving, PurgeJudge
<1>3. CASE PurgeFlag(u)
  <2> DEFINE flag == compute_flags(runs[r])
             s == [pc |-> "update", run |-> r, flag |-> flag]
  <2>1. user' = [user EXCEPT ![u] = s] /\ user[u].pc = "flag"
    BY <1>1, <1>3 DEF PurgeFlag
  <2>2. flag \in Flags
    BY ComputedFlagType
  <2>3. s \in UserState /\ s.run = r /\ s.pc = "update" /\ s.flag = flag
    BY <1>1, <2>2 DEF UserState
  <2> QED
    BY <1>3, <2>1, <2>3 DEF PurgeMoving, PurgeFlag
<1> QED
  BY <1>2, <1>3 DEF PurgeMoves

(* None of them changes a task or a counter. *)
LEMMA PurgeWritesKeep ==
  ASSUME Inductive, NEW u \in User, PurgeWrites(u)
  PROVE  Inductive' /\ Progress
<1>1. PICK run \in RunObject, s \in UserState : PurgeWriting(u, run, s)
  BY PurgeWritesSo
<1> DEFINE r == user[u].run
<1>2. /\ UNCHANGED <<submitted, unfinished, wtt, conns, req, dead>>
      /\ user[u].pc \in {"assign", "reset", "state", "update"}
  BY DEF PurgeWrites, PurgeAssign, PurgeReset, PurgeState, PurgeUpdate
<1>5. r \in submitted /\ r \in Run /\ TypeOK /\ user[u].pc # "register"
  <2>1. user[u] # Idle
    BY <1>2 DEF Idle
  <2>2. TypeOK /\ r \in submitted
    BY <2>1 DEF Inductive, UsersOk
  <2> QED
    BY <1>2, <2>2 DEF TypeOK
<1>3. Progress
  BY <1>1, <1>2, <1>5, ObjectProgress DEF PurgeWriting
<1>4. UserStep
  <2>1. user' = [user EXCEPT ![u] = s] /\ (s # Idle => s.run = r) /\ s.pc # "mark"
    BY <1>1 DEF PurgeWriting, Idle
  <2> QED
    BY <1>5, <2>1, UserMoves
<1> QED
  BY <1>2, <1>3, <1>4, <1>5, ProgressKeeps DEF TypeOK

LEMMA PurgeMovesKeep ==
  ASSUME Inductive, NEW u \in User, PurgeMoves(u)
  PROVE  Inductive' /\ Progress
<1>1. PICK s \in UserState : PurgeMoving(u, s)
  BY PurgeMovesSo
<1> DEFINE r == user[u].run
<1>2. r \in submitted /\ user[u].pc # "register"
  BY DEF Inductive, UsersOk, PurgeMoves, PurgeJudge, PurgeFlag, Idle
<1>3. user' = [user EXCEPT ![u] = s] /\ s.run \in submitted /\ s.pc # "mark"
  BY <1>1, <1>2 DEF PurgeMoving
<1> QED
  BY <1>1, <1>2, <1>3, OnlyMoves DEF PurgeMoving

----------------------------------------------------------------------------
(* The scheduler and the clock. *)

\* The passing of time preserves the invariant.
LEMMA GrowOlderKeeps ==
  ASSUME Inductive, NEW r \in Run, NEW t \in Ids(runs[r]), GrowOlder(r, t)
  PROVE  Inductive' /\ Progress
<1> DEFINE age == Older[runs[r].tasks[t].age]
           run == [runs[r] EXCEPT !.tasks[t].age = age]
<1>1. TypeOK /\ View(r) \in ViewType /\ t \in Active(View(r).run) /\ runs[r] \in RunObject
  BY ViewTyped DEF Inductive, GrowOlder, View, TypeOK
<1>2. runs[r].tasks[t].age \in Ages /\ runs[r].tasks[t].age # "silent"
  BY <1>1, TasksType DEF Task, GrowOlder
<1>3. age \in Ages
  BY <1>2 DEF Ages, Older
<1>4. runs' = [runs EXCEPT ![r] = run] /\ UNCHANGED <<conns, unfinished>>
  <2>1. runs[r].tasks \in Seq(Task) /\ t \in DOMAIN runs[r].tasks
    BY <1>1 DEF RunObject, Ids
  <2> QED
    BY <1>1, <2>1 DEF GrowOlder, TypeOK, RunObject
<1> HIDE DEF age
<1>5. OpStep(View(r), [View(r) EXCEPT !.run.tasks[t].age = age])
  BY <1>1, <1>3, AgedStep
<1>6. [View(r) EXCEPT !.run.tasks[t].age = age] = [View(r) EXCEPT !.run = run]
  BY DEF View
<1> HIDE DEF run
<1>7. Progress
  BY <1>1, <1>4, <1>5, <1>6, AssignProgress
<1> QED
  BY <1>1, <1>7, UsersWait, ProgressKeeps DEF GrowOlder, TypeOK

\* Listing the dead tasks changes no run.
LEMMA ScavengeKeeps ==
  ASSUME Inductive, Scavenge
  PROVE  Inductive' /\ Progress
<1>1. dead' \subseteq Slot
  <2>1. \A r \in unfinished : r \in Run /\ Active(runs[r]) \subseteq Nat
    <3>1. TAKE r \in unfinished
    <3>2. r \in Run /\ runs[r] \in RunObject
      BY DEF Inductive, TypeOK
    <3>3. Ids(runs[r]) = 1 .. Len(runs[r].tasks) /\ Active(runs[r]) \subseteq Ids(runs[r])
      BY <3>2, TasksType, DataType
    <3>4. Ids(runs[r]) \subseteq Nat
      BY <3>3
    <3> QED
      BY <3>2, <3>3, <3>4
  <2> QED
    BY <2>1 DEF Scavenge, DeadTasks, Slot
<1>2. Progress
  BY NoProgress DEF Inductive, Scavenge
<1> QED
  BY <1>1, <1>2, UsersWait, ProgressKeeps DEF Scavenge

\* Failing a dead task preserves the invariant, even if it ended in between.
LEMMA KillDeadTaskKeeps ==
  ASSUME Inductive, KillDeadTask
  PROVE  Inductive' /\ Progress
<1>1. PICK slot \in dead : /\ Store(slot[1], set_inactive_tasks({slot[2]}, View(slot[1])))
                           /\ dead' = dead \ {slot}
  BY DEF KillDeadTask
<1>2. TypeOK /\ dead \subseteq Slot /\ slot[1] \in Run
  BY DEF Inductive, TypeOK, Slot
<1>3. Progress
  BY <1>1, <1>2, DeactivateProgress
<1> QED
  BY <1>1, <1>2, <1>3, UsersWait, ProgressKeeps DEF KillDeadTask

----------------------------------------------------------------------------
(* New runs. *)

(* A new run has empty books. *)
LEMMA NewRunOk ==
  ASSUME NEW kind \in Kinds, NEW n \in NumGames, NEW auto \in AutoPurge
  PROVE  LET run == NewRunObject(kind, n, auto)
         IN  /\ run \in RunObject /\ Ids(run) = {} /\ Active(run) = {}
             /\ AggregatesOk(run) /\ BadTasksOk(run) /\ StartsOk(run) /\ ~run.finished
<1> DEFINE run == NewRunObject(kind, n, auto)
<1>1. kind \in {"sprt", "games", "spsa"} /\ n \in Int /\ auto \in BOOLEAN
  BY UserInputAssumption
<1>2. run \in RunObject
  <2>1. <<>> \in Seq(Task) /\ Zero \in Stat
    BY DEF Zero, Stat
  <2> QED
    BY <1>1, <2>1 DEF NewRunObject, RunObject, Flags, Verdicts
<1>3. /\ run.tasks = <<>> /\ run.bad_tasks = {} /\ run.workers = 0 /\ run.cores = 0
      /\ run.committed = 0 /\ run.total = 0 /\ ~run.finished
  BY DEF NewRunObject
<1> HIDE DEF run
<1>4. Ids(run) = {} /\ Active(run) = {}
  BY <1>3 DEF Ids, Active
<1>5. AggregatesOk(run)
  BY <1>3, <1>4, SumOfNone, FS_EmptySet
     DEF AggregatesOk, compute_workers, compute_cores, compute_committed_games,
         compute_total_games
<1>6. BadTasksOk(run) /\ StartsOk(run)
  BY <1>3, <1>4 DEF BadTasksOk, StartsOk, OpeningsOk
<1> QED
  BY <1>2, <1>3, <1>4, <1>5, <1>6 DEF run

(* new_run(), up to the moment when the run is saved. *)
LEMMA NewRunKeeps ==
  ASSUME Inductive, NEW u \in User, NEW r \in Run, NewRun(u, r)
  PROVE  Inductive'
<1>1. PICK kind \in Kinds, n \in NumGames, auto \in AutoPurge :
        runs' = [runs EXCEPT ![r] = NewRunObject(kind, n, auto)]
  BY DEF NewRun
<1> DEFINE run == NewRunObject(kind, n, auto)
           s == [pc |-> "register", run |-> r]
<1>2. /\ run \in RunObject /\ Ids(run) = {} /\ Active(run) = {}
      /\ AggregatesOk(run) /\ BadTasksOk(run) /\ StartsOk(run) /\ ~run.finished
  BY NewRunOk
<1>3. /\ TypeOK /\ r \notin submitted /\ submitted' = submitted \cup {r}
      /\ user' = [user EXCEPT ![u] = s] /\ user[u] = Idle
      /\ UNCHANGED <<unfinished, wtt, conns, req, dead>>
      /\ runs' = [runs EXCEPT ![r] = run]
  BY <1>1 DEF Inductive, NewRun
<1>4. runs \in [Run -> RunObject] /\ user \in [User -> UserState]
  BY <1>3 DEF TypeOK
<1> HIDE DEF run
<1>5. runs' \in [Run -> RunObject] /\ runs'[r] = run /\ \A x \in Run \ {r} : runs'[x] = runs[x]
  BY <1>2, <1>3, <1>4
<1>6. s \in UserState /\ user'[u] = s /\ \A x \in User \ {u} : user'[x] = user[x]
  BY <1>3, <1>4, UserStates
<1>7. TypeOK'
  BY <1>3, <1>5, <1>6 DEF TypeOK
<1>8. Ids(runs[r]) = {} /\ Active(runs[r]) = {}
  BY <1>3 DEF Inductive, UsersOk, Active
<1>9. AggregatesMatch' /\ FinishedIsQuiet' /\ BadTasksOnce' /\ AllStartsOk'
  <2>1. AggregatesMatch'
    BY <1>2, <1>5 DEF Inductive, AggregatesMatch
  <2>2. FinishedIsQuiet'
    BY <1>2, <1>5 DEF Inductive, FinishedIsQuiet, QuietOk
  <2>3. BadTasksOnce'
    BY <1>2, <1>5 DEF Inductive, BadTasksOnce
  <2>4. AllStartsOk'
    <3>1. \A x \in Run : StartsOk(runs'[x])
      BY <1>2, <1>5 DEF Inductive, AllStartsOk
    <3> QED
      BY <3>1 DEF AllStartsOk, StartsOk, OpeningsOk, Ids
  <2> QED
    BY <2>1, <2>2, <2>3, <2>4
<1>10. ConnectionsMatch'
  <2>1. SUFFICES ASSUME NEW a \in Addr
                 PROVE  conns[a] = SumOver([x \in Run |-> Cardinality(ActiveAt(a, runs'[x]))], Run)
    BY <1>3 DEF ConnectionsMatch
  <2>2. \A x \in Run : ActiveAt(a, runs'[x]) = ActiveAt(a, runs[x])
    BY <1>2, <1>5, <1>8 DEF ActiveAt
  <2>3. [x \in Run |-> Cardinality(ActiveAt(a, runs'[x]))]
          = [x \in Run |-> Cardinality(ActiveAt(a, runs[x]))]
    BY <2>2
  <2> QED
    BY <2>3 DEF Inductive, ConnectionsMatch
<1>11. ConnectionLimit'
  BY <1>3 DEF Inductive, ConnectionLimit
<1>12. UnfinishedListed'
  <2>1. SUFFICES ASSUME NEW x \in submitted', ~runs'[x].finished
                 PROVE  \/ x \in unfinished
                        \/ \E y \in User : user'[y] = [pc |-> "register", run |-> x]
    BY <1>3 DEF UnfinishedListed
  <2>2. CASE x = r
    BY <1>6, <2>2
  <2>3. CASE x # r
    <3>1. x \in submitted /\ ~runs[x].finished
      BY <1>3, <1>5, <2>1, <2>3 DEF TypeOK
    <3>2. CASE \E y \in User : user[y] = [pc |-> "register", run |-> x]
      BY <1>3, <1>6, <3>2 DEF Idle
    <3> QED
      BY <3>1, <3>2 DEF Inductive, UnfinishedListed
  <2> QED
    BY <2>2, <2>3
<1>13. OneTaskPerName'
  <2>1. SUFFICES ASSUME NEW x \in Run, NEW t \in Active(runs'[x])
                 PROVE  LET c == runs'[x].tasks[t].client
                        IN  \/ wtt[NameOf[c]] = <<x, t>>
                            \/ req[c] = [pc |-> "insert", run |-> x, task |-> t]
    BY <1>3 DEF OneTaskPerName
  <2>2. runs'[x] = runs[x]
    BY <1>2, <1>5
  <2> QED
    BY <2>1, <2>2 DEF Inductive, OneTaskPerName
<1>14. UsersOk'
  <2>1. \A x \in Run \ submitted' : Ids(runs'[x]) = {}
    BY <1>3, <1>5 DEF Inductive, UsersOk
  <2>2. \A x \in User : user'[x] # Idle => user'[x].run \in submitted'
    BY <1>3, <1>6 DEF Inductive, UsersOk
  <2>3. ASSUME NEW x \in User, user'[x].pc = "mark"
        PROVE  user'[x].todo \subseteq Ids(runs'[user'[x].run])
    <3>1. x # u /\ user'[x] = user[x]
      BY <1>6, <2>3
    <3>2. user[x].run \in submitted
      BY <2>3, <3>1 DEF Inductive, UsersOk, Idle
    <3>3. runs'[user[x].run] = runs[user[x].run]
      BY <1>3, <1>5, <3>2 DEF TypeOK
    <3> QED
      BY <2>3, <3>1, <3>3 DEF Inductive, UsersOk
  <2> QED
    BY <2>1, <2>2, <2>3 DEF UsersOk
<1>15. LockOk'
  BY <1>3 DEF Inductive, LockOk
<1> QED
  BY <1>7, <1>9, <1>10, <1>11, <1>12, <1>13, <1>14, <1>15 DEF Inductive

(* new_run(), the registration of the run. *)
LEMMA RegisterKeeps ==
  ASSUME Inductive, NEW u \in User, Register(u)
  PROVE  Inductive' /\ Progress
<1> DEFINE r == user[u].run
<1>1. /\ TypeOK /\ user[u].pc = "register" /\ r \in submitted /\ r \in Run
      /\ user \in [User -> UserState]
  BY DEF Inductive, TypeOK, UsersOk, Register, Idle
<1>2. /\ unfinished' = unfinished \cup {r} /\ user' = [user EXCEPT ![u] = Idle]
      /\ UNCHANGED <<runs, submitted, wtt, conns, req, dead>>
  BY DEF Register
<1>3. user'[u] = Idle /\ \A x \in User \ {u} : user'[x] = user[x]
  BY <1>1, <1>2
<1>4. Progress
  <2>1. conns \in [Addr -> Int] /\ runs \in [Run -> RunObject] /\ unfinished \subseteq submitted
    BY <1>1 DEF TypeOK
  <2>2. /\ ConnectionsMatch => ConnectionsMatch'
        /\ AggregatesMatch => AggregatesMatch'
        /\ FinishedIsQuiet => FinishedIsQuiet'
        /\ BadTasksOnce => BadTasksOnce'
    BY <1>2 DEF ConnectionsMatch, AggregatesMatch, FinishedIsQuiet, BadTasksOnce
  <2>3. \A a \in Addr : conns'[a] <= conns[a]
    BY <1>2, <2>1
  <2> QED
    BY <1>1, <1>2, <2>1, <2>2, <2>3 DEF Progress, TaskStep, SameTask
<1>5. TypeOK'
  <2>1. Idle \in UserState
    BY <1>1, UserStates
  <2> QED
    BY <1>1, <1>2, <2>1 DEF TypeOK
<1>6. UnfinishedListed'
  <2>1. SUFFICES ASSUME NEW x \in submitted, ~runs[x].finished, x # r
                 PROVE  \/ x \in unfinished
                        \/ \E y \in User : user'[y] = [pc |-> "register", run |-> x]
    BY <1>2 DEF UnfinishedListed
  <2>2. CASE \E y \in User : user[y] = [pc |-> "register", run |-> x]
    BY <1>3, <2>1, <2>2
  <2> QED
    BY <2>1, <2>2 DEF Inductive, UnfinishedListed
<1>7. UsersOk'
  <2>1. ASSUME NEW x \in User, user'[x].pc = "mark"
        PROVE  user'[x].todo \subseteq Ids(runs[user'[x].run])
    <3>1. user'[x] = user[x]
      BY <1>3, <2>1 DEF Idle
    <3> QED
      BY <2>1, <3>1 DEF Inductive, UsersOk
  <2> QED
    BY <1>2, <1>3, <2>1 DEF Inductive, UsersOk
<1> QED
  BY <1>2, <1>4, <1>5, <1>6, <1>7, ProgressRuns, ProgressWorkers DEF Inductive

----------------------------------------------------------------------------
(* sync_request_task() *)

(* A task has a natural number of games. *)
LEMMA TaskSizeType ==
  ASSUME NEW c \in Client, NEW run \in RunObject, NeedsGames(run)
  PROVE  TaskSize(c, run) \in Nat
<1> DEFINE remaining == run.num_games - run.committed
           batches == (remaining + BatchGames - 1) \div BatchGames
<1>1. remaining \in Nat /\ remaining > 0
  BY DEF NeedsGames, RunObject
<1>2. BatchGames \in Nat /\ BatchGames > 0 /\ WorkerCap[c] \in Nat
  BY BoundAssumption, ClientAssumption
<1>3. batches \in Nat
  <2>1. remaining + BatchGames - 1 \in Nat
    BY <1>1, <1>2
  <2> HIDE DEF remaining
  <2> QED
    BY <1>2, <2>1
<1>4. BatchGames * batches \in Nat
  <2> HIDE DEF batches
  <2> QED
    BY <1>2, <1>3
<1> QED
  BY <1>1, <1>2, <1>4 DEF TaskSize

(* A new task is active and has no games yet. *)
LEMMA NewTaskType ==
  ASSUME NEW c \in Client, NEW addr \in Addr, NEW run \in RunObject, NeedsGames(run)
  PROVE  LET task == NewTask(c, addr, run)
         IN  /\ task \in Task /\ task.active /\ ~task.bad /\ task.start = run.total
             /\ task.client = c /\ task.addr = addr /\ task.stats = Zero
<1>1. TaskSize(c, run) \in Nat /\ run.total \in Nat
  BY TaskSizeType DEF RunObject
<1> QED
  BY <1>1, ZeroGames DEF NewTask, Task, Ages

(* A run with another task: its books are in order, and the new task comes after  *)
(* all others.                                                                    *)
LEMMA WithTaskOk ==
  ASSUME NEW run \in RunObject, NEW task \in Task, task.active, ~task.bad,
         task.start = run.total, ~run.finished
  PROVE  LET new == WithTask(run, task)
             n == Len(run.tasks) + 1
         IN  /\ new \in RunObject
             /\ n \in Nat
             /\ Ids(new) = Ids(run) \cup {n}
             /\ n \notin Ids(run)
             /\ \A t \in Ids(run) : new.tasks[t] = run.tasks[t]
             /\ new.tasks[n] = task
             /\ Active(new) = Active(run) \cup {n}
             /\ new.finished = run.finished
             /\ AggregatesOk(run) => AggregatesOk(new)
             /\ BadTasksOk(run) => BadTasksOk(new)
             /\ StartsOk(run) => StartsOk(new)
<1> DEFINE new == WithTask(run, task)
           n == Len(run.tasks) + 1
           tasks2 == Append(run.tasks, task)
<1>1. /\ run.tasks \in Seq(Task) /\ Len(run.tasks) \in Nat /\ Ids(run) = 1 .. Len(run.tasks)
      /\ \A t \in Ids(run) : run.tasks[t] \in Task
  BY TasksType DEF RunObject
<1>2. CoresOf[task.client] \in Nat /\ task.num_games \in Nat
  BY ClientAssumption DEF Task
<1>3. /\ tasks2 \in Seq(Task) /\ Len(tasks2) = n
      /\ DOMAIN tasks2 = 1 .. n
      /\ \A t \in 1 .. Len(run.tasks) : tasks2[t] = run.tasks[t]
      /\ tasks2[n] = task
  BY <1>1, AppendProperties
<1>4. /\ new \in RunObject
      /\ new.tasks = tasks2
      /\ new.workers = run.workers + 1
      /\ new.cores = run.cores + CoresOf[task.client]
      /\ new.committed = run.committed + task.num_games
      /\ new.total = run.total + task.num_games
      /\ new.finished = run.finished
      /\ new.bad_tasks = run.bad_tasks
  <2> HIDE DEF tasks2
  <2>1. new = [run EXCEPT !.tasks = tasks2, !.workers = @ + 1,
                          !.cores = @ + CoresOf[task.client],
                          !.committed = @ + task.num_games, !.total = @ + task.num_games]
    BY DEF WithTask, tasks2
  <2>2. /\ run.workers + 1 \in Int
        /\ run.cores + CoresOf[task.client] \in Int
        /\ run.committed + task.num_games \in Int
        /\ run.total + task.num_games \in Nat
    BY <1>2 DEF RunObject
  <2> HIDE DEF new
  <2> QED
    BY <1>3, <2>1, <2>2 DEF RunObject
<1> HIDE DEF new, tasks2
<1>5. n \in Nat /\ Ids(new) = Ids(run) \cup {n} /\ n \notin Ids(run)
  <2>1. Ids(new) = 1 .. n
    BY <1>3, <1>4 DEF Ids
  <2> QED
    BY <1>1, <2>1
<1>6. (\A t \in Ids(run) : new.tasks[t] = run.tasks[t]) /\ new.tasks[n] = task
  BY <1>1, <1>3, <1>4
<1>7. Active(new) = Active(run) \cup {n}
  BY <1>5, <1>6 DEF Active
<1> HIDE DEF n
<1>8. Active(run) \subseteq Ids(run) /\ IsFiniteSet(Active(run)) /\ n \notin Active(run)
  BY <1>5, DataType
<1>9. ASSUME AggregatesOk(run)
      PROVE  AggregatesOk(new)
  <2>1. new.workers = compute_workers(new)
    <3>1. Cardinality(Active(run) \cup {n}) = Cardinality(Active(run)) + 1
      BY <1>8, FS_AddElement
    <3> QED
      BY <1>4, <1>7, <1>9, <3>1 DEF AggregatesOk, compute_workers
  <2>2. new.cores = compute_cores(new)
    <3>1. /\ Cores(new)[n] = CoresOf[task.client]
          /\ \A t \in Active(run) : Cores(run)[t] = Cores(new)[t]
      BY <1>5, <1>6, <1>8 DEF Cores
    <3>2. SumOver(Cores(new), Active(run) \cup {n})
             = SumOver(Cores(run), Active(run)) + CoresOf[task.client]
      <4>1. /\ NatValued(Cores(run), Active(run)) /\ Cores(new)[n] \in Nat
            /\ \A t \in Active(run) : Cores(run)[t] = Cores(new)[t]
        BY <1>2, <3>1, DataType
      <4>2. SumOver(Cores(new), Active(run) \cup {n})
               = SumOver(Cores(run), Active(run)) + Cores(new)[n]
        BY <1>8, <4>1, SumAddOne
      <4> QED
        BY <3>1, <4>2
    <3> QED
      BY <1>4, <1>7, <1>9, <3>2 DEF AggregatesOk, compute_cores
  <2>3. Sizes(new)[n] = task.num_games /\ \A t \in Ids(run) : Sizes(run)[t] = Sizes(new)[t]
    BY <1>5, <1>6 DEF Sizes
  <2>4. new.total = compute_total_games(new)
    <3>1. IsFiniteSet(Ids(run)) /\ NatValued(Sizes(run), Ids(run))
      BY TasksType, DataType
    <3>2. SumOver(Sizes(new), Ids(run) \cup {n}) = SumOver(Sizes(run), Ids(run)) + task.num_games
      BY <1>2, <1>5, <2>3, <3>1, SumAddOne
    <3> QED
      BY <1>4, <1>5, <1>9, <3>2 DEF AggregatesOk, compute_total_games
  <2>5. new.committed = compute_committed_games(new)
    <3>1. SumOver(Sizes(new), Active(run) \cup {n})
             = SumOver(Sizes(run), Active(run)) + task.num_games
      <4>1. /\ NatValued(Sizes(run), Active(run)) /\ Sizes(new)[n] \in Nat
            /\ \A t \in Active(run) : Sizes(run)[t] = Sizes(new)[t]
        BY <1>2, <1>8, <2>3, DataType
      <4>2. SumOver(Sizes(new), Active(run) \cup {n})
               = SumOver(Sizes(run), Active(run)) + Sizes(new)[n]
        BY <1>8, <4>1, SumAddOne
      <4> QED
        BY <2>3, <4>2
    <3>2. Ids(new) \ Active(new) = Ids(run) \ Active(run)
      BY <1>5, <1>7
    <3>3. SumOver(Played(new), Ids(run) \ Active(run)) = SumOver(Played(run), Ids(run) \ Active(run))
      <4>1. \A t \in Ids(run) \ Active(run) : Played(new)[t] = Played(run)[t]
        BY <1>5, <1>6 DEF Played
      <4> QED
        BY <4>1, SumCongruence
    <3>4. compute_committed_games(new)
             = SumOver(Sizes(run), Active(run)) + task.num_games
               + SumOver(Played(run), Ids(run) \ Active(run))
      BY <1>7, <3>1, <3>2, <3>3 DEF compute_committed_games
    <3>5. run.committed = SumOver(Sizes(run), Active(run))
                          + SumOver(Played(run), Ids(run) \ Active(run))
      BY <1>9 DEF AggregatesOk, compute_committed_games
    <3>6. /\ SumOver(Sizes(run), Active(run)) \in Nat
          /\ SumOver(Played(run), Ids(run) \ Active(run)) \in Nat
      BY DataType, UnitsFinite
    <3> QED
      BY <1>2, <1>4, <3>4, <3>5, <3>6
  <2> QED
    BY <2>1, <2>2, <2>4, <2>5 DEF AggregatesOk
<1>10. ASSUME BadTasksOk(run)
       PROVE  BadTasksOk(new)
  BY <1>4, <1>5, <1>6, <1>10 DEF BadTasksOk
<1>11. ASSUME StartsOk(run)
       PROVE  StartsOk(new)
  <2>1. \A t \in Ids(run) : run.tasks[t].start \in Nat /\ run.tasks[t].num_games \in Nat
    BY <1>1 DEF Task
  <2>2. run.total \in Nat /\ task.start = run.total
    BY DEF RunObject
  <2>3. \A t \in Ids(run) : run.tasks[t].start + run.tasks[t].num_games <= run.total
    BY <1>11 DEF StartsOk
  <2>4. \A t \in Ids(new) : new.tasks[t].start + new.tasks[t].num_games <= new.total
    BY <1>2, <1>4, <1>5, <1>6, <2>1, <2>2, <2>3
  <2>5. OpeningsOk(new)
    <3>1. SUFFICES ASSUME NEW t \in Ids(new), NEW s \in Ids(new), t < s
                   PROVE  new.tasks[t].start + new.tasks[t].num_games <= new.tasks[s].start
      BY DEF OpeningsOk
    <3>2. t \in Ids(run)
      BY <1>1, <1>5, <3>1 DEF n
    <3>3. CASE s = n
      BY <1>6, <2>2, <2>3, <3>2, <3>3
    <3>4. CASE s # n
      BY <1>5, <1>6, <1>11, <3>1, <3>2, <3>4 DEF StartsOk, OpeningsOk
    <3> QED
      BY <3>3, <3>4
  <2> QED
    BY <2>4, <2>5 DEF StartsOk
<1> QED
  BY <1>4, <1>5, <1>6, <1>7, <1>9, <1>10, <1>11 DEF new, n

(* The thread of the request lock is the only one that creates tasks. *)
LEMMA LockHeld ==
  ASSUME Inductive, NEW c \in Client, req[c] # Idle, NEW s \in ReqState,
         req' = [req EXCEPT ![c] = s]
  PROVE  /\ req' \in [Client -> ReqState] /\ req'[c] = s
         /\ \A d \in Client \ {c} : req[d] = Idle /\ req'[d] = Idle
<1>1. req \in [Client -> ReqState] /\ \A d \in Client \ {c} : req[d] = Idle
  BY DEF Inductive, TypeOK, LockOk
<1> QED
  BY <1>1

(* The chosen run needs a task: the counters after the task was added. *)
LEMMA AppendTaskAdds ==
  ASSUME Inductive, NEW c \in Client, NEW r \in submitted, NEW addr \in Addr,
         req[c] = [pc |-> "append", run |-> r, addr |-> addr],
         NeedsGames(runs[r]),
         runs' = [runs EXCEPT ![r] = WithTask(@, NewTask(c, addr, @))],
         conns' = [conns EXCEPT ![addr] = @ + 1],
         req' = [req EXCEPT ![c] = [pc |-> "insert", run |-> r, task |-> Len(runs[r].tasks) + 1]],
         UNCHANGED <<submitted, unfinished, wtt, user, dead>>
  PROVE  /\ Inductive'
         /\ \A x \in Run : \A t \in Ids(runs[x]) : /\ t \in Ids(runs'[x])
                                                   /\ runs'[x].tasks[t] = runs[x].tasks[t]
<1> DEFINE run == runs[r]
           task == NewTask(c, addr, run)
           new == WithTask(run, task)
           n == Len(run.tasks) + 1
           s == [pc |-> "insert", run |-> r, task |-> n]
<1>1. /\ TypeOK /\ r \in Run /\ run \in RunObject /\ runs \in [Run -> RunObject]
      /\ conns \in [Addr -> Int] /\ addr \in Addr /\ ConnLimit \in Nat
  BY ClientAssumption, BoundAssumption DEF Inductive, TypeOK
<1>2. ~run.finished /\ run.finished \in BOOLEAN
  BY <1>1 DEF NeedsGames, RunObject
<1>3. task \in Task /\ task.active /\ ~task.bad /\ task.start = run.total
      /\ task.client = c /\ task.addr = addr
  BY <1>1, NewTaskType
<1> HIDE DEF task
<1>4. /\ new \in RunObject
      /\ n \in Nat
      /\ Ids(new) = Ids(run) \cup {n}
      /\ n \notin Ids(run)
      /\ \A t \in Ids(run) : new.tasks[t] = run.tasks[t]
      /\ new.tasks[n] = task
      /\ Active(new) = Active(run) \cup {n}
      /\ new.finished = run.finished
      /\ AggregatesOk(run) => AggregatesOk(new)
      /\ BadTasksOk(run) => BadTasksOk(new)
      /\ StartsOk(run) => StartsOk(new)
  BY <1>1, <1>2, <1>3, WithTaskOk
<1>5. runs' = [runs EXCEPT ![r] = new]
  BY DEF task
<1> HIDE DEF new, n
<1>6. runs' \in [Run -> RunObject] /\ runs'[r] = new /\ \A x \in Run \ {r} : runs'[x] = runs[x]
  BY <1>1, <1>4, <1>5
<1>7. s \in ReqState /\ req' = [req EXCEPT ![c] = s]
  <2>1. req' = [req EXCEPT ![c] = s]
    BY DEF n
  <2> QED
    BY <1>1, <1>4, <2>1 DEF ReqState
<1>8. /\ req' \in [Client -> ReqState] /\ req'[c] = s
      /\ \A d \in Client \ {c} : req[d] = Idle /\ req'[d] = Idle
  <2>1. req[c] # Idle
    BY DEF Idle
  <2> HIDE DEF s
  <2> QED
    BY <1>7, <2>1, LockHeld
<1>9. /\ conns' \in [Addr -> Int] /\ conns'[addr] = conns[addr] + 1
      /\ \A a \in Addr \ {addr} : conns'[a] = conns[a]
  BY <1>1
<1>10. TypeOK'
  BY <1>6, <1>8, <1>9 DEF Inductive, TypeOK
<1>11. AggregatesMatch' /\ BadTasksOnce'
  BY <1>4, <1>6 DEF Inductive, AggregatesMatch, BadTasksOnce
<1>12. FinishedIsQuiet'
  BY <1>2, <1>4, <1>6 DEF Inductive, FinishedIsQuiet, QuietOk
<1>13. AllStartsOk'
  <2>1. \A x \in Run : StartsOk(runs'[x])
    BY <1>4, <1>6 DEF Inductive, AllStartsOk
  <2> QED
    BY <2>1 DEF AllStartsOk, StartsOk, OpeningsOk, Ids
<1>14. ConnectionsMatch'
  <2>1. SUFFICES ASSUME NEW a \in Addr
                 PROVE  conns'[a] = SumOver([x \in Run |-> Cardinality(ActiveAt(a, runs'[x]))], Run)
    BY DEF ConnectionsMatch
  <2> DEFINE f == [x \in Run |-> Cardinality(ActiveAt(a, runs[x]))]
             g == [x \in Run |-> Cardinality(ActiveAt(a, runs'[x]))]
  <2>2. NatValued(f, Run) /\ NatValued(g, Run)
    BY <1>1, <1>6, ActiveAtFinite DEF NatValued
  <2>3. \A x \in Run \ {r} : f[x] = g[x]
    BY <1>6
  <2>4. f[r] = Cardinality(ActiveAt(a, run)) /\ g[r] = Cardinality(ActiveAt(a, new))
    BY <1>1, <1>6
  <2>5. f[r] \in Nat
    BY <1>1, <2>2 DEF NatValued
  <2>6. conns[a] = SumOver(f, Run) /\ conns[a] \in Int
    BY <1>1 DEF Inductive, ConnectionsMatch
  <2> HIDE DEF f, g
  <2>7. SumOver(g, Run) = SumOver(f, Run) - f[r] + g[r]
    BY <1>1, <2>2, <2>3, RunAssumption, SumChangeOne
  <2>8. \A t \in Active(run) : new.tasks[t].addr = run.tasks[t].addr
    BY <1>4 DEF Active
  <2>9. CASE a = addr
    <3>1. ActiveAt(a, new) = ActiveAt(a, run) \cup {n} /\ n \notin ActiveAt(a, run)
      BY <1>3, <1>4, <2>8, <2>9 DEF ActiveAt, Active
    <3>2. IsFiniteSet(ActiveAt(a, run))
      BY <1>1, ActiveAtFinite
    <3>3. g[r] = f[r] + 1
      BY <2>4, <3>1, <3>2, FS_AddElement
    <3>4. conns'[a] = conns[a] + 1
      BY <1>9, <2>9
    <3>5. conns'[a] = SumOver(g, Run)
      BY <2>5, <2>6, <2>7, <3>3, <3>4
    <3> QED
      BY <3>5 DEF g
  <2>10. CASE a # addr
    <3>1. ActiveAt(a, new) = ActiveAt(a, run)
      BY <1>3, <1>4, <2>8, <2>10 DEF ActiveAt
    <3>2. g[r] = f[r] /\ conns'[a] = conns[a]
      BY <1>9, <2>4, <2>10, <3>1
    <3>3. conns'[a] = SumOver(g, Run)
      BY <2>5, <2>6, <2>7, <3>2
    <3> QED
      BY <3>3 DEF g
  <2> QED
    BY <2>9, <2>10
<1>15. ConnectionLimit'
  <2>1. SUFFICES ASSUME NEW a \in Addr PROVE conns'[a] <= ConnLimit
    BY DEF ConnectionLimit
  <2>2. CASE a = addr
    <3>1. conns[a] < ConnLimit
      BY <2>2 DEF Inductive, LockOk
    <3> QED
      BY <1>1, <1>9, <2>2, <3>1
  <2>3. CASE a # addr
    BY <1>9, <2>3 DEF Inductive, ConnectionLimit
  <2> QED
    BY <2>2, <2>3
<1>16. UnfinishedListed'
  <2>1. \A x \in submitted : runs'[x].finished = runs[x].finished
    BY <1>4, <1>6 DEF Inductive, TypeOK
  <2> QED
    BY <2>1 DEF Inductive, UnfinishedListed
<1>17. OneTaskPerName'
  <2>1. SUFFICES ASSUME NEW x \in Run, NEW t \in Active(runs'[x])
                 PROVE  LET d == runs'[x].tasks[t].client
                        IN  \/ wtt[NameOf[d]] = <<x, t>>
                            \/ req'[d] = [pc |-> "insert", run |-> x, task |-> t]
    BY DEF OneTaskPerName
  <2>2. CASE x = r /\ t = n
    BY <1>3, <1>4, <1>6, <1>8, <2>2
  <2>3. CASE ~(x = r /\ t = n)
    <3>1. t \in Active(runs[x]) /\ runs'[x].tasks[t] = runs[x].tasks[t]
      BY <1>4, <1>6, <2>3 DEF Active
    <3>2. \A d \in Client : req[d] # [pc |-> "insert", run |-> x, task |-> t]
      BY <1>8 DEF Idle
    <3>3. runs[x].tasks[t].client \in Client
      BY <1>1, <3>1, TasksType DEF Active, Task
    <3> QED
      BY <3>1, <3>2, <3>3 DEF Inductive, OneTaskPerName
  <2> QED
    BY <2>2, <2>3
<1>18. \A x \in Run : Ids(runs[x]) \subseteq Ids(runs'[x])
  BY <1>4, <1>6
<1>19. UsersOk'
  <2>1. \A x \in Run \ submitted : runs'[x] = runs[x]
    BY <1>6
  <2>2. \A u \in User : user[u].pc = "mark" => user[u].run \in Run
    BY DEF Inductive, TypeOK, UsersOk, Idle
  <2>3. \A x \in Run \ submitted' : Ids(runs'[x]) = {}
    BY <2>1 DEF Inductive, UsersOk
  <2>4. \A u \in User : user[u].pc = "mark" => user[u].todo \subseteq Ids(runs'[user[u].run])
    BY <1>18, <2>2 DEF Inductive, UsersOk
  <2> QED
    BY <2>3, <2>4 DEF Inductive, UsersOk
<1>20. LockOk'
  <2>1. \A d, e \in Client : req'[d] # Idle /\ req'[e] # Idle => d = e
    BY <1>8
  <2>2. \A d \in Client : req'[d] # Idle => req'[d].run \in submitted
    BY <1>8
  <2>3. \A d \in Client : req'[d].pc # "append"
    BY <1>8 DEF Idle
  <2> QED
    BY <2>1, <2>2, <2>3 DEF LockOk
<1>21. \A x \in Run : \A t \in Ids(runs[x]) : /\ t \in Ids(runs'[x])
                                              /\ runs'[x].tasks[t] = runs[x].tasks[t]
  BY <1>4, <1>6
<1> QED
  BY <1>10, <1>11, <1>12, <1>13, <1>14, <1>15, <1>16, <1>17, <1>19, <1>20, <1>21 DEF Inductive

(* A thread that gives up the request lock. *)
LEMMA LockReleased ==
  ASSUME Inductive, NEW c \in Client, req[c] # Idle, req' = [req EXCEPT ![c] = Idle],
         UNCHANGED submitted
  PROVE  req' \in [Client -> ReqState] /\ LockOk'
<1>1. Idle \in ReqState
  BY DEF ReqState
<1>2. req' \in [Client -> ReqState] /\ \A d \in Client : req'[d] = Idle
  BY <1>1, LockHeld
<1> QED
  BY <1>2 DEF LockOk, Idle

\* Adding a task preserves the invariant: the longest case, since the task starts
\* after all openings given out and has no entry in wtt_map yet.
LEMMA AppendTaskKeeps ==
  ASSUME Inductive, NEW c \in Client, AppendTask(c)
  PROVE  /\ Inductive'
         /\ \/ Progress
            \/ \A x \in Run : \A t \in Ids(runs[x]) : /\ t \in Ids(runs'[x])
                                                      /\ runs'[x].tasks[t] = runs[x].tasks[t]
<1> DEFINE r == req[c].run
<1>1. /\ TypeOK /\ req[c].pc = "append" /\ req[c] # Idle /\ req[c] \in ReqState /\ r \in submitted
  BY DEF Inductive, TypeOK, LockOk, AppendTask, Idle
<1>2. req[c] = [pc |-> "append", run |-> r, addr |-> req[c].addr] /\ req[c].addr \in Addr
  BY <1>1 DEF ReqState, Idle
<1>3. ASSUME ~NeedsGames(runs[r])
      PROVE  Inductive' /\ Progress
  <2>1. UNCHANGED <<runs, submitted, unfinished, wtt, conns, user, dead>>
    BY <1>3 DEF AppendTask
  <2>2. req' = [req EXCEPT ![c] = Idle]
    BY <1>3 DEF AppendTask
  <2>3. Progress
    BY <1>1, <2>1, NoProgress
  <2>4. req' \in [Client -> ReqState] /\ LockOk'
    BY <1>1, <2>1, <2>2, LockReleased
  <2>5. UnfinishedListed' /\ UsersOk'
    BY <2>1, <2>3, UsersWait, ProgressUsers
  <2>6. OneTaskPerName'
    <3>1. \A d \in Client, x \in Run, t \in Nat : req[d] # [pc |-> "insert", run |-> x, task |-> t]
      <4>1. \A d \in Client \ {c} : req[d] = Idle
        BY <1>1 DEF Inductive, LockOk
      <4> QED
        BY <1>1, <4>1 DEF Idle
    <3>2. ASSUME NEW x \in Run, NEW t \in Active(runs[x])
          PROVE  wtt[NameOf[runs[x].tasks[t].client]] = <<x, t>>
      <4>1. runs[x].tasks[t].client \in Client /\ t \in Nat
        BY <1>1, TasksType DEF TypeOK, Active, Task
      <4> QED
        BY <3>1, <4>1 DEF Inductive, OneTaskPerName
    <3> QED
      BY <2>1, <3>2 DEF OneTaskPerName
  <2>7. TypeOK'
    BY <2>1, <2>4 DEF Inductive, TypeOK
  <2> QED
    BY <2>3, <2>4, <2>5, <2>6, <2>7, ProgressRuns DEF Inductive
<1>4. ASSUME NeedsGames(runs[r])
      PROVE  /\ Inductive'
             /\ \A x \in Run : \A t \in Ids(runs[x]) : /\ t \in Ids(runs'[x])
                                                       /\ runs'[x].tasks[t] = runs[x].tasks[t]
  BY <1>1, <1>2, <1>4, AppendTaskAdds DEF AppendTask
<1> QED
  BY <1>3, <1>4

(* insert_in_wtt_map() *)
LEMMA InsertInWttMapKeeps ==
  ASSUME Inductive, NEW c \in Client, InsertInWttMap(c)
  PROVE  Inductive' /\ Progress
<1> DEFINE r == req[c].run
           t == req[c].task
           slot == <<r, t>>
           name == NameOf[c]
           old == wtt[name]
<1>1. /\ TypeOK /\ req[c].pc = "insert" /\ req[c] # Idle /\ req[c] \in ReqState
      /\ name \in Name /\ wtt \in [Name -> Slot \cup {NoSlot}]
  <2>1. req[c].pc = "insert" /\ Idle.pc = "idle"
    BY DEF InsertInWttMap, Idle
  <2>2. req[c] # Idle
    BY <2>1
  <2> QED
    BY <2>1, <2>2, ClientAssumption DEF Inductive, TypeOK
<1>2. req[c] = [pc |-> "insert", run |-> r, task |-> t] /\ slot \in Slot /\ slot # NoSlot
  BY <1>1 DEF ReqState, Idle, Slot, NoSlot
<1>3. req' = [req EXCEPT ![c] = Idle] /\ UNCHANGED <<submitted, user, dead>>
  BY DEF InsertInWttMap
<1>4. \/ ~IsActive(slot) /\ UNCHANGED <<runs, unfinished, wtt, conns>>
      \/ /\ wtt' = [wtt EXCEPT ![name] = slot]
         /\ IF IsActive(old)
            THEN Store(old[1], set_inactive_tasks({old[2]}, View(old[1])))
            ELSE UNCHANGED <<runs, unfinished, conns>>
  BY DEF InsertInWttMap
<1> HIDE DEF slot
<1>5. Progress
  <2>1. IsActive(old) => old[1] \in Run
    BY <1>1 DEF IsActive, Slot
  <2> QED
    BY <1>1, <1>4, <2>1, NoProgress, DeactivateProgress
<1>6. req' \in [Client -> ReqState] /\ LockOk' /\ \A d \in Client \ {c} : req[d] = Idle
  BY <1>1, <1>3, LockReleased DEF Inductive, LockOk
<1>7. wtt' \in [Name -> Slot \cup {NoSlot}]
  BY <1>1, <1>2, <1>4
<1>8. UnfinishedListed' /\ UsersOk'
  BY <1>3, <1>5, UsersWait, ProgressUsers
<1>9. TypeOK'
  <2>1. user' \in [User -> UserState] /\ dead' \subseteq Slot
    BY <1>1, <1>3 DEF TypeOK
  <2> QED
    BY <1>1, <1>3, <1>5, <1>6, <1>7, <2>1 DEF TypeOK, Progress
<1>10. OneTaskPerName'
  <2>1. SUFFICES ASSUME NEW x \in Run, NEW y \in Active(runs'[x])
                 PROVE  wtt'[NameOf[runs'[x].tasks[y].client]] = <<x, y>>
    BY DEF OneTaskPerName
  <2> DEFINE d == runs[x].tasks[y].client
  <2>2. y \in Active(runs[x]) /\ runs'[x].tasks[y].client = d
    BY <1>5 DEF Progress, Active, TaskStep, SameTask
  <2>3. d \in Client /\ NameOf[d] \in Name
    <3>1. runs[x].tasks[y] \in Task
      BY <1>1, <2>2, TasksType DEF TypeOK, Active
    <3> QED
      BY <3>1, ClientAssumption DEF Task
  <2>4. \/ wtt[NameOf[d]] = <<x, y>>
        \/ req[d] = [pc |-> "insert", run |-> x, task |-> y]
    BY <2>2 DEF Inductive, OneTaskPerName
  <2>5. runs[x].tasks[y].active /\ <<x, y>> # NoSlot
    BY <2>2 DEF Active, NoSlot
  <2>6. IsActive(<<x, y>>)
    BY <2>5 DEF IsActive
  <2>7. ASSUME req[d] = [pc |-> "insert", run |-> x, task |-> y]
        PROVE  d = c /\ slot = <<x, y>>
    <3>1. d = c
      BY <1>6, <2>3, <2>7 DEF Idle
    <3> QED
      BY <2>7, <3>1 DEF slot
  <2> HIDE DEF d
  <2>8. CASE ~IsActive(slot) /\ UNCHANGED <<runs, unfinished, wtt, conns>>
    BY <2>2, <2>4, <2>6, <2>7, <2>8
  <2>9. CASE wtt' = [wtt EXCEPT ![name] = slot] /\ ~(NameOf[d] = name /\ wtt[NameOf[d]] = <<x, y>>)
    BY <1>1, <2>2, <2>3, <2>4, <2>7, <2>9
  <2>10. CASE /\ wtt' = [wtt EXCEPT ![name] = slot]
              /\ NameOf[d] = name /\ wtt[NameOf[d]] = <<x, y>>
    <3>1. old = <<x, y>> /\ IsActive(old) /\ old[1] = x /\ old[2] = y
      BY <2>6, <2>10
    <3>2. slot = <<x, y>> \/ slot # <<x, y>>
      OBVIOUS
    <3>3. CASE slot = <<x, y>>
      BY <1>1, <2>2, <2>10, <3>3
    <3>4. CASE slot # <<x, y>>
      <4>1. \/ Store(x, set_inactive_tasks({y}, View(x)))
            \/ UNCHANGED <<runs, unfinished, wtt, conns>>
        BY <1>4, <3>1
      <4>2. CASE Store(x, set_inactive_tasks({y}, View(x)))
        <5>1. Active(set_inactive_tasks({y}, View(x)).run) = Active(View(x).run) \ {y}
          BY <1>1, ViewTyped, InactiveTasksStep
        <5>2. runs'[x] = set_inactive_tasks({y}, View(x)).run
          BY <1>1, <4>2 DEF Store, TypeOK
        <5> QED
          BY <2>1, <5>1, <5>2
      <4>3. CASE UNCHANGED <<runs, unfinished, wtt, conns>>
        BY <2>2, <2>10, <4>3
      <4> QED
        BY <4>1, <4>2, <4>3
    <3> QED
      BY <3>3, <3>4
  <2> QED
    BY <1>4, <2>8, <2>9, <2>10
<1> QED
  BY <1>5, <1>6, <1>8, <1>9, <1>10, ProgressRuns DEF Inductive

(* The choice of a run, with the check of the machine limit. *)
LEMMA RequestTaskKeeps ==
  ASSUME Inductive, NEW c \in Client, RequestTask(c)
  PROVE  Inductive' /\ Progress
<1>1. PICK r \in unfinished, a \in Addr :
        /\ req' = [req EXCEPT ![c] = [pc |-> "append", run |-> r, addr |-> a]]
        /\ conns[a] < ConnLimit
  BY DEF RequestTask
<1> DEFINE s == [pc |-> "append", run |-> r, addr |-> a]
<1>2. /\ \A d \in Client : req[d] = Idle
      /\ UNCHANGED <<runs, submitted, unfinished, wtt, conns, user, dead>>
  BY DEF RequestTask, RequestLockFree
<1>3. TypeOK /\ r \in submitted /\ r \in Run /\ req \in [Client -> ReqState]
  BY DEF Inductive, TypeOK
<1>4. s \in ReqState /\ s.pc = "append" /\ s.run = r /\ s.addr = a
  BY <1>3 DEF ReqState
<1>5. req' \in [Client -> ReqState] /\ req'[c] = s /\ \A d \in Client \ {c} : req'[d] = Idle
  <2> HIDE DEF s
  <2>1. req' = [req EXCEPT ![c] = s]
    BY <1>1 DEF s
  <2> QED
    BY <1>2, <1>3, <1>4, <2>1
<1> HIDE DEF s
<1>6. Progress
  BY <1>2, <1>3, NoProgress
<1>7. UnfinishedListed' /\ UsersOk'
  BY <1>2, <1>6, UsersWait, ProgressUsers
<1>8. LockOk'
  BY <1>1, <1>2, <1>3, <1>4, <1>5 DEF LockOk, Idle
<1>9. OneTaskPerName'
  <2>1. SUFFICES ASSUME NEW x \in Run, NEW t \in Active(runs[x])
                 PROVE  wtt[NameOf[runs[x].tasks[t].client]] = <<x, t>>
    BY <1>2 DEF OneTaskPerName
  <2>2. runs[x].tasks[t].client \in Client
    BY <1>3, TasksType DEF TypeOK, Active, Task
  <2>3. req[runs[x].tasks[t].client] # [pc |-> "insert", run |-> x, task |-> t]
    BY <1>2, <2>2 DEF Idle
  <2> QED
    BY <2>3 DEF Inductive, OneTaskPerName
<1>10. TypeOK'
  BY <1>2, <1>3, <1>5 DEF TypeOK
<1> QED
  BY <1>6, <1>7, <1>8, <1>9, <1>10, ProgressRuns DEF Inductive

(* clean_wtt_map() *)
LEMMA CleanWttMapKeeps ==
  ASSUME Inductive, NEW n \in Name, CleanWttMap(n)
  PROVE  Inductive' /\ Progress
<1>1. /\ TypeOK /\ wtt \in [Name -> Slot \cup {NoSlot}] /\ ~IsActive(wtt[n])
      /\ wtt' = [wtt EXCEPT ![n] = NoSlot]
      /\ UNCHANGED <<runs, submitted, unfinished, conns, req, user, dead>>
  BY DEF Inductive, TypeOK, CleanWttMap
<1>2. Progress
  BY <1>1, NoProgress
<1>3. UnfinishedListed' /\ UsersOk'
  BY <1>1, <1>2, UsersWait, ProgressUsers
<1>4. LockOk'
  BY <1>1 DEF Inductive, LockOk
<1>5. wtt' \in [Name -> Slot \cup {NoSlot}] /\ \A m \in Name \ {n} : wtt'[m] = wtt[m]
  BY <1>1
<1>6. TypeOK'
  BY <1>1, <1>5 DEF TypeOK
<1>7. OneTaskPerName'
  <2>1. SUFFICES ASSUME NEW x \in Run, NEW t \in Active(runs[x])
                 PROVE  LET c == runs[x].tasks[t].client
                        IN  \/ wtt'[NameOf[c]] = <<x, t>>
                            \/ req[c] = [pc |-> "insert", run |-> x, task |-> t]
    BY <1>1 DEF OneTaskPerName
  <2>2. runs[x].tasks[t].active /\ runs[x].tasks[t].client \in Client
    BY <1>1, TasksType DEF TypeOK, Active, Task
  <2>3. NameOf[runs[x].tasks[t].client] \in Name
    BY <2>2, ClientAssumption
  <2>4. wtt[n] # <<x, t>>
    BY <1>1, <2>2 DEF IsActive, NoSlot
  <2> QED
    BY <1>5, <2>3, <2>4 DEF Inductive, OneTaskPerName
<1> QED
  BY <1>2, <1>3, <1>4, <1>6, <1>7, ProgressRuns DEF Inductive

----------------------------------------------------------------------------
(* The theorems. *)

\* The invariant holds before any run exists.
LEMMA InitOk == ASSUME Init PROVE Inductive
<1> DEFINE run == NewRunObject("games", 0, FALSE)
<1>1. /\ run.tasks = <<>> /\ run.bad_tasks = {} /\ run.workers = 0 /\ run.cores = 0
      /\ run.committed = 0 /\ run.total = 0 /\ ~run.finished
  BY DEF NewRunObject
<1>2. run \in RunObject
  <2>1. <<>> \in Seq(Task) /\ Zero \in Stat
    BY DEF Zero, Stat
  <2> QED
    BY <2>1 DEF NewRunObject, RunObject, Flags, Verdicts
<1>3. runs = [r \in Run |-> run]
  BY DEF Init
<1> HIDE DEF run
<1>4. Ids(run) = {} /\ Active(run) = {}
  BY <1>1 DEF Ids, Active
<1>5. AggregatesOk(run)
  BY <1>1, <1>4, SumOfNone, FS_EmptySet
     DEF AggregatesOk, compute_workers, compute_cores, compute_committed_games,
         compute_total_games
<1>6. BadTasksOk(run) /\ StartsOk(run) /\ QuietOk(run)
  BY <1>1, <1>4 DEF BadTasksOk, StartsOk, OpeningsOk, QuietOk
<1>7. TypeOK
  <2>1. Idle \in ReqState /\ Idle \in UserState
    BY DEF ReqState, UserState
  <2>2. runs \in [Run -> RunObject]
    BY <1>2, <1>3
  <2>3. wtt \in [Name -> Slot \cup {NoSlot}] /\ conns \in [Addr -> Int]
    BY DEF Init
  <2>4. req \in [Client -> ReqState]
    BY <2>1 DEF Init
  <2>5. user \in [User -> UserState]
    BY <2>1 DEF Init
  <2> QED
    BY <2>2, <2>3, <2>4, <2>5 DEF Init, TypeOK
<1>8. AggregatesMatch /\ FinishedIsQuiet /\ BadTasksOnce /\ AllStartsOk
  BY <1>3, <1>5, <1>6 DEF AggregatesMatch, FinishedIsQuiet, BadTasksOnce, AllStartsOk
<1>9. ConnectionsMatch /\ ConnectionLimit
  <2>1. ASSUME NEW a \in Addr
        PROVE  SumOver([r \in Run |-> Cardinality(ActiveAt(a, runs[r]))], Run) = 0
    <3> DEFINE f == [r \in Run |-> Cardinality(ActiveAt(a, runs[r]))]
    <3>1. \A r \in Run : f[r] = 0
      BY <1>3, <1>4, FS_EmptySet DEF ActiveAt
    <3> HIDE DEF f
    <3>2. SumOver(f, Run) = 0
      BY <3>1, SumOfZeros
    <3> QED
      BY <3>2 DEF f
  <2> QED
    <3>1. \A a \in Addr : conns[a] = 0
      BY DEF Init
    <3>2. 0 <= ConnLimit
      BY BoundAssumption
    <3> QED
      BY <2>1, <3>1, <3>2 DEF ConnectionsMatch, ConnectionLimit
<1>10. UnfinishedListed /\ OneTaskPerName /\ UsersOk /\ LockOk
  BY <1>3, <1>4 DEF Init, UnfinishedListed, OneTaskPerName, UsersOk, LockOk, Idle
<1> QED
  BY <1>7, <1>8, <1>9, <1>10 DEF Inductive

\* What no step does to a task that is there.
TasksKept ==
    \A r \in submitted : \A t \in Ids(runs[r]) :
        /\ t \in Ids(runs'[r])
        /\ TaskStep(runs[r].tasks[t], runs'[r].tasks[t])
        /\ t \in Active(runs'[r]) => t \in Active(runs[r])

(* Every step preserves the invariant, and what is said of its tasks. *)
LEMMA NextKeeps ==
  ASSUME Inductive, Next
  PROVE  Inductive' /\ TasksKept
<1>1. Progress => TasksKept
  BY DEF Inductive, TypeOK, Progress, TasksKept
<1>2. ASSUME NEW c \in Client, RequestNext(c)
      PROVE  Inductive' /\ TasksKept
  <2>1. CASE RequestTask(c)
    BY <1>1, <2>1, RequestTaskKeeps
  <2>2. CASE AppendTask(c)
    <3>1. ASSUME \A x \in Run : \A t \in Ids(runs[x]) :
                   t \in Ids(runs'[x]) /\ runs'[x].tasks[t] = runs[x].tasks[t]
          PROVE  TasksKept
      BY <3>1 DEF Inductive, TypeOK, TasksKept, TaskStep, SameTask, Active
    <3> QED
      BY <1>1, <2>2, <3>1, AppendTaskKeeps
  <2>3. CASE InsertInWttMap(c)
    BY <1>1, <2>3, InsertInWttMapKeeps
  <2> QED
    BY <1>2, <2>1, <2>2, <2>3 DEF RequestNext
<1>3. ASSUME NEW c \in Client, NEW r \in Run, NEW t \in Ids(runs[r]), WorkerNext(c, r, t)
      PROVE  Inductive' /\ TasksKept
  BY <1>1, <1>3, UpdateTaskKeeps, BeatKeeps, FailTaskKeeps, WorkerStopsRunKeeps DEF WorkerNext
<1>4. ASSUME NEW u \in User, NEW r \in Run, UserNext(u, r)
      PROVE  Inductive' /\ TasksKept
  <2>1. CASE NewRun(u, r)
    <3>1. \A x \in submitted : x \in Run /\ runs'[x] = runs[x]
      BY <2>1 DEF NewRun, Inductive, TypeOK
    <3>2. TasksKept
      BY <3>1 DEF TasksKept, TaskStep, SameTask
    <3> QED
      BY <2>1, <3>2, NewRunKeeps
  <2> QED
    BY <1>1, <1>4, <2>1, ApproveRunKeeps, ModifyRunKeeps, StopRunKeeps, PurgeRunKeeps DEF UserNext
<1>5. ASSUME NEW u \in User, UserContinues(u)
      PROVE  Inductive' /\ TasksKept
  BY <1>1, <1>5, RegisterKeeps, ModifyArgsKeeps, ModifyReviveKeeps, ActivateRunKeeps,
     MarkDeletedKeeps, PurgeSearchKeeps, PurgeMarkKeeps, PurgeComputeKeeps, PurgeWritesKeep,
     PurgeMovesKeep DEF UserContinues, PurgeWrites, PurgeMoves
<1>6. ASSUME NEW r \in Run, NEW t \in Ids(runs[r]), GrowOlder(r, t)
      PROVE  Inductive' /\ TasksKept
  BY <1>1, <1>6, GrowOlderKeeps
<1>7. CASE Scavenge
  BY <1>1, <1>7, ScavengeKeeps
<1>8. CASE KillDeadTask
  BY <1>1, <1>8, KillDeadTaskKeeps
<1>9. ASSUME NEW n \in Name, CleanWttMap(n)
      PROVE  Inductive' /\ TasksKept
  BY <1>1, <1>9, CleanWttMapKeeps
<1> QED
  BY <1>2, <1>3, <1>4, <1>5, <1>6, <1>7, <1>8, <1>9 DEF Next

\* A step that changes nothing preserves the invariant.
LEMMA StutterKeeps ==
  ASSUME Inductive, UNCHANGED vars
  PROVE  Inductive' /\ TasksKept
BY DEF vars, Inductive, TypeOK, AggregatesMatch, FinishedIsQuiet, BadTasksOnce, AllStartsOk,
       ConnectionsMatch, ConnectionLimit, UnfinishedListed, OneTaskPerName, UsersOk, LockOk,
       TasksKept, TaskStep, SameTask

(* The invariant holds in every state of every behaviour of the server. *)
THEOREM Invariant == Spec => []Inductive
<1>1. Init => Inductive
  BY InitOk
<1>2. Inductive /\ [Next]_vars => Inductive'
  BY NextKeeps, StutterKeeps
<1> QED
  BY <1>1, <1>2, PTL DEF Spec

(* Every variable has its type: no handler leaves an object that the schema of *)
(* runs does not know.                                                         *)
THEOREM TypeCorrect == Spec => []TypeOK
<1>1. Inductive => TypeOK
  BY DEF Inductive
<1> QED
  BY <1>1, Invariant, PTL

(* The counters of workers, cores, committed and total games of a run, which   *)
(* every handler of rundb.py adds to and subtracts from, are at all times the   *)
(* sums over its tasks.                                                        *)
THEOREM AggregatesCorrect == Spec => []AggregatesMatch
<1>1. Inductive => AggregatesMatch
  BY DEF Inductive
<1> QED
  BY <1>1, Invariant, PTL

(* The connection counter of an address is the number of its active tasks.     *)
THEOREM ConnectionsCorrect == Spec => []ConnectionsMatch
<1>1. Inductive => ConnectionsMatch
  BY DEF Inductive
<1> QED
  BY <1>1, Invariant, PTL

(* No address has more active tasks than the machine limit.                    *)
THEOREM LimitKept == Spec => []ConnectionLimit
<1>1. Inductive => ConnectionLimit
  BY DEF Inductive
<1> QED
  BY <1>1, Invariant, PTL

(* A worker name has one active task, but for the moment of its replacement.   *)
THEOREM OneTask == Spec => []OneTaskPerName
<1>1. Inductive => OneTaskPerName
  BY DEF Inductive
<1> QED
  BY <1>1, Invariant, PTL

(* A finished run has no active task.                                          *)
THEOREM FinishedQuiet == Spec => []FinishedIsQuiet
<1>1. Inductive => FinishedIsQuiet
  BY DEF Inductive
<1> QED
  BY <1>1, Invariant, PTL

(* A bad task is settled once, whatever purges run at the same time.           *)
THEOREM BadTasksSettled == Spec => []BadTasksOnce
<1>1. Inductive => BadTasksOnce
  BY DEF Inductive
<1> QED
  BY <1>1, Invariant, PTL

(* No run that is not finished is forgotten by the set of unfinished runs.     *)
THEOREM NoRunForgotten == Spec => []UnfinishedListed
<1>1. Inductive => UnfinishedListed
  BY DEF Inductive
<1> QED
  BY <1>1, Invariant, PTL

(* The tasks of a run are given disjoint parts of the opening book.            *)
THEOREM OpeningsSeparate == Spec => []OpeningsDisjoint
<1>1. Inductive => OpeningsDisjoint
  BY DEF Inductive, AllStartsOk, StartsOk, OpeningsDisjoint
<1> QED
  BY <1>1, Invariant, PTL

(* A task that was taken from its worker is never given back, and no task is   *)
(* ever removed.                                                               *)
THEOREM TasksStayInactive == Spec => NeverReactivated
<1>1. Inductive /\ [Next]_vars =>
        [\A r \in submitted : \A t \in Ids(runs[r]) :
           /\ t \in Ids(runs'[r])
           /\ t \in Active(runs'[r]) => t \in Active(runs[r])]_vars
  BY NextKeeps, StutterKeeps DEF TasksKept
<1> QED
  BY <1>1, Invariant, PTL DEF Spec, NeverReactivated

(* The statistics of a task that is not active are final, unless it is bad.    *)
THEOREM StatsSettled == Spec => SettledStats
<1>1. ASSUME Inductive, [Next]_vars
      PROVE  \A r \in submitted : \A t \in Ids(runs[r]) \ Active(runs[r]) :
               \/ runs'[r].tasks[t].stats = runs[r].tasks[t].stats
               \/ runs'[r].tasks[t].bad
  <2>1. TasksKept
    BY <1>1, NextKeeps, StutterKeeps
  <2> QED
    BY <2>1 DEF TasksKept, TaskStep, Active
<1>2. Inductive /\ [Next]_vars =>
        [\A r \in submitted : \A t \in Ids(runs[r]) \ Active(runs[r]) :
           \/ runs'[r].tasks[t].stats = runs[r].tasks[t].stats
           \/ runs'[r].tasks[t].bad]_vars
  BY <1>1
<1> QED
  BY <1>2, Invariant, PTL DEF Spec, SettledStats
----------------------------------------------------------------------------
(***************************************************************************)
(* Results and flags.  Most steps are calm: they leave the results and the *)
(* flag of every run right if they were so, and do not touch the           *)
(* statistics of a finished run.  What is left are a few steps of purges   *)
(* and modifications, which are looked at one by one.                      *)
(***************************************************************************)

CalmStep(x, y) ==
    /\ DataStep(x, y)
    /\ x.finished => /\ y.finished
                     /\ compute_results(y) = compute_results(x)
                     /\ compute_flags(y) = compute_flags(x)

Calm == \A r \in Run : CalmStep(runs[r], runs'[r])

\* No thread of a user is in the middle of a purge, or comes there, or is done with it.
UsersElsewhere ==
    \A u \in User :
        \/ user'[u] = user[u]
        \/ /\ user[u].pc \notin PurgeSteps \cup {"activate"}
           /\ user'[u].pc \notin PurgeSteps

\* The steps in which the flag is about to be set.
FlagSteps == {"reset", "state", "judge", "flag", "update", "activate"}

(* Nothing is as calm as an unchanged run. *)
LEMMA SameCalm == ASSUME NEW x PROVE CalmStep(x, x)
BY DEF CalmStep, DataStep

(* A step that changes one run, and this one calmly. *)
LEMMA OneCalm ==
  ASSUME TypeOK, NEW r \in Run, NEW run, CalmStep(runs[r], run),
         runs' = [runs EXCEPT ![r] = run]
  PROVE  Calm
<1>1. runs'[r] = run /\ \A x \in Run \ {r} : runs'[x] = runs[x]
  BY DEF TypeOK
<1> QED
  BY <1>1, SameCalm DEF Calm

(* A step that changes no run. *)
LEMMA NoneCalm == ASSUME UNCHANGED runs PROVE Calm
BY SameCalm DEF Calm

(* An assignment to what neither results nor flag depend on. *)
LEMMA ObjectCalm ==
  ASSUME NEW x, NEW y, SameVerdict(x, y), x.tasks = y.tasks
  PROVE  CalmStep(x, y)
<1>1. compute_results(y) = compute_results(x)
  BY SameStats DEF Ids
<1> QED
  BY <1>1, SameFlag DEF CalmStep, DataStep, SameVerdict, ResultsAdd

(* Taking tasks from their workers is calm. *)
LEMMA DeactivateCalm ==
  ASSUME TypeOK, NEW r \in Run, NEW T, Store(r, set_inactive_tasks(T, View(r)))
  PROVE  Calm
<1> DEFINE w == set_inactive_tasks(T, View(r))
<1>1. View(r) \in ViewType /\ View(r).run = runs[r]
  BY ViewTyped DEF View
<1>2. /\ SameVerdict(runs[r], w.run)
      /\ compute_results(w.run) = compute_results(runs[r])
      /\ DataStep(runs[r], w.run)
  BY <1>1, InactiveTasksData
<1> HIDE DEF w
<1>3. CalmStep(runs[r], w.run)
  BY <1>2, SameFlag DEF CalmStep, SameVerdict
<1>4. runs' = [runs EXCEPT ![r] = w.run]
  BY DEF Store, w
<1> QED
  BY <1>3, <1>4, OneCalm

(* A report is calm: only an active task takes it, and its run is not finished. *)
LEMMA UpdateTaskCalm ==
  ASSUME Inductive, NEW c \in Client, NEW r \in Run, NEW t \in Ids(runs[r]),
         NEW stats \in Reports, UpdateTask(c, r, t, stats)
  PROVE  Calm
<1> DEFINE v == View(r)
           new == Updated(t, stats, v)
<1>1. TypeOK /\ v \in ViewType /\ v.run = runs[r]
  BY ViewTyped DEF Inductive, View
<1>2. t \in Active(v.run) /\ stats \in Report /\ ~v.run.finished
  <2>1. t \in Active(runs[r]) /\ stats \in Report
    BY ReportAssumption DEF UpdateTask, Active, Report
  <2> QED
    BY <1>1, <2>1 DEF Inductive, FinishedIsQuiet, QuietOk
<1>3. ASSUME NEW w, Store(r, w), DataStep(runs[r], w.run)
      PROVE  Calm
  <2>1. CalmStep(runs[r], w.run) /\ runs' = [runs EXCEPT ![r] = w.run]
    BY <1>1, <1>2, <1>3 DEF CalmStep, Store
  <2> QED
    BY <1>1, <2>1, OneCalm
<1>4. CASE ~ReportOk(v.run, v.run.tasks[t], stats)
  BY <1>1, <1>4, DeactivateCalm DEF UpdateTask
<1>5. CASE ReportOk(v.run, v.run.tasks[t], stats)
  <2>1. Games(stats) >= Games(v.run.tasks[t].stats)
    BY <1>5 DEF ReportOk
  <2>2. DataStep(runs[r], new.run) /\ new \in ViewType
    BY <1>1, <1>2, <2>1, UpdatedData, UpdatedStep DEF OpStep
  <2>3. ASSUME NEW stopped \in Stopped(new)
        PROVE  DataStep(runs[r], stopped.run)
    BY <2>2, <2>3, StoppedData, DataTransitive
  <2>4. Store(r, new) \/ \E stopped \in Stopped(new) : Store(r, stopped)
    BY <1>5 DEF UpdateTask
  <2> HIDE DEF new
  <2> QED
    BY <1>3, <2>2, <2>3, <2>4
<1> QED
  BY <1>4, <1>5

(* So is the other way in which a worker stops a run. *)
LEMMA WorkerStopsRunCalm ==
  ASSUME Inductive, NEW c \in Client, NEW r \in Run, NEW t \in Ids(runs[r]),
         WorkerStopsRun(c, r, t)
  PROVE  Calm
<1> DEFINE v == View(r)
           failed == [v EXCEPT !.run.failed = TRUE]
<1>1. TypeOK /\ v \in ViewType /\ v.run = runs[r] /\ ~runs[r].finished
  BY ViewTyped DEF Inductive, View, WorkerStopsRun
<1>2. /\ failed \in ViewType /\ SameVerdict(v.run, failed.run)
      /\ v.run.tasks = failed.run.tasks
  BY <1>1 DEF ViewType, RunObject, SameVerdict
<1>3. PICK stopped \in Stopped(failed) : Store(r, stopped)
  BY DEF WorkerStopsRun
<1> HIDE DEF v, failed
<1>4. DataStep(v.run, failed.run)
  BY <1>2, ObjectCalm DEF CalmStep
<1>5. DataStep(failed.run, stopped.run)
  BY <1>2, <1>3, StoppedData
<1>6. CalmStep(runs[r], stopped.run)
  BY <1>1, <1>4, <1>5, DataTransitive DEF CalmStep
<1>7. runs' = [runs EXCEPT ![r] = stopped.run]
  BY <1>3 DEF Store
<1> QED
  BY <1>1, <1>6, <1>7, OneCalm

(* A heartbeat and the passing of time. *)
LEMMA AgeCalm ==
  ASSUME TypeOK, NEW r \in Run, NEW t \in Ids(runs[r]), NEW age,
         runs' = [runs EXCEPT ![r].tasks[t].age = age]
  PROVE  Calm
<1> DEFINE task == [runs[r].tasks[t] EXCEPT !.age = age]
           tasks2 == [runs[r].tasks EXCEPT ![t] = task]
           run == [runs[r] EXCEPT !.tasks = tasks2]
<1>1. /\ runs[r] \in RunObject /\ runs[r].tasks \in Seq(Task)
      /\ t \in DOMAIN runs[r].tasks /\ runs[r].tasks[t] \in Task
  BY TasksType DEF TypeOK, RunObject, Ids
<1>2. runs' = [runs EXCEPT ![r] = run]
  BY <1>1 DEF TypeOK, RunObject, Task
<1>3. task.stats = runs[r].tasks[t].stats
  BY <1>1 DEF Task
<1> HIDE DEF task
<1>4. /\ DOMAIN tasks2 = DOMAIN runs[r].tasks
      /\ \A s \in DOMAIN runs[r].tasks : tasks2[s].stats = runs[r].tasks[s].stats
  BY <1>1, <1>3
<1> HIDE DEF tasks2
<1>5. run.tasks = tasks2 /\ SameVerdict(runs[r], run)
  BY <1>1 DEF RunObject, SameVerdict
<1>6. compute_results(run) = compute_results(runs[r])
  BY <1>4, <1>5, SameStats DEF Ids
<1> HIDE DEF run
<1>7. CalmStep(runs[r], run)
  BY <1>5, <1>6, SameFlag DEF CalmStep, DataStep, SameVerdict, ResultsAdd
<1> QED
  BY <1>2, <1>7, OneCalm

(* A new task has no games yet, and only a run that is not finished gets one. *)
LEMMA AppendTaskCalm ==
  ASSUME Inductive, NEW c \in Client, AppendTask(c)
  PROVE  Calm
<1> DEFINE r == req[c].run
           run == runs[r]
           task == NewTask(c, req[c].addr, run)
           n == Len(run.tasks) + 1
           new == WithTask(run, task)
<1>1. /\ TypeOK /\ r \in Run /\ run \in RunObject /\ req[c].pc = "append"
      /\ req[c] # Idle /\ req[c] \in ReqState
  BY DEF Inductive, TypeOK, LockOk, AppendTask, Idle
<1>2. CASE ~NeedsGames(run)
  BY <1>2, NoneCalm DEF AppendTask
<1>3. CASE NeedsGames(run)
  <2>1. runs' = [runs EXCEPT ![r] = new] /\ ~run.finished
    BY <1>1, <1>3 DEF AppendTask, NeedsGames
  <2>2. /\ task \in Task /\ task.active /\ ~task.bad /\ task.start = run.total
        /\ task.stats = Zero
    <3>1. req[c].addr \in Addr
      BY <1>1 DEF ReqState, Idle
    <3> QED
      BY <1>1, <1>3, <3>1, NewTaskType
  <2> HIDE DEF task
  <2>3. SameVerdict(run, new)
    BY <1>1 DEF WithTask, RunObject, SameVerdict
  <2>4. /\ n \notin Ids(run) /\ Ids(new) = Ids(run) \cup {n}
        /\ new.tasks[n] = task /\ \A t \in Ids(run) : new.tasks[t] = run.tasks[t]
    BY <1>1, <2>1, <2>2, WithTaskOk
  <2> HIDE DEF new
  <2> HIDE DEF n
  <2>5. compute_results(new) = compute_results(run)
    <3>1. \A f, g : NatValued(f, Ids(run)) /\ g[n] = 0 /\ (\A t \in Ids(run) : f[t] = g[t])
                      => SumOver(g, Ids(new)) = SumOver(f, Ids(run))
      <4>1. TAKE f, g
      <4>2. HAVE NatValued(f, Ids(run)) /\ g[n] = 0 /\ \A t \in Ids(run) : f[t] = g[t]
      <4>3. IsFiniteSet(Ids(run)) /\ SumOver(f, Ids(run)) \in Nat
        BY <1>1, <4>2, StatsType, UnitsFinite
      <4>4. SumOver(g, Ids(run) \cup {n}) = SumOver(f, Ids(run)) + g[n]
        <5>1. NatValued(f, Ids(run)) /\ g[n] \in Nat /\ \A t \in Ids(run) : f[t] = g[t]
          BY <4>2
        <5> QED
          BY <2>4, <4>3, <5>1, SumAddOne
      <4> QED
        BY <2>4, <4>2, <4>3, <4>4
    <3>2. /\ Wins(new)[n] = 0 /\ Losses(new)[n] = 0 /\ Crashes(new)[n] = 0
          /\ \A t \in Ids(run) : /\ Wins(run)[t] = Wins(new)[t]
                                 /\ Losses(run)[t] = Losses(new)[t]
                                 /\ Crashes(run)[t] = Crashes(new)[t]
      BY <2>2, <2>4 DEF Wins, Losses, Crashes, Zero
    <3>3. /\ SumOver(Wins(new), Ids(new)) = SumOver(Wins(run), Ids(run))
          /\ SumOver(Losses(new), Ids(new)) = SumOver(Losses(run), Ids(run))
          /\ SumOver(Crashes(new), Ids(new)) = SumOver(Crashes(run), Ids(run))
      BY <1>1, <3>1, <3>2, StatsType
    <3> QED
      BY <3>3 DEF compute_results
  <2>6. CalmStep(run, new)
    BY <2>1, <2>3, <2>5, SameFlag DEF CalmStep, DataStep, SameVerdict, ResultsAdd
  <2> QED
    BY <1>1, <2>1, <2>6, OneCalm
<1> QED
  BY <1>2, <1>3

(* A thread of a user that does not purge, and leaves alone who does. *)
LEMMA MovesElsewhere ==
  ASSUME TypeOK, NEW u \in User, NEW s, user' = [user EXCEPT ![u] = s],
         user[u].pc \notin PurgeSteps \cup {"activate"},
         s.pc \notin PurgeSteps
  PROVE  UsersElsewhere
<1>1. user'[u] = s /\ \A x \in User \ {u} : user'[x] = user[x]
  BY DEF TypeOK
<1> QED
  BY <1>1 DEF UsersElsewhere

(* Steps of others leave the threads of users alone. *)
LEMMA UsersStay == ASSUME UNCHANGED user PROVE UsersElsewhere
BY DEF UsersElsewhere

(* Steps of workers are calm. *)
LEMMA WorkersCalm ==
  ASSUME Inductive, NEW c \in Client,
         \/ RequestNext(c)
         \/ \E r \in Run : \E t \in Ids(runs[r]) : WorkerNext(c, r, t)
  PROVE  Calm /\ UsersElsewhere
<1>1. TypeOK
  BY DEF Inductive
<1>2. CASE RequestTask(c)
  BY <1>2, NoneCalm, UsersStay DEF RequestTask
<1>3. CASE AppendTask(c)
  BY <1>3, AppendTaskCalm, UsersStay DEF AppendTask
<1>4. CASE InsertInWttMap(c)
  <2> DEFINE old == wtt[NameOf[c]]
  <2>1. old[1] \in Run \/ ~IsActive(old)
    <3>1. NameOf[c] \in Name
      BY ClientAssumption
    <3>2. old \in Slot \cup {NoSlot}
      BY <1>1, <3>1 DEF TypeOK
    <3> QED
      BY <3>2 DEF Slot, IsActive
  <2>2. UNCHANGED runs \/ (old[1] \in Run /\ Store(old[1], set_inactive_tasks({old[2]}, View(old[1]))))
    BY <1>4, <2>1 DEF InsertInWttMap
  <2>3. Calm
    BY <1>1, <2>2, NoneCalm, DeactivateCalm
  <2> QED
    BY <1>4, <2>3, UsersStay DEF InsertInWttMap
<1>5. ASSUME NEW r \in Run, NEW t \in Ids(runs[r]), WorkerNext(c, r, t)
      PROVE  Calm /\ UsersElsewhere
  <2>1. ASSUME NEW stats \in Reports, UpdateTask(c, r, t, stats)
        PROVE  Calm /\ UsersElsewhere
    BY <2>1, UpdateTaskCalm, UsersStay DEF UpdateTask
  <2>2. CASE Beat(c, r, t)
    <3>1. runs' = [runs EXCEPT ![r].tasks[t].age = "fresh"] /\ UNCHANGED user
      BY <2>2 DEF Beat
    <3> QED
      BY <1>1, <3>1, AgeCalm, UsersStay
  <2>3. CASE FailTask(c, r, t)
    BY <1>1, <2>3, DeactivateCalm, UsersStay DEF FailTask
  <2>4. CASE WorkerStopsRun(c, r, t)
    BY <2>4, WorkerStopsRunCalm, UsersStay DEF WorkerStopsRun
  <2> QED
    BY <1>5, <2>1, <2>2, <2>3, <2>4 DEF WorkerNext
<1> QED
  BY <1>2, <1>3, <1>4, <1>5 DEF RequestNext

(* Steps of the scheduler and of the clock are calm. *)
LEMMA SchedulerCalm ==
  ASSUME Inductive,
         \/ \E r \in Run : \E t \in Ids(runs[r]) : GrowOlder(r, t)
         \/ Scavenge \/ KillDeadTask
         \/ \E n \in Name : CleanWttMap(n)
  PROVE  Calm /\ UsersElsewhere
<1>1. TypeOK
  BY DEF Inductive
<1>2. ASSUME NEW r \in Run, NEW t \in Ids(runs[r]), GrowOlder(r, t)
      PROVE  Calm /\ UsersElsewhere
  <2> DEFINE age == Older[runs[r].tasks[t].age]
  <2>1. runs' = [runs EXCEPT ![r].tasks[t].age = age] /\ UNCHANGED user
    <3>1. runs[r] \in RunObject /\ runs[r].tasks \in Seq(Task) /\ t \in DOMAIN runs[r].tasks
      BY <1>1 DEF TypeOK, RunObject, Ids
    <3> QED
      BY <1>1, <1>2, <3>1 DEF GrowOlder, TypeOK, RunObject
  <2> HIDE DEF age
  <2> QED
    BY <1>1, <2>1, AgeCalm, UsersStay
<1>3. CASE Scavenge
  BY <1>3, NoneCalm, UsersStay DEF Scavenge
<1>4. CASE KillDeadTask
  <2>1. PICK slot \in dead : Store(slot[1], set_inactive_tasks({slot[2]}, View(slot[1])))
    BY <1>4 DEF KillDeadTask
  <2>2. slot[1] \in Run
    BY <1>1 DEF TypeOK, Slot
  <2> QED
    BY <1>1, <1>4, <2>1, <2>2, DeactivateCalm, UsersStay DEF KillDeadTask
<1>5. ASSUME NEW n \in Name, CleanWttMap(n)
      PROVE  Calm /\ UsersElsewhere
  BY <1>5, NoneCalm, UsersStay DEF CleanWttMap
<1> QED
  BY <1>2, <1>3, <1>4, <1>5

(* The objects that approve_run(), tests_modify() and tests_delete() assign. *)
LEMMA AssignCalm ==
  ASSUME TypeOK, NEW r \in Run, NEW run, SameVerdict(runs[r], run),
         run.tasks = runs[r].tasks, runs' = [runs EXCEPT ![r] = run]
  PROVE  Calm
BY ObjectCalm, OneCalm

(* set_inactive_run() is calm, although it gives the run a new flag. *)
LEMMA StopCalm ==
  ASSUME TypeOK, NEW r \in Run, Store(r, set_inactive_run(View(r)))
  PROVE  Calm
<1> DEFINE v == View(r)
           w == set_inactive_run(v)
<1>1. v \in ViewType /\ v.run = runs[r]
  BY ViewTyped DEF View
<1>2. /\ DataStep(v.run, w.run) /\ compute_results(w.run) = compute_results(v.run)
      /\ v.run.finished => compute_flags(w.run) = compute_flags(v.run)
  BY <1>1, InactiveRunData
<1>3. w.run.finished
  <2> DEFINE quiet == set_inactive_tasks(Ids(v.run), v)
             run == [quiet.run EXCEPT !.finished = TRUE]
             flag == compute_flags(run)
  <2>1. quiet \in ViewType
    BY <1>1, InactiveTasksStep DEF OpStep
  <2>2. w.run = [run EXCEPT !.flag = flag]
    BY <2>1 DEF set_inactive_run, LockedFlag, ViewType
  <2> HIDE DEF quiet, flag, w
  <2> QED
    BY <2>1, <2>2 DEF ViewType, RunObject
<1>4. runs' = [runs EXCEPT ![r] = w.run]
  BY DEF Store
<1> HIDE DEF v, w
<1>5. CalmStep(runs[r], w.run)
  BY <1>1, <1>2, <1>3 DEF CalmStep
<1> QED
  BY <1>4, <1>5, OneCalm

(* What a user begins is calm, but for a new run. *)
LEMMA UserBeginsCalm ==
  ASSUME Inductive, NEW u \in User, NEW r \in Run, UserNext(u, r), ~NewRun(u, r)
  PROVE  Calm /\ UsersElsewhere
<1>1. /\ TypeOK /\ runs[r] \in RunObject
      /\ user[u] = Idle => user[u].pc \notin PurgeSteps \cup {"activate"}
  BY DEF Inductive, TypeOK, Idle, PurgeSteps
<1>2. CASE ApproveRun(u, r)
  <2> DEFINE run == [runs[r] EXCEPT !.approved = TRUE]
  <2>1. runs' = [runs EXCEPT ![r] = run] /\ UNCHANGED user
    BY <1>1, <1>2 DEF ApproveRun, TypeOK
  <2>2. SameVerdict(runs[r], run) /\ run.tasks = runs[r].tasks
    BY <1>1 DEF RunObject, SameVerdict
  <2> HIDE DEF run
  <2> QED
    BY <1>1, <2>1, <2>2, AssignCalm, UsersStay
<1>3. CASE ModifyRun(u, r)
  <2>1. PICK n \in NumGames, auto \in AutoPurge, keep \in BOOLEAN :
          /\ runs' = [runs EXCEPT ![r].approved = @ /\ keep]
          /\ user' = [user EXCEPT ![u] =
                [pc |-> "modify", run |-> r, num_games |-> n, auto |-> auto]]
    BY <1>3 DEF ModifyRun
  <2> DEFINE run == [runs[r] EXCEPT !.approved = @ /\ keep]
             s == [pc |-> "modify", run |-> r, num_games |-> n, auto |-> auto]
  <2>2. runs' = [runs EXCEPT ![r] = run] /\ user' = [user EXCEPT ![u] = s]
    BY <1>1, <2>1 DEF TypeOK
  <2>3. SameVerdict(runs[r], run) /\ run.tasks = runs[r].tasks
    BY <1>1 DEF RunObject, SameVerdict
  <2>4. s.pc = "modify" /\ user[u] = Idle
    BY <1>3 DEF ModifyRun
  <2> HIDE DEF run, s
  <2> QED
    BY <1>1, <2>2, <2>3, <2>4, AssignCalm, MovesElsewhere DEF PurgeSteps
<1>4. CASE StopRun(u, r)
  <2> DEFINE s == IF runs[r].auto_purge /\ runs[r].kind # "spsa"
                  THEN [pc |-> "purge", run |-> r] ELSE Idle
  <2>1. /\ user[u] = Idle /\ Store(r, set_inactive_run(View(r)))
        /\ user' = [user EXCEPT ![u] = s]
    BY <1>4 DEF StopRun
  <2>2. s.pc \notin PurgeSteps
    BY DEF Idle, PurgeSteps
  <2> HIDE DEF s
  <2> QED
    BY <1>1, <2>1, <2>2, StopCalm, MovesElsewhere
<1>5. CASE DeleteRun(u, r)
  <2> DEFINE s == [pc |-> "delete", run |-> r]
  <2>1. /\ user[u] = Idle /\ Store(r, set_inactive_run(View(r)))
        /\ user' = [user EXCEPT ![u] = s]
    BY <1>5 DEF DeleteRun
  <2>2. s.pc \notin PurgeSteps
    BY DEF PurgeSteps
  <2> HIDE DEF s
  <2> QED
    BY <1>1, <2>1, <2>2, StopCalm, MovesElsewhere
<1>6. CASE PurgeRun(u, r)
  <2> DEFINE s == [pc |-> "purge", run |-> r]
  <2>1. user[u] = Idle /\ user' = [user EXCEPT ![u] = s] /\ UNCHANGED runs
    BY <1>6 DEF PurgeRun
  <2>2. s.pc \notin PurgeSteps
    BY DEF PurgeSteps
  <2> HIDE DEF s
  <2> QED
    BY <1>1, <2>1, <2>2, NoneCalm, MovesElsewhere
<1> QED
  BY <1>2, <1>3, <1>4, <1>5, <1>6 DEF UserNext

\* The steps that are looked at one by one.
Purges(u) == \/ ActivateRun(u) \/ PurgeSearch(u) \/ PurgeMark(u)
             \/ PurgeCompute(u) \/ PurgeWrites(u) \/ PurgeMoves(u)

(* The other requests of users go on calmly. *)
LEMMA UserContinuesCalm ==
  ASSUME Inductive, NEW u \in User, UserContinues(u), ~ModifyArgs(u), ~Purges(u)
  PROVE  Calm /\ UsersElsewhere
<1> DEFINE r == user[u].run
<1>1. /\ TypeOK
      /\ user[u] # Idle => r \in Run /\ runs[r] \in RunObject
  BY DEF Inductive, UsersOk, TypeOK
<1>2. CASE Register(u)
  <2>1. /\ user[u].pc = "register" /\ user' = [user EXCEPT ![u] = Idle] /\ UNCHANGED runs
        /\ Idle.pc \notin PurgeSteps
    BY <1>2 DEF Register, Idle, PurgeSteps
  <2> QED
    BY <1>1, <2>1, NoneCalm, MovesElsewhere DEF PurgeSteps
<1>3. CASE ModifyRevive(u)
  <2> DEFINE s == IF is_undecided(runs[r]) THEN [pc |-> "activate", run |-> r] ELSE Idle
  <2>1. user[u].pc = "revive" /\ user' = [user EXCEPT ![u] = s] /\ UNCHANGED runs
    BY <1>1, <1>3 DEF ModifyRevive, TypeOK
  <2>2. s.pc \notin PurgeSteps
    BY DEF Idle, PurgeSteps
  <2> HIDE DEF s
  <2> QED
    BY <1>1, <2>1, <2>2, NoneCalm, MovesElsewhere DEF PurgeSteps
<1>4. CASE MarkDeleted(u)
  <2> DEFINE run == [runs[r] EXCEPT !.deleted = TRUE]
  <2>1. /\ user[u].pc = "delete" /\ user' = [user EXCEPT ![u] = Idle]
        /\ r \in Run /\ runs[r] \in RunObject
        /\ Idle.pc \notin PurgeSteps
    BY <1>1, <1>4 DEF MarkDeleted, Idle, PurgeSteps
  <2>2. runs' = [runs EXCEPT ![r] = run]
    BY <1>1, <1>4, <2>1 DEF MarkDeleted, TypeOK
  <2>3. SameVerdict(runs[r], run) /\ run.tasks = runs[r].tasks
    BY <2>1 DEF RunObject, SameVerdict
  <2> HIDE DEF run
  <2> QED
    BY <1>1, <2>1, <2>2, <2>3, AssignCalm, MovesElsewhere DEF PurgeSteps
<1> QED
  BY <1>2, <1>3, <1>4 DEF UserContinues, Purges, PurgeWrites, PurgeMoves

(* Every step is calm, or one of those that are looked at one by one. *)
LEMMA NextCalm ==
  ASSUME Inductive, [Next]_vars
  PROVE  \/ Calm /\ UsersElsewhere
         \/ \E u \in User, r \in Run : NewRun(u, r)
         \/ \E u \in User : ModifyArgs(u) \/ Purges(u)
<1>1. CASE UNCHANGED vars
  BY <1>1, NoneCalm, UsersStay DEF vars
<1>2. CASE Next
  BY <1>2, WorkersCalm, SchedulerCalm, UserBeginsCalm, UserContinuesCalm DEF Next
<1> QED
  BY <1>1, <1>2

\* What tests_modify() does to the object of a run, and to the thread.
LEMMA ModifyArgsObject ==
  ASSUME Inductive, NEW u \in User, ModifyArgs(u)
  PROVE  LET r == user[u].run
             s == [pc |-> "revive", run |-> r]
         IN  /\ r \in Run /\ user[u].pc = "modify"
             /\ user' = [user EXCEPT ![u] = s]
             /\ \A x \in Run \ {r} : runs'[x] = runs[x]
             /\ runs'[r].num_games \in Int
             /\ runs'[r].tasks = runs[r].tasks
             /\ runs'[r].finished = runs[r].finished
             /\ runs'[r].results = runs[r].results
             /\ compute_flags(runs'[r]) = compute_flags(runs[r])
             /\ FlagFits(runs[r]) => FlagFits(runs'[r])
<1> DEFINE r == user[u].run
           run == [runs[r] EXCEPT !.num_games = user[u].num_games, !.auto_purge = user[u].auto]
<1>1. /\ TypeOK /\ r \in Run /\ runs[r] \in RunObject
      /\ user[u].pc = "modify" /\ user[u].num_games \in Int
  BY DEF Inductive, TypeOK, UsersOk, ModifyArgs, UserState, Idle
<1>2. runs' = [runs EXCEPT ![r] = run]
  BY <1>1 DEF ModifyArgs, TypeOK
<1>3. user' = [user EXCEPT ![u] = [pc |-> "revive", run |-> r]]
  BY <1>1 DEF ModifyArgs, TypeOK
<1>4. /\ run.num_games \in Int /\ run.tasks = runs[r].tasks
      /\ run.finished = runs[r].finished /\ run.results = runs[r].results
      /\ run.kind = runs[r].kind /\ run.state = runs[r].state /\ run.flag = runs[r].flag
  BY <1>1 DEF RunObject
<1> HIDE DEF run
<1>5. runs'[r] = run /\ \A x \in Run \ {r} : runs'[x] = runs[x]
  BY <1>1, <1>2 DEF TypeOK
<1>6. compute_flags(run) = compute_flags(runs[r]) /\ (FlagFits(runs[r]) => FlagFits(run))
  BY <1>4 DEF FlagFits, compute_flags
<1> QED
  BY <1>1, <1>3, <1>4, <1>5, <1>6

\* What a user who submits a run does to its object, and to the thread.
LEMMA NewRunObjects ==
  ASSUME Inductive, NEW u \in User, NEW r \in Run, NewRun(u, r)
  PROVE  /\ user[u] = Idle /\ r \notin submitted
         /\ user' = [user EXCEPT ![u] = [pc |-> "register", run |-> r]]
         /\ \A x \in Run \ {r} : runs'[x] = runs[x]
         /\ submitted' = submitted \cup {r}
         /\ Ids(runs[r]) = {} /\ Ids(runs'[r]) = {}
         /\ runs'[r].num_games \in Int /\ ~runs'[r].finished
         /\ ResultsAdd(runs'[r]) /\ FlagFits(runs'[r])
<1>1. TypeOK /\ Ids(runs[r]) = {}
  BY DEF Inductive, UsersOk, NewRun
<1>2. PICK kind \in Kinds, n \in NumGames, auto \in AutoPurge :
         runs' = [runs EXCEPT ![r] = NewRunObject(kind, n, auto)]
  BY DEF NewRun
<1> DEFINE run == NewRunObject(kind, n, auto)
<1>3. runs'[r] = run /\ \A x \in Run \ {r} : runs'[x] = runs[x]
  BY <1>1, <1>2 DEF TypeOK
<1>4. /\ run.num_games \in Int /\ ~run.finished /\ run.tasks = <<>>
      /\ run.results = Zero /\ run.flag = "none"
  BY UserInputAssumption DEF NewRunObject
<1> HIDE DEF run
<1>5. Ids(run) = {} /\ FlagFits(run)
  BY <1>4, UnfinishedFlag DEF Ids, FlagFits
<1>6. ResultsAdd(run)
  BY <1>4, <1>5, SumOfNone DEF ResultsAdd, compute_results, Zero
<1> QED
  BY <1>1, <1>3, <1>4, <1>5, <1>6 DEF NewRun

(* What the steps of a purge do to the run, and to the thread. *)
LEMMA ThreadOfPurge ==
  ASSUME Inductive, NEW u \in User, Purges(u)
  PROVE  /\ TypeOK /\ user[u].run \in submitted /\ user[u].run \in Run
         /\ runs[user[u].run] \in RunObject /\ View(user[u].run) \in ViewType
         /\ View(user[u].run).run = runs[user[u].run]
<1>0. user[u].pc # "idle"
  <2>1. PurgeWrites(u) => user[u].pc # "idle"
    BY DEF PurgeWrites, PurgeAssign, PurgeReset, PurgeState, PurgeUpdate
  <2>2. PurgeMoves(u) => user[u].pc # "idle"
    BY DEF PurgeMoves, PurgeJudge, PurgeFlag
  <2>3. ActivateRun(u) \/ PurgeSearch(u) \/ PurgeMark(u) \/ PurgeCompute(u)
        => user[u].pc # "idle"
    BY DEF ActivateRun, PurgeSearch, PurgeMark, PurgeCompute
  <2> QED
    BY <2>1, <2>2, <2>3 DEF Purges
<1>1. TypeOK /\ user[u] # Idle
  BY <1>0 DEF Inductive, Idle
<1>2. user[u].run \in submitted
  BY <1>1 DEF Inductive, UsersOk
<1>3. user[u].run \in Run
  BY <1>1, <1>2 DEF TypeOK
<1> QED
  BY <1>1, <1>2, <1>3, ViewTyped DEF TypeOK, View

(* A step of one thread that changes one run keeps all flags right if it keeps *)
(* that of the run, or is about to.                                            *)
LEMMA FlagsOne ==
  ASSUME TypeOK, FlagsMatch, NEW u \in User, NEW s, user' = [user EXCEPT ![u] = s],
         NEW r \in Run, \A x \in Run \ {r} : runs'[x] = runs[x],
         user[u].pc \in FlagSteps => user[u].run = r,
         \/ s.pc \in FlagSteps /\ s.run = r
         \/ FlagFits(runs'[r])
         \/ /\ user[u].pc \notin FlagSteps
            /\ FlagFits(runs[r]) => FlagFits(runs'[r])
  PROVE  FlagsMatch'
<1>1. user'[u] = s /\ \A v \in User \ {u} : user'[v] = user[v]
  BY DEF TypeOK
<1>2. SUFFICES ASSUME NEW x \in Run,
                      ~ \E v \in User : user'[v].pc \in FlagSteps /\ user'[v].run = x
               PROVE  FlagFits(runs'[x])
  BY DEF FlagsMatch, ThreadsAt, FlagFits, FlagSteps
<1>3. (\A v \in User : ~(user[v].pc \in FlagSteps /\ user[v].run = x))
        => FlagFits(runs[x])
  BY DEF FlagsMatch, ThreadsAt, FlagFits, FlagSteps
<1>4. CASE x = r
  BY <1>1, <1>2, <1>3, <1>4
<1>5. CASE x # r
  BY <1>1, <1>2, <1>3, <1>5
<1> QED
  BY <1>4, <1>5

(* The same for the results. *)
LEMMA ResultsOne ==
  ASSUME TypeOK, ResultsMatch, NEW u \in User, NEW s, user' = [user EXCEPT ![u] = s],
         NEW r \in Run, \A x \in Run \ {r} : runs'[x] = runs[x],
         user[u].pc \in {"mark", "assign"} => user[u].run = r,
         \/ s.pc \in {"mark", "assign"} /\ s.run = r
         \/ ResultsAdd(runs'[r])
         \/ /\ user[u].pc \notin {"mark", "assign"}
            /\ ResultsAdd(runs[r]) => ResultsAdd(runs'[r])
  PROVE  ResultsMatch'
<1>1. user'[u] = s /\ \A v \in User \ {u} : user'[v] = user[v]
  BY DEF TypeOK
<1>2. SUFFICES ASSUME NEW x \in Run,
                      ~ \E v \in User : user'[v].pc \in {"mark", "assign"} /\ user'[v].run = x
               PROVE  ResultsAdd(runs'[x])
  BY DEF ResultsMatch, ThreadsAt, ResultsAdd
<1>3. (\A v \in User : ~(user[v].pc \in {"mark", "assign"} /\ user[v].run = x))
        => ResultsAdd(runs[x])
  BY DEF ResultsMatch, ThreadsAt, ResultsAdd
<1>4. CASE x = r
  BY <1>1, <1>2, <1>3, <1>4
<1>5. CASE x # r
  BY <1>1, <1>2, <1>3, <1>5
<1> QED
  BY <1>4, <1>5

(* What a thread in a purge relies on: the run stays finished, and what was    *)
(* computed from it stays true.                                                *)
Steady(x, y) == x.finished => /\ y.finished
                              /\ compute_results(y) = compute_results(x)
                              /\ compute_flags(y) = compute_flags(x)

(* Such a step keeps the results, or the flag, of the run right or is about to. *)
Sums(u, s, r) ==
    \/ s.pc \in {"mark", "assign"}
    \/ ResultsAdd(runs'[r])
    \/ /\ user[u].pc \notin {"mark", "assign"}
       /\ ResultsAdd(runs[r]) => ResultsAdd(runs'[r])

Flagged(u, s, r) ==
    \/ s.pc \in FlagSteps /\ s.run = r
    \/ FlagFits(runs'[r])
    \/ /\ user[u].pc \notin FlagSteps
       /\ FlagFits(runs[r]) => FlagFits(runs'[r])

(* What the thread knows then. *)
Informed(s, r) ==
    /\ s.pc \in PurgeSteps => s.run = r /\ runs'[r].finished
    /\ s.pc = "assign" => s.results = compute_results(runs'[r])
    /\ s.pc = "update" => s.flag = compute_flags(runs'[r])

(* No other thread is in a purge of the run. *)
Alone(u, r) == \A v \in User \ {u} : user[v].pc \in PurgeSteps => user[v].run # r

(* A step of one thread that changes one run keeps results and flags right, and *)
(* what threads know of them, if no other thread is in a purge of this run, or  *)
(* nothing that it relies on changes.                                           *)
LEMMA PurgeOne ==
  ASSUME TypeOK, ResultsOk, NEW u \in User, NEW s, user' = [user EXCEPT ![u] = s],
         NEW r \in Run, \A x \in Run \ {r} : runs'[x] = runs[x],
         user[u].pc \in PurgeSteps \cup {"activate"} => user[u].run = r,
         \A v \in User : user[v].pc \in PurgeSteps => user[v].run \in Run,
         Alone(u, r) \/ Steady(runs[r], runs'[r]),
         Informed(s, r),
         Sums(u, s, r), Flagged(u, s, r)
  PROVE  ResultsOk'
<1>1. user'[u] = s /\ \A v \in User \ {u} : user'[v] = user[v]
  BY DEF TypeOK
<1>2. FlagSteps \subseteq PurgeSteps \cup {"activate"} /\ {"mark", "assign", "update"} \subseteq PurgeSteps
  BY DEF FlagSteps, PurgeSteps
<1>6. ResultsMatch /\ FlagsMatch
  BY DEF ResultsOk
<1>3. ResultsMatch'
  <2>1. user[u].pc \in {"mark", "assign"} => user[u].run = r
    BY <1>2
  <2>2. \/ s.pc \in {"mark", "assign"} /\ s.run = r
        \/ ResultsAdd(runs'[r])
        \/ /\ user[u].pc \notin {"mark", "assign"}
           /\ ResultsAdd(runs[r]) => ResultsAdd(runs'[r])
    <3>1. s.pc \in {"mark", "assign"} => s.run = r
      BY <1>2 DEF Informed
    <3> QED
      BY <3>1 DEF Sums
  <2> QED
    BY <1>6, <2>1, <2>2, ResultsOne
<1>4. FlagsMatch'
  <2>1. user[u].pc \in FlagSteps => user[u].run = r
    BY <1>2
  <2>2. \/ s.pc \in FlagSteps /\ s.run = r
        \/ FlagFits(runs'[r])
        \/ /\ user[u].pc \notin FlagSteps
           /\ FlagFits(runs[r]) => FlagFits(runs'[r])
    BY DEF Flagged
  <2> QED
    BY <1>6, <2>1, <2>2, FlagsOne
<1>5. ASSUME NEW v \in User, user'[v].pc \in PurgeSteps
      PROVE  /\ runs'[user'[v].run].finished
             /\ user'[v].pc = "assign" => user'[v].results = compute_results(runs'[user'[v].run])
             /\ user'[v].pc = "update" => user'[v].flag = compute_flags(runs'[user'[v].run])
  <2>1. CASE v = u
    BY <1>1, <1>5, <2>1 DEF Informed
  <2>2. CASE v # u
    <3> DEFINE x == user[v].run
    <3>1. /\ user'[v] = user[v] /\ x \in Run /\ runs[x].finished
          /\ user[v].pc = "assign" => user[v].results = compute_results(runs[x])
          /\ user[v].pc = "update" => user[v].flag = compute_flags(runs[x])
      BY <1>1, <1>5, <2>2 DEF ResultsOk
    <3>2. CASE x = r
      BY <1>5, <2>2, <3>1, <3>2 DEF Steady, Alone
    <3>3. CASE x # r
      BY <3>1, <3>3
    <3> QED
      BY <3>2, <3>3
  <2> QED
    BY <2>1, <2>2
<1> QED
  BY <1>2, <1>3, <1>4, <1>5 DEF ResultsOk

(* The step with which a purge, or a reactivation, ends. *)
LEMMA PurgeEnds ==
  ASSUME TypeOK, ResultsOk, NEW u \in User, user' = [user EXCEPT ![u] = Idle],
         NEW r \in Run, \A x \in Run \ {r} : runs'[x] = runs[x],
         user[u].run = r, user[u].pc \notin {"mark", "assign"},
         \A v \in User : user[v].pc \in PurgeSteps => user[v].run \in Run,
         Alone(u, r), ResultsAdd(runs[r]) => ResultsAdd(runs'[r]), FlagFits(runs'[r])
  PROVE  ResultsOk'
<1>1. Informed(Idle, r)
  BY DEF Idle, PurgeSteps, Informed
<1>2. Sums(u, Idle, r) /\ Flagged(u, Idle, r)
  BY DEF Sums, Flagged
<1> QED
  BY <1>1, <1>2, PurgeOne

(* A calm step keeps results and flags right. *)
LEMMA ResultsCalm ==
  ASSUME Inductive, ResultsOk, Calm, UsersElsewhere
  PROVE  ResultsOk'
<1>1. {"mark", "assign", "update"} \subseteq PurgeSteps /\ FlagSteps \subseteq PurgeSteps \cup {"activate"}
  BY DEF FlagSteps, PurgeSteps
<1>2. ASSUME NEW x \in Run
      PROVE  DataStep(runs[x], runs'[x])
  BY <1>2 DEF Calm, CalmStep
<1>3. ResultsMatch'
  <2>1. SUFFICES ASSUME NEW x \in Run,
                        ~ \E v \in User : user'[v].pc \in {"mark", "assign"} /\ user'[v].run = x
                 PROVE  ResultsAdd(runs'[x])
    BY DEF ResultsMatch, ThreadsAt, ResultsAdd
  <2>2. \A v \in User : ~(user[v].pc \in {"mark", "assign"} /\ user[v].run = x)
    BY <1>1, <2>1 DEF UsersElsewhere
  <2>3. ResultsAdd(runs[x])
    BY <2>2 DEF ResultsOk, ResultsMatch, ThreadsAt, ResultsAdd
  <2> QED
    BY <1>2, <2>3 DEF DataStep
<1>4. FlagsMatch'
  <2>1. SUFFICES ASSUME NEW x \in Run,
                        ~ \E v \in User : user'[v].pc \in FlagSteps /\ user'[v].run = x
                 PROVE  FlagFits(runs'[x])
    BY DEF FlagsMatch, ThreadsAt, FlagFits, FlagSteps
  <2>2. \A v \in User : ~(user[v].pc \in FlagSteps /\ user[v].run = x)
    BY <1>1, <2>1 DEF UsersElsewhere
  <2>3. FlagFits(runs[x])
    BY <2>2 DEF ResultsOk, FlagsMatch, ThreadsAt, FlagFits, FlagSteps
  <2> QED
    BY <1>2, <2>3 DEF DataStep
<1>5. ASSUME NEW v \in User, user'[v].pc \in PurgeSteps
      PROVE  /\ runs'[user'[v].run].finished
             /\ user'[v].pc = "assign" => user'[v].results = compute_results(runs'[user'[v].run])
             /\ user'[v].pc = "update" => user'[v].flag = compute_flags(runs'[user'[v].run])
  <2> DEFINE x == user[v].run
  <2>1. user'[v] = user[v]
    BY <1>5 DEF UsersElsewhere
  <2>2. user[v] # Idle
    BY <1>5, <2>1 DEF Idle, PurgeSteps
  <2>3. x \in Run
    BY <2>2 DEF Inductive, TypeOK, UsersOk
  <2>4. /\ runs[x].finished
        /\ user[v].pc = "assign" => user[v].results = compute_results(runs[x])
        /\ user[v].pc = "update" => user[v].flag = compute_flags(runs[x])
    BY <1>5, <2>1 DEF ResultsOk
  <2>5. /\ runs'[x].finished /\ compute_results(runs'[x]) = compute_results(runs[x])
        /\ compute_flags(runs'[x]) = compute_flags(runs[x])
    BY <2>3, <2>4 DEF Calm, CalmStep
  <2> QED
    BY <2>1, <2>4, <2>5
<1> QED
  BY <1>1, <1>3, <1>4, <1>5 DEF ResultsOk

(* A step of a purge keeps results and flags right if no other purge of the run *)
(* is under way.                                                                *)
LEMMA ResultsPurge ==
  ASSUME Inductive, ResultsOk, LonePurge, NEW u \in User, Purges(u)
  PROVE  ResultsOk'
<1> DEFINE r == user[u].run
<1>1. /\ TypeOK /\ r \in submitted /\ r \in Run /\ runs[r] \in RunObject
      /\ View(r) \in ViewType /\ View(r).run = runs[r]
  BY ThreadOfPurge
<1>2. \A v \in User : user[v].pc \in PurgeSteps => user[v].run \in Run
  BY DEF Inductive, TypeOK, UsersOk, Idle, PurgeSteps
<1>3. ASSUME user[u].pc \in PurgeSteps \cup {"activate"}
      PROVE  Alone(u, r)
  BY <1>3 DEF LonePurge, Alone
<1>4. CASE ActivateRun(u)
  <2> DEFINE w == set_active_run(View(r))
  <2>1. /\ runs' = [runs EXCEPT ![r] = w.run] /\ user' = [user EXCEPT ![u] = Idle]
        /\ user[u].pc = "activate" /\ Idle.pc = "idle"
    BY <1>4 DEF ActivateRun, Store, Idle
  <2>2. (ResultsAdd(runs[r]) => ResultsAdd(w.run)) /\ FlagFits(w.run)
    BY <1>1, ActiveRunData DEF DataStep
  <2> HIDE DEF w
  <2>3. runs'[r] = w.run /\ \A x \in Run \ {r} : runs'[x] = runs[x]
    BY <1>1, <2>1 DEF TypeOK
  <2> QED
    <3>1. Alone(u, r)
      BY <1>3, <2>1
    <3>3. /\ user[u].pc \notin {"mark", "assign"} /\ FlagFits(runs'[r])
          /\ ResultsAdd(runs[r]) => ResultsAdd(runs'[r])
      BY <2>1, <2>2, <2>3
    <3>4. user[u].run = r
      OBVIOUS
    <3> HIDE DEF r
    <3> QED
      BY <1>1, <1>2, <2>1, <2>3, <3>1, <3>3, <3>4, PurgeEnds
<1>5. CASE PurgeSearch(u)
  <2>1. user[u].pc = "purge" /\ UNCHANGED runs
    BY <1>5 DEF PurgeSearch
  <2>2. PICK s : user' = [user EXCEPT ![u] = s] /\
                 (s = Idle \/ \E B : Purgeable(runs[r]) /\ s = [pc |-> "mark", run |-> r, todo |-> B])
    BY <1>5 DEF PurgeSearch
  <2>3. /\ s.pc \in {"idle", "mark"} /\ (s.pc = "mark" => s.run = r /\ runs'[r].finished)
        /\ Steady(runs[r], runs'[r])
    BY <2>1, <2>2 DEF Idle, Purgeable, Steady
  <2> QED
    <3>1. user[u].pc \notin {"mark", "assign"} /\ user[u].pc \notin FlagSteps
      BY <2>1 DEF FlagSteps
    <3>2. s.pc \in PurgeSteps => s.run = r /\ runs'[r].finished
      BY <2>3 DEF PurgeSteps
    <3>3. s.pc # "assign" /\ s.pc # "update"
      BY <2>3
    <3>4. user[u].run = r /\ runs'[r] = runs[r] /\ \A x \in Run \ {r} : runs'[x] = runs[x]
      BY <2>1
    <3>5. user' = [user EXCEPT ![u] = s]
      BY <2>2
    <3> HIDE DEF r
    <3>10. Sums(u, s, r) /\ Flagged(u, s, r)
      BY <1>1, <1>2, <2>3, <3>1, <3>2, <3>3, <3>4, <3>5 DEF Sums, Flagged
    <3>11. Informed(s, r)
      BY <1>1, <1>2, <2>3, <3>1, <3>2, <3>3, <3>4, <3>5 DEF Informed
    <3> QED
      BY <1>1, <1>2, <2>3, <3>1, <3>2, <3>3, <3>4, <3>5, <3>10, <3>11, PurgeOne
<1>6. CASE PurgeMark(u)
  <2>1. PICK t \in user[u].todo : /\ Store(r, set_bad_tasks({t}, View(r)))
                                  /\ user' = [user EXCEPT ![u].todo = @ \ {t}]
    BY <1>6 DEF PurgeMark
  <2> DEFINE w == set_bad_tasks({t}, View(r))
             s == [user[u] EXCEPT !.todo = @ \ {t}]
  <2>2. user[u].pc = "mark" /\ user' = [user EXCEPT ![u] = s] /\ user[u] \in UserState
    BY <1>1, <1>6, <2>1 DEF PurgeMark, TypeOK
  <2>3. s.pc = "mark" /\ s.run = r
    BY <2>2 DEF UserState, Idle
  <2>4. {t} \subseteq Ids(View(r).run)
    BY <1>1, <2>1, <2>2 DEF Inductive, UsersOk
  <2>5. SameVerdict(runs[r], w.run)
    BY <1>1, <2>4, BadTasksData
  <2>6. runs' = [runs EXCEPT ![r] = w.run]
    BY <2>1 DEF Store
  <2> HIDE DEF w, s
  <2>7. runs'[r] = w.run /\ \A x \in Run \ {r} : runs'[x] = runs[x]
    BY <1>1, <2>6 DEF TypeOK
  <2>8. runs'[r].finished
    BY <2>2, <2>5, <2>7 DEF ResultsOk, SameVerdict, PurgeSteps
  <2>9. FlagFits(runs[r]) => FlagFits(runs'[r])
    BY <2>5, <2>7, SameFlag
  <2> QED
    <3>1. Alone(u, r)
      BY <1>3, <2>2 DEF PurgeSteps
    <3>2. user[u].pc \notin FlagSteps
      BY <2>2 DEF FlagSteps
    <3>3. s.pc # "assign" /\ s.pc # "update" /\ user[u].run = r
      BY <2>3
    <3> HIDE DEF r
    <3>10. Sums(u, s, r) /\ Flagged(u, s, r)
      BY <1>1, <1>2, <2>2, <2>3, <2>7, <2>8, <2>9, <3>1, <3>2, <3>3 DEF Sums, Flagged
    <3>11. Informed(s, r)
      BY <1>1, <1>2, <2>2, <2>3, <2>7, <2>8, <2>9, <3>1, <3>2, <3>3 DEF Informed
    <3> QED
      BY <1>1, <1>2, <2>2, <2>3, <2>7, <2>8, <2>9, <3>1, <3>2, <3>3, <3>10, <3>11, PurgeOne
<1>7. CASE PurgeCompute(u)
  <2> DEFINE results == compute_results(runs[r])
             s == [pc |-> "assign", run |-> r, results |-> results]
  <2>1. /\ user[u].pc = "mark" /\ UNCHANGED runs /\ user' = [user EXCEPT ![u] = s]
        /\ s.pc = "assign" /\ s.run = r /\ s.results = compute_results(runs'[r])
    BY <1>1, <1>7 DEF PurgeCompute, TypeOK
  <2>2. runs[r].finished /\ Steady(runs[r], runs'[r])
    BY <2>1 DEF ResultsOk, Steady, PurgeSteps
  <2> HIDE DEF s
  <2> QED
    <3>1. user[u].pc \notin FlagSteps
      BY <2>1 DEF FlagSteps
    <3>2. s.pc \in PurgeSteps => s.run = r /\ runs'[r].finished
      BY <2>1, <2>2
    <3>3. s.pc # "update" /\ s.pc \in {"mark", "assign"}
      BY <2>1
    <3>4. user[u].run = r /\ runs'[r] = runs[r] /\ \A x \in Run \ {r} : runs'[x] = runs[x]
      BY <2>1
    <3> HIDE DEF r
    <3>10. Sums(u, s, r) /\ Flagged(u, s, r)
      BY <1>1, <1>2, <2>1, <2>2, <3>1, <3>2, <3>3, <3>4 DEF Sums, Flagged
    <3>11. Informed(s, r)
      BY <1>1, <1>2, <2>1, <2>2, <3>1, <3>2, <3>3, <3>4 DEF Informed
    <3> QED
      BY <1>1, <1>2, <2>1, <2>2, <3>1, <3>2, <3>3, <3>4, <3>10, <3>11, PurgeOne
<1>8. CASE PurgeWrites(u)
  <2>1. PICK run \in RunObject, s \in UserState : PurgeWriting(u, run, s)
    BY <1>8, PurgeWritesSo
  <2>2. /\ runs'[r] = run /\ \A x \in Run \ {r} : runs'[x] = runs[x]
        /\ user' = [user EXCEPT ![u] = s] /\ runs[r].finished = run.finished
        /\ user[u].pc \in PurgeSteps
    BY <1>1, <2>1 DEF PurgeWriting, TypeOK, PurgeSteps
  <2>3. run.finished /\ compute_results(run) = compute_results(runs[r])
    BY <2>1, <2>2, SameStats DEF PurgeWriting, ResultsOk, Ids
  <2>7. Alone(u, r)
    BY <1>3, <2>2
  <2>8. user[u].run = r
    OBVIOUS
  <2>9. user' = [user EXCEPT ![u] = s] /\ \A x \in Run \ {r} : runs'[x] = runs[x]
    BY <2>2
  <2>4. CASE user[u].pc = "assign" /\ s.pc \in {"reset", "judge"} /\ run.results = user[u].results
    <3>1. ResultsAdd(run) /\ s.run = r
      BY <2>1, <2>3, <2>4 DEF ResultsOk, ResultsAdd, PurgeWriting, Idle
    <3>2. /\ ResultsAdd(runs'[r]) /\ s.pc # "assign" /\ s.pc # "update"
          /\ s.pc \in PurgeSteps => s.run = r /\ runs'[r].finished
      BY <2>2, <2>3, <2>4, <3>1
    <3>3. s.pc \in FlagSteps /\ s.run = r
      BY <2>4, <3>1 DEF FlagSteps
    <3> HIDE DEF r
    <3>10. Sums(u, s, r) /\ Flagged(u, s, r)
      BY <1>1, <1>2, <2>7, <2>8, <2>9, <3>2, <3>3 DEF Sums, Flagged
    <3>11. Informed(s, r)
      BY <1>1, <1>2, <2>7, <2>8, <2>9, <3>2, <3>3 DEF Informed
    <3> QED
      BY <1>1, <1>2, <2>7, <2>8, <2>9, <3>2, <3>3, <3>10, <3>11, PurgeOne
  <2>5. CASE /\ user[u].pc \in {"reset", "state"} /\ s.pc \in {"state", "judge"}
             /\ run.results = runs[r].results
    <3>1. (ResultsAdd(runs[r]) => ResultsAdd(run)) /\ s.run = r
      BY <2>1, <2>3, <2>5 DEF ResultsAdd, PurgeWriting, Idle
    <3>2. /\ ResultsAdd(runs[r]) => ResultsAdd(runs'[r])
          /\ user[u].pc \notin {"mark", "assign"} /\ s.pc # "assign" /\ s.pc # "update"
          /\ s.pc \in PurgeSteps => s.run = r /\ runs'[r].finished
      BY <2>2, <2>3, <2>5, <3>1
    <3>3. s.pc \in FlagSteps /\ s.run = r
      BY <2>5, <3>1 DEF FlagSteps
    <3> HIDE DEF r
    <3>10. Sums(u, s, r) /\ Flagged(u, s, r)
      BY <1>1, <1>2, <2>7, <2>8, <2>9, <3>2, <3>3 DEF Sums, Flagged
    <3>11. Informed(s, r)
      BY <1>1, <1>2, <2>7, <2>8, <2>9, <3>2, <3>3 DEF Informed
    <3> QED
      BY <1>1, <1>2, <2>7, <2>8, <2>9, <3>2, <3>3, <3>10, <3>11, PurgeOne
  <2>6. CASE user[u].pc = "update" /\ s = Idle /\ run = [runs[r] EXCEPT !.flag = user[u].flag]
    <3>1. /\ run.flag = user[u].flag /\ run.results = runs[r].results
          /\ run.kind = runs[r].kind /\ run.state = runs[r].state
      BY <1>1, <2>6 DEF RunObject
    <3>2. FlagFits(run) /\ (ResultsAdd(runs[r]) => ResultsAdd(run))
      BY <2>2, <2>3, <2>6, <3>1 DEF ResultsOk, FlagFits, ResultsAdd, compute_flags
    <3>4. /\ user[u].pc \notin {"mark", "assign"} /\ FlagFits(runs'[r])
          /\ ResultsAdd(runs[r]) => ResultsAdd(runs'[r])
      BY <2>2, <2>6, <3>2
    <3>5. user' = [user EXCEPT ![u] = Idle] /\ \A x \in Run \ {r} : runs'[x] = runs[x]
      BY <2>6, <2>9
    <3> HIDE DEF r
    <3> QED
      BY <1>1, <1>2, <2>7, <2>8, <3>4, <3>5, PurgeEnds
  <2> QED
    BY <2>1, <2>4, <2>5, <2>6 DEF PurgeWriting
<1>9. CASE PurgeMoves(u)
  <2>1. PICK s \in UserState : PurgeMoving(u, s)
    BY <1>9, PurgeMovesSo
  <2>2. /\ UNCHANGED runs /\ user' = [user EXCEPT ![u] = s] /\ s.run = r
        /\ user[u].pc \in {"judge", "flag"} /\ s.pc \in FlagSteps
        /\ s.pc \notin {"mark", "assign"}
        /\ s.pc = "update" => s.flag = compute_flags(runs'[r])
    BY <2>1 DEF PurgeMoving, FlagSteps
  <2>3. runs[r].finished /\ Steady(runs[r], runs'[r])
    BY <2>2 DEF ResultsOk, Steady, PurgeSteps
  <2> QED
    <3>1. runs'[r] = runs[r] /\ user[u].run = r /\ \A x \in Run \ {r} : runs'[x] = runs[x]
      BY <2>2
    <3>2. /\ ResultsAdd(runs[r]) => ResultsAdd(runs'[r])
          /\ user[u].pc \notin {"mark", "assign"} /\ runs'[r].finished /\ s.pc # "assign"
      BY <2>2, <2>3, <3>1
    <3> HIDE DEF r
    <3>10. Sums(u, s, r) /\ Flagged(u, s, r)
      BY <1>1, <1>2, <2>2, <2>3, <3>1, <3>2 DEF Sums, Flagged
    <3>11. Informed(s, r)
      BY <1>1, <1>2, <2>2, <2>3, <3>1, <3>2 DEF Informed
    <3> QED
      BY <1>1, <1>2, <2>2, <2>3, <3>1, <3>2, <3>10, <3>11, PurgeOne
<1> QED
  BY <1>4, <1>5, <1>6, <1>7, <1>8, <1>9 DEF Purges

(* Every step keeps results and flags right if purges do not overlap. *)
LEMMA ResultsKept ==
  ASSUME Inductive, ResultsOk, LonePurge, [Next]_vars
  PROVE  ResultsOk'
<1>1. TypeOK /\ \A v \in User : user[v].pc \in PurgeSteps => user[v].run \in submitted
  BY DEF Inductive, TypeOK, UsersOk, Idle, PurgeSteps
<1>2. \A v \in User : user[v].pc \in PurgeSteps => user[v].run \in Run
  BY <1>1 DEF TypeOK
<1>3. ASSUME NEW u \in User, NEW r \in Run, NewRun(u, r)
      PROVE  ResultsOk'
  <2> DEFINE s == [pc |-> "register", run |-> r]
  <2>1. /\ user[u].pc = "idle" /\ s.pc = "register" /\ r \notin submitted
        /\ user' = [user EXCEPT ![u] = s]
        /\ \A x \in Run \ {r} : runs'[x] = runs[x]
        /\ ResultsAdd(runs'[r]) /\ FlagFits(runs'[r])
    BY <1>3, NewRunObjects DEF Idle
  <2> HIDE DEF s
  <2>2. Alone(u, r)
    BY <1>1, <2>1 DEF Alone
  <2> QED
    <3>1. /\ user[u].pc \notin PurgeSteps \cup {"activate"} /\ s.pc \notin PurgeSteps
          /\ s.pc # "assign" /\ s.pc # "update"
      BY <2>1 DEF PurgeSteps
    <3>10. Sums(u, s, r) /\ Flagged(u, s, r)
      BY <1>1, <1>2, <2>1, <2>2, <3>1 DEF Sums, Flagged
    <3>11. Informed(s, r)
      BY <1>1, <1>2, <2>1, <2>2, <3>1 DEF Informed
    <3> QED
      BY <1>1, <1>2, <2>1, <2>2, <3>1, <3>10, <3>11, PurgeOne
<1>4. ASSUME NEW u \in User, ModifyArgs(u)
      PROVE  ResultsOk'
  <2> DEFINE r == user[u].run
             s == [pc |-> "revive", run |-> r]
  <2>1. /\ user[u].pc = "modify" /\ s.pc = "revive" /\ r \in Run
        /\ user' = [user EXCEPT ![u] = s]
        /\ \A x \in Run \ {r} : runs'[x] = runs[x]
        /\ runs'[r].tasks = runs[r].tasks
        /\ runs'[r].finished = runs[r].finished
        /\ runs'[r].results = runs[r].results
        /\ compute_flags(runs'[r]) = compute_flags(runs[r])
        /\ FlagFits(runs[r]) => FlagFits(runs'[r])
    BY <1>4, ModifyArgsObject
  <2>2. compute_results(runs'[r]) = compute_results(runs[r])
    BY <2>1, SameStats DEF Ids
  <2>3. (ResultsAdd(runs[r]) => ResultsAdd(runs'[r])) /\ Steady(runs[r], runs'[r])
    BY <2>1, <2>2 DEF ResultsAdd, Steady
  <2> HIDE DEF r, s
  <2>4. /\ user[u].pc \notin PurgeSteps \cup {"activate"} /\ s.pc \notin PurgeSteps
        /\ s.pc # "assign" /\ s.pc # "update"
        /\ user[u].pc \notin FlagSteps /\ user[u].pc \notin {"mark", "assign"}
    BY <2>1 DEF PurgeSteps, FlagSteps
  <2>10. Sums(u, s, r) /\ Flagged(u, s, r)
    BY <1>1, <1>2, <2>1, <2>3, <2>4 DEF Sums, Flagged
  <2>11. Informed(s, r)
    BY <1>1, <1>2, <2>1, <2>3, <2>4 DEF Informed
  <2> QED
    BY <1>1, <1>2, <2>1, <2>3, <2>4, <2>10, <2>11, PurgeOne
<1> QED
  BY <1>3, <1>4, NextCalm, ResultsCalm, ResultsPurge

\* Before any run exists results and flags are right.
LEMMA InitResults == ASSUME Init PROVE ResultsOk
<1>1. \A u \in User : user[u].pc = "idle"
  BY DEF Init, Idle
<1>2. ASSUME NEW r \in Run
      PROVE  ResultsAdd(runs[r]) /\ FlagFits(runs[r])
  <2>1. /\ runs[r].tasks = <<>> /\ runs[r].results = Zero
        /\ runs[r].flag = "none" /\ ~runs[r].finished
    BY DEF Init, NewRunObject
  <2> DEFINE tasks == runs[r].tasks
  <2>2. DOMAIN tasks = {}
    BY <2>1
  <2>3. Ids(runs[r]) = {}
    BY <2>2 DEF Ids
  <2> QED
    BY <2>1, <2>3, SumOfNone, UnfinishedFlag DEF ResultsAdd, FlagFits, compute_results, Zero
<1> QED
  BY <1>1, <1>2 DEF ResultsOk, ResultsMatch, ResultsAdd, FlagsMatch, FlagFits, PurgeSteps

(* If purges of a run never overlap with each other or with its reactivation,   *)
(* its results are the sum over its tasks, but for the steps in between.  That   *)
(* they may overlap, and what becomes of the results then, is shown by a run.    *)
THEOREM ResultsAddUp == Spec /\ []LonePurge => []ResultsMatch
<1>1. Init => ResultsOk
  BY InitResults
<1>2. Inductive /\ ResultsOk /\ LonePurge /\ [Next]_vars => ResultsOk'
  BY ResultsKept
<1>3. ResultsOk => ResultsMatch
  BY DEF ResultsOk
<1> QED
  BY <1>1, <1>2, <1>3, Invariant, PTL DEF Spec

(* Nor does the flag with which a run is shown contradict its results then,      *)
(* whatever else workers, users and the scheduler do to the run.                 *)
THEOREM FlagsFit == Spec /\ []LonePurge => []FlagsMatch
<1>1. Init => ResultsOk
  BY InitResults
<1>2. Inductive /\ ResultsOk /\ LonePurge /\ [Next]_vars => ResultsOk'
  BY ResultsKept
<1>3. ResultsOk => FlagsMatch
  BY DEF ResultsOk
<1> QED
  BY <1>1, <1>2, <1>3, Invariant, PTL DEF Spec

----------------------------------------------------------------------------
(***************************************************************************)
(* The tasks of a run are a ledger.  A step that adds no task and no run   *)
(* is a Progress step, and changes the entries of the ledger as Advance    *)
(* allows; what is left are the steps that change the number of games that *)
(* the test asks for, and the one that adds a task.                        *)
(***************************************************************************)

(* All steps but these two kinds are Progress steps. *)
LEMMA NextProgress ==
  ASSUME Inductive, [Next]_vars
  PROVE  \/ Progress /\ UNCHANGED submitted
         \/ \E u \in User, r \in Run : NewRun(u, r)
         \/ \E c \in Client : AppendTask(c) /\ NeedsGames(runs[req[c].run])
<1>1. CASE UNCHANGED vars
  BY <1>1, NoProgress DEF Inductive, vars
<1>2. ASSUME NEW c \in Client, RequestNext(c)
      PROVE  \/ Progress /\ UNCHANGED submitted
             \/ AppendTask(c) /\ NeedsGames(runs[req[c].run])
  <2>1. CASE AppendTask(c) /\ ~NeedsGames(runs[req[c].run])
    <3>1. UNCHANGED <<runs, submitted, unfinished, conns>>
      BY <2>1 DEF AppendTask
    <3> QED
      BY <3>1, NoProgress DEF Inductive
  <2> QED
    BY <1>2, <2>1, RequestTaskKeeps, InsertInWttMapKeeps
       DEF RequestNext, RequestTask, InsertInWttMap
<1>3. ASSUME NEW c \in Client, NEW r \in Run, NEW t \in Ids(runs[r]), WorkerNext(c, r, t)
      PROVE  Progress /\ UNCHANGED submitted
  BY <1>3, UpdateTaskKeeps, BeatKeeps, FailTaskKeeps, WorkerStopsRunKeeps
     DEF WorkerNext, UpdateTask, Beat, FailTask, WorkerStopsRun
<1>4. ASSUME NEW u \in User, NEW r \in Run, UserNext(u, r), ~NewRun(u, r)
      PROVE  Progress /\ UNCHANGED submitted
  BY <1>4, ApproveRunKeeps, ModifyRunKeeps, StopRunKeeps, PurgeRunKeeps
     DEF UserNext, ApproveRun, ModifyRun, StopRun, DeleteRun, PurgeRun
<1>5. ASSUME NEW u \in User, UserContinues(u)
      PROVE  Progress /\ UNCHANGED submitted
  <2>1. Progress
    BY <1>5, RegisterKeeps, ModifyArgsKeeps, ModifyReviveKeeps, ActivateRunKeeps,
       MarkDeletedKeeps, PurgeSearchKeeps, PurgeMarkKeeps, PurgeComputeKeeps, PurgeWritesKeep,
       PurgeMovesKeep DEF UserContinues, PurgeWrites, PurgeMoves
  <2>2. UNCHANGED submitted
    BY <1>5 DEF UserContinues, Register, ModifyArgs, ModifyRevive, ActivateRun, MarkDeleted,
       PurgeSearch, PurgeMark, PurgeCompute, PurgeAssign, PurgeReset, PurgeState, PurgeJudge,
       PurgeFlag, PurgeUpdate
  <2> QED
    BY <2>1, <2>2
<1>6. ASSUME NEW r \in Run, NEW t \in Ids(runs[r]), GrowOlder(r, t)
      PROVE  Progress /\ UNCHANGED submitted
  BY <1>6, GrowOlderKeeps DEF GrowOlder
<1>7. Scavenge \/ KillDeadTask => Progress /\ UNCHANGED submitted
  BY ScavengeKeeps, KillDeadTaskKeeps DEF Scavenge, KillDeadTask
<1>8. ASSUME NEW n \in Name, CleanWttMap(n)
      PROVE  Progress /\ UNCHANGED submitted
  BY <1>8, CleanWttMapKeeps DEF CleanWttMap
<1> QED
  BY <1>1, <1>2, <1>3, <1>4, <1>5, <1>6, <1>7, <1>8 DEF Next

(* A purge does not change the number of games that the test asks for. *)
LEMMA WantedPurge ==
  ASSUME Inductive, NEW u \in User, Purges(u), NEW x \in Run
  PROVE  runs'[x].num_games = runs[x].num_games
<1> DEFINE r == user[u].run
<1>1. /\ TypeOK /\ r \in submitted /\ r \in Run /\ runs[r] \in RunObject
      /\ View(r) \in ViewType /\ View(r).run = runs[r]
  BY ThreadOfPurge
<1>2. ASSUME NEW run, runs' = [runs EXCEPT ![r] = run], run.num_games = runs[r].num_games
      PROVE  runs'[x].num_games = runs[x].num_games
  BY <1>1, <1>2 DEF TypeOK
<1>3. CASE ActivateRun(u)
  <2> DEFINE w == set_active_run(View(r))
  <2>1. runs' = [runs EXCEPT ![r] = w.run]
    BY <1>3 DEF ActivateRun, Store
  <2>2. w.run.num_games = runs[r].num_games
    BY <1>1, ActiveRunData DEF DataStep
  <2> HIDE DEF w
  <2> QED
    BY <1>2, <2>1, <2>2
<1>4. CASE PurgeSearch(u) \/ PurgeCompute(u)
  BY <1>4 DEF PurgeSearch, PurgeCompute
<1>5. CASE PurgeMark(u)
  <2>1. PICK t \in user[u].todo : Store(r, set_bad_tasks({t}, View(r)))
    BY <1>5 DEF PurgeMark
  <2> DEFINE w == set_bad_tasks({t}, View(r))
  <2>2. {t} \subseteq Ids(View(r).run)
    BY <1>1, <1>5, <2>1 DEF Inductive, UsersOk, PurgeMark
  <2>3. w.run.num_games = runs[r].num_games
    BY <1>1, <2>2, BadTasksData DEF SameVerdict
  <2>4. runs' = [runs EXCEPT ![r] = w.run]
    BY <2>1 DEF Store
  <2> HIDE DEF w
  <2> QED
    BY <1>2, <2>3, <2>4
<1>6. CASE PurgeWrites(u)
  <2>1. PICK run \in RunObject, s \in UserState : PurgeWriting(u, run, s)
    BY <1>6, PurgeWritesSo
  <2> QED
    BY <1>2, <2>1 DEF PurgeWriting
<1>7. CASE PurgeMoves(u)
  BY <1>7, PurgeMovesSo DEF PurgeMoving
<1> QED
  BY <1>3, <1>4, <1>5, <1>6, <1>7 DEF Purges

(* Nor does any other step but a new run and a modification. *)
LEMMA WantedKept ==
  ASSUME Inductive, [Next]_vars
  PROVE  \/ \A r \in Run : runs'[r].num_games = runs[r].num_games
         \/ \E u \in User, r \in Run : NewRun(u, r)
         \/ \E u \in User : ModifyArgs(u)
BY NextCalm, WantedPurge DEF Calm, CalmStep, DataStep

\* What the ledger shows of a task.
Entry == [client : Client, start : Nat, size : Nat, stats : Report,
          state : {"open", "closed", "void"}]

EntryOf(task) ==
    [client |-> task.client, start |-> task.start, size |-> task.num_games,
     stats |-> task.stats,
     state |-> IF task.bad THEN "void" ELSE IF task.active THEN "open" ELSE "closed"]

(* An entry, field by field. *)
LEMMA EntryFields ==
  ASSUME NEW task
  PROVE  LET e == EntryOf(task)
         IN  /\ e.client = task.client /\ e.start = task.start /\ e.size = task.num_games
             /\ e.stats = task.stats
             /\ task.bad => e.state = "void"
             /\ ~task.bad /\ task.active => e.state = "open"
             /\ ~task.bad /\ ~task.active => e.state = "closed"
BY DEF EntryOf

(* The entries of a run are those of its tasks. *)
LEMMA EntriesType ==
  ASSUME NEW run \in RunObject
  PROVE  /\ Entries(run) \in Seq(Entry)
         /\ Len(Entries(run)) = Len(run.tasks) /\ Len(run.tasks) \in Nat
         /\ DOMAIN Entries(run) = Ids(run) /\ Ids(run) = 1 .. Len(run.tasks)
         /\ \A t \in Ids(run) : /\ Entries(run)[t] = EntryOf(run.tasks[t])
                               /\ Entries(run)[t] \in Entry
<1>1. /\ run.tasks \in Seq(Task) /\ Len(run.tasks) \in Nat /\ Ids(run) = 1 .. Len(run.tasks)
      /\ \A t \in Ids(run) : run.tasks[t] \in Task
  BY TasksType DEF RunObject
<1>2. Entries(run) = [t \in Ids(run) |-> EntryOf(run.tasks[t])]
  BY DEF Entries, EntryOf
<1>3. \A t \in Ids(run) : EntryOf(run.tasks[t]) \in Entry
  BY <1>1 DEF Task, EntryOf, Entry
<1>4. Entries(run) \in [1 .. Len(run.tasks) -> Entry]
  BY <1>1, <1>2, <1>3
<1>5. Entries(run) \in Seq(Entry) /\ Len(Entries(run)) = Len(run.tasks)
  BY <1>1, <1>4, IsASeq, LenProperties
<1> QED
  BY <1>1, <1>2, <1>3, <1>5

(* The sums of the ledger are the sums of Totals. *)
LEMMA LedgerSum ==
  ASSUME NEW r, NEW f, NEW S
  PROVE  Ledger(r)!SumOver(f, S) = SumOver(f, S)
BY DEF SumOver, Units, Cardinality, Ledger!SumOver, Ledger!Units, Ledger!Cardinality

(* The games that were dealt out and committed are those that the run counts. *)
LEMMA LedgerCounts ==
  ASSUME Inductive, NEW r \in Run
  PROVE  /\ Ledger(r)!Dealt = runs[r].total
         /\ Ledger(r)!Committed = runs[r].committed
<1> DEFINE run == runs[r]
           ids == Ids(run)
           quiet == ids \ Active(run)
           commitments == [i \in ids |-> Ledger(r)!Commitment(Entries(run)[i])]
<1>1. run \in RunObject /\ AggregatesOk(run) /\ BadTasksOk(run)
  BY DEF Inductive, TypeOK, AggregatesMatch, BadTasksOnce
<1>2. /\ DOMAIN Entries(run) = ids
      /\ \A t \in ids : Entries(run)[t] = EntryOf(run.tasks[t])
  BY <1>1, EntriesType
<1>3. Ledger(r)!Dealt = runs[r].total
  <2> DEFINE sizes == [i \in ids |-> Entries(run)[i].size]
  <2>1. sizes = Sizes(run)
    BY <1>2, EntryFields DEF Sizes
  <2>2. Ledger(r)!Dealt = SumOver(sizes, ids)
    BY <1>2, LedgerSum DEF Ledger!Dealt
  <2> QED
    BY <1>1, <2>1, <2>2 DEF AggregatesOk, compute_total_games
<1>4. /\ \A t \in Active(run) : commitments[t] = Sizes(run)[t]
      /\ \A t \in quiet : commitments[t] = Played(run)[t]
  <2>1. ASSUME NEW t \in Active(run)
        PROVE  commitments[t] = Sizes(run)[t]
    <3>1. t \in ids /\ run.tasks[t].active /\ ~run.tasks[t].bad
      BY <1>1 DEF Active, BadTasksOk
    <3>2. Entries(run)[t].state = "open" /\ Entries(run)[t].size = run.tasks[t].num_games
      BY <1>2, <3>1, EntryFields
    <3> QED
      BY <3>1, <3>2 DEF Ledger!Commitment, Sizes
  <2>2. ASSUME NEW t \in quiet
        PROVE  commitments[t] = Played(run)[t]
    <3>1. t \in ids /\ ~run.tasks[t].active
      BY DEF Active
    <3>2. Entries(run)[t].state # "open" /\ Entries(run)[t].stats = run.tasks[t].stats
      BY <1>1, <1>2, <3>1, EntryFields DEF BadTasksOk
    <3> QED
      BY <3>1, <3>2 DEF Ledger!Commitment, Ledger!Games, Games, Played
  <2> QED
    BY <2>1, <2>2
<1>5. Ledger(r)!Committed = SumOver(commitments, ids)
  BY <1>2, LedgerSum DEF Ledger!Committed
<1> HIDE DEF commitments
<1>6. SumOver(commitments, ids) = SumOver(commitments, Active(run)) + SumOver(commitments, quiet)
  <2>1. /\ Active(run) \cup quiet = ids /\ Active(run) \cap quiet = {}
        /\ IsFiniteSet(Active(run)) /\ IsFiniteSet(quiet)
        /\ NatValued(Sizes(run), Active(run)) /\ NatValued(Played(run), quiet)
    BY <1>1, DataType
  <2>2. NatValued(commitments, Active(run)) /\ NatValued(commitments, quiet)
    BY <1>4, <2>1 DEF NatValued
  <2> HIDE DEF ids, quiet
  <2>3. SumOver(commitments, Active(run) \cup quiet)
          = SumOver(commitments, Active(run)) + SumOver(commitments, quiet)
    BY <2>1, <2>2, SumOfUnion
  <2> QED
    BY <2>1, <2>3
<1>7. /\ SumOver(commitments, Active(run)) = SumOver(Sizes(run), Active(run))
      /\ SumOver(commitments, quiet) = SumOver(Played(run), quiet)
  BY <1>4, SumCongruence
<1> QED
  BY <1>1, <1>3, <1>5, <1>6, <1>7 DEF AggregatesOk, compute_committed_games

(* A Progress step is what Advance allows, if the test asks for the same number *)
(* of games.                                                                    *)
LEMMA LedgerAdvances ==
  ASSUME Inductive, Inductive', Progress, UNCHANGED submitted, NEW r \in Run,
         runs'[r].num_games = runs[r].num_games
  PROVE  Ledger(r)!Advance
<1> DEFINE x == runs[r]
           y == runs'[r]
<1>1. /\ x \in RunObject /\ y \in RunObject /\ Ids(y) = Ids(x)
      /\ BadTasksOk(x) /\ BadTasksOk(y) /\ QuietOk(y)
  BY DEF Inductive, TypeOK, BadTasksOnce, FinishedIsQuiet, Progress
<1>2. /\ DOMAIN Entries(x) = Ids(x) /\ DOMAIN Entries(y) = Ids(x)
      /\ \A t \in Ids(x) : /\ Entries(x)[t] = EntryOf(x.tasks[t])
                           /\ Entries(y)[t] = EntryOf(y.tasks[t])
  BY <1>1, EntriesType
<1>3. ASSUME NEW t \in Ids(x)
      PROVE  Ledger(r)!Evolves(Entries(x)[t], Entries(y)[t])
  <2> DEFINE a == x.tasks[t]
             b == y.tasks[t]
             e == Entries(x)[t]
             f == Entries(y)[t]
  <2>1. TaskStep(a, b) /\ a \in Task /\ b \in Task
    BY <1>1, TasksType DEF Progress
  <2>2. e = EntryOf(a) /\ f = EntryOf(b)
    BY <1>2
  <2>3. /\ b.bad => b.stats = Zero
        /\ a.bad => ~a.active
    BY <1>1 DEF BadTasksOk
  <2> HIDE DEF a, b, e, f
  <2>4. f.client = e.client /\ f.start = e.start /\ f.size = e.size
    BY <2>1, <2>2 DEF TaskStep, SameTask, EntryOf
  <2>5. CASE b.bad
    <3>1. f.state = "void" /\ f.stats = Zero
      BY <2>2, <2>3, <2>5 DEF EntryOf
    <3> QED
      BY <2>4, <3>1 DEF Ledger!Evolves, Ledger!NoStats, Zero, e, f
  <2>6. CASE ~b.bad
    <3>1. ~a.bad /\ (b.active => a.active)
      BY <2>1, <2>6 DEF TaskStep
    <3>2. CASE a.active
      <4>1. e.state = "open" /\ f.state \in {"open", "closed"} /\ e.stats = a.stats /\ f.stats = b.stats
        BY <2>2, <2>6, <3>1, <3>2 DEF EntryOf
      <4>2. Games(b.stats) >= Games(a.stats)
        <5>1. Games(a.stats) \in Nat
          BY <2>1, GamesType DEF Task
        <5> QED
          BY <2>1, <2>6, <5>1 DEF TaskStep
      <4>3. Ledger(r)!Games(f) >= Ledger(r)!Games(e)
        BY <4>1, <4>2 DEF Ledger!Games, Games
      <4> QED
        BY <2>4, <4>1, <4>3 DEF Ledger!Evolves, e, f
    <3>3. CASE ~a.active
      <4>1. e.state = "closed" /\ f.state = "closed" /\ e.stats = f.stats
        BY <2>1, <2>2, <2>6, <3>1, <3>3 DEF EntryOf, TaskStep
      <4> QED
        BY <2>4, <4>1 DEF Ledger!Evolves, e, f
    <3> QED
      BY <3>2, <3>3
  <2> QED
    BY <2>5, <2>6
<1>4. ASSUME y.finished, NEW t \in Ids(x)
      PROVE  Entries(y)[t].state # "open"
  <2>1. ~y.tasks[t].active
    BY <1>1, <1>4 DEF QuietOk, Active
  <2> QED
    BY <1>2, <2>1, EntryFields
<1> QED
  BY <1>2, <1>3, <1>4 DEF Ledger!Advance

(* A new task gets less than a batch of games more than the run asks for. *)
LEMMA TaskSizeBound ==
  ASSUME NEW c \in Client, NEW run \in RunObject, NeedsGames(run)
  PROVE  run.committed + TaskSize(c, run) < run.num_games + BatchGames
<1> DEFINE remaining == run.num_games - run.committed
           n == remaining + BatchGames - 1
           batches == n \div BatchGames
<1>1. /\ remaining \in Nat /\ remaining > 0
      /\ run.num_games \in Int /\ run.committed \in Int
  BY DEF NeedsGames, RunObject
<1>2. BatchGames \in Nat /\ BatchGames > 0 /\ WorkerCap[c] \in Nat
  BY BoundAssumption, ClientAssumption
<1>3. n \in Nat
  BY <1>1, <1>2
<1>4. BatchGames * batches <= n
  <2> HIDE DEF n
  <2> QED
    BY <1>2, <1>3
<1>5. TaskSize(c, run) <= n
  <2>1. BatchGames * batches \in Int
    <3>1. batches \in Int
      <4> HIDE DEF n
      <4> QED
        BY <1>2, <1>3
    <3> HIDE DEF batches
    <3> QED
      BY <1>2, <3>1
  <2>2. TaskSize(c, run) \in {WorkerCap[c], remaining, BatchGames * batches}
        /\ (TaskSize(c, run) = WorkerCap[c] =>
               WorkerCap[c] <= remaining \/ WorkerCap[c] <= BatchGames * batches)
    <3> DEFINE product == BatchGames * batches
    <3>1. TaskSize(c, run) =
            LET rounded == IF run.kind # "sprt" THEN remaining ELSE product
            IN  IF WorkerCap[c] < rounded THEN WorkerCap[c] ELSE rounded
      BY DEF TaskSize
    <3>2. product \in Int
      BY <2>1
    <3> HIDE DEF product, remaining
    <3> QED
      BY <1>1, <1>2, <3>1, <3>2 DEF product
  <2> DEFINE product == BatchGames * batches
  <2> HIDE DEF product
  <2> QED
    BY <1>1, <1>2, <1>3, <1>4, <2>1, <2>2 DEF product
<1> QED
  <2>1. TaskSize(c, run) \in Nat
    BY TaskSizeType
  <2> QED
    BY <1>1, <1>2, <1>5, <2>1

(* A new task is dealt as Deal allows; other runs keep their ledgers. *)
LEMMA LedgerDeals ==
  ASSUME Inductive, NEW c \in Client, AppendTask(c), NeedsGames(runs[req[c].run]), NEW x \in Run
  PROVE  [Ledger(x)!Next]_(Ledger(x)!vars)
<1> DEFINE r == req[c].run
           run == runs[r]
           task == NewTask(c, req[c].addr, run)
           new == WithTask(run, task)
           n == Len(run.tasks) + 1
<1>1. /\ TypeOK /\ r \in Run /\ r \in submitted /\ run \in RunObject /\ run.num_games \in Int
      /\ req[c].addr \in Addr /\ NeedsGames(run)
  <2>1. req[c] # Idle /\ req[c].pc = "append"
    BY DEF AppendTask, Idle
  <2> QED
    BY <2>1 DEF Inductive, TypeOK, LockOk, ReqState, Idle, RunObject
<1>2. runs' = [runs EXCEPT ![r] = new] /\ UNCHANGED submitted
  BY <1>1 DEF AppendTask
<1>3. CASE x # r
  <2>1. runs'[x] = runs[x]
    BY <1>1, <1>2, <1>3 DEF TypeOK
  <2> QED
    BY <1>2, <2>1 DEF Ledger!vars
<1>4. CASE x = r
  <2>1. /\ task \in Task /\ task.active /\ ~task.bad /\ task.start = run.total
        /\ task.client = c /\ task.stats = Zero /\ task.num_games = TaskSize(c, run)
    BY <1>1, NewTaskType DEF NewTask
  <2>2. ~run.finished /\ run.committed < run.num_games /\ run.committed \in Int
    BY <1>1 DEF NeedsGames, RunObject
  <2>3. /\ new \in RunObject /\ n \in Nat /\ Ids(new) = Ids(run) \cup {n} /\ n \notin Ids(run)
        /\ \A t \in Ids(run) : new.tasks[t] = run.tasks[t]
        /\ new.tasks[n] = task /\ new.finished = run.finished
    BY <1>1, <2>1, <2>2, WithTaskOk
  <2>4. new.num_games = run.num_games
    <3> HIDE DEF task
    <3> QED
      BY <1>1 DEF WithTask, RunObject
  <2>5. runs'[r] = new
    <3> HIDE DEF new
    <3> QED
      BY <1>1, <1>2 DEF TypeOK
  <2>6. run.committed + task.num_games < run.num_games + BatchGames
    BY <1>1, <2>1, TaskSizeBound
  <2> HIDE DEF task, new
  <2> DEFINE e == Entries(new)[n]
  <2>7. /\ Entries(run) \in Seq(Entry) /\ Len(Entries(run)) = Len(run.tasks)
        /\ Ids(run) = 1 .. Len(run.tasks) /\ Len(run.tasks) \in Nat
        /\ \A t \in Ids(run) : Entries(run)[t] = EntryOf(run.tasks[t])
    BY <1>1, EntriesType
  <2>8. /\ Entries(new) \in Seq(Entry) /\ DOMAIN Entries(new) = Ids(new)
        /\ \A t \in Ids(new) : /\ Entries(new)[t] = EntryOf(new.tasks[t])
                              /\ Entries(new)[t] \in Entry
    BY <2>3, EntriesType
  <2>9. Entries(new) = Append(Entries(run), e)
    <3> DEFINE more == Append(Entries(run), e)
    <3>1. e \in Entry
      BY <2>3, <2>8
    <3>2. /\ more \in Seq(Entry) /\ Len(more) = n /\ DOMAIN more = 1 .. n /\ more[n] = e
          /\ \A t \in 1 .. Len(run.tasks) : more[t] = Entries(run)[t]
      <4> HIDE DEF e
      <4> QED
        BY <2>7, <3>1, AppendProperties
    <3>3. Ids(new) = 1 .. n
      <4>1. \A k \in Nat : (1 .. k) \cup {k + 1} = 1 .. k + 1
        OBVIOUS
      <4> QED
        BY <2>3, <2>7, <4>1
    <3>4. \A t \in 1 .. n : Entries(new)[t] = more[t]
      <4>1. TAKE t \in 1 .. n
      <4>2. CASE t = n
        BY <3>2, <4>2
      <4>3. CASE t # n
        <5>1. t \in Ids(run)
          BY <2>3, <3>3, <4>3
        <5> QED
          BY <2>3, <2>7, <2>8, <3>2, <5>1
      <4> QED
        BY <4>2, <4>3
    <3> HIDE DEF more
    <3>5. Entries(new) = more
      BY <2>8, <3>2, <3>3, <3>4
    <3> QED
      BY <3>5 DEF more
  <2>10. /\ e.client = c /\ e.size = task.num_games /\ e.size \in Nat /\ e.start = run.total
         /\ e.state = "open" /\ e.stats = Zero
    <3>1. e = EntryOf(task)
      BY <2>3, <2>8
    <3> QED
      BY <2>1, <3>1, EntryFields DEF Task
  <2>11. Ledger(x)!Dealt = run.total /\ Ledger(x)!Committed = run.committed
    BY <1>4, LedgerCounts
  <2>12. e \in {Entries(new)[i] : i \in DOMAIN Entries(new)}
    BY <2>3, <2>8
  <2> HIDE DEF e
  <2>13. /\ Entries(runs'[x]) = Append(Entries(runs[x]), e)
         /\ e \in {Entries(runs'[x])[i] : i \in DOMAIN Entries(runs'[x])}
         /\ UNCHANGED submitted /\ runs'[x].finished = runs[x].finished /\ ~runs[x].finished
         /\ runs'[x].num_games = runs[x].num_games
    BY <1>2, <1>4, <2>2, <2>3, <2>4, <2>5, <2>9, <2>12
  <2>14. /\ Ledger(x)!Committed < runs[x].num_games
         /\ Ledger(x)!Committed + e.size < runs[x].num_games + BatchGames
         /\ e.start = Ledger(x)!Dealt
    BY <1>4, <2>2, <2>6, <2>10, <2>11
  <2>15. Ledger(x)!Deal
    BY <2>10, <2>13, <2>14 DEF Ledger!Deal, Ledger!NoStats, Zero
  <2> QED
    BY <2>15 DEF Ledger!Next
<1> QED
  BY <1>3, <1>4

(* Every step of the server is a step of the ledger of every run, or none. *)
LEMMA LedgerStep ==
  ASSUME Inductive, Inductive', [Next]_vars, NEW x \in Run
  PROVE  [Ledger(x)!Next]_(Ledger(x)!vars)
<1>1. ASSUME Progress, UNCHANGED submitted, runs'[x].num_games = runs[x].num_games
      PROVE  [Ledger(x)!Next]_(Ledger(x)!vars)
  BY <1>1, LedgerAdvances DEF Ledger!Next
<1>2. ASSUME NEW c \in Client, AppendTask(c), NeedsGames(runs[req[c].run])
      PROVE  [Ledger(x)!Next]_(Ledger(x)!vars)
  BY <1>2, LedgerDeals
<1>3. ASSUME NEW u \in User, NEW r \in Run, NewRun(u, r)
      PROVE  [Ledger(x)!Next]_(Ledger(x)!vars)
  <2>1. /\ r \notin submitted /\ submitted' = submitted \cup {r}
        /\ \A y \in Run \ {r} : runs'[y] = runs[y]
        /\ Ids(runs[r]) = {} /\ Ids(runs'[r]) = {}
        /\ runs'[r].num_games \in Int /\ ~runs'[r].finished
    BY <1>3, NewRunObjects
  <2>2. CASE x # r
    BY <2>1, <2>2 DEF Ledger!vars
  <2>3. CASE x = r
    <3>1. Entries(runs'[r]) = Entries(runs[r])
      BY <2>1 DEF Entries
    <3> QED
      BY <2>1, <2>3, <3>1 DEF Ledger!Next, Ledger!Resize
  <2> QED
    BY <2>2, <2>3
<1>4. ASSUME NEW u \in User, ModifyArgs(u)
      PROVE  [Ledger(x)!Next]_(Ledger(x)!vars)
  <2> DEFINE r == user[u].run
  <2>1. /\ r \in Run /\ \A y \in Run \ {r} : runs'[y] = runs[y]
        /\ runs'[r].num_games \in Int /\ runs'[r].tasks = runs[r].tasks
        /\ runs'[r].finished = runs[r].finished /\ UNCHANGED submitted
    BY <1>4, ModifyArgsObject DEF ModifyArgs
  <2>2. CASE x # r
    BY <2>1, <2>2 DEF Ledger!vars
  <2>3. CASE x = r
    <3>1. Entries(runs'[r]) = Entries(runs[r])
      BY <2>1 DEF Entries, Ids
    <3> QED
      BY <2>1, <2>3, <3>1 DEF Ledger!Next, Ledger!Resize
  <2> QED
    BY <2>2, <2>3
<1> QED
  BY <1>1, <1>2, <1>3, <1>4, NextProgress, WantedKept

\* Before any run exists all ledgers are empty.
LEMMA LedgerInit ==
  ASSUME Init, NEW r \in Run
  PROVE  Ledger(r)!Init
<1>1. runs[r].tasks = <<>> /\ runs[r].num_games = 0 /\ ~runs[r].finished
  BY DEF Init, NewRunObject
<1> DEFINE tasks == runs[r].tasks
<1>2. DOMAIN tasks = {}
  BY <1>1
<1>3. Ids(runs[r]) = {}
  BY <1>2 DEF Ids
<1>4. Entries(runs[r]) = <<>>
  BY <1>3 DEF Entries
<1> QED
  BY <1>1, <1>4 DEF Ledger!Init

(* Of every run, the task queue implements the ledger of its tasks, whatever the *)
(* handlers of workers and users do in between (sync_request_task, update_task,  *)
(* purge_run, ...).                                                              *)
THEOREM QueueIsLedger ==
  ASSUME NEW r \in Run
  PROVE  Spec => Ledger(r)!Spec
<1>1. Init => Ledger(r)!Init
  BY LedgerInit
<1>2. Inductive /\ Inductive' /\ [Next]_vars => [Ledger(r)!Next]_(Ledger(r)!vars)
  BY LedgerStep
<1> QED
  BY <1>1, <1>2, Invariant, PTL DEF Spec, Ledger!Spec

(* The same as one formula, which the model checker evaluates.                   *)
THEOREM QueueImplementsLedger == Spec => ImplementsLedger
<1>1. Init => \A r \in Run : Ledger(r)!Init
  BY LedgerInit
<1>2. Inductive /\ Inductive' /\ [Next]_vars =>
        [\A r \in Run : [Ledger(r)!Next]_(Ledger(r)!vars)]_vars
  BY LedgerStep
<1> QED
  BY <1>1, <1>2, Invariant, PTL DEF Spec, ImplementsLedger
=============================================================================
