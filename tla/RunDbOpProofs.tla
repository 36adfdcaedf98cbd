---------------------------- MODULE RunDbOpProofs ----------------------------
(***************************************************************************)
(* Lemmas about the operations of RunDb.                                   *)
(*                                                                         *)
(* Every handler changes one run by a sequence of the operations that are  *)
(* defined in RunDb on the view of a run.  OpStep says what each of these  *)
(* operations, and every sequence of them, preserves.                      *)
(***************************************************************************)
EXTENDS RunDb, TotalsProofs, SequenceTheorems

ViewType == [run : RunObject, conns : [Addr -> Int], listed : BOOLEAN]

SameTask(x, y) == /\ x.client = y.client
                  /\ x.addr = y.addr
                  /\ x.num_games = y.num_games
                  /\ x.start = y.start

\* What may become of a task: a bad task stays bad, an inactive one stays inactive,
\* and unless it is bad, only an active one gets new statistics, with no fewer games.
TaskStep(x, y) ==
    /\ SameTask(x, y)
    /\ x.bad => y.bad
    /\ y.active => x.active
    /\ \/ y.bad
       \/ y.stats = x.stats
       \/ x.active /\ Games(y.stats) >= Games(x.stats)

ListedOk(v) == v.run.finished \/ v.listed

OpStep(v, w) ==
    /\ w \in ViewType
    /\ Ids(w.run) = Ids(v.run)
    /\ \A t \in Ids(v.run) : TaskStep(v.run.tasks[t], w.run.tasks[t])
    /\ w.run.total = v.run.total
    /\ Active(w.run) \subseteq Active(v.run)
    /\ \A a \in Addr : w.conns[a] = v.conns[a] - Cardinality(ActiveAt(a, v.run))
                                               + Cardinality(ActiveAt(a, w.run))
    /\ AggregatesOk(v.run) => AggregatesOk(w.run)
    /\ QuietOk(v.run) => QuietOk(w.run)
    /\ BadTasksOk(v.run) => BadTasksOk(w.run)
    /\ ListedOk(v) => ListedOk(w)

----------------------------------------------------------------------------
(* The indices of a run and what is defined over them. *)

\* The task ids of a run are 1 .. n, finitely many, and each task is a task.
LEMMA TasksType ==
  ASSUME NEW run \in RunObject
  PROVE  /\ Ids(run) = 1 .. Len(run.tasks)
         /\ Len(run.tasks) \in Nat
         /\ IsFiniteSet(Ids(run))
         /\ \A t \in Ids(run) : run.tasks[t] \in Task
<1>1. run.tasks \in Seq(Task)
  BY DEF RunObject
<1>2. Ids(run) = 1 .. Len(run.tasks) /\ Len(run.tasks) \in Nat
  BY <1>1 DEF Ids
<1>3. \A t \in Ids(run) : run.tasks[t] \in Task
  BY <1>1, <1>2
<1> QED
  BY <1>2, <1>3, FS_Interval

\* A report has a natural number of games, and may be added to results.
LEMMA GamesType ==
  ASSUME NEW stats \in Report
  PROVE  Games(stats) \in Nat /\ stats \in Stat
BY DEF Games, Report, Stat

\* The functions that the aggregates sum have natural values.
LEMMA DataType ==
  ASSUME NEW run \in RunObject
  PROVE  /\ NatValued(Cores(run), Ids(run))
         /\ NatValued(Sizes(run), Ids(run))
         /\ NatValued(Played(run), Ids(run))
         /\ NatValued(Cores(run), Active(run))
         /\ NatValued(Sizes(run), Active(run))
         /\ NatValued(Played(run), Ids(run) \ Active(run))
         /\ Active(run) \subseteq Ids(run)
         /\ IsFiniteSet(Active(run))
         /\ IsFiniteSet(Ids(run) \ Active(run))
<1>1. \A t \in Ids(run) : run.tasks[t] \in Task
  BY TasksType
<1>2. \A t \in Ids(run) : run.tasks[t].client \in Client /\ run.tasks[t].num_games \in Nat
                          /\ run.tasks[t].stats \in Report
  BY <1>1 DEF Task
<1>3. NatValued(Cores(run), Ids(run))
  BY <1>2, ClientAssumption DEF NatValued, Cores
<1>4. NatValued(Sizes(run), Ids(run))
  BY <1>2 DEF NatValued, Sizes
<1>5. NatValued(Played(run), Ids(run))
  BY <1>2, GamesType DEF NatValued, Played
<1>6. Active(run) \subseteq Ids(run)
  BY DEF Active
<1>7. IsFiniteSet(Active(run)) /\ IsFiniteSet(Ids(run) \ Active(run))
  BY <1>6, TasksType, FS_Subset
<1> QED
  BY <1>3, <1>4, <1>5, <1>6, <1>7 DEF NatValued

\* What the schema computes from the tasks are natural numbers.
LEMMA SumSizes ==
  ASSUME NEW run \in RunObject
  PROVE  /\ compute_workers(run) \in Nat
         /\ compute_cores(run) \in Nat
         /\ compute_committed_games(run) \in Nat
         /\ compute_total_games(run) \in Nat
<1>1. Cardinality(Active(run)) \in Nat
  BY DataType, FS_CardinalityType
<1>2. SumOver(Cores(run), Active(run)) \in Nat /\ SumOver(Sizes(run), Active(run)) \in Nat
  BY DataType, UnitsFinite
<1>3. SumOver(Sizes(run), Ids(run)) \in Nat
  BY DataType, TasksType, UnitsFinite
<1>4. SumOver(Played(run), Ids(run) \ Active(run)) \in Nat
  BY DataType, UnitsFinite
<1> QED
  BY <1>1, <1>2, <1>3, <1>4
     DEF compute_workers, compute_cores, compute_committed_games, compute_total_games

----------------------------------------------------------------------------
(* set_inactive_tasks *)

(* What deactivating the tasks of out makes of the view v. *)
Deactivated(out, v, w) ==
    /\ w \in ViewType
    /\ w.listed = v.listed
    /\ \A a \in Addr : w.conns[a] = v.conns[a]
          - Cardinality({t \in out : v.run.tasks[t].addr = a})
    /\ w.run.workers = v.run.workers - Cardinality(out)
    /\ w.run.cores = v.run.cores - SumOver(Cores(v.run), out)
    /\ w.run.committed = v.run.committed - SumOver(Sizes(v.run), out)
                                         + SumOver(Played(v.run), out)
    /\ w.run.tasks = [t \in Ids(v.run) |->
          IF t \in out THEN [v.run.tasks[t] EXCEPT !.active = FALSE, !.age = "fresh"]
          ELSE v.run.tasks[t]]
    /\ w.run.total = v.run.total
    /\ w.run.finished = v.run.finished
    /\ w.run.bad_tasks = v.run.bad_tasks

\* set_inactive_task() for a set of tasks, field by field.
LEMMA InactiveTasksFields ==
  ASSUME NEW T, NEW v \in ViewType
  PROVE  Deactivated(T \cap Active(v.run), v, set_inactive_tasks(T, v))
<1> DEFINE run == v.run
           w == set_inactive_tasks(T, v)
           out == T \cap Active(run)
           tasks2 == [t \in Ids(run) |->
                   IF t \in out
                   THEN [run.tasks[t] EXCEPT !.active = FALSE, !.age = "fresh"]
                   ELSE run.tasks[t]]
<1>1. run \in RunObject /\ v.conns \in [Addr -> Int] /\ v.listed \in BOOLEAN
  BY DEF ViewType
<1>2. /\ Cardinality(out) \in Nat
      /\ SumOver(Cores(run), out) \in Nat
      /\ SumOver(Sizes(run), out) \in Nat
      /\ SumOver(Played(run), out) \in Nat
  <2>1. out \subseteq Ids(run) /\ IsFiniteSet(out)
    BY <1>1, DataType, FS_Subset
  <2>2. NatValued(Cores(run), out) /\ NatValued(Sizes(run), out) /\ NatValued(Played(run), out)
    BY <1>1, <2>1, DataType DEF NatValued
  <2> QED
    BY <2>1, <2>2, UnitsFinite, FS_CardinalityType
<1>3. tasks2 \in Seq(Task)
  <2>1. \A t \in Ids(run) : tasks2[t] \in Task
    <3>1. TAKE t \in Ids(run)
    <3>2. run.tasks[t] \in Task
      BY <1>1, TasksType
    <3>3. [run.tasks[t] EXCEPT !.active = FALSE, !.age = "fresh"] \in Task
      BY <3>2 DEF Task, Ages
    <3> QED
      BY <3>2, <3>3
  <2>2. Ids(run) = 1 .. Len(run.tasks) /\ Len(run.tasks) \in Nat
    BY <1>1, TasksType
  <2>3. tasks2 \in [1 .. Len(run.tasks) -> Task]
    BY <2>1, <2>2
  <2> QED
    BY <2>2, <2>3, SeqDef
<1>4. \A a \in Addr : Cardinality({t \in out : run.tasks[t].addr = a}) \in Nat
  <2>1. TAKE a \in Addr
  <2>2. IsFiniteSet({t \in out : run.tasks[t].addr = a})
    BY <1>1, DataType, FS_Subset
  <2> QED
    BY <2>2, FS_CardinalityType
<1>5. w.conns = [a \in Addr |-> v.conns[a]
                   - Cardinality({t \in out : run.tasks[t].addr = a})]
  BY <1>1 DEF set_inactive_tasks, ViewType
<1>6. w.conns \in [Addr -> Int]
  BY <1>1, <1>4, <1>5
<1>7. w.run = [run EXCEPT !.workers = @ - Cardinality(out),
                          !.cores = @ - SumOver(Cores(run), out),
                          !.committed = @ - SumOver(Sizes(run), out) + SumOver(Played(run), out),
                          !.tasks = tasks2]
  BY <1>1 DEF set_inactive_tasks, ViewType
<1>8. w.run \in RunObject
  <2>1. /\ run.workers - Cardinality(out) \in Int
        /\ run.cores - SumOver(Cores(run), out) \in Int
        /\ run.committed - SumOver(Sizes(run), out) + SumOver(Played(run), out) \in Int
    BY <1>1, <1>2 DEF RunObject
  <2> HIDE DEF tasks2
  <2> QED
    BY <1>1, <1>3, <1>7, <2>1 DEF RunObject
<1>9. w \in [run : RunObject, conns : [Addr -> Int], listed : BOOLEAN] /\ w.listed = v.listed
  <2>1. w = [v EXCEPT !.run = w.run, !.conns = w.conns]
    BY DEF set_inactive_tasks, ViewType
  <2> QED
    BY <1>1, <1>6, <1>8, <2>1 DEF ViewType
<1>10. /\ w.run.workers = run.workers - Cardinality(out)
       /\ w.run.cores = run.cores - SumOver(Cores(run), out)
       /\ w.run.committed = run.committed - SumOver(Sizes(run), out)
                                          + SumOver(Played(run), out)
       /\ w.run.tasks = tasks2
       /\ w.run.total = run.total
       /\ w.run.finished = run.finished
       /\ w.run.bad_tasks = run.bad_tasks
  BY <1>1, <1>7 DEF RunObject
<1>11. \A a \in Addr : w.conns[a] = v.conns[a]
                 - Cardinality({t \in out : run.tasks[t].addr = a})
  BY <1>5
<1> HIDE DEF w, tasks2
<1>12. Deactivated(out, v, w)
  BY <1>9, <1>10, <1>11 DEF ViewType, Deactivated, tasks2
<1> QED
  BY <1>12 DEF w

\* Taking tasks out of the active ones, with the counters lowered by what they
\* contributed, keeps the aggregates, the connection counters and the bad tasks in order.
LEMMA DeactivatedStep ==
  ASSUME NEW v \in ViewType, NEW w, NEW out, out \subseteq Active(v.run), Deactivated(out, v, w)
  PROVE  OpStep(v, w) /\ Active(w.run) = Active(v.run) \ out
<1> DEFINE run == v.run
<1>1. run \in RunObject /\ v.conns \in [Addr -> Int]
  BY DEF ViewType
<1>2. w \in ViewType /\ w.run \in RunObject
  BY DEF ViewType, Deactivated
<1>3. w.run.tasks = [t \in Ids(run) |->
                   IF t \in out
                   THEN [run.tasks[t] EXCEPT !.active = FALSE, !.age = "fresh"]
                   ELSE run.tasks[t]]
  BY DEF Deactivated
<1>4. Ids(w.run) = Ids(run)
  BY <1>3 DEF Ids
<1>5. \A t \in Ids(run) : /\ SameTask(run.tasks[t], w.run.tasks[t])
                          /\ w.run.tasks[t].stats = run.tasks[t].stats
                          /\ w.run.tasks[t].bad = run.tasks[t].bad
                          /\ w.run.tasks[t].active = (run.tasks[t].active /\ t \notin out)
  <2>1. TAKE t \in Ids(run)
  <2>2. run.tasks[t] \in Task
    BY <1>1, TasksType
  <2>3. CASE t \in out
    <3>1. w.run.tasks[t] = [run.tasks[t] EXCEPT !.active = FALSE, !.age = "fresh"]
      BY <1>3, <2>3
    <3> QED
      BY <2>2, <2>3, <3>1 DEF Task, SameTask
  <2>4. CASE t \notin out
    <3>1. w.run.tasks[t] = run.tasks[t]
      BY <1>3, <2>4
    <3> QED
      BY <2>2, <2>4, <3>1 DEF Task, SameTask
  <2> QED
    BY <2>3, <2>4
<1>6. Active(w.run) = Active(run) \ out
  BY <1>4, <1>5 DEF Active
<1>7. /\ Cores(w.run) = Cores(run)
      /\ Sizes(w.run) = Sizes(run)
      /\ Played(w.run) = Played(run)
  BY <1>4, <1>5 DEF Cores, Sizes, Played, SameTask
<1>8. out \subseteq Active(run) /\ out \subseteq Ids(run)
  BY DEF Active
<1>9. AggregatesOk(run) => AggregatesOk(w.run)
  <2>1. SUFFICES ASSUME AggregatesOk(run) PROVE AggregatesOk(w.run)
    OBVIOUS
  <2>2. w.run.workers = compute_workers(w.run)
    <3>1. IsFiniteSet(Active(run)) /\ IsFiniteSet(out) /\ Active(run) \cap out = out
      BY <1>1, <1>8, DataType, FS_Subset
    <3>2. Cardinality(Active(run) \ out) = Cardinality(Active(run)) - Cardinality(out)
      BY <3>1, FS_Difference
    <3> QED
      BY <1>6, <2>1, <3>2 DEF Deactivated, AggregatesOk, compute_workers
  <2>3. w.run.cores = compute_cores(w.run)
    <3>1. /\ SumOver(Cores(run), Active(run))
                = SumOver(Cores(run), Active(run) \ out) + SumOver(Cores(run), out)
          /\ SumOver(Cores(run), Active(run) \ out) \in Nat
          /\ SumOver(Cores(run), out) \in Nat
      BY <1>1, <1>8, DataType, SumSplit
    <3>2. run.cores = SumOver(Cores(run), Active(run))
      BY <2>1 DEF AggregatesOk, compute_cores
    <3>3. w.run.cores = run.cores - SumOver(Cores(run), out)
      BY DEF Deactivated
    <3>4. compute_cores(w.run) = SumOver(Cores(run), Active(run) \ out)
      BY <1>6, <1>7 DEF compute_cores
    <3> QED
      BY <3>1, <3>2, <3>3, <3>4
  <2>4. w.run.committed = compute_committed_games(w.run)
    <3> DEFINE idle == Ids(run) \ Active(run)
    <3>1. /\ SumOver(Sizes(run), Active(run))
                = SumOver(Sizes(run), Active(run) \ out) + SumOver(Sizes(run), out)
          /\ SumOver(Sizes(run), Active(run) \ out) \in Nat
          /\ SumOver(Sizes(run), out) \in Nat
      BY <1>1, <1>8, DataType, SumSplit
    <3>2. IsFiniteSet(idle \cup out) /\ Ids(run) \ (Active(run) \ out) = idle \cup out
      BY <1>1, <1>8, TasksType, FS_Subset
    <3>3. NatValued(Played(run), idle \cup out)
      BY <1>1, <1>8, DataType DEF NatValued
    <3>4. /\ SumOver(Played(run), idle \cup out)
                = SumOver(Played(run), (idle \cup out) \ out) + SumOver(Played(run), out)
          /\ SumOver(Played(run), (idle \cup out) \ out) \in Nat
          /\ SumOver(Played(run), out) \in Nat
      BY <3>2, <3>3, SumSplit
    <3>5. (idle \cup out) \ out = idle
      BY <1>8
    <3>6. run.committed = SumOver(Sizes(run), Active(run)) + SumOver(Played(run), idle)
      BY <2>1 DEF AggregatesOk, compute_committed_games
    <3>7. w.run.committed = run.committed - SumOver(Sizes(run), out) + SumOver(Played(run), out)
      BY DEF Deactivated
    <3>8. compute_committed_games(w.run)
            = SumOver(Sizes(run), Active(run) \ out) + SumOver(Played(run), idle \cup out)
      BY <1>4, <1>6, <1>7, <3>2 DEF compute_committed_games
    <3>9. SumOver(Played(run), (idle \cup out) \ out) = SumOver(Played(run), idle)
      BY <3>5
    <3> HIDE DEF idle
    <3> QED
      BY <3>1, <3>4, <3>6, <3>7, <3>8, <3>9
  <2>5. w.run.total = compute_total_games(w.run)
    BY <1>4, <1>7, <2>1 DEF Deactivated, AggregatesOk, compute_total_games
  <2> QED
    BY <2>2, <2>3, <2>4, <2>5 DEF AggregatesOk
<1>10. \A a \in Addr : w.conns[a] = v.conns[a] - Cardinality(ActiveAt(a, run))
                                               + Cardinality(ActiveAt(a, w.run))
  <2>1. TAKE a \in Addr
  <2> DEFINE gone == {t \in out : run.tasks[t].addr = a}
  <2>2. IsFiniteSet(ActiveAt(a, run)) /\ IsFiniteSet(gone)
    BY <1>1, DataType, FS_Subset DEF ActiveAt
  <2>3. ActiveAt(a, w.run) = ActiveAt(a, run) \ gone
    <3>1. \A t \in Active(run) : w.run.tasks[t].addr = run.tasks[t].addr
      BY <1>5 DEF SameTask, Active
    <3> QED
      BY <1>6, <1>8, <3>1 DEF ActiveAt
  <2>4. ActiveAt(a, run) \cap gone = gone
    BY <1>8 DEF ActiveAt
  <2>5. Cardinality(ActiveAt(a, w.run)) = Cardinality(ActiveAt(a, run)) - Cardinality(gone)
    BY <2>2, <2>3, <2>4, FS_Difference
  <2>6. Cardinality(ActiveAt(a, run)) \in Nat /\ Cardinality(gone) \in Nat /\ v.conns[a] \in Int
    BY <1>1, <2>2, FS_CardinalityType
  <2>7. w.conns[a] = v.conns[a] - Cardinality(gone)
    BY DEF Deactivated
  <2> HIDE DEF gone
  <2> QED
    BY <2>5, <2>6, <2>7
<1>11. QuietOk(run) => QuietOk(w.run)
  BY <1>6 DEF Deactivated, QuietOk
<1>12. BadTasksOk(run) => BadTasksOk(w.run)
  BY <1>4, <1>5 DEF Deactivated, BadTasksOk
<1>13. ListedOk(v) => ListedOk(w)
  BY DEF Deactivated, ListedOk
<1>14. \A t \in Ids(run) : TaskStep(run.tasks[t], w.run.tasks[t])
  BY <1>5 DEF TaskStep
<1> QED
  BY <1>2, <1>4, <1>6, <1>9, <1>10, <1>11, <1>12, <1>13, <1>14 DEF Deactivated, OpStep

\* set_inactive_task() is a sound step.
LEMMA InactiveTasksStep ==
  ASSUME NEW T, NEW v \in ViewType
  PROVE  /\ OpStep(v, set_inactive_tasks(T, v))
         /\ Active(set_inactive_tasks(T, v).run) = Active(v.run) \ T
<1>1. Deactivated(T \cap Active(v.run), v, set_inactive_tasks(T, v))
  BY InactiveTasksFields
<1>2. /\ OpStep(v, set_inactive_tasks(T, v))
      /\ Active(set_inactive_tasks(T, v).run) = Active(v.run) \ (T \cap Active(v.run))
  BY <1>1, DeactivatedStep
<1> QED
  BY <1>2

----------------------------------------------------------------------------
(* Sequences of operations. *)

\* Two sound steps of one run, one after the other, are a sound step.
LEMMA StepTransitive ==
  ASSUME NEW u \in ViewType, NEW v, NEW w, OpStep(u, v), OpStep(v, w)
  PROVE  OpStep(u, w)
<1>1. \A t \in Ids(u.run) : TaskStep(u.run.tasks[t], w.run.tasks[t])
  <2>1. TAKE t \in Ids(u.run)
  <2>2. TaskStep(u.run.tasks[t], v.run.tasks[t]) /\ TaskStep(v.run.tasks[t], w.run.tasks[t])
    BY DEF OpStep
  <2>3. \A x \in ViewType : t \in Ids(x.run) => Games(x.run.tasks[t].stats) \in Nat
    BY TasksType, GamesType DEF ViewType, Task
  <2>4. /\ Games(u.run.tasks[t].stats) \in Nat
        /\ Games(v.run.tasks[t].stats) \in Nat
        /\ Games(w.run.tasks[t].stats) \in Nat
    BY <2>3 DEF OpStep
  <2> QED
    BY <2>2, <2>4 DEF TaskStep, SameTask
<1>2. \A a \in Addr : w.conns[a] = u.conns[a] - Cardinality(ActiveAt(a, u.run))
                                               + Cardinality(ActiveAt(a, w.run))
  <2>1. TAKE a \in Addr
  <2>2. \A x \in ViewType : x.conns[a] \in Int /\ Cardinality(ActiveAt(a, x.run)) \in Nat
    <3>1. TAKE x \in ViewType
    <3>2. x.run \in RunObject /\ x.conns[a] \in Int
      BY <2>1 DEF ViewType
    <3>3. IsFiniteSet(ActiveAt(a, x.run))
      BY <3>2, DataType, FS_Subset DEF ActiveAt
    <3> QED
      BY <3>2, <3>3, FS_CardinalityType
  <2>3. u \in ViewType /\ v \in ViewType /\ w \in ViewType
    BY DEF OpStep
  <2>4. v.conns[a] = u.conns[a] - Cardinality(ActiveAt(a, u.run)) + Cardinality(ActiveAt(a, v.run))
    BY <2>1 DEF OpStep
  <2>5. w.conns[a] = v.conns[a] - Cardinality(ActiveAt(a, v.run)) + Cardinality(ActiveAt(a, w.run))
    BY <2>1 DEF OpStep
  <2> QED
    BY <2>2, <2>3, <2>4, <2>5
<1> QED
  BY <1>1, <1>2 DEF OpStep

(* The part of a run that the tasks and their accounts are in. *)
SameBooks(x, y) == /\ x.tasks = y.tasks
                   /\ x.bad_tasks = y.bad_tasks
                   /\ x.workers = y.workers
                   /\ x.cores = y.cores
                   /\ x.committed = y.committed
                   /\ x.total = y.total

\* Runs with the same tasks and counters agree on all that depends on these.
LEMMA SameBooksFacts ==
  ASSUME NEW x, NEW y, SameBooks(x, y)
  PROVE  /\ Ids(x) = Ids(y)
         /\ Active(x) = Active(y)
         /\ \A a \in Addr : ActiveAt(a, x) = ActiveAt(a, y)
         /\ AggregatesOk(x) = AggregatesOk(y)
         /\ BadTasksOk(x) = BadTasksOk(y)
<1>1. Ids(x) = Ids(y)
  BY DEF SameBooks, Ids
<1>2. Active(x) = Active(y)
  BY <1>1 DEF SameBooks, Active
<1>3. \A a \in Addr : ActiveAt(a, x) = ActiveAt(a, y)
  BY <1>2 DEF SameBooks, ActiveAt
<1>4. Cores(x) = Cores(y) /\ Sizes(x) = Sizes(y) /\ Played(x) = Played(y)
  BY <1>1 DEF SameBooks, Cores, Sizes, Played
<1>5. AggregatesOk(x) = AggregatesOk(y)
  BY <1>1, <1>2, <1>4 DEF SameBooks, AggregatesOk, compute_workers, compute_cores,
                          compute_committed_games, compute_total_games
<1>6. BadTasksOk(x) = BadTasksOk(y)
  BY <1>1 DEF SameBooks, BadTasksOk
<1> QED
  BY <1>1, <1>2, <1>3, <1>5, <1>6

(* An operation that leaves the books alone. *)
LEMMA SameBooksStep ==
  ASSUME NEW v \in ViewType, NEW w \in ViewType, SameBooks(v.run, w.run), w.conns = v.conns,
         QuietOk(v.run) => QuietOk(w.run), ListedOk(v) => ListedOk(w)
  PROVE  OpStep(v, w)
<1>1. /\ Ids(w.run) = Ids(v.run)
      /\ Active(w.run) = Active(v.run)
      /\ \A a \in Addr : ActiveAt(a, w.run) = ActiveAt(a, v.run)
      /\ AggregatesOk(v.run) => AggregatesOk(w.run)
      /\ BadTasksOk(v.run) => BadTasksOk(w.run)
  BY SameBooksFacts
<1>2. \A t \in Ids(v.run) : TaskStep(v.run.tasks[t], w.run.tasks[t])
  BY DEF SameBooks, SameTask, TaskStep
<1>3. \A a \in Addr : w.conns[a] = v.conns[a] - Cardinality(ActiveAt(a, v.run))
                                               + Cardinality(ActiveAt(a, w.run))
  <2>1. TAKE a \in Addr
  <2>2. v.run \in RunObject /\ v.conns[a] \in Int
    BY <2>1 DEF ViewType
  <2>3. IsFiniteSet(ActiveAt(a, v.run))
    BY <2>2, DataType, FS_Subset DEF ActiveAt
  <2> QED
    BY <1>1, <2>2, <2>3, FS_CardinalityType
<1> QED
  BY <1>1, <1>2, <1>3 DEF OpStep, SameBooks

\* compute_flags() yields a flag.
LEMMA ComputedFlagType ==
  ASSUME NEW run
  PROVE  compute_flags(run) \in Flags
BY DEF compute_flags, Flags

\* set_inactive_run() is a sound step and finishes the run.
LEMMA InactiveRunStep ==
  ASSUME NEW v \in ViewType
  PROVE  /\ OpStep(v, set_inactive_run(v))
         /\ set_inactive_run(v).run.finished
<1> DEFINE quiet == set_inactive_tasks(Ids(v.run), v)
           run == [quiet.run EXCEPT !.finished = TRUE]
           w == set_inactive_run(v)
           flag == compute_flags(run)
<1>1. OpStep(v, quiet) /\ Active(quiet.run) = {}
  <2>1. OpStep(v, quiet) /\ Active(quiet.run) = Active(v.run) \ Ids(v.run)
    BY InactiveTasksStep
  <2> QED
    BY <2>1 DEF Active
<1>2. quiet \in ViewType /\ quiet.run \in RunObject
  BY <1>1 DEF OpStep, ViewType
<1>3. flag \in Flags
  BY ComputedFlagType
<1>4. w = [quiet EXCEPT !.run = [run EXCEPT !.flag = flag], !.listed = FALSE]
  BY DEF set_inactive_run, LockedFlag
<1> HIDE DEF quiet, flag, w
<1>5. w \in ViewType /\ SameBooks(quiet.run, w.run) /\ w.conns = quiet.conns /\ w.run.finished
  BY <1>2, <1>3, <1>4 DEF ViewType, RunObject, SameBooks
<1>6. QuietOk(w.run)
  BY <1>1, <1>5, SameBooksFacts DEF QuietOk
<1>7. OpStep(quiet, w)
  BY <1>2, <1>5, <1>6, SameBooksStep DEF ListedOk
<1>8. OpStep(v, w)
  BY <1>1, <1>7, StepTransitive
<1> QED
  BY <1>5, <1>8 DEF w

\* set_active_run() is a sound step: it touches no task.
LEMMA ActiveRunStep ==
  ASSUME NEW v \in ViewType
  PROVE  OpStep(v, set_active_run(v))
<1> DEFINE w == set_active_run(v)
<1>1. /\ w \in ViewType /\ SameBooks(v.run, w.run) /\ w.conns = v.conns
      /\ ~w.run.finished /\ w.listed
  BY DEF set_active_run, ViewType, RunObject, Flags, SameBooks
<1>2. QuietOk(w.run) /\ ListedOk(w)
  BY <1>1 DEF QuietOk, ListedOk
<1> HIDE DEF w
<1>3. OpStep(v, w)
  BY <1>1, <1>2, SameBooksStep
<1> QED
  BY <1>3 DEF w

(* A change of the results and of what is derived from them. *)
LEMMA ResultsType ==
  ASSUME NEW run \in RunObject, NEW results \in Stat
  PROVE  /\ WithResults(run, results) \in RunObject
         /\ SameBooks(run, WithResults(run, results))
         /\ WithResults(run, results).finished = run.finished
<1> DEFINE verdict == Verdict(results)
<1>1. verdict \in Verdicts
  BY DEF Verdict, Verdicts
<1>2. WithResults(run, results)
        = [[run EXCEPT !.results = results] EXCEPT
               !.state = IF run.kind = "sprt" THEN verdict ELSE @]
  BY DEF WithResults, WithVerdict, RunObject
<1> HIDE DEF verdict
<1> QED
  BY <1>1, <1>2 DEF RunObject, SameBooks

\* The assignments of a purge that does not have the lock: results, state, flag.
LEMMA AssignedResults ==
  ASSUME NEW run \in RunObject, NEW results \in Stat
  PROVE  LET w == [run EXCEPT !.results = results]
         IN  /\ w \in RunObject /\ SameBooks(run, w)
             /\ w.finished = run.finished /\ w.num_games = run.num_games
             /\ w.kind = run.kind /\ w.tasks = run.tasks
BY DEF RunObject, SameBooks

LEMMA AssignedState ==
  ASSUME NEW run \in RunObject, NEW state \in Verdicts
  PROVE  LET w == [run EXCEPT !.state = state]
         IN  /\ w \in RunObject /\ SameBooks(run, w)
             /\ w.finished = run.finished /\ w.num_games = run.num_games
             /\ w.kind = run.kind /\ w.tasks = run.tasks
BY DEF RunObject, SameBooks

LEMMA AssignedFlag ==
  ASSUME NEW run \in RunObject, NEW flag \in Flags
  PROVE  LET w == [run EXCEPT !.flag = flag]
         IN  /\ w \in RunObject /\ SameBooks(run, w)
             /\ w.finished = run.finished /\ w.num_games = run.num_games
             /\ w.kind = run.kind /\ w.tasks = run.tasks
BY DEF RunObject, SameBooks

\* New results, and the SPRT verdict on them, are sound steps.
LEMMA ResultsStep ==
  ASSUME NEW v \in ViewType, NEW results \in Stat
  PROVE  /\ OpStep(v, [v EXCEPT !.run = WithResults(v.run, results)])
         /\ OpStep(v, [v EXCEPT !.run = WithVerdict(v.run)])
<1>1. /\ v.run \in RunObject
      /\ v = [run |-> v.run, conns |-> v.conns, listed |-> v.listed]
      /\ v.conns \in [Addr -> Int] /\ v.listed \in BOOLEAN
  BY DEF ViewType
<1>2. \A run \in RunObject :
         SameBooks(v.run, run) /\ run.finished = v.run.finished
         => OpStep(v, [v EXCEPT !.run = run])
  <2>1. TAKE run \in RunObject
  <2>2. HAVE SameBooks(v.run, run) /\ run.finished = v.run.finished
  <2> DEFINE w == [v EXCEPT !.run = run]
  <2>3. w \in ViewType /\ w.run = run /\ w.conns = v.conns /\ w.listed = v.listed
    BY <1>1 DEF ViewType
  <2>4. QuietOk(v.run) => QuietOk(w.run)
    BY <2>2, <2>3, SameBooksFacts DEF QuietOk
  <2>5. ListedOk(v) => ListedOk(w)
    BY <2>2, <2>3 DEF ListedOk
  <2> HIDE DEF w
  <2>6. OpStep(v, w)
    BY <2>2, <2>3, <2>4, <2>5, SameBooksStep
  <2> QED
    BY <2>6 DEF w
<1>3. OpStep(v, [v EXCEPT !.run = WithResults(v.run, results)])
  BY <1>1, <1>2, ResultsType
<1>4. WithVerdict(v.run) = WithResults(v.run, v.run.results)
  BY <1>1 DEF WithResults, RunObject
<1>5. v.run.results \in Stat
  BY <1>1 DEF RunObject
<1>6. OpStep(v, [v EXCEPT !.run = WithVerdict(v.run)])
  BY <1>1, <1>2, <1>4, <1>5, ResultsType
<1> QED
  BY <1>3, <1>6

\* A new flag is a sound step.
LEMMA FlagStep ==
  ASSUME NEW v \in ViewType
  PROVE  OpStep(v, [v EXCEPT !.run = LockedFlag(v.run)])
<1> DEFINE flag == compute_flags(v.run)
           w == [v EXCEPT !.run = LockedFlag(v.run)]
<1>1. flag \in Flags
  BY ComputedFlagType
<1>2. w = [v EXCEPT !.run = [v.run EXCEPT !.flag = flag]]
  BY DEF LockedFlag
<1> HIDE DEF flag, w
<1>3. /\ w \in ViewType /\ SameBooks(v.run, w.run) /\ w.conns = v.conns
      /\ w.listed = v.listed /\ w.run.finished = v.run.finished
  BY <1>1, <1>2 DEF ViewType, RunObject, SameBooks
<1>4. (QuietOk(v.run) => QuietOk(w.run)) /\ (ListedOk(v) => ListedOk(w))
  BY <1>3, SameBooksFacts DEF QuietOk, ListedOk
<1>5. OpStep(v, w)
  BY <1>3, <1>4, SameBooksStep
<1> QED
  BY <1>5 DEF w

----------------------------------------------------------------------------
(* set_bad_tasks *)

(* What marking the inactive tasks of new as bad makes of the view v. *)
MarkedBad(new, v, w) ==
    /\ w \in ViewType
    /\ w.listed = v.listed
    /\ w.conns = v.conns
    /\ w.run.workers = v.run.workers
    /\ w.run.cores = v.run.cores
    /\ w.run.total = v.run.total
    /\ w.run.finished = v.run.finished
    /\ w.run.committed = v.run.committed - SumOver(Played(v.run), new)
    /\ w.run.bad_tasks = v.run.bad_tasks
          \cup {[task_id |-> t, stats |-> v.run.tasks[t].stats] : t \in new}
    /\ w.run.tasks = [t \in Ids(v.run) |->
          IF t \in new THEN [v.run.tasks[t] EXCEPT !.bad = TRUE, !.stats = Zero]
          ELSE v.run.tasks[t]]

\* The statistics of a bad task count no games.
LEMMA ZeroGames == Zero \in Report /\ Games(Zero) = 0
BY DEF Zero, Report, Games

\* Moving the statistics of inactive tasks to bad_tasks, with their games taken
\* from the committed ones, is a sound step.
LEMMA MarkedBadStep ==
  ASSUME NEW v \in ViewType, NEW w, NEW new, new \subseteq Ids(v.run),
         new \cap Active(v.run) = {}, \A t \in new : ~v.run.tasks[t].bad,
         MarkedBad(new, v, w)
  PROVE  OpStep(v, w)
<1> DEFINE run == v.run
           idle == Ids(run) \ Active(run)
<1>1. run \in RunObject /\ v.conns \in [Addr -> Int] /\ w \in ViewType
  BY DEF ViewType, MarkedBad
<1>2. Ids(w.run) = Ids(run)
  BY DEF MarkedBad, Ids
<1>3. \A t \in Ids(run) :
         /\ SameTask(run.tasks[t], w.run.tasks[t])
         /\ w.run.tasks[t].active = run.tasks[t].active
         /\ w.run.tasks[t].bad = (run.tasks[t].bad \/ t \in new)
         /\ w.run.tasks[t].stats = IF t \in new THEN Zero ELSE run.tasks[t].stats
  <2>1. TAKE t \in Ids(run)
  <2>2. run.tasks[t] \in Task
    BY <1>1, TasksType
  <2>3. w.run.tasks[t] = IF t \in new THEN [run.tasks[t] EXCEPT !.bad = TRUE, !.stats = Zero]
                         ELSE run.tasks[t]
    BY <2>1 DEF MarkedBad
  <2> QED
    BY <2>2, <2>3 DEF Task, SameTask
<1>4. Active(w.run) = Active(run) /\ \A a \in Addr : ActiveAt(a, w.run) = ActiveAt(a, run)
  BY <1>2, <1>3 DEF Active, ActiveAt, SameTask
<1>5. Cores(w.run) = Cores(run) /\ Sizes(w.run) = Sizes(run)
  BY <1>2, <1>3 DEF Cores, Sizes, SameTask
<1>6. AggregatesOk(run) => AggregatesOk(w.run)
  <2>1. SUFFICES ASSUME AggregatesOk(run) PROVE AggregatesOk(w.run)
    OBVIOUS
  <2>2. new \subseteq idle /\ IsFiniteSet(idle) /\ IsFiniteSet(new) /\ IsFiniteSet(idle \ new)
    BY <1>1, DataType, FS_Subset
  <2>3. /\ SumOver(Played(run), idle) = SumOver(Played(run), idle \ new) + SumOver(Played(run), new)
        /\ SumOver(Played(run), idle \ new) \in Nat
        /\ SumOver(Played(run), new) \in Nat
    BY <1>1, <2>2, DataType, SumSplit
  <2>4. NatValued(Played(w.run), idle)
    <3>1. w.run \in RunObject
      BY <1>1 DEF ViewType
    <3> QED
      BY <1>2, <1>4, <3>1, DataType
  <2>5. SumOver(Played(w.run), idle)
          = SumOver(Played(w.run), idle \ new) + SumOver(Played(w.run), new)
    BY <2>2, <2>4, SumSplit
  <2>6. SumOver(Played(w.run), idle \ new) = SumOver(Played(run), idle \ new)
    <3>1. \A t \in idle \ new : Played(w.run)[t] = Played(run)[t]
      BY <1>2, <1>3 DEF Played
    <3> QED
      BY <3>1, SumCongruence
  <2>7. SumOver(Played(w.run), new) = 0
    <3>1. \A t \in new : Played(w.run)[t] = 0
      BY <1>2, <1>3, ZeroGames DEF Played
    <3> QED
      BY <2>2, <3>1, SumOfZeros
  <2>8. run.committed = SumOver(Sizes(run), Active(run)) + SumOver(Played(run), idle)
    BY <2>1 DEF AggregatesOk, compute_committed_games
  <2>9. SumOver(Sizes(run), Active(run)) \in Nat
    BY <1>1, DataType, UnitsFinite
  <2>10. compute_committed_games(w.run)
           = SumOver(Sizes(run), Active(run)) + SumOver(Played(w.run), idle)
    BY <1>2, <1>4, <1>5 DEF compute_committed_games
  <2>11. w.run.committed = run.committed - SumOver(Played(run), new)
    BY DEF MarkedBad
  <2>12. w.run.committed = compute_committed_games(w.run)
    <3> HIDE DEF idle
    <3> QED
      BY <2>3, <2>5, <2>6, <2>7, <2>8, <2>9, <2>10, <2>11
  <2>13. /\ w.run.workers = compute_workers(w.run)
         /\ w.run.cores = compute_cores(w.run)
         /\ w.run.total = compute_total_games(w.run)
    BY <1>2, <1>4, <1>5, <2>1 DEF AggregatesOk, MarkedBad, compute_workers, compute_cores,
                                  compute_total_games
  <2> QED
    BY <2>12, <2>13 DEF AggregatesOk
<1>7. BadTasksOk(run) => BadTasksOk(w.run)
  <2>1. SUFFICES ASSUME BadTasksOk(run) PROVE BadTasksOk(w.run)
    OBVIOUS
  <2>2. \A b : b \in w.run.bad_tasks <=>
           \/ b \in run.bad_tasks
           \/ \E t \in new : b = [task_id |-> t, stats |-> run.tasks[t].stats]
    BY DEF MarkedBad
  <2>3. \A t \in Ids(run) : w.run.tasks[t].bad <=> \E b \in w.run.bad_tasks : b.task_id = t
    <3>1. TAKE t \in Ids(run)
    <3>2. run.tasks[t].bad <=> \E b \in run.bad_tasks : b.task_id = t
      BY <2>1 DEF BadTasksOk
    <3>3. (\E b \in w.run.bad_tasks : b.task_id = t)
             <=> (\E b \in run.bad_tasks : b.task_id = t) \/ t \in new
      <4>1. ASSUME NEW b \in w.run.bad_tasks, b.task_id = t
            PROVE  (\E d \in run.bad_tasks : d.task_id = t) \/ t \in new
        BY <2>2, <4>1
      <4>2. ASSUME NEW b \in run.bad_tasks, b.task_id = t
            PROVE  \E d \in w.run.bad_tasks : d.task_id = t
        BY <2>2, <4>2
      <4>3. ASSUME t \in new
            PROVE  \E d \in w.run.bad_tasks : d.task_id = t
        <5> DEFINE d == [task_id |-> t, stats |-> run.tasks[t].stats]
        <5>1. d \in w.run.bad_tasks /\ d.task_id = t
          BY <2>2, <4>3
        <5> QED
          BY <5>1
      <4> QED
        BY <4>1, <4>2, <4>3
    <3> QED
      BY <1>3, <3>2, <3>3
  <2>4. \A b, d \in w.run.bad_tasks : b.task_id = d.task_id => b = d
    <3>1. TAKE b, d \in w.run.bad_tasks
    <3>2. HAVE b.task_id = d.task_id
    <3>3. CASE b \in run.bad_tasks /\ d \in run.bad_tasks
      BY <2>1, <3>2, <3>3 DEF BadTasksOk
    <3>4. \A x \in run.bad_tasks, t \in new : x.task_id # t
      BY <2>1 DEF BadTasksOk
    <3>5. CASE b \notin run.bad_tasks /\ d \notin run.bad_tasks
      BY <2>2, <3>2, <3>5
    <3> QED
      BY <2>2, <3>2, <3>3, <3>4, <3>5
  <2>5. \A t \in Ids(run) :
          w.run.tasks[t].bad => ~w.run.tasks[t].active /\ w.run.tasks[t].stats = Zero
    BY <1>3, <2>1 DEF BadTasksOk, Active
  <2>6. \A b \in w.run.bad_tasks : b.task_id \in Ids(w.run)
    BY <1>2, <2>1, <2>2 DEF BadTasksOk
  <2> QED
    BY <1>2, <2>3, <2>4, <2>5, <2>6 DEF BadTasksOk
<1>8. \A a \in Addr : w.conns[a] = v.conns[a] - Cardinality(ActiveAt(a, run))
                                              + Cardinality(ActiveAt(a, w.run))
  <2>1. TAKE a \in Addr
  <2>2. v.conns[a] \in Int /\ w.conns[a] = v.conns[a]
    BY <1>1 DEF MarkedBad
  <2>3. Cardinality(ActiveAt(a, run)) \in Nat
    BY <1>1, DataType, FS_Subset, FS_CardinalityType DEF ActiveAt
  <2> QED
    BY <1>4, <2>2, <2>3
<1>9. (QuietOk(run) => QuietOk(w.run)) /\ (ListedOk(v) => ListedOk(w)) /\ w.run.total = run.total
  BY <1>4 DEF MarkedBad, QuietOk, ListedOk
<1>10. \A t \in Ids(run) : TaskStep(run.tasks[t], w.run.tasks[t])
  BY <1>3 DEF TaskStep
<1> QED
  BY <1>1, <1>2, <1>4, <1>6, <1>7, <1>8, <1>9, <1>10 DEF OpStep

\* set_bad_task() is a sound step, for tasks that are bad already too.
LEMMA BadTasksStep ==
  ASSUME NEW v \in ViewType, NEW T, T \subseteq Ids(v.run)
  PROVE  OpStep(v, set_bad_tasks(T, v))
<1> DEFINE new == NotBad(T, v.run)
           quiet == set_inactive_tasks(new, v)
           run == quiet.run
           copies == {[task_id |-> t, stats |-> run.tasks[t].stats] : t \in new}
           tasks2 == [t \in Ids(run) |->
              IF t \in new THEN [run.tasks[t] EXCEPT !.bad = TRUE, !.stats = Zero]
              ELSE run.tasks[t]]
           games == SumOver(Played(run), new)
           w == set_bad_tasks(T, v)
<1>1. OpStep(v, quiet) /\ Active(run) = Active(v.run) \ new
  BY InactiveTasksStep DEF NotBad
<1>2. quiet \in ViewType /\ run \in RunObject /\ Ids(run) = Ids(v.run)
  BY <1>1 DEF OpStep, ViewType
<1>3. new \subseteq Ids(run) /\ new \cap Active(run) = {}
  BY <1>1, <1>2 DEF NotBad
<1>4. \A t \in new : ~run.tasks[t].bad
  <2>1. Deactivated(new \cap Active(v.run), v, quiet)
    BY InactiveTasksFields
  <2>2. \A t \in Ids(v.run) : run.tasks[t].bad = v.run.tasks[t].bad
    <3>1. TAKE t \in Ids(v.run)
    <3>2. v.run.tasks[t] \in Task
      BY TasksType DEF ViewType
    <3> QED
      BY <2>1, <3>2 DEF Deactivated, Task
  <2> QED
    BY <2>2 DEF NotBad
<1>5. tasks2 \in Seq(Task)
  <2>1. \A t \in Ids(run) : tasks2[t] \in Task
    <3>1. TAKE t \in Ids(run)
    <3>2. run.tasks[t] \in Task
      BY <1>2, TasksType
    <3> QED
      BY <3>2, ZeroGames DEF Task
  <2>2. Ids(run) = 1 .. Len(run.tasks) /\ Len(run.tasks) \in Nat
    BY <1>2, TasksType
  <2>3. tasks2 \in [Ids(run) -> Task]
    BY <2>1
  <2> HIDE DEF tasks2
  <2> QED
    BY <2>2, <2>3, SeqDef
<1>6. run.bad_tasks \cup copies \in SUBSET [task_id : Nat, stats : Report]
  <2>1. \A t \in new : t \in Nat /\ run.tasks[t].stats \in Report
    BY <1>2, <1>3, TasksType DEF Task
  <2>2. run.bad_tasks \in SUBSET [task_id : Nat, stats : Report]
    BY <1>2 DEF RunObject
  <2>3. copies \in SUBSET [task_id : Nat, stats : Report]
    <3>1. \A t \in new : [task_id |-> t, stats |-> run.tasks[t].stats]
                            \in [task_id : Nat, stats : Report]
      BY <2>1
    <3> HIDE DEF new, run
    <3> QED
      BY <3>1
  <2> HIDE DEF copies
  <2> QED
    BY <2>2, <2>3
<1>7. games \in Nat
  <2>1. IsFiniteSet(new) /\ NatValued(Played(run), new)
    BY <1>2, <1>3, TasksType, DataType, FS_Subset DEF NatValued
  <2> QED
    BY <2>1, UnitsFinite
<1>8. w = [quiet EXCEPT !.run = [run EXCEPT !.bad_tasks = @ \cup copies,
                                            !.committed = @ - games, !.tasks = tasks2]]
  BY DEF set_bad_tasks
<1>9. run.committed - games \in Int
  BY <1>2, <1>7 DEF RunObject
<1>10. MarkedBad(new, quiet, w)
  <2> HIDE DEF quiet, w, new, games, tasks2, copies
  <2>1. /\ w \in ViewType
        /\ w.run.tasks = tasks2
        /\ w.run.committed = run.committed - games
        /\ w.run.bad_tasks = run.bad_tasks \cup copies
        /\ w.run.workers = run.workers
        /\ w.run.cores = run.cores
        /\ w.run.total = run.total
        /\ w.run.finished = run.finished
        /\ w.listed = quiet.listed
        /\ w.conns = quiet.conns
    BY <1>2, <1>5, <1>6, <1>8, <1>9 DEF ViewType, RunObject
  <2> QED
    BY <2>1 DEF MarkedBad, games, tasks2, copies
<1> HIDE DEF quiet, w, new
<1>11. OpStep(quiet, w)
  BY <1>2, <1>3, <1>4, <1>10, MarkedBadStep
<1>12. OpStep(v, w)
  BY <1>1, <1>11, StepTransitive
<1> QED
  BY <1>12 DEF w

----------------------------------------------------------------------------
(* Updated, Purged and Stopped *)

(* What giving task t a new age, and if it is active new statistics, and the   *)
(* run new results, makes of the view.                                        *)
Touched(t, task, results, v) ==
    [v EXCEPT !.run = [v.run EXCEPT !.results = results,
                                    !.tasks = [v.run.tasks EXCEPT ![t] = task]]]

\* Changing the statistics or the age of an active task is a sound step.
LEMMA TouchedStep ==
  ASSUME NEW v \in ViewType, NEW t \in Active(v.run), NEW task \in Task, NEW results \in Stat,
         SameTask(v.run.tasks[t], task), task.active, task.bad = v.run.tasks[t].bad,
         Games(task.stats) >= Games(v.run.tasks[t].stats)
  PROVE  OpStep(v, Touched(t, task, results, v))
<1> DEFINE run == v.run
           w == Touched(t, task, results, v)
<1>1. run \in RunObject /\ v.conns \in [Addr -> Int] /\ v.listed \in BOOLEAN
  BY DEF ViewType
<1>2. t \in Ids(run) /\ run.tasks[t].active /\ run.tasks[t] \in Task
  BY <1>1, TasksType DEF Active
<1>3. run.tasks \in Seq(Task) /\ DOMAIN run.tasks = Ids(run)
  BY <1>1 DEF RunObject, Ids
<1>4. [run.tasks EXCEPT ![t] = task] \in Seq(Task)
  BY <1>2, <1>3, ExceptSeq DEF Ids
<1>5. /\ w \in ViewType
      /\ w.conns = v.conns
      /\ w.listed = v.listed
      /\ w.run.tasks = [run.tasks EXCEPT ![t] = task]
      /\ w.run.bad_tasks = run.bad_tasks
      /\ w.run.workers = run.workers
      /\ w.run.cores = run.cores
      /\ w.run.committed = run.committed
      /\ w.run.total = run.total
      /\ w.run.finished = run.finished
  BY <1>1, <1>4 DEF ViewType, RunObject, Touched
<1> HIDE DEF w
<1>6. Ids(w.run) = Ids(run)
  BY <1>3, <1>5 DEF Ids
<1>7. \A s \in Ids(run) : /\ SameTask(run.tasks[s], w.run.tasks[s])
                          /\ w.run.tasks[s].active = run.tasks[s].active
                          /\ w.run.tasks[s].bad = run.tasks[s].bad
                          /\ s # t => w.run.tasks[s].stats = run.tasks[s].stats
  <2>1. task.active \in BOOLEAN /\ run.tasks[t].active \in BOOLEAN
    BY <1>2 DEF Task
  <2> QED
    BY <1>2, <1>3, <1>5, <2>1 DEF SameTask
<1>8. Active(w.run) = Active(run) /\ \A a \in Addr : ActiveAt(a, w.run) = ActiveAt(a, run)
  BY <1>6, <1>7 DEF Active, ActiveAt, SameTask
<1>9. Cores(w.run) = Cores(run) /\ Sizes(w.run) = Sizes(run)
  BY <1>6, <1>7 DEF Cores, Sizes, SameTask
<1>10. SumOver(Played(w.run), Ids(run) \ Active(run)) = SumOver(Played(run), Ids(run) \ Active(run))
  <2>1. \A s \in Ids(run) \ Active(run) : Played(w.run)[s] = Played(run)[s]
    BY <1>6, <1>7 DEF Played
  <2> QED
    BY <2>1, SumCongruence
<1>11. AggregatesOk(run) => AggregatesOk(w.run)
  BY <1>5, <1>6, <1>8, <1>9, <1>10
     DEF AggregatesOk, compute_workers, compute_cores, compute_committed_games,
         compute_total_games
<1>12. BadTasksOk(run) => BadTasksOk(w.run)
  <2>1. SUFFICES ASSUME BadTasksOk(run) PROVE BadTasksOk(w.run)
    OBVIOUS
  <2>2. ~run.tasks[t].bad
    BY <1>2, <2>1 DEF BadTasksOk
  <2>3. \A s \in Ids(run) :
          w.run.tasks[s].bad => ~w.run.tasks[s].active /\ w.run.tasks[s].stats = Zero
    BY <1>7, <2>1, <2>2 DEF BadTasksOk
  <2>4. \A s \in Ids(run) : w.run.tasks[s].bad <=> \E b \in w.run.bad_tasks : b.task_id = s
    BY <1>5, <1>7, <2>1 DEF BadTasksOk
  <2> QED
    BY <1>5, <1>6, <2>1, <2>3, <2>4 DEF BadTasksOk
<1>13. \A a \in Addr : w.conns[a] = v.conns[a] - Cardinality(ActiveAt(a, run))
                                               + Cardinality(ActiveAt(a, w.run))
  <2>1. TAKE a \in Addr
  <2>2. Cardinality(ActiveAt(a, run)) \in Nat
    BY <1>1, DataType, FS_Subset, FS_CardinalityType DEF ActiveAt
  <2> QED
    BY <1>1, <1>5, <1>8, <2>2
<1>14. (QuietOk(run) => QuietOk(w.run)) /\ (ListedOk(v) => ListedOk(w))
  BY <1>5, <1>8 DEF QuietOk, ListedOk
<1>15. \A s \in Ids(run) : TaskStep(run.tasks[s], w.run.tasks[s])
  <2>1. w.run.tasks[t] = task
    BY <1>2, <1>3, <1>5
  <2> QED
    BY <1>2, <1>7, <2>1 DEF TaskStep
<1>16. OpStep(v, w)
  BY <1>5, <1>6, <1>8, <1>11, <1>12, <1>13, <1>14, <1>15 DEF OpStep
<1> QED
  BY <1>16 DEF w

(* A heartbeat, and the passing of time, only change an age. *)
LEMMA AgedStep ==
  ASSUME NEW v \in ViewType, NEW t \in Active(v.run), NEW age \in Ages
  PROVE  OpStep(v, [v EXCEPT !.run.tasks[t].age = age])
<1> DEFINE task == [v.run.tasks[t] EXCEPT !.age = age]
<1>1. v.run \in RunObject /\ v.run.tasks[t] \in Task /\ v.run.tasks[t].active
  BY TasksType DEF ViewType, Active
<1>2. /\ task \in Task
      /\ SameTask(v.run.tasks[t], task)
      /\ task.active
      /\ task.bad = v.run.tasks[t].bad
      /\ task.stats = v.run.tasks[t].stats
  BY <1>1 DEF Task, SameTask
<1>3. v.run.results \in Stat
  BY <1>1 DEF RunObject
<1>4. [v EXCEPT !.run.tasks[t].age = age] = Touched(t, task, v.run.results, v)
  BY <1>1 DEF Touched, RunObject, ViewType
<1>5. Games(v.run.tasks[t].stats) \in Nat
  BY <1>1, GamesType DEF Task
<1> HIDE DEF task
<1> QED
  BY <1>2, <1>3, <1>4, <1>5, TouchedStep

(* What a report for task t, before it may end the task, makes of the view. *)
Reported(t, stats, v) ==
    [v EXCEPT !.run = [v.run EXCEPT !.results = Plus(@, Minus(stats, v.run.tasks[t].stats)),
                                    !.tasks[t] = Refreshed(@, stats)]]

\* Storing a report of an active task is a sound step.
LEMMA ReportedStep ==
  ASSUME NEW v \in ViewType, NEW t \in Active(v.run), NEW stats \in Report,
         Games(stats) >= Games(v.run.tasks[t].stats)
  PROVE  OpStep(v, Reported(t, stats, v))
<1> DEFINE run == v.run
           task == Refreshed(run.tasks[t], stats)
           results == Plus(run.results, Minus(stats, run.tasks[t].stats))
<1>1. run \in RunObject /\ run.tasks[t] \in Task /\ run.tasks[t].active
  BY TasksType DEF ViewType, Active
<1>2. /\ task \in Task /\ SameTask(run.tasks[t], task) /\ task.active
      /\ task.bad = run.tasks[t].bad /\ task.stats = stats
  BY <1>1 DEF Task, Ages, SameTask, Refreshed
<1>3. results \in Stat
  <2>1. run.results \in Stat /\ run.tasks[t].stats \in Report
    BY <1>1 DEF RunObject, Task
  <2> QED
    BY <2>1 DEF Plus, Minus, Stat, Report
<1>4. Reported(t, stats, v) = Touched(t, task, results, v)
  <2> HIDE DEF results
  <2>1. Plus(run.results, Minus(stats, run.tasks[t].stats)) = results
    BY DEF results
  <2>2. [run EXCEPT !.results = results, !.tasks[t] = task]
          = [run EXCEPT !.results = results, !.tasks = [run.tasks EXCEPT ![t] = task]]
    <3>1. run.tasks \in Seq(Task) /\ t \in DOMAIN run.tasks
      BY <1>1 DEF RunObject, Active, Ids
    <3> QED
      BY <1>1, <3>1 DEF RunObject, Task
  <2> QED
    BY <2>1, <2>2 DEF Reported, Touched
<1> HIDE DEF task, results
<1> QED
  BY <1>2, <1>3, <1>4, TouchedStep

\* A report, with the end of the task if it has all its games, is a sound step.
LEMMA UpdatedStep ==
  ASSUME NEW v \in ViewType, NEW t \in Active(v.run), NEW stats \in Report,
         Games(stats) >= Games(v.run.tasks[t].stats)
  PROVE  OpStep(v, Updated(t, stats, v))
<1> DEFINE told == Reported(t, stats, v)
           done == IF Games(stats) >= v.run.tasks[t].num_games
                   THEN set_inactive_tasks({t}, told) ELSE told
<1>1. OpStep(v, told) /\ told \in ViewType
  BY ReportedStep DEF OpStep
<1>2. OpStep(v, done)
  <2>1. OpStep(told, set_inactive_tasks({t}, told))
    BY <1>1, InactiveTasksStep
  <2>2. OpStep(v, set_inactive_tasks({t}, told))
    BY <1>1, <2>1, StepTransitive
  <2> QED
    BY <1>1, <2>2
<1>3. done \in ViewType /\ done.run.results \in Stat
  BY <1>2 DEF OpStep, ViewType, RunObject
<1>4. Updated(t, stats, v) = [done EXCEPT !.run = WithVerdict(done.run)]
  BY DEF Updated, Reported
<1>5. OpStep(done, Updated(t, stats, v))
  BY <1>3, <1>4, ResultsStep
<1> QED
  BY <1>2, <1>5, StepTransitive

(* The functions that the results sum have natural values. *)
LEMMA StatsType ==
  ASSUME NEW run \in RunObject
  PROVE  /\ IsFiniteSet(Ids(run))
         /\ NatValued(Wins(run), Ids(run))
         /\ NatValued(Losses(run), Ids(run))
         /\ NatValued(Crashes(run), Ids(run))
<1>1. IsFiniteSet(Ids(run)) /\ \A t \in Ids(run) : run.tasks[t].stats \in Report
  BY TasksType DEF Task
<1> QED
  BY <1>1 DEF NatValued, Wins, Losses, Crashes, Report

(* The results that are computed from tasks are statistics. *)
LEMMA ComputedResultsType ==
  ASSUME NEW run \in RunObject
  PROVE  compute_results(run) \in Stat
<1>1. /\ SumOver(Wins(run), Ids(run)) \in Nat
      /\ SumOver(Losses(run), Ids(run)) \in Nat
      /\ SumOver(Crashes(run), Ids(run)) \in Nat
  BY StatsType, UnitsFinite
<1> QED
  BY <1>1 DEF compute_results, Stat

\* A purge finds tasks of the run.
LEMMA BadSetsType ==
  ASSUME NEW run, NEW B \in BadSets(run)
  PROVE  B \subseteq Ids(run)
BY DEF BadSets, CrashTasks, TasksOf, NotBad

\* A purge by a thread that holds the lock is a sound step.
LEMMA PurgedStep ==
  ASSUME NEW v \in ViewType, NEW B, B \subseteq Ids(v.run), B # {}
  PROVE  OpStep(v, Purged(B, v))
<1> DEFINE marked == set_bad_tasks(B, v)
           run == WithResults(marked.run, compute_results(marked.run))
           w == [marked EXCEPT !.run = run]
<1>1. OpStep(v, marked) /\ marked \in ViewType
  BY BadTasksStep DEF OpStep
<1>2. compute_results(marked.run) \in Stat
  BY <1>1, ComputedResultsType DEF ViewType
<1>3. OpStep(marked, w)
  BY <1>1, <1>2, ResultsStep
<1>4. w \in ViewType /\ w.run = run
  BY <1>1, <1>3 DEF OpStep, ViewType
<1>5. Purged(B, v) = IF is_undecided(run) THEN set_active_run(w)
                     ELSE [w EXCEPT !.run = LockedFlag(w.run)]
  <2>1. [w EXCEPT !.run = LockedFlag(run)] = [marked EXCEPT !.run = LockedFlag(run)]
    BY <1>1 DEF ViewType
  <2> QED
    BY <1>4, <2>1 DEF Purged
<1>6. OpStep(w, Purged(B, v))
  BY <1>4, <1>5, ActiveRunStep, FlagStep
<1>7. OpStep(v, w)
  BY <1>1, <1>3, StepTransitive
<1> QED
  BY <1>6, <1>7, StepTransitive

\* stop_run() is a sound step, whatever the auto-purge finds.
LEMMA StoppedStep ==
  ASSUME NEW v \in ViewType, NEW w \in Stopped(v)
  PROVE  OpStep(v, w)
<1> DEFINE still == set_inactive_run(v)
<1>1. OpStep(v, still) /\ still \in ViewType
  BY InactiveRunStep DEF OpStep
<1>2. CASE w = still
  BY <1>1, <1>2
<1>3. ASSUME NEW B \in BadSets(still.run), w = Purged(B, still)
      PROVE  OpStep(v, w)
  <2>1. CASE B = {}
    BY <1>1, <1>3, <2>1 DEF Purged
  <2>2. CASE B # {}
    <3>1. OpStep(still, w)
      BY <1>1, <1>3, <2>2, BadSetsType, PurgedStep
    <3> QED
      BY <1>1, <3>1, StepTransitive
  <2> QED
    BY <2>1, <2>2
<1> QED
  BY <1>2, <1>3 DEF Stopped

----------------------------------------------------------------------------
(* The results, the verdict and the flag. *)

ResultsAdd(run) == run.results = compute_results(run)
FlagFits(run) == run.flag = compute_flags(run)

\* What a step does to the results and to what is derived from them: it leaves what
\* the test asks for alone, and the results and the flag right if they were so.
DataStep(x, y) ==
    /\ y.kind = x.kind /\ y.num_games = x.num_games
    /\ ResultsAdd(x) => ResultsAdd(y)
    /\ FlagFits(x) => FlagFits(y)

(* The part of a run that its flag depends on. *)
SameVerdict(x, y) == /\ x.kind = y.kind
                     /\ x.num_games = y.num_games
                     /\ x.finished = y.finished
                     /\ x.state = y.state
                     /\ x.results = y.results
                     /\ x.flag = y.flag

\* The results are computed from the statistics of the tasks, and from nothing else.
LEMMA SameStats ==
  ASSUME NEW x, NEW y, Ids(x) = Ids(y), \A t \in Ids(x) : x.tasks[t].stats = y.tasks[t].stats
  PROVE  compute_results(x) = compute_results(y)
<1>1. Wins(x) = Wins(y) /\ Losses(x) = Losses(y) /\ Crashes(x) = Crashes(y)
  BY DEF Wins, Losses, Crashes
<1> QED
  BY <1>1 DEF compute_results

\* A run with the same verdict has the same flag.
LEMMA SameFlag ==
  ASSUME NEW x, NEW y, SameVerdict(x, y)
  PROVE  /\ compute_flags(x) = compute_flags(y)
         /\ FlagFits(x) => FlagFits(y)
BY DEF SameVerdict, compute_flags, FlagFits

\* A run that is not finished has no flag.
LEMMA UnfinishedFlag ==
  ASSUME NEW run, ~run.finished
  PROVE  compute_flags(run) = "none"
BY DEF compute_flags

\* Two steps, one after the other.
LEMMA DataTransitive ==
  ASSUME NEW x, NEW y, NEW z, DataStep(x, y), DataStep(y, z)
  PROVE  DataStep(x, z)
BY DEF DataStep

\* set_inactive_task() changes neither the statistics nor the verdict.
LEMMA InactiveTasksData ==
  ASSUME NEW T, NEW v \in ViewType
  PROVE  LET w == set_inactive_tasks(T, v)
         IN  /\ SameVerdict(v.run, w.run)
             /\ compute_results(w.run) = compute_results(v.run)
             /\ DataStep(v.run, w.run)
<1> DEFINE w == set_inactive_tasks(T, v)
<1>1. v.run \in RunObject
  BY DEF ViewType
<1>2. SameVerdict(v.run, w.run)
  BY <1>1 DEF set_inactive_tasks, ViewType, RunObject, SameVerdict
<1>3. compute_results(w.run) = compute_results(v.run)
  <2>1. Deactivated(T \cap Active(v.run), v, w)
    BY InactiveTasksFields
  <2>2. Ids(w.run) = Ids(v.run)
    BY <2>1 DEF Deactivated, Ids
  <2>3. \A t \in Ids(v.run) : v.run.tasks[t].stats = w.run.tasks[t].stats
    <3>1. TAKE t \in Ids(v.run)
    <3>2. v.run.tasks[t] \in Task
      BY <1>1, TasksType
    <3> QED
      BY <2>1, <3>2 DEF Deactivated, Task
  <2> HIDE DEF w
  <2> QED
    BY <2>2, <2>3, SameStats
<1> HIDE DEF w
<1>4. DataStep(v.run, w.run)
  BY <1>2, <1>3, SameFlag DEF DataStep, SameVerdict, ResultsAdd
<1> QED
  BY <1>2, <1>3, <1>4 DEF w

\* set_inactive_run() gives the run the flag that its results deserve.
LEMMA InactiveRunData ==
  ASSUME NEW v \in ViewType
  PROVE  LET w == set_inactive_run(v)
         IN  /\ FlagFits(w.run)
             /\ v.run.finished => compute_flags(w.run) = compute_flags(v.run)
             /\ compute_results(w.run) = compute_results(v.run)
             /\ DataStep(v.run, w.run)
<1> DEFINE quiet == set_inactive_tasks(Ids(v.run), v)
           run == [quiet.run EXCEPT !.finished = TRUE]
           flag == compute_flags(run)
           w == set_inactive_run(v)
<1>1. /\ SameVerdict(v.run, quiet.run)
      /\ compute_results(quiet.run) = compute_results(v.run)
  BY InactiveTasksData
<1>2. quiet \in ViewType /\ quiet.run \in RunObject
  BY InactiveTasksStep DEF OpStep, ViewType
<1>3. w.run = [run EXCEPT !.flag = flag]
  BY <1>2 DEF set_inactive_run, LockedFlag, ViewType
<1> HIDE DEF quiet, w
<1>4. /\ w.run.flag = flag
      /\ w.run.kind = run.kind /\ w.run.finished = run.finished
      /\ w.run.state = run.state /\ w.run.results = run.results
  <2> HIDE DEF flag
  <2> QED
    BY <1>2, <1>3 DEF RunObject
<1>5. FlagFits(w.run)
  BY <1>4 DEF FlagFits, compute_flags
<1>6. /\ w.run.kind = quiet.run.kind /\ w.run.num_games = quiet.run.num_games
      /\ w.run.results = quiet.run.results /\ w.run.tasks = quiet.run.tasks
  <2> HIDE DEF flag
  <2> QED
    BY <1>2, <1>3 DEF RunObject
<1>7. compute_results(w.run) = compute_results(v.run)
  BY <1>1, <1>6, SameStats DEF Ids
<1>8. DataStep(v.run, w.run)
  BY <1>1, <1>5, <1>6, <1>7 DEF DataStep, SameVerdict, ResultsAdd
<1>9. v.run.finished => compute_flags(w.run) = compute_flags(v.run)
  <2>1. run.finished /\ run.kind = quiet.run.kind /\ run.state = quiet.run.state
        /\ run.results = quiet.run.results
    BY <1>2 DEF RunObject
  <2>2. /\ w.run.finished /\ w.run.kind = v.run.kind /\ w.run.state = v.run.state
        /\ w.run.results = v.run.results
    BY <1>1, <1>4, <2>1 DEF SameVerdict
  <2> QED
    BY <2>2 DEF compute_flags
<1> QED
  BY <1>5, <1>7, <1>8, <1>9 DEF w

\* set_active_run() takes the flag away, which is right for a run that goes on.
LEMMA ActiveRunData ==
  ASSUME NEW v \in ViewType
  PROVE  LET w == set_active_run(v)
         IN  FlagFits(w.run) /\ DataStep(v.run, w.run)
<1> DEFINE w == set_active_run(v)
<1>1. /\ w.run.flag = "none" /\ ~w.run.finished
      /\ w.run.kind = v.run.kind /\ w.run.num_games = v.run.num_games
      /\ w.run.results = v.run.results /\ w.run.tasks = v.run.tasks
  BY DEF set_active_run, ViewType, RunObject
<1> HIDE DEF w
<1>2. FlagFits(w.run)
  BY <1>1, UnfinishedFlag DEF FlagFits
<1>3. compute_results(w.run) = compute_results(v.run)
  BY <1>1, SameStats DEF Ids
<1>4. DataStep(v.run, w.run)
  BY <1>1, <1>2, <1>3 DEF DataStep, ResultsAdd
<1> QED
  BY <1>2, <1>4 DEF w

\* A new flag is the right one.
LEMMA LockedFlagData ==
  ASSUME NEW run \in RunObject
  PROVE  LET w == LockedFlag(run)
         IN  /\ FlagFits(w) /\ DataStep(run, w)
             /\ w.finished = run.finished
             /\ compute_results(w) = compute_results(run)
<1> DEFINE flag == compute_flags(run)
           w == LockedFlag(run)
<1>1. w = [run EXCEPT !.flag = flag]
  BY DEF LockedFlag
<1> HIDE DEF flag, w
<1>2. /\ w.flag = flag
      /\ w.kind = run.kind /\ w.num_games = run.num_games /\ w.finished = run.finished
      /\ w.state = run.state /\ w.results = run.results /\ w.tasks = run.tasks
  BY <1>1 DEF RunObject
<1>3. FlagFits(w)
  BY <1>2 DEF FlagFits, compute_flags, flag
<1>4. compute_results(w) = compute_results(run)
  BY <1>2, SameStats DEF Ids
<1>5. DataStep(run, w)
  BY <1>2, <1>3, <1>4 DEF DataStep, ResultsAdd
<1> QED
  BY <1>2, <1>3, <1>4, <1>5 DEF w

\* set_bad_task() leaves the verdict alone: the results are computed later.
LEMMA BadTasksData ==
  ASSUME NEW v \in ViewType, NEW T, T \subseteq Ids(v.run)
  PROVE  SameVerdict(v.run, set_bad_tasks(T, v).run)
<1> DEFINE quiet == set_inactive_tasks(NotBad(T, v.run), v)
           w == set_bad_tasks(T, v)
<1>1. SameVerdict(v.run, quiet.run)
  BY InactiveTasksData
<1>2. quiet \in ViewType /\ quiet.run \in RunObject
  BY InactiveTasksStep DEF OpStep, ViewType
<1>3. SameVerdict(quiet.run, w.run)
  <2>1. \A q \in ViewType : \A bad, committed, tasks :
          SameVerdict(q.run, [q EXCEPT !.run = [q.run EXCEPT !.bad_tasks = bad,
                               !.committed = committed, !.tasks = tasks]].run)
    <3>1. TAKE q \in ViewType
    <3> TAKE bad, committed, tasks
    <3>2. q.run \in RunObject
      BY DEF ViewType
    <3> DEFINE run == [q.run EXCEPT !.bad_tasks = bad, !.committed = committed, !.tasks = tasks]
    <3>3. SameVerdict(q.run, run)
      BY <3>2 DEF RunObject, SameVerdict
    <3>4. [q EXCEPT !.run = run].run = run
      BY DEF ViewType
    <3> QED
      BY <3>3, <3>4
  <2> HIDE DEF quiet
  <2>2. \E bad, committed, tasks :
          w = [quiet EXCEPT !.run = [quiet.run EXCEPT !.bad_tasks = bad,
                               !.committed = committed, !.tasks = tasks]]
    BY DEF set_bad_tasks, quiet
  <2> QED
    BY <1>2, <2>1, <2>2
<1> QED
  BY <1>1, <1>3 DEF SameVerdict

\* New statistics of one task change the results by the difference.
LEMMA OneReport ==
  ASSUME NEW x \in RunObject, NEW y \in RunObject, Ids(y) = Ids(x), NEW t \in Ids(x),
         \A s \in Ids(x) \ {t} : y.tasks[s].stats = x.tasks[s].stats
  PROVE  compute_results(y)
           = Plus(compute_results(x), Minus(y.tasks[t].stats, x.tasks[t].stats))
<1> DEFINE old == x.tasks[t].stats
           new == y.tasks[t].stats
<1>1. old \in Report /\ new \in Report
  BY TasksType DEF Task
<1>2. SumOver(Wins(y), Ids(x)) = SumOver(Wins(x), Ids(x)) - old.wins + new.wins
  <2>1. /\ \A s \in Ids(x) \ {t} : Wins(x)[s] = Wins(y)[s]
        /\ Wins(x)[t] = old.wins /\ Wins(y)[t] = new.wins
    BY DEF Wins
  <2> QED
    BY <2>1, StatsType, SumChangeOne
<1>3. SumOver(Losses(y), Ids(x)) = SumOver(Losses(x), Ids(x)) - old.losses + new.losses
  <2>1. /\ \A s \in Ids(x) \ {t} : Losses(x)[s] = Losses(y)[s]
        /\ Losses(x)[t] = old.losses /\ Losses(y)[t] = new.losses
    BY DEF Losses
  <2> QED
    BY <2>1, StatsType, SumChangeOne
<1>4. SumOver(Crashes(y), Ids(x)) = SumOver(Crashes(x), Ids(x)) - old.crashes + new.crashes
  <2>1. /\ \A s \in Ids(x) \ {t} : Crashes(x)[s] = Crashes(y)[s]
        /\ Crashes(x)[t] = old.crashes /\ Crashes(y)[t] = new.crashes
    BY DEF Crashes
  <2> QED
    BY <2>1, StatsType, SumChangeOne
<1>5. compute_results(x) \in Stat
  BY ComputedResultsType
<1>6. compute_results(y) = [wins    |-> compute_results(x).wins - old.wins + new.wins,
                            losses  |-> compute_results(x).losses - old.losses + new.losses,
                            crashes |-> compute_results(x).crashes - old.crashes + new.crashes]
  BY <1>2, <1>3, <1>4 DEF compute_results
<1> HIDE DEF old, new
<1>7. Plus(compute_results(x), Minus(new, old))
        = [wins    |-> compute_results(x).wins - old.wins + new.wins,
           losses  |-> compute_results(x).losses - old.losses + new.losses,
           crashes |-> compute_results(x).crashes - old.crashes + new.crashes]
  BY <1>1, <1>5 DEF Plus, Minus, Stat, Report
<1> QED
  BY <1>6, <1>7 DEF old, new

\* A report counts once: what is new in it, and only this, goes to the results.
LEMMA ReportedData ==
  ASSUME NEW v \in ViewType, NEW t \in Active(v.run), NEW stats \in Report,
         Games(stats) >= Games(v.run.tasks[t].stats), ~v.run.finished
  PROVE  LET w == Reported(t, stats, v)
         IN  DataStep(v.run, w.run) /\ ~w.run.finished
<1> DEFINE run == v.run
           old == run.tasks[t].stats
           results == Plus(run.results, Minus(stats, old))
           task == Refreshed(run.tasks[t], stats)
           w == Reported(t, stats, v)
<1>1. w \in ViewType /\ Ids(w.run) = Ids(run)
  BY ReportedStep DEF OpStep
<1>2. run \in RunObject /\ w.run \in RunObject /\ t \in Ids(run) /\ run.tasks[t] \in Task
  BY <1>1, TasksType DEF ViewType, Active
<1>3. w.run = [run EXCEPT !.results = results, !.tasks = [run.tasks EXCEPT ![t] = task]]
  <2> HIDE DEF results, task
  <2>1. w.run = [run EXCEPT !.results = Plus(@, Minus(stats, old)),
                            !.tasks[t] = Refreshed(@, stats)]
    BY DEF Reported, ViewType
  <2>2. run.tasks \in Seq(Task) /\ t \in DOMAIN run.tasks
    BY <1>2 DEF RunObject, Ids
  <2> HIDE DEF w
  <2> QED
    BY <1>2, <2>1, <2>2 DEF RunObject, results, task
<1> HIDE DEF w
<1>4. /\ w.run.results = results /\ w.run.tasks = [run.tasks EXCEPT ![t] = task]
      /\ w.run.kind = run.kind /\ w.run.num_games = run.num_games
      /\ w.run.finished = run.finished /\ w.run.state = run.state /\ w.run.flag = run.flag
  <2> HIDE DEF results, task
  <2> QED
    BY <1>2, <1>3 DEF RunObject
<1>5. /\ w.run.tasks[t].stats = stats
      /\ \A s \in Ids(run) \ {t} : w.run.tasks[s].stats = run.tasks[s].stats
  BY <1>2, <1>4 DEF Ids, Task, Refreshed
<1>6. compute_results(w.run) = Plus(compute_results(run), Minus(stats, old))
  BY <1>1, <1>2, <1>5, OneReport
<1>7. ResultsAdd(run) => ResultsAdd(w.run)
  BY <1>4, <1>6 DEF ResultsAdd
<1>8. FlagFits(run) => FlagFits(w.run)
  BY <1>4, UnfinishedFlag DEF FlagFits
<1> QED
  BY <1>4, <1>7, <1>8 DEF DataStep, w

\* The whole of update_task(), up to the question whether the run is to stop.
LEMMA UpdatedData ==
  ASSUME NEW v \in ViewType, NEW t \in Active(v.run), NEW stats \in Report,
         Games(stats) >= Games(v.run.tasks[t].stats), ~v.run.finished
  PROVE  DataStep(v.run, Updated(t, stats, v).run)
<1> DEFINE told == Reported(t, stats, v)
           done == IF Games(stats) >= v.run.tasks[t].num_games
                   THEN set_inactive_tasks({t}, told) ELSE told
           w == Updated(t, stats, v)
<1>1. told \in ViewType /\ DataStep(v.run, told.run) /\ ~told.run.finished
  BY ReportedStep, ReportedData DEF OpStep
<1>2. done \in ViewType /\ DataStep(v.run, done.run) /\ ~done.run.finished
  <2>1. CASE Games(stats) >= v.run.tasks[t].num_games
    <3>1. /\ set_inactive_tasks({t}, told) \in ViewType
          /\ SameVerdict(told.run, set_inactive_tasks({t}, told).run)
          /\ DataStep(told.run, set_inactive_tasks({t}, told).run)
      BY <1>1, InactiveTasksStep, InactiveTasksData DEF OpStep
    <3> QED
      BY <1>1, <2>1, <3>1, DataTransitive DEF SameVerdict
  <2>2. CASE ~(Games(stats) >= v.run.tasks[t].num_games)
    BY <1>1, <2>2
  <2> QED
    BY <2>1, <2>2
<1>3. w = [done EXCEPT !.run = WithVerdict(done.run)]
  BY DEF Updated, Reported
<1> HIDE DEF told, done, w
<1>4. done.run \in RunObject /\ w.run = WithVerdict(done.run)
  BY <1>2, <1>3 DEF ViewType
<1>5. /\ w.run.kind = done.run.kind /\ w.run.num_games = done.run.num_games
      /\ w.run.finished = done.run.finished /\ w.run.results = done.run.results
      /\ w.run.flag = done.run.flag /\ w.run.tasks = done.run.tasks
  BY <1>4 DEF WithVerdict, RunObject
<1>6. compute_results(w.run) = compute_results(done.run)
  BY <1>5, SameStats DEF Ids
<1>7. DataStep(done.run, w.run)
  BY <1>2, <1>5, <1>6, UnfinishedFlag DEF DataStep, ResultsAdd, FlagFits
<1> QED
  BY <1>2, <1>7, DataTransitive DEF w

\* Results that are computed from the tasks are those that the tasks deserve.
LEMMA WithResultsData ==
  ASSUME NEW run \in RunObject, NEW results \in Stat
  PROVE  LET w == WithResults(run, results)
         IN  /\ w.kind = run.kind /\ w.num_games = run.num_games
             /\ w.finished = run.finished
             /\ w.results = results
             /\ compute_results(w) = compute_results(run)
<1> DEFINE w == WithResults(run, results)
           verdict == Verdict(results)
<1>1. w = [[run EXCEPT !.results = results] EXCEPT
               !.state = IF run.kind = "sprt" THEN verdict ELSE @]
  BY DEF WithResults, WithVerdict, RunObject
<1> HIDE DEF w, verdict
<1>2. /\ w.kind = run.kind /\ w.num_games = run.num_games /\ w.finished = run.finished
      /\ w.results = results /\ w.tasks = run.tasks
  BY <1>1 DEF RunObject
<1> QED
  BY <1>2, SameStats DEF Ids, w

\* A purge that found bad tasks leaves the results and the flag right, whatever they
\* were before.
LEMMA PurgedData ==
  ASSUME NEW v \in ViewType, NEW B, B \subseteq Ids(v.run), B # {}
  PROVE  LET w == Purged(B, v)
         IN  FlagFits(w.run) /\ ResultsAdd(w.run) /\ DataStep(v.run, w.run)
<1> DEFINE marked == set_bad_tasks(B, v)
           run == WithResults(marked.run, compute_results(marked.run))
           w == Purged(B, v)
<1>1. marked \in ViewType /\ marked.run \in RunObject /\ SameVerdict(v.run, marked.run)
  BY BadTasksStep, BadTasksData DEF OpStep, ViewType
<1>2. compute_results(marked.run) \in Stat
  BY <1>1, ComputedResultsType
<1>3. run \in RunObject
  BY <1>1, <1>2, ResultsType
<1>4. ResultsAdd(run) /\ run.kind = v.run.kind /\ run.num_games = v.run.num_games
  BY <1>1, <1>2, WithResultsData DEF ResultsAdd, SameVerdict
<1>5. w = IF is_undecided(run) THEN set_active_run([marked EXCEPT !.run = run])
          ELSE [marked EXCEPT !.run = LockedFlag(run)]
  BY DEF Purged
<1> HIDE DEF marked, run, w
<1>6. FlagFits(w.run) /\ DataStep(run, w.run)
  <2>1. CASE is_undecided(run)
    <3> DEFINE x == [marked EXCEPT !.run = run]
    <3>1. x \in ViewType /\ x.run = run
      BY <1>1, <1>3 DEF ViewType
    <3>2. w = set_active_run(x)
      BY <1>5, <2>1
    <3> HIDE DEF x
    <3> QED
      BY <3>1, <3>2, ActiveRunData
  <2>2. CASE ~is_undecided(run)
    <3>1. w.run = LockedFlag(run)
      BY <1>1, <1>5, <2>2 DEF ViewType
    <3> QED
      BY <1>3, <3>1, LockedFlagData
  <2> QED
    BY <2>1, <2>2
<1>7. ResultsAdd(w.run)
  BY <1>4, <1>6 DEF DataStep
<1>8. DataStep(v.run, w.run)
  BY <1>4, <1>6, <1>7 DEF DataStep
<1> QED
  BY <1>6, <1>7, <1>8 DEF w

\* stop_run() leaves the run with the flag that its results deserve.
LEMMA StoppedData ==
  ASSUME NEW v \in ViewType, NEW w \in Stopped(v)
  PROVE  FlagFits(w.run) /\ DataStep(v.run, w.run)
<1> DEFINE still == set_inactive_run(v)
<1>1. still \in ViewType
  BY InactiveRunStep DEF OpStep
<1>2. FlagFits(still.run) /\ DataStep(v.run, still.run)
  BY InactiveRunData
<1>3. ASSUME NEW B \in BadSets(still.run), w = Purged(B, still)
      PROVE  FlagFits(w.run) /\ DataStep(v.run, w.run)
  <2>1. CASE B = {}
    BY <1>2, <1>3, <2>1 DEF Purged
  <2>2. CASE B # {}
    <3>1. FlagFits(w.run) /\ DataStep(still.run, w.run)
      BY <1>1, <1>3, <2>2, BadSetsType, PurgedData
    <3> QED
      BY <1>2, <3>1, DataTransitive
  <2> QED
    BY <2>1, <2>2
<1> QED
  BY <1>2, <1>3 DEF Stopped
=============================================================================
