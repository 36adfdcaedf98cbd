---------------------------- MODULE WorkerProofs ----------------------------
(***************************************************************************)
(* Proofs about module Worker: the steps of an SPSA tune's parameters are  *)
(* sound, for all workers, sizes, numbers of crashes and late requests.    *)
(*                                                                         *)
(* A step of Next is what the server makes of a request, and how a worker  *)
(* goes on.  The lemmas look at the two one after the other, for arbitrary *)
(* values of the state in between.                                         *)
(*                                                                         *)
(* The second half shows that what the server makes of a request is a step *)
(* of the abstract tune, or none: worker and server implement Tune.        *)
(***************************************************************************)
EXTENDS WorkerInvariant, SequenceTheorems, TotalsProofs, TLAPS

\* The types that the invariant rests on.
Typed(r, s, c, m, l) ==
    /\ r \in Run /\ s \in Run /\ c \in Nat
    /\ m \in [Worker -> Main]
    /\ l \subseteq Requests
    /\ \A w \in Worker : m[w].at \in {"playing", "reporting"} => m[w].batch \in Batch
    /\ \A q \in l : q.op = "update" => q.batch \in Batch

\* What the invariant says between two steps, with its types.
Good(r, s, c, m, l) == Typed(r, s, c, m, l) /\ Kept(r, s, c, m, l)
-----------------------------------------------------------------------------
(* What a run becomes *)

\* Tasks do not vanish, change their owner or lose games, and iter does not go back.
Grows(r, z) ==
    /\ DOMAIN r.tasks \subseteq DOMAIN z.tasks
    /\ \A t \in DOMAIN r.tasks :
        /\ z.tasks[t].owner = r.tasks[t].owner
        /\ r.tasks[t].played <= z.tasks[t].played
    /\ r.iter <= z.iter
\* A step that leaves the parameters of the tune alone, and gives no task new ones.
Calm(r, z) ==
    /\ Grows(r, z)
    /\ z.theta = r.theta
    /\ \A t \in DOMAIN r.tasks : z.tasks[t].params \in {None, r.tasks[t].params}

\* Reports are about the batch of a number of games; both kinds of requests are typed.
LEMMA RequestTypes ==
  ASSUME NEW r, NEW s, NEW c, NEW m, NEW l, Typed(r, s, c, m, l)
  PROVE  /\ \A q \in Reports(m, l) :
                q \in [worker : Worker, op : {"update"}, task : Nat \cup {None},
                       played : Nat, batch : Batch]
         /\ \A q \in Asks(m, l) : q \in Requests /\ q.op = "spsa"
<1>1. ASSUME NEW q \in Reports(m, l)
      PROVE  q \in [worker : Worker, op : {"update"}, task : Nat \cup {None},
                    played : Nat, batch : Batch]
  <2>1. CASE q \in l /\ q.op = "update"
    BY <2>1 DEF Typed, Requests
  <2>2. ASSUME NEW w \in Worker, m[w].at \in {"playing", "reporting"},
               q = Request(w, "update", m[w])
        PROVE  q \in [worker : Worker, op : {"update"}, task : Nat \cup {None},
                      played : Nat, batch : Batch]
    <3>1. m[w] \in Main /\ m[w].batch \in Batch
      BY <2>2 DEF Typed
    <3> QED
      BY <2>2, <3>1 DEF Request, Main
  <2> QED
    BY <1>1, <2>1, <2>2 DEF Reports
<1>2. ASSUME NEW q \in Asks(m, l)
      PROVE  q \in Requests /\ q.op = "spsa"
  <2>1. CASE q \in l /\ q.op = "spsa"
    BY <2>1 DEF Typed
  <2>2. ASSUME NEW w \in Worker, q = Request(w, "spsa", m[w])
        PROVE  q \in Requests /\ q.op = "spsa"
    <3>1. m[w] \in Main
      BY DEF Typed
    <3> QED
      BY <2>2, <3>1 DEF Request, Main, Requests
  <2> QED
    BY <1>2, <2>1, <2>2 DEF Asks
<1> QED
  BY <1>1, <1>2

\* The parts of a run have their types.
LEMMA RunParts ==
  ASSUME NEW r \in Run
  PROVE  /\ r.tasks \in Seq(Task) /\ r.theta \in Seq(Step)
         /\ r.iter \in Nat /\ r.finished \in BOOLEAN
         /\ Len(r.tasks) \in Nat /\ DOMAIN r.tasks = 1 .. Len(r.tasks)
         /\ Len(r.theta) \in Nat /\ DOMAIN r.theta = 1 .. Len(r.theta)
         /\ \A t \in DOMAIN r.tasks : r.tasks[t] \in Task
         /\ \A i \in DOMAIN r.theta : r.theta[i] \in Step
<1>1. r.tasks \in Seq(Task) /\ r.theta \in Seq(Step) /\ r.iter \in Nat /\ r.finished \in BOOLEAN
  BY DEF Run
<1> QED
  BY <1>1, LenProperties, ElementOfSeq

\* A run that grows keeps the invariant, if it keeps what depends on its parameters.
LEMMA GrowthKept ==
  ASSUME NEW r, NEW s, NEW c, NEW m, NEW l, Good(r, s, c, m, l),
         NEW z \in Run, Grows(r, z),
         StepsSound(z), CountedOnce(z, z, c, m, l), c = 0 => ParamsKept(z, m, l)
  PROVE  Good(z, s, c, m, l)
<1> DEFINE R == Reports(m, l)
<1> DEFINE A == Asks(m, l)
<1>1. /\ \A q \in R : q.batch \in Batch /\ q.played \in Nat
      /\ Typed(z, s, c, m, l)
  BY RequestTypes DEF Good, Typed
<1>2. /\ \A t \in DOMAIN r.tasks :
            /\ t \in DOMAIN z.tasks
            /\ r.tasks[t].played \in Nat /\ z.tasks[t].played \in Nat
            /\ z.tasks[t].owner = r.tasks[t].owner
            /\ r.tasks[t].played <= z.tasks[t].played
      /\ r.iter \in Nat /\ z.iter \in Nat /\ r.iter <= z.iter
      /\ \A i \in DOMAIN s.theta : s.theta[i].batch \in Batch
  BY RunParts DEF Good, Typed, Grows, Task, Step
<1> HIDE DEF R, A
<1>3. \A w, t : Knows(r, w, t) => Knows(z, w, t)
  BY <1>2 DEF Knows
<1>4. ReportsKept(z, c, m, l)
  <2> SUFFICES ASSUME NEW q \in R  PROVE ReportKept(q, z, c)
    BY DEF ReportsKept, R
  <2>1. ReportKept(q, r, c) /\ q.batch \in Batch
    BY <1>1 DEF Good, Kept, ReportsKept, R
  <2> QED
    BY <1>2, <1>3, <2>1 DEF ReportKept, Knows, Batch
<1>5. SameCount(m, l)
  BY DEF Good, Kept
<1>6. PresentCount(z, c, m, l)
  <2> SUFFICES ASSUME NEW w \in Worker, NEW q \in R,
                      Busy(m, w), q.worker = w, q.task = m[w].task,
                      q.batch.epoch = c, q.batch.number = z.tasks[q.task].played
               PROVE  q.played = m[w].played + 1
    BY DEF PresentCount, R
  <2>1. ReportKept(q, r, c) /\ q.batch.number \in Nat
    BY <1>1 DEF Good, Kept, ReportsKept, R, Batch
  <2>2. q.batch.number = r.tasks[q.task].played
    BY <1>2, <2>1 DEF ReportKept, Knows
  <2> QED
    BY <2>2 DEF Good, Kept, PresentCount, R
<1>7. CountedOnce(s, z, c, m, l)
  <2> SUFFICES ASSUME NEW i \in DOMAIN s.theta, NEW batch, batch = s.theta[i].batch
               PROVE  /\ batch.epoch <= c
                      /\ batch.epoch = c => batch.iter < z.iter
                      /\ \A q \in R : q.batch = batch =>
                            q.task \in DOMAIN s.tasks /\ q.played <= s.tasks[q.task].played
    BY DEF CountedOnce, R
  <2>1. /\ batch.epoch <= c
        /\ batch.epoch = c => batch.iter < r.iter
        /\ \A q \in R : q.batch = batch =>
                q.task \in DOMAIN s.tasks /\ q.played <= s.tasks[q.task].played
    BY DEF Good, Kept, CountedOnce, R
  <2>2. batch.iter \in Nat
    BY <1>2 DEF Batch
  <2> QED
    BY <1>2, <2>1, <2>2
<1>8. ASSUME c = 0  PROVE OwnTask(z, m, l) /\ AsksSettled(z, m, l)
  <2>1. OwnTask(r, m, l) /\ AsksSettled(r, m, l)
    BY <1>8 DEF Good, Kept, NoCrash
  <2>2. OwnTask(z, m, l)
    BY <1>3, <2>1 DEF OwnTask
  <2>3. AsksSettled(z, m, l)
    <3> SUFFICES ASSUME NEW a \in A
                 PROVE  /\ Knows(z, a.worker, a.task)
                        /\ \A q \in R : (q.worker = a.worker /\ q.task = a.task)
                                => q.played <= z.tasks[q.task].played
      BY DEF AsksSettled, A, R
    <3>1. /\ Knows(r, a.worker, a.task)
          /\ \A q \in R : (q.worker = a.worker /\ q.task = a.task)
                                => q.played <= r.tasks[q.task].played
      BY <2>1 DEF AsksSettled, A, R
    <3> QED
      BY <1>1, <1>2, <1>3, <3>1 DEF Knows
  <2> QED
    BY <2>2, <2>3
<1> QED
  BY <1>1, <1>4, <1>5, <1>6, <1>7, <1>8 DEF Good, Kept, NoCrash

\* A calm step of the server keeps the invariant.
LEMMA CalmKept ==
  ASSUME NEW r, NEW s, NEW c, NEW m, NEW l, Good(r, s, c, m, l),
         NEW z \in Run, Calm(r, z)
  PROVE  Good(z, s, c, m, l)
<1> DEFINE R == Reports(m, l)
<1>1. \A q \in R : q.batch \in Batch /\ q.played \in Nat
  BY RequestTypes DEF Good
<1>2. /\ \A t \in DOMAIN r.tasks :
            /\ t \in DOMAIN z.tasks
            /\ r.tasks[t].played \in Nat /\ z.tasks[t].played \in Nat
            /\ r.tasks[t].played <= z.tasks[t].played
            /\ z.tasks[t].params \in {None, r.tasks[t].params}
      /\ r.iter \in Nat /\ z.iter \in Nat /\ r.iter <= z.iter
      /\ z.theta = r.theta
      /\ \A i \in DOMAIN r.theta : r.theta[i].batch \in Batch
  BY RunParts DEF Good, Typed, Calm, Grows, Task, Step
<1> HIDE DEF R
<1>3. CountedOnce(z, z, c, m, l)
  <2> SUFFICES ASSUME NEW i \in DOMAIN r.theta, NEW batch, batch = r.theta[i].batch
               PROVE  /\ batch.epoch <= c
                      /\ batch.epoch = c => batch.iter < z.iter
                      /\ \A q \in R : q.batch = batch =>
                            q.task \in DOMAIN z.tasks /\ q.played <= z.tasks[q.task].played
    BY <1>2 DEF CountedOnce, R
  <2>1. /\ batch.epoch <= c
        /\ batch.epoch = c => batch.iter < r.iter
        /\ \A q \in R : q.batch = batch =>
                q.task \in DOMAIN r.tasks /\ q.played <= r.tasks[q.task].played
    BY DEF Good, Kept, CountedOnce, R
  <2>2. batch.iter \in Nat
    BY <1>2 DEF Batch
  <2> QED
    BY <1>1, <1>2, <2>1, <2>2
<1>4. ASSUME c = 0  PROVE ParamsKept(z, m, l)
  <2> SUFFICES ASSUME NEW q \in R, q.played > z.tasks[q.task].played,
                      z.tasks[q.task].params # None
               PROVE  z.tasks[q.task].params.iter = q.batch.iter
      BY DEF ParamsKept, R
  <2>1. ReportKept(q, r, c) /\ q.batch.epoch \in Nat
      BY <1>1 DEF Good, Kept, ReportsKept, R, Batch
  <2>2. q.task \in DOMAIN r.tasks
      BY <1>4, <2>1 DEF ReportKept, Knows
  <2>3. q.played > r.tasks[q.task].played /\ z.tasks[q.task].params = r.tasks[q.task].params
      BY <1>1, <1>2, <2>2
  <2> QED
      BY <1>4, <2>3 DEF Good, Kept, NoCrash, ParamsKept, R
<1> QED
  BY <1>2, <1>3, <1>4, GrowthKept DEF Good, Kept, StepsSound, Calm

\* So does a new perturbation, for a worker that may ask for one.
LEMMA SpsaKept ==
  ASSUME NEW r, NEW s, NEW c, NEW m, NEW l, Good(r, s, c, m, l),
         NEW a \in Asks(m, l), Knows(r, a.worker, a.task),
         NEW p \in Params, p.iter = r.iter,
         NEW z \in Run, z = WithTask(r, a.task, [r.tasks[a.task] EXCEPT !.params = p])
  PROVE  Good(z, s, c, m, l)
<1> DEFINE t == a.task
<1> DEFINE R == Reports(m, l)
<1>1. \A q \in R : q.batch \in Batch /\ q.played \in Nat
  BY RequestTypes DEF Good
<1>2. /\ t \in DOMAIN r.tasks
      /\ \A i \in DOMAIN r.tasks : r.tasks[i] \in Task
      /\ r \in Run
  BY RunParts DEF Good, Typed, Knows
<1>3. /\ DOMAIN z.tasks = DOMAIN r.tasks
      /\ z.tasks[t] = [r.tasks[t] EXCEPT !.params = p]
      /\ \A i \in DOMAIN r.tasks : i # t => z.tasks[i] = r.tasks[i]
      /\ z.iter = r.iter /\ z.theta = r.theta
  BY <1>2 DEF WithTask, Run
<1>4. \A i \in DOMAIN r.tasks :
        /\ z.tasks[i].owner = r.tasks[i].owner /\ z.tasks[i].played = r.tasks[i].played
        /\ r.tasks[i].played \in Nat
  BY <1>2, <1>3 DEF Task
<1>5. Grows(r, z)
  <2>1. r.iter \in Nat
    BY <1>2, RunParts
  <2> QED
    BY <1>3, <1>4, <2>1 DEF Grows
<1>6. StepsSound(z) /\ CountedOnce(z, z, c, m, l)
  <2>1. StepsSound(z)
    BY <1>3 DEF Good, Kept, StepsSound
  <2>2. CountedOnce(r, r, c, m, l)
    BY DEF Good, Kept
  <2>3. CountedOnce(z, z, c, m, l)
    BY <1>3, <1>4, <2>2 DEF CountedOnce
  <2> QED
    BY <2>1, <2>3
<1>7. ASSUME c = 0  PROVE ParamsKept(z, m, l)
  <2> SUFFICES ASSUME NEW q \in R, q.played > z.tasks[q.task].played,
                      z.tasks[q.task].params # None
               PROVE  z.tasks[q.task].params.iter = q.batch.iter
    BY DEF ParamsKept, R
  <2>1. Knows(r, q.worker, q.task)
    BY <1>1, <1>7 DEF Good, Kept, ReportsKept, ReportKept, Batch
  <2>2. q.played > r.tasks[q.task].played
    BY <1>4, <2>1 DEF Knows
  <2>3. q.task # t
    <3>1. SUFFICES ASSUME q.task = t  PROVE FALSE
      OBVIOUS
    <3>2. q.worker = a.worker
      BY <2>1, <3>1 DEF Knows
    <3>3. q.played <= r.tasks[q.task].played
      BY <1>7, <3>1, <3>2 DEF Good, Kept, NoCrash, AsksSettled
    <3>4. q.played \in Nat /\ r.tasks[q.task].played \in Nat
      BY <1>1, <1>2, <2>1 DEF Knows, Task
    <3> QED
      BY <2>2, <3>3, <3>4
  <2> QED
    BY <1>3, <1>7, <2>1, <2>2, <2>3 DEF Good, Kept, NoCrash, ParamsKept, Knows
<1> QED
  BY <1>5, <1>6, <1>7, GrowthKept

\* So does a step of the parameters that counts a batch for the first time.
LEMMA AppendKept ==
  ASSUME NEW r, NEW s, NEW c, NEW m, NEW l, Good(r, s, c, m, l),
         NEW q \in Reports(m, l), q.task \in DOMAIN r.tasks,
         q.played <= r.tasks[q.task].played,
         \A i \in DOMAIN r.theta : r.theta[i].batch # q.batch,
         NEW step \in Step, step.batch = q.batch, step.epoch = c,
         step.flips = q.batch.flips, c = 0 => step.iter = q.batch.iter,
         NEW z \in Run, z.tasks = r.tasks, z.iter = r.iter + 1,
         z.theta = Append(r.theta, step)
  PROVE  Good(z, s, c, m, l)
<1> DEFINE R == Reports(m, l)
<1> DEFINE n == Len(r.theta)
<1>1. /\ \A p \in R : p.batch \in Batch /\ p.played \in Nat
      /\ r \in Run /\ c \in Nat
  BY RequestTypes DEF Good, Typed
<1>2. /\ n \in Nat /\ DOMAIN r.theta = 1 .. n /\ r.iter \in Nat
      /\ \A i \in DOMAIN r.theta : r.theta[i].batch \in Batch
      /\ \A t \in DOMAIN r.tasks : r.tasks[t].played \in Nat
      /\ r.theta \in Seq(Step)
  BY <1>1, RunParts DEF Task, Step
<1>3. /\ DOMAIN z.theta = 1 .. n + 1
      /\ \A i \in 1 .. n : z.theta[i] = r.theta[i]
      /\ z.theta[n + 1] = step
  <2>1. z.theta \in Seq(Step)
    BY RunParts
  <2> QED
    BY <1>2, <2>1, AppendProperties, LenProperties
<1> HIDE DEF R, n
<1>4. Grows(r, z)
  BY <1>2 DEF Grows
<1>5. StepsSound(z)
  <2>1. StepsSound(r)
    BY DEF Good, Kept
  <2>2. \A i \in 1 .. n + 1 : i \in 1 .. n \/ i = n + 1
    BY <1>2
  <2>3. \A i \in 1 .. n : r.theta[i].batch # step.batch
    BY <1>2
  <2> QED
    BY <1>2, <1>3, <2>1, <2>2, <2>3 DEF StepsSound
<1>6. CountedOnce(z, z, c, m, l)
  <2> SUFFICES ASSUME NEW i \in 1 .. n + 1, NEW batch, batch = z.theta[i].batch
               PROVE  /\ batch.epoch <= c
                      /\ batch.epoch = c => batch.iter < z.iter
                      /\ \A p \in R : p.batch = batch =>
                            p.task \in DOMAIN r.tasks /\ p.played <= r.tasks[p.task].played
    BY <1>3 DEF CountedOnce, R
  <2>1. CASE i \in 1 .. n
    <3>1. batch = r.theta[i].batch /\ batch.iter \in Nat
      BY <1>2, <1>3, <2>1 DEF Batch
    <3>2. /\ batch.epoch <= c
          /\ batch.epoch = c => batch.iter < r.iter
          /\ \A p \in R : p.batch = batch =>
                p.task \in DOMAIN r.tasks /\ p.played <= r.tasks[p.task].played
      BY <1>2, <2>1, <3>1 DEF Good, Kept, CountedOnce, R
    <3> QED
      BY <1>2, <3>1, <3>2
  <2>2. CASE i = n + 1
    <3>1. batch = q.batch /\ batch.iter \in Nat /\ q \in R
      BY <1>1, <1>3, <2>2 DEF Batch, R
    <3>2. ReportKept(q, r, c) /\ \A p \in R : p.batch = batch =>
            p.played = q.played /\ p.batch.task = p.task
      BY <3>1 DEF Good, Kept, ReportsKept, ReportKept, SameCount, R
    <3> QED
      BY <1>2, <3>1, <3>2 DEF ReportKept
  <2> QED
    BY <1>2, <2>1, <2>2
<1>7. c = 0 => ParamsKept(z, m, l)
  BY DEF Good, Kept, NoCrash, ParamsKept
<1> QED
  BY <1>4, <1>5, <1>6, <1>7, GrowthKept
-----------------------------------------------------------------------------
(* What the server makes of a request *)

\* The record of one task is replaced by one of the same owner that goes on from it.
LEMMA WithTaskCalm ==
  ASSUME NEW r \in Run, NEW t \in DOMAIN r.tasks, NEW x \in Task,
         x.owner = r.tasks[t].owner, r.tasks[t].played <= x.played,
         x.params \in {None, r.tasks[t].params}
  PROVE  /\ WithTask(r, t, x) \in Run /\ Calm(r, WithTask(r, t, x))
         /\ WithTask(r, t, x).tasks[t] = x
<1> DEFINE z == WithTask(r, t, x)
<1>1. /\ r.tasks \in Seq(Task) /\ t \in 1 .. Len(r.tasks) /\ r.iter \in Nat
      /\ DOMAIN r.tasks = 1 .. Len(r.tasks)
      /\ \A i \in DOMAIN r.tasks : r.tasks[i] \in Task
  BY RunParts
<1>2. /\ z.tasks = [r.tasks EXCEPT ![t] = x] /\ z.iter = r.iter /\ z.theta = r.theta
      /\ z.finished = r.finished
      /\ z = [r EXCEPT !.tasks = z.tasks]
  BY DEF WithTask, Run
<1>3. z.tasks \in Seq(Task)
  BY <1>1, <1>2, ExceptSeq
<1>4. z \in Run
  BY <1>2, <1>3 DEF Run
<1>5. /\ DOMAIN z.tasks = DOMAIN r.tasks
      /\ z.tasks[t] = x
      /\ \A i \in DOMAIN r.tasks : i # t => z.tasks[i] = r.tasks[i]
  BY <1>1, <1>2
<1>6. \A i \in DOMAIN r.tasks : r.tasks[i].played \in Nat
  BY <1>1 DEF Task
<1> HIDE DEF z
<1>7. Calm(r, z)
  BY <1>1, <1>2, <1>5, <1>6 DEF Calm, Grows
<1> QED
  BY <1>4, <1>5, <1>7 DEF z

\* An inactive task has the owner and the games of the task.
LEMMA InactiveTask ==
  ASSUME NEW x \in Task
  PROVE  /\ Inactive(x) \in Task
         /\ Inactive(x).owner = x.owner /\ Inactive(x).played = x.played
         /\ Inactive(x).params = None /\ Inactive(x).active = FALSE
BY DEF Inactive, Task

LEMMA InactiveCalm ==
  ASSUME NEW r \in Run, NEW t \in DOMAIN r.tasks
  PROVE  /\ WithTask(r, t, Inactive(r.tasks[t])) \in Run
         /\ Calm(r, WithTask(r, t, Inactive(r.tasks[t])))
         /\ WithTask(r, t, Inactive(r.tasks[t])).tasks[t] = Inactive(r.tasks[t])
<1>1. r.tasks[t] \in Task /\ r.tasks[t].played \in Nat
  BY RunParts DEF Task
<1> DEFINE x == Inactive(r.tasks[t])
<1>2. /\ x \in Task /\ x.owner = r.tasks[t].owner /\ x.params = None
      /\ x.played = r.tasks[t].played
  BY <1>1, InactiveTask
<1> HIDE DEF x
<1>3. r.tasks[t].played <= x.played
  BY <1>1, <1>2
<1>4. WithTask(r, t, x) \in Run /\ Calm(r, WithTask(r, t, x)) /\ WithTask(r, t, x).tasks[t] = x
  BY <1>2, <1>3, WithTaskCalm
<1> QED
  BY <1>4 DEF x

\* Nothing happens.
LEMMA SameCalm ==
  ASSUME NEW r \in Run
  PROVE  Calm(r, r)
<1>1. r.iter \in Nat /\ \A t \in DOMAIN r.tasks : r.tasks[t] \in Task
  BY RunParts
<1> QED
  BY <1>1 DEF Calm, Grows, Task

\* Some tasks end: those of a stopped run, or the old ones of a worker.
LEMMA SomeInactive ==
  ASSUME NEW r \in Run, NEW tasks, NEW U \in SUBSET DOMAIN r.tasks,
         tasks = [t \in DOMAIN r.tasks |-> IF t \in U THEN Inactive(r.tasks[t]) ELSE r.tasks[t]]
  PROVE  /\ tasks \in Seq(Task)
         /\ DOMAIN tasks = DOMAIN r.tasks /\ Len(tasks) = Len(r.tasks)
         /\ \A t \in DOMAIN r.tasks :
                /\ tasks[t].owner = r.tasks[t].owner /\ tasks[t].played = r.tasks[t].played
                /\ tasks[t].params \in {None, r.tasks[t].params}
                /\ t \in U => ~tasks[t].active
<1>1. /\ Len(r.tasks) \in Nat /\ DOMAIN r.tasks = 1 .. Len(r.tasks)
      /\ \A t \in DOMAIN r.tasks : r.tasks[t] \in Task
  BY RunParts
<1>2. \A t \in DOMAIN r.tasks : tasks[t] \in Task
  BY <1>1, InactiveTask
<1>3. tasks \in [1 .. Len(r.tasks) -> Task]
  BY <1>1, <1>2
<1>4. tasks \in Seq(Task)
  BY <1>1, <1>3, SeqDef
<1>5. Len(tasks) = Len(r.tasks)
  BY <1>1, <1>3, <1>4, LenProperties
<1> QED
  BY <1>1, <1>4, <1>5, InactiveTask

LEMMA StoppedCalm ==
  ASSUME NEW r \in Run
  PROVE  /\ Stopped(r) \in Run /\ Calm(r, Stopped(r))
         /\ \A t \in DOMAIN r.tasks :
                /\ ~Stopped(r).tasks[t].active
                /\ Stopped(r).tasks[t].played = r.tasks[t].played
<1> DEFINE U == {t \in DOMAIN r.tasks : r.tasks[t].active}
<1> DEFINE tasks == [t \in DOMAIN r.tasks |->
                        IF r.tasks[t].active THEN Inactive(r.tasks[t]) ELSE r.tasks[t]]
<1>1. tasks = [t \in DOMAIN r.tasks |-> IF t \in U THEN Inactive(r.tasks[t]) ELSE r.tasks[t]]
  OBVIOUS
<1>2. /\ tasks \in Seq(Task)
      /\ DOMAIN tasks = DOMAIN r.tasks
      /\ \A t \in DOMAIN r.tasks :
            /\ tasks[t].owner = r.tasks[t].owner /\ tasks[t].played = r.tasks[t].played
            /\ tasks[t].params \in {None, r.tasks[t].params}
            /\ t \in U => ~tasks[t].active
  <2> HIDE DEF tasks, U
  <2>1. U \in SUBSET DOMAIN r.tasks
    BY DEF U
  <2> QED
    BY <1>1, <2>1, SomeInactive
<1>3. /\ Stopped(r) = [r EXCEPT !.finished = TRUE, !.tasks = tasks]
      /\ Stopped(r).tasks = tasks /\ Stopped(r).iter = r.iter /\ Stopped(r).theta = r.theta
  BY DEF Stopped, Run
<1>4. /\ \A t \in DOMAIN r.tasks : r.tasks[t] \in Task /\ r.tasks[t].played \in Nat
      /\ r.iter \in Nat
  BY RunParts DEF Task
<1>5. \A t \in DOMAIN r.tasks : ~tasks[t].active
  BY <1>2
<1> HIDE DEF tasks
<1>6. Stopped(r) \in Run
  BY <1>2, <1>3 DEF Run
<1>7. Calm(r, Stopped(r))
  BY <1>2, <1>3, <1>4 DEF Calm, Grows
<1> QED
  BY <1>2, <1>3, <1>5, <1>6, <1>7

\* A new task, or none: a worker that gets one is its owner and has played nothing.
LEMMA TaskOutcome ==
  ASSUME run \in Run, NEW w \in Worker, NEW o \in OnTask(w)
  PROVE  /\ o.run \in Run /\ Calm(run, o.run)
         /\ o.reply.is \in {"waiting", "task"}
         /\ o.reply.is = "task" =>
                /\ o.reply.task = Len(run.tasks) + 1
                /\ Knows(o.run, w, o.reply.task)
                /\ o.run.tasks[o.reply.task].played = 0
<1>1. CASE ~NeedsWorkers
  BY <1>1, SameCalm DEF OnTask, Outcome, Told
<1>2. CASE NeedsWorkers
  <2> DEFINE n == Len(run.tasks)
  <2> DEFINE U == {t \in DOMAIN run.tasks : run.tasks[t].owner = w /\ Alive(t)}
  <2> DEFINE others == [t \in DOMAIN run.tasks |->
                            IF run.tasks[t].owner = w /\ Alive(t)
                            THEN Inactive(run.tasks[t]) ELSE run.tasks[t]]
  <2> DEFINE new == [owner |-> w, active |-> TRUE, played |-> 0, params |-> None]
  <2>1. /\ o.run = [run EXCEPT !.tasks = Append(others, new)]
        /\ o.reply.is = "task" /\ o.reply.task = n + 1
    BY <1>2 DEF OnTask, Outcome, Told
  <2>2. others = [t \in DOMAIN run.tasks |->
                    IF t \in U THEN Inactive(run.tasks[t]) ELSE run.tasks[t]]
    OBVIOUS
  <2>3. U \in SUBSET DOMAIN run.tasks
    OBVIOUS
  <2> HIDE DEF others, U
  <2>4. /\ others \in Seq(Task) /\ Len(others) = n
        /\ \A t \in DOMAIN run.tasks :
            /\ others[t].owner = run.tasks[t].owner
            /\ others[t].played = run.tasks[t].played
            /\ others[t].params \in {None, run.tasks[t].params}
    BY <2>2, <2>3, SomeInactive
  <2>5. /\ n \in Nat /\ DOMAIN run.tasks = 1 .. n
        /\ \A t \in DOMAIN run.tasks : run.tasks[t].played \in Nat
        /\ run.iter \in Nat
    BY RunParts DEF Task
  <2>6. new \in Task
    BY DEF Task
  <2>7. /\ Append(others, new) \in Seq(Task)
        /\ Len(Append(others, new)) = n + 1
        /\ DOMAIN Append(others, new) = 1 .. n + 1
        /\ \A t \in 1 .. n : Append(others, new)[t] = others[t]
        /\ Append(others, new)[n + 1] = new
    BY <2>4, <2>5, <2>6, AppendProperties, LenProperties
  <2>8. o.run \in Run /\ o.run.tasks = Append(others, new) /\ o.run.iter = run.iter
        /\ o.run.theta = run.theta
    BY <2>1, <2>7 DEF Run
  <2>9. Calm(run, o.run)
    BY <2>4, <2>5, <2>7, <2>8 DEF Calm, Grows
  <2> QED
    BY <2>1, <2>5, <2>7, <2>8, <2>9 DEF Knows
<1> QED
  BY <1>1, <1>2

\* New parameters for a task: what the worker is told is what is stored.
LEMMA SpsaOutcome ==
  ASSUME run \in Run, crashes \in Nat, NEW t \in DOMAIN run.tasks, NEW o \in OnSpsa(t)
  PROVE  \/ o.run = run /\ o.reply.is = "dead"
         \/ /\ o.reply.is = "params"
            /\ o.reply.batch \in Batch
            /\ o.reply.batch.epoch = crashes /\ o.reply.batch.task = t
            /\ o.reply.batch.number = run.tasks[t].played
            /\ o.reply.batch.iter = run.iter
            /\ o.run \in Run
            /\ \E p \in Params :
                /\ p.iter = run.iter
                /\ o.run = WithTask(run, t, [run.tasks[t] EXCEPT !.params = p])
<1>1. CASE ~Alive(t)
  BY <1>1 DEF OnSpsa, Outcome, Told
<1>2. CASE Alive(t)
  <2>1. PICK f \in Flips :
            o = Outcome(WithTask(run, t, [run.tasks[t] EXCEPT
                            !.params = [iter |-> run.iter, flips |-> f]]),
                        [Told("params") EXCEPT !.batch =
                            [epoch |-> crashes, task |-> t, number |-> run.tasks[t].played,
                             iter |-> run.iter, flips |-> f]])
    BY <1>2 DEF OnSpsa
  <2> DEFINE p == [iter |-> run.iter, flips |-> f]
  <2> DEFINE x == [run.tasks[t] EXCEPT !.params = p]
  <2>2. /\ run.iter \in Nat /\ run.tasks \in Seq(Task) /\ run.tasks[t] \in Task
        /\ run.tasks[t].played \in Nat /\ t \in 1 .. Len(run.tasks)
    BY RunParts DEF Task
  <2>3. p \in Params /\ p.iter = run.iter
    BY <2>2 DEF Params
  <2>4. x \in Task
    BY <2>2, <2>3 DEF Task
  <2> HIDE DEF x, p
  <2>5. [run.tasks EXCEPT ![t] = x] \in Seq(Task)
    BY <2>2, <2>4, ExceptSeq
  <2>6. WithTask(run, t, x) \in Run
    BY <2>5 DEF WithTask, Run
  <2>7. o.run = WithTask(run, t, x)
    BY <2>1 DEF Outcome, x, p
  <2>8. /\ o.reply.is = "params"
        /\ o.reply.batch = [epoch |-> crashes, task |-> t, number |-> run.tasks[t].played,
                            iter |-> run.iter, flips |-> f]
    BY <2>1 DEF Outcome, Told
  <2>9. o.reply.batch \in Batch
    BY <2>2, <2>8 DEF Batch
  <2>10. o.run = WithTask(run, t, [run.tasks[t] EXCEPT !.params = p])
    BY <2>7 DEF x
  <2>11. /\ o.reply.batch.epoch = crashes /\ o.reply.batch.task = t
         /\ o.reply.batch.number = run.tasks[t].played /\ o.reply.batch.iter = run.iter
    BY <2>8
  <2> QED
    BY <2>3, <2>6, <2>7, <2>8, <2>9, <2>10, <2>11
<1> QED
  BY <1>1, <1>2

\* A report that is counted: the invariant holds afterwards, and the task has its games.
LEMMA CountedUpdate ==
  ASSUME NEW s, NEW m, NEW l, Good(run, s, crashes, m, l),
         NEW q \in Reports(m, l), Knows(run, q.worker, q.task),
         Compatible(q.task, q.played),
         NEW counted,
         counted = WithTask(run, q.task, [run.tasks[q.task] EXCEPT !.played = q.played]),
         NEW updated, updated = SpsaUpdated(counted, q.task, q.batch)
  PROVE  /\ Good(updated, s, crashes, m, l)
         /\ q.task \in DOMAIN updated.tasks
         /\ updated.tasks[q.task].played = q.played
<1> DEFINE t == q.task
<1> DEFINE x == [run.tasks[t] EXCEPT !.played = q.played]
<1>1. /\ run \in Run /\ t \in DOMAIN run.tasks /\ crashes \in Nat
      /\ q.batch \in Batch /\ q.played \in Nat
  BY RequestTypes DEF Good, Typed, Knows
<1>2. run.tasks[t] \in Task /\ run.tasks[t].played \in Nat /\ q.played > run.tasks[t].played
  BY <1>1, RunParts DEF Compatible, Task
<1>3. /\ x \in Task /\ x.owner = run.tasks[t].owner /\ run.tasks[t].played <= x.played
      /\ x.played = q.played /\ x.params = run.tasks[t].params
  BY <1>1, <1>2 DEF Task
<1>4. /\ counted \in Run /\ Calm(run, counted) /\ counted.tasks[t] = x
  <2> HIDE DEF x
  <2> QED
    BY <1>1, <1>3, WithTaskCalm DEF x
<1>5. Good(counted, s, crashes, m, l)
  BY <1>4, CalmKept
<1>6. /\ t \in DOMAIN counted.tasks
      /\ counted.theta = run.theta
      /\ counted.tasks[t].played = q.played /\ counted.tasks[t].params = run.tasks[t].params
  BY <1>1, <1>3, <1>4 DEF Calm, Grows
<1> HIDE DEF x
<1> DEFINE params == counted.tasks[t].params
<1> DEFINE y == [counted.tasks[t] EXCEPT !.params = None]
<1> DEFINE used == WithTask(counted, t, y)
<1>7. CASE params = None
  <2>1. updated = counted
    BY <1>7 DEF SpsaUpdated
  <2> QED
    BY <1>5, <1>6, <2>1
<1>8. CASE params # None
  <2>1. counted.tasks[t] \in Task
    BY <1>4, <1>6, RunParts
  <2>2. /\ y \in Task /\ y.owner = counted.tasks[t].owner /\ y.params = None
        /\ y.played = counted.tasks[t].played /\ counted.tasks[t].played <= y.played
    BY <1>1, <1>6, <2>1 DEF Task
  <2> HIDE DEF y
  <2>3. used \in Run /\ Calm(counted, used) /\ used.tasks[t] = y
    BY <1>4, <1>6, <2>2, WithTaskCalm
  <2>4. Good(used, s, crashes, m, l)
    BY <1>5, <2>3, CalmKept
  <2>5. t \in DOMAIN used.tasks /\ used.theta = run.theta /\ used.tasks[t].played = q.played
    BY <1>6, <2>2, <2>3 DEF Calm, Grows
  <2> HIDE DEF used
  <2>6. CASE ~SignatureFits(params, q.batch)
    <3>1. updated = used
      BY <1>8, <2>6 DEF SpsaUpdated, used, y
    <3> QED
      BY <2>4, <2>5, <3>1
  <2>7. CASE SignatureFits(params, q.batch)
    <3> DEFINE step == [batch |-> q.batch, epoch |-> crashes,
                        iter |-> params.iter, flips |-> params.flips]
    <3>1. updated = [used EXCEPT !.iter = @ + 1, !.theta = Append(@, step)]
      BY <1>8, <2>7 DEF SpsaUpdated, used, y
    <3>2. params \in Params
      BY <1>8, <2>1 DEF Task
    <3>3. /\ step \in Step /\ step.batch = q.batch /\ step.epoch = crashes
          /\ step.flips = q.batch.flips
      BY <1>1, <2>7, <3>2 DEF Step, Params, SignatureFits
    <3>4. crashes = 0 => step.iter = q.batch.iter
      BY <1>2, <1>6, <1>8 DEF Good, Kept, NoCrash, ParamsKept
    <3> HIDE DEF step
    <3>5. used.theta \in Seq(Step) /\ used.iter \in Nat
      BY <2>3, RunParts
    <3>6. /\ updated.tasks = used.tasks /\ updated.iter = used.iter + 1
          /\ updated.theta = Append(used.theta, step)
      BY <2>3, <3>1 DEF Run
    <3>7. updated \in Run
      <4>1. Append(used.theta, step) \in Seq(Step)
        BY <3>3, <3>5, AppendProperties
      <4>2. used = [tasks |-> used.tasks, iter |-> used.iter, theta |-> used.theta,
                    finished |-> used.finished]
        BY <2>3 DEF Run
      <4>3. updated = [tasks |-> used.tasks, iter |-> used.iter + 1,
                       theta |-> Append(used.theta, step), finished |-> used.finished]
        BY <3>1, <4>2
      <4>4. /\ used.tasks \in Seq(Task) /\ used.finished \in BOOLEAN
            /\ used.iter + 1 \in Nat
        BY <2>3, <3>5, RunParts
      <4> HIDE DEF used
      <4>5. [tasks |-> used.tasks, iter |-> used.iter + 1,
             theta |-> Append(used.theta, step), finished |-> used.finished] \in Run
        BY <4>1, <4>4 DEF Run
      <4> QED
        BY <4>3, <4>5
    <3>8. \A i \in DOMAIN used.theta : used.theta[i].batch # q.batch
      <4>1. ASSUME NEW i \in DOMAIN run.theta, run.theta[i].batch = q.batch
            PROVE  q.played <= run.tasks[t].played
        BY <4>1 DEF Good, Kept, CountedOnce
      <4> QED
        BY <1>1, <1>2, <2>5, <4>1
    <3>9. q.played <= used.tasks[t].played
      BY <1>1, <2>5
    <3> QED
      BY <2>4, <2>5, <3>3, <3>4, <3>6, <3>7, <3>8, <3>9, AppendKept
  <2> QED
    BY <2>6, <2>7
<1> QED
  BY <1>7, <1>8

\* A report: an answer other than that the task is alive, or one after which the task has
\* the games of the report.
LEMMA UpdateKept ==
  ASSUME NEW s, NEW m, NEW l, Good(run, s, crashes, m, l),
         NEW q \in Reports(m, l), Knows(run, q.worker, q.task),
         NEW o \in OnUpdate(q.task, q.played, q.batch)
  PROVE  /\ Good(o.run, s, crashes, m, l)
         /\ o.reply.is \in {"alive", "dead", "error"}
         /\ o.reply.is = "alive" =>
                /\ q.played > run.tasks[q.task].played
                /\ o.run.tasks[q.task].played = q.played
<1> DEFINE t == q.task
<1>1. run \in Run /\ t \in DOMAIN run.tasks
  BY DEF Good, Typed, Knows
<1>2. CASE ~Alive(t)
  <2>1. o.run = run /\ o.reply.is = "dead"
    BY <1>2 DEF OnUpdate, Outcome, Told
  <2> QED
    BY <2>1
<1>3. CASE Alive(t) /\ ~Compatible(t, q.played)
  <2>1. o.run = WithTask(run, t, Inactive(run.tasks[t])) /\ o.reply.is = "error"
    BY <1>3 DEF OnUpdate, Outcome, Told
  <2>2. o.run \in Run /\ Calm(run, o.run)
    BY <1>1, <2>1, InactiveCalm
  <2> QED
    BY <2>1, <2>2, CalmKept
<1>4. CASE Alive(t) /\ Compatible(t, q.played)
  <2> DEFINE counted == WithTask(run, t, [run.tasks[t] EXCEPT !.played = q.played])
  <2> DEFINE updated == SpsaUpdated(counted, t, q.batch)
  <2> DEFINE ended == IF q.played < TaskSize THEN updated
                      ELSE WithTask(updated, t, Inactive(updated.tasks[t]))
  <2> DEFINE final == IF Played(ended) < NumBatches THEN ended ELSE Stopped(ended)
  <2>1. /\ o.run = final
        /\ o.reply.is = IF final.tasks[t].active THEN "alive" ELSE "dead"
    <3>1. OnUpdate(t, q.played, q.batch)
            = {Outcome(final, Told(IF final.tasks[t].active THEN "alive" ELSE "dead"))}
      BY <1>4 DEF OnUpdate
    <3> HIDE DEF final
    <3> QED
      BY <3>1 DEF Outcome, Told
  <2> HIDE DEF counted
  <2>2. counted = WithTask(run, t, [run.tasks[t] EXCEPT !.played = q.played])
    BY DEF counted
  <2> HIDE DEF updated
  <2>3. updated = SpsaUpdated(counted, t, q.batch)
    BY DEF updated
  <2>4. /\ Good(updated, s, crashes, m, l)
        /\ t \in DOMAIN updated.tasks /\ updated.tasks[t].played = q.played
    BY <1>4, <2>2, <2>3, CountedUpdate
  <2>5. updated \in Run /\ updated.tasks[t] \in Task
    BY <2>4, RunParts DEF Good, Typed
  <2>6. /\ Good(ended, s, crashes, m, l)
        /\ t \in DOMAIN ended.tasks /\ ended.tasks[t].played = q.played
    <3>1. CASE q.played < TaskSize
      BY <2>4, <3>1
    <3>2. CASE ~(q.played < TaskSize)
      <4> DEFINE z == WithTask(updated, t, Inactive(updated.tasks[t]))
      <4>1. z \in Run /\ Calm(updated, z) /\ z.tasks[t] = Inactive(updated.tasks[t])
        BY <2>4, <2>5, InactiveCalm
      <4>2. z.tasks[t].played = q.played
        BY <2>4, <2>5, <4>1, InactiveTask
      <4>3. ended = z
        BY <3>2
      <4> HIDE DEF z, ended
      <4> QED
        BY <2>4, <4>1, <4>2, <4>3, CalmKept DEF Calm, Grows
    <3> QED
      BY <3>1, <3>2
  <2> HIDE DEF ended
  <2>7. /\ Good(final, s, crashes, m, l) /\ final.tasks[t].played = q.played
    <3>1. CASE Played(ended) < NumBatches
      BY <2>6, <3>1
    <3>2. CASE ~(Played(ended) < NumBatches)
      <4>1. ended \in Run
        BY <2>6 DEF Good, Typed
      <4>2. Stopped(ended) \in Run /\ Calm(ended, Stopped(ended))
        BY <4>1, StoppedCalm
      <4>3. Stopped(ended).tasks[t].played = q.played
        BY <2>6, <4>1, StoppedCalm
      <4> QED
        BY <2>6, <3>2, <4>2, <4>3, CalmKept
    <3> QED
      BY <3>1, <3>2
  <2> HIDE DEF final
  <2>8. q.played > run.tasks[t].played
    BY <1>4 DEF Compatible
  <2> QED
    BY <2>1, <2>7, <2>8
<1> QED
  BY <1>2, <1>3, <1>4

\* The end of a task, or of the run.
LEMMA FailedOutcome ==
  ASSUME run \in Run, NEW t \in DOMAIN run.tasks, NEW o \in OnFailed(t)
  PROVE  o.run \in Run /\ Calm(run, o.run) /\ o.reply.is = "alive"
<1>1. /\ o.run \in {IF Alive(t) THEN WithTask(run, t, Inactive(run.tasks[t])) ELSE run,
                    Stopped(run)}
      /\ o.reply.is = "alive"
  BY DEF OnFailed, Outcome, Told
<1> QED
  BY <1>1, SameCalm, StoppedCalm, InactiveCalm

\* Whatever the server makes of a request of the main loop keeps the invariant.
LEMMA HandleKept ==
  ASSUME NEW s, NEW m, NEW l, Good(run, s, crashes, m, l),
         NEW q \in Requests,
         q.op = "update" => q \in Reports(m, l), q.op = "spsa" => q \in Asks(m, l),
         NEW o \in Outcomes(q)
  PROVE  Good(o.run, s, crashes, m, l)
<1>1. run \in Run /\ crashes \in Nat /\ q.worker \in Worker
      /\ q.op \in {"task", "spsa", "update", "failed"}
  BY DEF Good, Typed, Requests
<1>2. CASE q.op # "task" /\ ~Valid(q.worker, q.task)
  <2>1. o.run = run
    BY <1>2 DEF Outcomes, Outcome
  <2> QED
    BY <2>1
<1>3. CASE q.op = "task"
  <2>1. o \in OnTask(q.worker)
    BY <1>3 DEF Outcomes
  <2> QED
    BY <1>1, <2>1, TaskOutcome, CalmKept
<1>4. CASE q.op = "spsa" /\ Valid(q.worker, q.task)
  <2>1. o \in OnSpsa(q.task) /\ Knows(run, q.worker, q.task) /\ q.task \in DOMAIN run.tasks
    BY <1>4 DEF Outcomes, Valid, Knows
  <2>2. \/ o.run = run
        \/ /\ o.run \in Run
           /\ \E p \in Params :
                /\ p.iter = run.iter
                /\ o.run = WithTask(run, q.task, [run.tasks[q.task] EXCEPT !.params = p])
    BY <1>1, <2>1, SpsaOutcome
  <2> QED
    BY <1>4, <2>1, <2>2, SpsaKept
<1>5. CASE q.op = "update" /\ Valid(q.worker, q.task)
  <2>1. o \in OnUpdate(q.task, q.played, q.batch) /\ Knows(run, q.worker, q.task)
    BY <1>5 DEF Outcomes, Valid, Knows
  <2> QED
    BY <1>5, <2>1, UpdateKept
<1>6. CASE q.op = "failed" /\ Valid(q.worker, q.task)
  <2>1. o \in OnFailed(q.task) /\ q.task \in DOMAIN run.tasks
    BY <1>6 DEF Outcomes, Valid
  <2> QED
    BY <1>1, <2>1, FailedOutcome, CalmKept
<1> QED
  BY <1>1, <1>2, <1>3, <1>4, <1>5, <1>6
-----------------------------------------------------------------------------
(* How the worker goes on *)

\* The types of the main loops and of the late requests.
LoopsTyped(m, l) ==
    /\ m \in [Worker -> Main]
    /\ l \subseteq Requests
    /\ \A w \in Worker : m[w].at \in {"playing", "reporting"} => m[w].batch \in Batch
    /\ \A q \in l : q.op = "update" => q.batch \in Batch

\* No new report or request for parameters, and no new task: the invariant is kept.
LEMMA MoveKept ==
  ASSUME NEW r, NEW s, NEW c, NEW m, NEW l, Good(r, s, c, m, l),
         NEW m2, NEW l2, LoopsTyped(m2, l2),
         Reports(m2, l2) \subseteq Reports(m, l), Asks(m2, l2) \subseteq Asks(m, l),
         \A w \in Worker : Busy(m2, w) =>
            Busy(m, w) /\ m2[w].task = m[w].task /\ m2[w].played = m[w].played,
         \A a \in l2 : a.op = "spsa" => a \in l \/ ~Busy(m2, a.worker)
  PROVE  Good(r, s, c, m2, l2)
<1>1. Typed(r, s, c, m2, l2)
  BY DEF Good, Typed, LoopsTyped
<1>2. ReportsKept(r, c, m2, l2)
  BY DEF Good, Kept, ReportsKept
<1>3. SameCount(m2, l2)
  BY DEF Good, Kept, SameCount
<1>4. PresentCount(r, c, m2, l2)
  <2>1. PresentCount(r, c, m, l)
    BY DEF Good, Kept
  <2> QED
    BY <2>1 DEF PresentCount
<1>5. CountedOnce(r, r, c, m2, l2) /\ CountedOnce(s, r, c, m2, l2)
  BY DEF Good, Kept, CountedOnce
<1>6. ASSUME c = 0
      PROVE  OwnTask(r, m2, l2) /\ AsksSettled(r, m2, l2) /\ ParamsKept(r, m2, l2)
  <2>1. OwnTask(r, m, l) /\ AsksSettled(r, m, l) /\ ParamsKept(r, m, l)
    BY <1>6 DEF Good, Kept, NoCrash
  <2>2. OwnTask(r, m2, l2)
    <3> SUFFICES ASSUME NEW w \in Worker, Busy(m2, w)
                 PROVE  /\ Knows(r, w, m2[w].task)
                        /\ \A q \in Reports(m2, l2) :
                            (q.worker = w /\ q.task = m2[w].task) => q.played <= m2[w].played + 1
                        /\ \A q \in l2 :
                            q.op = "spsa" => ~(q.worker = w /\ q.task = m2[w].task)
      BY DEF OwnTask
    <3> QED
      BY <2>1 DEF OwnTask
  <2>3. AsksSettled(r, m2, l2)
    BY <2>1 DEF AsksSettled
  <2>4. ParamsKept(r, m2, l2)
    BY <2>1 DEF ParamsKept
  <2> QED
    BY <2>2, <2>3, <2>4
<1> QED
  BY <1>1, <1>2, <1>3, <1>4, <1>5, <1>6 DEF Good, Kept, NoCrash

\* What the main loop of one worker may do by itself, or when it gives up a request.
Steps(m, w, x) ==
    /\ x \in Main
    /\ x.at \in {"playing", "reporting"} =>
        /\ m[w].at \in {"playing", "reporting"}
        /\ x.task = m[w].task /\ x.played = m[w].played /\ x.batch = m[w].batch
    /\ x.at \in {"ready", "asking"} =>
        /\ m[w].at \in {"ready", "asking"}
        /\ x.task = m[w].task /\ x.played = m[w].played
\* A request that is late from now on is the one that is awaited; who gives up a request
\* for parameters gives up the task.
LateBy(m, w, x, q) ==
    \/ q = Request(w, "update", m[w]) /\ m[w].at = "reporting"
    \/ q = Request(w, "spsa", m[w]) /\ m[w].at = "asking" /\ x.at = "failing"
    \/ q \in Requests /\ q.op \in {"task", "failed"}

LEMMA StepKept ==
  ASSUME NEW r, NEW s, NEW c, NEW m, NEW l, Good(r, s, c, m, l),
         NEW w \in Worker, NEW x, Steps(m, w, x),
         NEW l2, \A q \in l2 : q \in l \/ LateBy(m, w, x, q)
  PROVE  Good(r, s, c, [m EXCEPT ![w] = x], l2)
<1> DEFINE m2 == [m EXCEPT ![w] = x]
<1>1. /\ m \in [Worker -> Main] /\ l \subseteq Requests
      /\ \A v \in Worker : m[v].at \in {"playing", "reporting"} => m[v].batch \in Batch
      /\ \A q \in l : q.op = "update" => q.batch \in Batch
  BY DEF Good, Typed
<1>2. /\ m2 \in [Worker -> Main] /\ m2[w] = x
      /\ \A v \in Worker : v # w => m2[v] = m[v]
  BY <1>1 DEF Steps
<1> HIDE DEF m2
<1>3. \A q \in l2 : q \in l \/
        (/\ q \in Requests
         /\ q.op = "update" => q.batch \in Batch /\ q \in Reports(m, l)
         /\ q.op = "spsa" => q \in Asks(m, l) /\ q.worker = w /\ x.at = "failing")
  <2> SUFFICES ASSUME NEW q \in l2, q \notin l
               PROVE  /\ q \in Requests
                      /\ q.op = "update" => q.batch \in Batch /\ q \in Reports(m, l)
                      /\ q.op = "spsa" =>
                            q \in Asks(m, l) /\ q.worker = w /\ x.at = "failing"
    OBVIOUS
  <2>1. CASE q = Request(w, "update", m[w]) /\ m[w].at = "reporting"
    <3>1. q \in Reports(m, l) /\ q.op = "update"
      BY <2>1 DEF Reports, Request
    <3>2. q \in Requests /\ q.batch \in Batch
      BY <3>1, RequestTypes DEF Good, Requests
    <3> QED
      BY <3>1, <3>2
  <2>2. CASE q = Request(w, "spsa", m[w]) /\ m[w].at = "asking" /\ x.at = "failing"
    <3>1. q \in Asks(m, l) /\ q.op = "spsa" /\ q.worker = w
      BY <2>2 DEF Asks, Request
    <3>2. q \in Requests
      BY <3>1, RequestTypes DEF Good
    <3> QED
      BY <2>2, <3>1, <3>2
  <2>3. CASE q \in Requests /\ q.op \in {"task", "failed"}
    BY <2>3
  <2> QED
    BY <2>1, <2>2, <2>3 DEF LateBy
<1>4. LoopsTyped(m2, l2)
  <2>1. \A v \in Worker : m2[v].at \in {"playing", "reporting"} => m2[v].batch \in Batch
    BY <1>1, <1>2 DEF Steps
  <2> QED
    BY <1>1, <1>2, <1>3, <2>1 DEF LoopsTyped
<1>5. Reports(m2, l2) \subseteq Reports(m, l)
  <2> SUFFICES ASSUME NEW q \in Reports(m2, l2)  PROVE q \in Reports(m, l)
    OBVIOUS
  <2>1. CASE q \in l2 /\ q.op = "update"
    BY <1>3, <2>1 DEF Reports
  <2>2. ASSUME NEW v \in Worker, m2[v].at \in {"playing", "reporting"},
               q = Request(v, "update", m2[v])
        PROVE  q \in Reports(m, l)
    <3>1. m[v].at \in {"playing", "reporting"}
      BY <1>2, <2>2 DEF Steps
    <3>2. q = Request(v, "update", m[v])
      BY <1>2, <2>2 DEF Steps, Request
    <3> QED
      BY <3>1, <3>2 DEF Reports
  <2> QED
    BY <2>1, <2>2 DEF Reports
<1>6. Asks(m2, l2) \subseteq Asks(m, l)
  <2> SUFFICES ASSUME NEW q \in Asks(m2, l2)  PROVE q \in Asks(m, l)
    OBVIOUS
  <2>1. CASE q \in l2 /\ q.op = "spsa"
    BY <1>3, <2>1 DEF Asks
  <2>2. ASSUME NEW v \in Worker, m2[v].at \in {"ready", "asking"},
               q = Request(v, "spsa", m2[v])
        PROVE  q \in Asks(m, l)
    <3>1. m[v].at \in {"ready", "asking"}
      BY <1>2, <2>2 DEF Steps
    <3>2. q = Request(v, "spsa", m[v])
      BY <1>2, <2>2 DEF Steps, Request
    <3> QED
      BY <3>1, <3>2 DEF Asks
  <2> QED
    BY <2>1, <2>2 DEF Asks
<1>7. \A v \in Worker : Busy(m2, v) =>
        Busy(m, v) /\ m2[v].task = m[v].task /\ m2[v].played = m[v].played
  BY <1>2 DEF Busy, Steps
<1>8. \A a \in l2 : a.op = "spsa" => a \in l \/ ~Busy(m2, a.worker)
  BY <1>2, <1>3 DEF Busy
<1> QED
  BY <1>4, <1>5, <1>6, <1>7, <1>8, MoveKept DEF m2

\* A request that is no longer late.
LEMMA HandledKept ==
  ASSUME NEW r, NEW s, NEW c, NEW m, NEW l, Good(r, s, c, m, l), NEW q
  PROVE  Good(r, s, c, m, l \ {q})
<1>1. LoopsTyped(m, l \ {q})
  BY DEF Good, Typed, LoopsTyped
<1>2. Reports(m, l \ {q}) \subseteq Reports(m, l) /\ Asks(m, l \ {q}) \subseteq Asks(m, l)
  BY DEF Reports, Asks
<1> QED
  BY <1>1, <1>2, MoveKept

\* The main loops m2 are those of m, except that w's is x.
Differs(m, m2, w, x) == m2[w] = x /\ \A v \in Worker : v # w => m2[v] = m[v]

\* Then no other reports and requests for parameters than w's are new.
OneNew(m, m2, l, w, x) ==
    /\ \A q \in Reports(m2, l) : q \in Reports(m, l) \/
            (x.at \in {"playing", "reporting"} /\ q = Request(w, "update", x))
    /\ \A q \in Asks(m2, l) : q \in Asks(m, l) \/
            (x.at \in {"ready", "asking"} /\ q = Request(w, "spsa", x))

\* A main loop changes, the late requests do not: the reports and requests for
\* parameters afterwards.
LEMMA LoopChange ==
  ASSUME NEW m, NEW l, NEW w \in Worker, NEW x, NEW m2, Differs(m, m2, w, x)
  PROVE  OneNew(m, m2, l, w, x)
<1>1. ASSUME NEW q \in Reports(m2, l)
      PROVE  q \in Reports(m, l) \/
                (x.at \in {"playing", "reporting"} /\ q = Request(w, "update", x))
  <2>1. CASE q \in l /\ q.op = "update"
    BY <2>1 DEF Reports
  <2>2. ASSUME NEW v \in Worker, m2[v].at \in {"playing", "reporting"},
               q = Request(v, "update", m2[v])
        PROVE  q \in Reports(m, l) \/
                (x.at \in {"playing", "reporting"} /\ q = Request(w, "update", x))
    <3>1. CASE v = w
      BY <2>2, <3>1 DEF Differs
    <3>2. CASE v # w
      BY <2>2, <3>2 DEF Reports, Differs
    <3> QED
      BY <3>1, <3>2
  <2> QED
    BY <1>1, <2>1, <2>2 DEF Reports
<1>2. ASSUME NEW q \in Asks(m2, l)
      PROVE  q \in Asks(m, l) \/
                (x.at \in {"ready", "asking"} /\ q = Request(w, "spsa", x))
  <2>1. CASE q \in l /\ q.op = "spsa"
    BY <2>1 DEF Asks
  <2>2. ASSUME NEW v \in Worker, m2[v].at \in {"ready", "asking"},
               q = Request(v, "spsa", m2[v])
        PROVE  q \in Asks(m, l) \/
                (x.at \in {"ready", "asking"} /\ q = Request(w, "spsa", x))
    <3>1. CASE v = w
      BY <2>2, <3>1 DEF Differs
    <3>2. CASE v # w
      BY <2>2, <3>2 DEF Asks, Differs
    <3> QED
      BY <3>1, <3>2
  <2> QED
    BY <1>2, <2>1, <2>2 DEF Asks
<1> QED
  BY <1>1, <1>2 DEF OneNew

\* A worker has a new task, of which nothing was heard since the last crash.
LEMMA NewTaskKept ==
  ASSUME NEW r, NEW s, NEW c, NEW m, NEW l, Good(r, s, c, m, l),
         NEW w \in Worker, m[w].at = "fetching",
         NEW t \in Nat, Knows(r, w, t),
         \A q \in Reports(m, l) : q.batch.epoch = c => q.task # t,
         c = 0 => \A a \in Asks(m, l) : a.task # t,
         NEW x, x = [NoTask EXCEPT !.at = "ready", !.task = t],
         NEW m2, m2 = [m EXCEPT ![w] = x]
  PROVE  Good(r, s, c, m2, l)
<1>1. m \in [Worker -> Main] /\ c \in Nat
  BY DEF Good, Typed
<1>2. /\ x \in Main /\ x.at = "ready" /\ x.task = t /\ x.played = 0
      /\ Request(w, "spsa", x).worker = w /\ Request(w, "spsa", x).task = t
  <2>1. x = [at |-> "ready", task |-> t, played |-> 0, batch |-> None, attempt |-> 0]
    BY DEF NoTask
  <2>2. x \in Main
    BY <2>1, AttemptsAssumption DEF Main
  <2>3. x.at = "ready" /\ x.task = t /\ x.played = 0
    BY DEF NoTask
  <2>4. Request(w, "spsa", x).worker = w /\ Request(w, "spsa", x).task = x.task
    BY DEF Request
  <2> QED
    BY <2>2, <2>3, <2>4
<1>3. /\ m2 \in [Worker -> Main] /\ m2[w] = x
      /\ \A v \in Worker : v # w => m2[v] = m[v]
      /\ \A q \in Reports(m2, l) : q \in Reports(m, l)
      /\ \A q \in Asks(m2, l) : q \in Asks(m, l) \/ (q.worker = w /\ q.task = t)
  <2>1. x.at \notin {"playing", "reporting"}
    BY <1>2
  <2>2. m2 \in [Worker -> Main] /\ m2[w] = x /\ \A v \in Worker : v # w => m2[v] = m[v]
    BY <1>1, <1>2
  <2>3. Differs(m, m2, w, x)
    BY <2>2 DEF Differs
  <2>4. OneNew(m, m2, l, w, x)
    BY <2>3, LoopChange
  <2> QED
    BY <1>2, <2>1, <2>2, <2>4 DEF OneNew
<1>4. /\ \A q \in Reports(m, l) : q.batch \in Batch /\ ReportKept(q, r, c)
  BY RequestTypes DEF Good, Kept, ReportsKept
<1>5. Typed(r, s, c, m2, l)
  BY <1>2, <1>3 DEF Good, Typed
<1>6. ReportsKept(r, c, m2, l) /\ SameCount(m2, l)
  <2>1. ReportsKept(r, c, m, l) /\ SameCount(m, l)
    BY DEF Good, Kept
  <2>2. ReportsKept(r, c, m2, l)
    BY <1>3, <2>1 DEF ReportsKept
  <2>3. SameCount(m2, l)
    BY <1>3, <2>1 DEF SameCount
  <2> QED
    BY <2>2, <2>3
<1>7. PresentCount(r, c, m2, l)
  <2> SUFFICES ASSUME NEW v \in Worker, NEW q \in Reports(m2, l),
                      Busy(m2, v), q.worker = v, q.task = m2[v].task,
                      q.batch.epoch = c, q.batch.number = r.tasks[q.task].played
               PROVE  q.played = m2[v].played + 1
    BY DEF PresentCount
  <2>1. CASE v = w
    BY <1>2, <1>3, <2>1
  <2>2. CASE v # w
    BY <1>3, <2>2 DEF Good, Kept, PresentCount, Busy
  <2> QED
    BY <2>1, <2>2
<1>8. CountedOnce(r, r, c, m2, l) /\ CountedOnce(s, r, c, m2, l)
  BY <1>3 DEF Good, Kept, CountedOnce
<1>9. ASSUME c = 0
      PROVE  OwnTask(r, m2, l) /\ AsksSettled(r, m2, l) /\ ParamsKept(r, m2, l)
  <2>1. OwnTask(r, m, l) /\ AsksSettled(r, m, l) /\ ParamsKept(r, m, l)
    BY <1>9 DEF Good, Kept, NoCrash
  <2>2. \A q \in Reports(m, l) : q.task # t
    BY <1>4, <1>9 DEF ReportKept, Batch
  <2>3. OwnTask(r, m2, l)
    <3> SUFFICES ASSUME NEW v \in Worker, Busy(m2, v)
                 PROVE  /\ Knows(r, v, m2[v].task)
                        /\ \A q \in Reports(m2, l) :
                            (q.worker = v /\ q.task = m2[v].task) => q.played <= m2[v].played + 1
                        /\ \A q \in l : q.op = "spsa" => ~(q.worker = v /\ q.task = m2[v].task)
      BY DEF OwnTask
    <3>1. CASE v = w
      <4>1. \A q \in l : q.op = "spsa" => q \in Asks(m, l)
        BY DEF Asks
      <4> QED
        BY <1>2, <1>3, <1>9, <2>2, <3>1, <4>1
    <3>2. CASE v # w
      BY <1>3, <2>1, <3>2 DEF OwnTask, Busy
    <3> QED
      BY <3>1, <3>2
  <2>4. AsksSettled(r, m2, l)
    BY <1>3, <2>1, <2>2 DEF AsksSettled
  <2>5. ParamsKept(r, m2, l)
    BY <1>3, <2>1 DEF ParamsKept
  <2> QED
    BY <2>3, <2>4, <2>5
<1> QED
  BY <1>5, <1>6, <1>7, <1>8, <1>9 DEF Good, Kept, NoCrash

\* A worker has the parameters of a batch, which the server has generated just now.
LEMMA NewBatchKept ==
  ASSUME NEW r, NEW s, NEW c, NEW m, NEW l, Good(r, s, c, m, l),
         NEW w \in Worker, m[w].at = "asking",
         NEW t, t = m[w].task, Knows(r, w, t),
         NEW b \in Batch, b.epoch = c, b.task = t, b.iter = r.iter,
         b.number = r.tasks[t].played,
         r.tasks[t].params # None => r.tasks[t].params.iter = r.iter,
         NEW x, x = [m[w] EXCEPT !.at = "playing", !.batch = b],
         NEW m2, m2 = [m EXCEPT ![w] = x]
  PROVE  Good(r, s, c, m2, l)
<1> DEFINE new == Request(w, "update", x)
<1>1. m \in [Worker -> Main] /\ c \in Nat /\ r.iter \in Nat /\ m[w].played \in Nat
  BY RunParts DEF Good, Typed, Main
<1>2. /\ x \in Main /\ x.at = "playing" /\ x.task = t /\ x.batch = b
      /\ x.played = m[w].played
      /\ new.worker = w /\ new.task = t /\ new.batch = b /\ new.played = m[w].played + 1
  BY <1>1 DEF Main, Request
<1> HIDE DEF new
<1>3. /\ m2 \in [Worker -> Main] /\ m2[w] = x
      /\ \A v \in Worker : v # w => m2[v] = m[v]
      /\ \A q \in Reports(m2, l) : q \in Reports(m, l) \/ q = new
      /\ \A q \in Asks(m2, l) : q \in Asks(m, l)
  <2>1. m[w].at \notin {"playing", "reporting"}
    OBVIOUS
  <2>2. m2 \in [Worker -> Main] /\ m2[w] = x /\ \A v \in Worker : v # w => m2[v] = m[v]
    BY <1>1, <1>2
  <2>3. Differs(m, m2, w, x)
    BY <2>2 DEF Differs
  <2>4. OneNew(m, m2, l, w, x)
    BY <2>3, LoopChange
  <2> QED
    BY <1>2, <2>2, <2>4 DEF OneNew, new
<1>4. \A q \in Reports(m, l) :
        q.batch \in Batch /\ q.played \in Nat /\ ReportKept(q, r, c)
  BY RequestTypes DEF Good, Kept, ReportsKept
<1>5. Typed(r, s, c, m2, l)
  BY <1>2, <1>3 DEF Good, Typed
<1>6. ReportsKept(r, c, m2, l)
  <2>1. ReportKept(new, r, c)
    BY <1>1, <1>2 DEF ReportKept, Batch
  <2> QED
    BY <1>3, <1>4, <2>1 DEF ReportsKept
<1>7. ASSUME NEW q \in Reports(m, l), q.batch = b
      PROVE  q.worker = w /\ q.played = new.played
  <2>1. q.task = t /\ q.worker = w
    BY <1>4, <1>7 DEF ReportKept, Knows
  <2> QED
    BY <1>2, <1>7, <2>1 DEF Good, Kept, PresentCount, Busy
<1>8. SameCount(m2, l)
  BY <1>2, <1>3, <1>7 DEF Good, Kept, SameCount
<1>9. PresentCount(r, c, m2, l)
  <2> SUFFICES ASSUME NEW v \in Worker, NEW q \in Reports(m2, l),
                      Busy(m2, v), q.worker = v, q.task = m2[v].task,
                      q.batch.epoch = c, q.batch.number = r.tasks[q.task].played
               PROVE  q.played = m2[v].played + 1
    BY DEF PresentCount
  <2>1. CASE q = new
    BY <1>2, <1>3, <2>1
  <2>2. CASE q \in Reports(m, l)
    <3>1. Busy(m, v) /\ m2[v].task = m[v].task /\ m2[v].played = m[v].played
      BY <1>2, <1>3 DEF Busy
    <3> QED
      BY <2>2, <3>1 DEF Good, Kept, PresentCount
  <2> QED
    BY <1>3, <2>1, <2>2
<1>10. ASSUME NEW z, CountedOnce(z, r, c, m, l)
       PROVE  CountedOnce(z, r, c, m2, l)
  <2>1. \A i \in DOMAIN z.theta : z.theta[i].batch # new.batch
    BY <1>1, <1>2, <1>10 DEF CountedOnce
  <2> QED
    BY <1>3, <1>10, <2>1 DEF CountedOnce
<1>11. CountedOnce(r, r, c, m2, l) /\ CountedOnce(s, r, c, m2, l)
  BY <1>10 DEF Good, Kept
<1>12. ASSUME c = 0
       PROVE  OwnTask(r, m2, l) /\ AsksSettled(r, m2, l) /\ ParamsKept(r, m2, l)
  <2>1. OwnTask(r, m, l) /\ AsksSettled(r, m, l) /\ ParamsKept(r, m, l)
    BY <1>12 DEF Good, Kept, NoCrash
  <2>2. OwnTask(r, m2, l)
    <3> SUFFICES ASSUME NEW v \in Worker, Busy(m2, v)
                 PROVE  /\ Knows(r, v, m2[v].task)
                        /\ \A q \in Reports(m2, l) :
                            (q.worker = v /\ q.task = m2[v].task) => q.played <= m2[v].played + 1
                        /\ \A q \in l : q.op = "spsa" => ~(q.worker = v /\ q.task = m2[v].task)
      BY DEF OwnTask
    <3>1. Busy(m, v) /\ m2[v].task = m[v].task /\ m2[v].played = m[v].played
      BY <1>2, <1>3 DEF Busy
    <3>2. new.worker = v => new.played <= m2[v].played + 1
      BY <1>1, <1>2, <1>3
    <3>3. /\ Knows(r, v, m[v].task)
          /\ \A q \in Reports(m, l) :
                (q.worker = v /\ q.task = m[v].task) => q.played <= m[v].played + 1
          /\ \A q \in l : q.op = "spsa" => ~(q.worker = v /\ q.task = m[v].task)
      BY <2>1, <3>1 DEF OwnTask
    <3> QED
      BY <1>3, <3>1, <3>2, <3>3
  <2>3. AsksSettled(r, m2, l)
    <3> SUFFICES ASSUME NEW a \in Asks(m2, l)
                 PROVE  /\ Knows(r, a.worker, a.task)
                        /\ \A q \in Reports(m2, l) : (q.worker = a.worker /\ q.task = a.task)
                                => q.played <= r.tasks[q.task].played
      BY DEF AsksSettled
    <3>1. ~(a.worker = w /\ a.task = t)
      <4>1. CASE a \in l /\ a.op = "spsa"
        BY <2>1, <4>1 DEF OwnTask, Busy
      <4>2. ASSUME NEW v \in Worker, m2[v].at \in {"ready", "asking"},
                   a = Request(v, "spsa", m2[v])
            PROVE  ~(a.worker = w /\ a.task = t)
        BY <1>2, <1>3, <4>2 DEF Request
      <4> QED
        BY <4>1, <4>2 DEF Asks
    <3> QED
      BY <1>2, <1>3, <2>1, <3>1 DEF AsksSettled
  <2>4. ParamsKept(r, m2, l)
    BY <1>2, <1>3, <2>1 DEF ParamsKept
  <2> QED
    BY <2>2, <2>3, <2>4
<1> QED
  BY <1>5, <1>6, <1>8, <1>9, <1>11, <1>12 DEF Good, Kept, NoCrash

\* A worker hears that its report was counted, and that the task is alive.
LEMMA NextBatchKept ==
  ASSUME NEW r, NEW s, NEW c, NEW m, NEW l, Good(r, s, c, m, l),
         NEW w \in Worker, m[w].at = "reporting",
         NEW t, t = m[w].task, r.tasks[t].played = m[w].played + 1,
         \A q \in Reports(m, l) : (q.batch.epoch = c /\ q.worker = w /\ q.task = t)
            => q.batch.number # r.tasks[t].played,
         NEW x, x = [m[w] EXCEPT !.at = "ready", !.played = @ + 1, !.batch = None,
                                 !.attempt = 0],
         NEW m2, m2 = [m EXCEPT ![w] = x]
  PROVE  Good(r, s, c, m2, l)
<1>1. m \in [Worker -> Main] /\ c \in Nat /\ m[w] \in Main /\ m[w].played \in Nat
  BY DEF Good, Typed, Main
<1>2. /\ x \in Main /\ x.at = "ready" /\ x.task = t /\ x.played = m[w].played + 1
      /\ Request(w, "spsa", x).worker = w /\ Request(w, "spsa", x).task = t
  <2>1. x = [at |-> "ready", task |-> t, played |-> m[w].played + 1, batch |-> None,
             attempt |-> 0]
    BY <1>1 DEF Main
  <2>2. m[w].played + 1 \in Nat /\ t \in Nat \cup {None}
    BY <1>1 DEF Main
  <2>3. 0 \in 0 .. MaxAttempts
    BY AttemptsAssumption
  <2>4. x \in Main
    BY <2>1, <2>2, <2>3 DEF Main
  <2>5. x.at = "ready" /\ x.task = t /\ x.played = m[w].played + 1
    BY <2>1
  <2>6. Request(w, "spsa", x).worker = w /\ Request(w, "spsa", x).task = x.task
    BY DEF Request
  <2> QED
    BY <2>4, <2>5, <2>6
<1>3. /\ m2 \in [Worker -> Main] /\ m2[w] = x
      /\ \A v \in Worker : v # w => m2[v] = m[v]
      /\ \A q \in Reports(m2, l) : q \in Reports(m, l)
      /\ \A q \in Asks(m2, l) : q \in Asks(m, l) \/ (q.worker = w /\ q.task = t)
  <2>1. x.at \notin {"playing", "reporting"}
    BY <1>2
  <2>2. m2 \in [Worker -> Main] /\ m2[w] = x /\ \A v \in Worker : v # w => m2[v] = m[v]
    BY <1>1, <1>2
  <2>3. Differs(m, m2, w, x)
    BY <2>2 DEF Differs
  <2>4. OneNew(m, m2, l, w, x)
    BY <2>3, LoopChange
  <2> QED
    BY <1>2, <2>1, <2>2, <2>4 DEF OneNew
<1>4. \A q \in Reports(m, l) : q.played \in Nat
  BY RequestTypes DEF Good
<1>5. Typed(r, s, c, m2, l)
  BY <1>2, <1>3 DEF Good, Typed
<1>6. ReportsKept(r, c, m2, l) /\ SameCount(m2, l)
  <2>1. ReportsKept(r, c, m, l) /\ SameCount(m, l)
    BY DEF Good, Kept
  <2>2. ReportsKept(r, c, m2, l)
    BY <1>3, <2>1 DEF ReportsKept
  <2>3. SameCount(m2, l)
    BY <1>3, <2>1 DEF SameCount
  <2> QED
    BY <2>2, <2>3
<1>7. PresentCount(r, c, m2, l)
  <2> SUFFICES ASSUME NEW v \in Worker, NEW q \in Reports(m2, l),
                      Busy(m2, v), q.worker = v, q.task = m2[v].task,
                      q.batch.epoch = c, q.batch.number = r.tasks[q.task].played
               PROVE  q.played = m2[v].played + 1
    BY DEF PresentCount
  <2>1. CASE v = w
    BY <1>2, <1>3, <2>1
  <2>2. CASE v # w
    BY <1>3, <2>2 DEF Good, Kept, PresentCount, Busy
  <2> QED
    BY <2>1, <2>2
<1>8. CountedOnce(r, r, c, m2, l) /\ CountedOnce(s, r, c, m2, l)
  BY <1>3 DEF Good, Kept, CountedOnce
<1>9. ASSUME c = 0
      PROVE  OwnTask(r, m2, l) /\ AsksSettled(r, m2, l) /\ ParamsKept(r, m2, l)
  <2>1. OwnTask(r, m, l) /\ AsksSettled(r, m, l) /\ ParamsKept(r, m, l)
    BY <1>9 DEF Good, Kept, NoCrash
  <2>2. /\ Knows(r, w, t)
        /\ \A q \in Reports(m, l) : (q.worker = w /\ q.task = t) => q.played <= m[w].played + 1
        /\ \A q \in l : q.op = "spsa" => ~(q.worker = w /\ q.task = t)
    BY <2>1 DEF OwnTask, Busy
  <2>3. OwnTask(r, m2, l)
    <3> SUFFICES ASSUME NEW v \in Worker, Busy(m2, v)
                 PROVE  /\ Knows(r, v, m2[v].task)
                        /\ \A q \in Reports(m2, l) :
                            (q.worker = v /\ q.task = m2[v].task) => q.played <= m2[v].played + 1
                        /\ \A q \in l : q.op = "spsa" => ~(q.worker = v /\ q.task = m2[v].task)
      BY DEF OwnTask
    <3>1. CASE v = w
      <4>1. m2[v].task = t /\ m2[v].played = m[w].played + 1
        BY <1>2, <1>3, <3>1
      <4>2. ASSUME NEW q \in Reports(m2, l), q.worker = v, q.task = m2[v].task
            PROVE  q.played <= m2[v].played + 1
        <5>1. q.played <= m[w].played + 1 /\ q.played \in Nat
          BY <1>3, <1>4, <2>2, <3>1, <4>1, <4>2
        <5> QED
          BY <1>1, <4>1, <5>1
      <4> QED
        BY <2>2, <3>1, <4>1, <4>2
    <3>2. CASE v # w
      BY <1>3, <2>1, <3>2 DEF OwnTask, Busy
    <3> QED
      BY <3>1, <3>2
  <2>4. AsksSettled(r, m2, l)
    <3> SUFFICES ASSUME NEW a \in Asks(m2, l)
                 PROVE  /\ Knows(r, a.worker, a.task)
                        /\ \A q \in Reports(m2, l) : (q.worker = a.worker /\ q.task = a.task)
                                => q.played <= r.tasks[q.task].played
      BY DEF AsksSettled
    <3>1. CASE a \in Asks(m, l)
      BY <1>3, <2>1, <3>1 DEF AsksSettled
    <3>2. CASE a.worker = w /\ a.task = t
      <4>1. \A q \in Reports(m2, l) : (q.worker = w /\ q.task = t)
                => q.played <= r.tasks[t].played
        BY <1>3, <2>2
      <4> QED
        BY <2>2, <3>2, <4>1
    <3> QED
      BY <1>3, <3>1, <3>2
  <2>5. ParamsKept(r, m2, l)
    BY <1>3, <2>1 DEF ParamsKept
  <2> QED
    BY <2>3, <2>4, <2>5
<1> QED
  BY <1>5, <1>6, <1>7, <1>8, <1>9 DEF Good, Kept, NoCrash
-----------------------------------------------------------------------------
(* The steps of the specification *)

\* What the invariant knows only the types of.
Aside(c, a, cur, b) ==
    /\ c \in 0 .. MaxCrashes
    /\ a \in [Worker -> BOOLEAN]
    /\ cur \in [Worker -> Nat \cup {None}]
    /\ b \in [Worker -> Beating]

\* The invariant is that the two parts of the state are good, before a step and after it.
LEMMA Parts ==
  /\ Inductive => /\ Good(run, saved, crashes, main, late)
                  /\ Aside(crashes, alive, current, beat)
  /\ (/\ Good(run, saved, crashes, main, late)
      /\ Aside(crashes, alive, current, beat)) => Inductive
<1>1. 0 .. MaxCrashes \subseteq Nat
  BY SizesAssumption
<1> QED
  BY <1>1 DEF Inductive, TypeOK, Good, Typed, Aside

LEMMA PartsLater ==
  ASSUME Good(run', saved', crashes', main', late'),
         Aside(crashes', alive', current', beat')
  PROVE  Inductive'
BY DEF Inductive, TypeOK, Good, Typed, Aside

\* A main loop that goes on by itself, and what it makes of current and alive.
LEMMA LoopStep ==
  ASSUME Inductive, NEW w \in Worker, NEW x, Steps(main, w, x), Goes(w, x),
         UNCHANGED <<server, beat, late>>,
         Clears(w) \/ UNCHANGED current,
         alive' \in {alive, [alive EXCEPT ![w] = FALSE]}
  PROVE  Inductive'
<1>1. Good(run, saved, crashes, main, late) /\ Aside(crashes, alive, current, beat)
  BY Parts
<1>2. Good(run, saved, crashes, [main EXCEPT ![w] = x], late)
  BY <1>1, StepKept
<1>3. Aside(crashes', alive', current', beat')
  BY <1>1 DEF Aside, Clears, server
<1> QED
  BY <1>2, <1>3, PartsLater DEF Goes, server

\* A main loop by itself.
LEMMA MainKept ==
  ASSUME Inductive, NEW w \in Worker, MainStep(w) \/ Break(w) \/ Interrupt(w)
  PROVE  Inductive'
<1>1. main \in [Worker -> Main] /\ main[w] \in Main
  BY DEF Inductive, TypeOK
<1>2. 0 \in 0 .. MaxAttempts /\ 1 \in 0 .. MaxAttempts
  BY AttemptsAssumption
<1>3. ASSUME NEW at \in {"idle", "fetching", "stopped"}
      PROVE  Steps(main, w, [NoTask EXCEPT !.at = at])
  <2>1. [NoTask EXCEPT !.at = at]
            = [at |-> at, task |-> None, played |-> 0, batch |-> None, attempt |-> 0]
    BY DEF NoTask
  <2>2. [NoTask EXCEPT !.at = at] \in Main
    BY <1>2, <2>1 DEF Main
  <2> QED
    BY <2>1, <2>2 DEF Steps
<1>4. Steps(main, w, NoTask)
  <2>1. NoTask \in Main /\ NoTask.at = "idle"
    BY <1>2 DEF NoTask, Main
  <2> QED
    BY <2>1 DEF Steps
<1>5. Steps(main, w, [main[w] EXCEPT !.at = "failing", !.batch = None, !.attempt = 0])
  <2> DEFINE x == [main[w] EXCEPT !.at = "failing", !.batch = None, !.attempt = 0]
  <2>1. x \in Main /\ x.at = "failing"
    BY <1>1, <1>2 DEF Main
  <2> QED
    BY <2>1 DEF Steps
<1>6. CASE Fetch(w)
  BY <1>3, <1>6, LoopStep DEF Fetch
<1>7. CASE Ask(w)
  <2>1. CASE main[w].played < TaskSize
    <3> DEFINE x == [main[w] EXCEPT !.at = "asking"]
    <3>1. /\ x \in Main /\ x.at = "asking" /\ x.task = main[w].task
          /\ x.played = main[w].played
      BY <1>1 DEF Main
    <3>2. main[w].at = "ready"
      BY <1>7 DEF Ask
    <3>3. Steps(main, w, x)
      BY <3>1, <3>2 DEF Steps
    <3> QED
      BY <1>4, <1>7, <3>3, LoopStep DEF Ask, Leaves
  <2>2. CASE ~(main[w].played < TaskSize)
    BY <1>4, <1>7, <2>2, LoopStep DEF Ask, Leaves
  <2> QED
    BY <2>1, <2>2
<1>8. CASE Report(w)
  <2> DEFINE x == [main[w] EXCEPT !.at = "reporting", !.attempt = 1]
  <2>1. /\ x \in Main /\ x.at = "reporting" /\ x.task = main[w].task
        /\ x.played = main[w].played /\ x.batch = main[w].batch
    BY <1>1, <1>2 DEF Main
  <2>2. main[w].at = "playing"
    BY <1>8 DEF Report
  <2>3. Steps(main, w, x)
    BY <2>1, <2>2 DEF Steps
  <2> QED
    BY <1>8, <2>3, LoopStep DEF Report
<1>9. CASE Abandon(w)
  BY <1>4, <1>9, LoopStep DEF Abandon, Leaves
<1>10. CASE Break(w)
  BY <1>5, <1>10, LoopStep DEF Break, Fails
<1>11. CASE Interrupt(w)
  <2>1. CASE Fails(w)
    BY <1>5, <1>11, <2>1, LoopStep DEF Interrupt, Fails
  <2>2. CASE Goes(w, [NoTask EXCEPT !.at = "stopped"]) /\ UNCHANGED current
    BY <1>3, <1>11, <2>2, LoopStep DEF Interrupt
  <2>3. CASE UNCHANGED <<main, current>>
    <3>1. Good(run, saved, crashes, main, late) /\ Aside(crashes, alive, current, beat)
      BY Parts
    <3>2. Aside(crashes', alive', current', beat')
      BY <1>11, <2>3, <3>1 DEF Aside, Interrupt, server
    <3> QED
      BY <1>11, <2>3, <3>1, <3>2, PartsLater DEF Interrupt, server
  <2> QED
    BY <1>11, <2>1, <2>2, <2>3 DEF Interrupt
<1> QED
  BY <1>6, <1>7, <1>8, <1>9, <1>10, <1>11 DEF MainStep

\* What the main loop waits for is one of the requests that the invariant speaks of.
LEMMA AwaitedIs ==
  ASSUME Inductive, NEW w \in Worker, Waits(w)
  PROVE  /\ Awaited(w) \in Requests
         /\ Awaited(w).worker = w /\ Awaited(w).task = main[w].task
         /\ main[w].at \in {"fetching", "asking", "reporting", "failing"}
         /\ main[w].at = "fetching" => Awaited(w).op = "task"
         /\ main[w].at = "asking" => Awaited(w).op = "spsa"
         /\ main[w].at = "reporting" =>
                /\ Awaited(w).op = "update" /\ Awaited(w).played = main[w].played + 1
                /\ Awaited(w).batch = main[w].batch
         /\ main[w].at = "failing" => Awaited(w).op = "failed"
         /\ Awaited(w) = Request(w, Awaited(w).op, main[w])
         /\ Awaited(w).op = "update" => Awaited(w) \in Reports(main, late)
         /\ Awaited(w).op = "spsa" => Awaited(w) \in Asks(main, late)
<1>1. main[w] \in Main /\ main[w].played \in Nat /\ main[w].played + 1 \in Nat
      /\ main[w].task \in Nat \cup {None} /\ main[w].batch \in Batch \cup {None}
      /\ (main[w].at \in {"playing", "reporting"} => main[w].batch \in Batch)
  <2>1. main[w] \in Main
    BY DEF Inductive, TypeOK
  <2>2. main[w].played \in Nat
    BY <2>1 DEF Main
  <2> QED
    BY <2>1, <2>2 DEF Inductive, TypeOK, Main
<1>2. main[w].at \in {"fetching", "asking", "reporting", "failing"}
  BY DEF Waits, OpAt
<1>3. CASE main[w].at = "fetching"
  <2>1. Awaited(w) = Request(w, "task", main[w])
    BY <1>3 DEF Awaited, OpAt
  <2> QED
    BY <1>1, <1>3, <2>1 DEF Request, Requests
<1>4. CASE main[w].at = "asking"
  <2>1. Awaited(w) = Request(w, "spsa", main[w])
    BY <1>4 DEF Awaited, OpAt
  <2> QED
    BY <1>1, <1>4, <2>1 DEF Request, Requests, Asks
<1>5. CASE main[w].at = "reporting"
  <2>1. Awaited(w) = Request(w, "update", main[w])
    BY <1>5 DEF Awaited, OpAt
  <2> QED
    BY <1>1, <1>5, <2>1 DEF Request, Requests, Reports
<1>6. CASE main[w].at = "failing"
  <2>1. Awaited(w) = Request(w, "failed", main[w])
    BY <1>6 DEF Awaited, OpAt
  <2> QED
    BY <1>1, <1>6, <2>1 DEF Request, Requests
<1> QED
  BY <1>2, <1>3, <1>4, <1>5, <1>6

\* What the server makes of the awaited request, before the worker goes on.
LEMMA AwaitedHandled ==
  ASSUME Inductive, NEW w \in Worker, Waits(w), NEW o \in Outcomes(Awaited(w))
  PROVE  Good(o.run, saved, crashes, main, late)
BY Parts, AwaitedIs, HandleKept

\* What becomes of a main loop that fails, fetches again or ends.
LEMMA LoopEnds ==
  ASSUME Inductive, NEW w \in Worker
  PROVE  /\ Steps(main, w, NoTask)
         /\ Steps(main, w, AfterFailing(w))
         /\ Steps(main, w, [main[w] EXCEPT !.at = "failing", !.batch = None, !.attempt = 0])
         /\ [main[w] EXCEPT !.at = "failing", !.batch = None, !.attempt = 0].at = "failing"
<1>1. main[w] \in Main /\ 0 \in 0 .. MaxAttempts
  BY AttemptsAssumption DEF Inductive, TypeOK
<1>2. NoTask \in Main /\ NoTask.at = "idle"
  BY <1>1 DEF NoTask, Main
<1>3. AfterFailing(w) \in Main /\ AfterFailing(w).at \in {"idle", "stopped"}
  <2>1. PICK at \in {"idle", "stopped"} : AfterFailing(w) = [NoTask EXCEPT !.at = at]
    BY DEF AfterFailing
  <2>2. AfterFailing(w)
            = [at |-> at, task |-> None, played |-> 0, batch |-> None, attempt |-> 0]
    BY <2>1 DEF NoTask
  <2> QED
    BY <1>1, <2>2 DEF Main
<1>4. [main[w] EXCEPT !.at = "failing", !.batch = None, !.attempt = 0] \in Main
      /\ [main[w] EXCEPT !.at = "failing", !.batch = None, !.attempt = 0].at = "failing"
  BY <1>1 DEF Main
<1> QED
  BY <1>2, <1>3, <1>4 DEF Steps

\* A request is given up: what becomes of the main loop.
LEMMA GivesUpStep ==
  ASSUME Inductive, NEW w \in Worker, Waits(w), GivesUp(w)
  PROVE  /\ \E x : /\ main' = [main EXCEPT ![w] = x]
                   /\ Steps(main, w, x)
                   /\ LateBy(main, w, x, Awaited(w))
         /\ current' \in [Worker -> Nat \cup {None}]
<1> DEFINE failed == [main[w] EXCEPT !.at = "failing", !.batch = None, !.attempt = 0]
<1>1. Steps(main, w, NoTask) /\ Steps(main, w, AfterFailing(w)) /\ Steps(main, w, failed)
      /\ failed.at = "failing"
  BY LoopEnds
<1>2. current \in [Worker -> Nat \cup {None}]
  BY DEF Inductive, TypeOK
<1> HIDE DEF failed
<1>3. CASE main[w].at = "fetching"
  <2>1. main' = [main EXCEPT ![w] = NoTask] /\ current' = current
    BY <1>3 DEF GivesUp, Goes
  <2>2. LateBy(main, w, NoTask, Awaited(w))
    BY <1>3, AwaitedIs DEF LateBy
  <2> QED
    BY <1>1, <1>2, <2>1, <2>2
<1>4. CASE main[w].at = "asking" \/ (main[w].at = "reporting" /\ main[w].attempt = MaxAttempts)
  <2>1. main' = [main EXCEPT ![w] = failed] /\ current' = [current EXCEPT ![w] = None]
    <3>1. ~(main[w].attempt = MaxAttempts /\ main[w].attempt < MaxAttempts)
      BY AttemptsAssumption
    <3>2. GivesUp(w) => Fails(w)
      BY <1>4, <3>1 DEF GivesUp
    <3> QED
      BY <3>2 DEF Fails, Goes, Clears, failed
  <2>2. LateBy(main, w, failed, Awaited(w))
    BY <1>1, <1>4, AwaitedIs DEF LateBy
  <2> QED
    BY <1>1, <1>2, <2>1, <2>2
<1>5. CASE main[w].at = "reporting" /\ main[w].attempt < MaxAttempts
  <2> DEFINE x == [main[w] EXCEPT !.attempt = @ + 1]
  <2>1. main' = [main EXCEPT ![w] = x] /\ current' = current
    <3>1. ~(main[w].attempt = MaxAttempts)
      BY <1>5, AttemptsAssumption
    <3> QED
      BY <1>5, <3>1 DEF GivesUp, Goes
  <2>2. main[w] \in Main /\ main[w].attempt \in 0 .. MaxAttempts
    BY DEF Inductive, TypeOK, Main
  <2>3. main[w].attempt + 1 \in 0 .. MaxAttempts
    BY <1>5, <2>2, AttemptsAssumption
  <2>4. /\ x \in Main /\ x.at = "reporting" /\ x.task = main[w].task
        /\ x.played = main[w].played /\ x.batch = main[w].batch
    BY <1>5, <2>2, <2>3 DEF Main
  <2> HIDE DEF x
  <2>5. Steps(main, w, x)
    BY <1>5, <2>4 DEF Steps
  <2>6. LateBy(main, w, x, Awaited(w))
    BY <1>5, AwaitedIs DEF LateBy
  <2> QED
    BY <1>2, <2>1, <2>5, <2>6
<1>6. CASE main[w].at = "failing"
  <2>1. main' = [main EXCEPT ![w] = AfterFailing(w)] /\ current' = current
    BY <1>6 DEF GivesUp, Goes
  <2>2. LateBy(main, w, AfterFailing(w), Awaited(w))
    BY <1>6, AwaitedIs DEF LateBy
  <2> QED
    BY <1>1, <1>2, <2>1, <2>2
<1> QED
  BY <1>3, <1>4, <1>5, <1>6, AwaitedIs DEF GivesUp

\* The answer gets lost; or the request is given up, and may come late.
LEMMA LoseKept ==
  ASSUME Inductive, NEW w \in Worker, LoseAnswer(w) \/ GiveUp(w)
  PROVE  Inductive'
<1>1. Waits(w) /\ GivesUp(w)
  BY DEF LoseAnswer, GiveUp
<1>2. PICK x : /\ main' = [main EXCEPT ![w] = x]
               /\ Steps(main, w, x)
               /\ LateBy(main, w, x, Awaited(w))
  BY <1>1, GivesUpStep
<1>3. Good(run, saved, crashes, main, late) /\ Aside(crashes, alive, current, beat)
  BY Parts
<1>4. Aside(crashes', alive', current', beat')
  BY <1>1, <1>3, GivesUpStep DEF Aside, LoseAnswer, GiveUp, Handled, server
<1>5. CASE LoseAnswer(w)
  <2>1. PICK o \in Outcomes(Awaited(w)) : Handled(o)
    BY <1>5 DEF LoseAnswer
  <2>2. Good(o.run, saved, crashes, main, late)
    BY <1>1, AwaitedHandled
  <2>3. Good(o.run, saved, crashes, [main EXCEPT ![w] = x], late)
    BY <1>2, <2>2, StepKept
  <2> QED
    BY <1>2, <1>4, <1>5, <2>1, <2>3, PartsLater DEF LoseAnswer, Handled
<1>6. CASE GiveUp(w)
  <2>1. \A q \in late' : q \in late \/ LateBy(main, w, x, q)
    BY <1>2, <1>6 DEF GiveUp
  <2>2. Good(run, saved, crashes, [main EXCEPT ![w] = x], late')
    BY <1>2, <1>3, <2>1, StepKept
  <2> QED
    BY <1>2, <1>4, <1>6, <2>2, PartsLater DEF GiveUp, server
<1> QED
  BY <1>5, <1>6

\* A request comes late.
LEMMA LateKept ==
  ASSUME Inductive, HandleLate
  PROVE  Inductive'
<1>0. PICK q \in late : (\E o \in Outcomes(q) : Handled(o)) /\ late' = late \ {q}
  BY DEF HandleLate
<1>1. PICK o \in Outcomes(q) : Handled(o)
  BY <1>0
<1>2. Good(run, saved, crashes, main, late) /\ Aside(crashes, alive, current, beat)
  BY Parts
<1>3. /\ q \in Requests
      /\ q.op = "update" => q \in Reports(main, late)
      /\ q.op = "spsa" => q \in Asks(main, late)
  BY <1>2 DEF Good, Typed, Reports, Asks
<1>4. Good(o.run, saved, crashes, main, late)
  BY <1>2, <1>3, HandleKept
<1>5. Good(o.run, saved, crashes, main, late \ {q})
  BY <1>4, HandledKept
<1>6. /\ run' = o.run /\ saved' = saved /\ crashes' = crashes /\ alive' = alive
      /\ beat' = beat /\ current' = current /\ main' = main
  BY <1>1 DEF HandleLate, Handled
<1> QED
  BY <1>0, <1>2, <1>5, <1>6, PartsLater

\* The heartbeat thread: it does not touch the main loop.
LEMMA BeatKept ==
  ASSUME Inductive, NEW w \in Worker,
         Beat(w) \/ AnswerBeat(w) \/ GiveUpBeat(w) \/ ClearCurrent(w)
  PROVE  Inductive'
<1>1. Good(run, saved, crashes, main, late) /\ Aside(crashes, alive, current, beat)
  BY Parts
<1>2. /\ run' = run /\ saved' = saved /\ crashes' = crashes /\ main' = main /\ late' = late
      /\ alive' = alive
  BY DEF Beat, AnswerBeat, GiveUpBeat, ClearCurrent, server
<1>3. current' \in [Worker -> Nat \cup {None}]
  BY <1>1 DEF Aside, Beat, AnswerBeat, GiveUpBeat, ClearCurrent, Clears
<1>4. beat' \in [Worker -> Beating]
  <2>1. beat \in [Worker -> Beating] /\ beat[w] \in Beating /\ current[w] \in Nat \cup {None}
    BY <1>1 DEF Aside
  <2>2. Quiet \in Beating
    BY DEF Quiet, Beating
  <2>3. CASE Beat(w)
    <3>1. [at |-> "waiting", task |-> current[w]] \in Beating
      BY <2>1 DEF Beating
    <3> QED
      BY <2>1, <2>3, <3>1 DEF Beat
  <2>4. CASE AnswerBeat(w)
    <3>1. [beat[w] EXCEPT !.at = "told"] \in Beating
      BY <2>1 DEF Beating
    <3>2. \/ beat' = [beat EXCEPT ![w] = [beat[w] EXCEPT !.at = "told"]]
          \/ beat' = [beat EXCEPT ![w] = Quiet]
      BY <2>4 DEF AnswerBeat
    <3> QED
      BY <2>1, <2>2, <3>1, <3>2
  <2>5. CASE GiveUpBeat(w) \/ ClearCurrent(w)
    BY <2>1, <2>2, <2>5 DEF GiveUpBeat, ClearCurrent
  <2> QED
    BY <2>3, <2>4, <2>5
<1> QED
  BY <1>1, <1>2, <1>3, <1>4, PartsLater DEF Aside

\* The answer comes.
LEMMA AnswerKept ==
  ASSUME Inductive, NEW w \in Worker, Answer(w)
  PROVE  Inductive'
<1> DEFINE m == main[w]
<1> DEFINE a == Awaited(w)
<1> DEFINE t == m.task
<1>1. Waits(w)
  BY DEF Answer
<1>2. PICK o \in Outcomes(a) : Handled(o) /\ Continues(w, o.reply)
  BY DEF Answer
<1>3. /\ Good(run, saved, crashes, main, late) /\ Aside(crashes, alive, current, beat)
      /\ run \in Run /\ crashes \in Nat /\ Len(run.tasks) \in Nat
      /\ DOMAIN run.tasks = 1 .. Len(run.tasks) /\ m \in Main /\ m.played \in Nat
  BY Parts, RunParts DEF Good, Typed, Main
<1>4. Good(o.run, saved, crashes, main, late)
  BY <1>1, AwaitedHandled
<1>5. /\ run' = o.run /\ saved' = saved /\ crashes' = crashes /\ alive' = alive
      /\ beat' = beat /\ late' = late
  BY <1>2 DEF Answer, Handled
<1>6. \A q \in Reports(main, late) : q.batch \in Batch /\ ReportKept(q, run, crashes)
  BY <1>3, RequestTypes DEF Good, Kept, ReportsKept
<1>7. /\ a.worker = w /\ a.task = t
      /\ m.at \in {"fetching", "asking", "reporting", "failing"}
  BY <1>1, AwaitedIs
<1> HIDE DEF a
\* A worker that goes on as if the request had failed, or is told that the task is dead.
<1>8. SUFFICES ASSUME NEW x, Goes(w, x),
                      \/ Steps(main, w, x)
                      \/ Good(o.run, saved, crashes, [main EXCEPT ![w] = x], late),
                      current' \in [Worker -> Nat \cup {None}]
               PROVE  Inductive'
  <2> SUFFICES \E x : /\ Goes(w, x)
                      /\ \/ Steps(main, w, x)
                         \/ Good(o.run, saved, crashes, [main EXCEPT ![w] = x], late)
                      /\ current' \in [Worker -> Nat \cup {None}]
    OBVIOUS
  <2>1. /\ Steps(main, w, NoTask) /\ Steps(main, w, AfterFailing(w))
        /\ Steps(main, w, [m EXCEPT !.at = "failing", !.batch = None, !.attempt = 0])
    BY LoopEnds
  <2>2. current \in [Worker -> Nat \cup {None}]
    BY <1>3 DEF Aside
  <2>3. CASE /\ m.at = "fetching" /\ o.reply.is = "task"
             /\ current' = [current EXCEPT ![w] = o.reply.task]
             /\ Goes(w, [NoTask EXCEPT !.at = "ready", !.task = o.reply.task])
    <3>1. o \in OnTask(w)
      BY <1>1, <1>2, <1>7, <2>3, AwaitedIs DEF Outcomes, a
    <3>2. /\ o.reply.task = Len(run.tasks) + 1
          /\ Knows(o.run, w, o.reply.task)
      BY <1>3, <2>3, <3>1, TaskOutcome
    <3>3. o.reply.task \in Nat /\ o.reply.task \notin DOMAIN run.tasks
      BY <1>3, <3>2
    <3>4. \A q \in Reports(main, late) : q.batch.epoch = crashes => q.task # o.reply.task
      BY <1>6, <3>3 DEF ReportKept, Knows
    <3>5. crashes = 0 => \A q \in Asks(main, late) : q.task # o.reply.task
      BY <1>3, <3>3 DEF Good, Kept, NoCrash, AsksSettled, Knows
    <3> DEFINE x == [NoTask EXCEPT !.at = "ready", !.task = o.reply.task]
    <3> DEFINE m2 == [main EXCEPT ![w] = x]
    <3>6. Good(o.run, saved, crashes, m2, late)
      <4>1. x = [NoTask EXCEPT !.at = "ready", !.task = o.reply.task] /\ m2 = [main EXCEPT ![w] = x]
        OBVIOUS
      <4> HIDE DEF x, m2
      <4> QED
        BY <1>4, <2>3, <3>2, <3>3, <3>4, <3>5, <4>1, NewTaskKept
    <3> QED
      BY <2>2, <2>3, <3>3, <3>6
  <2>4. CASE /\ m.at = "asking" /\ o.reply.is = "params"
             /\ Goes(w, [m EXCEPT !.at = "playing", !.batch = o.reply.batch])
             /\ UNCHANGED current
    <3>1. a.op = "spsa"
      BY <1>1, <2>4, AwaitedIs DEF a
    <3>2. Valid(w, t)
      BY <1>2, <1>7, <2>4, <3>1 DEF Outcomes, Outcome, Told
    <3>3. o \in OnSpsa(t) /\ t \in DOMAIN run.tasks /\ run.tasks[t].owner = w
      BY <1>2, <1>7, <3>1, <3>2 DEF Outcomes, Valid
    <3>4. /\ o.reply.batch \in Batch
          /\ o.reply.batch.epoch = crashes /\ o.reply.batch.task = t
          /\ o.reply.batch.number = run.tasks[t].played
          /\ o.reply.batch.iter = run.iter
          /\ \E p \in Params :
                /\ p.iter = run.iter
                /\ o.run = WithTask(run, t, [run.tasks[t] EXCEPT !.params = p])
      BY <1>3, <2>4, <3>3, SpsaOutcome
    <3>5. /\ Knows(o.run, w, t) /\ o.run.iter = run.iter
          /\ o.run.tasks[t].played = run.tasks[t].played
          /\ o.run.tasks[t].params.iter = run.iter
      <4>1. PICK p \in Params :
                /\ p.iter = run.iter
                /\ o.run = WithTask(run, t, [run.tasks[t] EXCEPT !.params = p])
        BY <3>4
      <4>2. run.tasks[t] \in Task
        BY <1>3, <3>3, RunParts
      <4>3. /\ DOMAIN o.run.tasks = DOMAIN run.tasks /\ o.run.iter = run.iter
            /\ o.run.tasks[t] = [run.tasks[t] EXCEPT !.params = p]
        BY <1>3, <3>3, <4>1 DEF WithTask, Run
      <4> QED
        BY <3>3, <4>1, <4>2, <4>3 DEF Knows, Task
    <3> DEFINE x == [m EXCEPT !.at = "playing", !.batch = o.reply.batch]
    <3> DEFINE m2 == [main EXCEPT ![w] = x]
    <3>6. Good(o.run, saved, crashes, m2, late)
      <4>1. /\ x = [main[w] EXCEPT !.at = "playing", !.batch = o.reply.batch]
            /\ m2 = [main EXCEPT ![w] = x]
        OBVIOUS
      <4> HIDE DEF x, m2
      <4> QED
        BY <1>4, <2>4, <3>4, <3>5, <4>1, NewBatchKept
    <3> QED
      BY <2>2, <2>4, <3>6
  <2>5. CASE /\ m.at = "reporting" /\ o.reply.is = "alive"
             /\ Goes(w, [m EXCEPT !.at = "ready", !.played = @ + 1, !.batch = None,
                                  !.attempt = 0])
             /\ UNCHANGED current
    <3>1. /\ a.op = "update" /\ a.played = m.played + 1
          /\ a \in Reports(main, late)
      BY <1>1, <2>5, AwaitedIs DEF a
    <3>2. Valid(w, t)
      BY <1>2, <1>7, <2>5, <3>1 DEF Outcomes, Outcome, Told
    <3>3. /\ o \in OnUpdate(a.task, a.played, a.batch)
          /\ Knows(run, a.worker, a.task)
      BY <1>2, <1>7, <3>1, <3>2 DEF Outcomes, Valid, Knows
    <3>4. /\ a.played > run.tasks[t].played /\ o.run.tasks[t].played = a.played
      BY <1>3, <1>7, <2>5, <3>1, <3>3, UpdateKept
    <3>5. run.tasks[t].played \in Nat
      BY <1>3, <1>7, <3>3, RunParts DEF Knows, Task
    <3>6. \A q \in Reports(main, late) :
            (q.batch.epoch = crashes /\ q.worker = w /\ q.task = t)
                => q.batch.number # o.run.tasks[t].played
      <4> SUFFICES ASSUME NEW q \in Reports(main, late),
                          q.batch.epoch = crashes, q.worker = w, q.task = t
                   PROVE  q.batch.number # o.run.tasks[t].played
        OBVIOUS
      <4>1. q.batch.number <= run.tasks[t].played /\ q.batch.number \in Nat
        BY <1>6 DEF ReportKept, Batch
      <4> QED
        BY <1>3, <3>1, <3>4, <3>5, <4>1
    <3> DEFINE x == [m EXCEPT !.at = "ready", !.played = @ + 1, !.batch = None,
                              !.attempt = 0]
    <3> DEFINE m2 == [main EXCEPT ![w] = x]
    <3>7. Good(o.run, saved, crashes, m2, late)
      <4>1. /\ x = [main[w] EXCEPT !.at = "ready", !.played = @ + 1, !.batch = None,
                                   !.attempt = 0]
            /\ m2 = [main EXCEPT ![w] = x]
        OBVIOUS
      <4> HIDE DEF x, m2
      <4> QED
        BY <1>4, <2>5, <3>1, <3>4, <3>6, <4>1, NextBatchKept
    <3> QED
      BY <2>2, <2>5, <3>7
  <2>6. CASE Leaves(w) \/ Fails(w)
    BY <2>1, <2>2, <2>6 DEF Leaves, Fails, Clears
  <2>7. CASE (Goes(w, NoTask) \/ Goes(w, AfterFailing(w))) /\ UNCHANGED current
    BY <2>1, <2>2, <2>7
  <2> QED
    BY <1>2, <2>3, <2>4, <2>5, <2>6, <2>7 DEF Continues
<1>9. Good(o.run, saved, crashes, [main EXCEPT ![w] = x], late)
  BY <1>4, <1>8, StepKept
<1>10. Aside(crashes', alive', current', beat')
  BY <1>3, <1>5, <1>8 DEF Aside
<1> QED
  BY <1>5, <1>8, <1>9, <1>10, PartsLater DEF Goes

\* What the server does by itself.
LEMMA ServerKept ==
  ASSUME Inductive, ServerStep
  PROVE  Inductive'
<1>1. /\ Good(run, saved, crashes, main, late) /\ Aside(crashes, alive, current, beat)
      /\ run \in Run /\ saved \in Run
  BY Parts DEF Good, Typed
<1>2. /\ alive' = alive /\ beat' = beat /\ current' = current /\ main' = main
      /\ late' = late
  BY DEF ServerStep, worker
<1>3. SUFFICES Good(run', saved', crashes', main, late) /\ crashes' \in 0 .. MaxCrashes
  BY <1>1, <1>2, PartsLater DEF Aside
<1>4. CASE Scavenge
  <2>1. PICK t \in DOMAIN run.tasks : run' = WithTask(run, t, Inactive(run.tasks[t]))
    BY <1>4 DEF Scavenge
  <2>2. run' \in Run /\ Calm(run, run')
    BY <1>1, <2>1, InactiveCalm
  <2> QED
    BY <1>1, <1>4, <2>2, CalmKept DEF Scavenge, Aside
<1>5. CASE Stop
  <2>1. run' \in Run /\ Calm(run, run')
    BY <1>1, <1>5, StoppedCalm DEF Stop
  <2> QED
    BY <1>1, <1>5, <2>1, CalmKept DEF Stop, Aside
<1>6. CASE Save
  <2>1. Good(run, run, crashes, main, late)
    BY <1>1 DEF Good, Typed, Kept
  <2> QED
    BY <1>1, <1>6, <2>1 DEF Save, Aside
<1>7. CASE Crash
  <2>1. crashes \in Nat /\ crashes + 1 \in 0 .. MaxCrashes /\ crashes + 1 # 0
    BY <1>1, <1>7, SizesAssumption DEF Crash, Aside
  <2>2. /\ Kept(run, saved, crashes, main, late)
        /\ \A q \in Reports(main, late) : q.batch \in Batch
    BY <1>1, RequestTypes DEF Good
  <2>3. Typed(saved, saved, crashes + 1, main, late)
    BY <1>1, <2>1 DEF Good, Typed
  <2>4. \A q \in Reports(main, late) :
            /\ q.batch.task = q.task
            /\ q.batch.epoch <= crashes + 1 /\ q.batch.epoch # crashes + 1
    BY <2>1, <2>2 DEF Kept, ReportsKept, ReportKept, Batch
  <2>5. ReportsKept(saved, crashes + 1, main, late)
    BY <2>4 DEF ReportsKept, ReportKept
  <2>6. PresentCount(saved, crashes + 1, main, late)
    BY <2>4 DEF PresentCount
  <2>7. CountedOnce(saved, saved, crashes + 1, main, late)
    <3>1. \A i \in DOMAIN saved.theta : saved.theta[i].batch.epoch \in Nat
      BY <1>1, RunParts DEF Step, Batch
    <3> QED
      BY <2>1, <2>2, <3>1 DEF Kept, CountedOnce
  <2>8. Good(saved, saved, crashes + 1, main, late)
    BY <2>1, <2>2, <2>3, <2>5, <2>6, <2>7 DEF Good, Kept, NoCrash
  <2> QED
    BY <1>7, <2>1, <2>8 DEF Crash
<1> QED
  BY <1>4, <1>5, <1>6, <1>7 DEF ServerStep

\* At the start nothing was asked for and nothing counted.
LEMMA InitKept == Init => Inductive
<1> SUFFICES ASSUME Init  PROVE Inductive
  OBVIOUS
<1>1. /\ run = [tasks |-> <<>>, iter |-> 0, theta |-> <<>>, finished |-> FALSE]
      /\ saved = run /\ crashes = 0 /\ late = {}
      /\ current = [w \in Worker |-> None] /\ alive = [w \in Worker |-> TRUE]
      /\ main = [w \in Worker |-> NoTask] /\ beat = [w \in Worker |-> Quiet]
  BY DEF Init, InitServer
<1>2. run \in Run
  <2>1. <<>> \in Seq(Task) /\ <<>> \in Seq(Step)
    BY EmptySeq
  <2> QED
    BY <1>1, <2>1 DEF Run
<1>3. DOMAIN run.theta = {}
  BY <1>1, EmptySeq
<1>4. NoTask \in Main /\ NoTask.at = "idle" /\ Quiet \in Beating
  <2>1. 0 \in 0 .. MaxAttempts
    BY AttemptsAssumption
  <2> QED
    BY <2>1 DEF NoTask, Main, Quiet, Beating
<1>5. Typed(run, saved, crashes, main, late)
  BY <1>1, <1>2, <1>4 DEF Typed
<1>6. Reports(main, late) = {} /\ Asks(main, late) = {} /\ \A w \in Worker : ~Busy(main, w)
  BY <1>1, <1>4 DEF Reports, Asks, Busy
<1>7. Kept(run, saved, crashes, main, late)
  BY <1>1, <1>3, <1>6 DEF Kept, ReportsKept, SameCount, PresentCount, CountedOnce, NoCrash,
        OwnTask, AsksSettled, ParamsKept, StepsSound
<1>8. Aside(crashes, alive, current, beat)
  BY <1>1, <1>4, SizesAssumption DEF Aside
<1> QED
  BY <1>5, <1>7, <1>8, Parts DEF Good

\* Inductive is an invariant of the server and its workers.
THEOREM InductiveHolds == Spec => []Inductive
<1>1. Init => Inductive
  BY InitKept
<1>2. Inductive /\ [Next]_vars => Inductive'
  <2> SUFFICES ASSUME Inductive, [Next]_vars  PROVE Inductive'
    OBVIOUS
  <2>1. CASE UNCHANGED vars
    <3>1. Good(run, saved, crashes, main, late) /\ Aside(crashes, alive, current, beat)
      BY Parts
    <3>2. /\ run' = run /\ saved' = saved /\ crashes' = crashes /\ main' = main
          /\ late' = late /\ alive' = alive /\ current' = current /\ beat' = beat
      BY <2>1 DEF vars, server, worker
    <3> QED
      BY <3>1, <3>2, PartsLater
  <2>2. ASSUME NEW w \in Worker, MainStep(w) \/ Break(w) \/ Interrupt(w)
        PROVE  Inductive'
    BY <2>2, MainKept
  <2>3. ASSUME NEW w \in Worker, Answer(w)  PROVE Inductive'
    BY <2>3, AnswerKept
  <2>4. ASSUME NEW w \in Worker, LoseAnswer(w) \/ GiveUp(w)  PROVE Inductive'
    BY <2>4, LoseKept
  <2>5. ASSUME NEW w \in Worker,
               Beat(w) \/ AnswerBeat(w) \/ GiveUpBeat(w) \/ ClearCurrent(w)
        PROVE  Inductive'
    BY <2>5, BeatKept
  <2>6. CASE HandleLate
    BY <2>6, LateKept
  <2>7. CASE ServerStep
    BY <2>7, ServerKept
  <2> QED
    BY <2>1, <2>2, <2>3, <2>4, <2>5, <2>6, <2>7 DEF Next
<1> QED
  BY <1>1, <1>2, PTL DEF Spec

\* Every step of the parameters counts a batch that no other step counts, with the flips
\* that it was played with, and, without a crash, with its iter.
THEOREM PerturbationRight == Spec => []RightPerturbation
<1>1. Inductive => RightPerturbation
  BY DEF Inductive, Kept, RightPerturbation
<1> QED
  BY <1>1, InductiveHolds, PTL
-----------------------------------------------------------------------------
(***************************************************************************)
(* The tune that is seen through tasks and requests.  A lemma per helper   *)
(* of the server says what it does to the games, the parameters and the    *)
(* end of the tune; a request then counts a report, or stops the tune, or  *)
(* does neither.                                                           *)
(***************************************************************************)

\* The tasks are finitely many.
LEMMA TasksFinite ==
  ASSUME NEW r \in Run
  PROVE  IsFiniteSet(DOMAIN r.tasks) /\ \A t \in DOMAIN r.tasks : r.tasks[t].played \in Nat
BY RunParts, FS_Interval DEF Task

\* The number of games is a number.
LEMMA PlayedNat ==
  ASSUME NEW r \in Run
  PROVE  Played(r) \in Nat
<1> DEFINE f == [t \in DOMAIN r.tasks |-> r.tasks[t].played]
<1> DEFINE S == DOMAIN r.tasks
<1>1. IsFiniteSet(S)
  BY TasksFinite
<1>2. NatValued(f, S)
  BY TasksFinite DEF NatValued
<1>3. Played(r) = SumOver(f, S)
  BY DEF Played
<1> HIDE DEF f, S
<1> QED
  BY <1>1, <1>2, <1>3, UnitsFinite

\* It depends on the counts of the tasks alone; ...
LEMMA PlayedSame ==
  ASSUME NEW r, NEW z, DOMAIN z.tasks = DOMAIN r.tasks,
         \A t \in DOMAIN r.tasks : z.tasks[t].played = r.tasks[t].played
  PROVE  Played(z) = Played(r)
BY SumCongruence DEF Played

\* ... grows with one of them; ...
LEMMA PlayedOne ==
  ASSUME NEW r \in Run, NEW z \in Run, NEW t \in DOMAIN r.tasks,
         DOMAIN z.tasks = DOMAIN r.tasks,
         \A u \in DOMAIN r.tasks \ {t} : z.tasks[u].played = r.tasks[u].played
  PROVE  Played(z) = Played(r) - r.tasks[t].played + z.tasks[t].played
<1> DEFINE f == [u \in DOMAIN r.tasks |-> r.tasks[u].played]
<1> DEFINE g == [u \in DOMAIN r.tasks |-> z.tasks[u].played]
<1> DEFINE S == DOMAIN r.tasks
<1>1. IsFiniteSet(S)
  BY TasksFinite
<1>2. NatValued(f, S) /\ NatValued(g, S)
  BY RunParts DEF NatValued, Task
<1>3. Played(r) = SumOver(f, S) /\ Played(z) = SumOver(g, S)
  BY DEF Played
<1>4. /\ t \in S /\ f[t] = r.tasks[t].played /\ g[t] = z.tasks[t].played
      /\ \A u \in S \ {t} : f[u] = g[u]
  OBVIOUS
<1> HIDE DEF f, g, S
<1>5. SumOver(g, S) = SumOver(f, S) - f[t] + g[t]
  BY <1>1, <1>2, <1>4, SumChangeOne
<1> QED
  BY <1>3, <1>4, <1>5

\* ... and a new task has played nothing.
LEMMA PlayedNew ==
  ASSUME NEW r \in Run, NEW z \in Run, NEW n, n \notin DOMAIN r.tasks,
         DOMAIN z.tasks = DOMAIN r.tasks \cup {n}, z.tasks[n].played = 0,
         \A t \in DOMAIN r.tasks : z.tasks[t].played = r.tasks[t].played
  PROVE  Played(z) = Played(r)
<1> DEFINE f == [t \in DOMAIN r.tasks |-> r.tasks[t].played]
<1> DEFINE g == [t \in DOMAIN z.tasks |-> z.tasks[t].played]
<1> DEFINE S == DOMAIN r.tasks
<1>1. IsFiniteSet(S)
  BY TasksFinite
<1>2. NatValued(f, S)
  BY TasksFinite DEF NatValued
<1>3. Played(r) = SumOver(f, S) /\ Played(z) = SumOver(g, S \cup {n}) /\ SumOver(f, S) \in Nat
  BY <1>1, <1>2, UnitsFinite DEF Played
<1>4. n \notin S /\ \A t \in S : f[t] = g[t]
  OBVIOUS
<1>5. g[n] = 0
  OBVIOUS
<1> HIDE DEF f, g, S
<1>6. g[n] \in Nat
  BY <1>5
<1>7. SumOver(g, S \cup {n}) = SumOver(f, S) + g[n]
  BY <1>1, <1>2, <1>4, <1>6, SumAddOne
<1> QED
  BY <1>3, <1>5, <1>7

\* What a request makes of the tune: neither games nor parameters change, ...
Idles(r, z) == /\ z.theta = r.theta /\ Played(z) = Played(r)
               /\ z.finished = r.finished \/ (~r.finished /\ z.finished)
\* ... or a report is counted, and perhaps moves the parameters.
Counts(r, z, c) ==
    /\ ~r.finished
    /\ Played(z) > Played(r)
    /\ \/ z.theta = r.theta
       \/ \E step \in Step :
            /\ z.theta = Append(r.theta, step)
            /\ step.epoch = c /\ step.flips = step.batch.flips
            /\ step.iter \in 0 .. Len(r.theta)
    /\ z.finished = (Played(z) >= NumBatches)

\* A task goes on: it stays as it is, or ends, or has new parameters.
LEMMA WithTaskOrder ==
  ASSUME NEW r \in Run, InOrder(r), NEW t \in DOMAIN r.tasks, NEW x \in Task,
         x.active => r.tasks[t].active,
         x.params = None \/ x.params.iter <= r.iter
  PROVE  /\ InOrder(WithTask(r, t, x))
         /\ WithTask(r, t, x) \in Run
         /\ WithTask(r, t, x).theta = r.theta /\ WithTask(r, t, x).iter = r.iter
         /\ WithTask(r, t, x).finished = r.finished
         /\ DOMAIN WithTask(r, t, x).tasks = DOMAIN r.tasks
         /\ WithTask(r, t, x).tasks[t] = x
         /\ Played(WithTask(r, t, x)) = Played(r) - r.tasks[t].played + x.played
<1> DEFINE z == WithTask(r, t, x)
<1>1. /\ r.tasks \in Seq(Task) /\ t \in 1 .. Len(r.tasks) /\ DOMAIN r.tasks = 1 .. Len(r.tasks)
  BY RunParts
<1>2. /\ z.tasks = [r.tasks EXCEPT ![t] = x] /\ z.iter = r.iter /\ z.theta = r.theta
      /\ z.finished = r.finished
      /\ z = [r EXCEPT !.tasks = z.tasks]
  BY DEF WithTask, Run
<1>3. z.tasks \in Seq(Task)
  BY <1>1, <1>2, ExceptSeq
<1>4. z \in Run
  BY <1>2, <1>3 DEF Run
<1>5. /\ DOMAIN z.tasks = DOMAIN r.tasks /\ z.tasks[t] = x
      /\ \A i \in DOMAIN r.tasks : i # t => z.tasks[i] = r.tasks[i]
  BY <1>1, <1>2
<1> HIDE DEF z
<1>6. InOrder(z)
  BY <1>2, <1>5 DEF InOrder
<1>7. Played(z) = Played(r) - r.tasks[t].played + x.played
  BY <1>4, <1>5, PlayedOne
<1> QED
  BY <1>2, <1>4, <1>5, <1>6, <1>7 DEF z

\* A task ends.
LEMMA InactiveOrder ==
  ASSUME NEW r \in Run, InOrder(r), NEW t \in DOMAIN r.tasks
  PROVE  /\ InOrder(WithTask(r, t, Inactive(r.tasks[t])))
         /\ WithTask(r, t, Inactive(r.tasks[t])) \in Run
         /\ WithTask(r, t, Inactive(r.tasks[t])).theta = r.theta
         /\ WithTask(r, t, Inactive(r.tasks[t])).finished = r.finished
         /\ Played(WithTask(r, t, Inactive(r.tasks[t]))) = Played(r)
<1> DEFINE x == Inactive(r.tasks[t])
<1>1. r.tasks[t] \in Task /\ r.tasks[t].played \in Nat /\ Played(r) \in Nat
  BY RunParts, PlayedNat DEF Task
<1>2. x \in Task /\ ~x.active /\ x.params = None /\ x.played = r.tasks[t].played
  BY <1>1, InactiveTask
<1> HIDE DEF x
<1>3. /\ InOrder(WithTask(r, t, x)) /\ WithTask(r, t, x) \in Run
      /\ WithTask(r, t, x).theta = r.theta /\ WithTask(r, t, x).finished = r.finished
      /\ Played(WithTask(r, t, x)) = Played(r) - r.tasks[t].played + x.played
  BY <1>2, WithTaskOrder
<1> QED
  BY <1>1, <1>2, <1>3 DEF x

\* All tasks end, and the tune with them.
LEMMA StoppedOrder ==
  ASSUME NEW r \in Run, InOrder(r)
  PROVE  /\ InOrder(Stopped(r)) /\ Stopped(r) \in Run
         /\ Stopped(r).theta = r.theta /\ Stopped(r).finished
         /\ Played(Stopped(r)) = Played(r)
<1> DEFINE tasks == [t \in DOMAIN r.tasks |->
                        IF r.tasks[t].active THEN Inactive(r.tasks[t]) ELSE r.tasks[t]]
<1>1. /\ Stopped(r).tasks = tasks /\ Stopped(r).iter = r.iter /\ Stopped(r).theta = r.theta
      /\ Stopped(r).finished
  BY DEF Stopped, Run
<1>2. DOMAIN Stopped(r).tasks = DOMAIN r.tasks
  BY <1>1
<1>3. /\ Stopped(r) \in Run
      /\ \A t \in DOMAIN r.tasks :
            /\ ~Stopped(r).tasks[t].active
            /\ Stopped(r).tasks[t].played = r.tasks[t].played
            /\ Stopped(r).tasks[t].params \in {None, r.tasks[t].params}
  BY StoppedCalm DEF Calm
<1> HIDE DEF tasks
<1>4. Played(Stopped(r)) = Played(r)
  BY <1>2, <1>3, PlayedSame
<1>5. InOrder(Stopped(r))
  BY <1>1, <1>2, <1>3 DEF InOrder
<1> QED
  BY <1>1, <1>3, <1>4, <1>5

\* A new task, or none.
LEMMA TaskTuned ==
  ASSUME run \in Run, InOrder(run), NEW w \in Worker, NEW o \in OnTask(w)
  PROVE  InOrder(o.run) /\ Idles(run, o.run)
<1>1. CASE ~NeedsWorkers
  <2>1. o.run = run
    BY <1>1 DEF OnTask, Outcome
  <2> QED
    BY <2>1 DEF Idles
<1>2. CASE NeedsWorkers
  <2> DEFINE n == Len(run.tasks)
  <2> DEFINE U == {t \in DOMAIN run.tasks : run.tasks[t].owner = w /\ Alive(t)}
  <2> DEFINE others == [t \in DOMAIN run.tasks |->
                            IF run.tasks[t].owner = w /\ Alive(t)
                            THEN Inactive(run.tasks[t]) ELSE run.tasks[t]]
  <2> DEFINE new == [owner |-> w, active |-> TRUE, played |-> 0, params |-> None]
  <2>1. o.run = [run EXCEPT !.tasks = Append(others, new)]
    BY <1>2 DEF OnTask, Outcome
  <2>2. others = [t \in DOMAIN run.tasks |->
                    IF t \in U THEN Inactive(run.tasks[t]) ELSE run.tasks[t]]
    OBVIOUS
  <2>3. U \in SUBSET DOMAIN run.tasks
    OBVIOUS
  <2> HIDE DEF others, U
  <2>4. /\ others \in Seq(Task) /\ Len(others) = n
        /\ \A t \in DOMAIN run.tasks :
            /\ others[t].played = run.tasks[t].played
            /\ others[t].params \in {None, run.tasks[t].params}
    BY <2>2, <2>3, SomeInactive
  <2>5. n \in Nat /\ DOMAIN run.tasks = 1 .. n
    BY RunParts
  <2>6. new \in Task /\ new.played = 0 /\ new.params = None
    BY DEF Task
  <2> HIDE DEF new
  <2>7. /\ Append(others, new) \in Seq(Task)
        /\ DOMAIN Append(others, new) = 1 .. n + 1
        /\ \A t \in 1 .. n : Append(others, new)[t] = others[t]
        /\ Append(others, new)[n + 1] = new
    BY <2>4, <2>5, <2>6, AppendProperties, LenProperties
  <2>8. /\ o.run \in Run /\ o.run.tasks = Append(others, new) /\ o.run.iter = run.iter
        /\ o.run.theta = run.theta /\ o.run.finished = run.finished
    BY <2>1, <2>7 DEF Run
  <2>9. /\ n + 1 \notin DOMAIN run.tasks
        /\ DOMAIN o.run.tasks = DOMAIN run.tasks \cup {n + 1}
        /\ o.run.tasks[n + 1].played = 0
        /\ \A t \in DOMAIN run.tasks : o.run.tasks[t].played = run.tasks[t].played
    BY <2>4, <2>5, <2>6, <2>7, <2>8
  <2>10. Played(o.run) = Played(run)
    BY <2>8, <2>9, PlayedNew
  <2>11. ASSUME NEW t \in DOMAIN o.run.tasks, o.run.tasks[t].params # None
         PROVE  o.run.tasks[t].params.iter <= o.run.iter
    <3>1. t \in DOMAIN run.tasks /\ run.tasks[t].params # None
          /\ o.run.tasks[t].params = run.tasks[t].params
      BY <2>4, <2>5, <2>6, <2>7, <2>8, <2>9, <2>11
    <3> QED
      BY <2>8, <3>1 DEF InOrder
  <2>12. ~run.finished
    BY <1>2 DEF NeedsWorkers
  <2> QED
    BY <2>8, <2>10, <2>11, <2>12 DEF InOrder, Idles
<1> QED
  BY <1>1, <1>2

\* New parameters for a task.
LEMMA SpsaTuned ==
  ASSUME run \in Run, InOrder(run), crashes \in Nat, NEW t \in DOMAIN run.tasks,
         NEW o \in OnSpsa(t)
  PROVE  InOrder(o.run) /\ Idles(run, o.run)
<1>1. CASE o.run = run
  BY <1>1 DEF Idles
<1>2. ASSUME NEW p \in Params, p.iter = run.iter,
             o.run = WithTask(run, t, [run.tasks[t] EXCEPT !.params = p])
      PROVE  InOrder(o.run) /\ Idles(run, o.run)
  <2> DEFINE x == [run.tasks[t] EXCEPT !.params = p]
  <2>1. run.tasks[t] \in Task /\ run.iter \in Nat /\ Played(run) \in Nat
        /\ run.tasks[t].played \in Nat
    BY RunParts, PlayedNat DEF Task
  <2>2. /\ x \in Task /\ x.active = run.tasks[t].active /\ x.params.iter <= run.iter
        /\ x.played = run.tasks[t].played
    BY <1>2, <2>1 DEF Task
  <2>3. o.run = WithTask(run, t, x)
    BY <1>2
  <2> HIDE DEF x
  <2>4. /\ InOrder(o.run) /\ o.run.theta = run.theta /\ o.run.finished = run.finished
        /\ Played(o.run) = Played(run) - run.tasks[t].played + x.played
    BY <2>2, <2>3, WithTaskOrder
  <2> QED
    BY <2>1, <2>2, <2>4 DEF Idles
<1> QED
  BY <1>1, <1>2, SpsaOutcome

\* The end of a task, or of the tune.
LEMMA FailedTuned ==
  ASSUME run \in Run, InOrder(run), NEW t \in DOMAIN run.tasks, NEW o \in OnFailed(t)
  PROVE  InOrder(o.run) /\ Idles(run, o.run)
<1>1. o.run \in {IF Alive(t) THEN WithTask(run, t, Inactive(run.tasks[t])) ELSE run,
                 Stopped(run)}
  BY DEF OnFailed, Outcome
<1>2. CASE o.run = run
  BY <1>2 DEF Idles
<1>3. CASE o.run = WithTask(run, t, Inactive(run.tasks[t]))
  BY <1>3, InactiveOrder DEF Idles
<1>4. CASE o.run = Stopped(run)
  <2>1. run.finished \in BOOLEAN
    BY RunParts
  <2> QED
    BY <1>4, <2>1, StoppedOrder DEF Idles
<1> QED
  BY <1>1, <1>2, <1>3, <1>4

\* A report that is counted: what becomes of the parameters.
LEMMA UpdatedOrder ==
  ASSUME NEW r \in Run, InOrder(r), NEW t \in DOMAIN r.tasks, NEW b \in Batch, crashes \in Nat,
         NEW z, z = SpsaUpdated(r, t, b)
  PROVE  /\ InOrder(z) /\ z \in Run /\ t \in DOMAIN z.tasks
         /\ z.finished = r.finished /\ Played(z) = Played(r)
         /\ \/ z.theta = r.theta
            \/ \E step \in Step :
                /\ z.theta = Append(r.theta, step)
                /\ step.epoch = crashes /\ step.flips = step.batch.flips
                /\ step.iter \in 0 .. Len(r.theta)
<1> DEFINE params == r.tasks[t].params
<1> DEFINE y == [r.tasks[t] EXCEPT !.params = None]
<1> DEFINE used == WithTask(r, t, y)
<1>1. /\ r.tasks[t] \in Task /\ r.tasks[t].played \in Nat /\ Played(r) \in Nat
      /\ r.iter \in Nat /\ r.iter = Len(r.theta)
  BY RunParts, PlayedNat DEF Task, InOrder
<1>2. CASE params = None
  <2>1. z = r
    BY <1>2 DEF SpsaUpdated
  <2> QED
    BY <2>1
<1>3. CASE params # None
  <2>1. y \in Task /\ y.active = r.tasks[t].active /\ y.params = None
        /\ y.played = r.tasks[t].played
    BY <1>1 DEF Task
  <2> HIDE DEF y
  <2>2. /\ used \in Run /\ InOrder(used) /\ used.theta = r.theta /\ used.iter = r.iter
        /\ used.finished = r.finished /\ DOMAIN used.tasks = DOMAIN r.tasks
        /\ Played(used) = Played(r) - r.tasks[t].played + y.played
    BY <2>1, WithTaskOrder
  <2>3. Played(used) = Played(r)
    BY <1>1, <2>1, <2>2
  <2> HIDE DEF used
  <2>4. CASE ~SignatureFits(params, b)
    <3>1. z = used
      BY <1>3, <2>4 DEF SpsaUpdated, used, y
    <3> QED
      BY <2>2, <2>3, <3>1
  <2>5. CASE SignatureFits(params, b)
    <3> DEFINE step == [batch |-> b, epoch |-> crashes,
                        iter |-> params.iter, flips |-> params.flips]
    <3>1. z = [used EXCEPT !.iter = @ + 1, !.theta = Append(@, step)]
      BY <1>3, <2>5 DEF SpsaUpdated, used, y
    <3>2. params \in Params /\ params.iter \in Nat /\ params.iter <= r.iter
      BY <1>1, <1>3 DEF Task, InOrder, Params
    <3>3. /\ step \in Step /\ step.batch = b /\ step.epoch = crashes
          /\ step.flips = step.batch.flips /\ step.iter \in 0 .. Len(r.theta)
      BY <1>1, <2>5, <3>2 DEF Step, Params, SignatureFits
    <3> HIDE DEF step
    <3>4. /\ used.theta \in Seq(Step) /\ used.iter \in Nat /\ used.tasks \in Seq(Task)
          /\ used.finished \in BOOLEAN
      BY <2>2, RunParts
    <3>5. /\ Append(used.theta, step) \in Seq(Step)
          /\ Len(Append(used.theta, step)) = Len(used.theta) + 1
      BY <3>3, <3>4, AppendProperties
    <3>6. used = [tasks |-> used.tasks, iter |-> used.iter, theta |-> used.theta,
                  finished |-> used.finished]
      BY <2>2 DEF Run
    <3>7. z = [tasks |-> used.tasks, iter |-> used.iter + 1,
               theta |-> Append(used.theta, step), finished |-> used.finished]
      BY <3>1, <3>6
    <3>8. /\ z.tasks = used.tasks /\ z.iter = used.iter + 1
          /\ z.theta = Append(used.theta, step) /\ z.finished = used.finished
      BY <3>7
    <3>9. [tasks |-> used.tasks, iter |-> used.iter + 1,
           theta |-> Append(used.theta, step), finished |-> used.finished] \in Run
      BY <3>4, <3>5 DEF Run
    <3>10. z \in Run
      BY <3>7, <3>9
    <3>11. InOrder(z)
      <4>1. \A u \in DOMAIN used.tasks : used.tasks[u].params # None
                => used.tasks[u].params.iter \in Nat /\ used.tasks[u].params.iter <= used.iter
        BY <2>2, RunParts DEF InOrder, Task, Params
      <4>2. \A u \in DOMAIN z.tasks : z.tasks[u].params # None
                => z.tasks[u].params.iter <= z.iter
        BY <3>4, <3>8, <4>1
      <4>3. z.iter = Len(z.theta)
        BY <2>2, <3>5, <3>8 DEF InOrder
      <4>4. z.finished => \A u \in DOMAIN z.tasks : ~z.tasks[u].active
        BY <2>2, <3>8 DEF InOrder
      <4> QED
        BY <4>2, <4>3, <4>4 DEF InOrder
    <3>12. Played(z) = Played(used)
      BY <3>8 DEF Played
    <3> QED
      BY <2>2, <2>3, <3>3, <3>8, <3>10, <3>11, <3>12
  <2> QED
    BY <2>4, <2>5
<1> QED
  BY <1>2, <1>3

\* A report: it is refused, which may end its task, or it is counted, and the tune is
\* over if that was the last one.
LEMMA UpdateTuned ==
  ASSUME run \in Run, InOrder(run), crashes \in Nat, NEW t \in DOMAIN run.tasks,
         NEW n \in Nat, NEW b \in Batch, NEW o \in OnUpdate(t, n, b)
  PROVE  InOrder(o.run) /\ (Idles(run, o.run) \/ Counts(run, o.run, crashes))
<1>1. CASE ~Alive(t)
  <2>1. o.run = run
    BY <1>1 DEF OnUpdate, Outcome
  <2> QED
    BY <2>1 DEF Idles
<1>2. CASE Alive(t) /\ ~Compatible(t, n)
  <2>1. o.run = WithTask(run, t, Inactive(run.tasks[t]))
    BY <1>2 DEF OnUpdate, Outcome
  <2> QED
    BY <2>1, InactiveOrder DEF Idles
<1>3. CASE Alive(t) /\ Compatible(t, n)
  <2> DEFINE x == [run.tasks[t] EXCEPT !.played = n]
  <2> DEFINE counted == WithTask(run, t, x)
  <2> DEFINE updated == SpsaUpdated(counted, t, b)
  <2> DEFINE ended == IF n < TaskSize THEN updated
                      ELSE WithTask(updated, t, Inactive(updated.tasks[t]))
  <2> DEFINE final == IF Played(ended) < NumBatches THEN ended ELSE Stopped(ended)
  <2>1. o.run = final
    <3>1. OnUpdate(t, n, b)
            = {Outcome(final, Told(IF final.tasks[t].active THEN "alive" ELSE "dead"))}
      BY <1>3 DEF OnUpdate
    <3> HIDE DEF final
    <3> QED
      BY <3>1 DEF Outcome
  <2>2. /\ run.tasks[t] \in Task /\ run.tasks[t].played \in Nat /\ Played(run) \in Nat
        /\ n > run.tasks[t].played /\ run.tasks[t].active
    BY <1>3, RunParts, PlayedNat DEF Task, Compatible, Alive
  <2>3. run.finished = FALSE
    BY <2>2, RunParts DEF InOrder
  <2>4. /\ x \in Task /\ x.active = run.tasks[t].active /\ x.played = n
        /\ x.params = None \/ x.params.iter <= run.iter
    BY <2>2 DEF Task, InOrder
  <2> HIDE DEF x
  <2>5. /\ InOrder(counted) /\ counted \in Run /\ counted.theta = run.theta
        /\ counted.finished = run.finished /\ t \in DOMAIN counted.tasks
        /\ Played(counted) = Played(run) - run.tasks[t].played + n
    BY <2>2, <2>4, WithTaskOrder
  <2> HIDE DEF counted
  <2>6. /\ InOrder(updated) /\ updated \in Run /\ t \in DOMAIN updated.tasks
        /\ updated.finished = counted.finished /\ Played(updated) = Played(counted)
        /\ \/ updated.theta = counted.theta
           \/ \E step \in Step :
                /\ updated.theta = Append(counted.theta, step)
                /\ step.epoch = crashes /\ step.flips = step.batch.flips
                /\ step.iter \in 0 .. Len(counted.theta)
    BY <2>5, UpdatedOrder
  <2> HIDE DEF updated
  <2>7. /\ InOrder(ended) /\ ended \in Run /\ ended.theta = updated.theta
        /\ ended.finished = updated.finished /\ Played(ended) = Played(updated)
    <3>1. CASE n < TaskSize
      BY <2>6, <3>1
    <3>2. CASE ~(n < TaskSize)
      BY <2>6, <3>2, InactiveOrder
    <3> QED
      BY <3>1, <3>2
  <2> HIDE DEF ended
  <2>8. Played(ended) \in Nat /\ NumBatches \in Nat
    BY <2>7, PlayedNat, SizesAssumption
  <2>9. /\ InOrder(final) /\ final.theta = ended.theta /\ Played(final) = Played(ended)
        /\ final.finished = (Played(ended) >= NumBatches)
    <3>1. CASE Played(ended) < NumBatches
      <4>1. (Played(ended) >= NumBatches) = FALSE
        BY <2>8, <3>1
      <4> QED
        BY <2>3, <2>5, <2>6, <2>7, <3>1, <4>1
    <3>2. CASE ~(Played(ended) < NumBatches)
      <4>1. Played(ended) >= NumBatches
        BY <2>8, <3>2
      <4>2. /\ InOrder(Stopped(ended)) /\ Stopped(ended).theta = ended.theta
            /\ Stopped(ended).finished \in BOOLEAN /\ Stopped(ended).finished
            /\ Played(Stopped(ended)) = Played(ended)
        BY <2>7, StoppedOrder, RunParts
      <4> QED
        BY <3>2, <4>1, <4>2
    <3> QED
      BY <3>1, <3>2
  <2> HIDE DEF final
  <2>10. Played(final) > Played(run)
    BY <2>2, <2>5, <2>6, <2>7, <2>9
  <2>11. Counts(run, final, crashes)
    BY <2>3, <2>5, <2>6, <2>7, <2>9, <2>10 DEF Counts
  <2> QED
    BY <2>1, <2>9, <2>11
<1> QED
  BY <1>1, <1>2, <1>3

\* Any request of a main loop.
LEMMA HandleTuned ==
  ASSUME run \in Run, InOrder(run), crashes \in Nat,
         NEW q \in Requests, q.op = "update" => q.batch \in Batch,
         NEW o \in Outcomes(q)
  PROVE  InOrder(o.run) /\ (Idles(run, o.run) \/ Counts(run, o.run, crashes))
<1>1. /\ q.worker \in Worker /\ q.played \in Nat
      /\ q.op \in {"task", "spsa", "update", "failed"}
  BY DEF Requests
<1>2. CASE q.op # "task" /\ ~Valid(q.worker, q.task)
  <2>1. o.run = run
    BY <1>2 DEF Outcomes, Outcome
  <2> QED
    BY <2>1 DEF Idles
<1>3. CASE q.op = "task"
  <2>1. o \in OnTask(q.worker)
    BY <1>3 DEF Outcomes
  <2> QED
    BY <1>1, <2>1, TaskTuned
<1>4. CASE q.op = "spsa" /\ Valid(q.worker, q.task)
  <2>1. o \in OnSpsa(q.task) /\ q.task \in DOMAIN run.tasks
    BY <1>4 DEF Outcomes, Valid
  <2> QED
    BY <2>1, SpsaTuned
<1>5. CASE q.op = "update" /\ Valid(q.worker, q.task)
  <2>1. o \in OnUpdate(q.task, q.played, q.batch) /\ q.task \in DOMAIN run.tasks
    BY <1>5 DEF Outcomes, Valid
  <2> QED
    BY <1>1, <1>5, <2>1, UpdateTuned
<1>6. CASE q.op = "failed" /\ Valid(q.worker, q.task)
  <2>1. o \in OnFailed(q.task) /\ q.task \in DOMAIN run.tasks
    BY <1>6 DEF Outcomes, Valid
  <2> QED
    BY <2>1, FailedTuned
<1> QED
  BY <1>1, <1>2, <1>3, <1>4, <1>5, <1>6

\* Every step of the server and the workers: a request, or what the server does by
\* itself, or nothing that the tune sees.
LEMMA NextTuned ==
  ASSUME Inductive, InOrder(run), InOrder(saved), [Next]_vars
  PROVE  /\ InOrder(run') /\ InOrder(saved')
         /\ \/ /\ Idles(run, run') \/ Counts(run, run', crashes)
               /\ UNCHANGED <<saved, crashes>>
            \/ saved' = run /\ UNCHANGED <<run, crashes>>
            \/ run' = saved /\ crashes' = crashes + 1 /\ UNCHANGED saved
<1>1. run \in Run /\ saved \in Run /\ crashes \in Nat
  BY DEF Inductive, TypeOK
<1>2. ASSUME NEW q \in Requests, q.op = "update" => q.batch \in Batch,
             NEW o \in Outcomes(q), Handled(o)
      PROVE  /\ InOrder(run') /\ InOrder(saved')
             /\ Idles(run, run') \/ Counts(run, run', crashes)
             /\ UNCHANGED <<saved, crashes>>
  <2>1. run' = o.run /\ UNCHANGED <<saved, crashes>>
    BY <1>2 DEF Handled
  <2>2. InOrder(o.run) /\ (Idles(run, o.run) \/ Counts(run, o.run, crashes))
    BY <1>1, <1>2, HandleTuned
  <2>3. InOrder(saved')
    BY <2>1
  <2> QED
    BY <2>1, <2>2, <2>3
<1>3. CASE UNCHANGED server
  <2>1. run' = run /\ saved' = saved /\ crashes' = crashes
    BY <1>3 DEF server
  <2> QED
    BY <2>1 DEF Idles
<1>4. ASSUME NEW w \in Worker, Answer(w) \/ LoseAnswer(w)
      PROVE  \E q \in Requests : /\ q.op = "update" => q.batch \in Batch
                                 /\ \E o \in Outcomes(q) : Handled(o)
  <2>1. Waits(w) /\ \E o \in Outcomes(Awaited(w)) : Handled(o)
    BY <1>4 DEF Answer, LoseAnswer
  <2>2. Awaited(w) \in Requests /\ (Awaited(w).op = "update" => Awaited(w) \in Reports(main, late))
    BY <2>1, AwaitedIs
  <2>3. Good(run, saved, crashes, main, late)
    BY Parts
  <2>4. Awaited(w).op = "update" => Awaited(w).batch \in Batch
    BY <2>2, <2>3, RequestTypes DEF Good
  <2> QED
    BY <2>1, <2>2, <2>4
<1>5. CASE HandleLate
  <2>1. PICK q \in late : \E o \in Outcomes(q) : Handled(o)
    BY <1>5 DEF HandleLate
  <2>2. q \in Requests /\ (q.op = "update" => q.batch \in Batch)
    BY DEF Inductive, TypeOK
  <2> QED
    BY <1>2, <2>1, <2>2
<1>6. CASE Scavenge
  <2>1. PICK t \in DOMAIN run.tasks : run' = WithTask(run, t, Inactive(run.tasks[t]))
    BY <1>6 DEF Scavenge
  <2>2. InOrder(run') /\ Idles(run, run')
    BY <1>1, <2>1, InactiveOrder DEF Idles
  <2> QED
    BY <1>6, <2>2 DEF Scavenge
<1>7. CASE Stop
  <2>1. run.finished \in BOOLEAN
    BY <1>1, RunParts
  <2>2. InOrder(run') /\ Idles(run, run')
    BY <1>1, <1>7, <2>1, StoppedOrder DEF Idles, Stop
  <2> QED
    BY <1>7, <2>2 DEF Stop
<1>8. CASE Save
  BY <1>8 DEF Save
<1>9. CASE Crash
  BY <1>9 DEF Crash
<1>10. ASSUME NEW w \in Worker,
              \/ MainStep(w) \/ Break(w) \/ Interrupt(w) \/ GiveUp(w)
              \/ Beat(w) \/ AnswerBeat(w) \/ GiveUpBeat(w) \/ ClearCurrent(w)
       PROVE  UNCHANGED server
  BY <1>10 DEF MainStep, Fetch, Ask, Report, Abandon, Break, Interrupt, GiveUp, Beat, AnswerBeat,
         GiveUpBeat, ClearCurrent
<1>11. CASE UNCHANGED vars
  BY <1>3, <1>11 DEF vars
<1> QED
  BY <1>2, <1>3, <1>4, <1>5, <1>6, <1>7, <1>8, <1>9, <1>10, <1>11 DEF Next, ServerStep

\* A report that is counted is a Count of the tune: what it adds to the parameters is
\* right, because RightPerturbation holds afterwards.
LEMMA CountsTune ==
  ASSUME run \in Run, run' \in Run, StepsSound(run'), Counts(run, run', crashes),
         UNCHANGED <<saved, crashes>>
  PROVE  Tuned!Count
<1>1. /\ Played(run) \in Nat /\ Played(run') \in Nat
      /\ run.theta \in Seq(Step) /\ Len(run.theta) \in Nat
      /\ DOMAIN run.theta = 1 .. Len(run.theta)
  BY PlayedNat, RunParts
<1>2. run'.theta = run.theta \/ \E step \in {run'.theta[i] : i \in DOMAIN run'.theta} :
        run'.theta = Append(run.theta, step) /\ Tuned!MayMove(step)
  <2>1. SUFFICES ASSUME NEW step \in Step, run'.theta = Append(run.theta, step),
                        step.epoch = crashes, step.flips = step.batch.flips,
                        step.iter \in 0 .. Len(run.theta)
                 PROVE  \E s \in {run'.theta[i] : i \in DOMAIN run'.theta} :
                            run'.theta = Append(run.theta, s) /\ Tuned!MayMove(s)
    BY DEF Counts
  <2> DEFINE n == Len(run.theta)
  <2>2. /\ DOMAIN run'.theta = 1 .. n + 1 /\ run'.theta[n + 1] = step
        /\ \A i \in 1 .. n : run'.theta[i] = run.theta[i]
    BY <1>1, <2>1, AppendProperties, LenProperties
  <2>3. n + 1 \in DOMAIN run'.theta /\ step \in {run'.theta[i] : i \in DOMAIN run'.theta}
    BY <1>1, <2>2
  <2>4. ASSUME NEW i \in DOMAIN run.theta, run.theta[i].batch = step.batch
        PROVE  FALSE
    <3>1. i \in 1 .. n /\ i \in DOMAIN run'.theta /\ run'.theta[i].batch = run'.theta[n + 1].batch
      BY <1>1, <2>2, <2>4
    <3>2. i = n + 1
      BY <2>3, <3>1 DEF StepsSound
    <3> QED
      BY <1>1, <3>1, <3>2
  <2>5. crashes = 0 => step.iter = step.batch.iter
    BY <2>1, <2>2, <2>3 DEF StepsSound
  <2>6. step.batch \in Batch
    BY DEF Step
  <2>7. Tuned!MayMove(step)
    BY <2>1, <2>4, <2>5, <2>6 DEF Tuned!MayMove
  <2> QED
    BY <2>1, <2>3, <2>7
<1>3. /\ ~run.finished /\ Played(run') > Played(run)
      /\ run'.finished = (Played(run') >= NumBatches)
  BY DEF Counts
<1>4. saved' = saved /\ crashes' = crashes
  OBVIOUS
<1> QED
  BY <1>1, <1>2, <1>3, <1>4 DEF Tuned!Count

\* A step of the server and the workers is one of the tune, or the tune does not see it.
LEMMA StepTune ==
  ASSUME Inductive, InOrder(run), InOrder(saved), [Next]_vars, Inductive'
  PROVE  [Tuned!Next]_(Tuned!vars)
<1>1. run \in Run /\ run' \in Run /\ StepsSound(run')
  BY DEF Inductive, TypeOK, Kept
<1>2. CASE Idles(run, run') /\ UNCHANGED <<saved, crashes>>
  <2>1. /\ run'.theta = run.theta /\ Played(run') = Played(run)
        /\ saved' = saved /\ crashes' = crashes
    BY <1>2 DEF Idles
  <2>2. run.finished \in BOOLEAN /\ run'.finished \in BOOLEAN
    BY <1>1, RunParts
  <2>3. CASE run'.finished = run.finished
    BY <2>1, <2>3 DEF Tuned!vars
  <2>4. CASE ~run.finished /\ run'.finished
    BY <2>1, <2>2, <2>4 DEF Tuned!Next, Tuned!Stop
  <2> QED
    BY <1>2, <2>3, <2>4 DEF Idles
<1>3. CASE Counts(run, run', crashes) /\ UNCHANGED <<saved, crashes>>
  BY <1>1, <1>3, CountsTune DEF Tuned!Next
<1>4. CASE saved' = run /\ UNCHANGED <<run, crashes>>
  <2>1. saved' = run /\ run' = run /\ crashes' = crashes
    BY <1>4
  <2> QED
    BY <2>1 DEF Tuned!Next, Tuned!Save, Tuned!Progress
<1>5. CASE run' = saved /\ crashes' = crashes + 1 /\ UNCHANGED saved
  <2>1. run' = saved /\ crashes' = crashes + 1 /\ saved' = saved
    BY <1>5
  <2> QED
    BY <2>1 DEF Tuned!Next, Tuned!Crash
<1> QED
  BY <1>2, <1>3, <1>4, <1>5, NextTuned

\* At the start no task was dealt.
LEMMA InitTune ==
  ASSUME Init
  PROVE  Tuned!Init /\ InOrder(run) /\ InOrder(saved)
<1>1. /\ run = [tasks |-> <<>>, iter |-> 0, theta |-> <<>>, finished |-> FALSE]
      /\ saved = run /\ crashes = 0
  BY DEF Init, InitServer
<1>2. DOMAIN run.tasks = {} /\ Len(run.theta) = 0
  BY <1>1, EmptySeq
<1>3. Played(run) = 0
  BY <1>2, SumOfNone DEF Played
<1> QED
  BY <1>1, <1>2, <1>3 DEF Tuned!Init, Tuned!Progress, InOrder

\* The server and its workers implement the tune: although reports are repeated, late and
\* lost, tasks are taken away and dealt again and the server crashes, games are counted
\* and the parameters move as if one player played batch after batch (spsa_handler.py).
THEOREM WorkersTune == Spec => ImplementsTune
<1> DEFINE IInv == Inductive /\ InOrder(run) /\ InOrder(saved)
<1>1. Init => Tuned!Init /\ IInv
  BY InitTune, InitKept
<1>2. Inductive /\ Inductive' /\ IInv /\ [Next]_vars => IInv'
  BY NextTuned
<1>3. Inductive /\ Inductive' /\ IInv /\ [Next]_vars => [Tuned!Next]_(Tuned!vars)
  BY StepTune
<1> HIDE DEF IInv
<1> QED
  BY <1>1, <1>2, <1>3, InductiveHolds, PTL DEF Spec, ImplementsTune, Tuned!Spec

\* What follows for the tune from its abstract description: ...
LEMMA SoundTune ==
  ASSUME Tuned!Sound, [Tuned!Next]_(Tuned!vars), Inductive
  PROVE  Tuned!Sound'
<1> DEFINE d == [theta |-> saved.theta, games |-> Played(saved), over |-> saved.finished]
<1>1. /\ Played(run) \in Nat /\ Played(saved) \in Nat
      /\ run.theta \in Seq(Step) /\ Len(run.theta) \in Nat
      /\ DOMAIN run.theta = 1 .. Len(run.theta)
      /\ saved.theta \in Seq(Step) /\ Len(saved.theta) \in Nat
      /\ DOMAIN saved.theta = 1 .. Len(saved.theta)
      /\ NumBatches \in Nat
  BY PlayedNat, RunParts, SizesAssumption DEF Inductive, TypeOK
<1>2. /\ Len(run.theta) <= Played(run) /\ (run.finished \/ Played(run) < NumBatches)
      /\ Len(saved.theta) <= Played(saved) /\ (saved.finished \/ Played(saved) < NumBatches)
      /\ Played(saved) <= Played(run) /\ Len(saved.theta) <= Len(run.theta)
      /\ \A i \in DOMAIN saved.theta : run.theta[i] = saved.theta[i]
  BY DEF Tuned!Sound, Tuned!Paid, Tuned!Progress
<1>3. SUFFICES
        /\ Len(run'.theta) <= Played(run') /\ (run'.finished \/ Played(run') < NumBatches)
        /\ Len(saved'.theta) <= Played(saved') /\ (saved'.finished \/ Played(saved') < NumBatches)
        /\ Played(saved') <= Played(run') /\ Len(saved'.theta) <= Len(run'.theta)
        /\ \A i \in DOMAIN saved'.theta : run'.theta[i] = saved'.theta[i]
  BY DEF Tuned!Sound, Tuned!Paid, Tuned!Progress
<1>4. CASE Tuned!Count
  <2>1. /\ Played(run') \in Nat /\ Played(run') > Played(run)
        /\ run'.finished = (Played(run') >= NumBatches)
        /\ saved'.theta = saved.theta /\ Played(saved') = Played(saved)
        /\ saved'.finished = saved.finished
    BY <1>4 DEF Tuned!Count
  <2>2. run'.finished \/ Played(run') < NumBatches
    <3>1. CASE Played(run') >= NumBatches
      BY <2>1, <3>1, Zenon
    <3>2. CASE ~(Played(run') >= NumBatches)
      BY <1>1, <2>1, <3>2
    <3> QED
      BY <3>1, <3>2
  <2>3. CASE run'.theta = run.theta
    BY <1>1, <1>2, <2>1, <2>2, <2>3
  <2>4. ASSUME NEW step, run'.theta = Append(run.theta, step)
        PROVE  /\ Len(run'.theta) = Len(run.theta) + 1
               /\ \A i \in DOMAIN run.theta : run'.theta[i] = run.theta[i]
    <3>1. run.theta \in Seq(Step \cup {step})
      BY <1>1, SeqDef
    <3> QED
      BY <1>1, <2>4, <3>1, AppendProperties
  <2>5. CASE \E step : run'.theta = Append(run.theta, step)
    BY <1>1, <1>2, <2>1, <2>2, <2>4, <2>5
  <2> QED
    BY <1>4, <2>3, <2>5 DEF Tuned!Count
<1>5. CASE Tuned!Stop
  <2>1. /\ run'.finished /\ run'.theta = run.theta /\ Played(run') = Played(run)
        /\ saved'.theta = saved.theta /\ Played(saved') = Played(saved)
        /\ saved'.finished = saved.finished
    BY <1>5 DEF Tuned!Stop
  <2> QED
    BY <1>2, <2>1
<1>6. CASE Tuned!Save
  <2>1. /\ run'.finished = run.finished /\ run'.theta = run.theta /\ Played(run') = Played(run)
        /\ saved'.theta = run.theta /\ Played(saved') = Played(run)
        /\ saved'.finished = run.finished
    BY <1>6 DEF Tuned!Save, Tuned!Progress
  <2> QED
    BY <1>1, <1>2, <2>1
<1>7. CASE Tuned!Crash
  <2>1. /\ run'.finished = saved.finished /\ run'.theta = saved.theta
        /\ Played(run') = Played(saved)
        /\ saved'.theta = saved.theta /\ Played(saved') = Played(saved)
        /\ saved'.finished = saved.finished
    BY <1>7 DEF Tuned!Crash
  <2> QED
    BY <1>1, <1>2, <2>1
<1>8. CASE UNCHANGED Tuned!vars
  <2>1. /\ run'.finished = run.finished /\ run'.theta = run.theta /\ Played(run') = Played(run)
        /\ saved'.theta = saved.theta /\ Played(saved') = Played(saved)
        /\ saved'.finished = saved.finished
    BY <1>8 DEF Tuned!vars
  <2> QED
    BY <1>2, <2>1
<1> QED
  BY <1>4, <1>5, <1>6, <1>7, <1>8 DEF Tuned!Next

\* ... the parameters never move without games that count, a tune that is not over has games
\* left to play, and what a crash takes away is the end of what was done (update_task,
\* update_spsa_data, flush_buffers).
THEOREM TuneIsSound == Spec => []Tuned!Sound
<1>1. Tuned!Init => Tuned!Sound
  <2>1. Len(<<>>) = 0 /\ DOMAIN <<>> = {}
    BY EmptySeq
  <2>2. 0 < NumBatches
    BY SizesAssumption
  <2> QED
    BY <2>1, <2>2 DEF Tuned!Init, Tuned!Sound, Tuned!Paid, Tuned!Progress
<1>2. Tuned!Sound /\ Inductive /\ [Tuned!Next]_(Tuned!vars) => Tuned!Sound'
  BY SoundTune
<1> QED
  BY <1>1, <1>2, WorkersTune, InductiveHolds, PTL DEF ImplementsTune, Tuned!Spec
=============================================================================
