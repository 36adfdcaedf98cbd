---------------------------- MODULE ThreadsProofs ----------------------------
(***************************************************************************)
(* Proofs about the threads of the server.  About Scheduler: no signal is  *)
(* lost, and only due tasks are executed, for every set of tasks and       *)
(* callers and all periods.  About Locks: no threads wait for each other   *)
(* in a circle, for every set of threads and runs.                         *)
(***************************************************************************)
EXTENDS Scheduler, Locks, SequenceTheorems, TLAPS

-----------------------------------------------------------------------------
(* Locks: every operation takes locks of growing rank *)

\* The order of the locks.
Rank(l) ==
    IF l = "request_task" THEN 0
    ELSE IF l = "wtt" THEN 1
    ELSE IF l \in Run THEN 2
    ELSE IF l = "unfinished_runs" THEN 3
    ELSE 4
Before(k, l) == Rank(k) < Rank(l) \/ (k = l /\ l \in Reentrant)
Ranked(a) == \A k \in a.holding : Before(k, a.take)
\* Code that can be begun: it takes locks of the set, in their order.
Fits(code, L) ==
    /\ code \in Seq(Access)
    /\ code # <<>> => code[1].holding = {}
    /\ \A i \in 1..Len(code) : code[i].take \in L /\ Ranked(code[i])
Last == {"connections", "worker_runs", "run_cache"}
InRun(r) == {r} \cup Last

LEMMA RankType == \A l \in Lock : Rank(l) \in 0..4
BY LocksAssumption DEF Rank, Lock, Named

LEMMA RankOf ==
    /\ Rank("request_task") = 0 /\ Rank("wtt") = 1 /\ Rank("unfinished_runs") = 3
    /\ \A r \in Run : Rank(r) = 2 /\ r \in Reentrant /\ r # "unfinished_runs" /\ r # "wtt"
    /\ \A l \in Last : Rank(l) = 4
BY LocksAssumption DEF Rank, Named, Last, Reentrant

\* A with-block around code that takes later locks.
LEMMA WithFits ==
    ASSUME NEW body, NEW L \in SUBSET Lock, NEW l \in Lock, Fits(body, L),
           \A k \in L : Before(l, k)
    PROVE  Fits(With(l, body), L \cup {l})
<1> DEFINE first == [holding |-> {}, take |-> l]
           inner == [i \in DOMAIN body |-> [body[i] EXCEPT !.holding = @ \cup {l}]]
           code == With(l, body)
<1>1. body \in Seq(Access) /\ Len(body) \in Nat /\ DOMAIN body = 1..Len(body)
    BY LenProperties DEF Fits
<1>2. \A i \in 1..Len(body) : body[i] \in Access
    BY <1>1, ElementOfSeq
<1>3. \A i \in 1..Len(body) :
        /\ inner[i] \in Access /\ inner[i].take = body[i].take
        /\ inner[i].holding = body[i].holding \cup {l}
    BY <1>1, <1>2 DEF Access
<1>4. inner \in Seq(Access) /\ Len(inner) = Len(body)
    <2>1. inner \in [1..Len(body) -> Access]
        BY <1>1, <1>3
    <2>2. inner \in Seq(Access)
        BY <1>1, <2>1, SeqDef
    <2> QED
        BY <1>1, <2>2, LenProperties
<1>5. first \in Access /\ <<first>> \in Seq(Access) /\ Len(<<first>>) = 1 /\ <<first>>[1] = first
    BY DEF Access
<1>6. code = <<first>> \o inner
    BY DEF With
<1> HIDE DEF first, inner, code
<1>7. /\ code \in Seq(Access) /\ Len(code) = 1 + Len(body)
      /\ \A i \in 1..(1 + Len(body)) : code[i] = IF i <= 1 THEN <<first>>[i] ELSE inner[i - 1]
    BY <1>4, <1>5, <1>6, ConcatProperties
<1>8. code[1] = first
    BY <1>1, <1>5, <1>7
<1>9. ASSUME NEW i \in 1..Len(code) PROVE code[i].take \in L \cup {l} /\ Ranked(code[i])
    <2>1. CASE i = 1
        BY <1>8, <2>1 DEF first, Ranked
    <2>2. CASE i # 1
        <3>1. i - 1 \in 1..Len(body) /\ code[i] = inner[i - 1]
            BY <1>1, <1>7, <2>2
        <3>2. body[i - 1].take \in L /\ Ranked(body[i - 1])
            BY <3>1 DEF Fits
        <3> QED
            BY <1>3, <3>1, <3>2 DEF Ranked
    <2> QED
        BY <2>1, <2>2
<1> QED
    BY <1>7, <1>8, <1>9 DEF Fits, code, first

LEMMA BrieflyFits == ASSUME NEW l \in Lock PROVE Fits(Briefly(l), {l})
<1>1. Fits(<<>>, {})
    BY DEF Fits
<1> QED
    BY <1>1, WithFits DEF Briefly

LEMMA ConcatFits ==
    ASSUME NEW p, NEW q, NEW L, NEW M, NEW N, Fits(p, L), Fits(q, M), L \cup M \subseteq N
    PROVE  Fits(p \o q, N)
<1> DEFINE code == p \o q
<1>1. /\ code \in Seq(Access) /\ Len(code) = Len(p) + Len(q)
      /\ \A i \in 1..(Len(p) + Len(q)) : code[i] = IF i <= Len(p) THEN p[i] ELSE q[i - Len(p)]
    BY ConcatProperties DEF Fits
<1>2. Len(p) \in Nat /\ Len(q) \in Nat
    BY LenProperties DEF Fits
<1> HIDE DEF code
<1>3. \A i \in 1..Len(code) : code[i].take \in N /\ Ranked(code[i])
    <2> TAKE i \in 1..Len(code)
    <2>1. CASE i <= Len(p)
        BY <1>1, <1>2, <2>1 DEF Fits
    <2>2. CASE i > Len(p)
        <3>1. i - Len(p) \in 1..Len(q) /\ code[i] = q[i - Len(p)]
            BY <1>1, <1>2, <2>2
        <3> QED
            BY <3>1 DEF Fits
    <2> QED
        BY <1>1, <1>2, <2>1, <2>2
<1>4. ASSUME code # <<>> PROVE code[1].holding = {}
    <2>1. CASE p = <<>>
        <3>1. code = q
            BY <2>1, ConcatEmptySeq DEF code, Fits
        <3> QED
            BY <1>4, <3>1 DEF Fits
    <2>2. CASE p # <<>>
        <3>1. Len(p) >= 1
            BY <2>2, <1>2, EmptySeq DEF Fits
        <3> QED
            BY <1>1, <1>2, <2>2, <3>1 DEF Fits
    <2> QED
        BY <2>1, <2>2
<1> QED
    BY <1>1, <1>3, <1>4 DEF Fits, code

\* Code that works on one run takes its lock, and then only those that are taken last.
LEMMA InRunFits ==
    ASSUME NEW r \in Run
    PROVE  /\ InRun(r) \in SUBSET Lock
           /\ \A k \in InRun(r) : Before(r, k)
           /\ Fits(Briefly(r), InRun(r))
           /\ \A l \in Last : Fits(Briefly(l), InRun(r))
           /\ \A p, q : Fits(p, InRun(r)) /\ Fits(q, InRun(r)) => Fits(p \o q, InRun(r))
           /\ \A p : Fits(p, InRun(r)) => Fits(With(r, p), InRun(r))
<1>1. InRun(r) \in SUBSET Lock
    BY DEF InRun, Last, Lock, Named
<1>2. \A k \in InRun(r) : Before(r, k)
    BY RankOf DEF InRun, Before
<1>3. \A p, q : Fits(p, InRun(r)) /\ Fits(q, InRun(r)) => Fits(p \o q, InRun(r))
    BY ConcatFits
<1>4. ASSUME NEW l \in InRun(r) PROVE Fits(Briefly(l), InRun(r))
    <2>1. l \in Lock /\ {l} \subseteq InRun(r)
        BY <1>1
    <2>2. Fits(Briefly(l), {l})
        BY <2>1, BrieflyFits
    <2> QED
        BY <2>1, <2>2 DEF Fits
<1>5. ASSUME NEW p, Fits(p, InRun(r)) PROVE Fits(With(r, p), InRun(r))
    <2>1. r \in Lock /\ InRun(r) \cup {r} = InRun(r)
        BY DEF Lock, InRun
    <2> QED
        BY <1>1, <1>2, <1>5, <2>1, WithFits
<1>6. r \in InRun(r) /\ \A l \in Last : l \in InRun(r)
    BY DEF InRun
<1> QED
    BY <1>1, <1>2, <1>3, <1>4, <1>5, <1>6

\* The pieces of code that requests and jobs share, and the requests for one run.
LEMMA SharedFits ==
    ASSUME NEW r \in Run
    PROVE  /\ Fits(get_run, InRun(r)) /\ Fits(buffer, InRun(r)) /\ Fits(flush(r), InRun(r))
           /\ Fits(buffer_now(r), InRun(r))
           /\ Fits(set_inactive_task(r), InRun(r)) /\ Fits(failed_task(r), InRun(r))
           /\ \A code \in OfRun(r) : Fits(get_run \o code, InRun(r))
<1> DEFINE F(p) == Fits(p, InRun(r))
<1>1. /\ F(Briefly(r)) /\ F(Briefly("run_cache")) /\ F(Briefly("connections"))
      /\ \A p, q : F(p) /\ F(q) => F(p \o q)
      /\ \A p : F(p) => F(With(r, p))
    BY InRunFits DEF Last
<1> HIDE DEF F
<1>2. F(get_run) /\ F(buffer) /\ F(flush(r)) /\ F(buffer_now(r))
    BY <1>1 DEF get_run, buffer, flush, buffer_now
<1>3. F(set_inactive_task(r)) /\ F(failed_task(r))
    BY <1>1, <1>2 DEF set_inactive_task, failed_task
<1>4. F(set_inactive_run(r)) /\ F(set_active_run(r)) /\ F(set_bad_task(r))
    BY <1>1, <1>2, <1>3 DEF set_inactive_run, set_active_run, set_bad_task
<1>5. F(purge_run(r))
    BY <1>1, <1>4 DEF purge_run
<1>6. F(stop_run(r))
    BY <1>1, <1>2, <1>4, <1>5 DEF stop_run
<1>7. F(spsa_data(r)) /\ F(beat(r)) /\ F(api_stop_run(r)) /\ F(approve_run(r))
    BY <1>1, <1>2, <1>3, <1>6 DEF spsa_data, beat, api_stop_run, approve_run
<1>8. F(update_task(r))
    BY <1>1, <1>2, <1>3, <1>6, <1>7 DEF update_task
<1>9. F(tests_modify(r)) /\ F(tests_delete(r))
    BY <1>1, <1>2, <1>4 DEF tests_modify, tests_delete
<1>10. \A code \in OfRun(r) : F(code)
    BY <1>3, <1>5, <1>6, <1>7, <1>8, <1>9 DEF OfRun
<1> QED
    BY <1>1, <1>2, <1>3, <1>10 DEF F

LEMMA WeakerFits ==
    ASSUME NEW code, NEW L, NEW M, Fits(code, L), L \subseteq M
    PROVE  Fits(code, M)
BY DEF Fits

\* Locks that are taken around get_run.
LEMMA LookupFits ==
    ASSUME NEW l \in {"wtt", "unfinished_runs"}
    PROVE  Fits(With(l, get_run), Lock \ {"request_task"})
<1>1. Fits(get_run, {"run_cache"})
    BY BrieflyFits DEF get_run, Lock, Named
<1>2. {"run_cache"} \in SUBSET Lock /\ l \in Lock /\ Before(l, "run_cache")
    BY RankOf DEF Lock, Named, Before, Last
<1>3. Fits(With(l, get_run), {"run_cache"} \cup {l})
    BY <1>1, <1>2, WithFits
<1>4. {"run_cache"} \cup {l} \subseteq Lock \ {"request_task"}
    BY <1>2
<1> QED
    BY <1>3, <1>4, WeakerFits

\* A request for a task takes the lock of the requests first, and the table of workers
\* before the run of the old task.
LEMMA RequestFits ==
    ASSUME NEW r \in Run, NEW q \in Run
    PROVE  Fits(request_task(r, q), Lock)
<1> DEFINE L == Lock \ {"request_task"}
           F(p) == Fits(p, L)
<1>1. \A p, s : F(p) /\ F(s) => F(p \o s)
    BY ConcatFits
<1>2. ASSUME NEW x \in Run, NEW p, Fits(p, InRun(x)) PROVE F(p)
    <2>1. InRun(x) \subseteq L
        BY LocksAssumption DEF InRun, Last, Lock, Named
    <2> QED
        BY <1>2, <2>1, WeakerFits
<1>3. ASSUME NEW l \in L PROVE F(Briefly(l))
    BY BrieflyFits, WeakerFits
<1>4. F(With("wtt", get_run)) /\ F(With("unfinished_runs", get_run))
    BY LookupFits
<1>5. F(get_run) /\ F(buffer)
    BY <1>2, SharedFits
<1>6. F(With(r, Briefly("connections")))
    BY <1>2, InRunFits DEF Last
<1>7. F(insert_in_wtt_map(q))
    <2> DEFINE inner == get_run \o With(q, failed_task(q))
    <2>1. Fits(inner, InRun(q)) /\ InRun(q) \in SUBSET Lock
        BY SharedFits, InRunFits
    <2>2. \A k \in InRun(q) : Before("wtt", k)
        BY RankOf DEF InRun, Before
    <2> HIDE DEF inner
    <2>3. Fits(With("wtt", inner), InRun(q) \cup {"wtt"})
        BY <2>1, <2>2, WithFits DEF Lock, Named
    <2>4. InRun(q) \cup {"wtt"} \subseteq L
        BY LocksAssumption DEF InRun, Last, Lock, Named
    <2>5. F(With("wtt", inner))
        BY <2>3, <2>4, WeakerFits
    <2> QED
        BY <1>1, <1>5, <2>5 DEF insert_in_wtt_map, inner
<1>8. F(Briefly("connections")) /\ F(Briefly("worker_runs"))
    BY <1>3 DEF Lock, Named
<1> HIDE DEF F
<1>9. F(sync_request_task(r, q))
    BY <1>1, <1>4, <1>5, <1>6, <1>7, <1>8 DEF sync_request_task
<1>10. \A k \in L : Before("request_task", k)
    BY LocksAssumption DEF Before, Rank, Lock, Named
<1>11. Fits(request_task(r, q), L \cup {"request_task"})
    BY <1>9, <1>10, WithFits DEF F, request_task, Lock, Named
<1> QED
    BY <1>11, WeakerFits DEF Lock, Named

\* Whatever a thread begins fits.
LEMMA WorkFits == \A code \in Requests \cup Jobs : Fits(code, Lock)
<1> DEFINE F(p) == Fits(p, Lock)
<1>1. \A p, q : F(p) /\ F(q) => F(p \o q)
    BY ConcatFits
<1>2. \A l \in Lock : F(Briefly(l))
    BY BrieflyFits, WeakerFits
<1>3. ASSUME NEW r \in Run, NEW p, Fits(p, InRun(r)) PROVE F(p)
    BY <1>3, InRunFits, WeakerFits
<1>4. F(With("wtt", get_run)) /\ F(unfinished)
    BY LookupFits, WeakerFits DEF unfinished
<1>5. F(get_run) /\ F(buffer)
    BY <1>2 DEF get_run, buffer, Lock, Named
<1>6. ASSUME NEW r \in Run
      PROVE  /\ F(Briefly(r)) /\ F(flush(r)) /\ F(buffer_now(r)) /\ F(set_inactive_task(r))
             /\ F(With(r, buffer))
             /\ \A code \in OfRun(r) : F(get_run \o code)
    BY <1>3, SharedFits, InRunFits
<1>7. \A r, q \in Run : F(request_task(r, q))
    BY RequestFits
<1> HIDE DEF F
<1>8. \A l \in Named : F(Briefly(l))
    BY <1>2 DEF Lock
<1>9. \A r \in Run : F(new_run(r))
    BY <1>1, <1>5, <1>6, <1>8 DEF new_run, Named
<1>10. \A code \in Requests : F(code)
    <2> SUFFICES ASSUME NEW code \in Requests PROVE F(code)
        OBVIOUS
    <2>1. CASE code \in {request_task(r, q) : r \in Run, q \in Run}
        BY <1>7, <2>1
    <2>2. CASE code \in {new_run(r) : r \in Run} \cup {flush(r) : r \in Run}
        BY <1>6, <1>9, <2>2
    <2>3. CASE code \in UNION {{get_run \o p : p \in OfRun(r)} : r \in Run}
        <3>1. PICK r \in Run : \E p \in OfRun(r) : code = get_run \o p
            BY <2>3
        <3> QED
            BY <1>6, <3>1
    <2> QED
        BY <2>1, <2>2, <2>3 DEF Requests
<1>11. F(update_itp) /\ F(clean_wtt_map) /\ F(clean_worker_runs) /\ F(clean_cache)
    BY <1>1, <1>4, <1>5, <1>8 DEF update_itp, clean_wtt_map, clean_worker_runs, clean_cache, Named
<1>12. F(validate_data_structures)
    BY <1>1, <1>8 DEF validate_data_structures, Named
<1>13. ASSUME NEW r \in Run
       PROVE  /\ F(scavenge_dead_tasks(r)) /\ F(update_nps_gpm(r)) /\ F(validate_random_run(r))
    BY <1>1, <1>4, <1>5, <1>6, <1>8
    DEF scavenge_dead_tasks, update_nps_gpm, validate_random_run, Named
<1>14. \A code \in Jobs : F(code)
    BY <1>6, <1>11, <1>12, <1>13 DEF Jobs
<1> QED
    BY <1>10, <1>14 DEF F
-----------------------------------------------------------------------------
(* Locks: the invariant *)

\* A lock is held by one thread.
Exclusive ==
    \A t, u \in Thread : \A l \in Lock : Holds(t, l) /\ Holds(u, l) => t = u
LocksInductive ==
    /\ todo \in [Thread -> Seq(Access)]
    /\ \A t \in Thread : \A i \in 1..Len(todo[t]) : Ranked(todo[t][i])
    /\ Exclusive

\* A thread that goes on holds the given locks at most.
LEMMA GoOnKeeps ==
    ASSUME LocksInductive, NEW t \in Thread, todo[t] # <<>>, NEW locks, GoOn(t, locks)
    PROVE  /\ todo' \in [Thread -> Seq(Access)]
           /\ \A u \in Thread : \A i \in 1..Len(todo'[u]) : Ranked(todo'[u][i])
           /\ \A u \in Thread \ {t} : todo'[u] = todo[u]
           /\ \A l \in Lock : Holds(t, l)' => l \in locks
<1>1. PICK k \in 2..(Len(todo[t]) + 1) :
        /\ k \in DOMAIN todo[t] => todo[t][k].holding \subseteq locks
        /\ todo' = [todo EXCEPT ![t] = SubSeq(@, k, Len(@))]
    BY DEF GoOn
<1>2. /\ todo[t] \in Seq(Access) /\ Len(todo[t]) \in Nat /\ DOMAIN todo[t] = 1..Len(todo[t])
      /\ k \in Nat /\ k >= 2
    BY LenProperties DEF LocksInductive
<1> DEFINE new == SubSeq(todo[t], k, Len(todo[t]))
<1>3. /\ new \in Seq(Access)
      /\ Len(new) = IF k <= Len(todo[t]) THEN Len(todo[t]) - k + 1 ELSE 0
      /\ \A i \in 1..(Len(todo[t]) - k + 1) : new[i] = todo[t][k + i - 1]
    <2>1. \A i \in k..Len(todo[t]) : todo[t][i] \in Access
        BY <1>2, ElementOfSeq
    <2> QED
        BY <1>2, <2>1, SubSeqProperties
<1>4. todo'[t] = new /\ \A u \in Thread \ {t} : todo'[u] = todo[u]
    BY <1>1 DEF LocksInductive
<1>5. todo' \in [Thread -> Seq(Access)]
    BY <1>1, <1>3 DEF LocksInductive
<1> HIDE DEF new
<1>6. \A i \in 1..Len(new) : i \in 1..(Len(todo[t]) - k + 1) /\ k + i - 1 \in 1..Len(todo[t])
    BY <1>2, <1>3
<1>7. \A i \in 1..Len(new) : Ranked(new[i])
    BY <1>3, <1>6 DEF LocksInductive
<1>8. \A u \in Thread : \A i \in 1..Len(todo'[u]) : Ranked(todo'[u][i])
    BY <1>4, <1>7 DEF LocksInductive
<1>9. ASSUME NEW l \in Lock, Holds(t, l)' PROVE l \in locks
    <2>1. new # <<>> /\ l \in new[1].holding
        BY <1>4, <1>9 DEF Holds
    <2>2. k <= Len(todo[t])
        BY <1>2, <1>3, <2>1, EmptySeq
    <2>3. new[1] = todo[t][k] /\ k \in DOMAIN todo[t]
        BY <1>2, <1>3, <2>2
    <2> QED
        BY <1>1, <2>1, <2>3
<1> QED
    BY <1>4, <1>5, <1>8, <1>9

LEMMA LocksInitInductive == LocksInit => LocksInductive
BY EmptySeq DEF LocksInit, LocksInductive, Exclusive, Holds

LEMMA LocksStepInductive == LocksInductive /\ [LocksNext]_todo => LocksInductive'
<1> SUFFICES ASSUME LocksInductive, [LocksNext]_todo PROVE LocksInductive'
    OBVIOUS
<1>1. CASE UNCHANGED todo
    BY <1>1 DEF LocksInductive, Exclusive, Holds
<1>2. ASSUME NEW t \in Thread, Begin(t) PROVE LocksInductive'
    <2>1. PICK code \in Requests \cup Jobs : todo' = [todo EXCEPT ![t] = code]
        BY <1>2 DEF Begin
    <2>2. Fits(code, Lock)
        BY WorkFits
    <2>3. todo'[t] = code /\ \A u \in Thread \ {t} : todo'[u] = todo[u]
        BY <2>1 DEF LocksInductive
    <2>4. todo' \in [Thread -> Seq(Access)]
        BY <2>1, <2>2 DEF LocksInductive, Fits
    <2>5. \A u \in Thread : \A i \in 1..Len(todo'[u]) : Ranked(todo'[u][i])
        BY <2>2, <2>3 DEF LocksInductive, Fits
    <2>6. \A l \in Lock : ~Holds(t, l)'
        BY <2>2, <2>3 DEF Fits, Holds
    <2>7. \A u \in Thread \ {t} : \A l \in Lock : Holds(u, l)' <=> Holds(u, l)
        BY <2>3 DEF Holds
    <2> QED
        BY <2>4, <2>5, <2>6, <2>7 DEF LocksInductive, Exclusive
<1>3. ASSUME NEW t \in Thread, Acquire(t) PROVE LocksInductive'
    <2> DEFINE locks == todo[t][1].holding \cup {todo[t][1].take}
    <2>1. PICK l \in Lock : Wants(t, l) /\ Free(t, l)
        BY <1>3 DEF Acquire
    <2>2. todo[t] # <<>> /\ GoOn(t, locks) /\ todo[t][1].take = l
        BY <1>3, <2>1 DEF Acquire, Wants
    <2> HIDE DEF locks
    <2>3. /\ todo' \in [Thread -> Seq(Access)]
          /\ \A u \in Thread : \A i \in 1..Len(todo'[u]) : Ranked(todo'[u][i])
          /\ \A u \in Thread \ {t} : todo'[u] = todo[u]
          /\ \A k \in Lock : Holds(t, k)' => k \in locks
        BY <2>2, GoOnKeeps
    <2>4. \A k \in Lock : Holds(t, k)' => Holds(t, k) \/ k = l
        BY <2>2, <2>3 DEF locks, Holds
    <2>5. \A u \in Thread \ {t} : \A k \in Lock : Holds(u, k)' <=> Holds(u, k)
        BY <2>3 DEF Holds
    <2>6. \A u \in Thread \ {t} : ~Holds(u, l)
        BY <2>1 DEF Free
    <2>7. Exclusive'
        BY <2>4, <2>5, <2>6 DEF LocksInductive, Exclusive
    <2> QED
        BY <2>3, <2>7 DEF LocksInductive
<1>4. ASSUME NEW t \in Thread, Skip(t) PROVE LocksInductive'
    <2> DEFINE locks == todo[t][1].holding
    <2>1. todo[t] # <<>> /\ GoOn(t, locks)
        BY <1>4 DEF Skip
    <2> HIDE DEF locks
    <2>2. /\ todo' \in [Thread -> Seq(Access)]
          /\ \A u \in Thread : \A i \in 1..Len(todo'[u]) : Ranked(todo'[u][i])
          /\ \A u \in Thread \ {t} : todo'[u] = todo[u]
          /\ \A k \in Lock : Holds(t, k)' => k \in locks
        BY <2>1, GoOnKeeps
    <2>3. \A u \in Thread : \A k \in Lock : Holds(u, k)' => Holds(u, k)
        BY <2>1, <2>2 DEF locks, Holds
    <2> QED
        BY <2>2, <2>3 DEF LocksInductive, Exclusive
<1> QED
    BY <1>1, <1>2, <1>3, <1>4 DEF LocksNext

\* In a circle each thread would wait for a lock of a higher rank than the one before it.
LEMMA NoCircle == LocksInductive => NoDeadlock
<1> SUFFICES ASSUME LocksInductive, NEW circle \in SUBSET Thread, circle # {},
                    \A t \in circle : \E u \in circle : WaitsFor(t, u)
             PROVE  FALSE
    BY DEF NoDeadlock
<1> DEFINE rank(t) == Rank(todo[t][1].take)
<1>1. \A t \in circle : rank(t) \in 0..4
    BY RankType DEF WaitsFor, Wants
<1>2. ASSUME NEW t \in circle PROVE \E u \in circle : rank(t) < rank(u)
    <2>1. PICK u \in circle, l \in Lock : Wants(t, l) /\ Holds(u, l) /\ (u = t => l \notin Reentrant)
        BY DEF WaitsFor
    <2>2. PICK v \in circle, k \in Lock : Wants(u, k) /\ Holds(v, k) /\ (v = u => k \notin Reentrant)
        BY DEF WaitsFor
    <2>3. todo[u] # <<>> /\ l \in todo[u][1].holding /\ todo[u][1].take = k /\ todo[t][1].take = l
        BY <2>1, <2>2 DEF Wants, Holds
    <2>4. Ranked(todo[u][1])
        <3>1. todo[u] \in Seq(Access) /\ Len(todo[u]) \in Nat /\ Len(todo[u]) # 0
            BY <2>3, LenProperties, EmptySeq DEF LocksInductive
        <3> QED
            BY <3>1 DEF LocksInductive
    <2>5. Before(l, k)
        BY <2>3, <2>4 DEF Ranked
    <2>6. ~(l = k /\ l \in Reentrant)
        BY <2>1, <2>2 DEF LocksInductive, Exclusive
    <2> QED
        BY <2>3, <2>5, <2>6 DEF Before
<1> HIDE DEF rank
<1>3. \E t \in circle : rank(t) >= 0
    BY <1>1
<1>4. \E t \in circle : rank(t) >= 1
    BY <1>1, <1>2, <1>3
<1>5. \E t \in circle : rank(t) >= 2
    BY <1>1, <1>2, <1>4
<1>6. \E t \in circle : rank(t) >= 3
    BY <1>1, <1>2, <1>5
<1>7. \E t \in circle : rank(t) >= 4
    BY <1>1, <1>2, <1>6
<1> QED
    BY <1>1, <1>2, <1>7

\* However many threads and runs there are, no threads wait for each other in a circle.
THEOREM NeverDeadlocked == LocksSpec => []NoDeadlock
<1>1. LocksInductive /\ [LocksNext]_todo => LocksInductive'
    BY LocksStepInductive
<1> QED
    BY <1>1, LocksInitInductive, NoCircle, PTL DEF LocksSpec
-----------------------------------------------------------------------------
(* Scheduler *)

USE TaskAssumption, TimeAssumption, BoundAssumption

\* A jittered delay is a number.
LEMMA JitteredType ==
    ASSUME NEW t \in Task, NEW delay \in Int, NEW d \in Jittered(t, delay)
    PROVE  d \in Int
  BY DEF Jittered

\* In the initial state nothing is in the list and nobody waits.
LEMMA InitInductive == Init => Inductive
<1> SUFFICES ASSUME Init PROVE Inductive
  OBVIOUS
<1>1. TypeOK
  <2>1. /\ left \in [Task -> Int] /\ expired \in [Task -> BOOLEAN]
        /\ pc \in [Caller -> {"idle", "signal", "stop", "join"}]
        /\ calls \in [Caller -> 0 .. MaxCalls]
    BY DEF Init
  <2>2. event \in BOOLEAN /\ stopped \in BOOLEAN
    BY DEF Init
  <2> QED BY <2>1, <2>2 DEF Init, TypeOK
<1>2. ChoiceOk /\ NextOk /\ WokenOk
  BY DEF Init, ChoiceOk, NextOk, WokenOk
<1> QED BY <1>1, <1>2 DEF Inductive

\* A call leaves the thread alone and announces a signal.
LEMMA CallInductive ==
    ASSUME Inductive, NEW c \in Caller, CallerStep(c)
    PROVE  Inductive'
<1> USE DEF Inductive
<1>1. /\ Signalling'
      /\ pc' \in [Caller -> {"idle", "signal", "stop", "join"}]
      /\ calls' \in [Caller -> 0 .. MaxCalls]
      /\ UNCHANGED <<event, at, rest, next, due>>
  <2>1. PICK then \in {"signal", "stop"} : Call(c, then)
    BY DEF CallerStep, create_task, schedule_now, stop_task, stop
  <2>2. pc'[c] = then /\ calls'[c] \in 0 .. MaxCalls
    BY <2>1 DEF Call, TypeOK
  <2> QED BY <2>1, <2>2 DEF Call, TypeOK, Signalling
<1>2. ChoiceOk'
  BY <1>1 DEF ChoiceOk
<1>3. WokenOk'
  BY <1>1 DEF WokenOk
<1>4. TypeOK' /\ NextOk'
  <2>1. ASSUME NEW t \in Task, create_task(c, t) PROVE TypeOK' /\ NextOk'
    <3>1. PICK delay \in Jittered(t, InitialDelay[t]) : left' = [left EXCEPT ![t] = delay]
      BY <2>1 DEF create_task
    <3>2. delay \in Int
      BY <3>1, JitteredType
    <3>3. next # t
      BY <2>1 DEF create_task, TypeOK
    <3> QED BY <1>1, <2>1, <3>1, <3>2, <3>3 DEF create_task, TypeOK, NextOk
  <2>2. ASSUME NEW t \in Task, schedule_now(c, t) PROVE TypeOK' /\ NextOk'
    BY <1>1, <2>2 DEF schedule_now, TypeOK, NextOk
  <2>3. ASSUME NEW t \in Task, stop_task(c, t) PROVE TypeOK' /\ NextOk'
    BY <1>1, <2>3 DEF stop_task, TypeOK, NextOk
  <2>4. ASSUME stop(c) PROVE TypeOK' /\ NextOk'
    BY <1>1, <2>4 DEF stop, TypeOK, NextOk
  <2> QED BY <2>1, <2>2, <2>3, <2>4 DEF CallerStep
<1> QED BY <1>2, <1>3, <1>4

\* The announced signal is the event; a caller that joined is idle again.
LEMMA SignalInductive ==
    ASSUME Inductive, NEW c \in Caller, refresh(c) \/ join(c)
    PROVE  Inductive'
<1>1. CASE refresh(c)
  BY <1>1 DEF refresh, Inductive, TypeOK, ChoiceOk, NextOk, WokenOk
<1>2. CASE join(c)
  BY <1>2 DEF join, Inductive, TypeOK, ChoiceOk, NextOk, WokenOk
<1> QED BY <1>1, <1>2

\* The thread starts a plan, unless it was stopped: then no task has been visited.
LEMMA PlanInductive == ASSUME Inductive, Plan PROVE Inductive'
<1>1. TypeOK'
  BY DEF Plan, Inductive, TypeOK
<1>2. ChoiceOk'
  BY DEF Plan, Inductive, ChoiceOk, Signalling
<1>3. NextOk'
  BY DEF Plan, Inductive, TypeOK, NextOk
<1>4. WokenOk'
  BY DEF Plan, WokenOk
<1> QED BY <1>1, <1>2, <1>3, <1>4 DEF Inductive

\* Visiting a task keeps the choice the earliest of the visited ones.
LEMMA VisitInductive == ASSUME Inductive, NEW t \in Task, Visit(t) PROVE Inductive'
<1> USE DEF Inductive
<1>1. TypeOK'
  BY DEF Visit, TypeOK
<1>2. ChoiceOk'
  BY DEF Visit, TypeOK, ChoiceOk, Signalling, Earlier
<1>3. NextOk'
  BY DEF Visit, TypeOK, NextOk
<1>4. WokenOk'
  BY DEF Visit, WokenOk
<1> QED BY <1>1, <1>2, <1>3, <1>4

\* Waking up and deciding keep the choice.
LEMMA WakeInductive == ASSUME Inductive, Wake \/ Decide PROVE Inductive'
<1> USE DEF Inductive
<1>1. CASE Wake
  BY <1>1 DEF Wake, Waiting, TypeOK, ChoiceOk, NextOk, WokenOk, Signalling
<1>2. CASE Decide
  BY <1>2 DEF Decide, MayWork, TypeOK, ChoiceOk, NextOk, WokenOk
<1> QED BY <1>1, <1>2

\* The end of a task and the clearing of the event forget the choice.
LEMMA FinishInductive == ASSUME Inductive, FinishWork \/ Clear PROVE Inductive'
<1> USE DEF Inductive
<1>1. CASE FinishWork
  <2>1. next \in Task
    BY <1>1 DEF FinishWork, TypeOK
  <2>2. ASSUME NEW delay \in Jittered(next, Later(left[next] + Period[next], MinDelay[next]))
        PROVE  delay \in Int
    <3>1. Later(left[next] + Period[next], MinDelay[next]) \in Int
      BY <2>1 DEF TypeOK, Later
    <3> QED BY <2>1, <2>2, <3>1, JitteredType
  <2>3. TypeOK'
    BY <1>1, <2>1, <2>2 DEF FinishWork, TypeOK
  <2> QED BY <1>1, <2>3 DEF FinishWork, ChoiceOk, NextOk, WokenOk
<1>2. CASE Clear
  <2>1. TypeOK'
    <3>1. due' \in Int
      BY <1>2 DEF Clear
    <3>2. next' \in created' \cup {NoTask}
      BY <1>2 DEF Clear
    <3>3. event' \in BOOLEAN /\ at' = "plan"
      BY <1>2 DEF Clear
    <3> QED BY <1>2, <3>1, <3>2, <3>3 DEF Clear, TypeOK
  <2> QED BY <1>2, <2>1 DEF Clear, ChoiceOk, NextOk, WokenOk
<1> QED BY <1>1, <1>2

\* All times pass at the same rate.
LEMMA TickInductive == ASSUME Inductive, Tick PROVE Inductive'
<1> USE DEF Inductive
<1>1. TypeOK'
  BY DEF Tick, TypeOK
<1>2. ChoiceOk'
  BY DEF Tick, TypeOK, ChoiceOk, Live, Signalling
<1>3. NextOk'
  BY DEF Tick, TypeOK, NextOk, Live
<1>4. WokenOk'
  BY DEF Tick, TypeOK, WokenOk
<1> QED BY <1>1, <1>2, <1>3, <1>4

\* The inductive invariant holds in every reachable state: the thread's choice is
\* right or a signal is on its way (__next_schedule, _refresh).
THEOREM AlwaysInductive == Spec => []Inductive
<1>1. Inductive /\ [Next]_vars => Inductive'
  <2> SUFFICES ASSUME Inductive, [Next]_vars PROVE Inductive'
    OBVIOUS
  <2>1. ASSUME NEW c \in Caller, CallerStep(c) PROVE Inductive'
    BY <2>1, CallInductive
  <2>2. ASSUME NEW c \in Caller, refresh(c) \/ join(c) PROVE Inductive'
    BY <2>2, SignalInductive
  <2>3. CASE SchedulerStep
    BY <2>3, PlanInductive, VisitInductive, WakeInductive, FinishInductive DEF SchedulerStep
  <2>4. CASE Tick
    BY <2>4, TickInductive
  <2>5. CASE UNCHANGED vars
    BY <2>5 DEF vars, Inductive, TypeOK, ChoiceOk, NextOk, WokenOk, Signalling
  <2> QED BY <2>1, <2>2, <2>3, <2>4, <2>5 DEF Next
<1> QED BY InitInductive, <1>1, PTL DEF Spec

\* A thread that waits, and that nobody is about to wake, wakes in time for every
\* task and was not asked to stop (Event.wait, clear and set in scheduler.py).
THEOREM SignalsArrive == Spec => []NoLostSignal
<1>1. Inductive => NoLostSignal
  BY DEF Inductive, ChoiceOk, NoLostSignal, Waiting
<1> QED BY <1>1, AlwaysInductive, PTL

\* A task is executed at a scheduling point of its own, never early and never after
\* it was stopped (__next_schedule, _do_work).
THEOREM ExecutedWhenDue == Spec => OnlyDue
<1>1. Inductive /\ [Next]_vars =>
          [at # "work" /\ at' = "work" => next \in tasks /\ ~expired[next] /\ left[next] <= 0]_vars
  <2> SUFFICES ASSUME Inductive, Next, at # "work", at' = "work"
               PROVE  next \in tasks /\ ~expired[next] /\ left[next] <= 0
    BY DEF vars
  <2>1. Decide
    <3>1. ASSUME NEW c \in Caller, CallerStep(c) \/ refresh(c) \/ join(c) PROVE at' = at
      BY <3>1 DEF CallerStep, create_task, schedule_now, stop_task, stop, Call, refresh, join
    <3>2. ~(Plan \/ Wake \/ FinishWork \/ Clear \/ Tick)
      BY DEF Plan, Wake, FinishWork, Clear, Tick
    <3>3. ASSUME NEW t \in Task, Visit(t) PROVE at' = at
      BY <3>3 DEF Visit
    <3> QED BY <3>1, <3>2, <3>3 DEF Next, SchedulerStep
  <2>2. at = "woken" /\ MayWork
    BY <2>1 DEF Decide
  <2>3. next \in tasks /\ due <= 0 /\ (left[next] <= due \/ left[next] <= 0)
    BY <2>2 DEF Inductive, NextOk, WokenOk, MayWork
  <2> QED BY <2>2, <2>3 DEF Inductive, TypeOK, MayWork
<1> QED BY <1>1, AlwaysInductive, PTL DEF Spec, OnlyDue
=============================================================================
