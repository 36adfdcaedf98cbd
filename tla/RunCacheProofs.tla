--------------------------- MODULE RunCacheProofs ---------------------------
(***************************************************************************)
(* The cache keeps one copy of a run, loses no change, and implements the  *)
(* store, for every number of runs, objects, handlers and changes.         *)
(*                                                                         *)
(* The proof.  Sound says what the cache and the threads look like.  That  *)
(* what is read is what was last changed, and that every change is marked  *)
(* or being saved, support each other: a run is dropped only when unmarked, *)
(* and what it loses then is what went adrift.                             *)
(***************************************************************************)
EXTENDS RunCache, TLAPS

Active == [at : {"got", "changed", "save"}, run : Run, obj : Obj]
Writing == [at : {"write"}, run : Run, obj : Obj, version : Nat]

(* An entry of the cache is not the absence of one. *)
LEMMA EntryIsSome ==
  ASSUME NEW e \in Entry
  PROVE  e # NoEntry
<1>1. DOMAIN e = {"obj", "changed", "priority", "age", "idle"}
  BY DEF Entry
<1>2. DOMAIN NoEntry = {"obj"}
  BY DEF NoEntry
<1> QED
  BY <1>1, <1>2

(* The entries that get_run() and buffer() make are entries. *)
LEMMA FreshIsEntry ==
  ASSUME NEW o \in Obj
  PROVE  Fresh(o) \in Entry /\ Fresh(o).obj = o /\ ~Fresh(o).changed /\ ~Fresh(o).idle
BY NumberAssumption DEF Fresh, Entry

(* buffer() marks the entry, whatever it was. *)
LEMMA BufferedIsEntry ==
  ASSUME NEW e \in Entry \cup {NoEntry}, NEW o \in Obj, NEW p \in 0 .. 2
  PROVE  /\ Buffered(e, o, p) \in Entry
         /\ Buffered(e, o, p).obj = o
         /\ Buffered(e, o, p).changed
         /\ ~Buffered(e, o, p).idle
BY NumberAssumption DEF Buffered, Entry

(* A flush of another run changes the age of an entry only. *)
LEMMA OlderIsEntry ==
  ASSUME NEW e \in Entry
  PROVE  /\ Older(e) \in Entry
         /\ Older(e).obj = e.obj
         /\ Older(e).changed = e.changed
         /\ Older(e).idle = e.idle
BY NumberAssumption DEF Older, Entry

(* A flush of an entry marks it as saved. *)
LEMMA SyncedIsEntry ==
  ASSUME NEW e \in Entry
  PROVE  /\ Synced(e) \in Entry
         /\ Synced(e).obj = e.obj
         /\ ~Synced(e).changed
         /\ Synced(e).idle = e.idle
<1>1. 0 \in 0 .. 2 /\ 0 \in 0 .. MaxAge
  BY NumberAssumption
<1> QED
  BY <1>1 DEF Synced, Entry

(* What a thread that is not idle works on. *)
LEMMA PlaceOf ==
  ASSUME TypeOK, NEW t \in Thread
  PROVE  /\ pc[t] = Idle \/ pc[t] \in Active \/ pc[t] \in Writing
         /\ pc[t].at \in {"got", "changed", "save"} => pc[t] \in Active
         /\ pc[t].at = "write" => pc[t] \in Writing
         /\ pc[t].at # "idle" => pc[t] # Idle
         /\ pc[t] # Idle => /\ pc[t].run \in Run /\ pc[t].obj \in Obj
                            /\ pc[t].at \in {"got", "changed", "save", "write"}
<1>1. pc[t] = Idle \/ pc[t] \in Active \/ pc[t] \in Writing
  BY DEF TypeOK, Active, Writing
<1>2. CASE pc[t] = Idle
  BY <1>2 DEF Idle
<1>3. CASE pc[t] \in Active
  BY <1>3 DEF Active, Idle
<1>4. CASE pc[t] \in Writing
  BY <1>4 DEF Writing, Idle
<1> QED
  BY <1>1, <1>2, <1>3, <1>4

----------------------------------------------------------------------------
(* Sound is preserved by every action. *)

(* The threads, and that handlers are not the others. *)
LEMMA Threads ==
  /\ Main \in Thread /\ Sched \in Thread /\ Main # Sched
  /\ \A h \in Handler : h \in Thread /\ h # Main /\ h # Sched
BY ThreadAssumption DEF Thread

(* An object that is not referenced is the object of no entry and no thread. *)
LEMMA Unreferenced ==
  ASSUME NEW o \in Obj \ Referenced
  PROVE  /\ \A r \in Run : Cached(r) => cache[r].obj # o
         /\ \A t \in Thread : pc[t] # Idle => pc[t].obj # o
BY DEF Referenced

(* A thread starts to work on a run, with the object that the cache has from now
   on: the one it had, or a fresh one. *)
Take(t, r, step) ==
    /\ t \in Thread /\ r \in Run /\ pc[t] = Idle
    /\ pc' = [pc EXCEPT ![t] = At(step, r, cache'[r].obj)]
    /\ cache'[r] \in Entry /\ ~cache'[r].idle
    /\ cache' = [cache EXCEPT ![r] = cache'[r]]
    /\ \/ Cached(r) /\ cache'[r].obj = cache[r].obj /\ heap' = heap
       \/ /\ ~Cached(r)
          /\ cache'[r].obj \in Obj \ Referenced
          /\ heap'[cache'[r].obj] \in db[r] .. latest'[r]
          /\ 0 < heap'[cache'[r].obj]
          /\ heap' = [heap EXCEPT ![cache'[r].obj] = heap'[cache'[r].obj]]

(* Such a step keeps one copy. *)
LEMMA TakeSound ==
  ASSUME Sound, NEW t \in Thread \ {Main}, NEW r \in Run, NEW step \in {"got", "save"},
         Take(t, r, step), phase = "up", UNCHANGED <<db, todo, phase>>,
         latest' \in [Run -> Nat], \A q \in Run : latest[q] <= latest'[q],
         UNCHANGED adrift
  PROVE  Sound'
<1> USE DEF Sound
<1> DEFINE o == cache'[r].obj
<1>1. o \in Obj /\ cache'[r] # NoEntry /\ cache' \in [Run -> Entry \cup {NoEntry}]
  BY EntryIsSome DEF Take, TypeOK, Entry
<1>2. \A q \in Run : q # r => cache'[q] = cache[q]
  BY DEF Take, TypeOK
<1>3. /\ pc'[t] = At(step, r, o) /\ pc'[t] # Idle /\ pc'[t].at \in {"got", "save"}
      /\ pc'[t].run = r /\ pc'[t].obj = o
      /\ \A s \in Thread : s # t => pc'[s] = pc[s]
  BY DEF Take, TypeOK, At, Idle
<1>4. /\ \A q \in Run : q # r /\ Cached(q) => cache[q].obj # o
      /\ ~Cached(r) => \A s \in Thread : pc[s] # Idle => pc[s].obj # o
  <2>1. CASE Cached(r)
    BY <2>1 DEF Take, OneCopy
  <2>2. CASE ~Cached(r)
    BY <2>2, Unreferenced DEF Take
  <2> QED
    BY <2>1, <2>2
<1>5. /\ heap' \in [Obj -> Nat]
      /\ \A p \in Obj : p # o => heap'[p] = heap[p]
      /\ 0 < heap'[o] /\ db[r] <= heap'[o] /\ heap'[o] <= latest'[r]
  <2>1. CASE Cached(r)
    BY <1>1, <2>1 DEF Take, TypeOK, VersionsOk
  <2>2. CASE ~Cached(r)
    BY <1>1, <2>2 DEF Take, TypeOK
  <2> QED
    BY <2>1, <2>2
<1>6. TypeOK'
  BY <1>1, <1>3, <1>5 DEF TypeOK, Take, At
<1>7. OneCopy'
  BY <1>1, <1>2, <1>3, <1>4 DEF OneCopy, WorkingOn, Cached, Take
<1>8. IdleUnused'
  BY <1>1, <1>2, <1>3 DEF IdleUnused, WorkingOn, Cached, Take
<1>9. PhasesOk'
  BY <1>3, Threads DEF PhasesOk
<1>10. OneWriter'
  BY <1>3 DEF OneWriter
<1>11. VersionsOk'
  <2>1. \A q \in Run : db'[q] <= latest'[q]
    BY DEF TypeOK, VersionsOk
  <2>2. ASSUME NEW q \in Run, q # r, Cached(q)'
        PROVE  /\ 0 < heap'[cache'[q].obj] /\ db'[q] <= heap'[cache'[q].obj]
               /\ heap'[cache'[q].obj] <= latest'[q]
    BY <1>2, <1>4, <1>5, <2>2 DEF TypeOK, VersionsOk, Cached, Entry
  <2>3. ASSUME NEW s \in Thread, pc'[s].at = "write"
        PROVE  /\ 0 < pc'[s].version /\ db'[pc'[s].run] <= pc'[s].version
               /\ pc'[s].version <= heap'[pc'[s].obj]
    <3>1. s # t /\ pc'[s] = pc[s] /\ pc[s].obj \in Obj /\ pc[s].run \in Run /\ pc[s] # Idle
      BY <1>3, <2>3, PlaceOf DEF Writing
    <3>2. CASE Cached(r)
      <4>1. heap' = heap
        BY <3>2 DEF Take
      <4> QED
        BY <2>3, <3>1, <4>1 DEF VersionsOk
    <3>3. CASE ~Cached(r)
      BY <1>4, <1>5, <2>3, <3>1, <3>3 DEF VersionsOk
    <3> QED
      BY <3>2, <3>3
  <2> QED
    BY <1>5, <2>1, <2>2, <2>3 DEF VersionsOk
<1> QED
  BY <1>6, <1>7, <1>8, <1>9, <1>10, <1>11

(* A run that is not in the cache is worked on by nobody: getting it makes the only
   copy. *)
LEMMA GetRunTakes ==
  ASSUME Sound, NEW h \in Handler, NEW r \in Run, GetRun(h, r)
  PROVE  Take(h, r, "got")
<1>0. h \in Thread /\ pc[h] = Idle
  BY Threads DEF GetRun
<1>1. CASE Cached(r) /\ UNCHANGED heap /\ cache' = [cache EXCEPT ![r].idle = FALSE]
           /\ pc' = [pc EXCEPT ![h] = At("got", r, cache[r].obj)]
  <2>1. cache[r] \in Entry
    BY <1>1 DEF Sound, TypeOK, Cached
  <2>2. /\ cache'[r] = [cache[r] EXCEPT !.idle = FALSE]
        /\ cache' = [cache EXCEPT ![r] = cache'[r]]
    BY <1>1 DEF Sound, TypeOK
  <2>3. cache'[r] \in Entry /\ cache'[r].obj = cache[r].obj /\ ~cache'[r].idle
    BY <2>1, <2>2 DEF Entry
  <2> QED
    BY <1>0, <1>1, <2>2, <2>3 DEF Take
<1>2. CASE ~Cached(r)
  <2>1. PICK o \in Obj \ Referenced : /\ heap' = [heap EXCEPT ![o] = db[r]]
                                      /\ cache' = [cache EXCEPT ![r] = Fresh(o)]
                                      /\ pc' = [pc EXCEPT ![h] = At("got", r, o)]
    BY <1>2 DEF GetRun
  <2>2. cache'[r] = Fresh(o) /\ cache' = [cache EXCEPT ![r] = cache'[r]]
    BY <2>1 DEF Sound, TypeOK
  <2>3. cache'[r] \in Entry /\ cache'[r].obj = o /\ ~cache'[r].idle
    BY <2>2, FreshIsEntry
  <2>4. heap'[o] = db[r] /\ db[r] \in Nat /\ 0 < db[r] /\ latest'[r] = latest[r]
    BY <1>2, <2>1 DEF Sound, TypeOK, GetRun
  <2>5. db[r] <= latest[r] /\ latest[r] \in Nat
    BY DEF Sound, VersionsOk, TypeOK
  <2>6. db[r] \in db[r] .. latest[r]
    BY <2>4, <2>5
  <2> QED
    BY <1>0, <1>2, <2>1, <2>2, <2>3, <2>4, <2>6 DEF Take
<1> QED
  BY <1>1, <1>2 DEF GetRun

(* A new run is not in the cache. *)
LEMMA NewRunTakes ==
  ASSUME Sound, NEW h \in Handler, NEW r \in Run, NewRun(h, r)
  PROVE  Take(h, r, "save") /\ ~Cached(r)
<1>0. h \in Thread /\ pc[h] = Idle
  BY Threads DEF NewRun
<1>1. ~Cached(r) /\ db[r] \in Nat /\ db[r] <= 0
  BY DEF Sound, TypeOK, VersionsOk, NewRun, Cached, Entry
<1>2. PICK o \in Obj \ Referenced : /\ heap' = [heap EXCEPT ![o] = 1]
                                    /\ cache' = [cache EXCEPT ![r] = Fresh(o)]
                                    /\ pc' = [pc EXCEPT ![h] = At("save", r, o)]
  BY DEF NewRun
<1>3. cache'[r] = Fresh(o) /\ cache' = [cache EXCEPT ![r] = cache'[r]]
  BY <1>2 DEF Sound, TypeOK
<1>4. cache'[r] \in Entry /\ cache'[r].obj = o /\ ~cache'[r].idle
  BY <1>3, FreshIsEntry
<1>5. heap'[o] = 1 /\ latest'[r] = 1
  BY <1>2 DEF Sound, TypeOK, NewRun
<1>6. heap'[o] \in db[r] .. latest'[r] /\ 0 < heap'[o]
  BY <1>1, <1>5
<1>7. heap' = [heap EXCEPT ![o] = heap'[o]] /\ o \in Obj \ Referenced
  BY <1>2, <1>5
<1>8. pc' = [pc EXCEPT ![h] = At("save", r, cache'[r].obj)]
  BY <1>2, <1>4
<1> QED
  BY <1>0, <1>1, <1>3, <1>4, <1>6, <1>7, <1>8 DEF Take

(* get_run() and new_run() keep one copy. *)
LEMMA GetRunSound ==
  ASSUME Sound, NEW h \in Handler, NEW r \in Run, GetRun(h, r)
  PROVE  Sound'
<1>1. UNCHANGED <<db, latest, todo, phase, adrift>> /\ phase = "up"
  BY DEF GetRun
<1>2. latest' \in [Run -> Nat] /\ \A q \in Run : latest[q] <= latest'[q]
  BY <1>1 DEF Sound, TypeOK
<1> QED
  BY <1>1, <1>2, GetRunTakes, TakeSound, Threads

(* new_run() keeps one copy. *)
LEMMA NewRunSound ==
  ASSUME Sound, NEW h \in Handler, NEW r \in Run, NewRun(h, r)
  PROVE  Sound'
<1>1. UNCHANGED <<db, todo, phase, adrift>> /\ phase = "up"
  BY DEF NewRun
<1>2. latest' \in [Run -> Nat] /\ \A q \in Run : latest[q] <= latest'[q]
  BY DEF Sound, TypeOK, NewRun
<1> QED
  BY <1>1, <1>2, NewRunTakes, TakeSound, Threads

(* A thread goes on with its run, or ends; the entry of the run may be replaced by
   one with the same object. *)
Proceed(t) ==
    LET r == pc[t].run
    IN  /\ t \in Thread /\ pc[t] # Idle
        /\ pc' = [pc EXCEPT ![t] = pc'[t]]
        /\ \/ pc'[t] = Idle
           \/ /\ pc'[t] \in Active \cup Writing
              /\ pc'[t].run = r /\ pc'[t].obj = pc[t].obj
        /\ cache'[r] \in Entry /\ cache'[r].obj = pc[t].obj
        /\ cache' = [cache EXCEPT ![r] = cache'[r]]
        /\ cache'[r].idle => cache[r].idle

(* Such a step keeps one copy, one writer, and versions that do not go back. *)
LEMMA ProceedSound ==
  ASSUME Sound, NEW t \in Thread, Proceed(t), UNCHANGED <<todo, phase>>,
         adrift' \subseteq Run,
         phase = "flushing" => t = Main /\ cache' = cache,
         pc'[t].at = "write" => /\ Holding(pc[t].run) = {}
                                /\ pc'[t].version = heap[pc[t].obj],
         \/ UNCHANGED <<db, heap, latest>>
         \/ /\ UNCHANGED <<heap, latest>> /\ pc[t].at = "write" /\ pc'[t] = Idle
            /\ db' = [db EXCEPT ![pc[t].run] = pc[t].version]
         \/ /\ UNCHANGED db /\ pc[t].at = "got"
            /\ heap' = [heap EXCEPT ![pc[t].obj] = @ + 1]
            /\ latest' = [latest EXCEPT ![pc[t].run] = @ + 1]
  PROVE  Sound'
<1> USE DEF Sound
<1> DEFINE r == pc[t].run
           o == pc[t].obj
<1>1. /\ r \in Run /\ o \in Obj /\ Cached(r) /\ cache[r] \in Entry /\ cache[r].obj = o
      /\ pc[t] \in Active \cup Writing
  <2>1. pc[t] \in Active \cup Writing
    BY PlaceOf DEF Proceed
  <2>2. r \in Run /\ o \in Obj
    BY PlaceOf DEF Proceed
  <2>3. Cached(r) /\ cache[r].obj = o
    BY <2>2 DEF OneCopy, WorkingOn, Proceed
  <2> QED
    BY <2>1, <2>2, <2>3 DEF Cached, TypeOK
<1>2. /\ cache'[r] \in Entry /\ cache'[r] # NoEntry /\ cache'[r].obj = o
      /\ \A q \in Run : q # r => cache'[q] = cache[q]
      /\ cache' \in [Run -> Entry \cup {NoEntry}]
  BY <1>1, EntryIsSome DEF Proceed, TypeOK
<1>3. \A s \in Thread : s # t => pc'[s] = pc[s]
  BY DEF Proceed, TypeOK
<1>4. pc' \in [Thread -> {Idle} \cup Active \cup Writing]
  BY DEF Proceed, TypeOK, Active, Writing
<1>5. \A q \in Run : q # r /\ Cached(q) => cache[q].obj # o
  BY <1>1 DEF OneCopy
<1>6. db' \in [Run -> Nat] /\ heap' \in [Obj -> Nat] /\ latest' \in [Run -> Nat]
  BY <1>1, PlaceOf DEF TypeOK, Writing
<1>7. TypeOK'
  BY <1>2, <1>4, <1>6 DEF TypeOK, Active, Writing
<1>8. OneCopy'
  BY <1>1, <1>2, <1>3, <1>5 DEF OneCopy, WorkingOn, Cached, Proceed
<1>9. IdleUnused'
  BY <1>1, <1>2, <1>3 DEF IdleUnused, WorkingOn, Cached, Proceed
<1>10. PhasesOk'
  <2>1. CASE phase = "flushing"
    BY <1>1, <1>2, <1>3, <2>1 DEF PhasesOk, Changed, Cached
  <2>2. CASE phase # "flushing"
    BY <1>3, <2>2, Threads DEF PhasesOk, Proceed
  <2> QED
    BY <2>1, <2>2
<1>11. OneWriter'
  BY <1>1, <1>3, PlaceOf DEF OneWriter, Proceed, Holding, WorkingOn, Idle, Writing
<1>12. VersionsOk'
  <2>0. /\ 0 < heap[o] /\ db[r] <= heap[o] /\ heap[o] <= latest[r]
        /\ heap[o] \in Nat /\ db[r] \in Nat /\ latest[r] \in Nat
    BY <1>1 DEF VersionsOk, TypeOK
  <2>1. CASE UNCHANGED <<db, heap, latest>>
    <3>1. ASSUME NEW q \in Run, Cached(q)'
          PROVE  Cached(q) /\ cache'[q].obj = cache[q].obj
      BY <1>1, <1>2, <3>1 DEF Cached
    <3>2. ASSUME NEW s \in Thread, pc'[s].at = "write"
          PROVE  /\ 0 < pc'[s].version /\ db[pc'[s].run] <= pc'[s].version
                 /\ pc'[s].version <= heap[pc'[s].obj]
      <4>1. CASE s = t
        BY <2>0, <3>2, <4>1 DEF Proceed, Idle
      <4>2. CASE s # t
        BY <1>3, <3>2, <4>2 DEF VersionsOk
      <4> QED
        BY <4>1, <4>2
    <3> QED
      BY <2>1, <3>1, <3>2 DEF VersionsOk
  <2>2. CASE /\ UNCHANGED <<heap, latest>> /\ pc[t].at = "write" /\ pc'[t] = Idle
             /\ db' = [db EXCEPT ![r] = pc[t].version]
    <3>1. /\ 0 < pc[t].version /\ db[r] <= pc[t].version /\ pc[t].version <= heap[o]
          /\ pc[t].version \in Nat
      BY <2>2, PlaceOf DEF VersionsOk, Writing
    <3>2. /\ db'[r] = pc[t].version
          /\ \A q \in Run : q # r => db'[q] = db[q]
      BY <1>1, <2>2 DEF TypeOK
    <3>3. \A q \in Run : db'[q] <= latest[q]
      BY <2>0, <3>1, <3>2 DEF VersionsOk
    <3>4. ASSUME NEW q \in Run, Cached(q)'
          PROVE  /\ 0 < heap[cache'[q].obj] /\ db'[q] <= heap[cache'[q].obj]
                 /\ heap[cache'[q].obj] <= latest[q]
      BY <1>1, <1>2, <2>0, <3>1, <3>2, <3>4 DEF VersionsOk, Cached
    <3>5. ASSUME NEW s \in Thread, pc'[s].at = "write"
          PROVE  /\ 0 < pc'[s].version /\ db'[pc'[s].run] <= pc'[s].version
                 /\ pc'[s].version <= heap[pc'[s].obj]
      <4>1. s # t /\ pc'[s] = pc[s] /\ pc[s].run \in Run /\ pc[s].run # r
        BY <1>3, <2>2, <3>5, PlaceOf DEF Idle, OneWriter, Writing
      <4> QED
        BY <3>2, <3>5, <4>1 DEF VersionsOk
    <3> QED
      BY <2>2, <3>3, <3>4, <3>5 DEF VersionsOk
  <2>3. CASE /\ UNCHANGED db /\ pc[t].at = "got"
             /\ heap' = [heap EXCEPT ![o] = @ + 1]
             /\ latest' = [latest EXCEPT ![r] = @ + 1]
    <3>1. /\ heap'[o] = heap[o] + 1 /\ latest'[r] = latest[r] + 1
          /\ \A p \in Obj : p # o => heap'[p] = heap[p]
          /\ \A q \in Run : q # r => latest'[q] = latest[q]
      BY <1>1, <2>3 DEF TypeOK
    <3>2. \A q \in Run : db[q] <= latest'[q]
      BY <2>0, <3>1 DEF VersionsOk
    <3>3. ASSUME NEW q \in Run, Cached(q)'
          PROVE  /\ 0 < heap'[cache'[q].obj] /\ db[q] <= heap'[cache'[q].obj]
                 /\ heap'[cache'[q].obj] <= latest'[q]
      <4>1. CASE q = r
        BY <1>2, <2>0, <3>1, <4>1
      <4>2. CASE q # r
        <5>1. Cached(q) /\ cache'[q] = cache[q] /\ cache[q].obj \in Obj /\ cache[q].obj # o
          BY <1>2, <1>5, <3>3, <4>2 DEF Cached, TypeOK, Entry
        <5> QED
          BY <3>1, <4>2, <5>1 DEF VersionsOk
      <4> QED
        BY <4>1, <4>2
    <3>4. ASSUME NEW s \in Thread, pc'[s].at = "write"
          PROVE  /\ 0 < pc'[s].version /\ db[pc'[s].run] <= pc'[s].version
                 /\ pc'[s].version <= heap'[pc'[s].obj]
      <4>1. CASE s = t
        BY <2>0, <3>1, <3>4, <4>1 DEF Proceed, Idle
      <4>2. CASE s # t
        <5>1. pc'[s] = pc[s] /\ pc[s].obj \in Obj /\ pc[s].version \in Nat
          BY <1>3, <3>4, <4>2, PlaceOf DEF Writing
        <5>2. heap[pc[s].obj] \in Nat /\ heap'[pc[s].obj] >= heap[pc[s].obj]
          BY <2>0, <3>1, <5>1 DEF TypeOK
        <5> QED
          BY <2>3, <3>4, <5>1, <5>2 DEF VersionsOk
      <4> QED
        BY <4>1, <4>2
    <3> QED
      BY <2>3, <3>2, <3>3, <3>4 DEF VersionsOk
  <2> QED
    BY <2>1, <2>2, <2>3
<1> QED
  BY <1>7, <1>8, <1>9, <1>10, <1>11, <1>12

(* A thread that is not idle has the object of the entry of its run. *)
LEMMA HasEntry ==
  ASSUME Sound, NEW t \in Thread, pc[t] # Idle
  PROVE  /\ pc[t].run \in Run /\ pc[t].obj \in Obj /\ pc[t] \in Active \cup Writing
         /\ Cached(pc[t].run) /\ cache[pc[t].run] \in Entry
         /\ cache[pc[t].run].obj = pc[t].obj
         /\ phase = "flushing" => t = Main
         /\ phase # "down"
         /\ t = Main => phase = "flushing"
<1>1. pc[t].run \in Run /\ pc[t].obj \in Obj /\ pc[t] \in Active \cup Writing
  BY PlaceOf DEF Sound
<1>2. Cached(pc[t].run) /\ cache[pc[t].run].obj = pc[t].obj
  BY <1>1 DEF Sound, OneCopy, WorkingOn
<1> QED
  BY <1>1, <1>2 DEF Cached, Sound, TypeOK, PhasesOk

(* What a handler does with its run is to proceed. *)
LEMMA ContinueProceeds ==
  ASSUME Sound, NEW h \in Handler, Continue(h)
  PROVE  Proceed(h)
<1> DEFINE r == pc[h].run
<1>1. h \in Thread /\ pc[h].at # "idle" /\ pc[h] # Idle
  BY Threads DEF Continue, Done, Change, Touch, Buffer, BufferNow, Forget, Idle
<1>2. /\ r \in Run /\ pc[h].obj \in Obj
      /\ cache[r] \in Entry /\ cache[r].obj = pc[h].obj
  BY <1>1, HasEntry
<1>3. pc \in [Thread -> {Idle} \cup Active \cup Writing] /\ cache \in [Run -> Entry \cup {NoEntry}]
  BY DEF Sound, TypeOK, Active, Writing
<1>4. pc[h] \in Active
  BY <1>1, PlaceOf DEF Sound, Continue, Done, Change, Touch, Buffer, BufferNow, Forget
<1>5. CASE Done(h) \/ Forget(h)
  <2>1. pc' = [pc EXCEPT ![h] = Idle] /\ UNCHANGED cache
    BY <1>5 DEF Done, Forget
  <2> QED
    BY <1>1, <1>2, <1>3, <2>1 DEF Proceed
<1>6. CASE Change(h) \/ Touch(h)
  <2>1. pc' = [pc EXCEPT ![h].at = "changed"] /\ UNCHANGED cache
    BY <1>6 DEF Change, Touch
  <2>2. pc'[h] \in Active /\ pc'[h].run = r /\ pc'[h].obj = pc[h].obj /\ pc' = [pc EXCEPT ![h] = pc'[h]]
    BY <1>1, <1>3, <1>4, <2>1 DEF Active
  <2> QED
    BY <1>1, <1>2, <1>3, <2>1, <2>2 DEF Proceed
<1>7. CASE Buffer(h)
  <2>1. PICK p \in 0 .. 2 : cache' = [cache EXCEPT ![r] = Buffered(@, pc[h].obj, p)]
    BY <1>7 DEF Buffer
  <2>2. cache'[r] = Buffered(cache[r], pc[h].obj, p) /\ cache' = [cache EXCEPT ![r] = cache'[r]]
    BY <1>2, <1>3, <2>1
  <2>3. cache'[r] \in Entry /\ cache'[r].obj = pc[h].obj /\ ~cache'[r].idle
    BY <1>2, <2>2, BufferedIsEntry
  <2>4. pc' = [pc EXCEPT ![h] = Idle]
    BY <1>7 DEF Buffer
  <2> QED
    BY <1>1, <1>2, <1>3, <2>2, <2>3, <2>4 DEF Proceed
<1>8. CASE BufferNow(h)
  <2>1. cache'[r] = Fresh(pc[h].obj) /\ cache' = [cache EXCEPT ![r] = cache'[r]]
    BY <1>2, <1>3, <1>8 DEF BufferNow
  <2>2. cache'[r] \in Entry /\ cache'[r].obj = pc[h].obj /\ ~cache'[r].idle
    BY <1>2, <2>1, FreshIsEntry
  <2>3. pc' = [pc EXCEPT ![h].at = "save"]
    BY <1>8 DEF BufferNow
  <2>4. pc'[h] \in Active /\ pc'[h].run = r /\ pc'[h].obj = pc[h].obj /\ pc' = [pc EXCEPT ![h] = pc'[h]]
    BY <1>1, <1>3, <1>4, <2>3 DEF Active
  <2> QED
    BY <1>1, <1>2, <2>1, <2>2, <2>4 DEF Proceed
<1> QED
  BY <1>5, <1>6, <1>7, <1>8 DEF Continue

(* A write of a run is a Proceed step too. *)
LEMMA SaveProceeds ==
  ASSUME Sound, NEW t \in Thread, Save(t)
  PROVE  Proceed(t)
<1> DEFINE r == pc[t].run
<1>1. pc[t].at # "idle" /\ pc[t] # Idle /\ UNCHANGED cache
  BY DEF Save, Encode, Write, WriteFails, Idle
<1>2. /\ r \in Run /\ pc[t].obj \in Obj
      /\ cache[r] \in Entry /\ cache[r].obj = pc[t].obj
  BY <1>1, HasEntry
<1>3. /\ pc \in [Thread -> {Idle} \cup Active \cup Writing]
      /\ cache \in [Run -> Entry \cup {NoEntry}] /\ heap \in [Obj -> Nat]
  BY DEF Sound, TypeOK, Active, Writing
<1>4. CASE Encode(t)
  <2>1. pc'[t] = [at |-> "write", run |-> r, obj |-> pc[t].obj, version |-> heap[pc[t].obj]]
    BY <1>3, <1>4 DEF Encode
  <2>2. pc'[t] \in Writing /\ pc'[t].run = r /\ pc'[t].obj = pc[t].obj
    BY <1>2, <1>3, <2>1 DEF Writing
  <2>3. pc' = [pc EXCEPT ![t] = pc'[t]]
    BY <1>3, <1>4 DEF Encode
  <2> QED
    BY <1>1, <1>2, <1>3, <2>2, <2>3 DEF Proceed
<1>5. CASE Write(t) \/ WriteFails(t)
  <2>1. pc' = [pc EXCEPT ![t] = Idle]
    BY <1>5 DEF Write, WriteFails
  <2> QED
    BY <1>1, <1>2, <1>3, <2>1 DEF Proceed
<1> QED
  BY <1>4, <1>5 DEF Save

(* What handlers do with their runs keeps one copy. *)
LEMMA ContinueSound ==
  ASSUME Sound, NEW h \in Handler, Continue(h)
  PROVE  Sound'
<1>1. Proceed(h)
  BY ContinueProceeds
<1>2. h \in Thread /\ pc[h] # Idle /\ pc \in [Thread -> {Idle} \cup Active \cup Writing]
  BY <1>1 DEF Proceed, Sound, TypeOK, Active, Writing
<1>3. UNCHANGED <<todo, phase>> /\ phase # "flushing"
  BY <1>2, HasEntry, Threads DEF Continue, Done, Change, Touch, Buffer, BufferNow, Forget
<1>7. adrift' \subseteq Run
  BY <1>2, HasEntry DEF Continue, Done, Change, Touch, Buffer, BufferNow, Forget, Sound, TypeOK
<1>4. pc'[h].at # "write"
  <2>1. CASE Done(h) \/ Forget(h) \/ Buffer(h)
    BY <1>2, <2>1 DEF Done, Forget, Buffer, Idle
  <2>2. CASE Change(h) \/ Touch(h) \/ BufferNow(h)
    <3>1. pc[h] \in Active
      BY <2>2, PlaceOf, <1>2 DEF Sound, Change, Touch, BufferNow
    <3> QED
      BY <1>2, <2>2, <3>1 DEF Change, Touch, BufferNow, Active
  <2> QED
    BY <2>1, <2>2 DEF Continue
<1>5. CASE Change(h)
  BY <1>1, <1>2, <1>3, <1>4, <1>5, <1>7, ProceedSound DEF Change
<1>6. CASE ~Change(h)
  <2>1. UNCHANGED <<db, heap, latest>>
    BY <1>6 DEF Continue, Done, Touch, Buffer, BufferNow, Forget
  <2> QED
    BY <1>1, <1>2, <1>3, <1>4, <1>7, <2>1, ProceedSound
<1> QED
  BY <1>5, <1>6

(* Writes keep one writer of a run and never store an older version. *)
LEMMA SaveSound ==
  ASSUME Sound, NEW t \in Thread, Save(t)
  PROVE  Sound'
<1>1. Proceed(t) /\ UNCHANGED <<todo, phase, cache, heap, latest>>
  BY SaveProceeds DEF Save, Encode, Write, WriteFails
<1>2. /\ pc[t] # Idle /\ pc \in [Thread -> {Idle} \cup Active \cup Writing]
      /\ phase = "flushing" => t = Main
  BY <1>1, HasEntry DEF Proceed, Sound, TypeOK, Active, Writing
<1>5. adrift' \subseteq Run
  BY <1>2, HasEntry DEF Save, Encode, Write, WriteFails, Sound, TypeOK
<1>3. CASE Encode(t)
  <2>1. /\ Holding(pc[t].run) = {} /\ pc'[t].version = heap[pc[t].obj]
        /\ UNCHANGED db
    BY <1>2, <1>3 DEF Encode
  <2> QED
    BY <1>1, <1>2, <1>5, <2>1, ProceedSound
<1>4. CASE Write(t) \/ WriteFails(t)
  <2>1. pc'[t] = Idle /\ pc'[t].at # "write"
    BY <1>2, <1>4 DEF Write, WriteFails, Idle
  <2>2. CASE Write(t)
    BY <1>1, <1>2, <1>5, <2>1, <2>2, ProceedSound DEF Write
  <2>3. CASE WriteFails(t)
    BY <1>1, <1>2, <1>5, <2>1, <2>3, ProceedSound DEF WriteFails
  <2> QED
    BY <1>4, <2>2, <2>3
<1> QED
  BY <1>3, <1>4 DEF Save

(* The scheduler or the main thread takes marked runs from the cache to write them;
   entries keep their objects. *)
SameObjects ==
    /\ cache' \in [Run -> Entry \cup {NoEntry}]
    /\ \A r \in Run : /\ Cached(r)' <=> Cached(r)
                      /\ Cached(r) => /\ cache'[r].obj = cache[r].obj
                                      /\ cache'[r].idle = cache[r].idle

(* Such a step keeps one copy. *)
LEMMA SameObjectsSound ==
  ASSUME Sound, SameObjects, UNCHANGED <<db, latest, heap, adrift>>,
         todo' \subseteq Run, phase' \in {"up", "shutdown", "flushing", "down"},
         NEW t \in {Sched, Main},
         \/ pc' = pc
         \/ \E r \in Run : /\ Cached(r)
                           /\ pc' = [pc EXCEPT ![t] = At("save", r, cache[r].obj)],
         PhasesOk'
  PROVE  Sound'
<1> USE DEF Sound
<1>0. t \in Thread /\ t \notin Handler
  BY Threads, ThreadAssumption
<1>1. ASSUME NEW s \in Thread
      PROVE  \/ pc'[s] = pc[s]
             \/ /\ s = t /\ pc'[s] # Idle /\ pc'[s] \in Active /\ pc'[s].at = "save"
                /\ Cached(pc'[s].run) /\ pc'[s].obj = cache[pc'[s].run].obj
  <2>1. CASE pc' = pc
    BY <2>1
  <2>2. CASE pc' # pc
    <3>1. PICK r \in Run : Cached(r) /\ pc' = [pc EXCEPT ![t] = At("save", r, cache[r].obj)]
      BY <2>2
    <3>2. CASE s = t
      <4>1. pc'[s] = At("save", r, cache[r].obj) /\ cache[r].obj \in Obj
        BY <1>0, <3>1, <3>2 DEF TypeOK, Cached, Entry
      <4> QED
        BY <3>1, <3>2, <4>1 DEF At, Active, Idle
    <3>3. CASE s # t
      BY <3>1, <3>3 DEF TypeOK
    <3> QED
      BY <3>2, <3>3
  <2> QED
    BY <2>1, <2>2
<1>2. TypeOK'
  <2>1. pc' \in [Thread -> {Idle} \cup Active \cup Writing]
    <3>1. pc' = [s \in Thread |-> pc'[s]]
      BY DEF TypeOK
    <3>2. \A s \in Thread : pc'[s] \in {Idle} \cup Active \cup Writing
      BY <1>1, PlaceOf
    <3> QED
      BY <3>1, <3>2
  <2> QED
    BY <2>1 DEF TypeOK, SameObjects, Active, Writing
<1>3. OneCopy'
  <2>1. ASSUME NEW s \in Thread, pc'[s] # Idle, pc'[s].run \in Run
        PROVE  cache'[pc'[s].run] # NoEntry /\ cache'[pc'[s].run].obj = pc'[s].obj
    BY <1>1, <2>1 DEF OneCopy, WorkingOn, SameObjects, Cached
  <2>2. \A q, r \in Run : Cached(q)' /\ Cached(r)' /\ cache'[q].obj = cache'[r].obj => q = r
    BY DEF OneCopy, SameObjects
  <2> QED
    BY <2>1, <2>2 DEF OneCopy, WorkingOn, Cached
<1>4. IdleUnused'
  BY <1>0, <1>1 DEF IdleUnused, WorkingOn, SameObjects
<1>5. OneWriter'
  BY <1>1 DEF OneWriter
<1>6. VersionsOk'
  BY <1>1 DEF VersionsOk, SameObjects
<1> QED
  BY <1>2, <1>3, <1>4, <1>5, <1>6

(* flush_buffers() keeps one copy. *)
LEMMA FlushBuffersSound ==
  ASSUME Sound, FlushBuffers
  PROVE  Sound'
<1>1. PICK r \in Run :
        /\ Cached(r)
        /\ cache' = [q \in Run |->
               IF q = r THEN Synced(cache[r]) ELSE Older(cache[q])]
        /\ pc' = [pc EXCEPT ![Sched] = At("save", r, cache[r].obj)]
  BY DEF FlushBuffers
<1>2. SameObjects
  <2>1. cache[r] \in Entry
    BY <1>1 DEF Sound, TypeOK, Cached
  <2>2. /\ cache'[r] \in Entry /\ cache'[r].obj = cache[r].obj
        /\ cache'[r].idle = cache[r].idle
    BY <1>1, <2>1, SyncedIsEntry DEF Sound, TypeOK
  <2>3. ASSUME NEW q \in Run, q # r
        PROVE  /\ cache'[q] \in Entry \cup {NoEntry}
               /\ cache'[q] # NoEntry <=> Cached(q)
               /\ Cached(q) => cache'[q].obj = cache[q].obj /\ cache'[q].idle = cache[q].idle
    <3>1. cache'[q] = Older(cache[q]) /\ cache[q] \in Entry \cup {NoEntry}
      BY <1>1, <2>3 DEF Sound, TypeOK
    <3>2. CASE cache[q] = NoEntry
      BY <3>1, <3>2 DEF Older, Cached
    <3>3. CASE cache[q] \in Entry
      BY <3>1, <3>3, OlderIsEntry, EntryIsSome DEF Cached
    <3> QED
      BY <3>1, <3>2, <3>3
  <2> QED
    BY <1>1, <2>2, <2>3, EntryIsSome DEF SameObjects, Cached
<1>3. UNCHANGED <<db, latest, heap, todo, phase, adrift>> /\ phase \in {"up", "shutdown"}
  BY DEF FlushBuffers
<1>4. PhasesOk'
  BY <1>1, <1>3, Threads DEF Sound, TypeOK, PhasesOk
<1> QED
  BY <1>1, <1>2, <1>3, <1>4, SameObjectsSound DEF Sound, TypeOK

(* An entry looks unused only when no handler works on the run. *)
LEMMA GrowIdleSound ==
  ASSUME Sound, NEW r \in Run, GrowIdle(r)
  PROVE  Sound'
<1> USE DEF Sound
<1>1. cache[r] \in Entry /\ cache[r] # NoEntry
  BY DEF GrowIdle, TypeOK, Cached
<1>2. /\ cache'[r] \in Entry /\ cache'[r].obj = cache[r].obj
      /\ cache'[r].changed = cache[r].changed
      /\ \A q \in Run : q # r => cache'[q] = cache[q]
      /\ cache' \in [Run -> Entry \cup {NoEntry}]
  BY <1>1 DEF GrowIdle, TypeOK, Entry
<1>3. cache'[r] # NoEntry
  BY <1>2, EntryIsSome
<1>4. UNCHANGED <<db, latest, heap, pc, todo, phase, adrift>>
  BY DEF GrowIdle
<1>5. TypeOK'
  BY <1>2, <1>4 DEF TypeOK
<1>6. OneCopy'
  BY <1>1, <1>2, <1>3, <1>4 DEF OneCopy, WorkingOn, Cached
<1>7. IdleUnused'
  BY <1>2, <1>4 DEF IdleUnused, WorkingOn, Cached, GrowIdle
<1>8. PhasesOk'
  <2>1. /\ phase # "down" /\ Changed' = Changed
        /\ \A q \in Run : Cached(q)' <=> Cached(q)
    BY <1>1, <1>2, <1>3 DEF PhasesOk, Changed, Cached
  <2> QED
    BY <1>4, <2>1 DEF PhasesOk, TypeOK
<1>9. OneWriter'
  BY <1>4 DEF OneWriter
<1>10. VersionsOk'
  BY <1>1, <1>2, <1>3, <1>4 DEF VersionsOk, Cached
<1> QED
  BY <1>5, <1>6, <1>7, <1>8, <1>9, <1>10

(* A run that is dropped is worked on by nobody. *)
LEMMA DroppedUnused ==
  ASSUME Sound, NEW r \in Run, CleanCache(r)
  PROVE  WorkingOn(r) = {} /\ todo = {} /\ phase \in {"up", "shutdown"}
<1>1. pc[Sched] = Idle /\ phase \in {"up", "shutdown"}
  BY DEF CleanCache
<1>2. pc[Main] = Idle /\ todo = {}
  BY <1>1 DEF Sound, PhasesOk
<1>3. WorkingOn(r) \cap Handler = {}
  BY DEF Sound, IdleUnused, CleanCache, MayDrop
<1> QED
  BY <1>1, <1>2, <1>3 DEF WorkingOn, Thread

(* clean_cache() keeps one copy. *)
LEMMA CleanCacheSound ==
  ASSUME Sound, NEW r \in Run, CleanCache(r)
  PROVE  Sound'
<1> USE DEF Sound
<1>1. WorkingOn(r) = {} /\ phase \in {"up", "shutdown"}
  BY DroppedUnused
<1>2. /\ cache' = [cache EXCEPT ![r] = NoEntry]
      /\ heap' = [heap EXCEPT ![cache[r].obj] = 0]
      /\ latest' = [latest EXCEPT ![r] = IF r \in adrift THEN db[r] ELSE @]
      /\ UNCHANGED <<db, pc, todo, phase>> /\ adrift' \subseteq adrift
      /\ Cached(r)
  BY <1>1 DEF CleanCache
<1>3. cache[r] \in Entry /\ cache[r].obj \in Obj
  BY <1>2 DEF TypeOK, Cached, Entry
<1>4. /\ cache'[r] = NoEntry
      /\ \A q \in Run : q # r => cache'[q] = cache[q]
      /\ \A o \in Obj : o # cache[r].obj => heap'[o] = heap[o]
  BY <1>2 DEF TypeOK
<1>5. ASSUME NEW t \in Thread, pc[t] # Idle
      PROVE  pc[t].run # r /\ pc[t].obj # cache[r].obj /\ pc[t].obj \in Obj
  <2>1. pc[t].run # r
    BY <1>1, <1>5 DEF WorkingOn
  <2> QED
    BY <1>2, <1>5, <2>1, HasEntry DEF OneCopy
<1>6. TypeOK'
  BY <1>2 DEF TypeOK
<1>7. OneCopy'
  BY <1>2, <1>4, <1>5 DEF OneCopy, WorkingOn, Cached
<1>8. IdleUnused'
  BY <1>2, <1>4 DEF IdleUnused, WorkingOn, Cached
<1>9. PhasesOk'
  BY <1>1, <1>2 DEF PhasesOk
<1>10. OneWriter'
  BY <1>2 DEF OneWriter
<1>11. VersionsOk'
  <2>1. ASSUME NEW q \in Run, Cached(q)'
        PROVE  Cached(q) /\ cache'[q] = cache[q] /\ heap'[cache[q].obj] = heap[cache[q].obj]
    <3>1. q # r /\ Cached(q) /\ cache'[q] = cache[q]
      BY <1>4, <2>1 DEF Cached
    <3>2. cache[q].obj # cache[r].obj /\ cache[q].obj \in Obj
      BY <1>2, <3>1 DEF OneCopy, TypeOK, Entry, Cached
    <3> QED
      BY <1>4, <3>1, <3>2
  <2>2. ASSUME NEW t \in Thread, pc[t].at = "write"
        PROVE  heap'[pc[t].obj] = heap[pc[t].obj]
    BY <1>4, <1>5, <2>2 DEF Idle
  <2>3. \A q \in Run : db[q] <= latest'[q] /\ (q # r => latest'[q] = latest[q])
    BY <1>2 DEF VersionsOk, TypeOK
  <2>4. \A q \in Run : Cached(q)' => q # r
    BY <1>4 DEF Cached
  <2> QED
    BY <1>2, <2>1, <2>2, <2>3, <2>4 DEF VersionsOk
<1> QED
  BY <1>6, <1>7, <1>8, <1>9, <1>10, <1>11

(* flush_all() marks runs as saved and keeps their objects. *)
LEMMA FlushAllSound ==
  ASSUME Sound, FlushAll
  PROVE  Sound'
<1>1. /\ UNCHANGED <<db, latest, heap, pc, adrift>> /\ phase' = "flushing" /\ todo' = Changed
      /\ \A t \in Thread : pc[t] = Idle
  BY DEF FlushAll
<1>2. ASSUME NEW r \in Run
      PROVE  /\ cache'[r] \in Entry \cup {NoEntry}
             /\ cache'[r] # NoEntry <=> Cached(r)
             /\ Cached(r) => /\ cache'[r].obj = cache[r].obj /\ cache'[r].idle = cache[r].idle
                             /\ ~cache'[r].changed
  <2>1. CASE r \in Changed
    <3>1. cache[r] \in Entry
      BY <2>1 DEF Changed, Cached, Sound, TypeOK
    <3>2. cache'[r] = Synced(cache[r])
      BY <2>1 DEF FlushAll
    <3>3. /\ cache'[r] \in Entry /\ cache'[r].obj = cache[r].obj
          /\ cache'[r].idle = cache[r].idle /\ ~cache'[r].changed
      BY <3>1, <3>2, SyncedIsEntry
    <3> QED
      BY <3>1, <3>3, EntryIsSome DEF Cached
  <2>2. CASE r \notin Changed
    <3>1. cache'[r] = cache[r]
      BY <2>2 DEF FlushAll
    <3> QED
      BY <2>2, <3>1 DEF Changed, Cached, Sound, TypeOK, Entry
  <2> QED
    BY <2>1, <2>2
<1>3. cache' \in [Run -> Entry \cup {NoEntry}]
  <2>1. cache' = [r \in Run |-> cache'[r]]
    BY DEF FlushAll
  <2> QED
    BY <1>2, <2>1
<1>4. SameObjects
  BY <1>2, <1>3 DEF SameObjects, Cached
<1>5. PhasesOk'
  BY <1>1, <1>2 DEF PhasesOk, Changed, Cached
<1>6. todo' \subseteq Run
  BY <1>1 DEF Changed
<1> QED
  BY <1>1, <1>4, <1>5, <1>6, SameObjectsSound

(* flush_all() keeps one copy. *)
LEMMA FlushNextSound ==
  ASSUME Sound, FlushNext
  PROVE  Sound'
<1>1. PICK r \in todo : /\ pc' = [pc EXCEPT ![Main] = At("save", r, cache[r].obj)]
                        /\ todo' = todo \ {r}
  BY DEF FlushNext
<1>2. r \in Run /\ Cached(r) /\ phase = "flushing"
      /\ UNCHANGED <<db, latest, heap, cache, phase, adrift>>
  BY <1>1 DEF FlushNext, Sound, TypeOK, PhasesOk
<1>3. SameObjects
  BY <1>2 DEF SameObjects, Cached, Sound, TypeOK
<1>4. PhasesOk'
  BY <1>1, <1>2 DEF PhasesOk, Sound, TypeOK, Changed, Cached
<1> QED
  BY <1>1, <1>2, <1>3, <1>4, SameObjectsSound DEF Sound, TypeOK

(* When the process is gone, or comes back, only the database is left. *)
LEMMA GoneSound ==
  ASSUME Sound, Quit \/ Crash \/ Start \/ Shutdown
  PROVE  Sound'
<1> USE DEF Sound
<1>1. CASE Quit \/ Crash
  <2>1. /\ Gone /\ db' = db /\ latest' \in [Run -> Nat]
        /\ \A r \in Run : db[r] <= latest'[r]
    BY <1>1 DEF Quit, Crash, TypeOK, VersionsOk
  <2>2. /\ \A t \in Thread : pc'[t] = Idle /\ pc'[t].at = "idle"
        /\ \A r \in Run : ~Cached(r)'
    BY <2>1 DEF Gone, Idle, Cached
  <2>3. TypeOK'
    BY <2>1 DEF TypeOK, Gone
  <2>4. OneCopy' /\ IdleUnused' /\ PhasesOk' /\ OneWriter'
    BY <2>1, <2>2, Threads DEF OneCopy, IdleUnused, PhasesOk, OneWriter, WorkingOn, Gone
  <2>5. VersionsOk'
    BY <2>1, <2>2 DEF VersionsOk
  <2> QED
    BY <2>3, <2>4, <2>5
<1>2. CASE Start \/ Shutdown
  <2>1. /\ UNCHANGED <<db, latest, heap, cache, pc, todo>>
        /\ phase # "flushing" /\ phase' \in {"up", "shutdown"}
    BY <1>2 DEF Start, Shutdown
  <2>2. UNCHANGED adrift
    BY <1>2 DEF Start, Shutdown
  <2> QED
    BY <2>1, <2>2 DEF TypeOK, OneCopy, IdleUnused, PhasesOk, OneWriter, VersionsOk, WorkingOn, Cached
<1> QED
  BY <1>1, <1>2

(* Nothing is cached at first. *)
LEMMA InitSound == Init => Sound
<1> SUFFICES ASSUME Init PROVE Sound
  OBVIOUS
<1>1. \A t \in Thread : pc[t] = Idle /\ pc[t].at = "idle"
  BY DEF Init, Idle
<1>2. TypeOK
  BY DEF Init, TypeOK
<1>3. OneCopy /\ IdleUnused /\ PhasesOk /\ OneWriter /\ VersionsOk
  BY <1>1, Threads DEF Init, OneCopy, IdleUnused, PhasesOk, OneWriter, VersionsOk, WorkingOn, Cached
<1> QED
  BY <1>2, <1>3 DEF Sound

(* Every step keeps Sound. *)
LEMMA NextSound == Sound /\ [Next]_vars => Sound'
<1> SUFFICES ASSUME Sound, [Next]_vars PROVE Sound'
  OBVIOUS
<1>1. ASSUME NEW h \in Handler, NEW r \in Run, GetRun(h, r) \/ NewRun(h, r) PROVE Sound'
  BY <1>1, GetRunSound, NewRunSound
<1>2. ASSUME NEW h \in Handler, Continue(h) PROVE Sound'
  BY <1>2, ContinueSound
<1>3. ASSUME NEW t \in Thread, Save(t) PROVE Sound'
  BY <1>3, SaveSound
<1>4. CASE FlushBuffers
  BY <1>4, FlushBuffersSound
<1>5. ASSUME NEW r \in Run, GrowIdle(r) \/ CleanCache(r) PROVE Sound'
  BY <1>5, GrowIdleSound, CleanCacheSound
<1>6. CASE FlushAll \/ FlushNext
  BY <1>6, FlushAllSound, FlushNextSound
<1>7. CASE Quit \/ Crash \/ Start \/ Shutdown
  BY <1>7, GoneSound
<1>8. CASE UNCHANGED vars
  BY <1>8 DEF vars, Sound, TypeOK, OneCopy, IdleUnused, PhasesOk, OneWriter, VersionsOk,
              WorkingOn, Cached, Changed
<1> QED
  BY <1>1, <1>2, <1>3, <1>4, <1>5, <1>6, <1>7, <1>8 DEF Next

(* Sound holds in every reachable state, whatever handlers do. *)
THEOREM AlwaysSound == Spec => []Sound
BY InitSound, NextSound, PTL DEF Spec

(* The variables keep their types. *)
THEOREM TypeCorrect == Spec => []TypeOK
<1>1. Sound => TypeOK
  BY DEF Sound
<1> QED
  BY <1>1, AlwaysSound, PTL

(* No two threads ever work on two copies of a run (get_run, clean_cache). *)
THEOREM OneCopyOfARun == Spec => []OneCopy
<1>1. Sound => OneCopy
  BY DEF Sound
<1> QED
  BY <1>1, AlwaysSound, PTL

(* What is saved is never replaced by an older version (active_run_lock). *)
THEOREM NeverReplacedByOlder == Spec => NeverOlder
<1>1. ASSUME Sound, Next
      PROVE  \A r \in Run : db[r] <= db'[r]
  <2>1. CASE db' = db
    BY <1>1, <2>1 DEF Sound, TypeOK
  <2>2. CASE db' # db
    <3>1. PICK t \in Thread : Write(t)
      BY <1>1, <2>2 DEF Next, GetRun, NewRun, Continue, Done, Change, Touch, Buffer, BufferNow,
                        Forget, Save, Encode, WriteFails, FlushBuffers, GrowIdle, CleanCache,
                        Shutdown, FlushAll, FlushNext, Quit, Crash, Start
    <3>2. pc[t] \in Writing /\ db[pc[t].run] <= pc[t].version
      BY <1>1, <3>1, PlaceOf DEF Write, Sound, VersionsOk
    <3> QED
      BY <1>1, <3>1, <3>2 DEF Write, Sound, TypeOK, Writing
  <2> QED
    BY <2>1, <2>2
<1>2. Sound /\ [Next]_vars => [\A r \in Run : db[r] <= db'[r]]_db
  BY <1>1 DEF vars
<1> QED
  BY <1>2, AlwaysSound, PTL DEF Spec, NeverOlder

----------------------------------------------------------------------------
(* No change is lost.  That the cache, or else the database, has the latest version
   needs that a run is dropped only when it was saved; and that every change is
   marked or about to be saved needs that what is saved is the latest version. *)

Safe == Sound /\ LatestRead /\ ChangesMarked

(* What a thread is about to save is not affected by a thread that is not saving the
   same run. *)
LEMMA StillAboutToSave ==
  ASSUME NEW r \in Run, AboutToSave(r), NEW t \in Thread,
         \A s \in Thread : s # t => pc'[s] = pc[s],
         pc[t] = Idle \/ pc[t].at = "got" \/ pc[t].run # r,
         latest'[r] = latest[r], r \in todo => r \in todo'
  PROVE  AboutToSave(r)'
BY DEF AboutToSave, WorkingOn, Idle

(* Other runs are not affected when a thread starts to work on a run. *)
LEMMA TakeOthers ==
  ASSUME Safe, NEW t \in Thread, NEW r \in Run, NEW step, Take(t, r, step),
         UNCHANGED <<db, todo, adrift>>,
         NEW q \in Run, q # r, latest'[q] = latest[q]
  PROVE  /\ latest'[q] = IF Cached(q)' THEN heap'[cache'[q].obj] ELSE db'[q]
         /\ db'[q] # latest'[q] => q \in Changed' \/ AboutToSave(q)' \/ q \in adrift'
<1>1. cache'[q] = cache[q]
  BY DEF Take, Safe, Sound, TypeOK
<1>2. Cached(q) => heap'[cache[q].obj] = heap[cache[q].obj]
  <2>1. CASE Cached(r)
    BY <2>1 DEF Take
  <2>2. CASE ~Cached(r)
    <3>1. cache'[r].obj \in Obj \ Referenced
      BY <2>2 DEF Take
    <3>2. Cached(q) => cache[q].obj # cache'[r].obj /\ cache[q].obj \in Obj
      BY <3>1, Unreferenced DEF Cached, Safe, Sound, TypeOK, Entry
    <3> QED
      BY <2>2, <3>1, <3>2 DEF Take, Safe, Sound, TypeOK
  <2> QED
    BY <2>1, <2>2
<1>3. latest'[q] = IF Cached(q)' THEN heap'[cache'[q].obj] ELSE db'[q]
  BY <1>1, <1>2 DEF Safe, LatestRead, Cached
<1>4. \A s \in Thread : s # t => pc'[s] = pc[s]
  BY DEF Take, Safe, Sound, TypeOK
<1>5. AboutToSave(q) => AboutToSave(q)'
  BY <1>4, StillAboutToSave DEF Take
<1>6. q \in Changed => q \in Changed'
  BY <1>1 DEF Changed, Cached
<1> QED
  BY <1>3, <1>5, <1>6 DEF Safe, ChangesMarked

(* get_run() returns the latest version. *)
LEMMA GetRunSafe ==
  ASSUME Safe, NEW h \in Handler, NEW r \in Run, GetRun(h, r)
  PROVE  Safe'
<1>1. Take(h, r, "got") /\ Sound' /\ h \in Thread
  BY GetRunTakes, GetRunSound, Threads DEF Safe
<1>2. UNCHANGED <<db, latest, todo, phase, adrift>>
  BY DEF GetRun
<1>3. \A q \in Run : q # r =>
        /\ latest'[q] = IF Cached(q)' THEN heap'[cache'[q].obj] ELSE db'[q]
        /\ db'[q] # latest'[q] => q \in Changed' \/ AboutToSave(q)' \/ q \in adrift'
  BY <1>1, <1>2, TakeOthers
<1>4. Cached(r)'
  BY <1>1, EntryIsSome DEF Take, Cached
<1>5. /\ latest'[r] = heap'[cache'[r].obj]
      /\ db'[r] # latest'[r] => r \in Changed' \/ AboutToSave(r)' \/ r \in adrift'
  <2>1. CASE Cached(r)
    <3>1. latest'[r] = heap'[cache'[r].obj]
      BY <1>1, <1>2, <2>1 DEF Take, Safe, LatestRead
    <3>2. cache'[r].changed = cache[r].changed
      <4>1. cache' = [cache EXCEPT ![r].idle = FALSE] /\ cache[r] \in Entry
        BY <2>1 DEF GetRun, Cached, Safe, Sound, TypeOK
      <4> QED
        BY <4>1 DEF Entry, Safe, Sound, TypeOK
    <3>3. r \in Changed => r \in Changed'
      BY <1>4, <3>2 DEF Changed
    <3>4. \A s \in Thread : s # h => pc'[s] = pc[s]
      BY <1>1 DEF Take, Safe, Sound, TypeOK
    <3>5. AboutToSave(r) => AboutToSave(r)'
      BY <1>1, <1>2, <3>4, StillAboutToSave DEF Take
    <3> QED
      BY <1>2, <3>1, <3>3, <3>5 DEF Safe, ChangesMarked
  <2>2. CASE ~Cached(r)
    <3>1. latest[r] = db[r] /\ db[r] \in Nat
      BY <2>2 DEF Safe, LatestRead, Sound, TypeOK
    <3>2. heap'[cache'[r].obj] \in db[r] .. db[r]
      BY <1>1, <1>2, <2>2, <3>1 DEF Take
    <3> QED
      BY <1>2, <3>1, <3>2
  <2> QED
    BY <2>1, <2>2
<1> QED
  BY <1>1, <1>3, <1>4, <1>5 DEF Safe, LatestRead, ChangesMarked

(* A new run is about to be saved. *)
LEMMA NewRunSafe ==
  ASSUME Safe, NEW h \in Handler, NEW r \in Run, NewRun(h, r)
  PROVE  Safe'
<1>1. Take(h, r, "save") /\ Sound' /\ h \in Thread
  BY NewRunTakes, NewRunSound, Threads DEF Safe
<1>2. UNCHANGED <<db, todo, adrift>> /\ latest' = [latest EXCEPT ![r] = 1]
  BY DEF NewRun
<1>3. \A q \in Run : q # r =>
        /\ latest'[q] = IF Cached(q)' THEN heap'[cache'[q].obj] ELSE db'[q]
        /\ db'[q] # latest'[q] => q \in Changed' \/ AboutToSave(q)' \/ q \in adrift'
  BY <1>1, <1>2, TakeOthers DEF Safe, Sound, TypeOK
<1>4. Cached(r)'
  BY <1>1, EntryIsSome DEF Take, Cached
<1>5. latest'[r] = heap'[cache'[r].obj]
  <2>1. PICK o \in Obj \ Referenced : /\ heap' = [heap EXCEPT ![o] = 1]
                                      /\ cache' = [cache EXCEPT ![r] = Fresh(o)]
    BY DEF NewRun
  <2>2. cache'[r].obj = o
    BY <2>1, FreshIsEntry DEF Safe, Sound, TypeOK
  <2> QED
    BY <1>2, <2>1, <2>2 DEF Safe, Sound, TypeOK
<1>6. AboutToSave(r)'
  <2>1. pc'[h] = At("save", r, cache'[r].obj)
    BY <1>1 DEF Take, Safe, Sound, TypeOK
  <2>2. pc'[h] # Idle /\ pc'[h].run = r /\ pc'[h].at = "save"
    BY <2>1 DEF At, Idle
  <2> QED
    BY <1>1, <2>2 DEF AboutToSave, WorkingOn
<1> QED
  BY <1>1, <1>3, <1>4, <1>5, <1>6 DEF Safe, LatestRead, ChangesMarked

(* Other runs are not affected when a thread goes on with its run. *)
LEMMA ProceedOthers ==
  ASSUME Safe, NEW t \in Thread, Proceed(t), UNCHANGED todo,
         NEW q \in Run, q # pc[t].run, latest'[q] = latest[q], db'[q] = db[q],
         q \in adrift => q \in adrift',
         \A o \in Obj : o # pc[t].obj => heap'[o] = heap[o]
  PROVE  /\ latest'[q] = IF Cached(q)' THEN heap'[cache'[q].obj] ELSE db'[q]
         /\ db'[q] # latest'[q] => q \in Changed' \/ AboutToSave(q)' \/ q \in adrift'
<1>1. cache'[q] = cache[q] /\ \A s \in Thread : s # t => pc'[s] = pc[s]
  BY DEF Proceed, Safe, Sound, TypeOK
<1>2. Cached(q) => heap'[cache[q].obj] = heap[cache[q].obj]
  BY HasEntry DEF Proceed, Safe, Sound, OneCopy, TypeOK, Cached, Entry
<1>3. AboutToSave(q) => AboutToSave(q)'
  BY <1>1, StillAboutToSave
<1>4. q \in Changed => q \in Changed'
  BY <1>1 DEF Changed, Cached
<1> QED
  BY <1>1, <1>2, <1>3, <1>4 DEF Safe, LatestRead, ChangesMarked, Cached

(* A handler that changed its run marks it, or saves it. *)
LEMMA ContinueSafe ==
  ASSUME Safe, NEW h \in Handler, Continue(h)
  PROVE  Safe'
<1>1. Proceed(h) /\ Sound' /\ h \in Thread
  BY ContinueProceeds, ContinueSound, Threads DEF Safe
<1>a. PICK r \in Run, o \in Obj : pc[h].run = r /\ pc[h].obj = o
  BY <1>1, HasEntry DEF Proceed, Safe
<1> USE <1>a
<1>2. /\ pc[h] # Idle /\ r \in Run /\ o \in Obj /\ Cached(r) /\ cache[r] \in Entry
      /\ cache[r].obj = o
  BY <1>1, HasEntry DEF Proceed, Safe
<1>3. UNCHANGED <<db, todo, phase>>
  BY DEF Continue, Done, Change, Touch, Buffer, BufferNow, Forget
<1>4. /\ Cached(r)' /\ cache'[r].obj = o
      /\ \A s \in Thread : s # h => pc'[s] = pc[s]
  <2>1. cache'[r] # NoEntry /\ cache'[r].obj = o
    BY <1>1, EntryIsSome DEF Proceed
  <2> QED
    BY <1>1, <2>1 DEF Proceed, Cached, Safe, Sound, TypeOK
<1>5. latest[r] = heap[o]
  BY <1>2 DEF Safe, LatestRead
<1>6. /\ latest'[r] = heap'[o]
      /\ \A q \in Run : q # r => latest'[q] = latest[q]
      /\ \A p \in Obj : p # o => heap'[p] = heap[p]
  BY <1>2, <1>5 DEF Continue, Done, Change, Touch, Buffer, BufferNow, Forget, Safe, Sound, TypeOK
<1>9. \A q \in Run : q # r /\ q \in adrift => q \in adrift'
  BY DEF Continue, Done, Change, Touch, Buffer, BufferNow, Forget
<1>7. \A q \in Run : q # r =>
        /\ latest'[q] = IF Cached(q)' THEN heap'[cache'[q].obj] ELSE db'[q]
        /\ db'[q] # latest'[q] => q \in Changed' \/ AboutToSave(q)' \/ q \in adrift'
  BY <1>1, <1>3, <1>6, <1>9, ProceedOthers
<1>8. db'[r] # latest'[r] => r \in Changed' \/ AboutToSave(r)' \/ r \in adrift'
  <2>1. CASE Done(h)
    <3>1. UNCHANGED <<latest, cache, adrift>> /\ pc[h].at = "got"
      BY <2>1 DEF Done
    <3>2. AboutToSave(r) => AboutToSave(r)'
      BY <1>1, <1>3, <1>4, <3>1, StillAboutToSave
    <3> QED
      BY <1>2, <1>3, <3>1, <3>2 DEF Safe, ChangesMarked, Changed, Cached
  <2>2. CASE Change(h) \/ Touch(h) \/ BufferNow(h)
    <3>1. pc[h] \in Active
      BY <1>1, <2>2, PlaceOf DEF Safe, Sound, Change, Touch, BufferNow
    <3>2. pc'[h].at \in {"changed", "save"} /\ pc'[h].run = r /\ pc'[h] # Idle
      BY <1>1, <2>2, <3>1 DEF Change, Touch, BufferNow, Active, Idle, Safe, Sound, TypeOK
    <3> QED
      BY <1>1, <1>2, <3>2 DEF AboutToSave, WorkingOn
  <2>3. CASE Buffer(h)
    <3>1. PICK p \in 0 .. 2 : cache' = [cache EXCEPT ![r] = Buffered(@, o, p)]
      BY <2>3 DEF Buffer
    <3>2. cache'[r] = Buffered(cache[r], o, p)
      BY <1>2, <3>1 DEF Safe, Sound, TypeOK
    <3>3. cache'[r].changed
      BY <1>2, <3>2, BufferedIsEntry
    <3> QED
      BY <1>2, <1>4, <3>3 DEF Changed
  <2>4. CASE Forget(h)
    <3>1. UNCHANGED cache /\ adrift' = adrift \cup ({r} \ Changed)
      BY <2>4 DEF Forget
    <3>2. r \in Changed => r \in Changed'
      BY <3>1 DEF Changed, Cached
    <3> QED
      BY <3>1, <3>2
  <2> QED
    BY <2>1, <2>2, <2>3, <2>4 DEF Continue
<1> QED
  BY <1>1, <1>4, <1>6, <1>7, <1>8 DEF Safe, LatestRead, ChangesMarked

(* A write stores the latest version, or another change is marked. *)
LEMMA SaveSafe ==
  ASSUME Safe, NEW t \in Thread, Save(t)
  PROVE  Safe'
<1>1. Proceed(t) /\ Sound' /\ UNCHANGED <<todo, phase, cache, heap, latest>>
  BY SaveProceeds, SaveSound DEF Safe, Save, Encode, Write, WriteFails
<1>a. PICK r \in Run, o \in Obj : pc[t].run = r /\ pc[t].obj = o
  BY <1>1, HasEntry DEF Proceed, Safe
<1> USE <1>a
<1>2. /\ pc[t] # Idle /\ r \in Run /\ o \in Obj /\ Cached(r) /\ cache[r].obj = o
  BY <1>1, HasEntry DEF Proceed, Safe
<1>3. \A s \in Thread : s # t => pc'[s] = pc[s]
  BY <1>1 DEF Proceed, Safe, Sound, TypeOK
<1>4. latest[r] = heap[o]
  BY <1>2 DEF Safe, LatestRead
<1>5. \A q \in Run : q # r => db'[q] = db[q]
  BY <1>2, PlaceOf DEF Save, Encode, Write, WriteFails, Safe, Sound, TypeOK
<1>9. \A q \in Run : q # r /\ q \in adrift => q \in adrift'
  BY DEF Save, Encode, Write, WriteFails
<1>6. \A q \in Run : q # r =>
        /\ latest'[q] = IF Cached(q)' THEN heap'[cache'[q].obj] ELSE db'[q]
        /\ db'[q] # latest'[q] => q \in Changed' \/ AboutToSave(q)' \/ q \in adrift'
  BY <1>1, <1>5, <1>9, ProceedOthers
<1>7. latest'[r] = IF Cached(r)' THEN heap'[cache'[r].obj] ELSE db'[r]
  BY <1>1, <1>2, <1>4 DEF Cached
<1>8. db'[r] # latest'[r] => r \in Changed' \/ AboutToSave(r)' \/ r \in adrift'
  <2>1. CASE Encode(t)
    <3>1. pc'[t] = [at |-> "write", run |-> r, obj |-> o, version |-> heap[o]]
      BY <2>1 DEF Encode, Safe, Sound, TypeOK
    <3>2. pc'[t] # Idle /\ pc'[t].run = r /\ pc'[t].at = "write" /\ pc'[t].version = latest[r]
      BY <1>4, <3>1 DEF Idle
    <3> QED
      BY <1>1, <1>2, <3>2 DEF AboutToSave, WorkingOn
  <2>2. CASE Write(t)
    <3>1. db'[r] = pc[t].version /\ pc[t].at = "write"
      BY <1>2, <2>2 DEF Write, Safe, Sound, TypeOK
    <3>2. CASE pc[t].version = latest[r]
      BY <1>1, <3>1, <3>2
    <3>3. CASE pc[t].version # latest[r]
      <4>1. /\ db[r] <= pc[t].version /\ pc[t].version <= heap[o]
            /\ db[r] \in Nat /\ heap[o] \in Nat /\ pc[t].version \in Nat
        BY <1>2, <3>1, PlaceOf DEF Safe, Sound, VersionsOk, TypeOK, Writing
      <4>2. db[r] # latest[r]
        BY <1>4, <3>3, <4>1
      <4>6. UNCHANGED adrift
        BY <2>2 DEF Write
      <4>3. r \in Changed \/ AboutToSave(r) \/ r \in adrift
        BY <1>2, <4>2 DEF Safe, ChangesMarked
      <4>4. r \in Changed => r \in Changed'
        BY <1>1 DEF Changed, Cached
      <4>5. AboutToSave(r) => AboutToSave(r)'
        BY <1>1, <1>3, <3>1, <3>3 DEF AboutToSave, WorkingOn
      <4> QED
        BY <4>3, <4>4, <4>5, <4>6
    <3> QED
      BY <3>2, <3>3
  <2>3. CASE WriteFails(t)
    BY <2>3 DEF WriteFails
  <2> QED
    BY <2>1, <2>2, <2>3 DEF Save
<1> QED
  BY <1>1, <1>6, <1>7, <1>8 DEF Safe, LatestRead, ChangesMarked

(* What is marked as saved is about to be saved. *)
LEMMA FlushBuffersSafe ==
  ASSUME Safe, FlushBuffers
  PROVE  Safe'
<1>1. PICK r \in Run :
        /\ Cached(r)
        /\ cache' = [q \in Run |->
               IF q = r THEN Synced(cache[r]) ELSE Older(cache[q])]
        /\ pc' = [pc EXCEPT ![Sched] = At("save", r, cache[r].obj)]
  BY DEF FlushBuffers
<1>2. UNCHANGED <<db, latest, heap, todo, phase, adrift>> /\ pc[Sched] = Idle /\ Sched \in Thread
  BY Threads DEF FlushBuffers
<1>3. pc'[Sched] # Idle /\ pc'[Sched].run = r /\ pc'[Sched].at = "save"
  BY <1>1, <1>2 DEF At, Idle, Safe, Sound, TypeOK
<1>4. ASSUME NEW q \in Run
      PROVE  /\ latest'[q] = IF Cached(q)' THEN heap'[cache'[q].obj] ELSE db'[q]
             /\ db'[q] # latest'[q] => q \in Changed' \/ AboutToSave(q)' \/ q \in adrift'
  <2>1. cache[q] \in Entry \cup {NoEntry}
    BY DEF Safe, Sound, TypeOK
  <2>2. CASE q = r
    <3>1. cache'[q] \in Entry /\ cache'[q].obj = cache[q].obj
      BY <1>1, <2>1, <2>2, SyncedIsEntry DEF Cached
    <3>2. Cached(q)'
      BY <3>1, EntryIsSome DEF Cached
    <3>3. AboutToSave(q)'
      BY <1>2, <1>3, <2>2 DEF AboutToSave, WorkingOn
    <3> QED
      BY <1>1, <1>2, <2>2, <3>1, <3>2, <3>3 DEF Safe, LatestRead
  <2>3. CASE q # r
    <3>1. cache'[q] = Older(cache[q])
      BY <1>1, <2>3
    <3>2. /\ Cached(q)' <=> Cached(q)
          /\ Cached(q) => cache'[q].obj = cache[q].obj /\ cache'[q].changed = cache[q].changed
      <4>1. CASE cache[q] = NoEntry
        BY <3>1, <4>1 DEF Older, Cached
      <4>2. CASE cache[q] \in Entry
        BY <3>1, <4>2, OlderIsEntry, EntryIsSome DEF Cached
      <4> QED
        BY <2>1, <4>1, <4>2
    <3>3. \A s \in Thread : s # Sched => pc'[s] = pc[s]
      BY <1>1 DEF Safe, Sound, TypeOK
    <3>4. AboutToSave(q) => AboutToSave(q)'
      BY <1>2, <3>3, StillAboutToSave
    <3> QED
      BY <1>2, <3>2, <3>4 DEF Safe, LatestRead, ChangesMarked, Changed
  <2> QED
    BY <2>2, <2>3
<1> QED
  BY <1>4, FlushBuffersSound DEF Safe, LatestRead, ChangesMarked

(* Age alone changes nothing. *)
LEMMA GrowIdleSafe ==
  ASSUME Safe, NEW r \in Run, GrowIdle(r)
  PROVE  Safe'
<1>1. UNCHANGED <<db, latest, heap, pc, todo, phase, adrift>> /\ cache[r] \in Entry
  BY DEF GrowIdle, Safe, Sound, TypeOK, Cached
<1>2. /\ cache'[r] \in Entry /\ cache'[r].obj = cache[r].obj
      /\ cache'[r].changed = cache[r].changed
      /\ \A q \in Run : q # r => cache'[q] = cache[q]
  BY <1>1 DEF GrowIdle, Safe, Sound, TypeOK, Entry
<1>3. \A q \in Run : /\ Cached(q)' <=> Cached(q)
                     /\ Cached(q) => /\ cache'[q].obj = cache[q].obj
                                     /\ cache'[q].changed = cache[q].changed
  BY <1>1, <1>2, EntryIsSome DEF Cached
<1>4. \A q \in Run : /\ q \in Changed => q \in Changed'
                     /\ AboutToSave(q) => AboutToSave(q)'
  BY <1>1, <1>3 DEF Changed, AboutToSave, WorkingOn
<1> QED
  BY <1>1, <1>3, <1>4, GrowIdleSound DEF Safe, LatestRead, ChangesMarked

(* A run that is dropped is in the database, or falls back to it. *)
LEMMA CleanCacheSafe ==
  ASSUME Safe, NEW r \in Run, CleanCache(r)
  PROVE  Safe'
<1>1. WorkingOn(r) = {} /\ todo = {}
  BY DroppedUnused DEF Safe
<1>2. /\ cache' = [cache EXCEPT ![r] = NoEntry]
      /\ heap' = [heap EXCEPT ![cache[r].obj] = 0]
      /\ latest' = [latest EXCEPT ![r] = IF r \in adrift THEN db[r] ELSE @]
      /\ adrift' = adrift \ {r}
      /\ UNCHANGED <<db, pc, todo, phase>>
      /\ Cached(r) /\ r \notin Changed
  BY <1>1 DEF CleanCache, MayDrop, Changed
<1>3. db[r] = latest'[r] /\ \A q \in Run : q # r => latest'[q] = latest[q]
  <2>1. r \notin adrift => db[r] = latest[r]
    BY <1>1, <1>2 DEF Safe, ChangesMarked, AboutToSave
  <2> QED
    BY <1>2, <2>1 DEF Safe, Sound, TypeOK
<1>4. ~Cached(r)' /\ \A q \in Run : q # r => cache'[q] = cache[q]
  BY <1>2 DEF Safe, Sound, TypeOK, Cached
<1>5. \A q \in Run : q # r /\ Cached(q) => heap'[cache[q].obj] = heap[cache[q].obj]
  BY <1>2 DEF Safe, Sound, TypeOK, OneCopy, Entry, Cached
<1>6. \A q \in Run : q # r => /\ q \in Changed => q \in Changed'
                              /\ AboutToSave(q) => AboutToSave(q)'
  BY <1>2, <1>3, <1>4 DEF Changed, AboutToSave, WorkingOn, Cached
<1>7. LatestRead'
  <2>1. ASSUME NEW q \in Run
        PROVE  latest'[q] = IF Cached(q)' THEN heap'[cache'[q].obj] ELSE db'[q]
    <3>1. CASE q = r
      BY <1>2, <1>3, <1>4, <3>1
    <3>2. CASE q # r
      BY <1>2, <1>3, <1>4, <1>5, <3>2 DEF Safe, LatestRead, Cached
    <3> QED
      BY <3>1, <3>2
  <2> QED
    BY <2>1 DEF LatestRead
<1>8. ChangesMarked'
  BY <1>2, <1>3, <1>6 DEF Safe, ChangesMarked
<1> QED
  BY <1>7, <1>8, CleanCacheSound DEF Safe

(* What flush_all() marks as saved is on its list, or being written. *)
LEMMA FlushAllSafe ==
  ASSUME Safe, FlushAll
  PROVE  Safe'
<1>1. /\ UNCHANGED <<db, latest, heap, pc, adrift>> /\ todo' = Changed
      /\ \A t \in Thread : pc[t] = Idle
      /\ phase = "shutdown"
  BY DEF FlushAll
<1>2. \A r \in Run : /\ Cached(r)' <=> Cached(r)
                     /\ Cached(r) => cache'[r].obj = cache[r].obj
  <2>1. TAKE r \in Run
  <2>2. cache'[r] = IF r \in Changed THEN Synced(cache[r]) ELSE cache[r]
    BY DEF FlushAll
  <2>3. r \in Changed => cache[r] \in Entry
    BY DEF Changed, Cached, Safe, Sound, TypeOK
  <2> QED
    BY <2>2, <2>3, SyncedIsEntry, EntryIsSome DEF Cached
<1>3. todo = {}
  BY <1>1 DEF Safe, Sound, PhasesOk
<1>4. \A r \in Run : ~AboutToSave(r)
  BY <1>1, <1>3 DEF AboutToSave, WorkingOn
<1>5. ChangesMarked'
  BY <1>1, <1>4 DEF Safe, ChangesMarked, AboutToSave
<1> QED
  BY <1>1, <1>2, <1>5, FlushAllSound DEF Safe, LatestRead

(* The run that is taken from the list is about to be saved. *)
LEMMA FlushNextSafe ==
  ASSUME Safe, FlushNext
  PROVE  Safe'
<1>1. PICK r \in todo : /\ pc' = [pc EXCEPT ![Main] = At("save", r, cache[r].obj)]
                        /\ todo' = todo \ {r}
  BY DEF FlushNext
<1>2. /\ UNCHANGED <<db, latest, heap, cache, phase, adrift>> /\ pc[Main] = Idle /\ Main \in Thread
      /\ r \in Run
  BY <1>1, Threads DEF FlushNext, Safe, Sound, TypeOK
<1>3. pc'[Main] # Idle /\ pc'[Main].run = r /\ pc'[Main].at = "save"
  BY <1>1, <1>2 DEF At, Idle, Safe, Sound, TypeOK
<1>4. \A s \in Thread : s # Main => pc'[s] = pc[s]
  BY <1>1 DEF Safe, Sound, TypeOK
<1>5. ASSUME NEW q \in Run, AboutToSave(q)
      PROVE  AboutToSave(q)'
  <2>1. CASE q = r
    BY <1>2, <1>3, <2>1 DEF AboutToSave, WorkingOn
  <2>2. CASE q # r
    BY <1>1, <1>2, <1>4, <1>5, <2>2, StillAboutToSave
  <2> QED
    BY <2>1, <2>2
<1>6. LatestRead' /\ \A q \in Run : q \in Changed => q \in Changed'
  BY <1>2 DEF Safe, LatestRead, Changed, Cached
<1> QED
  BY <1>2, <1>5, <1>6, FlushNextSound DEF Safe, ChangesMarked

(* A server that ends in an orderly way has saved everything that is not adrift. *)
LEMMA QuitSaved ==
  ASSUME Safe, Quit
  PROVE  (\A r \in Run \ adrift : db[r] = latest[r]) /\ latest' = db
<1>1. phase = "flushing" /\ todo = {} /\ pc[Main] = Idle
  BY DEF Quit
<1>2. Changed = {} /\ \A t \in Thread : pc[t] = Idle
  BY <1>1 DEF Safe, Sound, PhasesOk
<1>3. \A r \in Run \ adrift : db[r] = latest[r]
  BY <1>1, <1>2 DEF Safe, ChangesMarked, AboutToSave, WorkingOn
<1>4. latest' = [r \in Run |-> db[r]]
  BY <1>3 DEF Quit
<1> QED
  BY <1>3, <1>4 DEF Safe, Sound, TypeOK

(* After a crash, or an orderly end, the database is all there is. *)
LEMMA GoneSafe ==
  ASSUME Safe, Quit \/ Crash \/ Start \/ Shutdown
  PROVE  Safe'
<1>1. CASE Quit \/ Crash
  <2>1. Gone /\ latest' = db' /\ db' = db
    BY <1>1, QuitSaved DEF Quit, Crash
  <2>2. \A r \in Run : ~Cached(r)'
    BY <2>1 DEF Gone, Cached
  <2> QED
    BY <1>1, <2>1, <2>2, GoneSound DEF Safe, LatestRead, ChangesMarked
<1>2. CASE Start \/ Shutdown
  <2>1. UNCHANGED <<db, latest, heap, cache, pc, todo, adrift>>
    BY <1>2 DEF Start, Shutdown
  <2> QED
    BY <1>2, <2>1, GoneSound DEF Safe, LatestRead, ChangesMarked, Cached, Changed, AboutToSave, WorkingOn
<1> QED
  BY <1>1, <1>2

(* At first nothing is changed. *)
LEMMA InitSafe == Init => Safe
<1>1. Init => LatestRead /\ ChangesMarked
  BY DEF Init, LatestRead, ChangesMarked, Cached
<1> QED
  BY <1>1, InitSound DEF Safe

(* Every step keeps Safe. *)
LEMMA NextSafe == Safe /\ [Next]_vars => Safe'
<1> SUFFICES ASSUME Safe, [Next]_vars PROVE Safe'
  OBVIOUS
<1>1. ASSUME NEW h \in Handler, NEW r \in Run, GetRun(h, r) \/ NewRun(h, r) PROVE Safe'
  BY <1>1, GetRunSafe, NewRunSafe
<1>2. ASSUME NEW h \in Handler, Continue(h) PROVE Safe'
  BY <1>2, ContinueSafe
<1>3. ASSUME NEW t \in Thread, Save(t) PROVE Safe'
  BY <1>3, SaveSafe
<1>4. CASE FlushBuffers
  BY <1>4, FlushBuffersSafe
<1>5. ASSUME NEW r \in Run, GrowIdle(r) \/ CleanCache(r) PROVE Safe'
  BY <1>5, GrowIdleSafe, CleanCacheSafe
<1>6. CASE FlushAll \/ FlushNext
  BY <1>6, FlushAllSafe, FlushNextSafe
<1>7. CASE Quit \/ Crash \/ Start \/ Shutdown
  BY <1>7, GoneSafe
<1>8. CASE UNCHANGED vars
  BY <1>8, NextSound DEF vars, Safe, LatestRead, ChangesMarked, Cached, Changed, AboutToSave, WorkingOn
<1> QED
  BY <1>1, <1>2, <1>3, <1>4, <1>5, <1>6, <1>7, <1>8 DEF Next

(* Safe holds in every reachable state. *)
THEOREM AlwaysSafe == Spec => []Safe
BY InitSafe, NextSafe, PTL DEF Spec

(* Whoever gets a run gets all changes made to it (get_run), whatever handlers do and
   writes fail: only what went adrift may be undone, when the run is dropped. *)
THEOREM NoUpdateLost == Spec => []LatestRead
<1>1. Safe => LatestRead
  BY DEF Safe
<1> QED
  BY <1>1, AlwaysSafe, PTL

(* A change that is not in the database is marked, or about to be saved, unless a
   handler did not buffer it or its write failed. *)
THEOREM NoChangeForgotten == Spec => []ChangesMarked
<1>1. Safe => ChangesMarked
  BY DEF Safe
<1> QED
  BY <1>1, AlwaysSafe, PTL

----------------------------------------------------------------------------
(* The cache implements the store. *)

(* A handler changes one run, or minds or neglects it. *)
LEMMA ContinueStore ==
  ASSUME Safe, NEW h \in Handler, Continue(h)
  PROVE  [Store!Next]_Store!vars
<1> DEFINE r == pc[h].run
<1>1. pc[h] # Idle /\ h \in Thread
  BY Threads DEF Continue, Done, Change, Touch, Buffer, BufferNow, Forget, Idle
<1>2. r \in Run /\ phase # "down"
  BY <1>1, HasEntry DEF Safe
<1>3. CASE Change(h)
  BY <1>2, <1>3 DEF Change, Store!Change, Store!Next
<1>4. CASE Buffer(h)
  <2>1. Store!Mind(r)
    BY <1>2, <1>4 DEF Buffer, Store!Mind
  <2> QED
    BY <1>2, <2>1 DEF Store!Next
<1>5. CASE Forget(h)
  <2>1. CASE r \in Changed
    BY <1>5, <2>1 DEF Forget, Store!vars
  <2>2. CASE r \notin Changed
    <3>1. Store!Neglect(r)
      BY <1>2, <1>5, <2>2 DEF Forget, Store!Neglect
    <3> QED
      BY <1>2, <3>1 DEF Store!Next
  <2> QED
    BY <2>1, <2>2
<1>6. CASE Done(h) \/ Touch(h) \/ BufferNow(h)
  BY <1>6 DEF Done, Touch, BufferNow, Store!vars
<1> QED
  BY <1>3, <1>4, <1>5, <1>6 DEF Continue

(* What is saved is not older than what was saved before. *)
LEMMA SaveStore ==
  ASSUME Safe, NEW t \in Thread, Save(t)
  PROVE  [Store!Next]_Store!vars
<1>1. CASE Write(t)
  <2>1. pc[t] # Idle /\ pc[t] \in Writing
    BY <1>1, PlaceOf DEF Write, Safe, Sound
  <2>2. /\ pc[t].run \in Run /\ phase # "down" /\ Cached(pc[t].run)
        /\ cache[pc[t].run].obj = pc[t].obj
    BY <2>1, HasEntry DEF Safe
  <2>3. /\ db[pc[t].run] <= pc[t].version /\ pc[t].version <= latest[pc[t].run]
        /\ db[pc[t].run] \in Nat /\ latest[pc[t].run] \in Nat /\ pc[t].version \in Nat
    BY <1>1, <2>1, <2>2 DEF Write, Safe, Sound, VersionsOk, LatestRead, TypeOK, Writing
  <2>4. pc[t].version \in db[pc[t].run] .. latest[pc[t].run]
    BY <2>3
  <2>5. Store!Save(pc[t].run)
    BY <1>1, <2>2, <2>4 DEF Write, Store!Save
  <2> QED
    BY <2>2, <2>5 DEF Store!Next
<1>2. CASE Encode(t) \/ WriteFails(t)
  <2>1. pc[t] # Idle
    BY <1>2 DEF Encode, WriteFails, Idle
  <2>2. pc[t].run \in Run /\ phase # "down"
    BY <2>1, HasEntry DEF Safe
  <2>3. Store!Mind(pc[t].run) \/ Store!Neglect(pc[t].run)
    BY <1>2, <2>2 DEF Encode, WriteFails, Store!Mind, Store!Neglect
  <2> QED
    BY <2>2, <2>3 DEF Store!Next
<1> QED
  BY <1>1, <1>2 DEF Save

(* A run that is dropped is lost if it is adrift. *)
LEMMA CleanCacheStore ==
  ASSUME Safe, NEW r \in Run, CleanCache(r)
  PROVE  [Store!Next]_Store!vars
<1>1. UNCHANGED <<db, phase>> /\ phase # "down"
  BY DEF CleanCache
<1>2. CASE r \in adrift
  BY <1>1, <1>2 DEF CleanCache, Store!Lose, Store!Next
<1>3. CASE r \notin adrift
  <2>1. latest' = latest /\ adrift' = adrift
    BY <1>3 DEF CleanCache, Safe, Sound, TypeOK
  <2> QED
    BY <1>1, <2>1 DEF Store!vars
<1> QED
  BY <1>2, <1>3

(* Submitting a run is a change for the store. *)
LEMMA NewRunStore ==
  ASSUME Safe, NEW h \in Handler, NEW r \in Run, NewRun(h, r)
  PROVE  Store!Next
<1>1. latest[r] + 1 = 1 /\ phase = "up" /\ phase' = "up"
  BY DEF NewRun
<1>2. Store!Change(r)
  BY <1>1 DEF NewRun, Store!Change, Safe, Sound, TypeOK
<1> QED
  BY <1>2 DEF Store!Next

(* A crash, an orderly end and a start are those of the store. *)
LEMMA GoneStore ==
  ASSUME Safe, Quit \/ Crash \/ Start
  PROVE  Store!Next
<1>1. CASE Quit
  BY <1>1, QuitSaved DEF Quit, Gone, Store!Quit, Store!Next
<1>2. CASE Crash
  BY <1>2 DEF Crash, Gone, Store!Crash, Store!Next
<1>3. CASE Start
  BY <1>3 DEF Start, Store!Start, Store!Next
<1> QED
  BY <1>1, <1>2, <1>3

(* A step of the cache is a step of the store, or none. *)
LEMMA NextStore == Safe /\ [Next]_vars => [Store!Next]_Store!vars
<1> SUFFICES ASSUME Safe, [Next]_vars PROVE [Store!Next]_Store!vars
  OBVIOUS
<1>1. ASSUME NEW h \in Handler, NEW r \in Run, GetRun(h, r) \/ NewRun(h, r)
      PROVE  [Store!Next]_Store!vars
  BY <1>1, NewRunStore DEF GetRun, Store!vars
<1>2. ASSUME NEW h \in Handler, Continue(h) PROVE [Store!Next]_Store!vars
  BY <1>2, ContinueStore
<1>3. ASSUME NEW t \in Thread, Save(t) PROVE [Store!Next]_Store!vars
  BY <1>3, SaveStore
<1>4. ASSUME NEW r \in Run, GrowIdle(r) \/ CleanCache(r) PROVE [Store!Next]_Store!vars
  BY <1>4, CleanCacheStore DEF GrowIdle, Store!vars
<1>5. CASE FlushBuffers \/ Shutdown \/ FlushAll \/ FlushNext
  BY <1>5 DEF FlushBuffers, Shutdown, FlushAll, FlushNext, Store!vars
<1>6. CASE Quit \/ Crash \/ Start
  BY <1>6, GoneStore
<1>7. CASE UNCHANGED vars
  BY <1>7 DEF vars, Store!vars
<1> QED
  BY <1>1, <1>2, <1>3, <1>4, <1>5, <1>6, <1>7 DEF Next

(* The run cache implements the store: saved versions never go back, a crash loses
   only what was not saved, and while the server runs and when it ends only what
   went adrift is lost. *)
THEOREM CacheImplementsStore == Spec => ImplementsStore
<1>1. Init => Store!Init
  BY DEF Init, Store!Init
<1> QED
  BY <1>1, NextStore, AlwaysSafe, PTL DEF Spec, ImplementsStore, Store!Spec
=============================================================================
