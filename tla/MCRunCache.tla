----------------------------- MODULE MCRunCache -----------------------------
(* Instances of RunCache for TLC: two handlers and one run, or one handler and two runs   *)
(* of which none is buffered with the highest of the three priorities.                  *)
EXTENDS RunCache

CONSTANTS r1, r2, o1, o2, h1, h2, sched, main

VARIABLE instance
cacheVars == <<instance, vars>>

CacheInit == Init /\ instance \in {"two handlers", "two runs"}

CacheNext ==
    /\ Next /\ UNCHANGED instance
    /\ instance = "two handlers" => latest'[r2] = 0
    /\ instance = "two runs" => /\ pc'[h2] = Idle
                              /\ \A r \in Run : Cached(r)' => cache'[r].priority < 2

CacheSpec == CacheInit /\ [][CacheNext]_cacheVars /\ Fairness
=============================================================================
