------------------------------ MODULE RunStore ------------------------------
(***************************************************************************)
(* What the server's storage of runs promises, without a cache.  A run has *)
(* a latest version, the one that every handler works on, and a version in *)
(* the database.  Saving may lag behind; a crash takes the run back to what *)
(* was saved; quitting in an orderly way loses nothing.  Only a run that    *)
(* was neglected, so that nobody means to save it, may lose its changes.    *)
(***************************************************************************)
EXTENDS Integers

CONSTANT Run

VARIABLES latest,   \* [Run -> Nat]: the number of changes made to the run
          saved,    \* [Run -> Nat]: how many of them are in the database
          up,       \* the server is running
          adrift    \* the runs that are neglected

vars == <<latest, saved, up, adrift>>

Init == /\ latest = [r \in Run |-> 0]
        /\ saved = [r \in Run |-> 0]
        /\ up = TRUE
        /\ adrift = {}

\* A handler changes a run.
Change(r) == /\ up
             /\ latest' = [latest EXCEPT ![r] = @ + 1]
             /\ UNCHANGED <<saved, up, adrift>>

\* Some version of the run that is not older than the saved one is saved.
Save(r) == /\ up
           /\ \E v \in saved[r] .. latest[r] : saved' = [saved EXCEPT ![r] = v]
           /\ UNCHANGED <<latest, up, adrift>>

\* The run is neglected, and minded again.
Neglect(r) == /\ up
              /\ adrift' = adrift \cup {r}
              /\ UNCHANGED <<latest, saved, up>>

Mind(r) == /\ up
           /\ adrift' = adrift \ {r}
           /\ UNCHANGED <<latest, saved, up>>

\* A neglected run falls back to what was saved.
Lose(r) == /\ up /\ r \in adrift
           /\ latest' = [latest EXCEPT ![r] = saved[r]]
           /\ adrift' = adrift \ {r}
           /\ UNCHANGED <<saved, up>>

Crash == /\ up
         /\ up' = FALSE
         /\ latest' = saved
         /\ adrift' = {}
         /\ UNCHANGED saved

Quit == /\ up
        /\ \A r \in Run \ adrift : saved[r] = latest[r]
        /\ up' = FALSE
        /\ latest' = saved
        /\ adrift' = {}
        /\ UNCHANGED saved

Start == /\ ~up
         /\ up' = TRUE
         /\ UNCHANGED <<latest, saved, adrift>>

Next == \/ \E r \in Run : Change(r) \/ Save(r) \/ Neglect(r) \/ Mind(r) \/ Lose(r)
        \/ Crash \/ Quit \/ Start

Spec == Init /\ [][Next]_vars
=============================================================================
