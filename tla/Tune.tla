-------------------------------- MODULE Tune --------------------------------
(***************************************************************************)
(* What an SPSA tune promises, without its tasks, its workers and their    *)
(* requests: batches of games are counted until there are enough of them,  *)
(* and what is counted moves the parameters, one step at a time.           *)
(*                                                                         *)
(* No step is taken back or counts twice, unless the server crashes: then  *)
(* the tune goes on from what was saved last, the parameters, the games    *)
(* and the verdict that it is over as they belong together.                *)
(***************************************************************************)
EXTENDS Integers, Sequences

CONSTANTS Batch,  \* batches of games, with the perturbation that they are played with
          Length  \* how many batches the tune asks for

VARIABLES theta,    \* the parameters: the steps that moved them
          games,    \* the number of batches that were counted
          over,     \* the tune is over
          durable,  \* what survives a crash
          crashes

vars == <<theta, games, over, durable, crashes>>

Progress == [theta |-> theta, games |-> games, over |-> over]

Init == /\ theta = <<>> /\ games = 0 /\ over = FALSE
        /\ durable = Progress
        /\ crashes = 0

\* A step counts a batch that no other step counts, and has its flips.  Its gain
\* belongs to the present or an earlier number of steps, and to that for which the
\* batch was generated, unless a crash has mixed them up.
MayMove(step) ==
    /\ step.batch \in Batch
    /\ \A i \in DOMAIN theta : theta[i].batch # step.batch
    /\ step.flips = step.batch.flips
    /\ step.iter \in 0 .. Len(theta)
    /\ crashes = 0 => step.iter = step.batch.iter

\* Games are counted, and move the parameters by a step or not at all.
Count ==
    /\ ~over
    /\ games' \in Nat /\ games' > games
    /\ \/ UNCHANGED theta
       \/ \E step \in {theta'[i] : i \in DOMAIN theta'} :
            theta' = Append(theta, step) /\ MayMove(step)
    /\ over' = (games' >= Length)
    /\ UNCHANGED <<durable, crashes>>

\* The tune ends early.
Stop ==
    /\ ~over /\ over' = TRUE
    /\ UNCHANGED <<theta, games, durable, crashes>>

Save ==
    /\ durable' = Progress
    /\ UNCHANGED <<theta, games, over, crashes>>

Crash ==
    /\ theta' = durable.theta /\ games' = durable.games /\ over' = durable.over
    /\ crashes' = crashes + 1
    /\ UNCHANGED durable

Next == Count \/ Stop \/ Save \/ Crash

Spec == Init /\ [][Next]_vars

\* A consequence: the parameters never move without games that count, a tune that goes
\* on has games left to play, and a crash loses what came last.
Paid(p) == Len(p.theta) <= p.games /\ (p.over \/ p.games < Length)
Sound ==
    /\ Paid(Progress) /\ Paid(durable)
    /\ durable.games <= games
    /\ Len(durable.theta) <= Len(theta)
    /\ \A i \in DOMAIN durable.theta : theta[i] = durable.theta[i]
=============================================================================
