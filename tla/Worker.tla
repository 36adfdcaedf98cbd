------------------------------- MODULE Worker -------------------------------
(***************************************************************************)
(* The worker of Fishtest (worker.py and games.py), on an SPSA tune: its   *)
(* main loop fetches a task, plays its batches and reports each of them,   *)
(* while the heartbeat thread keeps asking whether the task is alive.  The *)
(* two share current_state.  A request may be lost, answered too late, or  *)
(* handled after the worker gave it up.                                    *)
(***************************************************************************)
EXTENDS SpsaHandler, FiniteSets

CONSTANTS
    MaxAttempts,  \* how often a report is sent: 5
    MaxLate       \* bound on the requests that are still to come late

ASSUME AttemptsAssumption == MaxAttempts \in Nat \ {0} /\ MaxLate \in Nat

VARIABLES
    current,  \* current_state["task_id"], None without a task
    alive,    \* current_state["alive"]
    main,     \* the main loop
    beat,     \* the heartbeat thread
    late      \* requests that were given up and that the server will still handle

worker == <<current, alive, main, beat>>
vars == <<server, worker, late>>

\* What the main loop works on: its task, the batches it reported, the batch it has.
NoTask == [at |-> "idle", task |-> None, played |-> 0, batch |-> None, attempt |-> 0]
Main == [at : {"idle", "fetching", "ready", "asking", "playing", "reporting",
               "failing", "stopped"},
         task : Nat \cup {None}, played : Nat, batch : Batch \cup {None},
         attempt : 0 .. MaxAttempts]
\* The heartbeat: quiet, waiting for an answer, or told that the task is dead.
Quiet == [at |-> "quiet", task |-> None]
Beating == [at : {"quiet", "waiting", "told"}, task : Nat \cup {None}]

\* Requests that say the same are one.
Request(w, op, m) ==
    [worker |-> w, op |-> op, task |-> m.task,
     played |-> IF op = "update" THEN m.played + 1 ELSE 0,
     batch |-> IF op = "update" THEN m.batch ELSE None]

Requests ==
    [worker : Worker, op : {"task", "spsa", "update", "failed"}, task : Nat \cup {None},
     played : Nat, batch : Batch \cup {None}]

\* What the main loop waits for.
OpAt == [fetching |-> "task", asking |-> "spsa", reporting |-> "update",
         failing |-> "failed"]
Waits(w) == main[w].at \in DOMAIN OpAt
Awaited(w) == Request(w, OpAt[main[w].at], main[w])

Init ==
    /\ InitServer
    /\ current = [w \in Worker |-> None]
    /\ alive = [w \in Worker |-> TRUE]
    /\ main = [w \in Worker |-> NoTask]
    /\ beat = [w \in Worker |-> Quiet]
    /\ late = {}
-----------------------------------------------------------------------------
(* The main loop *)

Goes(w, m) == main' = [main EXCEPT ![w] = m]
Clears(w) == current' = [current EXCEPT ![w] = None]

\* The end of fetch_and_handle_task without an exception: nothing is sent.
Leaves(w) == Goes(w, NoTask) /\ Clears(w)
\* The end with an exception: the server is told.
Fails(w) ==
    /\ Goes(w, [main[w] EXCEPT !.at = "failing", !.batch = None, !.attempt = 0])
    /\ Clears(w)

\* fetch_and_handle_task, after the checks of version and files.
Fetch(w) ==
    /\ main[w].at = "idle" /\ alive[w]
    /\ Goes(w, [NoTask EXCEPT !.at = "fetching"])
    /\ UNCHANGED <<server, current, alive, beat, late>>

\* launch_fastchess: the parameters of the next batch, or the end of the task.
Ask(w) ==
    /\ main[w].at = "ready"
    /\ \/ /\ main[w].played < TaskSize
          /\ Goes(w, [main[w] EXCEPT !.at = "asking"])
          /\ UNCHANGED current
       \/ /\ main[w].played = TaskSize
          /\ Leaves(w)
    /\ UNCHANGED <<server, alive, beat, late>>

\* parse_fastchess_output: the games are over, and are reported.
Report(w) ==
    /\ main[w].at = "playing" /\ current[w] # None
    /\ Goes(w, [main[w] EXCEPT !.at = "reporting", !.attempt = 1])
    /\ UNCHANGED <<server, current, alive, beat, late>>

\* parse_fastchess_output: "This task is no longer necessary."  It looks before the
\* games are over, and once more after their report.
Abandon(w) ==
    /\ current[w] = None
    /\ \/ main[w].at = "playing"
       \/ main[w].at = "ready" /\ main[w].played > 0
    /\ Leaves(w)
    /\ UNCHANGED <<server, alive, beat, late>>

\* The games cannot be played; an exception of an unexpected kind ends the worker.
Break(w) ==
    /\ main[w].at \in {"ready", "playing"}
    /\ Fails(w)
    /\ alive' \in {alive, [alive EXCEPT ![w] = FALSE]}
    /\ UNCHANGED <<server, beat, late>>

\* The user interrupts the worker (on_sigint): it gives up its task and ends.
Interrupt(w) ==
    /\ alive[w]
    /\ alive' = [alive EXCEPT ![w] = FALSE]
    /\ \/ /\ main[w].at \in {"ready", "asking", "playing", "reporting"}
          /\ Fails(w)
       \/ /\ main[w].at \in {"idle", "fetching"}
          /\ Goes(w, [NoTask EXCEPT !.at = "stopped"])
          /\ UNCHANGED current
       \/ /\ main[w].at = "failing"
          /\ UNCHANGED <<main, current>>
    /\ UNCHANGED <<server, beat, late>>

\* The end of the failure: the next task, unless the worker is to end.
AfterFailing(w) == [NoTask EXCEPT !.at = IF alive[w] THEN "idle" ELSE "stopped"]

\* What the main loop does with the answer to its request.
Continues(w, reply) ==
    LET m == main[w] IN
    \/ /\ m.at = "fetching" /\ reply.is = "task"
       /\ current' = [current EXCEPT ![w] = reply.task]
       /\ Goes(w, [NoTask EXCEPT !.at = "ready", !.task = reply.task])
    \/ /\ m.at = "asking" /\ reply.is = "params"
       /\ Goes(w, [m EXCEPT !.at = "playing", !.batch = reply.batch])
       /\ UNCHANGED current
    \/ /\ m.at = "reporting" /\ reply.is = "alive"
       /\ Goes(w, [m EXCEPT !.at = "ready", !.played = @ + 1, !.batch = None,
                            !.attempt = 0])
       /\ UNCHANGED current
    \/ /\ m.at \in {"asking", "reporting"} /\ reply.is = "dead"
       /\ Leaves(w)
    \/ /\ m.at \in {"asking", "reporting"} /\ reply.is = "error"
       /\ Fails(w)
    \/ /\ m.at = "fetching" /\ reply.is # "task"
       /\ Goes(w, NoTask)
       /\ UNCHANGED current
    \/ /\ m.at = "failing"
       /\ Goes(w, AfterFailing(w))
       /\ UNCHANGED current

\* No answer comes in time: a report is sent again, everything else has failed.
GivesUp(w) ==
    LET m == main[w] IN
    \/ /\ m.at = "fetching"
       /\ Goes(w, NoTask)
       /\ UNCHANGED current
    \/ /\ m.at = "asking" \/ (m.at = "reporting" /\ m.attempt = MaxAttempts)
       /\ Fails(w)
    \/ /\ m.at = "reporting" /\ m.attempt < MaxAttempts
       /\ Goes(w, [m EXCEPT !.attempt = @ + 1])
       /\ UNCHANGED current
    \/ /\ m.at = "failing"
       /\ Goes(w, AfterFailing(w))
       /\ UNCHANGED current
-----------------------------------------------------------------------------
(* The heartbeat thread *)

\* A beat for the current task, after a silence.
Beat(w) ==
    /\ beat[w].at = "quiet" /\ alive[w] /\ current[w] # None
    /\ beat' = [beat EXCEPT ![w] = [at |-> "waiting", task |-> current[w]]]
    /\ UNCHANGED <<server, current, alive, main, late>>

\* No answer comes.
GiveUpBeat(w) ==
    /\ beat[w].at = "waiting"
    /\ beat' = [beat EXCEPT ![w] = Quiet]
    /\ UNCHANGED <<server, current, alive, main, late>>

\* The answer says that the task is dead, or is an error: ...
\* Mutant: such an answer is ignored.
MutHeeds(reply) == FALSE
Heeds(reply) == reply.is # "alive"
AnswerBeat(w) ==
    /\ beat[w].at = "waiting"
    /\ \E o \in Outcomes(Request(w, "beat", beat[w])) :
        beat' = [beat EXCEPT ![w] = IF Heeds(o.reply) THEN [@ EXCEPT !.at = "told"]
                                    ELSE Quiet]
    /\ UNCHANGED <<server, current, alive, main, late>>

\* ... whatever task is the current one by now is cleared.
ClearCurrent(w) ==
    /\ beat[w].at = "told"
    /\ Clears(w)
    /\ beat' = [beat EXCEPT ![w] = Quiet]
    /\ UNCHANGED <<server, alive, main, late>>
-----------------------------------------------------------------------------
(* Requests of the main loop *)

Handled(o) ==
    /\ run' = o.run
    /\ UNCHANGED <<saved, crashes, alive, beat>>

\* The server handles the request, and the answer comes, or gets lost.
Answer(w) ==
    /\ Waits(w)
    /\ \E o \in Outcomes(Awaited(w)) : Handled(o) /\ Continues(w, o.reply)
    /\ UNCHANGED late
LoseAnswer(w) ==
    /\ Waits(w)
    /\ \E o \in Outcomes(Awaited(w)) : Handled(o)
    /\ GivesUp(w)
    /\ UNCHANGED late

\* The main loop gives up a request that the server has not handled, and may handle
\* later.
GiveUp(w) ==
    /\ Waits(w) /\ Cardinality(late) < MaxLate
    /\ late' = late \cup {Awaited(w)}
    /\ GivesUp(w)
    /\ UNCHANGED <<server, alive, beat>>
HandleLate ==
    /\ \E q \in late :
        /\ \E o \in Outcomes(q) : Handled(o)
        /\ late' = late \ {q}
    /\ UNCHANGED <<current, main>>
-----------------------------------------------------------------------------
ServerStep == (Scavenge \/ Stop \/ Save \/ Crash) /\ UNCHANGED <<worker, late>>
MainStep(w) == Fetch(w) \/ Ask(w) \/ Report(w) \/ Abandon(w)
Next ==
    \/ \E w \in Worker :
        \/ MainStep(w) \/ Break(w) \/ Interrupt(w)
        \/ Answer(w) \/ LoseAnswer(w) \/ GiveUp(w)
        \/ Beat(w) \/ AnswerBeat(w) \/ GiveUpBeat(w) \/ ClearCurrent(w)
    \/ HandleLate
    \/ ServerStep

Spec == Init /\ [][Next]_vars

\* The two threads of a worker go on, except that games take as long as they like; the
\* network does not fail for ever.
FairSpec ==
    /\ Spec
    /\ \A w \in Worker :
        /\ WF_vars(Abandon(w)) /\ WF_vars(Answer(w))
        /\ WF_vars(Beat(w) \/ ClearCurrent(w)) /\ SF_vars(AnswerBeat(w))
-----------------------------------------------------------------------------
(* Properties *)

TypeOK ==
    /\ run \in Run /\ saved \in Run
    /\ crashes \in 0 .. MaxCrashes
    /\ alive \in [Worker -> BOOLEAN]
    /\ current \in [Worker -> Nat \cup {None}]
    /\ main \in [Worker -> Main]
    /\ beat \in [Worker -> Beating]
    /\ late \subseteq Requests
    /\ \A w \in Worker : main[w].at \in {"playing", "reporting"} => main[w].batch \in Batch
    /\ \A q \in late : q.op = "update" => q.batch \in Batch

\* Every step of the parameters counts a batch that no other step counts, and is
\* computed with the flips that this batch was played with, whatever is sent again,
\* comes late or gets lost, and although the server forgets what it did not save; its
\* iter is right too, as long as the server does not crash (update_spsa_data: "Make sure
\* we cannot call update_spsa_data again with these data", "The signature defends
\* against server crashes").
StepsSound(r) ==
    \A i \in DOMAIN r.theta :
        LET step == r.theta[i] IN
        /\ \A j \in DOMAIN r.theta : r.theta[j].batch = step.batch => j = i
        /\ step.flips = step.batch.flips
        /\ step.epoch = 0 => step.iter = step.batch.iter
RightPerturbation == StepsSound(run) /\ StepsSound(saved)

\* The tune is one as Tune describes it, seen through tasks that end and are dealt
\* again, and requests that are repeated, late or lost: games are counted and the
\* parameters move only while it is not over, it is over as soon as its games are
\* played, and a crash takes parameters, games and tasks back to one saved state.
Tuned == INSTANCE Tune
    WITH Length <- NumBatches,
         theta <- run.theta,
         games <- Played(run),
         over <- run.finished,
         durable <- [theta |-> saved.theta, games |-> Played(saved), over |-> saved.finished]

ImplementsTune == Tuned!Spec

\* A worker does not stay with a task that has ended at the server: it hears of that by
\* its heartbeats, however long the games take (heartbeat, parse_fastchess_output).
Ended(w, t) == ~Valid(w, t) \/ ~Alive(t)
Lingers(w) ==
    main[w].at \in {"asking", "playing", "reporting"} /\ Ended(w, main[w].task)
EndedTaskLeft == \A w \in Worker : Lingers(w) ~> ~Lingers(w)

\* "This task is no longer necessary": a worker leaves without a word only a task that
\* has ended at the server (parse_fastchess_output).
NoLongerNecessary ==
    [][\A w \in Worker :
        (main[w].at = "playing" /\ main'[w].at = "idle") => Ended(w, main[w].task)]_vars

=============================================================================
