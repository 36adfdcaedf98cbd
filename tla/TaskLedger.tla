----------------------------- MODULE TaskLedger -----------------------------
(***************************************************************************)
(* What the task queue promises of one run, without its counters, its      *)
(* locks and its workers: a ledger of the tasks that were dealt out.       *)
(*                                                                         *)
(* A task is open while a worker plays its games, then closed, or void if  *)
(* its games turn out not to count.  Entries are only ever added at the    *)
(* end, and only for a test that is not over and wants more games than     *)
(* were committed to it.  A closed entry is final, except that it may      *)
(* become void; a void one stays void.                                     *)
(***************************************************************************)
EXTENDS Integers, Sequences, Totals

CONSTANTS Client,   \* those that play games
          Batch     \* a test may get less than a batch of games too many

VARIABLES entries,  \* the tasks, in the order in which they were dealt
          over,     \* the test is over
          wanted    \* the number of games that the test asks for

vars == <<entries, over, wanted>>

NoStats == [wins |-> 0, losses |-> 0, crashes |-> 0]

Games(e) == e.stats.wins + e.stats.losses

\* An open task may still play all its games; of the others count those played.
Commitment(e) == IF e.state = "open" THEN e.size ELSE Games(e)

Dealt == SumOver([i \in DOMAIN entries |-> entries[i].size], DOMAIN entries)
Committed == SumOver([i \in DOMAIN entries |-> Commitment(entries[i])], DOMAIN entries)

Init == /\ entries = <<>>
        /\ over = FALSE
        /\ wanted \in Int

\* A new task: its openings begin where those of all earlier tasks end.
Deal ==
    /\ ~over
    /\ Committed < wanted
    /\ \E e \in {entries'[i] : i \in DOMAIN entries'} :
         /\ entries' = Append(entries, e)
         /\ e.client \in Client /\ e.size \in Nat
         /\ e.start = Dealt
         /\ Committed + e.size < wanted + Batch
         /\ e.state = "open" /\ e.stats = NoStats
    /\ UNCHANGED <<over, wanted>>

\* What may become of an entry.
Evolves(e, f) ==
    /\ f.client = e.client /\ f.start = e.start /\ f.size = e.size
    /\ \/ f.state = e.state /\ f.stats = e.stats
       \/ e.state = "open" /\ f.state \in {"open", "closed"} /\ Games(f) >= Games(e)
       \/ f.state = "void" /\ f.stats = NoStats

\* Tasks report games, end and become void; the test ends, which closes all
\* tasks, or is taken up again.
Advance ==
    /\ DOMAIN entries' = DOMAIN entries
    /\ \A i \in DOMAIN entries : Evolves(entries[i], entries'[i])
    /\ over' => \A i \in DOMAIN entries' : entries'[i].state # "open"
    /\ UNCHANGED wanted

\* The test asks for another number of games.
Resize ==
    /\ wanted' \in Int
    /\ UNCHANGED <<entries, over>>

Next == Advance \/ Resize \/ Deal

Spec == Init /\ [][Next]_vars
=============================================================================
