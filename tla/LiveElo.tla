------------------------------ MODULE LiveElo ------------------------------
(***************************************************************************)
(* The live Elo page of a run (live_elo.js): its worker asks the server    *)
(* for the state of the run every 20 seconds while the tab is visible, and *)
(* once more when the tab becomes visible, and displays what it answers.   *)
(* It does not wait for an answer before it asks again.                    *)
(***************************************************************************)
EXTENDS Integers, FiniteSets

CONSTANTS
    Request,     \* bound: the requests that can be on their way at a time
    Final        \* the result with which the run ends; results grow up to it

ASSUME FinalAssumption == Final \in Nat

VARIABLES
    result,              \* server: the result of the run
    request,             \* what became of the requests of the page
    shown,               \* the result that the page shows
    visible,             \* document.visibilityState
    isTabFocused,
    isVisibilityChange   \* becoming visible may trigger an update

eloVars == <<result, request, shown, visible, isTabFocused, isVisibilityChange>>

\* A request that is not on its way, one that the server has not handled, an answer.
Free == -2
Asked == -1
RequestState == {Free, Asked} \cup 0..Final

Pending == {q \in Request : request[q] # Free}

\* update: one more request, however many are on their way.
Update ==
    \E q \in Request \ Pending : request' = [request EXCEPT ![q] = Asked]

\* The page is loaded, in a visible tab or not: the first update.
EloInit ==
    /\ result = 0
    /\ shown = Free
    /\ visible \in BOOLEAN
    /\ isTabFocused = TRUE /\ isVisibilityChange = TRUE
    /\ \E q \in Request :
        request = [p \in Request |-> IF p = q THEN Asked ELSE Free]

\* mainWorker, when its timer fires.
MainWorker ==
    /\ isVisibilityChange' = TRUE
    /\ IF isTabFocused THEN Update ELSE UNCHANGED request
    /\ UNCHANGED <<result, shown, visible, isTabFocused>>

\* The listener of "visibilitychange".
\* Mutant: a tab that becomes visible too early is not noted.
MutVisibilityChange ==
    /\ visible' = ~visible
    /\ IF isVisibilityChange /\ visible'
       THEN isTabFocused' = TRUE /\ isVisibilityChange' = FALSE /\ Update
       ELSE /\ isTabFocused' = (isTabFocused /\ visible')
            /\ UNCHANGED <<isVisibilityChange, request>>
    /\ UNCHANGED <<result, shown>>
VisibilityChange ==
    /\ visible' = ~visible
    /\ isTabFocused' = visible'
    /\ IF isVisibilityChange /\ isTabFocused'
       THEN isVisibilityChange' = FALSE /\ Update
       ELSE UNCHANGED <<isVisibilityChange, request>>
    /\ UNCHANGED <<result, shown>>

\* The server answers with the result as it is then.
Serve(q) ==
    /\ request[q] = Asked
    /\ request' = [request EXCEPT ![q] = result]
    /\ UNCHANGED <<result, shown, visible, isTabFocused, isVisibilityChange>>

\* displayData, whatever the order in which answers arrive.
DisplayData(q) ==
    /\ request[q] \in 0..Final
    /\ shown' = request[q]
    /\ request' = [request EXCEPT ![q] = Free]
    /\ UNCHANGED <<result, visible, isTabFocused, isVisibilityChange>>

\* "Network error"
NetworkError(q) ==
    /\ q \in Pending
    /\ request' = [request EXCEPT ![q] = Free]
    /\ UNCHANGED <<result, shown, visible, isTabFocused, isVisibilityChange>>

Progress ==
    /\ result < Final
    /\ result' = result + 1
    /\ UNCHANGED <<request, shown, visible, isTabFocused, isVisibilityChange>>

EloNext ==
    \/ MainWorker \/ VisibilityChange \/ Progress
    \/ \E q \in Request : Serve(q) \/ DisplayData(q) \/ NetworkError(q)

\* The timer fires and the server answers; the network does not fail for ever.
EloFairness ==
    /\ SF_eloVars(MainWorker)
    /\ \A q \in Request : SF_eloVars(Serve(q)) /\ SF_eloVars(DisplayData(q))
-----------------------------------------------------------------------------
(* Properties *)

\* A page that is looked at shows the final result of a finished run in the end, and for
\* good: an older answer that arrives after it is corrected by a later update.
SettlesOnResult ==
    <>[](visible /\ result = Final) => <>[](shown = Final)
=============================================================================
