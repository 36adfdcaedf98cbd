------------------------------- MODULE MCSite -------------------------------
(* Instances of Broadcasts and LiveElo for TLC.  The two scripts share nothing, so the  *)
(* tabs run either the one or the other.                                                *)
EXTENDS Broadcasts, LiveElo

CONSTANTS t1, t2, r1, r2, r3, q1, q2, q3

\* The list is full, and there is one run more.
FullList == {<<r1, r2>>}

VARIABLE script
siteVars == <<script, vars, eloVars>>

SiteInit ==
    /\ script \in {"notifications.js", "live_elo.js"}
    /\ Init /\ EloInit
    /\ script = "notifications.js" => request[q1] = Asked /\ visible
SiteNext ==
    /\ UNCHANGED script
    /\ \/ script = "notifications.js" /\ Next /\ UNCHANGED eloVars
       \/ script = "live_elo.js" /\ EloNext /\ UNCHANGED vars

SiteSpec == SiteInit /\ [][SiteNext]_siteVars /\ EloFairness
=============================================================================
