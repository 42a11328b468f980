---------------------------- MODULE MCDashboard ----------------------------
\* The event stream and the rest of the page meet only where the page is
\* mounted and left, so each is explored by itself.
EXTENDS ClusterSocket, DashboardPage

VARIABLE part

mc_vars == <<part, vars, page_vars>>

MCInit == part \in {"stream", "page"} /\ Init /\ PageInit

Stream == part = "stream" /\ Next /\ UNCHANGED <<part, page_vars>>

Page == part = "page" /\ PageNext /\ UNCHANGED <<part, vars>>

MCNext == Stream \/ Page

\* Timers go off, and React renders what has changed.
MCSpec ==
    /\ MCInit /\ [][MCNext]_mc_vars
    /\ part = "stream" => Fairness
    /\ part = "page" => WF_page_vars(Commit) /\ WF_page_vars(Tick)

=============================================================================
