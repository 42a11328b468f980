-------------------------- MODULE HeartbeatManager --------------------------
(***************************************************************************)
(* Several HeartbeatManagers (src/control/heartbeat_manager.cpp) that hear *)
(* heartbeats, time nodes out, and pass their Snapshots to one another.    *)
(*                                                                         *)
(* Every operation of a manager runs under its mutex and is one step.      *)
(* The transport is not in the repository: heartbeats, timeouts and        *)
(* snapshots reach a manager late, repeatedly, in any order or never.      *)
(***************************************************************************)
EXTENDS NodeHealth, FiniteSets

CONSTANTS
    Managers,    \* processes with a HeartbeatManager
    Nodes,       \* nodes of the cluster, none of them with an empty id
    Times,       \* bound: the times, in ms, that observations carry
    MaxInFlight  \* bound: snapshots under way at once

ASSUME TimesAssumption == Times \subseteq Nat /\ MaxInFlight \in Nat

VARIABLES
    health,    \* manager -> node -> entry
    inFlight,  \* snapshots on their way
    beats,     \* history: node -> times at which it gave a heartbeat
    timeouts,  \* history: manager -> node -> times of the timeouts it saw
    obs        \* history: manager -> node -> what it has been told, as reports

vars == <<health, inFlight, beats, timeouts, obs>>

\* One report for each node the manager knows.
Snapshot(m) == [n \in {i \in Nodes : health[m][i].known} |-> ReportOf(health[m][n])]

Observe(m, n, o) == obs' = [obs EXCEPT ![m][n] = @ \cup {o}]

Init ==
    /\ health = [m \in Managers |-> [n \in Nodes |-> Unknown]]
    /\ inFlight = {}
    /\ beats = [n \in Nodes |-> {}]
    /\ timeouts = [m \in Managers |-> [n \in Nodes |-> {}]]
    /\ obs = [m \in Managers |-> [n \in Nodes |-> {}]]

\* RegisterNode does the same.
RecordHeartbeat(m, n, ms) ==
    /\ health' = [health EXCEPT ![m][n] = Heartbeat(@, ms)]
    /\ beats' = [beats EXCEPT ![n] = @ \cup {ms}]
    /\ Observe(m, n, [alive |-> TRUE, heartbeat |-> ms])
    /\ UNCHANGED <<inFlight, timeouts>>

OnHeartbeatTimeout(m, n, ms) ==
    /\ health' = [health EXCEPT ![m][n] = Timeout(@, ms)]
    /\ timeouts' = [timeouts EXCEPT ![m][n] = @ \cup {ms}]
    /\ Observe(m, n, [alive |-> FALSE, heartbeat |-> ms])
    /\ UNCHANGED <<inFlight, beats>>

SendSnapshot(m) ==
    /\ Cardinality(inFlight \cup {Snapshot(m)}) <= MaxInFlight
    /\ inFlight' = inFlight \cup {Snapshot(m)}
    /\ UNCHANGED <<health, beats, timeouts, obs>>

LoseSnapshot(s) ==
    /\ inFlight' = inFlight \ {s}
    /\ UNCHANGED <<health, beats, timeouts, obs>>

\* The snapshot stays under way: it may be delivered again.
IngestGossip(m, s) ==
    /\ health' = [health EXCEPT ![m] =
                    [n \in Nodes |-> IF n \in DOMAIN s THEN Ingest(health[m][n], s[n])
                                     ELSE health[m][n]]]
    /\ obs' = [obs EXCEPT ![m] =
                 [n \in Nodes |-> IF n \in DOMAIN s THEN obs[m][n] \cup {s[n]} ELSE obs[m][n]]]
    /\ UNCHANGED <<inFlight, beats, timeouts>>

Next ==
    \/ \E m \in Managers, n \in Nodes, ms \in Times :
         RecordHeartbeat(m, n, ms) \/ OnHeartbeatTimeout(m, n, ms)
    \/ \E m \in Managers : SendSnapshot(m)
    \/ \E s \in inFlight : LoseSnapshot(s)
    \/ \E m \in Managers, s \in inFlight : IngestGossip(m, s)

Spec == Init /\ [][Next]_vars

-----------------------------------------------------------------------------
\* Properties

\* What managers hold and send is well formed: times never go below zero, and
\* a snapshot has one report for each node its sender knew.
TypeOK ==
    /\ health \in [Managers -> [Nodes -> Entry]]
    /\ \A s \in inFlight : DOMAIN s \subseteq Nodes /\ \A n \in DOMAIN s : s[n] \in Report
    /\ beats \in [Nodes -> SUBSET Times]
    /\ timeouts \in [Managers -> [Nodes -> SUBSET Times]]
    /\ obs \in [Managers -> [Nodes -> SUBSET Report]]

\* A manager's view of a node is that of the latest thing it was told about
\* it, in whatever order it was told: nothing newer was ever received, and
\* something just as new says what the manager believes.
LatestWins ==
    \A m \in Managers, n \in Nodes :
        LET e == health[m][n] IN
        IF e.known
          THEN /\ \A o \in obs[m][n] : o.heartbeat <= e.observed
               /\ \E o \in obs[m][n] : o.heartbeat = e.observed /\ o.alive = e.alive
          ELSE obs[m][n] = {}

\* Nobody believes a node alive on hearsay that no heartbeat stands behind:
\* what a manager holds, and what it passes on, is the time of a heartbeat
\* the node gave to some manager, or the 0 of a node never heard of.
HeartbeatsAreReal ==
    \A m \in Managers, n \in Nodes :
        LET e == health[m][n] IN
        /\ e.alive => e.heartbeat \in beats[n] /\ e.heartbeat = e.observed
        /\ e.heartbeat \in beats[n] \cup {0} /\ e.heartbeat <= e.observed

\* Gossip from a to b about n would change nothing.
Settled(a, b, n) ==
    health[a][n].known => Ingest(health[b][n], ReportOf(health[a][n])) = health[b][n]

\* When gossip between two managers has nothing left to change, they agree on
\* whether a node is alive, unless the one that believes it dead has itself
\* seen it time out no earlier than the heartbeat the other believes in: a
\* report does not carry the time of the timeout, so that doubt is not spread.
GossipSettles ==
    \A a, b \in Managers, n \in Nodes :
        /\ Settled(a, b, n) /\ Settled(b, a, n)
        /\ health[a][n].alive /\ health[b][n].known /\ ~health[b][n].alive
        => \E ms \in timeouts[b][n] : ms = health[b][n].observed /\ ms >= health[a][n].heartbeat

=============================================================================
