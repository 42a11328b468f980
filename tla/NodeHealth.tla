----------------------------- MODULE NodeHealth -----------------------------
(***************************************************************************)
(* What a HeartbeatManager (src/control/heartbeat_manager.cpp) keeps about *)
(* one node, and how each kind of observation changes it.                  *)
(*                                                                         *)
(* The entry of nodes_ and that of last_observation_ms_ are one record.    *)
(* known is "the entry has a node_id": ids are not empty, so it is true    *)
(* from the first observation on.                                          *)
(***************************************************************************)
EXTENDS Integers

Entry == [known : BOOLEAN, alive : BOOLEAN, heartbeat : Nat, observed : Nat]

\* The entry operator[] makes for a node not heard of before.
Unknown == [known |-> FALSE, alive |-> FALSE, heartbeat |-> 0, observed |-> 0]

\* RegisterNode and RecordHeartbeat.
Heartbeat(e, ms) ==
    IF e.known /\ ms < e.observed THEN e
    ELSE [known |-> TRUE, alive |-> TRUE, heartbeat |-> ms, observed |-> ms]

\* Mistake: a timeout is applied even when it is older than the last heartbeat.
Timeout_Stale(e, ms) ==
    [known |-> TRUE, alive |-> FALSE, heartbeat |-> e.heartbeat,
     observed |-> IF ms > e.observed THEN ms ELSE e.observed]

\* OnHeartbeatTimeout.
Timeout(e, ms) ==
    IF e.known /\ ms < e.observed THEN e
    ELSE [known |-> TRUE, alive |-> FALSE, heartbeat |-> e.heartbeat,
          observed |-> IF ms > e.observed THEN ms ELSE e.observed]

Report == [alive : BOOLEAN, heartbeat : Nat]

\* The NodeHealth that Snapshot and GetNodeHealth give out.
ReportOf(e) == [alive |-> e.alive, heartbeat |-> e.heartbeat]

\* Mistake: of two reports as old as each other the first wins.
Ignores_Ties(e, o) == e.known /\ o.heartbeat <= e.observed

\* The two continue statements of IngestGossip: a report is older than what is
\* known, or would revive a node without news.
Ignores(e, o) ==
    e.known /\ (o.heartbeat < e.observed \/ (o.heartbeat = e.observed /\ ~e.alive /\ o.alive))

\* Mistake: the time of a report is not remembered.
Ingest_Forgets(e, o) ==
    IF Ignores(e, o) THEN e
    ELSE [known |-> TRUE, alive |-> o.alive, heartbeat |-> o.heartbeat, observed |-> e.observed]

\* IngestGossip, for one report.
Ingest(e, o) ==
    IF Ignores(e, o) THEN e
    ELSE [known |-> TRUE, alive |-> o.alive, heartbeat |-> o.heartbeat, observed |-> o.heartbeat]

=============================================================================
