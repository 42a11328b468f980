------------------------ MODULE RaftMetadataAdapter ------------------------
(***************************************************************************)
(* The shard leaders of one RaftMetadataAdapter                            *)
(* (src/control/raft_metadata_adapter.cpp), called by several threads.     *)
(*                                                                         *)
(* Two mutexes: that of the HeartbeatManager guards health and is released *)
(* before mutex_, which guards shards, is taken; a thread that sweeps the  *)
(* shards holds mutex_ and takes the other for every IsAlive it asks.  So  *)
(* health may change between any two questions of one sweep.               *)
(*                                                                         *)
(* An answer of IsAlive and the assignment that follows it are one step:   *)
(* what is assigned is read by others only under mutex_, which is held.    *)
(* LeaderForShard and GetNodeHealth only read.                             *)
(***************************************************************************)
EXTENDS NodeHealth, Sequences

CONSTANTS
    Threads,
    Nodes,
    Shards,        \* shard ids
    ReplicaLists,  \* the lists of replicas given to AddShard
    Times,         \* bound: the times, in ms, that observations carry
    None           \* the empty leader

ASSUME ReplicaAssumption == ReplicaLists \subseteq Seq(Nodes) /\ None \notin Nodes
ASSUME TimesAssumption == Times \subseteq Nat

VARIABLES
    health,    \* node -> entry, what heartbeat_ holds
    shards,    \* shards_: shard id -> [replicas, leader]
    pc,        \* thread -> where it is
    todo,      \* thread -> shards its sweep has not come to
    job,       \* thread -> the shard whose leader it elects, and how far it is
    revived,   \* history: nodes that a direct heartbeat brought back and that
               \* no timeout or gossip has been handled since
    steady     \* history: shards whose leader has been alive ever since elected

vars == <<health, shards, pc, todo, job, revived, steady>>

Job == [shard : Shards, replicas : ReplicaLists, at : Nat \ {0}]

IsAlive(n) == health[n].alive

\* mutex_ can be taken.
Free == \A t \in Threads : pc[t] \in {"idle", "locking"}

Goto(t, label) == pc' = [pc EXCEPT ![t] = label]

Init ==
    /\ health = [n \in Nodes |-> Unknown]
    /\ shards = << >>
    /\ pc = [t \in Threads |-> "idle"]
    /\ todo = [t \in Threads |-> {}]
    /\ job = [t \in Threads |-> << >>]
    /\ revived = {}
    /\ steady = {}

\* The history of steady leaders, where health changes.
LeadersDie == steady' = {s \in steady : health'[shards[s].leader].alive}

\* RegisterNode and RecordHeartbeat: no mutex_, and no election.
RecordHeartbeat(n, ms) ==
    /\ health' = [health EXCEPT ![n] = Heartbeat(@, ms)]
    /\ revived' = IF IsAlive(n) \/ ~health'[n].alive THEN revived ELSE revived \cup {n}
    /\ LeadersDie
    /\ UNCHANGED <<shards, pc, todo, job>>

\* The first half of OnHeartbeatTimeout and IngestGossip, and on to mutex_.
Learn(t, h) ==
    /\ pc[t] = "idle"
    /\ health' = h
    /\ LeadersDie
    /\ revived' = {}
    /\ Goto(t, "locking")
    /\ UNCHANGED <<shards, todo, job>>

OnHeartbeatTimeout(t, n, ms) == Learn(t, [health EXCEPT ![n] = Timeout(@, ms)])

Ingested(g) == [n \in Nodes |-> IF n \in DOMAIN g THEN Ingest(health[n], g[n]) ELSE health[n]]

\* Mistake: what gossip brings is left to the next timeout to act upon.
IngestGossip_NoSweep(t, g) ==
    /\ pc[t] = "idle"
    /\ health' = Ingested(g)
    /\ LeadersDie
    /\ UNCHANGED <<shards, pc, todo, job, revived>>

IngestGossip(t, g) == Learn(t, Ingested(g))

\* The loops over shards_ of OnHeartbeatTimeout and IngestGossip.
BeginSweep(t) ==
    /\ pc[t] = "locking" /\ Free
    /\ todo' = [todo EXCEPT ![t] = DOMAIN shards]
    /\ Goto(t, "sweeping")
    /\ UNCHANGED <<health, shards, job, revived, steady>>

\* Mistake: the sweep does not ask whether the leader is alive.
KeepsLeader_Never(s) == FALSE

\* Mistake: a shard that lost its leader is left without one.
KeepsLeader_Empty(s) == shards[s].leader # None => IsAlive(shards[s].leader)

\* The condition of the loop's continue.
KeepsLeader(s) == shards[s].leader # None /\ IsAlive(shards[s].leader)

Visit(t, s) ==
    /\ pc[t] = "sweeping" /\ s \in todo[t]
    /\ todo' = [todo EXCEPT ![t] = @ \ {s}]
    /\ \/ KeepsLeader(s) /\ UNCHANGED <<pc, job>>
       \/ /\ ~KeepsLeader(s)
          /\ job' = [job EXCEPT ![t] = [shard |-> s, replicas |-> shards[s].replicas, at |-> 1]]
          /\ Goto(t, "electing")
    /\ UNCHANGED <<health, shards, revived, steady>>

EndSweep(t) ==
    /\ pc[t] = "sweeping" /\ todo[t] = {}
    /\ Goto(t, "idle")
    /\ UNCHANGED <<health, shards, todo, job, revived, steady>>

AddShard(t, s, replicas) ==
    /\ pc[t] = "idle" /\ Free
    /\ job' = [job EXCEPT ![t] = [shard |-> s, replicas |-> replicas, at |-> 1]]
    /\ Goto(t, "adding")
    /\ UNCHANGED <<health, shards, todo, revived, steady>>

\* shards_ with the election's result; in AddShard, with the shard itself.
Installed(s, replicas, n) ==
    [r \in DOMAIN shards \cup {s} |->
        IF r = s THEN [replicas |-> replicas, leader |-> n] ELSE shards[r]]

\* The end of ElectLeaderIfNeeded; AddShard then returns, a sweep goes on.
Elected(t, n) ==
    /\ shards' = Installed(job[t].shard, job[t].replicas, n)
    /\ steady' = IF n = None THEN steady \ {job[t].shard} ELSE steady \cup {job[t].shard}
    /\ Goto(t, IF pc[t] = "adding" THEN "idle" ELSE "sweeping")
    /\ job' = [job EXCEPT ![t] = << >>]
    /\ UNCHANGED <<health, todo, revived>>

\* Mistake: the election waits for the first choice to come back.
Candidate_Waits(i) == i

\* The candidate asked about after the i-th.
Candidate(i) == i + 1

\* One turn of the loop of ElectLeaderIfNeeded, or its end.
Elect(t) ==
    /\ pc[t] \in {"electing", "adding"}
    /\ LET i == job[t].at
           list == job[t].replicas
       IN  \/ i <= Len(list) /\ IsAlive(list[i]) /\ Elected(t, list[i])
           \/ /\ i <= Len(list) /\ ~IsAlive(list[i])
              /\ job' = [job EXCEPT ![t].at = Candidate(i)]
              /\ UNCHANGED <<health, shards, pc, todo, revived, steady>>
           \/ i > Len(list) /\ Elected(t, None)

Gossip == UNION {[S -> [alive : BOOLEAN, heartbeat : Times]] : S \in SUBSET Nodes}

Call(t) ==
    \/ \E n \in Nodes, ms \in Times : OnHeartbeatTimeout(t, n, ms)
    \/ \E g \in Gossip : IngestGossip(t, g)
    \/ \E s \in Shards, replicas \in ReplicaLists : AddShard(t, s, replicas)

Work(t) == BeginSweep(t) \/ (\E s \in Shards : Visit(t, s)) \/ EndSweep(t) \/ Elect(t)

Next ==
    \/ \E n \in Nodes, ms \in Times : RecordHeartbeat(n, ms)
    \/ \E t \in Threads : Call(t) \/ Work(t)

Spec == Init /\ [][Next]_vars

\* A thread inside a call goes on, and gets mutex_ once nobody holds it.
FairSpec == Spec /\ \A t \in Threads : WF_vars(Work(t))

-----------------------------------------------------------------------------
\* Properties

\* A shard's leader is none or one of its replicas.
TypeOK ==
    /\ health \in [Nodes -> Entry]
    /\ DOMAIN shards \subseteq Shards
    /\ \A s \in DOMAIN shards :
         /\ shards[s].replicas \in ReplicaLists
         /\ \/ shards[s].leader = None
            \/ \E i \in DOMAIN shards[s].replicas : shards[s].leader = shards[s].replicas[i]
    /\ pc \in [Threads -> {"idle", "locking", "sweeping", "electing", "adding"}]
    /\ todo \in [Threads -> SUBSET DOMAIN shards]
    /\ DOMAIN job = Threads
    /\ \A t \in Threads : pc[t] \in {"electing", "adding"} => job[t] \in Job
    /\ revived \subseteq Nodes /\ steady \subseteq DOMAIN shards

Idle == \A t \in Threads : pc[t] = "idle"

\* However the calls overlapped, when all of them have returned no shard is
\* led by a node believed dead: a sweep that read a leader's health too early
\* is always followed by one that reads it again.
LeadersAlive ==
    Idle => \A s \in DOMAIN shards : shards[s].leader # None => IsAlive(shards[s].leader)

\* When all calls have returned, a shard is without a leader only if none of
\* its replicas is alive or those that are were brought back by a heartbeat
\* of their own since the last timeout or gossip: RecordHeartbeat does not
\* elect, and nothing else may leave a shard with a live replica leaderless.
LeaderlessExcused ==
    Idle => \A s \in DOMAIN shards : shards[s].leader = None =>
              \A i \in DOMAIN shards[s].replicas :
                IsAlive(shards[s].replicas[i]) => shards[s].replicas[i] \in revived

\* A leader that has been alive ever since it was elected is never deposed,
\* except by AddShard giving the shard a new list of replicas.
StableLeader ==
    [][\A s \in steady : \/ shards'[s].leader = shards[s].leader
                         \/ \E t \in Threads : pc[t] = "adding" /\ job[t].shard = s]_vars

\* Calls in progress return and, if no more calls come, all shards get and keep
\* a live leader or none.
FailoverCompletes ==
    <>[][\A t \in Threads : ~Call(t)]_vars =>
        <>[](Idle /\ \A s \in DOMAIN shards :
                       shards[s].leader = None \/ IsAlive(shards[s].leader))

=============================================================================
