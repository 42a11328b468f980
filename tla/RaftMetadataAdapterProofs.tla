--------------------- MODULE RaftMetadataAdapterProofs ---------------------
(***************************************************************************)
(* Proofs about RaftMetadataAdapter, for any number of threads, nodes and  *)
(* shards.                                                                 *)
(*                                                                         *)
(* LeadersAlive and LeaderlessExcused speak of moments when no call is in  *)
(* progress.  What is inductive is that whatever is amiss in between is    *)
(* still ahead of some thread (Repair), and that what a thread elects a    *)
(* leader from is not going stale unnoticed (Elections).                   *)
(***************************************************************************)
EXTENDS RaftMetadataAdapter, TLAPS

\* A thread that will look at shard s again, or is electing its leader.
Pending(t, s) ==
    \/ pc[t] = "locking"
    \/ pc[t] \in {"sweeping", "electing"} /\ s \in todo[t]
    \/ pc[t] = "electing" /\ job[t].shard = s

\* Where a thread holds mutex_.
Inside == {"sweeping", "electing", "adding"}

\* One thread at a time holds mutex_.
Exclusive ==
    \A t, u \in Threads : pc[t] \in Inside /\ pc[u] \in Inside => t = u

\* A dead leader, or a live replica of a shard without one, is some thread's
\* business; of the latter RecordHeartbeat may have brought back a few.
Repair ==
    \A s \in DOMAIN shards :
        \/ \E t \in Threads : Pending(t, s)
        \/ shards[s].leader # None /\ IsAlive(shards[s].leader)
        \/ /\ shards[s].leader = None
           /\ \A i \in DOMAIN shards[s].replicas :
                IsAlive(shards[s].replicas[i]) => shards[s].replicas[i] \in revived

\* A candidate passed over has not come back, except by its own heartbeat,
\* unless the thread that brought it back is still to sweep.
Elections ==
    \A t \in Threads : pc[t] \in {"electing", "adding"} =>
        \A i \in DOMAIN job[t].replicas :
            i < job[t].at /\ IsAlive(job[t].replicas[i]) =>
                \/ job[t].replicas[i] \in revived
                \/ \E u \in Threads : pc[u] = "locking"

\* A steady leader is alive, and no sweep is replacing it.
Steady ==
    \A s \in steady :
        /\ shards[s].leader # None /\ IsAlive(shards[s].leader)
        /\ \A t \in Threads : pc[t] = "electing" => job[t].shard # s

IInv == TypeOK /\ Exclusive /\ Repair /\ Elections /\ Steady

-----------------------------------------------------------------------------
\* Facts about the parts

\* The lists of replicas hold nodes.
LEMMA ReplicaNodes ==
  ASSUME NEW l \in ReplicaLists, NEW i \in DOMAIN l
  PROVE  l[i] \in Nodes /\ i \in Nat /\ 1 <= i /\ i <= Len(l) /\ Len(l) \in Nat
  BY ReplicaAssumption

\* A position in a list of replicas names a node.
LEMMA AnyReplica ==
  ASSUME NEW l \in ReplicaLists, NEW i \in Nat, 1 <= i, i <= Len(l)
  PROVE  i \in DOMAIN l /\ l[i] \in Nodes
  BY ReplicaAssumption

\* Leaders are nodes.
LEMMA LeaderNode ==
  ASSUME TypeOK, NEW s \in DOMAIN shards, shards[s].leader # None
  PROVE  shards[s].leader \in Nodes
<1>1. PICK i \in DOMAIN shards[s].replicas : shards[s].leader = shards[s].replicas[i]
  BY DEF TypeOK
<1>2. QED BY <1>1, ReplicaNodes DEF TypeOK

\* The observations keep entries entries; a heartbeat kills nobody.
LEMMA EntriesStay ==
  ASSUME NEW e \in Entry, NEW ms \in Nat, NEW o \in [alive : BOOLEAN, heartbeat : Nat]
  PROVE  /\ Heartbeat(e, ms) \in Entry /\ Timeout(e, ms) \in Entry /\ Ingest(e, o) \in Entry
         /\ e.alive => Heartbeat(e, ms).alive
  BY DEF Heartbeat, Timeout, Ingest, Entry

-----------------------------------------------------------------------------
\* The steps

\* The invariant holds of an adapter without shards.
LEMMA InitIInv == Init => IInv
<1> SUFFICES ASSUME Init PROVE IInv
  OBVIOUS
<1>1. DOMAIN shards = {}
  BY DEF Init
<1>2. TypeOK
  BY <1>1 DEF Init, TypeOK, Unknown, Entry
<1>3. \A t \in Threads : pc[t] = "idle"
  BY DEF Init
<1>4. Exclusive /\ Elections
  BY <1>3 DEF Exclusive, Elections, Inside
<1>5. Repair /\ Steady
  BY <1>1 DEF Init, Repair, Steady
<1>6. QED BY <1>2, <1>4, <1>5 DEF IInv

\* RecordHeartbeat kills no leader, and excuses whom it brings back.
LEMMA HeartbeatStep ==
  ASSUME IInv, NEW n \in Nodes, NEW ms \in Times, RecordHeartbeat(n, ms)
  PROVE  IInv'
<1>0. TypeOK /\ Exclusive /\ Repair /\ Elections /\ Steady /\ ms \in Nat
  BY TimesAssumption DEF IInv
<1>1. UNCHANGED <<shards, pc, todo, job>>
  BY DEF RecordHeartbeat
<1>2. /\ health' \in [Nodes -> Entry]
      /\ \A k \in Nodes : IsAlive(k) => health'[k].alive
      /\ \A k \in Nodes : health'[k].alive => IsAlive(k) \/ k \in revived'
      /\ revived \subseteq revived' /\ revived' \subseteq Nodes
  <2>1. health[n] \in Entry /\ health' = [health EXCEPT ![n] = Heartbeat(health[n], ms)]
    BY <1>0 DEF TypeOK, RecordHeartbeat
  <2>2. Heartbeat(health[n], ms) \in Entry /\ (health[n].alive => Heartbeat(health[n], ms).alive)
    BY <1>0, <2>1 DEF Heartbeat, Entry
  <2>3. health' \in [Nodes -> Entry] /\ \A k \in Nodes : k # n => health'[k] = health[k]
    BY <1>0, <2>1, <2>2 DEF TypeOK
  <2>4. health'[n] = Heartbeat(health[n], ms)
    BY <1>0, <2>1 DEF TypeOK
  <2>5. QED BY <1>0, <2>2, <2>3, <2>4 DEF RecordHeartbeat, IsAlive, TypeOK
<1>3. steady' = steady
  <2>1. \A s \in steady : health'[shards[s].leader].alive
    BY <1>0, <1>2, LeaderNode DEF Steady, TypeOK, IsAlive
  <2>2. QED BY <2>1 DEF RecordHeartbeat, LeadersDie
<1>4. TypeOK'
  BY <1>0, <1>1, <1>2, <1>3 DEF TypeOK
<1>5. Exclusive'
  BY <1>0, <1>1 DEF Exclusive
<1>6. Repair'
  <2> SUFFICES ASSUME NEW s \in DOMAIN shards
               PROVE  \/ \E t \in Threads : Pending(t, s)'
                      \/ shards[s].leader # None /\ health'[shards[s].leader].alive
                      \/ /\ shards[s].leader = None
                         /\ \A i \in DOMAIN shards[s].replicas :
                              health'[shards[s].replicas[i]].alive => shards[s].replicas[i] \in revived'
    BY <1>1 DEF Repair, IsAlive
  <2>1. CASE \E t \in Threads : Pending(t, s)
    BY <1>1, <2>1 DEF Pending
  <2>2. CASE shards[s].leader # None /\ IsAlive(shards[s].leader)
    BY <1>0, <1>2, <2>2, LeaderNode DEF IsAlive
  <2>3. CASE /\ shards[s].leader = None
             /\ \A i \in DOMAIN shards[s].replicas :
                  IsAlive(shards[s].replicas[i]) => shards[s].replicas[i] \in revived
    BY <1>0, <1>2, <2>3, ReplicaNodes DEF TypeOK, IsAlive
  <2>4. QED BY <1>0, <2>1, <2>2, <2>3 DEF Repair
<1>7. Elections'
  <2> SUFFICES ASSUME NEW t \in Threads, pc[t] \in {"electing", "adding"},
                      NEW i \in DOMAIN job[t].replicas, i < job[t].at,
                      health'[job[t].replicas[i]].alive
               PROVE  \/ job[t].replicas[i] \in revived'
                      \/ \E u \in Threads : pc[u] = "locking"
    BY <1>1 DEF Elections, IsAlive
  <2>1. job[t].replicas[i] \in Nodes
    BY <1>0, ReplicaNodes DEF TypeOK, Job
  <2>2. QED BY <1>0, <1>2, <2>1 DEF Elections, IsAlive
<1>8. Steady'
  <2> SUFFICES ASSUME NEW s \in steady
               PROVE  /\ shards[s].leader # None /\ health'[shards[s].leader].alive
                      /\ \A t \in Threads : pc[t] = "electing" => job[t].shard # s
    BY <1>1, <1>3 DEF Steady, IsAlive
  <2>1. s \in DOMAIN shards
    BY <1>0 DEF TypeOK
  <2>2. QED BY <1>0, <1>2, <2>1, LeaderNode DEF Steady, IsAlive
<1>9. QED BY <1>4, <1>5, <1>6, <1>7, <1>8 DEF IInv

\* After a timeout or gossip the thread that took it has everything to sweep.
LEMMA LearnStep ==
  ASSUME IInv, NEW t \in Threads, NEW h \in [Nodes -> Entry], Learn(t, h)
  PROVE  IInv'
<1>0. TypeOK /\ Exclusive /\ Repair /\ Elections /\ Steady
  BY DEF IInv
<1>1. /\ pc[t] = "idle" /\ pc' = [pc EXCEPT ![t] = "locking"]
      /\ health' = h /\ revived' = {} /\ UNCHANGED <<shards, todo, job>>
      /\ steady' = {s \in steady : health'[shards[s].leader].alive}
  BY DEF Learn, Goto, LeadersDie
<1>2. pc'[t] = "locking" /\ \A u \in Threads : u # t => pc'[u] = pc[u]
  BY <1>0, <1>1 DEF TypeOK
<1>3. TypeOK'
  BY <1>0, <1>1, <1>2 DEF TypeOK
<1>4. Exclusive'
  BY <1>0, <1>1, <1>2 DEF Exclusive, Inside
<1>5. Repair'
  BY <1>2 DEF Repair, Pending
<1>6. Elections'
  BY <1>2 DEF Elections
<1>7. Steady'
  BY <1>0, <1>1, <1>2 DEF Steady, IsAlive
<1>8. QED BY <1>3, <1>4, <1>5, <1>6, <1>7 DEF IInv

\* The beginning of every call keeps the invariant.
LEMMA CallStep ==
  ASSUME IInv, NEW t \in Threads, Call(t)
  PROVE  IInv'
<1>0. TypeOK /\ Exclusive /\ Repair /\ Elections /\ Steady
  BY DEF IInv
<1>1. ASSUME NEW n \in Nodes, NEW ms \in Times, OnHeartbeatTimeout(t, n, ms) PROVE IInv'
  <2>1. health[n] \in Entry /\ ms \in Nat
    BY <1>0, TimesAssumption DEF TypeOK
  <2>2. Timeout(health[n], ms) \in Entry
    BY <2>1, EntriesStay DEF Timeout, Entry
  <2>3. [health EXCEPT ![n] = Timeout(health[n], ms)] \in [Nodes -> Entry]
    BY <1>0, <2>2 DEF TypeOK
  <2>4. QED BY <1>1, <2>3, LearnStep DEF OnHeartbeatTimeout
<1>2. ASSUME NEW g \in Gossip, IngestGossip(t, g) PROVE IInv'
  <2>0. PICK S \in SUBSET Nodes : g \in [S -> [alive : BOOLEAN, heartbeat : Times]]
    BY Zenon DEF Gossip
  <2>1. \A n \in DOMAIN g : g[n] \in [alive : BOOLEAN, heartbeat : Nat]
    <3>1. ASSUME NEW n \in S PROVE g[n] \in [alive : BOOLEAN, heartbeat : Times]
      BY <2>0
    <3>2. [alive : BOOLEAN, heartbeat : Times] \subseteq [alive : BOOLEAN, heartbeat : Nat]
      BY TimesAssumption
    <3>3. QED BY <2>0, <3>1, <3>2
  <2>2. \A n \in Nodes : n \in DOMAIN g => Ingest(health[n], g[n]) \in Entry
    BY <1>0, <2>1 DEF TypeOK, Ingest, Entry
  <2>3. Ingested(g) \in [Nodes -> Entry]
    BY <1>0, <2>2 DEF TypeOK, Ingested
  <2>4. QED BY <1>2, <2>3, LearnStep DEF IngestGossip
<1>3. ASSUME NEW s \in Shards, NEW l \in ReplicaLists, AddShard(t, s, l) PROVE IInv'
  <2> DEFINE j == [shard |-> s, replicas |-> l, at |-> 1]
  <2>1. /\ pc[t] = "idle" /\ Free /\ pc' = [pc EXCEPT ![t] = "adding"]
        /\ job' = [job EXCEPT ![t] = j] /\ UNCHANGED <<health, shards, todo, revived, steady>>
    BY <1>3 DEF AddShard, Goto
  <2>2. j \in Job /\ j.at = 1 /\ j.replicas = l
    BY DEF Job
  <2> HIDE DEF j
  <2>3. /\ pc'[t] = "adding" /\ job'[t] = j
        /\ \A u \in Threads : u # t => pc'[u] = pc[u] /\ job'[u] = job[u]
    BY <1>0, <2>1 DEF TypeOK
  <2>4. TypeOK'
    BY <1>0, <2>1, <2>2, <2>3 DEF TypeOK
  <2>5. Exclusive'
    BY <1>0, <2>1, <2>3 DEF Exclusive, Inside, Free
  <2>6. Repair'
    <3>1. \A r : \A u \in Threads : Pending(u, r) => Pending(u, r)'
      BY <2>1, <2>3 DEF Pending
    <3>2. QED BY <1>0, <2>1, <3>1 DEF Repair, IsAlive
  <2>7. Elections'
    <3> SUFFICES ASSUME NEW u \in Threads, pc'[u] \in {"electing", "adding"},
                        NEW i \in DOMAIN job'[u].replicas, i < job'[u].at
                 PROVE  FALSE
      BY DEF Elections
    <3>1. u = t
      BY <2>1, <2>3 DEF Free
    <3>2. QED BY <2>2, <2>3, <3>1, ReplicaNodes
  <2>8. Steady'
    BY <1>0, <2>1, <2>3 DEF Steady, IsAlive
  <2>9. QED BY <2>4, <2>5, <2>6, <2>7, <2>8 DEF IInv
<1>4. QED BY <1>1, <1>2, <1>3 DEF Call

\* A thread that gets mutex_ has every shard before it.
LEMMA BeginSweepStep ==
  ASSUME IInv, NEW t \in Threads, BeginSweep(t)
  PROVE  IInv'
<1>0. TypeOK /\ Exclusive /\ Repair /\ Elections /\ Steady
  BY DEF IInv
<1>1. /\ pc[t] = "locking" /\ Free /\ pc' = [pc EXCEPT ![t] = "sweeping"]
      /\ todo' = [todo EXCEPT ![t] = DOMAIN shards]
      /\ UNCHANGED <<health, shards, job, revived, steady>>
  BY DEF BeginSweep, Goto
<1>2. /\ pc'[t] = "sweeping" /\ todo'[t] = DOMAIN shards
      /\ \A u \in Threads : u # t => pc'[u] = pc[u] /\ todo'[u] = todo[u]
  BY <1>0, <1>1 DEF TypeOK
<1>3. TypeOK'
  BY <1>0, <1>1, <1>2 DEF TypeOK
<1>4. Exclusive'
  BY <1>0, <1>1, <1>2 DEF Exclusive, Inside, Free
<1>5. Repair'
  BY <1>1, <1>2 DEF Repair, Pending
<1>6. Elections'
  BY <1>1, <1>2 DEF Elections, Free
<1>7. Steady'
  BY <1>0, <1>1, <1>2 DEF Steady, IsAlive
<1>8. QED BY <1>3, <1>4, <1>5, <1>6, <1>7 DEF IInv

\* A sweep passes a shard only when there is nothing to repair.
LEMMA VisitStep ==
  ASSUME IInv, NEW t \in Threads, NEW s \in Shards, Visit(t, s)
  PROVE  IInv'
<1>0. TypeOK /\ Exclusive /\ Repair /\ Elections /\ Steady
  BY DEF IInv
<1>1. /\ pc[t] = "sweeping" /\ s \in todo[t] /\ todo' = [todo EXCEPT ![t] = todo[t] \ {s}]
      /\ UNCHANGED <<health, shards, revived, steady>>
  BY DEF Visit
<1>2. todo'[t] = todo[t] \ {s} /\ \A u \in Threads : u # t => todo'[u] = todo[u]
  BY <1>0, <1>1 DEF TypeOK
<1>3. CASE KeepsLeader(s) /\ UNCHANGED <<pc, job>>
  <2>1. TypeOK'
    BY <1>0, <1>1, <1>2, <1>3 DEF TypeOK
  <2>2. Exclusive'
    BY <1>0, <1>3 DEF Exclusive
  <2>3. Repair'
    <3>1. \A r : r # s => \A u \in Threads : Pending(u, r) => Pending(u, r)'
      BY <1>2, <1>3 DEF Pending
    <3>2. shards[s].leader # None /\ IsAlive(shards[s].leader)
      BY <1>3 DEF KeepsLeader
    <3>3. QED BY <1>0, <1>1, <3>1, <3>2 DEF Repair, IsAlive
  <2>4. Elections'
    BY <1>0, <1>1, <1>3 DEF Elections, IsAlive
  <2>5. Steady'
    BY <1>0, <1>1, <1>3 DEF Steady, IsAlive
  <2>6. QED BY <2>1, <2>2, <2>3, <2>4, <2>5 DEF IInv
<1>4. CASE ~KeepsLeader(s) /\ Goto(t, "electing")
           /\ job' = [job EXCEPT ![t] = [shard |-> s, replicas |-> shards[s].replicas, at |-> 1]]
  <2> DEFINE j == [shard |-> s, replicas |-> shards[s].replicas, at |-> 1]
  <2>1. s \in DOMAIN shards => j \in Job
    BY <1>0 DEF Job, TypeOK
  <2>2. j.at = 1 /\ j.shard = s /\ j.replicas = shards[s].replicas
    OBVIOUS
  <2> HIDE DEF j
  <2>3. /\ pc'[t] = "electing" /\ job'[t] = j
        /\ \A u \in Threads : u # t => pc'[u] = pc[u] /\ job'[u] = job[u]
    BY <1>0, <1>4 DEF TypeOK, Goto, j
  <2>4. s \in DOMAIN shards
    BY <1>0, <1>1 DEF TypeOK
  <2>5. TypeOK'
    BY <1>0, <1>1, <1>2, <1>4, <2>1, <2>3, <2>4 DEF TypeOK, Goto
  <2>6. Exclusive'
    BY <1>0, <1>1, <2>3 DEF Exclusive, Inside
  <2>7. Repair'
    <3>1. \A r : \A u \in Threads : Pending(u, r) => Pending(u, r)'
      BY <1>1, <1>2, <2>2, <2>3 DEF Pending
    <3>2. QED BY <1>0, <1>1, <3>1 DEF Repair, IsAlive
  <2>8. Elections'
    <3> SUFFICES ASSUME NEW u \in Threads, pc'[u] \in {"electing", "adding"},
                        NEW i \in DOMAIN job'[u].replicas, i < job'[u].at
                 PROVE  FALSE
      BY DEF Elections
    <3>1. u = t
      BY <1>0, <1>1, <2>3 DEF Exclusive, Inside
    <3>2. shards[s].replicas \in ReplicaLists
      BY <1>0, <2>4 DEF TypeOK
    <3>3. QED BY <2>2, <2>3, <3>1, <3>2, ReplicaNodes
  <2>9. Steady'
    BY <1>0, <1>1, <1>4, <2>2, <2>3 DEF Steady, KeepsLeader, IsAlive
  <2>10. QED BY <2>5, <2>6, <2>7, <2>8, <2>9 DEF IInv
<1>5. QED BY <1>3, <1>4 DEF Visit

\* A sweep ends with nothing left to visit.
LEMMA EndSweepStep ==
  ASSUME IInv, NEW t \in Threads, EndSweep(t)
  PROVE  IInv'
<1>0. TypeOK /\ Exclusive /\ Repair /\ Elections /\ Steady
  BY DEF IInv
<1>1. /\ pc[t] = "sweeping" /\ todo[t] = {} /\ pc' = [pc EXCEPT ![t] = "idle"]
      /\ UNCHANGED <<health, shards, todo, job, revived, steady>>
  BY DEF EndSweep, Goto
<1>2. pc'[t] = "idle" /\ \A u \in Threads : u # t => pc'[u] = pc[u]
  BY <1>0, <1>1 DEF TypeOK
<1>3. TypeOK'
  BY <1>0, <1>1, <1>2 DEF TypeOK
<1>4. Exclusive'
  BY <1>0, <1>1, <1>2 DEF Exclusive, Inside
<1>5. Repair'
  <2>1. \A r : \A u \in Threads : Pending(u, r) => Pending(u, r)'
    BY <1>1, <1>2 DEF Pending
  <2>2. QED BY <1>0, <1>1, <2>1 DEF Repair, IsAlive
<1>6. Elections'
  BY <1>0, <1>1, <1>2 DEF Elections, Exclusive, Inside
<1>7. Steady'
  BY <1>0, <1>1, <1>2 DEF Steady, IsAlive
<1>8. QED BY <1>3, <1>4, <1>5, <1>6, <1>7 DEF IInv

\* An election ends with a leader alive at that moment, or with none, and then
\* every replica alive by now is accounted for by Elections.
LEMMA ElectedStep ==
  ASSUME IInv, NEW t \in Threads, pc[t] \in {"electing", "adding"}, NEW n, Elected(t, n),
         \/ /\ n = None
            /\ \A i \in DOMAIN job[t].replicas : i < job[t].at
         \/ n \in Nodes /\ IsAlive(n) /\ \E i \in DOMAIN job[t].replicas : n = job[t].replicas[i]
  PROVE  IInv'
<1>0. TypeOK /\ Exclusive /\ Repair /\ Elections /\ Steady
  BY DEF IInv
<1>. PICK s \in Shards, l \in ReplicaLists : s = job[t].shard /\ l = job[t].replicas
  BY <1>0 DEF TypeOK, Job
<1>1. /\ shards' = Installed(s, l, n)
      /\ steady' = IF n = None THEN steady \ {s} ELSE steady \cup {s}
      /\ pc' = [pc EXCEPT ![t] = IF pc[t] = "adding" THEN "idle" ELSE "sweeping"]
      /\ job' = [job EXCEPT ![t] = << >>]
      /\ UNCHANGED <<health, todo, revived>>
  BY DEF Elected, Goto
<1>2. /\ DOMAIN shards' = DOMAIN shards \cup {s}
      /\ shards'[s].replicas = l /\ shards'[s].leader = n
      /\ \A r \in DOMAIN shards : r # s => shards'[r] = shards[r]
  BY <1>1 DEF Installed
<1>3. /\ pc'[t] = (IF pc[t] = "adding" THEN "idle" ELSE "sweeping")
      /\ \A u \in Threads : u # t => pc'[u] = pc[u] /\ job'[u] = job[u]
  BY <1>0, <1>1 DEF TypeOK
<1>4. TypeOK'
  <2>1. \A r \in DOMAIN shards' : /\ shards'[r].replicas \in ReplicaLists
          /\ \/ shards'[r].leader = None
             \/ \E i \in DOMAIN shards'[r].replicas : shards'[r].leader = shards'[r].replicas[i]
    <3> SUFFICES ASSUME NEW r \in DOMAIN shards'
                 PROVE  /\ shards'[r].replicas \in ReplicaLists
                        /\ \/ shards'[r].leader = None
                           \/ \E i \in DOMAIN shards'[r].replicas :
                                shards'[r].leader = shards'[r].replicas[i]
      OBVIOUS
    <3>1. CASE r = s
      BY <1>2, <3>1
    <3>2. CASE r # s
      BY <1>0, <1>2, <3>2 DEF TypeOK
    <3>3. QED BY <3>1, <3>2
  <2>2. pc' \in [Threads -> {"idle", "locking", "sweeping", "electing", "adding"}]
    BY <1>0, <1>1 DEF TypeOK
  <2>3. DOMAIN job' = Threads
        /\ \A u \in Threads : pc'[u] \in {"electing", "adding"} => job'[u] \in Job
    BY <1>0, <1>1, <1>3 DEF TypeOK
  <2>4. DOMAIN shards' \subseteq Shards /\ steady' \subseteq DOMAIN shards'
    BY <1>0, <1>1, <1>2 DEF TypeOK
  <2>5. todo' \in [Threads -> SUBSET DOMAIN shards']
    BY <1>0, <1>1, <1>2 DEF TypeOK
  <2>6. QED BY <1>0, <1>1, <2>1, <2>2, <2>3, <2>4, <2>5 DEF TypeOK
<1>5. Exclusive'
  BY <1>0, <1>3 DEF Exclusive, Inside
<1>6. Repair'
  <2> SUFFICES ASSUME NEW r \in DOMAIN shards'
               PROVE  \/ \E u \in Threads : Pending(u, r)'
                      \/ shards'[r].leader # None /\ health'[shards'[r].leader].alive
                      \/ /\ shards'[r].leader = None
                         /\ \A i \in DOMAIN shards'[r].replicas :
                              health'[shards'[r].replicas[i]].alive
                                => shards'[r].replicas[i] \in revived'
    BY Zenon DEF Repair, IsAlive
  <2>1. ASSUME NEW u \in Threads, pc[u] = "locking" PROVE Pending(u, r)'
    BY <1>3, <2>1 DEF Pending
  <2>2. CASE r = s /\ n = None
    <3>1. ASSUME NEW i \in DOMAIN l, IsAlive(l[i])
          PROVE  l[i] \in revived \/ \E u \in Threads : pc[u] = "locking"
      BY <1>0, <2>2, <3>1, ReplicaAssumption DEF Elections
    <3>2. QED BY <1>1, <1>2, <2>1, <2>2, <3>1 DEF IsAlive
  <2>3. CASE r = s /\ n # None
    BY <1>1, <1>2, <2>3, ReplicaAssumption DEF IsAlive
  <2>4. CASE r # s
    <3>1. r \in DOMAIN shards /\ shards'[r] = shards[r]
      BY <1>2, <2>4
    <3>2. \A u \in Threads : Pending(u, r) => Pending(u, r)'
      BY <1>1, <1>3, <2>4 DEF Pending
    <3>3. QED BY <1>0, <1>1, <3>1, <3>2 DEF Repair, IsAlive
  <2>5. QED BY <2>2, <2>3, <2>4
<1>7. Elections'
  <2>1. \A u \in Threads : pc'[u] \notin {"electing", "adding"}
    BY <1>0, <1>3 DEF Exclusive, Inside
  <2>2. QED BY <2>1 DEF Elections
<1>8. Steady'
  <2>1. \A u \in Threads : pc'[u] \notin {"electing", "adding"}
    BY <1>0, <1>3 DEF Exclusive, Inside
  <2> SUFFICES ASSUME NEW r \in steady'
               PROVE  shards'[r].leader # None /\ health[shards'[r].leader].alive
    BY <1>1, <2>1 DEF Steady, IsAlive
  <2>2. CASE r = s
    BY <1>1, <1>2, <2>2, ReplicaAssumption DEF IsAlive
  <2>3. CASE r # s
    <3>1. r \in steady /\ shards'[r] = shards[r]
      BY <1>0, <1>1, <1>2, <2>3 DEF TypeOK
    <3>2. QED BY <1>0, <3>1 DEF Steady, IsAlive
  <2>4. QED BY <2>2, <2>3
<1>9. QED BY <1>4, <1>5, <1>6, <1>7, <1>8 DEF IInv

\* Every turn of the loop of ElectLeaderIfNeeded keeps the invariant.
LEMMA ElectStep ==
  ASSUME IInv, NEW t \in Threads, Elect(t)
  PROVE  IInv'
<1>0. /\ TypeOK /\ Exclusive /\ Repair /\ Elections /\ Steady
      /\ pc[t] \in {"electing", "adding"} /\ job[t] \in Job
  BY DEF IInv, Elect, TypeOK
<1> DEFINE i == job[t].at
           l == job[t].replicas
<1>1. /\ i \in Nat /\ 1 <= i /\ l \in ReplicaLists /\ job[t].shard \in Shards
      /\ Len(l) \in Nat
  BY <1>0, ReplicaAssumption DEF Job
<1>2. CASE i <= Len(l) /\ IsAlive(l[i]) /\ Elected(t, l[i])
  <2>1. i \in DOMAIN l /\ l[i] \in Nodes
    BY <1>1, <1>2, AnyReplica
  <2>2. QED BY <1>0, <1>2, <2>1, ElectedStep
<1>3. CASE i > Len(l) /\ Elected(t, None)
  <2>1. \A k \in DOMAIN l : k < i
    BY <1>1, <1>3, ReplicaNodes
  <2>2. QED BY <1>0, <1>3, <2>1, ElectedStep
<1>4. CASE /\ i <= Len(l) /\ ~IsAlive(l[i])
           /\ job' = [job EXCEPT ![t].at = Candidate(i)]
           /\ UNCHANGED <<health, shards, pc, todo, revived, steady>>
  <2> DEFINE j == [job[t] EXCEPT !.at = i + 1]
  <2>1. j \in Job /\ j.at = i + 1 /\ j.replicas = l /\ j.shard = job[t].shard
    BY <1>0, <1>1 DEF Job
  <2>2. job'[t] = j /\ DOMAIN job' = Threads /\ \A u \in Threads : u # t => job'[u] = job[u]
    BY <1>0, <1>4 DEF TypeOK, Candidate
  <2> HIDE DEF j, i, l
  <2>3. TypeOK'
    BY <1>0, <1>4, <2>1, <2>2 DEF TypeOK
  <2>4. Exclusive'
    BY <1>0, <1>4 DEF Exclusive
  <2>5. Repair'
    <3>1. \A r : \A u \in Threads : Pending(u, r) => Pending(u, r)'
      BY <1>4, <2>1, <2>2 DEF Pending
    <3>2. QED BY <1>0, <1>4, <3>1 DEF Repair, IsAlive
  <2>6. Elections'
    <3> SUFFICES ASSUME NEW u \in Threads, pc[u] \in {"electing", "adding"},
                        NEW k \in DOMAIN job'[u].replicas, k < job'[u].at,
                        health[job'[u].replicas[k]].alive
                 PROVE  job'[u].replicas[k] \in revived \/ \E v \in Threads : pc[v] = "locking"
      BY <1>4 DEF Elections, IsAlive
    <3>1. u = t
      BY <1>0 DEF Exclusive, Inside
    <3>2. k \in DOMAIN l /\ k \in Nat /\ k < i + 1 /\ IsAlive(l[k]) /\ job'[u].replicas[k] = l[k]
      BY <1>1, <2>1, <2>2, <3>1, ReplicaNodes DEF IsAlive
    <3>3. k < i
      BY <1>1, <1>4, <3>2
    <3>4. QED BY <1>0, <3>1, <3>2, <3>3 DEF Elections, i, l
  <2>7. Steady'
    BY <1>0, <1>4, <2>1, <2>2 DEF Steady, IsAlive
  <2>8. QED BY <2>3, <2>4, <2>5, <2>6, <2>7 DEF IInv
<1>5. QED BY <1>2, <1>3, <1>4 DEF Elect

\* Every step keeps the invariant.
LEMMA IInvStep == IInv /\ [Next]_vars => IInv'
<1> SUFFICES ASSUME IInv, [Next]_vars PROVE IInv'
  OBVIOUS
<1>1. CASE UNCHANGED vars
  BY <1>1, ZenonT(60) DEF vars, IInv, TypeOK, Exclusive, Repair, Elections, Steady, Pending, IsAlive
<1>2. ASSUME NEW t \in Threads, Work(t) PROVE IInv'
  BY <1>2, BeginSweepStep, VisitStep, EndSweepStep, ElectStep DEF Work
<1>3. QED BY <1>1, <1>2, HeartbeatStep, CallStep DEF Next

\* The inductive invariant holds throughout.
LEMMA Invariance == Spec => []IInv
  BY InitIInv, IInvStep, PTL DEF Spec

-----------------------------------------------------------------------------
\* The variables keep their types, and a leader is one of its shard's replicas.
THEOREM Typing == Spec => []TypeOK
  BY Invariance, PTL DEF IInv

\* When no call is in progress, no shard is led by a node believed dead.
THEOREM LeadersAlwaysAlive == Spec => []LeadersAlive
<1>1. IInv => LeadersAlive
  BY DEF IInv, Repair, Pending, LeadersAlive, Idle
<1>2. QED BY <1>1, Invariance, PTL

\* When no call is in progress, a shard without a leader has no live replica but
\* those that came back by themselves.
THEOREM LeaderlessAlwaysExcused == Spec => []LeaderlessExcused
<1>1. IInv => LeaderlessExcused
  BY DEF IInv, Repair, Pending, LeaderlessExcused, Idle
<1>2. QED BY <1>1, Invariance, PTL

\* No sweep deposes a leader that has been alive since it was elected.
THEOREM LeaderStaysStable == Spec => StableLeader
<1>1. IInv /\ [Next]_vars =>
        [\A s \in steady : \/ shards'[s].leader = shards[s].leader
                           \/ \E t \in Threads : pc[t] = "adding" /\ job[t].shard = s]_vars
  <2> SUFFICES ASSUME IInv, Next, NEW s \in steady, shards'[s].leader # shards[s].leader
               PROVE  \E t \in Threads : pc[t] = "adding" /\ job[t].shard = s
    OBVIOUS
  <2>1. shards' # shards /\ s \in DOMAIN shards
    BY DEF IInv, TypeOK
  <2>2. PICK t \in Threads : Elect(t)
    BY <2>1 DEF Next, RecordHeartbeat, Call, Work, OnHeartbeatTimeout, IngestGossip, Learn,
                AddShard, BeginSweep, Visit, EndSweep
  <2>3. pc[t] \in {"electing", "adding"} /\ \E n : Elected(t, n)
    BY <2>1, <2>2 DEF Elect
  <2>4. job[t].shard = s
    BY <2>1, <2>3 DEF Elected, Installed
  <2>5. QED BY <2>2, <2>3, <2>4 DEF IInv, Steady
<1>2. QED BY <1>1, Invariance, PTL DEF Spec, StableLeader

=============================================================================
