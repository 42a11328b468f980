----------------------------- MODULE AckPolicy -----------------------------
(***************************************************************************)
(* The write acknowledgement of src/replication: the leader's log          *)
(* (WalWriter), the progress of its replicas (ReplicaStream), and the two  *)
(* acknowledgement modes of a write (AckPolicy).                           *)
(*                                                                         *)
(* The object has one caller, so a call is one step.  What the replicas    *)
(* send is not in the repository: their acknowledgements may be lost,      *)
(* repeated or late, and may name a replica or a write that does not       *)
(* exist, so ObserveReplicaAck is called with any arguments in any order.  *)
(***************************************************************************)
EXTENDS Integers, FiniteSets

CONSTANTS
    ReplicaCount,  \* constructor argument replica_count
    MaxWrites      \* bound: number of writes

ASSUME ReplicaCountAssumption == ReplicaCount \in Nat /\ MaxWrites \in Nat

VARIABLES
    entries,      \* entries_.size() of the WalWriter
    commitIndex,  \* commit_index_
    progress,     \* replica_progress_
    writeModes,   \* write_modes_: log index -> mode
    acked,        \* acked_: log index -> whether the write is acknowledged
    result,       \* what the last call returned or threw
    seen          \* history: the acknowledgements observed, <<replica, index>>

vars == <<entries, commitIndex, progress, writeModes, acked, result, seen>>

Replicas == 0 .. ReplicaCount - 1

Modes == {"fast_leader_commit", "strong_replica_quorum"}

Errors == {"none", "invalid_argument", "out_of_range"}

\* Mistake: half of the replicas is taken for a majority.
QuorumSize_Half == ReplicaCount \div 2

QuorumSize == IF ReplicaCount = 0 THEN 0 ELSE ReplicaCount \div 2 + 1

\* Mistake: only the replicas whose last acknowledgement is this one count.
AckCount_Exact(p, i) == Cardinality({r \in Replicas : p[r] = i})

AckCount(p, i) == Cardinality({r \in Replicas : p[r] >= i})

\* has_replica_quorum of both calls.
HasQuorum(p, i) == QuorumSize > 0 /\ AckCount(p, i) >= QuorumSize

\* Mistake: a late acknowledgement sets the progress back.
Advance_Back(p, r, i) == [p EXCEPT ![r] = i]

\* AckReplica for a replica in range.
Advance(p, r, i) == IF i > p[r] THEN [p EXCEPT ![r] = i] ELSE p

\* The WriteResult of a call about write i, from the state after the call.
BuildResult(i) ==
    [error |-> "none", log_index |-> i, acked |-> acked'[i],
     leader_commit_index |-> commitIndex', replica_acks |-> AckCount(progress', i),
     required_replica_quorum |-> QuorumSize]

\* The call threw instead.
Throw(error) ==
    [error |-> error, log_index |-> 0, acked |-> FALSE, leader_commit_index |-> 0,
     replica_acks |-> 0, required_replica_quorum |-> 0]

Init ==
    /\ entries = 0
    /\ commitIndex = 0
    /\ progress = [r \in Replicas |-> 0]
    /\ writeModes = [i \in {} |-> "none"]
    /\ acked = [i \in {} |-> FALSE]
    /\ result = Throw("none")
    /\ seen = {}

\* The write is logged and committed at once.
ApplyWrite(mode) ==
    LET i == entries + 1 IN
    /\ entries < MaxWrites
    /\ entries' = i
    /\ commitIndex' = i
    /\ writeModes' = [j \in DOMAIN writeModes \cup {i} |-> IF j = i THEN mode ELSE writeModes[j]]
    /\ acked' = [j \in DOMAIN acked \cup {i} |->
                   IF j = i THEN /\ commitIndex' >= i
                                 /\ mode = "fast_leader_commit" \/ HasQuorum(progress, i)
                   ELSE acked[j]]
    /\ UNCHANGED <<progress, seen>>
    /\ result' = BuildResult(i)

UnknownIndex(r, i) ==
    /\ i \notin DOMAIN writeModes
    /\ result' = Throw("invalid_argument")
    /\ UNCHANGED <<entries, commitIndex, progress, writeModes, acked, seen>>

UnknownReplica(r, i) ==
    /\ i \in DOMAIN writeModes
    /\ r \notin Replicas
    /\ result' = Throw("out_of_range")
    /\ UNCHANGED <<entries, commitIndex, progress, writeModes, acked, seen>>

AckAccepted(r, i) ==
    /\ i \in DOMAIN writeModes
    /\ r \in Replicas
    /\ progress' = Advance(progress, r, i)
    /\ acked' = IF writeModes[i] = "strong_replica_quorum"
                  THEN [acked EXCEPT ![i] = commitIndex >= i /\ HasQuorum(progress', i)]
                  ELSE acked
    /\ seen' = seen \cup {<<r, i>>}
    /\ UNCHANGED <<entries, commitIndex, writeModes>>
    /\ result' = BuildResult(i)

ObserveReplicaAck(r, i) == UnknownIndex(r, i) \/ UnknownReplica(r, i) \/ AckAccepted(r, i)

Next ==
    \/ \E mode \in Modes : ApplyWrite(mode)
    \/ \E r \in 0 .. ReplicaCount, i \in 0 .. MaxWrites + 1 : ObserveReplicaAck(r, i)

Spec == Init /\ [][Next]_vars

-----------------------------------------------------------------------------
\* Properties

Indexes == 1 .. entries

Strong(i) == writeModes[i] = "strong_replica_quorum"

\* The replicas known to have write i: their progress says that they have
\* acknowledged it or a later one.
Holders(i) == {r \in Replicas : \E j \in Indexes : j >= i /\ <<r, j>> \in seen}

Result == [error : Errors, log_index : Nat, acked : BOOLEAN,
           leader_commit_index : Nat, replica_acks : Nat, required_replica_quorum : Nat]

\* Whatever calls were made or refused, the log is committed to its end, and
\* modes and acknowledgements are kept for exactly the writes ApplyWrite logged.
TypeOK ==
    /\ entries \in Nat /\ commitIndex = entries
    /\ progress \in [Replicas -> Nat]
    /\ writeModes \in [Indexes -> Modes]
    /\ acked \in [Indexes -> BOOLEAN]
    /\ result \in Result
    /\ seen \subseteq Replicas \X Indexes

\* Nothing is acknowledged for a write that the log does not have, even after
\* an acknowledgement that named it too early was refused: so a strong write
\* is never acknowledged by the call that logs it.
ProgressWithinLog == \A r \in Replicas : progress[r] <= entries

\* A strong write counts as acknowledged only when a strict majority of the
\* replicas has acknowledged it or a write after it; in particular never when
\* there are no replicas.
AckedHasMajority ==
    \A i \in Indexes : Strong(i) /\ acked[i] => 2 * Cardinality(Holders(i)) > ReplicaCount

\* A strong write that a quorum has acknowledged by its own index counts as
\* acknowledged, however its acknowledgements were mixed, delayed or repeated
\* among those of other writes.  (Acknowledging only a later index does not
\* suffice: acked_ is looked at for the index the call names.)
QuorumOfOwnAcks ==
    \A i \in Indexes :
        QuorumSize > 0 /\ Cardinality({r \in Replicas : <<r, i>> \in seen}) >= QuorumSize
            => acked[i]

\* An acknowledged write never loses its acknowledgement.
AckedForever == [][\A i \in Indexes : acked[i] => acked'[i]]_vars

=============================================================================
