-------------------------- MODULE AckPolicyProofs --------------------------
(***************************************************************************)
(* Invariants of AckPolicy, proved for every number of replicas and every  *)
(* number of writes.                                                       *)
(***************************************************************************)
EXTENDS AckPolicy, FiniteSetTheorems, TLAPS

\* The progress of a replica is the latest index it has acknowledged.
ProgressSeen ==
    \A r \in Replicas :
        /\ progress[r] = 0 \/ <<r, progress[r]>> \in seen
        /\ \A i \in Indexes : <<r, i>> \in seen => progress[r] >= i

\* A strong write is acknowledged only under a quorum of the progress; a fast
\* write always is.
AckedByMode ==
    \A i \in Indexes : IF Strong(i) THEN acked[i] => HasQuorum(progress, i) ELSE acked[i]

\* The invariant behind the theorems: AckedForever, AckedHasMajority and
\* QuorumOfOwnAcks all rest on what progress says about seen.
IInv == TypeOK /\ ProgressWithinLog /\ ProgressSeen /\ AckedByMode /\ QuorumOfOwnAcks

-----------------------------------------------------------------------------
\* There are ReplicaCount replicas, so sets of them can be counted.
LEMMA ReplicasFinite ==
  /\ IsFiniteSet(Replicas)
  /\ \A S \in SUBSET Replicas : IsFiniteSet(S) /\ Cardinality(S) \in Nat
<1>1. IsFiniteSet(Replicas)
  BY ReplicaCountAssumption, FS_Interval DEF Replicas
<1>2. QED
  BY <1>1, FS_Subset, FS_CardinalityType

\* Progress only grows, and with it the count behind a quorum.
LEMMA AdvanceGrows ==
  ASSUME NEW p \in [Replicas -> Nat], NEW r \in Replicas, NEW i \in Nat
  PROVE  /\ Advance(p, r, i) \in [Replicas -> Nat]
         /\ \A q \in Replicas : Advance(p, r, i)[q] >= p[q]
         /\ Advance(p, r, i)[r] >= i
         /\ \A q \in Replicas : Advance(p, r, i)[q] = p[q] \/ (q = r /\ Advance(p, r, i)[q] = i)
  BY DEF Advance

\* A replica whose progress advances never costs a write its quorum.
LEMMA QuorumGrows ==
  ASSUME NEW p \in [Replicas -> Nat], NEW q \in [Replicas -> Nat], NEW i \in Nat,
         \A r \in Replicas : q[r] >= p[r], HasQuorum(p, i)
  PROVE  HasQuorum(q, i)
<1> DEFINE P == {r \in Replicas : p[r] >= i}
           Q == {r \in Replicas : q[r] >= i}
<1>1. P \in SUBSET Q /\ Q \in SUBSET Replicas /\ P \in SUBSET Replicas
  OBVIOUS
<1>2. Cardinality(P) <= Cardinality(Q) /\ Cardinality(P) \in Nat /\ Cardinality(Q) \in Nat
  BY <1>1, ReplicasFinite, FS_Subset
<1>3. QuorumSize \in Nat
  BY ReplicaCountAssumption DEF QuorumSize
<1>4. QED
  BY <1>2, <1>3 DEF HasQuorum, AckCount

\* quorum_size_ is 0 exactly when there are no replicas.
LEMMA QuorumSizeType ==
  QuorumSize \in Nat /\ (QuorumSize > 0 => 2 * QuorumSize > ReplicaCount)
  BY ReplicaCountAssumption DEF QuorumSize

-----------------------------------------------------------------------------
\* The invariant holds of a new AckPolicy.
LEMMA InitIInv == Init => IInv
<1> SUFFICES ASSUME Init PROVE IInv
  OBVIOUS
<1>1. Indexes = {}
  BY DEF Init, Indexes
<1>2. result \in Result
  BY DEF Init, Throw, Result, Errors
<1>3. QED
  BY <1>1, <1>2 DEF Init, IInv, TypeOK, ProgressWithinLog, ProgressSeen, AckedByMode, QuorumOfOwnAcks

\* BuildResult gives a WriteResult.
LEMMA ResultType ==
  ASSUME NEW i \in Nat, progress' \in [Replicas -> Nat], commitIndex' \in Nat,
         acked'[i] \in BOOLEAN, result' = BuildResult(i)
  PROVE  result' \in Result
<1>1. AckCount(progress', i) \in Nat
  BY ReplicasFinite DEF AckCount
<1>2. QED
  BY <1>1, QuorumSizeType DEF BuildResult, Result, Errors

\* A write: the new index is above every progress, so a strong write starts
\* unacknowledged.
LEMMA WriteStep ==
  ASSUME IInv, NEW mode \in Modes, ApplyWrite(mode)
  PROVE  IInv' /\ \A i \in Indexes : acked'[i] = acked[i]
<1> DEFINE n == entries + 1
<1>1. n \in Nat /\ Indexes' = Indexes \cup {n} /\ n \notin Indexes /\ n \in Indexes'
      /\ Indexes \subseteq Nat \ {0} /\ n > entries
  BY DEF ApplyWrite, Indexes, IInv, TypeOK
<1>2. /\ entries' = n /\ commitIndex' = n /\ progress' = progress /\ seen' = seen
      /\ writeModes' = [j \in Indexes' |-> IF j = n THEN mode ELSE writeModes[j]]
      /\ acked' = [j \in Indexes' |->
                     IF j = n THEN /\ commitIndex' >= n
                                   /\ mode = "fast_leader_commit" \/ HasQuorum(progress, n)
                     ELSE acked[j]]
      /\ result' = BuildResult(n)
  BY <1>1 DEF ApplyWrite, IInv, TypeOK
<1>3. /\ writeModes' \in [Indexes' -> Modes] /\ acked' \in [Indexes' -> BOOLEAN]
      /\ \A i \in Indexes : writeModes'[i] = writeModes[i] /\ acked'[i] = acked[i]
      /\ writeModes'[n] = mode
      /\ acked'[n] = (mode = "fast_leader_commit" \/ HasQuorum(progress, n))
  <2>1. HasQuorum(progress, n) \in BOOLEAN
    BY DEF HasQuorum
  <2> HIDE DEF n
  <2>2. commitIndex' >= n
    BY <1>1, <1>2
  <2>3. /\ acked'[n] = (commitIndex' >= n
                       /\ (mode = "fast_leader_commit" \/ HasQuorum(progress, n)))
        /\ DOMAIN acked' = Indexes' /\ \A i \in Indexes : acked'[i] = acked[i]
        /\ acked' = [j \in Indexes' |-> acked'[j]]
    BY <1>1, <1>2
  <2>4. acked'[n] = (mode = "fast_leader_commit" \/ HasQuorum(progress, n))
    BY <2>2, <2>3
  <2>5. acked' \in [Indexes' -> BOOLEAN]
    BY <1>1, <2>1, <2>3, <2>4 DEF IInv, TypeOK
  <2>6. QED
    BY <1>1, <1>2, <2>3, <2>4, <2>5 DEF IInv, TypeOK, Modes
<1> HIDE DEF n
<1>4. TypeOK'
  <2>1. result' \in Result
    BY <1>1, <1>2, <1>3, ResultType DEF IInv, TypeOK
  <2>2. seen' \subseteq Replicas \X Indexes'
    BY <1>1, <1>2 DEF IInv, TypeOK
  <2>3. QED BY <1>1, <1>2, <1>3, <2>1, <2>2 DEF IInv, TypeOK
<1>5. ProgressWithinLog' /\ ProgressSeen'
  <2>1. \A r \in Replicas : <<r, n>> \notin seen
    BY <1>1 DEF IInv, TypeOK
  <2>2. \A r \in Replicas : progress[r] \in Nat /\ progress[r] <= n
    BY <1>1 DEF IInv, TypeOK, ProgressWithinLog, n
  <2>3. QED
    BY <1>1, <1>2, <2>1, <2>2 DEF IInv, ProgressWithinLog, ProgressSeen
<1>6. AckedByMode'
  <2>1. CASE mode = "fast_leader_commit"
    BY <1>1, <1>2, <1>3, <2>1 DEF IInv, AckedByMode, Strong
  <2>2. CASE mode # "fast_leader_commit"
    BY <1>1, <1>2, <1>3, <2>2 DEF IInv, AckedByMode, Strong, Modes
  <2>3. QED BY <2>1, <2>2
<1>7. QuorumOfOwnAcks'
  <2>1. {r \in Replicas : <<r, n>> \in seen} = {}
    BY <1>1 DEF IInv, TypeOK
  <2>2. ~(QuorumSize > 0 /\ Cardinality({r \in Replicas : <<r, n>> \in seen}) >= QuorumSize)
    <3>1. Cardinality({r \in Replicas : <<r, n>> \in seen}) = 0
      BY <2>1, FS_EmptySet
    <3>2. QED BY <3>1, QuorumSizeType
  <2>3. QED
    BY <1>1, <1>2, <1>3, <2>2 DEF IInv, QuorumOfOwnAcks
<1>8. QED BY <1>3, <1>4, <1>5, <1>6, <1>7 DEF IInv

\* An acknowledgement: progress grows, so no quorum is lost, and the quorum of
\* the named write is looked at again.
LEMMA AckStep ==
  ASSUME IInv, NEW r \in Replicas, NEW i, AckAccepted(r, i)
  PROVE  IInv' /\ \A j \in Indexes : acked[j] => acked'[j]
<1>1. /\ i \in Indexes /\ i \in Nat /\ i > 0 /\ Indexes' = Indexes /\ entries' = entries
      /\ writeModes' = writeModes /\ commitIndex' = commitIndex /\ i <= entries
      /\ Indexes \subseteq Nat /\ commitIndex >= i
  BY DEF AckAccepted, IInv, TypeOK, Indexes
<1>2. /\ progress' \in [Replicas -> Nat]
      /\ \A q \in Replicas : progress'[q] >= progress[q]
      /\ progress'[r] >= i
      /\ \A q \in Replicas : progress'[q] = progress[q] \/ (q = r /\ progress'[q] = i)
  BY <1>1, AdvanceGrows DEF AckAccepted, IInv, TypeOK
<1>3. seen' = seen \cup {<<r, i>>}
  BY DEF AckAccepted
<1>4. acked' = IF Strong(i) THEN [acked EXCEPT ![i] = commitIndex >= i /\ HasQuorum(progress', i)]
               ELSE acked
  BY DEF AckAccepted, Strong
<1>5. /\ acked' \in [Indexes -> BOOLEAN]
      /\ \A j \in Indexes \ {i} : acked'[j] = acked[j]
      /\ IF Strong(i) THEN acked'[i] = HasQuorum(progress', i) ELSE acked'[i] = acked[i]
  <2>1. HasQuorum(progress', i) \in BOOLEAN
    BY DEF HasQuorum
  <2>2. CASE Strong(i)
    <3>1. acked' = [acked EXCEPT ![i] = commitIndex >= i /\ HasQuorum(progress', i)]
      BY <1>4, <2>2
    <3>2. (commitIndex >= i /\ HasQuorum(progress', i)) = HasQuorum(progress', i)
      BY <1>1, <2>1
    <3>3. /\ acked' \in [Indexes -> BOOLEAN]
          /\ \A j \in Indexes \ {i} : acked'[j] = acked[j]
          /\ acked'[i] = (commitIndex >= i /\ HasQuorum(progress', i))
      BY <1>1, <2>1, <3>1 DEF IInv, TypeOK
    <3>4. QED BY <2>2, <3>2, <3>3
  <2>3. CASE ~Strong(i)
    BY <1>4, <2>3 DEF IInv, TypeOK
  <2>4. QED BY <2>2, <2>3
<1>6. \A j \in Indexes : HasQuorum(progress, j) => HasQuorum(progress', j)
  BY <1>1, <1>2, QuorumGrows DEF IInv, TypeOK
<1>7. TypeOK'
  <2>1. result' \in Result
    BY <1>1, <1>2, <1>5, ResultType DEF AckAccepted, IInv, TypeOK
  <2>2. seen' \subseteq Replicas \X Indexes'
    BY <1>1, <1>3 DEF IInv, TypeOK
  <2>3. QED BY <1>1, <1>2, <1>5, <2>1, <2>2 DEF IInv, TypeOK
<1>8. ProgressWithinLog'
  BY <1>1, <1>2 DEF IInv, TypeOK, ProgressWithinLog
<1>9. ProgressSeen'
  <2>1. \A q \in Replicas : progress'[q] = 0 \/ <<q, progress'[q]>> \in seen'
    BY <1>2, <1>3 DEF IInv, ProgressSeen
  <2>2. ASSUME NEW q \in Replicas, NEW j \in Indexes, <<q, j>> \in seen'
        PROVE  progress'[q] >= j
    <3>1. CASE <<q, j>> \in seen
      <4>1. progress[q] >= j
        BY <3>1 DEF IInv, ProgressSeen
      <4>2. progress[q] \in Nat /\ progress'[q] \in Nat /\ j \in Nat /\ progress'[q] >= progress[q]
        BY <1>1, <1>2 DEF IInv, TypeOK
      <4>3. QED BY <4>1, <4>2
    <3>2. CASE <<q, j>> = <<r, i>>
      BY <1>2, <3>2
    <3>3. QED BY <1>3, <2>2, <3>1, <3>2
  <2>3. QED BY <1>1, <2>1, <2>2 DEF ProgressSeen
<1>10. AckedByMode'
  <2>1. \A j \in Indexes : Strong(j)' = Strong(j)
    BY <1>1 DEF Strong
  <2>2. ASSUME NEW j \in Indexes
        PROVE  IF Strong(j) THEN acked'[j] => HasQuorum(progress', j) ELSE acked'[j]
    BY <1>5, <1>6 DEF IInv, AckedByMode
  <2>3. \A j \in Indexes : HasQuorum(progress, j)' = HasQuorum(progress', j)
    BY DEF HasQuorum, AckCount
  <2>4. QED BY <1>1, <2>1, <2>2, <2>3 DEF AckedByMode
<1>11. QuorumOfOwnAcks'
  <2> SUFFICES ASSUME NEW j \in Indexes, QuorumSize > 0,
                      Cardinality({q \in Replicas : <<q, j>> \in seen'}) >= QuorumSize
               PROVE  acked'[j]
    BY <1>1 DEF QuorumOfOwnAcks
  <2>1. CASE j # i
    <3>1. {q \in Replicas : <<q, j>> \in seen'} = {q \in Replicas : <<q, j>> \in seen}
      BY <1>3, <2>1
    <3>2. QED BY <1>5, <2>1, <3>1 DEF IInv, QuorumOfOwnAcks
  <2>2. CASE j = i /\ ~Strong(i)
    BY <1>5, <2>2 DEF IInv, AckedByMode
  <2>3. CASE j = i /\ Strong(i)
    <3> DEFINE Own == {q \in Replicas : <<q, i>> \in seen'}
               All == {q \in Replicas : progress'[q] >= i}
    <3>1. Own \in SUBSET All /\ All \in SUBSET Replicas /\ Own \in SUBSET Replicas
      BY <1>1, <1>9 DEF ProgressSeen
    <3>2. Cardinality(Own) <= Cardinality(All) /\ Cardinality(Own) \in Nat /\ Cardinality(All) \in Nat
      BY <3>1, ReplicasFinite, FS_Subset
    <3>3. Cardinality(All) >= QuorumSize
      BY <2>3, <3>2, QuorumSizeType
    <3>4. QED BY <1>5, <2>3, <3>3 DEF HasQuorum, AckCount
  <2>4. QED BY <2>1, <2>2, <2>3
<1>12. \A j \in Indexes : acked[j] => acked'[j]
  BY <1>5, <1>6 DEF IInv, AckedByMode
<1>13. QED BY <1>7, <1>8, <1>9, <1>10, <1>11, <1>12 DEF IInv

\* Every call keeps the invariant and takes no acknowledgement back.
LEMMA IInvStep ==
  ASSUME IInv, [Next]_vars
  PROVE  IInv' /\ \A i \in Indexes : acked[i] => acked'[i]
<1>1. CASE UNCHANGED vars
  BY <1>1 DEF vars, IInv, TypeOK, ProgressWithinLog, ProgressSeen, AckedByMode, QuorumOfOwnAcks,
              Indexes, Strong, HasQuorum, AckCount
<1>2. ASSUME NEW mode \in Modes, ApplyWrite(mode)
      PROVE  IInv' /\ \A i \in Indexes : acked[i] => acked'[i]
  BY <1>2, WriteStep
<1>3. ASSUME NEW r, NEW i, UnknownIndex(r, i) \/ UnknownReplica(r, i)
      PROVE  IInv' /\ \A j \in Indexes : acked[j] => acked'[j]
  <2>1. /\ UNCHANGED <<entries, commitIndex, progress, writeModes, acked, seen>>
        /\ result' \in {Throw("invalid_argument"), Throw("out_of_range")}
    BY <1>3 DEF UnknownIndex, UnknownReplica
  <2>2. result' \in Result
    <3>1. \A e \in Errors : Throw(e) \in Result
      BY DEF Throw, Result
    <3>2. QED BY <2>1, <3>1 DEF Errors
  <2>3. QED
    BY <2>1, <2>2 DEF IInv, TypeOK, ProgressWithinLog, ProgressSeen, AckedByMode, QuorumOfOwnAcks,
                      Indexes, Strong, HasQuorum, AckCount
<1>4. ASSUME NEW r, NEW i, AckAccepted(r, i)
      PROVE  IInv' /\ \A j \in Indexes : acked[j] => acked'[j]
  <2>1. r \in Replicas
    BY <1>4 DEF AckAccepted
  <2>2. QED BY <1>4, <2>1, AckStep
<1>5. QED
  BY <1>1, <1>2, <1>3, <1>4 DEF Next, ObserveReplicaAck

\* The inductive invariant holds throughout.
LEMMA Invariance == Spec => []IInv
  BY InitIInv, IInvStep, PTL DEF Spec

\* The variables keep their types, and the log commits what it appends.
THEOREM Typing == Spec => []TypeOK
  BY Invariance, PTL DEF IInv

\* No replica is ever credited with a write the log does not have.
THEOREM ProgressAlwaysWithinLog == Spec => []ProgressWithinLog
  BY Invariance, PTL DEF IInv

\* A strong write that a quorum acknowledged by its own index is acknowledged,
\* whatever the order, loss and repetition of the acknowledgements.
THEOREM OwnAcksSuffice == Spec => []QuorumOfOwnAcks
  BY Invariance, PTL DEF IInv

\* An acknowledged strong write is on a strict majority of the replicas; with
\* no replicas there is none.
THEOREM AckedAlwaysHasMajority == Spec => []AckedHasMajority
<1>1. IInv => AckedHasMajority
  <2> SUFFICES ASSUME IInv, NEW i \in Indexes, Strong(i), acked[i]
               PROVE  2 * Cardinality(Holders(i)) > ReplicaCount
    BY DEF AckedHasMajority
  <2> DEFINE P == {r \in Replicas : progress[r] >= i}
  <2>1. HasQuorum(progress, i)
    BY DEF IInv, AckedByMode
  <2>2. P \in SUBSET Holders(i)
    <3> SUFFICES ASSUME NEW r \in P PROVE r \in Holders(i)
      OBVIOUS
    <3>1. progress[r] \in Indexes /\ progress[r] >= i /\ progress[r] # 0
      BY DEF IInv, TypeOK, ProgressWithinLog, Indexes
    <3>2. <<r, progress[r]>> \in seen
      BY <3>1 DEF IInv, ProgressSeen
    <3>3. QED BY <3>1, <3>2 DEF Holders
  <2>3. Holders(i) \in SUBSET Replicas /\ P \in SUBSET Replicas
    BY DEF Holders
  <2>4. /\ Cardinality(P) <= Cardinality(Holders(i))
        /\ Cardinality(P) \in Nat /\ Cardinality(Holders(i)) \in Nat
    BY <2>2, <2>3, ReplicasFinite, FS_Subset
  <2>5. QuorumSize > 0 /\ Cardinality(P) >= QuorumSize
    BY <2>1 DEF HasQuorum, AckCount
  <2>6. QED BY <2>4, <2>5, QuorumSizeType, ReplicaCountAssumption
<1>2. QED BY <1>1, Invariance, PTL

\* Once acknowledged, always acknowledged: a late or repeated acknowledgement
\* never takes a write's acknowledgement back.
THEOREM AckedStays == Spec => AckedForever
<1>1. IInv /\ [Next]_vars => [\A i \in Indexes : acked[i] => acked'[i]]_vars
  BY IInvStep
<1>2. QED
  BY <1>1, Invariance, PTL DEF Spec, AckedForever

=============================================================================
