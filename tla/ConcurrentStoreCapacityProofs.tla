------------------- MODULE ConcurrentStoreCapacityProofs -------------------
(***************************************************************************)
(* The counters of ConcurrentStore are exact and its capacity limit is     *)
(* restored whenever no thread is inside EnforceCapacity, and without TTLs *)
(* evictions fall below the limit by less than the number of threads; all  *)
(* this for any number of threads, keys and stripes.                       *)
(***************************************************************************)
EXTENDS ConcurrentStoreProofs

-----------------------------------------------------------------------------
\* The locks

\* A step changes the owner of a stripe only between nobody and the thread
\* that takes it, and that thread owns the stripe of the key it works on.
LEMMA LockEffect ==
  ASSUME TypeInv, LockInv, NEW t \in Threads, Call(t) \/ Step(t)
  PROVE  /\ \A s \in Stripes :
              mu'[s] = mu[s] \/ (mu[s] \in {NoThread, t} /\ mu'[s] \in {NoThread, t})
         /\ pc'[t] \in LockedPcs => mu'[StripeFor(HeldKey(t)')] = t
         /\ pc'[t] = "sweep_erase" => StripeFor(loc'[t].victim) = loc'[t].stripe
<1> USE DEF LockedPcs
<1>0. \A k \in Keys : StripeFor(k) \in Stripes
  BY ConstantsAssumption DEF StripeFor
<1>1. CASE Call(t)
  BY <1>1 DEF Call, CallGet, CallSet, Goto, TypeInv, TypeOK, shared
<1>2. CASE GetCheck(t)
  BY <1>2, ReturnType DEF GetCheck, Goto, TypeInv, TypeOK, shared
<1>3. CASE GetLocked(t)
  <2>1. loc[t].key \in Keys /\ mu[StripeFor(loc[t].key)] = NoThread
    BY <1>3 DEF GetLocked, GetPcs, TypeInv, LocalsOK
  <2>2. CASE GetMiss(t)
    BY <2>2, ReturnType DEF GetMiss, shared
  <2>3. CASE GetExpired(t) /\ map[loc[t].key].prot
    <3>1. pc'[t] = "get_erase" /\ loc' = loc /\ mu' = [mu EXCEPT ![StripeFor(loc[t].key)] = t]
      BY <2>3 DEF GetExpired, Goto, Lock, TypeInv, TypeOK
    <3>2. HeldKey(t)' = loc[t].key
      BY <3>1 DEF HeldKey
    <3>3. QED BY <1>0, <2>1, <3>1, <3>2 DEF TypeInv, TypeOK
  <2>4. CASE GetExpired(t) /\ ~map[loc[t].key].prot
    BY <2>4, ReturnType DEF GetExpired
  <2>5. CASE GetHit(t)
    <3>1. map[loc[t].key].value \in Values
      BY <2>5 DEF GetHit, TypeInv, TypeOK, Entry
    <3>2. QED BY <2>5, <3>1, ReturnType DEF GetHit
  <2>6. QED BY <1>3, <2>2, <2>3, <2>4, <2>5 DEF GetLocked
<1>4. CASE GetErase(t)
  <2>1. loc[t].key \in Keys /\ mu[StripeFor(loc[t].key)] = t
    BY <1>4 DEF GetErase, GetPcs, TypeInv, LocalsOK, LockInv, HeldKey
  <2>2. pc'[t] = "idle"
    BY <1>4, ReturnType DEF GetErase
  <2>3. QED
    BY <1>0, <1>4, <2>1, <2>2 DEF GetErase, Unlock, TypeInv, TypeOK
<1>5. CASE SetLocked(t)
  BY <1>5, ReturnType DEF SetLocked, Goto, TypeInv, TypeOK
<1>6. CASE EnforceLoad(t) \/ Recheck(t)
  BY <1>6, ReturnType DEF EnforceLoad, Recheck, Goto, TypeInv, TypeOK, shared
<1>7. CASE EnforceNow(t)
  BY <1>7 DEF EnforceNow, Goto, TypeInv, TypeOK, shared
<1>8. CASE SweepEntry(t)
  <2>1. PICK k \in ExpiredIn(loc[t].stripe, loc[t].now) :
          IF map[k].prot
            THEN /\ protected' = protected - 1
                 /\ Goto(t, "sweep_erase")
                 /\ loc' = [loc EXCEPT ![t].victim = k]
                 /\ UNCHANGED <<map, total>>
            ELSE Erase(k) /\ UNCHANGED <<protected, pc, loc>>
    BY <1>8 DEF SweepEntry
  <2>2. /\ k \in Keys /\ pc[t] = "sweep" /\ StripeFor(k) = loc[t].stripe
        /\ mu[loc[t].stripe] \in {NoThread, t} /\ mu' = [mu EXCEPT ![loc[t].stripe] = t]
    BY <1>8 DEF SweepEntry, SweepHolds, ExpiredIn, Lock, TypeInv, TypeOK
  <2>3. CASE map[k].prot
    <3>1. pc'[t] = "sweep_erase" /\ loc'[t].victim = k /\ loc'[t].stripe = loc[t].stripe
      BY <2>1, <2>3 DEF Goto, TypeInv, TypeOK, Locals
    <3>2. HeldKey(t)' = k
      BY <3>1 DEF HeldKey
    <3>3. QED BY <1>0, <2>2, <3>1, <3>2 DEF TypeInv, TypeOK
  <2>4. CASE ~map[k].prot
    BY <2>1, <2>2, <2>4 DEF TypeInv, TypeOK
  <2>5. QED BY <2>3, <2>4
<1>9. CASE SweepErase(t)
  BY <1>9 DEF SweepErase, Goto, TypeInv, TypeOK
<1>10. CASE SweepNext(t)
  BY <1>10 DEF SweepNext, SweepHolds, Unlock, Goto, TypeInv, TypeOK
<1>11. CASE LoadProtected(t)
  BY <1>11, EnterLoopsFrame DEF LoadProtected, shared
<1>12. CASE Scan(t)
  <2>1. pc[t] \in ScanPcs /\ UNCHANGED mu
    BY <1>12 DEF Scan, shared
  <2>2. CASE loc[t].stripe < LastStripe
    BY <1>12, <2>1, <2>2 DEF Scan, ScanPcs
  <2>3. CASE ~(loc[t].stripe < LastStripe)
    <3>1. PICK v \in Keys \cup {EmptyKey} : VictimSelected(t, v)
      BY <1>12, <2>3 DEF Scan
    <3>2. QED BY <2>1, <3>1, VictimSelectedFrame
  <2>4. QED BY <2>2, <2>3
<1>13. CASE DemoteLocked(t)
  <2>1. /\ loc[t].victim \in Keys /\ mu[StripeFor(loc[t].victim)] = NoThread
        /\ mu' = [mu EXCEPT ![StripeFor(loc[t].victim)] = t]
    BY <1>13 DEF DemoteLocked, Lock, VictimPcs, TypeInv, LocalsOK
  <2>2. pc'[t] \in {"demote_load_prot", "demote_load_total"} /\ loc'[t].victim = loc[t].victim
    BY <1>13 DEF DemoteLocked, Goto, TypeInv, TypeOK, Locals
  <2>3. HeldKey(t)' = loc[t].victim
    BY <2>2 DEF HeldKey
  <2>4. QED BY <1>0, <2>1, <2>2, <2>3 DEF TypeInv, TypeOK
<1>14. CASE DemoteLoadProtected(t)
  <2>1. mu[StripeFor(loc[t].victim)] = t
    BY <1>14 DEF DemoteLoadProtected, LockInv, HeldKey
  <2>2. pc'[t] = "demote_load_total" /\ loc'[t].victim = loc[t].victim /\ mu' = mu
    BY <1>14 DEF DemoteLoadProtected, Goto, TypeInv, TypeOK, Locals, shared
  <2>3. HeldKey(t)' = loc[t].victim
    BY <2>2 DEF HeldKey
  <2>4. QED BY <2>1, <2>2, <2>3
<1>15. CASE DemoteLoadTotal(t) \/ EvictLoad(t)
  <2>1. loc[t].victim \in Keys /\ mu[StripeFor(loc[t].victim)] = t
    BY <1>15 DEF DemoteLoadTotal, EvictLoad, VictimPcs, TypeInv, LocalsOK, LockInv, HeldKey
  <2>2. mu' = [mu EXCEPT ![StripeFor(loc[t].victim)] = NoThread]
    BY <1>15 DEF DemoteLoadTotal, EvictLoad, Unlock
  <2>3. pc'[t] \in {"idle", "scan_demote", "scan_probation"}
    BY <1>15, EnterLoopsFrame, ReturnType, TestEvictLoopFrame
    DEF DemoteLoadTotal, TestLoops, EvictLoad
  <2>4. QED BY <1>0, <2>1, <2>2, <2>3 DEF TypeInv, TypeOK
<1>16. CASE EvictLocked(t)
  <2> DEFINE v == loc[t].victim
  <2>1. v \in Keys /\ mu[StripeFor(v)] = NoThread
    BY <1>16 DEF EvictLocked, VictimPcs, TypeInv, LocalsOK
  <2>2. CASE v \notin DOMAIN map
    BY <1>16, <2>2, TestEvictLoopFrame DEF EvictLocked, shared
  <2>3. CASE v \in DOMAIN map
    <3>1. /\ pc'[t] \in {"evict_erase", "evict_load"} /\ loc' = loc
          /\ mu' = [mu EXCEPT ![StripeFor(v)] = t]
      BY <1>16, <2>3 DEF EvictLocked, Goto, Lock, TypeInv, TypeOK
    <3>2. HeldKey(t)' = v
      BY <3>1 DEF HeldKey
    <3>3. QED BY <1>0, <2>1, <3>1, <3>2 DEF TypeInv, TypeOK
  <2>4. QED BY <2>2, <2>3
<1>17. CASE EvictErase(t)
  <2>1. mu[StripeFor(loc[t].victim)] = t
    BY <1>17 DEF EvictErase, LockInv, HeldKey
  <2>2. pc'[t] = "evict_load" /\ loc' = loc /\ mu' = mu
    BY <1>17 DEF EvictErase, Goto, TypeInv, TypeOK
  <2>3. HeldKey(t)' = loc[t].victim
    BY <2>2 DEF HeldKey
  <2>4. QED BY <2>1, <2>2, <2>3
<1>18. QED
  BY <1>1, <1>2, <1>3, <1>4, <1>5, <1>6, <1>7, <1>8, <1>9, <1>10, <1>11, <1>12, <1>13, <1>14,
     <1>15, <1>16, <1>17
  DEF Step, EnforceCapacity

\* The lock discipline: no other thread touches the entry a thread has marked.
LEMMA LockStep ==
  ASSUME TypeInv, TypeInv', LockInv, [Next]_vars
  PROVE  LockInv'
<1>1. CASE UNCHANGED vars \/ Tick
  BY <1>1 DEF vars, Tick, LockInv, HeldKey, StripeFor
<1>2. ASSUME NEW t \in Threads, Call(t) \/ Step(t) PROVE LockInv'
  <2>0. /\ \A u \in Threads : pc[u] \in LockedPcs => HeldKey(u) \in Keys
        /\ \A k \in Keys : StripeFor(k) \in Stripes
        /\ ErasePcs \subseteq LockedPcs
        /\ NoThread \notin Threads
    BY ConstantsAssumption
    DEF TypeInv, LocalsOK, HeldKey, LockedPcs, VictimPcs, GetPcs, StripeFor, ErasePcs
  <2>1. Effect(t)
    BY <1>2, EveryEffect
  <2>2. pc'[t] \in ErasePcs => HeldKey(t)' \in DOMAIN map' /\ map'[HeldKey(t)'].prot
    BY <2>1 DEF Effect, Keeps, Finishes, Marks, Drops, Touches, Inserts, Demotes, NotErasing
  <2>3. ASSUME NEW u \in Threads \ {t}
        PROVE  /\ pc'[u] \in LockedPcs => mu'[StripeFor(HeldKey(u)')] = u
               /\ pc'[u] = "sweep_erase" => StripeFor(loc'[u].victim) = loc'[u].stripe
               /\ pc'[u] \in ErasePcs => HeldKey(u)' \in DOMAIN map' /\ map'[HeldKey(u)'].prot
    <3> DEFINE h == HeldKey(u)
    <3>1. pc'[u] = pc[u] /\ loc'[u] = loc[u]
      BY <1>2, OthersUnchanged
    <3>2. HeldKey(u)' = h
      BY <3>1 DEF HeldKey
    <3>3. pc'[u] = "sweep_erase" => StripeFor(loc'[u].victim) = loc'[u].stripe
      BY <3>1 DEF LockInv
    <3>4. SUFFICES ASSUME pc[u] \in LockedPcs
                   PROVE  /\ mu'[StripeFor(h)] = u
                          /\ pc[u] \in ErasePcs => h \in DOMAIN map' /\ map'[h].prot
      BY <2>0, <3>1, <3>2, <3>3
    <3>5. h \in Keys /\ mu[StripeFor(h)] = u /\ ~MayWrite(t, h)
      BY <2>0, <3>4 DEF LockInv, MayWrite
    <3>6. mu'[StripeFor(h)] = u
      <4>1. StripeFor(h) \in Stripes
        BY <2>0, <3>5
      <4>2. u \notin {NoThread, t}
        BY <2>0
      <4>3. QED
        BY <1>2, <3>5, <4>1, <4>2, LockEffect
    <3>7. ASSUME pc[u] \in ErasePcs PROVE h \in DOMAIN map' /\ map'[h].prot
      <4> HIDE DEF h
      <4>1. h \in DOMAIN map /\ map[h].prot
        BY <3>7 DEF LockInv, h
      <4>2. CASE Keeps(t) \/ \E k \in Keys : Marks(t, k)
        BY <4>1, <4>2 DEF Keeps, Marks
      <4>3. CASE Finishes(t)
        <5>1. HeldKey(t) # h
          BY <2>0, <3>5, <4>3 DEF Finishes, LockInv, MayWrite
        <5>2. PICK k : k = HeldKey(t)
          OBVIOUS
        <5>3. Erase(k) /\ k # h
          BY <4>3, <5>1, <5>2 DEF Finishes
        <5>4. QED BY <4>1, <5>3, EraseType DEF TypeInv
      <4>4. ASSUME NEW k \in Keys, Drops(t, k) PROVE h \in DOMAIN map' /\ map'[h].prot
        <5>1. k # h /\ Erase(k)
          BY <3>5, <4>4 DEF Drops
        <5>2. QED BY <4>1, <5>1, EraseType DEF TypeInv
      <4>5. ASSUME NEW k \in Keys, NEW e,
                   Touches(t, k, e) \/ Inserts(t, k, e) \/ Demotes(t, k, e)
            PROVE  h \in DOMAIN map' /\ map'[h].prot
        <5>1. k # h /\ e \in Entry /\ Put(k, e)
          BY <3>5, <4>5 DEF Touches, Inserts, Demotes
        <5>2. QED BY <4>1, <5>1, PutType DEF TypeInv
      <4>6. QED BY <2>1, <4>2, <4>3, <4>4, <4>5 DEF Effect
    <3>8. QED BY <3>6, <3>7
  <2>4. QED
    BY <1>2, <2>2, <2>3, LockEffect DEF LockInv
<1>3. QED
  BY <1>1, <1>2 DEF Next, Done

-----------------------------------------------------------------------------
\* The counters

Erasing == {t \in Threads : pc[t] \in ErasePcs}

Counted ==
    /\ total = Cardinality(DOMAIN map)
    /\ protected = Cardinality(ProtectedKeys) - Cardinality(Erasing)

CountInv == TypeInv /\ LockInv /\ Counted

\* Each erasure under way has an entry of its own in the protected segment,
\* because each holds the lock of that entry's stripe.
LEMMA ErasingBounded ==
  ASSUME TypeInv, LockInv
  PROVE  /\ IsFiniteSet(DOMAIN map) /\ Cardinality(DOMAIN map) \in Nat
         /\ IsFiniteSet(ProtectedKeys) /\ Cardinality(ProtectedKeys) \in Nat
         /\ IsFiniteSet(Erasing) /\ Cardinality(Erasing) \in Nat
         /\ Cardinality(Erasing) <= Cardinality(ProtectedKeys)
<1>1. DOMAIN map \in SUBSET Keys /\ ProtectedKeys \in SUBSET Keys /\ Erasing \in SUBSET Threads
  BY DEF TypeInv, TypeOK, ProtectedKeys, Erasing
<1>2. IsFiniteSet(DOMAIN map) /\ IsFiniteSet(ProtectedKeys) /\ IsFiniteSet(Erasing)
  BY <1>1, FS_Subset, ConstantsAssumption
<1>3. \A t \in Erasing : HeldKey(t) \in ProtectedKeys /\ mu[StripeFor(HeldKey(t))] = t
  BY DEF Erasing, LockInv, ProtectedKeys, ErasePcs, LockedPcs
<1> DEFINE f == [t \in Erasing |-> HeldKey(t)]
<1>4. f \in Injection(Erasing, ProtectedKeys)
  BY <1>3 DEF Injection, IsInjective
<1>5. QED
  BY <1>2, <1>4, FS_Injection, FS_CardinalityType

\* Every step keeps the counters in line with the tables.
LEMMA CountStep ==
  ASSUME CountInv, [Next]_vars
  PROVE  CountInv'
<1>1. TypeInv' /\ LockInv'
  BY TypeStep, LockStep DEF CountInv
<1>2. CASE UNCHANGED vars \/ Tick
  <2>1. ProtectedKeys' = ProtectedKeys /\ Erasing' = Erasing /\ total' = total
        /\ protected' = protected /\ map' = map
    BY <1>2 DEF vars, Tick, ProtectedKeys, Erasing
  <2>2. QED BY <1>1, <2>1 DEF CountInv, Counted
<1>3. ASSUME NEW t \in Threads, Call(t) \/ Step(t) PROVE Counted'
  <2> USE DEF CountInv
  <2>0. /\ \A u \in Threads \ {t} : pc'[u] = pc[u]
        /\ protected \in Int /\ total \in Int
    BY <1>3, OthersUnchanged DEF TypeInv, TypeOK
  <2>1. CASE Keeps(t)
    <3>1. ProtectedKeys' = ProtectedKeys /\ Erasing' = Erasing
      BY <2>0, <2>1 DEF Keeps, NotErasing, ProtectedKeys, Erasing
    <3>2. QED BY <2>1, <3>1 DEF Keeps, Counted
  <2>2. ASSUME NEW k \in Keys, Marks(t, k) PROVE Counted'
    <3>1. ProtectedKeys' = ProtectedKeys /\ Erasing' = Erasing \cup {t} /\ t \notin Erasing
      BY <2>0, <2>2 DEF Marks, ProtectedKeys, Erasing
    <3>2. Cardinality(Erasing') = Cardinality(Erasing) + 1
      BY <3>1, FS_AddElement, ErasingBounded
    <3>3. QED BY <2>0, <2>2, <3>1, <3>2, ErasingBounded DEF Marks, Counted
  <2>3. CASE Finishes(t)
    <3> DEFINE h == HeldKey(t)
    <3>1. h \in DOMAIN map /\ h \in ProtectedKeys /\ t \in Erasing /\ Erase(h) /\ protected' = protected
      BY <2>3 DEF Finishes, LockInv, ProtectedKeys, Erasing
    <3> HIDE DEF h
    <3>2. DOMAIN map' = DOMAIN map \ {h} /\ total' = total - 1
          /\ \A j \in DOMAIN map' : map'[j] = map[j]
      BY <3>1, EraseType DEF TypeInv
    <3>3. ProtectedKeys' = ProtectedKeys \ {h}
      BY <3>2 DEF ProtectedKeys
    <3>4. Erasing' = Erasing \ {t}
      BY <2>0, <2>3 DEF Finishes, Erasing
    <3>5. /\ Cardinality(DOMAIN map') = Cardinality(DOMAIN map) - 1
          /\ Cardinality(ProtectedKeys') = Cardinality(ProtectedKeys) - 1
          /\ Cardinality(Erasing') = Cardinality(Erasing) - 1
      BY <3>1, <3>2, <3>3, <3>4, FS_RemoveElement, ErasingBounded
    <3>6. QED BY <2>0, <3>1, <3>2, <3>5, ErasingBounded DEF Counted
  <2>4. ASSUME NEW k \in Keys, Drops(t, k) PROVE Counted'
    <3>1. DOMAIN map' = DOMAIN map \ {k} /\ total' = total - 1
          /\ \A j \in DOMAIN map' : map'[j] = map[j]
      BY <2>4, EraseType DEF TypeInv, Drops
    <3>2. ProtectedKeys' = ProtectedKeys
      BY <2>4, <3>1 DEF ProtectedKeys, Drops
    <3>3. Erasing' = Erasing
      BY <2>0, <2>4 DEF Drops, NotErasing, Erasing
    <3>4. Cardinality(DOMAIN map') = Cardinality(DOMAIN map) - 1
      BY <2>4, <3>1, FS_RemoveElement, ErasingBounded DEF Drops
    <3>5. QED BY <2>4, <3>1, <3>2, <3>3, <3>4 DEF Drops, Counted
  <2>5. ASSUME NEW k \in Keys, NEW e, Touches(t, k, e) \/ Inserts(t, k, e) \/ Demotes(t, k, e)
        PROVE  Counted'
    <3>1. e \in Entry /\ Put(k, e)
      BY <2>5 DEF Touches, Inserts, Demotes
    <3>2. /\ DOMAIN map' = DOMAIN map \cup {k} /\ map'[k] = e
          /\ \A j \in DOMAIN map \ {k} : map'[j] = map[j]
      BY <3>1, PutType DEF TypeInv
    <3>3. Erasing' = Erasing
      BY <2>0, <2>5 DEF Touches, Inserts, Demotes, NotErasing, Erasing
    <3>4. ProtectedKeys' = IF e.prot THEN ProtectedKeys \cup {k} ELSE ProtectedKeys \ {k}
      BY <3>2 DEF ProtectedKeys
    <3>5. /\ Cardinality(DOMAIN map') = IF k \in DOMAIN map THEN Cardinality(DOMAIN map)
                                         ELSE Cardinality(DOMAIN map) + 1
          /\ Cardinality(ProtectedKeys') =
               IF e.prot THEN IF k \in ProtectedKeys THEN Cardinality(ProtectedKeys)
                              ELSE Cardinality(ProtectedKeys) + 1
               ELSE IF k \in ProtectedKeys THEN Cardinality(ProtectedKeys) - 1
                    ELSE Cardinality(ProtectedKeys)
      BY <3>2, <3>4, FS_AddElement, FS_RemoveElement, ErasingBounded, ZenonT(60)
    <3>6. k \in ProtectedKeys <=> k \in DOMAIN map /\ map[k].prot
      BY DEF ProtectedKeys
    <3>7. CASE Touches(t, k, e)
      BY <2>0, <3>3, <3>5, <3>6, <3>7, ErasingBounded DEF Touches, Counted
    <3>8. CASE Inserts(t, k, e)
      BY <2>0, <3>3, <3>5, <3>6, <3>8, ErasingBounded DEF Inserts, Counted
    <3>9. CASE Demotes(t, k, e)
      BY <2>0, <3>3, <3>5, <3>6, <3>9, ErasingBounded, SMTT(40) DEF Demotes, Counted
    <3>10. QED BY <2>5, <3>7, <3>8, <3>9
  <2>6. QED
    BY <1>3, <2>1, <2>2, <2>3, <2>4, <2>5, EveryEffect DEF Effect
<1>4. QED
  BY <1>1, <1>2, <1>3 DEF Next, Done, CountInv

\* The counters of an empty store are right.
LEMMA InitCount == Init => CountInv
<1> SUFFICES ASSUME Init PROVE CountInv
  OBVIOUS
<1>1. TypeInv
  BY InitType
<1>2. DOMAIN map = {} /\ ProtectedKeys = {} /\ Erasing = {}
  BY DEF Init, ProtectedKeys, Erasing, ErasePcs
<1>3. Counted
  BY <1>2, FS_EmptySet DEF Init, Counted
<1>4. LockInv
  BY DEF Init, LockInv, LockedPcs, ErasePcs
<1>5. QED BY <1>1, <1>3, <1>4 DEF CountInv

\* The counters are in line with the tables throughout.
LEMMA CountInvariant == Spec => []CountInv
  BY InitCount, CountStep, PTL DEF Spec

\* The counters are exact in every reachable state of a store of any size with
\* any number of threads, and so neither fetch_sub of the code can wrap.
THEOREM CountersAlwaysExact == Spec => []CountersExact
<1>1. CountInv => CountersExact
  <2> SUFFICES ASSUME CountInv PROVE CountersExact
    OBVIOUS
  <2>1. Erasing = {t \in Threads : pc[t] \in ErasePcs}
    BY DEF Erasing
  <2>2. QED
    BY <2>1, ErasingBounded DEF CountInv, Counted, CountersExact
<1>2. QED
  BY <1>1, CountInvariant, PTL

-----------------------------------------------------------------------------
\* The capacity

\* A thread that cannot leave EnforceCapacity while the store is over its
\* limit: if its scan has found no candidate so far, then none has come up
\* behind it.
Clean(t) ==
    /\ pc[t] \in EnforcingPcs
    /\ pc[t] = "scan_probation" /\ loc[t].cands = {}
         => \A k \in DOMAIN map : StripeFor(k) < loc[t].stripe => map[k].prot
    /\ pc[t] = "scan_protected" /\ loc[t].cands = {}
         => \A k \in DOMAIN map : map[k].prot /\ StripeFor(k) >= loc[t].stripe

\* A store over its limit has a thread that will look again.
Guarded ==
    MaxEntries > 0 /\ Cardinality(DOMAIN map) > MaxEntries => \E t \in Threads : Clean(t)

\* Any step but an insertion or a demotion leaves every key where and in the
\* segment it was, promotes it, or removes it.
Shrinks ==
    /\ DOMAIN map' \subseteq DOMAIN map
    /\ \A k \in DOMAIN map' : map[k].prot => map'[k].prot

\* Every step shrinks in this sense but two, after which its thread has yet to
\* look at the whole store: an insertion and a demotion.
LEMMA EffectShrinks ==
  ASSUME TypeInv, NEW t \in Threads, Effect(t)
  PROVE  \/ Shrinks
         \/ MaxEntries > 0 => pc'[t] = "enf_load"
         \/ pc'[t] = "demote_load_prot"
<1>1. CASE Keeps(t) \/ \E k \in Keys : Marks(t, k)
  BY <1>1 DEF Keeps, Marks, Shrinks
<1>2. CASE Finishes(t)
  <2>1. PICK k : k = HeldKey(t)
    OBVIOUS
  <2>2. Erase(k)
    BY <1>2, <2>1 DEF Finishes
  <2>3. QED BY <2>2, EraseType DEF TypeInv, Shrinks
<1>3. ASSUME NEW k \in Keys, Drops(t, k) PROVE Shrinks
  BY <1>3, EraseType DEF Drops, TypeInv, Shrinks
<1>4. ASSUME NEW k \in Keys, NEW e, Touches(t, k, e) PROVE Shrinks
  <2>1. /\ DOMAIN map' = DOMAIN map \cup {k} /\ map'[k] = e
        /\ \A j \in DOMAIN map \ {k} : map'[j] = map[j]
    BY <1>4, PutType DEF Touches, TypeInv
  <2>2. QED BY <1>4, <2>1 DEF Touches, Shrinks
<1>5. ASSUME NEW k \in Keys, NEW e, Inserts(t, k, e) \/ Demotes(t, k, e)
      PROVE  (MaxEntries > 0 => pc'[t] = "enf_load") \/ pc'[t] = "demote_load_prot"
  BY <1>5 DEF Inserts, Demotes
<1>6. QED BY <1>1, <1>2, <1>3, <1>4, <1>5 DEF Effect

\* What a scan has found clean stays clean under the steps of others that shrink.
LEMMA CleanShrinks ==
  ASSUME TypeInv, NEW u \in Threads, Clean(u), Shrinks, pc'[u] = pc[u], loc'[u] = loc[u]
  PROVE  Clean(u)'
<1>1. \A k \in DOMAIN map' : k \in DOMAIN map /\ (map[k].prot => map'[k].prot)
  BY DEF Shrinks
<1>2. QED BY <1>1 DEF Clean, StripeFor

\* A scan that finds nothing in a stripe has seen that stripe free of the
\* segment it looks for.
LEMMA NoCandidates ==
  ASSUME NEW s, NEW segment, Candidates(s, segment) = {}, NEW k \in DOMAIN map, StripeFor(k) = s
  PROVE  map[k].prot # segment
  BY DEF Candidates, StripeFor

\* The scans of a clean thread: it stays clean while the store is not empty.
LEMMA CleanScan ==
  ASSUME TypeInv, NEW t \in Threads, Clean(t), Scan(t), DOMAIN map # {}
  PROVE  Clean(t)'
<1> DEFINE s == loc[t].stripe
           segment == pc[t] # "scan_probation"
           found == loc[t].cands \cup Candidates(s, segment)
<1>1. pc[t] \in ScanPcs /\ UNCHANGED map
  BY DEF Scan, shared
<1>2. s \in Nat /\ s <= LastStripe /\ s \in Stripes
  BY NextStripe DEF TypeInv, TypeOK, Locals
<1>3. \A k \in DOMAIN map : StripeFor(k) \in Nat /\ StripeFor(k) >= 1 /\ StripeFor(k) <= LastStripe
                            /\ map[k].prot \in BOOLEAN
  <2>1. \A k \in Keys : StripeFor(k) \in Stripes
    BY ConstantsAssumption DEF StripeFor
  <2>2. \A k \in DOMAIN map : k \in Keys /\ map[k].prot \in BOOLEAN
    BY DEF TypeInv, TypeOK, Entry
  <2>3. QED BY <2>1, <2>2, NoLocalsType DEF Stripes
<1>4. found \subseteq Candidate
  BY <1>2, CandidatesType DEF TypeInv, TypeOK, Locals
<1>5. found = {} => loc[t].cands = {} /\ \A k \in DOMAIN map : StripeFor(k) = s => map[k].prot # segment
  BY NoCandidates
<1>6. CASE s < LastStripe
  <2>1. pc' = pc
    BY <1>6 DEF Scan
  <2>2. loc' = [loc EXCEPT ![t].stripe = s + 1, ![t].cands = found]
    BY <1>6 DEF Scan
  <2> HIDE DEF found
  <2>3. loc'[t].stripe = s + 1 /\ loc'[t].cands = found
    BY <2>2 DEF TypeInv, TypeOK, Locals
  <2>4. CASE found # {}
    BY <2>1, <2>3, <2>4 DEF Clean
  <2>5. CASE found = {} /\ pc[t] = "scan_probation"
    <3>0. /\ \A k \in DOMAIN map : StripeFor(k) < s => map[k].prot
          /\ \A k \in DOMAIN map : StripeFor(k) = s => map[k].prot # segment
          /\ segment = FALSE
      BY <1>5, <2>5 DEF Clean
    <3> HIDE DEF s, segment
    <3>1. ASSUME NEW k \in DOMAIN map, StripeFor(k) < s + 1 PROVE map[k].prot
      <4>1. StripeFor(k) < s \/ StripeFor(k) = s
        BY <1>2, <1>3, <3>1
      <4>2. QED BY <1>3, <3>0, <4>1
    <3> USE DEF s, segment
    <3>2. QED BY <1>1, <2>1, <2>3, <2>5, <3>1 DEF Clean, StripeFor
  <2>6. CASE found = {} /\ pc[t] = "scan_protected"
    <3>1. \A k \in DOMAIN map : map[k].prot /\ StripeFor(k) >= s + 1
      BY <1>2, <1>3, <1>5, <2>6 DEF Clean
    <3>2. QED BY <1>1, <2>1, <2>3, <2>6, <3>1 DEF Clean, StripeFor
  <2>7. CASE pc[t] = "scan_demote"
    BY <2>1, <2>7 DEF Clean
  <2>8. QED BY <1>1, <2>4, <2>5, <2>6, <2>7 DEF ScanPcs
<1>7. CASE ~(s < LastStripe)
  <2>0. s = LastStripe
    BY <1>2, <1>7, NoLocalsType
  <2>1. PICK v \in Keys \cup {EmptyKey} : SelectVictim(v, found) /\ VictimSelected(t, v)
    BY <1>7 DEF Scan
  <2> HIDE DEF found
  <2>2. CASE found # {}
    <3>1. v # EmptyKey
      BY <1>4, <2>1, <2>2, NonEmptyKeys DEF SelectVictim, Candidate
    <3>2. pc'[t] \in {"demote_lock", "evict_lock"}
      BY <1>1, <2>1, <3>1, VictimSelectedFrame
    <3>3. QED BY <3>2 DEF Clean, EnforcingPcs, Pcs, GetPcs
  <2>3. CASE found = {}
    <3>1. v = EmptyKey
      BY <2>1, <2>3 DEF SelectVictim
    <3>2. pc[t] # "scan_protected"
      <4>1. SUFFICES ASSUME pc[t] = "scan_protected" PROVE FALSE
        OBVIOUS
      <4>2. PICK k \in DOMAIN map : TRUE
        OBVIOUS
      <4>3. map[k].prot /\ StripeFor(k) >= s
        BY <1>5, <2>3, <4>1, <4>2 DEF Clean
      <4>4. StripeFor(k) = s
        BY <1>2, <1>3, <2>0, <4>2, <4>3
      <4>5. QED BY <1>3, <1>5, <2>3, <4>1, <4>2, <4>3, <4>4
    <3>3. /\ loc'[t].stripe = 1
          /\ \/ pc[t] = "scan_demote" /\ pc'[t] = "scan_probation"
             \/ pc[t] = "scan_probation" /\ pc'[t] = "scan_protected"
      BY <1>1, <2>1, <3>1, <3>2, VictimSelectedFrame
    <3>4. pc'[t] \in EnforcingPcs
      BY <3>3 DEF EnforcingPcs, Pcs, GetPcs, ScanPcs
    <3>5. CASE pc[t] = "scan_demote"
      <4>1. \A k \in DOMAIN map : ~(StripeFor(k) < 1)
        BY <1>3
      <4>2. QED BY <1>1, <3>3, <3>4, <3>5, <4>1 DEF Clean, StripeFor
    <3>6. CASE pc[t] = "scan_probation"
      <4>1. \A k \in DOMAIN map : map[k].prot /\ StripeFor(k) >= 1
        BY <1>2, <1>3, <1>5, <2>0, <2>3, <3>6 DEF Clean
      <4>2. QED BY <1>1, <3>3, <3>4, <3>6, <4>1 DEF Clean, StripeFor
    <3>7. QED BY <3>3, <3>5, <3>6
  <2>4. QED BY <2>2, <2>3
<1>8. QED BY <1>6, <1>7

\* A clean thread does not leave EnforceCapacity of a store over its limit.
LEMMA CleanStep ==
  ASSUME CountInv, NEW t \in Threads, Step(t), Clean(t), Shrinks, MaxEntries > 0,
         Cardinality(DOMAIN map') > MaxEntries
  PROVE  Clean(t)'
<1> USE DEF CountInv
<1>0. total > MaxEntries /\ DOMAIN map # {} /\ ~(total <= MaxEntries)
  <2>1. /\ DOMAIN map \in SUBSET Keys /\ IsFiniteSet(Keys) /\ MaxEntries \in Nat
        /\ DOMAIN map' \in SUBSET DOMAIN map
    BY ConstantsAssumption DEF TypeInv, TypeOK, Shrinks
  <2>2. /\ IsFiniteSet(DOMAIN map) /\ Cardinality(DOMAIN map) \in Nat
        /\ Cardinality(DOMAIN map') \in Nat
        /\ Cardinality(DOMAIN map') <= Cardinality(DOMAIN map)
    BY <2>1, FS_Subset, FS_CardinalityType
  <2>3. Cardinality(DOMAIN map) > MaxEntries
    BY <2>1, <2>2
  <2>4. Cardinality(DOMAIN map) # 0
    BY <2>1, <2>2, <2>3
  <2>5. DOMAIN map # {}
    BY <2>4, FS_EmptySet
  <2>6. QED BY <2>1, <2>2, <2>3, <2>5 DEF Counted
<1>1. pc[t] \in EnforcingPcs
  BY DEF Clean
<1>2. \A k \in DOMAIN map' : StripeFor(k) \in Nat /\ StripeFor(k) >= 1
  BY ConstantsAssumption, NoLocalsType DEF TypeInv, TypeOK, StripeFor, Stripes, Shrinks
<1>3. pc'[t] \in EnforcingPcs \ {"scan_probation", "scan_protected"} => Clean(t)'
  BY DEF Clean
<1>4. pc'[t] \in {"scan_demote", "scan_probation"} /\ loc'[t].stripe = 1 => Clean(t)'
  <2>1. {"scan_demote", "scan_probation"} \subseteq EnforcingPcs
    BY DEF EnforcingPcs, Pcs, GetPcs, ScanPcs
  <2>2. QED BY <1>2, <2>1 DEF Clean, StripeFor
<1>5. CASE GetCheck(t) \/ GetLocked(t) \/ GetErase(t) \/ SetLocked(t)
  BY <1>1, <1>5 DEF GetCheck, GetLocked, GetErase, SetLocked, EnforcingPcs, GetPcs
<1> DEFINE Others == {"enf_now", "sweep", "sweep_erase", "recheck", "load_prot",
                      "demote_load_prot", "demote_load_total", "evict_erase", "evict_load"}
<1>6. pc'[t] \in Others => Clean(t)'
  BY <1>3 DEF EnforcingPcs, Pcs, GetPcs, LockedPcs
<1>7. CASE EnforceLoad(t) \/ Recheck(t)
  BY <1>0, <1>6, <1>7 DEF EnforceLoad, Recheck, Goto, TypeInv, TypeOK
<1>8. CASE EnforceNow(t) \/ SweepErase(t) \/ DemoteLoadProtected(t) \/ EvictErase(t)
  BY <1>6, <1>8 DEF EnforceNow, SweepErase, DemoteLoadProtected, EvictErase, Goto, TypeInv, TypeOK
<1>9. CASE SweepEntry(t) \/ SweepNext(t) \/ DemoteLocked(t)
  BY <1>6, <1>9 DEF SweepEntry, SweepNext, DemoteLocked, Goto, TypeInv, TypeOK
<1>10. CASE LoadProtected(t)
  BY <1>4, <1>10, EnterLoopsFrame DEF LoadProtected
<1>11. CASE Scan(t)
  BY <1>0, <1>11, CleanScan
<1>12. CASE DemoteLoadTotal(t)
  BY <1>0, <1>4, <1>12, EnterLoopsFrame DEF DemoteLoadTotal, TestLoops
<1>13. CASE EvictLocked(t)
  <2>1. TestEvictLoop(t) \/ pc'[t] \in {"evict_erase", "evict_load"}
    BY <1>13 DEF EvictLocked, Goto, TypeInv, TypeOK
  <2>2. QED BY <1>0, <1>4, <1>6, <2>1, TestEvictLoopFrame
<1>14. CASE EvictLoad(t)
  BY <1>0, <1>4, <1>14, TestEvictLoopFrame DEF EvictLoad
<1>15. QED
  BY <1>5, <1>7, <1>8, <1>9, <1>10, <1>11, <1>12, <1>13, <1>14 DEF Step, EnforceCapacity

\* Every step keeps an excess of entries guarded by a thread inside
\* EnforceCapacity.
LEMMA GuardedStep ==
  ASSUME CountInv, CountInv', Guarded, [Next]_vars
  PROVE  Guarded'
<1> USE DEF CountInv
<1>1. CASE UNCHANGED vars \/ Tick
  BY <1>1 DEF vars, Tick, Guarded, Clean, StripeFor
<1>2. ASSUME NEW t \in Threads, Call(t) \/ Step(t),
             MaxEntries > 0, Cardinality(DOMAIN map') > MaxEntries
      PROVE  \E u \in Threads : Clean(u)'
  <2>1. CASE pc'[t] \in {"enf_load", "demote_load_prot"}
    BY <2>1 DEF Clean, EnforcingPcs, Pcs, GetPcs, LockedPcs
  <2>2. CASE Shrinks
    <3>1. \E u \in Threads : Clean(u)
      <4>1. DOMAIN map \in SUBSET Keys /\ DOMAIN map' \in SUBSET DOMAIN map
        BY <2>2 DEF TypeInv, TypeOK, Shrinks
      <4>2. IsFiniteSet(DOMAIN map) /\ IsFiniteSet(DOMAIN map')
            /\ Cardinality(DOMAIN map') <= Cardinality(DOMAIN map)
        BY <4>1, FS_Subset, ConstantsAssumption
      <4>3. Cardinality(DOMAIN map) > MaxEntries
        BY <1>2, <4>2, FS_CardinalityType, ConstantsAssumption
      <4>4. QED BY <1>2, <4>3 DEF Guarded
    <3>2. PICK u \in Threads : Clean(u)
      BY <3>1
    <3>3. CASE u # t
      BY <1>2, <2>2, <3>2, <3>3, OthersUnchanged, CleanShrinks
    <3>4. CASE u = t
      <4>1. Step(t)
        BY <1>2, <3>2, <3>4 DEF Call, CallGet, CallSet, Clean, EnforcingPcs
      <4>2. QED BY <1>2, <2>2, <3>2, <3>4, <4>1, CleanStep
    <3>5. QED BY <3>3, <3>4
  <2>3. QED BY <1>2, <2>1, <2>2, EveryEffect, EffectShrinks
<1>3. QED
  BY <1>1, <1>2 DEF Next, Done, Guarded

\* A bounded store of any capacity, with any number of threads and stripes, is
\* within max_entries whenever no thread is inside EnforceCapacity.
THEOREM CapacityAlwaysRestored == Spec => []CapacityRestored
<1>1. Init => Guarded
  <2> SUFFICES ASSUME Init PROVE Guarded
    OBVIOUS
  <2>1. DOMAIN map = {} /\ Cardinality(DOMAIN map) = 0
    BY FS_EmptySet DEF Init
  <2>2. QED BY <2>1, ConstantsAssumption DEF Guarded
<1>2. CountInv /\ Guarded => CapacityRestored
  <2> SUFFICES ASSUME CountInv, Guarded, MaxEntries > 0, \A t \in Threads : pc[t] \notin EnforcingPcs
               PROVE  Cardinality(DOMAIN map) <= MaxEntries
    BY DEF CapacityRestored
  <2>1. ~(Cardinality(DOMAIN map) > MaxEntries)
    BY DEF Guarded, Clean
  <2>2. QED BY <2>1, ErasingBounded, ConstantsAssumption DEF CountInv
<1>3. QED
  BY <1>1, <1>2, CountInvariant, GuardedStep, PTL DEF Spec

-----------------------------------------------------------------------------
\* The bound on evictions

\* A store to which nobody gives a TTL: nothing in it expires.
Lasting ==
    /\ \A k \in DOMAIN map : map[k].expires = Never
    /\ \A t \in Threads : loc[t].expires = Never /\ pc[t] \notin {"get_erase", "sweep_erase"}

\* From a total over the limit to the eviction it leads to.
HuntPcs == {"load_prot", "scan_demote", "scan_probation", "scan_protected", "demote_lock",
            "demote_load_prot", "demote_load_total", "evict_lock", "evict_erase"}

Hunting == {t \in Threads : pc[t] \in HuntPcs}

\* Whoever is hunting has seen the store over its limit, and since the last to
\* see it so only those who hunt no more can have evicted, once each.
Overshoot ==
    Hunting = {} \/ Cardinality(DOMAIN map) >= MaxEntries + 1 + Cardinality(Hunting) - Cardinality(Threads)

\* What a step of t leaves in its locals has no deadline, and t has found none.
LEMMA LastingLocals ==
  ASSUME TypeInv, Ttls = {Never}, Lasting, NEW t \in Threads, Call(t) \/ Step(t)
  PROVE  loc'[t].expires = Never /\ pc'[t] \notin {"get_erase", "sweep_erase"}
<1>0. /\ loc[t] \in Locals /\ loc[t].expires = Never /\ pc[t] \notin {"get_erase", "sweep_erase"}
      /\ t \in DOMAIN loc /\ t \in DOMAIN pc
      /\ NoLocals.expires = Never /\ [NoLocals EXCEPT !.key = loc[t].key].expires = Never
      /\ \A now : \A k \in DOMAIN map : ~IsExpired(map[k], now)
  BY DEF Lasting, TypeInv, TypeOK, NoLocals, IsExpired
<1>1. \A r : Return(t, r) => loc'[t].expires = Never /\ pc'[t] = "idle"
  BY <1>0 DEF Return, Goto
<1>2. \A label : StartScan(t, label) => loc'[t].expires = Never /\ pc'[t] = label
  BY <1>0 DEF StartScan, Goto
<1>3. CASE Call(t)
  <2>1. ASSUME NEW k \in Keys, CallGet(t, k) PROVE loc'[t].expires = Never /\ pc'[t] = "get_check"
    BY <1>0, <2>1 DEF CallGet, Goto, Locals
  <2>2. ASSUME NEW k \in Keys, NEW v \in Values, CallSet(t, k, v, Never)
        PROVE  loc'[t].expires = Never /\ pc'[t] = "set_lock"
    BY <1>0, <2>2 DEF CallSet, Goto, NoLocals
  <2>3. QED BY <1>3, <2>1, <2>2 DEF Call
<1>4. CASE GetCheck(t)
  BY <1>0, <1>1, <1>4 DEF GetCheck, Goto
<1>5. CASE GetLocked(t)
  BY <1>0, <1>1, <1>5 DEF GetLocked, GetMiss, GetExpired, GetHit
<1>6. CASE SetLocked(t)
  BY <1>0, <1>1, <1>6 DEF SetLocked, Goto
<1>7. CASE EnforceLoad(t) \/ Recheck(t)
  BY <1>0, <1>1, <1>7 DEF EnforceLoad, Recheck, Goto
<1>8. CASE EnforceNow(t) \/ DemoteLoadProtected(t) \/ EvictErase(t) \/ SweepNext(t)
  BY <1>0, <1>8 DEF EnforceNow, DemoteLoadProtected, EvictErase, SweepNext, Goto, Locals
<1>9. CASE LoadProtected(t)
  BY <1>2, <1>9 DEF LoadProtected, EnterLoops
<1>10. CASE Scan(t)
  <2>1. CASE loc[t].stripe < LastStripe
    BY <1>0, <1>10, <2>1 DEF Scan, Locals
  <2>2. CASE ~(loc[t].stripe < LastStripe)
    <3>1. PICK v \in Keys \cup {EmptyKey} : VictimSelected(t, v)
      BY <1>10, <2>2 DEF Scan
    <3>2. CASE v # EmptyKey
      BY <1>0, <3>1, <3>2 DEF VictimSelected, Goto, NoLocals
    <3>3. CASE v = EmptyKey
      <4>1. \/ StartScan(t, "scan_probation") \/ StartScan(t, "scan_protected") \/ Return(t, NoResult)
        BY ZenonT(20), <1>10, <3>1, <3>3 DEF VictimSelected, Scan, ScanPcs
      <4>2. QED BY <1>1, <1>2, <4>1
    <3>4. QED BY <3>2, <3>3
  <2>3. QED BY <2>1, <2>2
<1>11. CASE DemoteLocked(t)
  BY <1>0, <1>11 DEF DemoteLocked, Goto, Locals
<1>12. CASE DemoteLoadTotal(t)
  BY <1>1, <1>2, <1>12 DEF DemoteLoadTotal, TestLoops, EnterLoops
<1>13. CASE EvictLocked(t) \/ EvictLoad(t)
  BY <1>0, <1>1, <1>2, <1>13 DEF EvictLocked, EvictLoad, TestEvictLoop, Goto
<1>14. CASE SweepEntry(t)
  BY <1>0, <1>14 DEF SweepEntry, ExpiredIn
<1>15. CASE GetErase(t) \/ SweepErase(t)
  BY <1>0, <1>15 DEF GetErase, SweepErase
<1>16. QED
  BY <1>3, <1>4, <1>5, <1>6, <1>7, <1>8, <1>9, <1>10, <1>11, <1>12, <1>13, <1>14, <1>15
  DEF Step, EnforceCapacity

\* The entries a step writes or leaves have no deadline.
LEMMA LastingTable ==
  ASSUME TypeInv, Lasting, NEW t \in Threads, Call(t) \/ Step(t)
  PROVE  \A k \in DOMAIN map' : map'[k].expires = Never
<1>0. /\ loc[t].expires = Never /\ pc[t] \notin {"get_erase", "sweep_erase"}
      /\ \A k \in DOMAIN map : map[k] \in Entry /\ map[k].expires = Never
      /\ \A now : \A k \in DOMAIN map : ~IsExpired(map[k], now)
  BY DEF Lasting, TypeInv, TypeOK, IsExpired
<1>1. ASSUME NEW k, NEW e, Put(k, e), e.expires = Never PROVE \A j \in DOMAIN map' : map'[j].expires = Never
  BY <1>0, <1>1 DEF Put
<1>2. ASSUME NEW k, Erase(k) PROVE \A j \in DOMAIN map' : map'[j].expires = Never
  BY <1>0, <1>2 DEF Erase
<1>3. \A e, now : TouchEntry(e, now).expires = e.expires /\ Demoted(e).expires = e.expires
  BY DEF TouchEntry, Demoted
<1>4. CASE map' = map
  BY <1>0, <1>4
<1>5. CASE GetLocked(t)
  <2>1. CASE GetMiss(t)
    BY <1>4, <2>1 DEF GetMiss, shared
  <2>2. CASE GetHit(t)
    <3> DEFINE e == TouchEntry(map[loc[t].key], clock)
    <3>1. Put(loc[t].key, e) /\ loc[t].key \in DOMAIN map
      BY <2>2 DEF GetHit
    <3>2. e.expires = Never
      BY <1>0, <1>3, <3>1
    <3> HIDE DEF e
    <3>3. QED BY <1>1, <3>1, <3>2
  <2>3. ~GetExpired(t)
    BY <1>0 DEF GetExpired
  <2>4. QED BY <1>5, <2>1, <2>2, <2>3 DEF GetLocked
<1>6. CASE SetLocked(t)
  <2>1. CASE SetExisting(t)
    <3> DEFINE d == [map[loc[t].key] EXCEPT !.value = loc[t].value, !.expires = loc[t].expires]
               e == TouchEntry(d, loc[t].now)
    <3>1. Put(loc[t].key, e) /\ loc[t].key \in DOMAIN map
      BY <2>1 DEF SetExisting
    <3>2. d.expires = Never
      BY <1>0, <3>1 DEF Entry
    <3> HIDE DEF d
    <3>3. e.expires = Never
      BY <1>3, <3>2
    <3> HIDE DEF e
    <3>4. QED BY <1>1, <3>1, <3>3
  <2>2. CASE SetNew(t)
    <3> DEFINE e == [value |-> loc[t].value, expires |-> loc[t].expires, lfu |-> 1,
                     touch |-> loc[t].now, prot |-> FALSE]
    <3>1. Put(loc[t].key, e)
      BY <2>2 DEF SetNew
    <3>2. e.expires = Never
      BY <1>0
    <3> HIDE DEF e
    <3>3. QED BY <1>1, <3>1, <3>2
  <2>3. QED BY <1>6, <2>1, <2>2 DEF SetLocked
<1>7. CASE SweepEntry(t) \/ GetErase(t) \/ SweepErase(t)
  BY <1>0, <1>7 DEF SweepEntry, ExpiredIn, GetErase, SweepErase
<1>8. CASE DemoteLocked(t)
  BY <1>0, <1>1, <1>3, <1>4, <1>8 DEF DemoteLocked
<1>9. CASE EvictLocked(t) \/ EvictErase(t)
  BY <1>2, <1>4, <1>9 DEF EvictLocked, EvictErase, shared
<1>10. QED
  BY ZenonT(20), <1>4, <1>5, <1>6, <1>7, <1>8, <1>9
  DEF Call, CallGet, CallSet, Step, GetCheck, EnforceCapacity, EnforceLoad, EnforceNow, SweepNext, Recheck,
      LoadProtected, Scan, DemoteLoadProtected, DemoteLoadTotal, EvictLoad, shared

\* Without TTLs nothing ever expires.
LEMMA LastingStep ==
  ASSUME TypeInv, Ttls = {Never}, Lasting, [Next]_vars
  PROVE  Lasting'
<1>1. CASE UNCHANGED vars \/ Tick
  BY <1>1 DEF vars, Tick, Lasting
<1>2. ASSUME NEW t \in Threads, Call(t) \/ Step(t) PROVE Lasting'
  <2>1. \A u \in Threads \ {t} : loc'[u].expires = Never /\ pc'[u] \notin {"get_erase", "sweep_erase"}
    <3>1. \A u \in Threads \ {t} : pc'[u] = pc[u] /\ loc'[u] = loc[u]
      BY ZenonT(20), <1>2, OthersUnchanged
    <3>2. QED BY <3>1 DEF Lasting
  <2>2. QED BY <1>2, <2>1, LastingLocals, LastingTable DEF Lasting
<1>3. QED BY <1>1, <1>2 DEF Next, Done

\* A thread begins to hunt only on a total over the limit, and evicting ends its
\* hunt; nothing else removes an entry.
LEMMA HuntEffect ==
  ASSUME TypeInv, LockInv, Lasting, NEW t \in Threads, Call(t) \/ Step(t)
  PROVE  \/ /\ DOMAIN map \subseteq DOMAIN map'
            /\ pc'[t] \in HuntPcs => pc[t] \in HuntPcs \/ total > MaxEntries
         \/ /\ pc[t] \in HuntPcs /\ pc'[t] \notin HuntPcs
            /\ \E k \in DOMAIN map : DOMAIN map' = DOMAIN map \ {k}
<1> USE DEF HuntPcs
<1>0. /\ pc[t] \notin {"get_erase", "sweep_erase"} /\ t \in DOMAIN pc
      /\ \A now : \A k \in DOMAIN map : ~IsExpired(map[k], now)
      /\ total \in Int /\ MaxEntries \in Nat
  BY ConstantsAssumption DEF Lasting, TypeInv, TypeOK, IsExpired
<1>1. \A k, e : Put(k, e) => DOMAIN map \subseteq DOMAIN map'
  BY DEF Put
<1>2. \A r : Return(t, r) => pc'[t] = "idle"
  BY <1>0 DEF Return, Goto
<1>3. \A label : StartScan(t, label) => pc'[t] = label
  BY <1>0 DEF StartScan, Goto
<1>4. CASE Call(t) \/ GetCheck(t)
  <2>1. ASSUME NEW k \in Keys, CallGet(t, k) PROVE map' = map /\ pc'[t] = "get_check"
    BY <1>0, <2>1 DEF CallGet, Goto, shared
  <2>2. ASSUME NEW k \in Keys, NEW v \in Values, NEW ttl \in Ttls, CallSet(t, k, v, ttl)
        PROVE  map' = map /\ pc'[t] = "set_lock"
    BY <1>0, <2>2 DEF CallSet, Goto, shared
  <2>3. CASE GetCheck(t)
    BY <1>0, <1>2, <2>3 DEF GetCheck, Goto, shared
  <2>4. CASE Call(t)
    BY <2>1, <2>2, <2>4 DEF Call
  <2>5. QED BY <1>4, <2>3, <2>4
<1>5. CASE GetLocked(t)
  BY <1>0, <1>1, <1>2, <1>5 DEF GetLocked, GetMiss, GetExpired, GetHit, shared
<1>6. CASE SetLocked(t)
  BY <1>0, <1>1, <1>2, <1>6 DEF SetLocked, SetExisting, SetNew, Goto
<1>7. CASE EnforceLoad(t) \/ EnforceNow(t) \/ SweepNext(t)
  BY <1>0, <1>2, <1>7 DEF EnforceLoad, EnforceNow, SweepNext, Goto, shared
<1>8. CASE Recheck(t)
  BY <1>0, <1>2, <1>8 DEF Recheck, Goto, shared
<1>9. CASE LoadProtected(t) \/ Scan(t)
  BY <1>9 DEF LoadProtected, Scan, ScanPcs, shared
<1>10. CASE DemoteLocked(t)
  BY <1>1, <1>10 DEF DemoteLocked
<1>11. CASE DemoteLoadProtected(t) \/ DemoteLoadTotal(t)
  BY <1>11 DEF DemoteLoadProtected, DemoteLoadTotal, shared
<1>12. CASE EvictLoad(t)
  BY <1>2, <1>3, <1>12 DEF EvictLoad, TestEvictLoop
<1>13. CASE EvictLocked(t)
  <2>1. CASE map' = map
    BY <1>13, <2>1 DEF EvictLocked
  <2>2. CASE map' # map
    <3>1. loc[t].victim \in DOMAIN map /\ Erase(loc[t].victim) /\ pc'[t] = "evict_load" /\ pc[t] = "evict_lock"
      BY <1>0, <1>13, <2>2 DEF EvictLocked, Goto, shared
    <3>2. QED BY <3>1 DEF Erase
  <2>3. QED BY <2>1, <2>2
<1>14. CASE EvictErase(t)
  <2>1. loc[t].victim \in DOMAIN map
    BY <1>14 DEF EvictErase, LockInv, HeldKey, ErasePcs
  <2>2. QED BY <1>0, <1>14, <2>1 DEF EvictErase, Erase, Goto
<1>15. CASE SweepEntry(t) \/ GetErase(t) \/ SweepErase(t)
  BY <1>0, <1>15 DEF SweepEntry, ExpiredIn, GetErase, SweepErase
<1>16. QED
  BY <1>4, <1>5, <1>6, <1>7, <1>8, <1>9, <1>10, <1>11, <1>12, <1>13, <1>14, <1>15 DEF Step, EnforceCapacity

\* Every step keeps the bound: an eviction takes an entry and a hunter away.
LEMMA OvershootStep ==
  ASSUME CountInv, Lasting, Overshoot, [Next]_vars
  PROVE  Overshoot'
<1> USE DEF CountInv
<1>0. /\ IsFiniteSet(DOMAIN map) /\ Cardinality(DOMAIN map) \in Nat /\ total = Cardinality(DOMAIN map)
      /\ Hunting \subseteq Threads /\ Hunting' \subseteq Threads
      /\ IsFiniteSet(Threads) /\ Cardinality(Threads) \in Nat /\ MaxEntries \in Nat
  BY ErasingBounded, FS_CardinalityType, ConstantsAssumption DEF Counted, Hunting
<1>1. /\ IsFiniteSet(Hunting) /\ Cardinality(Hunting) \in Nat
      /\ IsFiniteSet(Hunting') /\ Cardinality(Hunting') \in Nat
      /\ Cardinality(Hunting') <= Cardinality(Threads)
  BY <1>0, FS_Subset, FS_CardinalityType
<1>2. CASE UNCHANGED vars \/ Tick
  BY <1>2 DEF vars, Tick, Overshoot, Hunting
<1>3. ASSUME NEW t \in Threads, Call(t) \/ Step(t) PROVE Overshoot'
  <2>1. \A u \in Threads \ {t} : pc'[u] = pc[u]
    BY <1>3, OthersUnchanged
  <2>2. CASE /\ DOMAIN map \subseteq DOMAIN map'
             /\ pc'[t] \in HuntPcs => pc[t] \in HuntPcs \/ total > MaxEntries
    <3>1. Cardinality(DOMAIN map') \in Nat /\ Cardinality(DOMAIN map) <= Cardinality(DOMAIN map')
      <4>1. DOMAIN map' \subseteq Keys
        BY TypeStep DEF TypeInv, TypeOK
      <4>2. IsFiniteSet(DOMAIN map')
        BY <4>1, FS_Subset, ConstantsAssumption
      <4>3. QED BY <2>2, <4>2, FS_Subset, FS_CardinalityType
    <3>2. CASE Hunting' \subseteq Hunting
      <4>1. Cardinality(Hunting') <= Cardinality(Hunting)
        BY <1>1, <3>2, FS_Subset
      <4>2. QED BY <1>0, <1>1, <3>1, <3>2, <4>1 DEF Overshoot
    <3>3. CASE ~(Hunting' \subseteq Hunting)
      <4>1. total > MaxEntries
        BY <2>1, <2>2, <3>3 DEF Hunting
      <4>2. QED BY <1>0, <1>1, <3>1, <4>1 DEF Overshoot
    <3>4. QED BY <3>2, <3>3
  <2>3. CASE /\ pc[t] \in HuntPcs /\ pc'[t] \notin HuntPcs
             /\ \E k \in DOMAIN map : DOMAIN map' = DOMAIN map \ {k}
    <3>1. Hunting' = Hunting \ {t} /\ t \in Hunting
      BY <2>1, <2>3 DEF Hunting
    <3>2. Cardinality(Hunting') = Cardinality(Hunting) - 1
      BY <1>1, <3>1, FS_RemoveElement
    <3>3. Cardinality(DOMAIN map') = Cardinality(DOMAIN map) - 1
      BY <1>0, <2>3, FS_RemoveElement
    <3>4. QED BY <1>0, <1>1, <3>1, <3>2, <3>3 DEF Overshoot
  <2>4. QED BY <1>3, <2>2, <2>3, HuntEffect
<1>4. QED BY <1>2, <1>3 DEF Next, Done

\* A step that removes entries takes one away from a bounded store that someone
\* was hunting in.
LEMMA RemovalBounded ==
  ASSUME CountInv, Lasting, Overshoot, [Next]_vars, Removes
  PROVE  Cardinality(DOMAIN map') >= MaxEntries - (Cardinality(Threads) - 1)
<1> USE DEF CountInv
<1>1. PICK t \in Threads : Call(t) \/ Step(t)
  BY DEF Removes, Next, Done, Tick, vars
<1>2. t \in Hunting /\ \E k \in DOMAIN map : DOMAIN map' = DOMAIN map \ {k}
  <2>1. ~(DOMAIN map \subseteq DOMAIN map')
    BY DEF Removes
  <2>2. QED BY <1>1, <2>1, HuntEffect DEF Hunting
<1>3. IsFiniteSet(DOMAIN map) /\ Cardinality(DOMAIN map) \in Nat
  BY ErasingBounded
<1>4. Cardinality(DOMAIN map') = Cardinality(DOMAIN map) - 1
  BY <1>2, <1>3, FS_RemoveElement
<1>5. Cardinality(Hunting) \in Nat /\ Cardinality(Hunting) >= 1
  <2>1. Hunting \subseteq Threads /\ IsFiniteSet(Threads)
    BY ConstantsAssumption DEF Hunting
  <2>2. IsFiniteSet(Hunting) /\ Cardinality(Hunting) \in Nat
    BY <2>1, FS_Subset, FS_CardinalityType
  <2>3. Cardinality(Hunting) # 0
    BY <1>2, <2>2, FS_EmptySet
  <2>4. QED BY <2>2, <2>3
<1>6. Cardinality(Threads) \in Nat /\ MaxEntries \in Nat
  BY FS_CardinalityType, ConstantsAssumption
<1>7. QED BY <1>2, <1>3, <1>4, <1>5, <1>6 DEF Overshoot

\* Without TTLs, in a store of any size with any number of threads, no eviction
\* of EnforceCapacity leaves fewer entries than max_entries_, less one for every
\* other thread.
THEOREM EvictionsAlwaysBounded == Spec => EvictionBounded
<1>1. CASE Ttls = {Never}
  <2>1. Init => Lasting /\ Overshoot
    BY DEF Init, Lasting, NoLocals, Overshoot, Hunting, HuntPcs
  <2>2. CountInv /\ Lasting /\ Overshoot /\ [Next]_vars => Lasting' /\ Overshoot'
    BY <1>1, LastingStep, OvershootStep DEF CountInv
  <2>3. CountInv /\ Lasting /\ Overshoot /\ [Next]_vars =>
          [Ttls = {Never} /\ Removes
             => Cardinality(DOMAIN map') >= MaxEntries - (Cardinality(Threads) - 1)]_vars
    BY RemovalBounded
  <2>4. QED BY <2>1, <2>2, <2>3, CountInvariant, PTL DEF Spec, EvictionBounded
<1>2. CASE Ttls # {Never}
  <2>1. [Next]_vars =>
          [Ttls = {Never} /\ Removes
             => Cardinality(DOMAIN map') >= MaxEntries - (Cardinality(Threads) - 1)]_vars
    BY <1>2
  <2>2. QED BY <2>1, PTL DEF Spec, EvictionBounded
<1>3. QED BY <1>1, <1>2

=============================================================================
