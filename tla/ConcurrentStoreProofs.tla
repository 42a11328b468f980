----------------------- MODULE ConcurrentStoreProofs -----------------------
(***************************************************************************)
(* The types of ConcurrentStore, and what each of its steps does to the    *)
(* table and the locks, proved for every set of threads and keys and every *)
(* capacity, stripe count and bound.                                       *)
(***************************************************************************)
EXTENDS ConcurrentStore, FiniteSetTheorems, TLAPS

VictimPcs == {"sweep_erase", "demote_lock", "demote_load_prot", "demote_load_total",
              "evict_lock", "evict_erase", "evict_load"}

\* The locals a step dereferences hold what that step expects.
LocalsOK ==
    \A t \in Threads :
        /\ pc[t] \in GetPcs \cup {"set_lock"} => loc[t].key \in Keys
        /\ pc[t] = "set_lock" => loc[t].value \in Values
        /\ pc[t] \in VictimPcs => loc[t].victim \in Keys

TypeInv == TypeOK /\ LocalsOK

-----------------------------------------------------------------------------
\* Facts about the operators

\* A thread outside a call has well-typed locals.
LEMMA NoLocalsType == /\ NoLocals \in Locals
                        /\ LastStripe \in Nat
                        /\ 1 \in Stripes /\ LastStripe \in Stripes
  BY ConstantsAssumption DEF NoLocals, Locals, Stripes, LastStripe, Never

\* A scan that has not reached the last stripe has one to go on to.
LEMMA NextStripe ==
  ASSUME NEW s \in Stripes
  PROVE  s \in Nat /\ s <= LastStripe /\ (s < LastStripe => s + 1 \in Stripes)
  BY NoLocalsType DEF Stripes

\* The locals stay well-typed whichever of their fields a step sets.
LEMMA UpdateType ==
  ASSUME TypeOK, NEW t \in Threads
  PROVE  /\ \A s \in Stripes : [loc[t] EXCEPT !.stripe = s] \in Locals
         /\ \A s \in Stripes, c \in SUBSET Candidate :
              [loc[t] EXCEPT !.stripe = s, !.cands = c] \in Locals
         /\ \A v \in Keys \cup {EmptyKey} : [loc[t] EXCEPT !.victim = v] \in Locals
         /\ \A n \in Int : [loc[t] EXCEPT !.protSeen = n] \in Locals
  BY ZenonT(60) DEF TypeOK, Locals

\* TouchEntry returns an entry, and never takes a protected one out of its segment.
LEMMA TouchType ==
  ASSUME NEW e \in Entry, NEW now \in Nat
  PROVE  /\ TouchEntry(e, now) \in Entry
         /\ e.prot => TouchEntry(e, now).prot
         /\ TouchEntry(e, now).prot = (e.prot \/ Promotes(e))
<1>1. NextLfu(e) \in 1 .. LfuMax
  BY ConstantsAssumption DEF NextLfu, Entry
<1>2. e.prot \in BOOLEAN /\ (e.prot \/ Promotes(e)) \in BOOLEAN
  BY DEF Entry, Promotes
<1>3. QED
  BY <1>1, <1>2 DEF TouchEntry, Entry

\* A demoted entry is an entry.
LEMMA DemotedType ==
  ASSUME NEW e \in Entry
  PROVE  Demoted(e) \in Entry /\ ~Demoted(e).prot
  BY ConstantsAssumption DEF Demoted, Entry

\* Writing an entry keeps the table a table.
LEMMA PutType ==
  ASSUME TypeOK, NEW k \in Keys, NEW e \in Entry, Put(k, e)
  PROVE  /\ DOMAIN map' = DOMAIN map \cup {k}
         /\ DOMAIN map' \subseteq Keys
         /\ map' = [j \in DOMAIN map' |-> map'[j]]
         /\ \A j \in DOMAIN map' : map'[j] \in Entry
         /\ map'[k] = e
         /\ \A j \in DOMAIN map \ {k} : map'[j] = map[j]
  BY DEF TypeOK, Put

\* Erasing an entry keeps the table a table.
LEMMA EraseType ==
  ASSUME TypeOK, NEW k, Erase(k)
  PROVE  /\ DOMAIN map' = DOMAIN map \ {k}
         /\ DOMAIN map' \subseteq Keys
         /\ map' = [j \in DOMAIN map' |-> map'[j]]
         /\ \A j \in DOMAIN map' : map'[j] \in Entry /\ map'[j] = map[j]
         /\ total' = total - 1 /\ total' \in Int
  BY DEF TypeOK, Erase

\* A thread that returns keeps the types.
LEMMA ReturnType ==
  ASSUME TypeInv, NEW t \in Threads, NEW r \in Values \cup {Miss, NoResult}, Return(t, r)
  PROVE  /\ pc' = [pc EXCEPT ![t] = "idle"]
         /\ pc' \in [Threads -> Pcs]
         /\ loc' \in [Threads -> Locals]
         /\ ret' \in [Threads -> Values \cup {Miss, NoResult}]
         /\ \A u \in Threads \ {t} : pc'[u] = pc[u] /\ loc'[u] = loc[u]
         /\ pc'[t] = "idle"
         /\ LocalsOK'
  BY NoLocalsType DEF TypeInv, TypeOK, LocalsOK, Return, Goto, Pcs, GetPcs, VictimPcs

\* A thread that starts a scan keeps the types.
LEMMA StartScanType ==
  ASSUME TypeInv, NEW t \in Threads, NEW label \in ScanPcs, StartScan(t, label)
  PROVE  /\ pc' = [pc EXCEPT ![t] = label]
         /\ pc' \in [Threads -> Pcs]
         /\ loc' \in [Threads -> Locals]
         /\ ret' = ret
         /\ \A u \in Threads \ {t} : pc'[u] = pc[u] /\ loc'[u] = loc[u]
         /\ pc'[t] = label /\ loc'[t].stripe = 1 /\ loc'[t].cands = {}
         /\ LocalsOK'
<1>1. [NoLocals EXCEPT !.key = loc[t].key] \in Locals
  BY NoLocalsType DEF TypeInv, TypeOK, Locals
<1>2. label \notin GetPcs \cup {"set_lock"} \cup VictimPcs /\ label \in Pcs
  BY DEF ScanPcs, GetPcs, VictimPcs, Pcs
<1>3. /\ pc' = [pc EXCEPT ![t] = label]
      /\ loc' = [loc EXCEPT ![t] = [NoLocals EXCEPT !.key = loc[t].key]]
  BY DEF StartScan, Goto
<1>4. /\ pc' \in [Threads -> Pcs] /\ pc'[t] = label
      /\ loc' \in [Threads -> Locals] /\ loc'[t] = [NoLocals EXCEPT !.key = loc[t].key]
      /\ \A u \in Threads \ {t} : pc'[u] = pc[u] /\ loc'[u] = loc[u]
  BY <1>1, <1>2, <1>3 DEF TypeInv, TypeOK
<1>5. LocalsOK'
  BY <1>2, <1>4 DEF TypeInv, LocalsOK
<1>6. loc'[t].stripe = 1 /\ loc'[t].cands = {}
  BY <1>4 DEF NoLocals
<1>7. QED
  BY <1>3, <1>4, <1>5, <1>6 DEF StartScan

\* A scan collects candidates.
LEMMA CandidatesType ==
  ASSUME TypeOK, NEW s \in Stripes, NEW segment \in BOOLEAN
  PROVE  Candidates(s, segment) \subseteq Candidate
  BY DEF TypeOK, Candidates, Candidate, Entry

\* The test of the eviction loop keeps the types.
LEMMA TestEvictLoopType ==
  ASSUME TypeInv, NEW t \in Threads, TestEvictLoop(t)
  PROVE  /\ pc' \in [Threads -> Pcs]
         /\ loc' \in [Threads -> Locals]
         /\ ret' \in [Threads -> Values \cup {Miss, NoResult}]
         /\ \A u \in Threads \ {t} : pc'[u] = pc[u] /\ loc'[u] = loc[u]
         /\ LocalsOK'
<1>1. CASE total > MaxEntries
  <2>1. StartScan(t, "scan_probation") /\ "scan_probation" \in ScanPcs
    BY <1>1 DEF TestEvictLoop, ScanPcs
  <2>2. QED BY <2>1, StartScanType DEF TypeInv, TypeOK
<1>2. CASE ~(total > MaxEntries)
  BY <1>2, ReturnType DEF TestEvictLoop
<1>3. QED BY <1>1, <1>2

\* Going on with the victim a scan selected keeps the types.
LEMMA VictimSelectedType ==
  ASSUME TypeInv, NEW t \in Threads, NEW v \in Keys \cup {EmptyKey}, pc[t] \in ScanPcs,
         VictimSelected(t, v)
  PROVE  /\ pc' \in [Threads -> Pcs]
         /\ loc' \in [Threads -> Locals]
         /\ ret' \in [Threads -> Values \cup {Miss, NoResult}]
         /\ \A u \in Threads \ {t} : pc'[u] = pc[u] /\ loc'[u] = loc[u]
         /\ LocalsOK'
<1>1. CASE v # EmptyKey
  <2> DEFINE label == IF pc[t] = "scan_demote" THEN "demote_lock" ELSE "evict_lock"
             r == [NoLocals EXCEPT !.key = loc[t].key, !.victim = v]
  <2>1. pc' = [pc EXCEPT ![t] = label] /\ loc' = [loc EXCEPT ![t] = r] /\ ret' = ret
    BY <1>1 DEF VictimSelected, Goto
  <2>2. r \in Locals /\ r.victim = v
    BY NoLocalsType DEF TypeInv, TypeOK, Locals
  <2>3. label \in Pcs /\ label \notin GetPcs \cup {"set_lock"}
    BY DEF Pcs, GetPcs
  <2> HIDE DEF r, label
  <2>4. QED
    BY <1>1, <2>1, <2>2, <2>3 DEF TypeInv, TypeOK, LocalsOK
<1>2. CASE v = EmptyKey
  <2>1. \/ \E label \in ScanPcs : StartScan(t, label)
        \/ Return(t, NoResult)
    BY <1>2 DEF VictimSelected, ScanPcs
  <2>2. QED
    BY <2>1, StartScanType, ReturnType DEF TypeInv, TypeOK
<1>3. QED BY <1>1, <1>2

\* Every step keeps the types.
LEMMA TypeStep == TypeInv /\ [Next]_vars => TypeInv'
<1> SUFFICES ASSUME TypeInv, [Next]_vars PROVE TypeInv'
  OBVIOUS
<1>1. CASE UNCHANGED vars
  BY <1>1 DEF vars, TypeInv, TypeOK, LocalsOK
<1>2. CASE Tick
  BY <1>2 DEF Tick, TypeInv, TypeOK, LocalsOK
<1>3. ASSUME NEW t \in Threads, NEW k \in Keys, CallGet(t, k) PROVE TypeInv'
  <2>1. loc' \in [Threads -> Locals] /\ pc' \in [Threads -> Pcs]
    BY <1>3, SMTT(40) DEF CallGet, Goto, TypeInv, TypeOK, Locals, Pcs, GetPcs
  <2>2. LocalsOK'
    BY <1>3 DEF CallGet, Goto, TypeInv, TypeOK, LocalsOK, VictimPcs, GetPcs, Locals
  <2>3. QED
    BY <1>3, <2>1, <2>2 DEF CallGet, TypeInv, TypeOK, shared
<1>4. ASSUME NEW t \in Threads, NEW k \in Keys, NEW v \in Values, NEW ttl \in Ttls,
             CallSet(t, k, v, ttl)
      PROVE TypeInv'
  <2> DEFINE d == IF ttl = Never THEN Never ELSE clock + ttl
             r == [NoLocals EXCEPT !.key = k, !.value = v, !.now = clock, !.expires = d]
  <2>1. d \in Nat \cup {Never}
    BY ConstantsAssumption DEF TypeInv, TypeOK
  <2>2. r \in Locals /\ r.key = k /\ r.value = v
    BY <2>1, NoLocalsType DEF TypeInv, TypeOK, Locals
  <2>3. /\ pc' = [pc EXCEPT ![t] = "set_lock"]
        /\ loc' = [loc EXCEPT ![t] = r]
    BY <1>4 DEF CallSet, Goto
  <2> HIDE DEF r, d
  <2>4. LocalsOK'
    BY <2>2, <2>3 DEF TypeInv, TypeOK, LocalsOK, VictimPcs, GetPcs
  <2>5. loc' \in [Threads -> Locals] /\ pc' \in [Threads -> Pcs]
    BY <2>2, <2>3 DEF TypeInv, TypeOK, Pcs
  <2>6. QED
    BY <1>4, <2>4, <2>5 DEF CallSet, TypeInv, TypeOK, shared
<1>5. ASSUME NEW t \in Threads, GetCheck(t) PROVE TypeInv'
  <2>1. CASE loc[t].key \in DOMAIN map
    <3>1. pc' = [pc EXCEPT ![t] = "get_lock"] /\ loc' = loc /\ ret' = ret
      BY <1>5, <2>1 DEF GetCheck, Goto
    <3>2. LocalsOK'
      BY <1>5, <3>1 DEF GetCheck, TypeInv, TypeOK, LocalsOK, VictimPcs, GetPcs
    <3>3. QED
      BY <1>5, <3>1, <3>2 DEF GetCheck, TypeInv, TypeOK, shared, Pcs, GetPcs
  <2>2. CASE loc[t].key \notin DOMAIN map
    <3>1. Return(t, Miss)
      BY <1>5, <2>2 DEF GetCheck
    <3>2. QED
      BY <1>5, <3>1, ReturnType DEF GetCheck, TypeInv, TypeOK, shared
  <2>3. QED BY <2>1, <2>2
<1>6. ASSUME NEW t \in Threads, GetLocked(t) PROVE TypeInv'
  <2>1. loc[t].key \in Keys
    BY <1>6 DEF GetLocked, GetPcs, TypeInv, LocalsOK
  <2>2. CASE GetMiss(t)
    BY <1>6, <2>2, ReturnType DEF GetLocked, GetMiss, TypeInv, TypeOK, shared
  <2>3. CASE GetExpired(t)
    <3>1. CASE map[loc[t].key].prot
      <4>1. /\ pc' = [pc EXCEPT ![t] = "get_erase"] /\ loc' = loc /\ ret' = ret /\ map' = map
            /\ mu' = [mu EXCEPT ![StripeFor(loc[t].key)] = t]
            /\ protected' = protected - 1 /\ total' = total
        BY <2>3, <3>1 DEF GetExpired, Goto, Lock
      <4>2. LocalsOK'
        BY <2>1, <4>1 DEF TypeInv, TypeOK, LocalsOK, VictimPcs, GetPcs
      <4>3. pc' \in [Threads -> Pcs] /\ mu' \in [Stripes -> Threads \cup {NoThread}]
        BY <2>1, <4>1, ConstantsAssumption DEF TypeInv, TypeOK, StripeFor, Pcs, GetPcs
      <4>4. QED
        BY <1>6, <4>1, <4>2, <4>3 DEF GetLocked, TypeInv, TypeOK
    <3>2. CASE ~map[loc[t].key].prot
      <4>1. Erase(loc[t].key) /\ Return(t, Miss) /\ UNCHANGED <<protected, mu>>
        BY <2>3, <3>2 DEF GetExpired
      <4>2. QED
        BY <1>6, <4>1, EraseType, ReturnType DEF GetLocked, TypeInv, TypeOK
    <3>3. QED BY <3>1, <3>2
  <2>4. CASE GetHit(t)
    <3>1. TouchEntry(map[loc[t].key], clock) \in Entry /\ map[loc[t].key].value \in Values
      BY <2>4, TouchType DEF GetHit, TypeInv, TypeOK, Entry
    <3>2. Put(loc[t].key, TouchEntry(map[loc[t].key], clock)) /\ Return(t, map[loc[t].key].value)
      BY <2>4 DEF GetHit
    <3>3. protected' \in Int /\ total' = total /\ mu' = mu
      BY <2>4 DEF GetHit, TypeInv, TypeOK
    <3>4. QED
      BY <1>6, <2>1, <3>1, <3>2, <3>3, PutType, ReturnType DEF GetLocked, TypeInv, TypeOK
  <2>5. QED BY <1>6, <2>2, <2>3, <2>4 DEF GetLocked
<1>7. ASSUME NEW t \in Threads, GetErase(t) PROVE TypeInv'
  <2>1. loc[t].key \in Keys
    BY <1>7 DEF GetErase, GetPcs, TypeInv, LocalsOK
  <2>2. mu' \in [Stripes -> Threads \cup {NoThread}]
    BY <1>7, <2>1, ConstantsAssumption DEF GetErase, Unlock, StripeFor, TypeInv, TypeOK
  <2>3. QED
    BY <1>7, <2>2, EraseType, ReturnType DEF GetErase, TypeInv, TypeOK
<1>8. ASSUME NEW t \in Threads, SetLocked(t) PROVE TypeInv'
  <2> DEFINE k == loc[t].key
  <2>1. k \in Keys /\ loc[t].value \in Values /\ loc[t].expires \in Nat \cup {Never} /\ loc[t].now \in Nat
    BY <1>8 DEF SetLocked, TypeInv, TypeOK, LocalsOK, Locals
  <2>2. /\ DOMAIN map' \subseteq Keys
        /\ map' = [j \in DOMAIN map' |-> map'[j]]
        /\ \A j \in DOMAIN map' : map'[j] \in Entry
        /\ total' \in Int /\ protected' \in Int
    <3>1. CASE SetExisting(t)
      <4> DEFINE e == [map[k] EXCEPT !.value = loc[t].value, !.expires = loc[t].expires]
      <4>1. e \in Entry
        BY <2>1, <3>1 DEF SetExisting, TypeInv, TypeOK, Entry
      <4>2. TouchEntry(e, loc[t].now) \in Entry
        BY <2>1, <4>1, TouchType
      <4>3. Put(k, TouchEntry(e, loc[t].now)) /\ total' = total /\ protected' \in Int
        BY <3>1 DEF SetExisting, TypeInv, TypeOK
      <4>4. QED
        BY <2>1, <4>2, <4>3, PutType DEF TypeInv, TypeOK
    <3>2. CASE SetNew(t)
      <4> DEFINE e == [value |-> loc[t].value, expires |-> loc[t].expires, lfu |-> 1,
                       touch |-> loc[t].now, prot |-> FALSE]
      <4>1. e \in Entry
        BY <2>1, ConstantsAssumption DEF Entry
      <4>2. Put(k, e) /\ total' = total + 1 /\ protected' = protected
        BY <3>2 DEF SetNew
      <4> HIDE DEF e
      <4>3. /\ DOMAIN map' \subseteq Keys
            /\ map' = [j \in DOMAIN map' |-> map'[j]]
            /\ \A j \in DOMAIN map' : map'[j] \in Entry
        BY <2>1, <4>1, <4>2, PutType DEF TypeInv
      <4>4. QED
        BY <4>2, <4>3 DEF TypeInv, TypeOK
    <3>3. QED BY <1>8, <3>1, <3>2 DEF SetLocked
  <2>3. /\ pc' \in [Threads -> Pcs] /\ loc' \in [Threads -> Locals]
        /\ ret' \in [Threads -> Values \cup {Miss, NoResult}]
        /\ LocalsOK'
    <3>1. CASE MaxEntries = 0
      BY <1>8, <3>1, ReturnType DEF SetLocked
    <3>2. CASE MaxEntries # 0
      <4>1. /\ pc' = [pc EXCEPT ![t] = "enf_load"]
            /\ loc' = [loc EXCEPT ![t] = [NoLocals EXCEPT !.key = loc[t].key]]
            /\ ret' = ret
        BY <1>8, <3>2 DEF SetLocked, Goto
      <4>2. [NoLocals EXCEPT !.key = loc[t].key] \in Locals
        BY NoLocalsType DEF TypeInv, TypeOK, Locals
      <4>3. QED
        BY <4>1, <4>2 DEF TypeInv, TypeOK, LocalsOK, Pcs, GetPcs, VictimPcs
    <3>3. QED BY <3>1, <3>2
  <2>4. QED
    BY <1>8, <2>2, <2>3 DEF SetLocked, TypeInv, TypeOK
<1>9. ASSUME NEW t \in Threads, EnforceLoad(t) PROVE TypeInv'
  <2>1. CASE total <= MaxEntries
    BY <1>9, <2>1, ReturnType DEF EnforceLoad, TypeInv, TypeOK, shared
  <2>2. CASE ~(total <= MaxEntries)
    BY <1>9, <2>2 DEF EnforceLoad, Goto, TypeInv, TypeOK, LocalsOK, shared, Pcs, GetPcs, VictimPcs
  <2>3. QED BY <2>1, <2>2
<1>10. ASSUME NEW t \in Threads, EnforceNow(t) PROVE TypeInv'
  <2>1. loc' \in [Threads -> Locals] /\ pc' = [pc EXCEPT ![t] = "sweep"]
    BY <1>10, NoLocalsType, ZenonT(60) DEF EnforceNow, Goto, TypeInv, TypeOK, Locals
  <2>2. \A u \in Threads : loc'[u].key = loc[u].key /\ loc'[u].value = loc[u].value
                           /\ loc'[u].victim = loc[u].victim
    BY <1>10 DEF EnforceNow, TypeInv, TypeOK, Locals
  <2>3. QED
    BY <1>10, <2>1, <2>2 DEF EnforceNow, TypeInv, TypeOK, LocalsOK, shared, Pcs, GetPcs, VictimPcs
<1>11. ASSUME NEW t \in Threads, SweepEntry(t) PROVE TypeInv'
  <2>1. mu' \in [Stripes -> Threads \cup {NoThread}]
    BY <1>11 DEF SweepEntry, Lock, TypeInv, TypeOK, Locals
  <2>2. PICK k \in ExpiredIn(loc[t].stripe, loc[t].now) :
          IF map[k].prot
            THEN /\ protected' = protected - 1
                 /\ Goto(t, "sweep_erase")
                 /\ loc' = [loc EXCEPT ![t].victim = k]
                 /\ UNCHANGED <<map, total>>
            ELSE Erase(k) /\ UNCHANGED <<protected, pc, loc>>
    BY <1>11 DEF SweepEntry
  <2>3. k \in Keys
    BY DEF ExpiredIn, TypeInv, TypeOK
  <2>4. CASE map[k].prot
    <3>1. /\ pc' = [pc EXCEPT ![t] = "sweep_erase"]
          /\ loc' = [loc EXCEPT ![t] = [loc[t] EXCEPT !.victim = k]]
      BY <2>2, <2>4 DEF Goto
    <3>4. loc' \in [Threads -> Locals] /\ pc' \in [Threads -> Pcs]
      BY <2>3, <3>1, UpdateType DEF TypeInv, TypeOK, Pcs, LockedPcs
    <3>2. LocalsOK'
      BY <2>2, <2>3, <2>4, <3>1 DEF TypeInv, TypeOK, LocalsOK, Locals, GetPcs, VictimPcs
    <3>3. QED
      BY <1>11, <2>1, <2>2, <2>4, <3>4, <3>2 DEF SweepEntry, TypeInv, TypeOK
  <2>5. CASE ~map[k].prot
    BY <1>11, <2>1, <2>2, <2>5, EraseType DEF SweepEntry, TypeInv, TypeOK, LocalsOK
  <2>6. QED BY <2>4, <2>5
<1>12. ASSUME NEW t \in Threads, SweepErase(t) PROVE TypeInv'
  <2>1. /\ pc' = [pc EXCEPT ![t] = "sweep"]
        /\ loc' = [loc EXCEPT ![t] = [loc[t] EXCEPT !.victim = EmptyKey]]
    BY <1>12 DEF SweepErase, Goto
  <2>4. loc' \in [Threads -> Locals] /\ pc' \in [Threads -> Pcs]
    BY <2>1, UpdateType DEF TypeInv, TypeOK, Pcs
  <2>2. LocalsOK'
    BY <1>12, <2>1 DEF SweepErase, TypeInv, TypeOK, LocalsOK, Locals, GetPcs, VictimPcs
  <2>3. QED
    BY <1>12, <2>4, <2>2, EraseType DEF SweepErase, TypeInv, TypeOK
<1>13. ASSUME NEW t \in Threads, SweepNext(t) PROVE TypeInv'
  <2>1. mu' \in [Stripes -> Threads \cup {NoThread}]
    BY <1>13 DEF SweepNext, Unlock, TypeInv, TypeOK, Locals
  <2>2. CASE loc[t].stripe < LastStripe
    <3>1. loc[t].stripe + 1 \in Stripes
      BY <2>2, NextStripe DEF TypeInv, TypeOK, Locals
    <3>2. loc' = [loc EXCEPT ![t] = [loc[t] EXCEPT !.stripe = loc[t].stripe + 1]] /\ pc' = pc
      BY <1>13, <2>2 DEF SweepNext
    <3>3. loc' \in [Threads -> Locals]
      BY <3>1, <3>2, UpdateType DEF TypeInv, TypeOK
    <3>4. LocalsOK'
      BY <3>2 DEF TypeInv, TypeOK, LocalsOK, Locals
    <3>5. QED
      BY <1>13, <2>1, <3>2, <3>3, <3>4 DEF SweepNext, TypeInv, TypeOK
  <2>3. CASE ~(loc[t].stripe < LastStripe)
    BY <1>13, <2>1, <2>3 DEF SweepNext, Goto, TypeInv, TypeOK, LocalsOK, Pcs, GetPcs, VictimPcs
  <2>4. QED BY <2>2, <2>3
<1>14. ASSUME NEW t \in Threads, Recheck(t) PROVE TypeInv'
  <2>1. CASE total <= MaxEntries
    BY <1>14, <2>1, ReturnType DEF Recheck, TypeInv, TypeOK, shared
  <2>2. CASE ~(total <= MaxEntries)
    BY <1>14, <2>2 DEF Recheck, Goto, TypeInv, TypeOK, LocalsOK, shared, Pcs, GetPcs, VictimPcs
  <2>3. QED BY <2>1, <2>2
<1>15. ASSUME NEW t \in Threads, LoadProtected(t) PROVE TypeInv'
  <2>1. PICK label \in ScanPcs : StartScan(t, label)
    BY <1>15 DEF LoadProtected, EnterLoops, ScanPcs
  <2>2. QED
    BY <1>15, <2>1, StartScanType DEF LoadProtected, TypeInv, TypeOK, shared
<1>16. ASSUME NEW t \in Threads, Scan(t) PROVE TypeInv'
  <2> DEFINE s == loc[t].stripe
             found == loc[t].cands \cup Candidates(s, pc[t] # "scan_probation")
  <2>1. found \in SUBSET Candidate
    BY CandidatesType DEF TypeInv, TypeOK, Locals
  <2> HIDE DEF found
  <2>2. CASE s < LastStripe
    <3>1. s + 1 \in Stripes
      BY <2>2, NextStripe DEF TypeInv, TypeOK, Locals
    <3>2. /\ loc' = [loc EXCEPT ![t] = [loc[t] EXCEPT !.stripe = s + 1, !.cands = found]]
          /\ pc' = pc /\ ret' = ret
      BY <1>16, <2>2 DEF Scan, found, TypeInv, TypeOK
    <3>3. loc' \in [Threads -> Locals]
      BY <2>1, <3>1, <3>2, UpdateType DEF TypeInv, TypeOK
    <3>4. LocalsOK'
      BY <3>2 DEF TypeInv, TypeOK, LocalsOK, Locals
    <3>5. QED
      BY <1>16, <3>2, <3>3, <3>4 DEF Scan, TypeInv, TypeOK, shared
  <2>3. CASE ~(s < LastStripe)
    <3>1. PICK v \in Keys \cup {EmptyKey} : VictimSelected(t, v)
      BY <1>16, <2>3 DEF Scan, found
    <3>2. pc[t] \in ScanPcs
      BY <1>16 DEF Scan
    <3>3. QED
      BY <1>16, <3>1, <3>2, VictimSelectedType DEF Scan, TypeInv, TypeOK, shared
  <2>4. QED BY <2>2, <2>3
<1>17. ASSUME NEW t \in Threads, DemoteLocked(t) PROVE TypeInv'
  <2> DEFINE v == loc[t].victim
  <2>1. v \in Keys
    BY <1>17 DEF DemoteLocked, VictimPcs, TypeInv, LocalsOK
  <2>2. mu' \in [Stripes -> Threads \cup {NoThread}]
    BY <1>17, <2>1, ConstantsAssumption DEF DemoteLocked, Lock, StripeFor, TypeInv, TypeOK
  <2>3. CASE v \in DOMAIN map /\ map[v].prot
    <3>1. /\ Put(v, Demoted(map[v])) /\ protected' = protected - 1 /\ loc' = loc
          /\ pc' = [pc EXCEPT ![t] = "demote_load_prot"]
      BY <1>17, <2>3 DEF DemoteLocked, Goto
    <3>2. Demoted(map[v]) \in Entry
      BY <2>3, DemotedType DEF TypeInv, TypeOK
    <3>3. LocalsOK' /\ pc' \in [Threads -> Pcs]
      BY <2>1, <3>1 DEF TypeInv, TypeOK, LocalsOK, GetPcs, VictimPcs, Pcs, LockedPcs
    <3>4. /\ DOMAIN map' \subseteq Keys
          /\ map' = [j \in DOMAIN map' |-> map'[j]]
          /\ \A j \in DOMAIN map' : map'[j] \in Entry
      BY <2>1, <3>1, <3>2, PutType DEF TypeInv
    <3>5. QED
      BY <1>17, <2>2, <3>1, <3>3, <3>4 DEF DemoteLocked, TypeInv, TypeOK
  <2>4. CASE ~(v \in DOMAIN map /\ map[v].prot)
    <3>1. /\ map' = map /\ protected' = protected
          /\ pc' = [pc EXCEPT ![t] = "demote_load_total"]
          /\ loc' = [loc EXCEPT ![t] = [loc[t] EXCEPT !.protSeen = protected]]
      BY <1>17, <2>4 DEF DemoteLocked, Goto
    <3>2. loc' \in [Threads -> Locals] /\ pc' \in [Threads -> Pcs]
      BY <3>1, UpdateType DEF TypeInv, TypeOK, Pcs, LockedPcs
    <3>3. LocalsOK'
      BY <2>1, <3>1 DEF TypeInv, TypeOK, LocalsOK, Locals, GetPcs, VictimPcs
    <3>4. QED
      BY <1>17, <2>2, <3>1, <3>2, <3>3 DEF DemoteLocked, TypeInv, TypeOK
  <2>5. QED BY <2>3, <2>4
<1>18. ASSUME NEW t \in Threads, DemoteLoadProtected(t) PROVE TypeInv'
  <2>1. /\ loc' = [loc EXCEPT ![t] = [loc[t] EXCEPT !.protSeen = protected]]
        /\ pc' = [pc EXCEPT ![t] = "demote_load_total"]
        /\ pc[t] = "demote_load_prot"
    BY <1>18 DEF DemoteLoadProtected, Goto
  <2>2. loc' \in [Threads -> Locals] /\ pc' \in [Threads -> Pcs]
    BY <2>1, UpdateType DEF TypeInv, TypeOK, Pcs, LockedPcs
  <2>3. LocalsOK'
    BY <2>1 DEF TypeInv, TypeOK, LocalsOK, Locals, GetPcs, VictimPcs
  <2>4. QED
    BY <1>18, <2>1, <2>2, <2>3 DEF DemoteLoadProtected, TypeInv, TypeOK, shared
<1>19. ASSUME NEW t \in Threads, DemoteLoadTotal(t) PROVE TypeInv'
  <2>1. mu' \in [Stripes -> Threads \cup {NoThread}]
    <3>1. loc[t].victim \in Keys
      BY <1>19 DEF DemoteLoadTotal, VictimPcs, TypeInv, LocalsOK
    <3>2. QED
      BY <1>19, <3>1, ConstantsAssumption DEF DemoteLoadTotal, Unlock, StripeFor, TypeInv, TypeOK
  <2>2. CASE total > MaxEntries
    <3>1. PICK label \in ScanPcs : StartScan(t, label)
      BY <1>19, <2>2 DEF DemoteLoadTotal, TestLoops, EnterLoops, ScanPcs
    <3>2. QED
      BY <1>19, <2>1, <3>1, StartScanType DEF DemoteLoadTotal, TypeInv, TypeOK
  <2>3. CASE ~(total > MaxEntries)
    BY <1>19, <2>1, <2>3, ReturnType DEF DemoteLoadTotal, TestLoops, TypeInv, TypeOK
  <2>4. QED BY <2>2, <2>3
<1>20. ASSUME NEW t \in Threads, EvictLocked(t) PROVE TypeInv'
  <2> DEFINE v == loc[t].victim
  <2>1. v \in Keys
    BY <1>20 DEF EvictLocked, VictimPcs, TypeInv, LocalsOK
  <2>2. CASE v \notin DOMAIN map
    <3>1. TestEvictLoop(t) /\ UNCHANGED shared
      BY <1>20, <2>2 DEF EvictLocked
    <3>2. QED
      BY <1>20, <3>1, TestEvictLoopType DEF EvictLocked, TypeInv, TypeOK, shared
  <2>3. CASE v \in DOMAIN map
    <3>1. mu' \in [Stripes -> Threads \cup {NoThread}]
      BY <1>20, <2>1, <2>3, ConstantsAssumption DEF EvictLocked, Lock, StripeFor, TypeInv, TypeOK
    <3>2. CASE map[v].prot
      <4>1. /\ protected' = protected - 1 /\ pc' = [pc EXCEPT ![t] = "evict_erase"]
            /\ map' = map /\ total' = total /\ loc' = loc /\ ret' = ret
        BY <1>20, <2>3, <3>2 DEF EvictLocked, Goto
      <4>2. QED
        BY <1>20, <2>1, <3>1, <4>1
        DEF EvictLocked, TypeInv, TypeOK, LocalsOK, GetPcs, VictimPcs, Pcs, LockedPcs
    <3>3. CASE ~map[v].prot
      <4>1. /\ Erase(v) /\ pc' = [pc EXCEPT ![t] = "evict_load"]
            /\ protected' = protected /\ loc' = loc /\ ret' = ret
        BY <1>20, <2>3, <3>3 DEF EvictLocked, Goto
      <4>2. LocalsOK' /\ pc' \in [Threads -> Pcs]
        BY <2>1, <4>1 DEF TypeInv, TypeOK, LocalsOK, GetPcs, VictimPcs, Pcs, LockedPcs
      <4>3. QED
        BY <1>20, <3>1, <4>1, <4>2, EraseType DEF EvictLocked, TypeInv, TypeOK
    <3>4. QED BY <3>2, <3>3
  <2>4. QED BY <2>2, <2>3
<1>21. ASSUME NEW t \in Threads, EvictErase(t) PROVE TypeInv'
  <2>1. /\ Erase(loc[t].victim) /\ pc' = [pc EXCEPT ![t] = "evict_load"] /\ loc' = loc
        /\ pc[t] = "evict_erase"
    BY <1>21 DEF EvictErase, Goto
  <2>2. LocalsOK' /\ pc' \in [Threads -> Pcs]
    BY <2>1 DEF TypeInv, TypeOK, LocalsOK, GetPcs, VictimPcs, Pcs, LockedPcs
  <2>3. QED
    BY <1>21, <2>1, <2>2, EraseType DEF EvictErase, TypeInv, TypeOK
<1>22. ASSUME NEW t \in Threads, EvictLoad(t) PROVE TypeInv'
  <2>1. loc[t].victim \in Keys
    BY <1>22 DEF EvictLoad, VictimPcs, TypeInv, LocalsOK
  <2>2. mu' \in [Stripes -> Threads \cup {NoThread}]
    BY <1>22, <2>1, ConstantsAssumption DEF EvictLoad, Unlock, StripeFor, TypeInv, TypeOK
  <2>3. QED
    BY <1>22, <2>2, TestEvictLoopType DEF EvictLoad, TypeInv, TypeOK
<1>23. QED
  BY <1>1, <1>2, <1>3, <1>4, <1>5, <1>6, <1>7, <1>8, <1>9, <1>10, <1>11, <1>12, <1>13,
     <1>14, <1>15, <1>16, <1>17, <1>18, <1>19, <1>20, <1>21, <1>22
  DEF Next, Call, Step, EnforceCapacity, Done

\* The types hold of a new store.
LEMMA InitType == Init => TypeInv
  BY NoLocalsType, ConstantsAssumption
  DEF Init, TypeInv, TypeOK, LocalsOK, Pcs, GetPcs, VictimPcs

\* The types hold throughout.
LEMMA TypeInvariant == Spec => []TypeInv
  BY InitType, TypeStep, PTL DEF Spec

\* Every variable keeps its type: the tables hold well-formed entries under
\* keys of the store, the locks are held by threads or by nobody.
THEOREM Typing == Spec => []TypeOK
  BY TypeInvariant, PTL DEF TypeInv

-----------------------------------------------------------------------------
\* Locks

\* The key whose stripe a thread has locked.
HeldKey(t) == IF pc[t] = "get_erase" THEN loc[t].key ELSE loc[t].victim

\* A thread owns the stripe of the key it is working on, and the entry it is
\* about to erase, for which it has already lowered the protected counter, is
\* still there and still protected.
LockInv ==
    \A t \in Threads :
        /\ pc[t] \in LockedPcs => mu[StripeFor(HeldKey(t))] = t
        /\ pc[t] = "sweep_erase" => StripeFor(loc[t].victim) = loc[t].stripe
        /\ pc[t] \in ErasePcs => HeldKey(t) \in DOMAIN map /\ map[HeldKey(t)].prot

-----------------------------------------------------------------------------
\* What a step of one thread leaves alone

\* The test of the eviction loop: over the limit a thread scans, otherwise it is done.
LEMMA TestEvictLoopFrame ==
  ASSUME TypeInv, NEW t \in Threads, TestEvictLoop(t)
  PROVE  /\ \A u \in Threads \ {t} : pc'[u] = pc[u] /\ loc'[u] = loc[u]
         /\ pc'[t] \in {"idle", "scan_probation"}
         /\ total > MaxEntries => pc'[t] = "scan_probation" /\ loc'[t].stripe = 1 /\ loc'[t].cands = {}
<1>1. CASE total > MaxEntries
  <2>1. StartScan(t, "scan_probation") /\ "scan_probation" \in ScanPcs
    BY <1>1 DEF TestEvictLoop, ScanPcs
  <2>2. QED BY <2>1, StartScanType
<1>2. CASE ~(total > MaxEntries)
  BY <1>2, ReturnType DEF TestEvictLoop
<1>3. QED BY <1>1, <1>2

\* On entering the loops a thread is done or scans one of the segments.
LEMMA EnterLoopsFrame ==
  ASSUME TypeInv, NEW t \in Threads, NEW p, EnterLoops(t, p)
  PROVE  /\ \A u \in Threads \ {t} : pc'[u] = pc[u] /\ loc'[u] = loc[u]
         /\ pc'[t] \in {"scan_demote", "scan_probation"}
         /\ loc'[t].stripe = 1 /\ loc'[t].cands = {}
<1>1. PICK label \in {"scan_demote", "scan_probation"} : StartScan(t, label)
  BY DEF EnterLoops
<1>2. label \in ScanPcs
  BY DEF ScanPcs
<1>3. QED BY <1>1, <1>2, StartScanType

\* What follows a scan: the victim is locked, or the next segment scanned, or
\* the thread gives up after finding both segments empty.
LEMMA VictimSelectedFrame ==
  ASSUME TypeInv, NEW t \in Threads, NEW v \in Keys \cup {EmptyKey}, pc[t] \in ScanPcs,
         VictimSelected(t, v)
  PROVE  /\ \A u \in Threads \ {t} : pc'[u] = pc[u] /\ loc'[u] = loc[u]
         /\ v # EmptyKey => pc'[t] \in {"demote_lock", "evict_lock"}
         /\ v = EmptyKey =>
              \/ pc[t] = "scan_demote" /\ pc'[t] = "scan_probation" /\ loc'[t].stripe = 1 /\ loc'[t].cands = {}
              \/ pc[t] = "scan_probation" /\ pc'[t] = "scan_protected" /\ loc'[t].stripe = 1 /\ loc'[t].cands = {}
              \/ pc[t] = "scan_protected" /\ pc'[t] = "idle"
<1>1. CASE v # EmptyKey
  BY <1>1, VictimSelectedType DEF VictimSelected, Goto, TypeInv, TypeOK
<1>2. CASE v = EmptyKey
  <2>1. \/ pc[t] = "scan_demote" /\ StartScan(t, "scan_probation")
        \/ pc[t] = "scan_probation" /\ StartScan(t, "scan_protected")
        \/ pc[t] = "scan_protected" /\ Return(t, NoResult)
    BY <1>2 DEF VictimSelected, ScanPcs
  <2>2. "scan_probation" \in ScanPcs /\ "scan_protected" \in ScanPcs
    BY DEF ScanPcs
  <2>3. QED
    BY <1>2, <2>1, <2>2, StartScanType, ReturnType
<1>3. QED BY <1>1, <1>2

\* A step of t changes neither the control nor the locals of another thread.
LEMMA OthersUnchanged ==
  ASSUME TypeInv, NEW t \in Threads, Call(t) \/ Step(t)
  PROVE  \A u \in Threads \ {t} : pc'[u] = pc[u] /\ loc'[u] = loc[u]
<1>1. CASE Call(t)
  BY <1>1 DEF Call, CallGet, CallSet, Goto, TypeInv, TypeOK
<1>2. CASE GetCheck(t)
  BY <1>2, ReturnType DEF GetCheck, Goto, TypeInv, TypeOK
<1>3. CASE GetLocked(t)
  BY <1>3, ReturnType DEF GetLocked, GetMiss, GetExpired, GetHit, Goto, TypeInv, TypeOK, Entry
<1>4. CASE GetErase(t)
  BY <1>4, ReturnType DEF GetErase
<1>5. CASE SetLocked(t)
  BY <1>5, ReturnType DEF SetLocked, Goto, TypeInv, TypeOK
<1>6. CASE EnforceLoad(t) \/ Recheck(t)
  BY <1>6, ReturnType DEF EnforceLoad, Recheck, Goto, TypeInv, TypeOK
<1>7. CASE EnforceNow(t) \/ SweepErase(t) \/ DemoteLoadProtected(t) \/ EvictErase(t)
  BY <1>7 DEF EnforceNow, SweepErase, DemoteLoadProtected, EvictErase, Goto, TypeInv, TypeOK
<1>8. CASE SweepEntry(t) \/ SweepNext(t)
  BY <1>8 DEF SweepEntry, SweepNext, Goto, TypeInv, TypeOK
<1>9. CASE LoadProtected(t)
  BY <1>9, EnterLoopsFrame DEF LoadProtected
<1>10. CASE Scan(t)
  <2>1. CASE loc[t].stripe < LastStripe
    BY <1>10, <2>1 DEF Scan, TypeInv, TypeOK
  <2>2. CASE ~(loc[t].stripe < LastStripe)
    BY <1>10, <2>2, VictimSelectedFrame DEF Scan
  <2>3. QED BY <2>1, <2>2
<1>11. CASE DemoteLocked(t)
  BY <1>11 DEF DemoteLocked, Goto, TypeInv, TypeOK
<1>12. CASE DemoteLoadTotal(t)
  BY <1>12, EnterLoopsFrame, ReturnType DEF DemoteLoadTotal, TestLoops
<1>13. CASE EvictLocked(t)
  BY <1>13, TestEvictLoopFrame DEF EvictLocked, Goto, TypeInv, TypeOK
<1>14. CASE EvictLoad(t)
  BY <1>14, TestEvictLoopFrame DEF EvictLoad
<1>15. QED
  BY <1>1, <1>2, <1>3, <1>4, <1>5, <1>6, <1>7, <1>8, <1>9, <1>10, <1>11, <1>12, <1>13, <1>14
  DEF Step, EnforceCapacity

-----------------------------------------------------------------------------
\* The kinds of step, by what they do to the tables and the counters

\* The thread that works on k has, or takes, the lock of k's stripe.
MayWrite(t, k) == mu[StripeFor(k)] \in {NoThread, t}

NotErasing(t) == pc[t] \notin ErasePcs /\ pc'[t] \notin ErasePcs

Keeps(t) == NotErasing(t) /\ UNCHANGED <<map, total, protected>>

\* A protected entry leaves the protected count; its erasure will follow.
Marks(t, k) ==
    /\ k \in DOMAIN map /\ map[k].prot /\ MayWrite(t, k)
    /\ pc[t] \notin ErasePcs /\ pc'[t] \in ErasePcs /\ HeldKey(t)' = k
    /\ protected' = protected - 1 /\ UNCHANGED <<map, total>>

Finishes(t) ==
    /\ pc[t] \in ErasePcs /\ pc'[t] \notin ErasePcs
    /\ Erase(HeldKey(t)) /\ UNCHANGED protected

Drops(t, k) ==
    /\ k \in DOMAIN map /\ ~map[k].prot /\ MayWrite(t, k)
    /\ NotErasing(t) /\ Erase(k) /\ UNCHANGED protected

Touches(t, k, e) ==
    /\ k \in DOMAIN map /\ MayWrite(t, k) /\ NotErasing(t)
    /\ e \in Entry /\ (map[k].prot => e.prot) /\ Put(k, e)
    /\ protected' = IF ~map[k].prot /\ e.prot THEN protected + 1 ELSE protected
    /\ UNCHANGED total

Inserts(t, k, e) ==
    /\ k \in Keys \ DOMAIN map /\ MayWrite(t, k) /\ NotErasing(t)
    /\ e \in Entry /\ ~e.prot /\ Put(k, e)
    /\ MaxEntries > 0 => pc'[t] = "enf_load"
    /\ total' = total + 1 /\ UNCHANGED protected

Demotes(t, k, e) ==
    /\ k \in DOMAIN map /\ map[k].prot /\ MayWrite(t, k) /\ NotErasing(t)
    /\ e \in Entry /\ ~e.prot /\ Put(k, e) /\ pc'[t] = "demote_load_prot"
    /\ protected' = protected - 1 /\ UNCHANGED total

Effect(t) ==
    \/ Keeps(t) \/ Finishes(t)
    \/ \E k \in Keys : Marks(t, k) \/ Drops(t, k)
    \/ \E k \in Keys : \E e : Touches(t, k, e) \/ Inserts(t, k, e) \/ Demotes(t, k, e)

\* Every step of a call is of one of these kinds.
LEMMA EveryEffect ==
  ASSUME TypeInv, NEW t \in Threads, Call(t) \/ Step(t)
  PROVE  Effect(t)
<1> USE DEF ErasePcs
<1>1. CASE Call(t)
  <2>1. Keeps(t)
    BY <1>1 DEF Call, CallGet, CallSet, Goto, TypeInv, TypeOK, Keeps, NotErasing, shared
  <2>2. QED BY <2>1 DEF Effect
<1>2. CASE GetCheck(t)
  <2>1. Keeps(t)
    BY <1>2, ReturnType DEF GetCheck, Goto, TypeInv, TypeOK, Keeps, NotErasing, shared
  <2>2. QED BY <2>1 DEF Effect
<1>3. CASE GetLocked(t)
  <2> DEFINE k == loc[t].key
  <2>1. k \in Keys /\ MayWrite(t, k) /\ pc[t] = "get_lock"
    BY <1>3 DEF GetLocked, GetPcs, TypeInv, LocalsOK, MayWrite
  <2>2. CASE GetMiss(t)
    <3>1. Keeps(t)
      BY <2>1, <2>2, ReturnType DEF GetMiss, Keeps, NotErasing, shared
    <3>2. QED BY <3>1 DEF Effect
  <2>3. CASE GetExpired(t) /\ map[k].prot
    <3>1. pc'[t] = "get_erase" /\ loc' = loc
      BY <2>3 DEF GetExpired, Goto, TypeInv, TypeOK
    <3>2. HeldKey(t)' = k
      BY <3>1 DEF HeldKey
    <3>3. Marks(t, k)
      BY <2>1, <2>3, <3>1, <3>2 DEF GetExpired, Marks
    <3>4. QED BY <2>1, <3>3 DEF Effect
  <2>4. CASE GetExpired(t) /\ ~map[k].prot
    <3>1. Drops(t, k)
      BY <2>1, <2>4, ReturnType DEF GetExpired, Drops, NotErasing
    <3>2. QED BY <2>1, <3>1 DEF Effect
  <2>5. CASE GetHit(t)
    <3> DEFINE e == TouchEntry(map[k], clock)
    <3>1. k \in DOMAIN map /\ map[k] \in Entry /\ map[k].value \in Values /\ clock \in Nat
      BY <2>5 DEF GetHit, TypeInv, TypeOK, Entry
    <3>2. e \in Entry /\ (map[k].prot => e.prot) /\ e.prot = (map[k].prot \/ Promotes(map[k]))
      BY <3>1, TouchType
    <3>3. NotErasing(t)
      BY <2>1, <2>5, <3>1, ReturnType DEF GetHit, NotErasing
    <3>4. Put(k, e) /\ total' = total
          /\ protected' = IF Promotes(map[k]) THEN protected + 1 ELSE protected
      BY <2>5 DEF GetHit
    <3>5. Promotes(map[k]) <=> (~map[k].prot /\ e.prot)
      BY <3>2 DEF Promotes
    <3> HIDE DEF e
    <3>6. Touches(t, k, e)
      BY <2>1, <3>1, <3>2, <3>3, <3>4, <3>5 DEF Touches
    <3>7. QED BY <2>1, <3>6 DEF Effect
  <2>6. QED BY <1>3, <2>2, <2>3, <2>4, <2>5 DEF GetLocked
<1>4. CASE GetErase(t)
  <2>1. Finishes(t)
    BY <1>4, ReturnType DEF GetErase, Finishes, HeldKey
  <2>2. QED BY <2>1 DEF Effect
<1>5. CASE SetLocked(t)
  <2> DEFINE k == loc[t].key
  <2>1. /\ k \in Keys /\ MayWrite(t, k) /\ pc[t] = "set_lock"
        /\ loc[t].value \in Values /\ loc[t].expires \in Nat \cup {Never} /\ loc[t].now \in Nat
    BY <1>5 DEF SetLocked, TypeInv, TypeOK, LocalsOK, Locals, MayWrite
  <2>2. pc'[t] \in {"idle", "enf_load"} /\ (MaxEntries > 0 => pc'[t] = "enf_load")
    BY <1>5, ReturnType DEF SetLocked, Goto, TypeInv, TypeOK
  <2>3. NotErasing(t)
    BY <2>1, <2>2 DEF NotErasing
  <2>4. CASE SetExisting(t)
    <3> DEFINE d == [map[k] EXCEPT !.value = loc[t].value, !.expires = loc[t].expires]
               e == TouchEntry(d, loc[t].now)
    <3>1. k \in DOMAIN map /\ map[k] \in Entry
      BY <2>4 DEF SetExisting, TypeInv, TypeOK
    <3>2. d \in Entry /\ d.prot = map[k].prot /\ d.lfu = map[k].lfu
      BY <2>1, <3>1 DEF Entry
    <3>3. Promotes(d) = Promotes(map[k])
      BY <3>2 DEF Promotes, NextLfu
    <3>4. Put(k, e) /\ total' = total
          /\ protected' = IF Promotes(map[k]) THEN protected + 1 ELSE protected
      BY <2>4 DEF SetExisting
    <3> HIDE DEF d
    <3>5. e \in Entry /\ (d.prot => e.prot) /\ e.prot = (d.prot \/ Promotes(d))
      BY <2>1, <3>2, TouchType
    <3>6. Promotes(map[k]) <=> (~map[k].prot /\ e.prot)
      BY <3>2, <3>3, <3>5 DEF Promotes
    <3> HIDE DEF e
    <3>7. Touches(t, k, e)
      BY <2>1, <2>3, <3>1, <3>2, <3>4, <3>5, <3>6 DEF Touches
    <3>8. QED BY <2>1, <3>7 DEF Effect
  <2>5. CASE SetNew(t)
    <3> DEFINE e == [value |-> loc[t].value, expires |-> loc[t].expires, lfu |-> 1,
                     touch |-> loc[t].now, prot |-> FALSE]
    <3>1. e \in Entry /\ ~e.prot
      BY <2>1, ConstantsAssumption DEF Entry
    <3>2. Put(k, e) /\ total' = total + 1 /\ protected' = protected /\ k \notin DOMAIN map
      BY <2>5 DEF SetNew
    <3> HIDE DEF e
    <3>3. Inserts(t, k, e)
      BY <2>1, <2>2, <2>3, <3>1, <3>2 DEF Inserts
    <3>4. QED BY <2>1, <3>3 DEF Effect
  <2>6. QED BY <1>5, <2>4, <2>5 DEF SetLocked
<1>6. CASE EnforceLoad(t) \/ Recheck(t)
  <2>1. Keeps(t)
    BY <1>6, ReturnType DEF EnforceLoad, Recheck, Goto, TypeInv, TypeOK, Keeps, NotErasing, shared
  <2>2. QED BY <2>1 DEF Effect
<1>7. CASE EnforceNow(t) \/ DemoteLoadProtected(t)
  <2>1. Keeps(t)
    BY <1>7 DEF EnforceNow, DemoteLoadProtected, Goto, TypeInv, TypeOK, Keeps, NotErasing, shared
  <2>2. QED BY <2>1 DEF Effect
<1>8. CASE SweepErase(t) \/ EvictErase(t)
  <2>1. Finishes(t)
    BY <1>8 DEF SweepErase, EvictErase, Finishes, HeldKey, Goto, TypeInv, TypeOK
  <2>2. QED BY <2>1 DEF Effect
<1>9. CASE SweepEntry(t)
  <2>1. PICK k \in ExpiredIn(loc[t].stripe, loc[t].now) :
          IF map[k].prot
            THEN /\ protected' = protected - 1
                 /\ Goto(t, "sweep_erase")
                 /\ loc' = [loc EXCEPT ![t].victim = k]
                 /\ UNCHANGED <<map, total>>
            ELSE Erase(k) /\ UNCHANGED <<protected, pc, loc>>
    BY <1>9 DEF SweepEntry
  <2>2. k \in Keys /\ k \in DOMAIN map /\ MayWrite(t, k) /\ pc[t] = "sweep"
    BY <1>9 DEF SweepEntry, SweepHolds, ExpiredIn, MayWrite, TypeInv, TypeOK
  <2>3. CASE map[k].prot
    <3>1. pc'[t] = "sweep_erase" /\ loc'[t].victim = k
      BY <2>1, <2>3 DEF Goto, TypeInv, TypeOK, Locals
    <3>2. HeldKey(t)' = k
      BY <3>1 DEF HeldKey
    <3>3. Marks(t, k)
      BY <2>1, <2>2, <2>3, <3>1, <3>2 DEF Marks
    <3>4. QED BY <2>2, <3>3 DEF Effect
  <2>4. CASE ~map[k].prot
    <3>1. Drops(t, k)
      BY <2>1, <2>2, <2>4 DEF Drops, NotErasing
    <3>2. QED BY <2>2, <3>1 DEF Effect
  <2>5. QED BY <2>3, <2>4
<1>10. CASE SweepNext(t)
  <2>1. Keeps(t)
    BY <1>10 DEF SweepNext, Goto, TypeInv, TypeOK, Keeps, NotErasing
  <2>2. QED BY <2>1 DEF Effect
<1>11. CASE LoadProtected(t)
  <2>1. Keeps(t)
    BY <1>11, EnterLoopsFrame DEF LoadProtected, Keeps, NotErasing, shared
  <2>2. QED BY <2>1 DEF Effect
<1>12. CASE Scan(t)
  <2>1. pc[t] \in ScanPcs /\ UNCHANGED <<map, total, protected>>
    BY <1>12 DEF Scan, shared
  <2>2. CASE loc[t].stripe < LastStripe
    <3>1. pc' = pc
      BY <1>12, <2>2 DEF Scan
    <3>2. QED BY <2>1, <3>1 DEF Keeps, NotErasing, ScanPcs, Effect
  <2>3. CASE ~(loc[t].stripe < LastStripe)
    <3>1. PICK v \in Keys \cup {EmptyKey} : VictimSelected(t, v)
      BY <1>12, <2>3 DEF Scan
    <3>2. NotErasing(t)
      BY <2>1, <3>1, VictimSelectedFrame DEF NotErasing, ScanPcs
    <3>3. QED BY <2>1, <3>2 DEF Keeps, Effect
  <2>4. QED BY <2>2, <2>3
<1>13. CASE DemoteLocked(t)
  <2> DEFINE v == loc[t].victim
  <2>1. v \in Keys /\ MayWrite(t, v) /\ pc[t] = "demote_lock" /\ total' = total
    BY <1>13 DEF DemoteLocked, VictimPcs, TypeInv, LocalsOK, MayWrite
  <2>2. CASE v \in DOMAIN map /\ map[v].prot
    <3>1. Put(v, Demoted(map[v])) /\ protected' = protected - 1 /\ pc'[t] = "demote_load_prot"
      BY <1>13, <2>2 DEF DemoteLocked, Goto, TypeInv, TypeOK
    <3>2. Demoted(map[v]) \in Entry /\ ~Demoted(map[v]).prot
      BY <2>2, DemotedType DEF TypeInv, TypeOK
    <3>3. Demotes(t, v, Demoted(map[v]))
      BY <2>1, <2>2, <3>1, <3>2 DEF Demotes, NotErasing
    <3>4. QED BY <2>1, <3>3 DEF Effect
  <2>3. CASE ~(v \in DOMAIN map /\ map[v].prot)
    <3>1. map' = map /\ protected' = protected /\ pc'[t] = "demote_load_total"
      BY <1>13, <2>3 DEF DemoteLocked, Goto, TypeInv, TypeOK
    <3>2. QED BY <2>1, <3>1 DEF Keeps, NotErasing, Effect
  <2>4. QED BY <2>2, <2>3
<1>14. CASE DemoteLoadTotal(t)
  <2>1. Keeps(t)
    BY <1>14, EnterLoopsFrame, ReturnType DEF DemoteLoadTotal, TestLoops, Keeps, NotErasing
  <2>2. QED BY <2>1 DEF Effect
<1>15. CASE EvictLocked(t)
  <2> DEFINE v == loc[t].victim
  <2>1. v \in Keys /\ MayWrite(t, v) /\ pc[t] = "evict_lock"
    BY <1>15 DEF EvictLocked, VictimPcs, TypeInv, LocalsOK, MayWrite
  <2>2. CASE v \notin DOMAIN map
    <3>1. Keeps(t)
      BY <1>15, <2>1, <2>2, TestEvictLoopFrame DEF EvictLocked, Keeps, NotErasing, shared
    <3>2. QED BY <3>1 DEF Effect
  <2>3. CASE v \in DOMAIN map /\ map[v].prot
    <3>1. /\ protected' = protected - 1 /\ pc'[t] = "evict_erase"
          /\ map' = map /\ total' = total /\ loc' = loc
      BY <1>15, <2>3 DEF EvictLocked, Goto, TypeInv, TypeOK
    <3>2. HeldKey(t)' = v
      BY <3>1 DEF HeldKey
    <3>3. Marks(t, v)
      BY <2>1, <2>3, <3>1, <3>2 DEF Marks
    <3>4. QED BY <2>1, <3>3 DEF Effect
  <2>4. CASE v \in DOMAIN map /\ ~map[v].prot
    <3>1. Erase(v) /\ protected' = protected /\ pc'[t] = "evict_load"
      BY <1>15, <2>4 DEF EvictLocked, Goto, TypeInv, TypeOK
    <3>2. Drops(t, v)
      BY <2>1, <2>4, <3>1 DEF Drops, NotErasing
    <3>3. QED BY <2>1, <3>2 DEF Effect
  <2>5. QED BY <2>2, <2>3, <2>4
<1>16. CASE EvictLoad(t)
  <2>1. Keeps(t)
    BY <1>16, TestEvictLoopFrame DEF EvictLoad, Keeps, NotErasing
  <2>2. QED BY <2>1 DEF Effect
<1>17. QED
  BY <1>1, <1>2, <1>3, <1>4, <1>5, <1>6, <1>7, <1>8, <1>9, <1>10, <1>11, <1>12, <1>13, <1>14,
     <1>15, <1>16
  DEF Step, EnforceCapacity

=============================================================================
