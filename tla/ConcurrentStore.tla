-------------------------- MODULE ConcurrentStore --------------------------
(***************************************************************************)
(* The striped in-memory store of src/core/concurrent_store.cpp with the   *)
(* segmented LRU/LFU victim choice of src/core/eviction.                   *)
(*                                                                         *)
(* Threads call Get and Set.  One step of the model is one critical        *)
(* section of a stripe's shared_mutex, cut wherever the section touches an *)
(* atomic counter a second time (the lock is then held between the steps), *)
(* or one lock-free access to a counter or to the clock.  The hash table   *)
(* of all stripes is one function map: a key lives in the stripe its hash  *)
(* names and in no other.                                                  *)
(***************************************************************************)
EXTENDS Integers, FiniteSets

CONSTANTS
    Threads,            \* threads that call the store
    NoThread,           \* "nobody holds this lock exclusively"
    Keys,               \* keys, numbered in the order std::string compares
    EmptyKey,           \* the empty string: SelectVictim's "no victim"
    Values,             \* stored values
    Miss,               \* std::nullopt as the result of Get
    NoResult,           \* the call returned nothing, or has not returned
    Ttls,               \* lifetimes callers ask for; Never is std::nullopt
    NumStripes,         \* constructor argument stripes
    StripeIndexForKey,  \* the hash of a key modulo the number of stripes
    MaxEntries,         \* constructor argument max_entries (0: unbounded)
    LfuMax,             \* the largest lfu_count (UINT32_MAX in the code)
    MaxCalls,           \* bound: thread -> the calls it makes
    MaxClock            \* bound: the last tick of the clock

\* expires_at of an entry that has no TTL.
Never == -1

\* The constructor turns a stripe count of 0 into 1.
LastStripe == IF NumStripes = 0 THEN 1 ELSE NumStripes

Stripes == 1 .. LastStripe

\* Mistake: the protected segment may fill the whole store.
ProtectedLimit_Whole == MaxEntries

\* protected_entries_limit_, set by the constructor.
ProtectedLimit ==
    IF MaxEntries = 0 THEN 0
    ELSE IF MaxEntries \div 2 > 1 THEN MaxEntries \div 2 ELSE 1

ASSUME ConstantsAssumption ==
    /\ NoThread \notin Threads
    /\ IsFiniteSet(Threads)
    /\ IsFiniteSet(Keys)
    /\ Keys \subseteq Nat
    /\ EmptyKey \in Nat
    /\ Miss \notin Values
    /\ NoResult \notin Values \cup {Miss}
    /\ Ttls \subseteq Nat \cup {Never}
    /\ NumStripes \in Nat
    /\ StripeIndexForKey \in [Keys -> Stripes]
    /\ MaxEntries \in Nat
    /\ LfuMax \in Nat /\ LfuMax >= 2
    /\ MaxCalls \in [Threads -> Nat]
    /\ MaxClock \in Nat

\* Both callers of the store, the RESP and the gRPC front end, reject an empty
\* key; SelectVictim's result could not be told from "no victim" otherwise.
ASSUME NonEmptyKeys == EmptyKey \notin Keys

VARIABLES
    map,        \* key -> ValueEntry, over the keys now present
    total,      \* total_entries_
    protected,  \* protected_entries_
    mu,         \* stripe -> the thread holding it exclusively, or NoThread
    clock,      \* steady_clock
    pc,         \* thread -> where it is in its call
    loc,        \* thread -> the locals of its call
    ret,        \* thread -> what its last call returned
    calls       \* thread -> number of calls it has started

shared == <<map, total, protected, mu>>

vars == <<map, total, protected, mu, clock, pc, loc, ret, calls>>

-----------------------------------------------------------------------------
\* ValueEntry and the victim choice

Entry == [value : Values, expires : Nat \cup {Never}, lfu : 1 .. LfuMax,
          touch : Nat, prot : BOOLEAN]

\* Mistake: an entry lives through the tick of its deadline.
IsExpired_Late(e, now) == e.expires # Never /\ now > e.expires

IsExpired(e, now) == e.expires # Never /\ now >= e.expires

NextLfu(e) == IF e.lfu < LfuMax THEN e.lfu + 1 ELSE e.lfu

\* TouchEntry promotes an entry that has been used twice.
Promotes(e) == ~e.prot /\ NextLfu(e) >= 2

TouchEntry(e, now) ==
    [value |-> e.value, expires |-> e.expires, lfu |-> NextLfu(e), touch |-> now,
     prot |-> e.prot \/ Promotes(e)]

\* A demoted entry starts again in the probationary segment, as if new.
Demoted(e) ==
    [value |-> e.value, expires |-> e.expires, lfu |-> 1, touch |-> e.touch, prot |-> FALSE]

Candidate == [key : Keys, lfu : 1 .. LfuMax, touch : Nat, prot : BOOLEAN]

\* The entries of one stripe that belong to one segment.
Candidates(s, segment) ==
    { [key |-> k, lfu |-> map[k].lfu, touch |-> map[k].touch, prot |-> map[k].prot] :
        k \in {j \in DOMAIN map : StripeIndexForKey[j] = s /\ map[j].prot = segment} }

\* The lexicographic order of Score: segment, frequency, recency, key.
ScoreLeq(c, d) ==
    \/ ~c.prot /\ d.prot
    \/ /\ c.prot = d.prot
       /\ \/ c.lfu < d.lfu
          \/ /\ c.lfu = d.lfu
             /\ \/ c.touch < d.touch
                \/ c.touch = d.touch /\ c.key <= d.key

\* v is what SelectVictim returns for these candidates.
SelectVictim(v, cands) ==
    IF cands = {} THEN v = EmptyKey
    ELSE \E c \in cands : v = c.key /\ \A d \in cands : ScoreLeq(c, d)

-----------------------------------------------------------------------------
\* Locals and control

GetPcs == {"get_check", "get_lock", "get_erase"}

ScanPcs == {"scan_demote", "scan_probation", "scan_protected"}

\* The program points at which a thread owns a stripe exclusively.
LockedPcs == {"get_erase", "sweep_erase", "demote_load_prot",
              "demote_load_total", "evict_erase", "evict_load"}

Pcs == {"idle", "set_lock", "enf_load", "enf_now", "sweep", "recheck", "load_prot",
        "demote_lock", "evict_lock"} \cup GetPcs \cup ScanPcs \cup LockedPcs

Locals == [key : Keys \cup {EmptyKey}, value : Values \cup {NoResult},
           expires : Nat \cup {Never}, now : Nat, stripe : Stripes,
           cands : SUBSET Candidate, victim : Keys \cup {EmptyKey}, protSeen : Int]

NoLocals == [key |-> EmptyKey, value |-> NoResult, expires |-> Never, now |-> 0,
             stripe |-> 1, cands |-> {}, victim |-> EmptyKey, protSeen |-> 0]

StripeFor(k) == StripeIndexForKey[k]

Goto(t, label) == pc' = [pc EXCEPT ![t] = label]

Return(t, result) ==
    /\ Goto(t, "idle")
    /\ loc' = [loc EXCEPT ![t] = NoLocals]
    /\ ret' = [ret EXCEPT ![t] = result]

Lock(t, s) == mu' = [mu EXCEPT ![s] = t]

Unlock(s) == mu' = [mu EXCEPT ![s] = NoThread]

\* Erase an entry of a locked stripe; no one sees the table before the
\* counter has followed.
Erase(k) ==
    /\ map' = [j \in DOMAIN map \ {k} |-> map[j]]
    /\ total' = total - 1

Put(k, e) == map' = [j \in DOMAIN map \cup {k} |-> IF j = k THEN e ELSE map[j]]

Init ==
    /\ map = [k \in {} |-> 0]
    /\ total = 0
    /\ protected = 0
    /\ mu = [s \in Stripes |-> NoThread]
    /\ clock = 0
    /\ pc = [t \in Threads |-> "idle"]
    /\ loc = [t \in Threads |-> NoLocals]
    /\ ret = [t \in Threads |-> NoResult]
    /\ calls = [t \in Threads |-> 0]

Tick ==
    /\ clock < MaxClock
    /\ clock' = clock + 1
    /\ UNCHANGED <<map, total, protected, mu, pc, loc, ret, calls>>

-----------------------------------------------------------------------------
\* Get

CallGet(t, k) ==
    /\ pc[t] = "idle" /\ calls[t] < MaxCalls[t]
    /\ Goto(t, "get_check")
    /\ loc' = [loc EXCEPT ![t].key = k]
    /\ ret' = [ret EXCEPT ![t] = NoResult]
    /\ calls' = [calls EXCEPT ![t] = @ + 1]
    /\ UNCHANGED <<shared, clock>>

\* The look-up under the shared lock; only a miss decides anything.
GetCheck(t) ==
    /\ pc[t] = "get_check" /\ mu[StripeFor(loc[t].key)] = NoThread
    /\ IF loc[t].key \in DOMAIN map
         THEN Goto(t, "get_lock") /\ UNCHANGED <<loc, ret>>
         ELSE Return(t, Miss)
    /\ UNCHANGED <<shared, clock, calls>>

GetMiss(t) ==
    /\ loc[t].key \notin DOMAIN map
    /\ Return(t, Miss)
    /\ UNCHANGED shared

\* Mistake: an expired protected entry stays in the protected count.
GetExpired_NoCount(t) ==
    LET k == loc[t].key IN
    /\ k \in DOMAIN map /\ IsExpired(map[k], clock)
    /\ Erase(k) /\ Return(t, Miss) /\ UNCHANGED <<protected, mu>>

\* An expired entry: the protected counter is lowered first, then the entry
\* goes and the total follows, all under the lock.
GetExpired(t) ==
    LET k == loc[t].key IN
    /\ k \in DOMAIN map /\ IsExpired(map[k], clock)
    /\ IF map[k].prot
         THEN /\ protected' = protected - 1
              /\ Lock(t, StripeFor(k))
              /\ Goto(t, "get_erase")
              /\ UNCHANGED <<map, total, loc, ret>>
         ELSE Erase(k) /\ Return(t, Miss) /\ UNCHANGED <<protected, mu>>

GetHit(t) ==
    LET k == loc[t].key IN
    /\ k \in DOMAIN map /\ ~IsExpired(map[k], clock)
    /\ Put(k, TouchEntry(map[k], clock))
    /\ protected' = IF Promotes(map[k]) THEN protected + 1 ELSE protected
    /\ Return(t, map[k].value)
    /\ UNCHANGED <<total, mu>>

\* The second look-up, under the exclusive lock.
GetLocked(t) ==
    /\ pc[t] = "get_lock" /\ mu[StripeFor(loc[t].key)] = NoThread
    /\ GetMiss(t) \/ GetExpired(t) \/ GetHit(t)
    /\ UNCHANGED <<clock, calls>>

GetErase(t) ==
    /\ pc[t] = "get_erase"
    /\ Erase(loc[t].key)
    /\ Unlock(StripeFor(loc[t].key))
    /\ Return(t, Miss)
    /\ UNCHANGED <<protected, clock, calls>>

-----------------------------------------------------------------------------
\* Set

\* Set reads the clock before it takes the lock, so the time it will write
\* can be older than the last touch of the entry it finds.
CallSet(t, k, v, ttl) ==
    /\ pc[t] = "idle" /\ calls[t] < MaxCalls[t]
    /\ Goto(t, "set_lock")
    /\ loc' = [loc EXCEPT ![t] =
                 [NoLocals EXCEPT !.key = k, !.value = v, !.now = clock,
                                  !.expires = IF ttl = Never THEN Never ELSE clock + ttl]]
    /\ ret' = [ret EXCEPT ![t] = NoResult]
    /\ calls' = [calls EXCEPT ![t] = @ + 1]
    /\ UNCHANGED <<shared, clock>>

SetExisting(t) ==
    LET k == loc[t].key IN
    /\ k \in DOMAIN map
    /\ Put(k, TouchEntry([map[k] EXCEPT !.value = loc[t].value,
                                        !.expires = loc[t].expires], loc[t].now))
    /\ protected' = IF Promotes(map[k]) THEN protected + 1 ELSE protected
    /\ UNCHANGED total

SetNew(t) ==
    LET k == loc[t].key IN
    /\ k \notin DOMAIN map
    /\ Put(k, [value |-> loc[t].value, expires |-> loc[t].expires, lfu |-> 1,
               touch |-> loc[t].now, prot |-> FALSE])
    /\ total' = total + 1
    /\ UNCHANGED protected

\* Mistake: EnforceCapacity is called before the lock is given up.
SetLocked_Held(t) ==
    /\ pc[t] = "set_lock" /\ mu[StripeFor(loc[t].key)] = NoThread
    /\ SetExisting(t) \/ SetNew(t)
    /\ Lock(t, StripeFor(loc[t].key))
    /\ Goto(t, "enf_load")
    /\ loc' = [loc EXCEPT ![t] = [NoLocals EXCEPT !.key = loc[t].key]]
    /\ UNCHANGED <<clock, ret, calls>>

\* The write under the lock.  EnforceCapacity follows without it; it returns
\* at once when the store is unbounded.
SetLocked(t) ==
    /\ pc[t] = "set_lock" /\ mu[StripeFor(loc[t].key)] = NoThread
    /\ SetExisting(t) \/ SetNew(t)
    /\ IF MaxEntries = 0
         THEN Return(t, NoResult)
         ELSE /\ Goto(t, "enf_load")
              /\ loc' = [loc EXCEPT ![t] = [NoLocals EXCEPT !.key = loc[t].key]]
              /\ UNCHANGED ret
    /\ UNCHANGED <<mu, clock, calls>>

-----------------------------------------------------------------------------
\* EnforceCapacity

\* The first look at the counter, without a lock.
EnforceLoad(t) ==
    /\ pc[t] = "enf_load"
    /\ IF total <= MaxEntries
         THEN Return(t, NoResult)
         ELSE Goto(t, "enf_now") /\ UNCHANGED <<loc, ret>>
    /\ UNCHANGED <<shared, clock, calls>>

EnforceNow(t) ==
    /\ pc[t] = "enf_now"
    /\ Goto(t, "sweep")
    /\ loc' = [loc EXCEPT ![t].now = clock, ![t].stripe = 1]
    /\ UNCHANGED <<shared, clock, ret, calls>>

\* The sweep keeps the stripe locked from its first expired entry to its last.
SweepHolds(t) == mu[loc[t].stripe] \in {NoThread, t}

ExpiredIn(s, now) == {k \in DOMAIN map : StripeFor(k) = s /\ IsExpired(map[k], now)}

\* One expired entry; a protected one first lowers the protected counter.
SweepEntry(t) ==
    /\ pc[t] = "sweep" /\ SweepHolds(t)
    /\ \E k \in ExpiredIn(loc[t].stripe, loc[t].now) :
         IF map[k].prot
           THEN /\ protected' = protected - 1
                /\ Goto(t, "sweep_erase")
                /\ loc' = [loc EXCEPT ![t].victim = k]
                /\ UNCHANGED <<map, total>>
           ELSE Erase(k) /\ UNCHANGED <<protected, pc, loc>>
    /\ Lock(t, loc[t].stripe)
    /\ UNCHANGED <<clock, ret, calls>>

SweepErase(t) ==
    /\ pc[t] = "sweep_erase"
    /\ Erase(loc[t].victim)
    /\ Goto(t, "sweep")
    /\ loc' = [loc EXCEPT ![t].victim = EmptyKey]
    /\ UNCHANGED <<protected, mu, clock, ret, calls>>

\* The stripe has no expired entry left: unlock it and go to the next one.
SweepNext(t) ==
    /\ pc[t] = "sweep" /\ SweepHolds(t)
    /\ ExpiredIn(loc[t].stripe, loc[t].now) = {}
    /\ Unlock(loc[t].stripe)
    /\ IF loc[t].stripe < LastStripe
         THEN loc' = [loc EXCEPT ![t].stripe = @ + 1] /\ UNCHANGED pc
         ELSE Goto(t, "recheck") /\ UNCHANGED loc
    /\ UNCHANGED <<map, total, protected, clock, ret, calls>>

Recheck(t) ==
    /\ pc[t] = "recheck"
    /\ IF total <= MaxEntries
         THEN Return(t, NoResult)
         ELSE Goto(t, "load_prot") /\ UNCHANGED <<loc, ret>>
    /\ UNCHANGED <<shared, clock, calls>>

\* SelectVictimKey starts with no candidates at the first stripe.
StartScan(t, label) ==
    /\ Goto(t, label)
    /\ loc' = [loc EXCEPT ![t] = [NoLocals EXCEPT !.key = loc[t].key]]
    /\ UNCHANGED ret

\* The conditions of the two while loops, on a total that was over the limit.
EnterLoops(t, protSeen) ==
    StartScan(t, IF protSeen > ProtectedLimit THEN "scan_demote" ELSE "scan_probation")

\* The tests of the demotion loop on freshly loaded counters; when the total
\* is no longer over the limit both loops end and EnforceCapacity returns.
TestLoops(t, protSeen) ==
    IF total > MaxEntries THEN EnterLoops(t, protSeen) ELSE Return(t, NoResult)

LoadProtected(t) ==
    /\ pc[t] = "load_prot"
    /\ EnterLoops(t, protected)
    /\ UNCHANGED <<shared, clock, calls>>

\* Mistake: the eviction loop gives up when the probationary segment is empty.
VictimSelected_NoFallback(t, v) ==
    IF v # EmptyKey
      THEN /\ Goto(t, IF pc[t] = "scan_demote" THEN "demote_lock" ELSE "evict_lock")
           /\ loc' = [loc EXCEPT ![t] = [NoLocals EXCEPT !.key = loc[t].key, !.victim = v]]
           /\ UNCHANGED ret
      ELSE IF pc[t] = "scan_demote" THEN StartScan(t, "scan_probation") ELSE Return(t, NoResult)

\* SelectVictimKey returned v.  An empty key ends the demotion loop, makes the
\* eviction loop try the protected segment, and then ends it too.
VictimSelected(t, v) ==
    IF v # EmptyKey
      THEN /\ Goto(t, IF pc[t] = "scan_demote" THEN "demote_lock" ELSE "evict_lock")
           /\ loc' = [loc EXCEPT ![t] = [NoLocals EXCEPT !.key = loc[t].key, !.victim = v]]
           /\ UNCHANGED ret
      ELSE CASE pc[t] = "scan_demote"    -> StartScan(t, "scan_probation")
             [] pc[t] = "scan_probation" -> StartScan(t, "scan_protected")
             [] pc[t] = "scan_protected" -> Return(t, NoResult)

\* SelectVictimKey reads one stripe under its shared lock; after the last one
\* it chooses among what it has collected.
Scan(t) ==
    LET s     == loc[t].stripe
        found == loc[t].cands \cup Candidates(s, pc[t] # "scan_probation")
    IN  /\ pc[t] \in ScanPcs /\ mu[s] = NoThread
        /\ IF s < LastStripe
             THEN /\ loc' = [loc EXCEPT ![t].stripe = s + 1, ![t].cands = found]
                  /\ UNCHANGED <<pc, ret>>
             ELSE \E v \in Keys \cup {EmptyKey} :
                    SelectVictim(v, found) /\ VictimSelected(t, v)
        /\ UNCHANGED <<shared, clock, calls>>

\* Demote the victim, unless it is gone or was demoted since it was chosen.
DemoteLocked(t) ==
    LET v == loc[t].victim IN
    /\ pc[t] = "demote_lock" /\ mu[StripeFor(v)] = NoThread
    /\ Lock(t, StripeFor(v))
    /\ IF v \in DOMAIN map /\ map[v].prot
         THEN /\ Put(v, Demoted(map[v]))
              /\ protected' = protected - 1
              /\ Goto(t, "demote_load_prot")
              /\ UNCHANGED loc
         ELSE /\ Goto(t, "demote_load_total")
              /\ loc' = [loc EXCEPT ![t].protSeen = protected]
              /\ UNCHANGED <<map, protected>>
    /\ UNCHANGED <<total, clock, ret, calls>>

DemoteLoadProtected(t) ==
    /\ pc[t] = "demote_load_prot"
    /\ Goto(t, "demote_load_total")
    /\ loc' = [loc EXCEPT ![t].protSeen = protected]
    /\ UNCHANGED <<shared, clock, ret, calls>>

DemoteLoadTotal(t) ==
    /\ pc[t] = "demote_load_total"
    /\ Unlock(StripeFor(loc[t].victim))
    /\ TestLoops(t, loc[t].protSeen)
    /\ UNCHANGED <<map, total, protected, clock, calls>>

\* Mistake: evict until the store is below its limit.
TestEvictLoop_Below(t) ==
    IF total >= MaxEntries THEN StartScan(t, "scan_probation") ELSE Return(t, NoResult)

\* The test of the eviction loop on a freshly loaded total.
TestEvictLoop(t) ==
    IF total > MaxEntries THEN StartScan(t, "scan_probation") ELSE Return(t, NoResult)

\* Evict the victim in whatever segment it now is, unless it is gone.
EvictLocked(t) ==
    LET v == loc[t].victim IN
    /\ pc[t] = "evict_lock" /\ mu[StripeFor(v)] = NoThread
    /\ \/ /\ v \notin DOMAIN map
          /\ TestEvictLoop(t)
          /\ UNCHANGED shared
       \/ /\ v \in DOMAIN map
          /\ Lock(t, StripeFor(v))
          /\ IF map[v].prot
               THEN protected' = protected - 1 /\ Goto(t, "evict_erase") /\ UNCHANGED <<map, total>>
               ELSE Erase(v) /\ Goto(t, "evict_load") /\ UNCHANGED protected
          /\ UNCHANGED <<loc, ret>>
    /\ UNCHANGED <<clock, calls>>

EvictErase(t) ==
    /\ pc[t] = "evict_erase"
    /\ Erase(loc[t].victim)
    /\ Goto(t, "evict_load")
    /\ UNCHANGED <<protected, mu, clock, loc, ret, calls>>

EvictLoad(t) ==
    /\ pc[t] = "evict_load"
    /\ Unlock(StripeFor(loc[t].victim))
    /\ TestEvictLoop(t)
    /\ UNCHANGED <<map, total, protected, clock, calls>>

EnforceCapacity(t) ==
    \/ EnforceLoad(t) \/ EnforceNow(t)
    \/ SweepEntry(t) \/ SweepErase(t) \/ SweepNext(t)
    \/ Recheck(t) \/ LoadProtected(t) \/ Scan(t)
    \/ DemoteLocked(t) \/ DemoteLoadProtected(t) \/ DemoteLoadTotal(t)
    \/ EvictLocked(t) \/ EvictErase(t) \/ EvictLoad(t)

-----------------------------------------------------------------------------
\* The specification

Call(t) ==
    \/ \E k \in Keys : CallGet(t, k)
    \/ \E k \in Keys, v \in Values, ttl \in Ttls : CallSet(t, k, v, ttl)

\* One step of a call that has begun.
Step(t) == GetCheck(t) \/ GetLocked(t) \/ GetErase(t) \/ SetLocked(t) \/ EnforceCapacity(t)

\* Every thread has made its calls and the clock has stopped.
Done ==
    /\ \A t \in Threads : pc[t] = "idle" /\ calls[t] = MaxCalls[t]
    /\ clock = MaxClock
    /\ UNCHANGED vars

Next == Tick \/ (\E t \in Threads : Call(t) \/ Step(t)) \/ Done

\* The scheduler runs every thread that can take a step.
Fairness == \A t \in Threads : WF_vars(Step(t))

Spec == Init /\ [][Next]_vars

FairSpec == Spec /\ Fairness

-----------------------------------------------------------------------------
\* Properties

\* The threads between a Set's write and the end of its EnforceCapacity.
EnforcingPcs == Pcs \ ({"idle", "set_lock"} \cup GetPcs)

\* The threads that have lowered the protected counter for an entry they are
\* about to erase.
ErasePcs == {"get_erase", "sweep_erase", "evict_erase"}

ProtectedKeys == {k \in DOMAIN map : map[k].prot}

\* The tables, the counters, the locks and what each thread has read stay in
\* their domains; lfu_count stops at its maximum instead of wrapping (TouchEntry).
TypeOK ==
    /\ DOMAIN map \subseteq Keys
    /\ map = [k \in DOMAIN map |-> map[k]]
    /\ \A k \in DOMAIN map : map[k] \in Entry
    /\ total \in Int
    /\ protected \in Int
    /\ mu \in [Stripes -> Threads \cup {NoThread}]
    /\ clock \in Nat
    /\ pc \in [Threads -> Pcs]
    /\ loc \in [Threads -> Locals]
    /\ ret \in [Threads -> Values \cup {Miss, NoResult}]
    /\ calls \in [Threads -> Nat]

\* The two relaxed atomic counters follow the tables exactly, whatever the
\* interleaving of Get's expiry, EnforceCapacity's sweep, demotion, eviction
\* and TouchEntry's promotion: total_entries_ is the number of entries, and
\* protected_entries_ is the number of protected entries less those whose
\* erasure is under way.  In particular no fetch_sub wraps below zero.
CountersExact ==
    /\ total = Cardinality(DOMAIN map)
    /\ protected = Cardinality(ProtectedKeys) - Cardinality({t \in Threads : pc[t] \in ErasePcs})
    /\ protected >= 0

\* A bounded store is within max_entries whenever no thread is inside
\* EnforceCapacity, although a thread may leave its eviction loop through the
\* break of line 115 while the store is still over the limit: whoever made
\* both its scans come back empty is still inside and will look again.
CapacityRestored ==
    (MaxEntries > 0 /\ \A t \in Threads : pc[t] \notin EnforcingPcs)
        => Cardinality(DOMAIN map) <= MaxEntries

\* A step that removes entries.
Removes == DOMAIN map' # DOMAIN map /\ DOMAIN map' \subseteq DOMAIN map

\* A step in which t's eviction loop removes key k.
Evicts(t, k) ==
    /\ pc[t] \in {"evict_lock", "evict_erase"}
    /\ k \in DOMAIN map \ DOMAIN map'

\* Threads that evict on totals they loaded before one another's evictions
\* overshoot, but only by one entry each: without TTLs no eviction leaves
\* fewer than max_entries_ entries, less one for every other thread.
EvictionBounded ==
    [][Ttls = {Never} /\ Removes
         => Cardinality(DOMAIN map') >= MaxEntries - (Cardinality(Threads) - 1)]_vars

\* A thread that has had the store to itself.
Alone(t) == \A u \in Threads \ {t} : calls[u] = 0

\* As long as a store with room for at least two entries has a single caller,
\* the capacity check at the end of Set never evicts the entry the Set has just
\* written, unless the clock has not moved since another entry was touched.
OwnWriteSurvives ==
    [][\A t \in Threads :
         MaxEntries >= 2 /\ Alone(t) /\ Evicts(t, loc[t].key)
           => \E j \in DOMAIN map \ {loc[t].key} : map[j].touch = map[loc[t].key].touch]_vars

\* Every call that has begun returns: no deadlock on the stripe locks, and
\* neither the continue of line 100 nor that of line 122 can spin for ever.
Termination == \A t \in Threads : (pc[t] # "idle") ~> (pc[t] = "idle")

-----------------------------------------------------------------------------
\* What the store promises

\* The threads inside the loops of EnforceCapacity: each has loaded a total
\* over max_entries_ and has evicted nothing since.
EntitledPcs == {"load_prot", "demote_lock", "demote_load_prot", "demote_load_total",
                "evict_lock", "evict_erase"} \cup ScanPcs

Stored == [k \in DOMAIN map |-> [value |-> map[k].value, expires |-> map[k].expires]]

Request(t) ==
    CASE pc[t] \in GetPcs -> [op |-> "get", key |-> loc[t].key]
      [] pc[t] = "set_lock" -> [op |-> "set", key |-> loc[t].key, value |-> loc[t].value,
                                expires |-> loc[t].expires]
      [] OTHER -> [op |-> "none"]

Cache == INSTANCE AbstractCache WITH
    store    <- Stored,
    request  <- [t \in Threads |-> Request(t)],
    entitled <- {t \in Threads : pc[t] \in EntitledPcs}

\* The store implements the abstract cache: Get and Set are linearizable, no
\* Get returns an expired or an overwritten value even when the entry changes
\* between its shared and its exclusive look-up, and EnforceCapacity removes
\* unexpired entries only on the strength of a total it loaded over the limit,
\* one entry per load.
ImplementsCache == Cache!Spec

=============================================================================
