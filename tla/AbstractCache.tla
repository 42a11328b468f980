--------------------------- MODULE AbstractCache ---------------------------
(***************************************************************************)
(* What the store promises its callers, without stripes, locks, counters,  *)
(* segments or scans.  A call takes effect in one step between its start   *)
(* and its return; a value is never read at or after its deadline; and an  *)
(* unexpired entry disappears only through an eviction that its thread was *)
(* entitled to: the thread saw the cache over its limit during its own Set *)
(* and has evicted nothing since.                                          *)
(***************************************************************************)
EXTENDS Integers, FiniteSets

CONSTANTS Threads, Keys, Values, Miss, NoResult, Ttls, MaxEntries

Never == -1

VARIABLES
    store,      \* key -> [value, expires], over the keys now present
    clock,
    request,    \* thread -> the call it has begun and that has no effect yet
    entitled,   \* the threads that may evict one entry
    ret         \* thread -> result of its last call

vars == <<store, clock, request, entitled, ret>>

NoRequest == [op |-> "none"]

GetRequest(k) == [op |-> "get", key |-> k]

SetRequest(k, v, d) == [op |-> "set", key |-> k, value |-> v, expires |-> d]

Expired(k) == store[k].expires # Never /\ clock >= store[k].expires

Without(k) == [j \in DOMAIN store \ {k} |-> store[j]]

Init ==
    /\ store = [k \in {} |-> 0]
    /\ clock = 0
    /\ request = [t \in Threads |-> NoRequest]
    /\ entitled = {}
    /\ ret = [t \in Threads |-> NoResult]

Tick == clock' = clock + 1 /\ UNCHANGED <<store, request, entitled, ret>>

Begin(t, r) ==
    /\ request[t] = NoRequest /\ t \notin entitled
    /\ request' = [request EXCEPT ![t] = r]
    /\ ret' = [ret EXCEPT ![t] = NoResult]
    /\ UNCHANGED <<store, clock, entitled>>

\* A read returns the current value, or Miss for a key that is absent or
\* past its deadline; in the second case the entry goes.
Read(t) ==
    /\ request[t].op = "get"
    /\ LET k == request[t].key IN
         \/ /\ k \notin DOMAIN store
            /\ ret' = [ret EXCEPT ![t] = Miss]
            /\ UNCHANGED store
         \/ /\ k \in DOMAIN store /\ Expired(k)
            /\ ret' = [ret EXCEPT ![t] = Miss]
            /\ store' = Without(k)
         \/ /\ k \in DOMAIN store /\ ~Expired(k)
            /\ ret' = [ret EXCEPT ![t] = store[k].value]
            /\ UNCHANGED store
    /\ request' = [request EXCEPT ![t] = NoRequest]
    /\ UNCHANGED <<clock, entitled>>

Write(t) ==
    /\ request[t].op = "set"
    /\ store' = [j \in DOMAIN store \cup {request[t].key} |->
                   IF j = request[t].key
                     THEN [value |-> request[t].value, expires |-> request[t].expires]
                     ELSE store[j]]
    /\ request' = [request EXCEPT ![t] = NoRequest]
    /\ UNCHANGED <<clock, entitled, ret>>

Expire(k) ==
    /\ k \in DOMAIN store /\ Expired(k)
    /\ store' = Without(k)
    /\ UNCHANGED <<clock, request, entitled, ret>>

\* The thread sees the cache over its limit.
Entitle(t) ==
    /\ request[t] = NoRequest /\ t \notin entitled
    /\ MaxEntries > 0 /\ Cardinality(DOMAIN store) > MaxEntries
    /\ entitled' = entitled \cup {t}
    /\ UNCHANGED <<store, clock, request, ret>>

Relinquish(t) ==
    /\ t \in entitled
    /\ entitled' = entitled \ {t}
    /\ UNCHANGED <<store, clock, request, ret>>

Evict(t, k) ==
    /\ t \in entitled /\ k \in DOMAIN store
    /\ store' = Without(k)
    /\ entitled' = entitled \ {t}
    /\ UNCHANGED <<clock, request, ret>>

Next ==
    \/ Tick
    \/ \E k \in Keys : Expire(k)
    \/ \E t \in Threads :
         \/ \E k \in Keys : Begin(t, GetRequest(k)) \/ Evict(t, k)
         \/ \E k \in Keys, v \in Values, ttl \in Ttls :
              Begin(t, SetRequest(k, v, IF ttl = Never THEN Never ELSE clock + ttl))
         \/ Read(t) \/ Write(t) \/ Entitle(t) \/ Relinquish(t)

Spec == Init /\ [][Next]_vars

=============================================================================
