-------------------------- MODULE CoalescingBench --------------------------
(***************************************************************************)
(* MeasureCoalescingBehavior (bench/cache_bench.cpp) on the coalescer.     *)
(*                                                                         *)
(* Each burst has a key and workers of its own; a worker is named as the   *)
(* call of Execute it makes.  The work's hit is counted as the work ends,  *)
(* which nobody can tell apart: the counters are read after the joins.     *)
(***************************************************************************)
EXTENDS RequestCoalescer, Sequences, FiniteSets

CONSTANTS
    Bursts,   \* sequence, burst -> its workers
    KeyOf     \* sequence, burst -> its key

VARIABLES
    enabled,
    burst,           \* the burst under way
    worker,          \* call -> where that worker is
    backend_hits,
    total_requests

bench_vars == <<enabled, burst, worker, backend_hits, total_requests>>

MeasureInit ==
    /\ enabled \in BOOLEAN
    /\ burst = 1 /\ worker = [c \in Calls |-> "unborn"]
    /\ backend_hits = 0 /\ total_requests = 0

Over == burst > Len(Bursts)

\* A worker starts and arrives at start_gate.
Arrive(c) ==
    /\ ~Over /\ c \in Bursts[burst] /\ worker[c] = "unborn"
    /\ worker' = [worker EXCEPT ![c] = "gate"]
    /\ UNCHANGED <<vars, enabled, burst, backend_hits, total_requests>>

\* Mistake: the gate counts the thread that starts the workers, too.
Open_Main == FALSE

\* All of the gate's count have arrived.
Open == \A d \in Bursts[burst] : worker[d] # "unborn"

\* Past the gate.
Pass(c) ==
    /\ worker[c] = "gate" /\ Open
    /\ worker' = [worker EXCEPT ![c] = "request"]
    /\ total_requests' = total_requests + 1
    /\ UNCHANGED <<vars, enabled, burst, backend_hits>>

\* The call of work, or of Execute.
Request(c) ==
    /\ worker[c] = "request"
    /\ IF enabled
         THEN /\ Execute(c, KeyOf[burst], None)
              /\ worker' = [worker EXCEPT ![c] = "wait"]
              /\ UNCHANGED backend_hits
         ELSE /\ backend_hits' = backend_hits + 1
              /\ worker' = [worker EXCEPT ![c] = "done"]
              /\ UNCHANGED vars
    /\ UNCHANGED <<enabled, burst, total_requests>>

\* Execute's later steps; this work never throws.
Proceed(c) ==
    /\ worker[c] = "wait"
    /\ \/ /\ FinishWork(c, "value")
          /\ backend_hits' = backend_hits + 1 /\ UNCHANGED worker
       \/ Erase(c) /\ UNCHANGED <<backend_hits, worker>>
       \/ /\ Get(c)
          /\ worker' = [worker EXCEPT ![c] = "done"] /\ UNCHANGED backend_hits
    /\ UNCHANGED <<enabled, burst, total_requests>>

\* The joins, and the next burst.
JoinAll ==
    /\ ~Over /\ \A c \in Bursts[burst] : worker[c] = "done"
    /\ burst' = burst + 1
    /\ UNCHANGED <<vars, enabled, worker, backend_hits, total_requests>>

Worker(c) == Arrive(c) \/ Pass(c) \/ Request(c) \/ Proceed(c)

Measure == JoinAll \/ \E c \in Calls : Worker(c)

-----------------------------------------------------------------------------
\* Properties

\* The hits of the bursts so far lie between one for each and one for each of
\* their workers, and are the latter without the coalescer.
HitsFit ==
    LET bounded(b) == backend_hits >= b - 1 /\ backend_hits <= total_requests
    IN  /\ bounded(burst)
        /\ Over => total_requests = Cardinality(UNION {Bursts[b] : b \in DOMAIN Bursts})
        /\ Over /\ ~enabled => backend_hits = total_requests

=============================================================================
