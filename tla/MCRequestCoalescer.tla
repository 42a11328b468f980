------------------------ MODULE MCRequestCoalescer ------------------------
(***************************************************************************)
(* The coalescer under callers of any kind, and under the workers of the   *)
(* benchmark.                                                              *)
(***************************************************************************)
EXTENDS CoalescingBench, TLC

CONSTANTS k1, k2, c1, c2, c3, c4

VARIABLE measuring  \* whether this is the benchmark

\* The work for k1 may ask for k2.
Chain == (k1 :> {k2}) @@ (k2 :> {})

MCBursts == <<{c1, c2, c3}, {c4}>>

MCKeyOf == <<k1, k2>>

MCInit == measuring \in BOOLEAN /\ Init /\ MeasureInit /\ (measuring \/ enabled)

\* Callers of any kind, c4 not among them.
Callers ==
    /\ ~measuring /\ Next /\ at'[c4] = "unborn"
    /\ UNCHANGED <<measuring, bench_vars>>

MCNext == Callers \/ (measuring /\ Measure /\ UNCHANGED measuring)

MCFairness ==
    \A c \in Calls :
        /\ WF_<<vars, bench_vars>>(~measuring /\ Step(c) /\ UNCHANGED <<measuring, bench_vars>>)
        /\ WF_<<vars, bench_vars>>(measuring /\ (Worker(c) \/ JoinAll) /\ UNCHANGED measuring)

MCSpec == MCInit /\ [][MCNext]_<<measuring, vars, bench_vars>> /\ MCFairness

\* The measurement comes to its end: nobody stays at the gate, and every worker
\* gets an answer and is joined.  What is counted is sound all the while: every
\* burst costs at least one hit and no worker more than one, so that neither the
\* duplicates nor requests - hits goes below zero; without the coalescer every
\* worker costs one.
MeasurementEnds == []HitsFit /\ (measuring ~> Over)

=============================================================================
