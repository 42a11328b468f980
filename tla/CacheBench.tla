---------------------------- MODULE CacheBench ----------------------------
(***************************************************************************)
(* main of the benchmark (bench/cache_bench.cpp): from its arguments and   *)
(* the scenario matrix to the numbers of its report.                       *)
(*                                                                         *)
(* The store's answers do not reach the report, and a latency is any of    *)
(* Latencies.  Quotients are exact: below 2^63 long double orders unequal  *)
(* ones as they are, and of equal fractions over unequal wholes it may put *)
(* either first.                                                           *)
(***************************************************************************)
EXTENDS ScenarioMatrix

CONSTANTS
    Arguments,   \* what the command line may be: lists of flags with their values
    Documents,   \* what scenario_matrix.json may hold; nothing if it is missing
    Latencies,
    DefaultOps,  \* Config::ops
    NotANumber,
    None

VARIABLES
    args,      \* argv
    document,
    pc,        \* "start", "run", or how main ended
    config,    \* config, with read_ratio in hundredths, and ops_override
    requests,  \* scenario_requests
    counts,    \* read_ops and write_ops
    latencies, \* latencies_ms, in the order the sort brings it to
    report     \* what is written to the output file

bench_vars == <<args, document, pc, config, requests, counts, latencies, report>>

BenchInit ==
    /\ args \in Arguments /\ document \in Documents
    /\ pc = "start"
    /\ config = [ops |-> DefaultOps, key_space |-> 2000, read_ratio |-> 80, override |-> FALSE, end |-> None]
    /\ requests = << >> /\ counts = [read |-> 0, write |-> 0] /\ latencies = << >>
    /\ report = None

Total(numbers) == FoldLeft(+, 0, numbers)

\* One turn of the loop over argv.  A number that is none is an exception that
\* nobody catches; a flag without its value is an unknown argument.
Argument(c, arg) ==
    IF c.end # None THEN c
    ELSE CASE arg.flag = "--help" -> [c EXCEPT !.end = "exit 0"]
           [] arg.flag # "--help" /\ arg.value = None -> [c EXCEPT !.end = "exit 1"]
           [] arg.flag # "--help" /\ arg.value = NotANumber -> [c EXCEPT !.end = "abort"]
           [] arg.flag = "--ops" /\ arg.value \in Nat -> [c EXCEPT !.ops = arg.value, !.override = TRUE]
           [] arg.flag = "--keys" /\ arg.value \in Nat -> [c EXCEPT !.key_space = arg.value]
           [] arg.flag = "--read-ratio" /\ arg.value \in Int -> [c EXCEPT !.read_ratio = arg.value]

ValidConfig(c) == c.key_space # 0 /\ c.read_ratio \in 0 .. 100

\* LoadScenarioMatrix: the requests of scenario_specs, none of them after an error.
LoadScenarioMatrix(default) ==
    LET specs == ParseScenarioMatrix(document, default)
    IN  [i \in DOMAIN specs |-> specs[i].requests]

\* Mistake: the sum wraps around.
SumScenarioRequests_Wraps(weights) == Total(weights) % (MaxSize + 1)

\* The sum, or None when it is no size_t.
SumScenarioRequests(weights) == IF Total(weights) > MaxSize THEN None ELSE Total(weights)

\* The order of fractional_parts, where it is sure.
ComesFirst(weights, ops, i, j) ==
    LET quota(k) == ops * weights[k]
        sum == Total(weights)
    IN  \/ quota(i) % sum > quota(j) % sum
        \/ quota(i) = quota(j) /\ i < j

\* Every outcome the rounding allows.  The tests against more than total_ops
\* never hold: the quotas add up to it.
DistributeScenarioRequests(weights, ops) ==
    LET n == Len(weights)
        sum == Total(weights)
        base == [i \in 1 .. n |-> (ops * weights[i]) \div sum]
        favoured == {S \in SUBSET (1 .. n) :
                       /\ Cardinality(S) = ops - Total(base)
                       /\ \A i \in S, j \in 1 .. n \ S : ~ComesFirst(weights, ops, j, i)}
    IN  IF sum = 0 THEN {[i \in 1 .. n |-> (ops \div n) + (IF i <= ops % n THEN 1 ELSE 0)]}
        ELSE {[i \in 1 .. n |-> base[i] + (IF i \in S THEN 1 ELSE 0)] : S \in favoured}

\* What main makes of its configuration and the matrix.
Schedule(c, weights, sum) ==
    \/ /\ \/ ~ValidConfig(c) \/ weights = << >>
          \/ IF c.override THEN c.ops = 0 ELSE sum \in {None, 0}
       /\ pc' = "exit 1" /\ UNCHANGED <<config, requests>>
    \/ /\ ValidConfig(c) /\ weights # << >> /\ pc' = "run"
       /\ \/ /\ c.override /\ c.ops > 0 /\ config' = c
             /\ requests' \in DistributeScenarioRequests(weights, c.ops)
          \/ /\ ~c.override /\ sum \notin {None, 0}
             /\ config' = [c EXCEPT !.ops = sum] /\ requests' = weights

\* From the arguments to the requests of each scenario.
Plan ==
    LET c == FoldLeft(Argument, config, args)
        weights == LoadScenarioMatrix(c.ops)
    IN  /\ pc = "start"
        /\ \/ c.end # None /\ pc' = c.end /\ UNCHANGED <<config, requests>>
           \/ c.end = None /\ Schedule(c, weights, SumScenarioRequests(weights))
    /\ UNCHANGED <<args, document, counts, latencies, report>>

\* One turn of the loop over the operations.
Operate ==
    /\ pc = "run" /\ Len(latencies) < config.ops
    /\ \E op \in {"read", "write"}, ms \in Latencies :
        /\ config.read_ratio > 0 \/ op = "write"
        /\ config.read_ratio < 100 \/ op = "read"
        /\ counts' = [counts EXCEPT ![op] = @ + 1]
        /\ latencies' = SortSeq(Append(latencies, ms), <)
    /\ UNCHANGED <<args, document, pc, config, requests, report>>

Upper(lower, n) == IF lower + 1 < n - 1 THEN lower + 1 ELSE n - 1

\* Percentile, percent of the way through sorted, in hundredths.
Percentile(sorted, percent) ==
    LET n == Len(sorted)
        idx == percent * (n - 1)
        lower == idx \div 100
        from == sorted[lower + 1]
    IN  100 * from + (sorted[Upper(lower, n) + 1] - from) * (idx % 100)

\* From the percentiles to the output file, which may fail to open.
Report ==
    /\ pc = "run" /\ Len(latencies) = config.ops
    /\ \/ pc' = "exit 1" /\ UNCHANGED report
       \/ /\ pc' = "exit 0"
          /\ report' = [ops_total |-> config.ops, p50 |-> Percentile(latencies, 50),
                        p95 |-> Percentile(latencies, 95), p99 |-> Percentile(latencies, 99),
                        read_ops |-> counts.read, write_ops |-> counts.write,
                        requests |-> requests]
    /\ UNCHANGED <<args, document, config, requests, counts, latencies>>

BenchNext == Plan \/ Operate \/ Report

-----------------------------------------------------------------------------
\* Properties

\* A scenario's share is its quota rounded up or down, so that a scenario never
\* gets fewer requests than a lighter one; with no number on the command line
\* it is what the matrix asks for.
FairShares(weights, sum) ==
    IF config.override /\ sum > 0
      THEN \A i, j \in DOMAIN weights :
             /\ requests[i] * sum < config.ops * weights[i] + sum
             /\ requests[i] * sum > config.ops * weights[i] - sum
             /\ weights[i] > weights[j] => requests[i] >= requests[j]
      ELSE \A i, j \in DOMAIN weights :
             IF config.override THEN requests[i] <= requests[j] + 1 ELSE requests[i] = weights[i]

\* The parts of a report agree with its whole: the scenarios' requests, and the
\* reads and writes, add up to ops_total, and the percentiles lie in order
\* between the fastest and the slowest operation.  The requests are shared out
\* fairly: what a scenario gets is its quota rounded up or down.
ReportAddsUp ==
    /\ pc = "run" =>
        LET weights == LoadScenarioMatrix(IF config.override THEN config.ops ELSE DefaultOps)
        IN  FairShares(weights, Total(weights))
    /\ report # None =>
        /\ Total(report.requests) = report.ops_total
        /\ report.read_ops + report.write_ops = report.ops_total
        /\ report.p50 <= report.p95 /\ report.p95 <= report.p99
        /\ \E ms \in ToSet(latencies) : 100 * ms <= report.p50
        /\ \E ms \in ToSet(latencies) : report.p99 <= 100 * ms

=============================================================================
