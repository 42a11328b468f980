------------------------ MODULE PrometheusEndpoint ------------------------
(***************************************************************************)
(* PrometheusEndpoint (src/metrics/prometheus_endpoint.cpp): metrics_ as a *)
(* map from names, each operation one section under mutex_.                *)
(*                                                                         *)
(* operator<< prints a double to six significant digits; here it is Digits *)
(* of base Radix, so that a few requests already lose some.                *)
(***************************************************************************)
EXTENDS Integers

CONSTANTS Radix, Digits

SetGauge(metrics, name, value) ==
    [n \in DOMAIN metrics \cup {name} |-> IF n = name THEN value ELSE metrics[n]]

IncrementCounter(metrics, name) ==
    [n \in DOMAIN metrics \cup {name} |->
        IF n # name THEN metrics[n] ELSE IF n \in DOMAIN metrics THEN metrics[n] + 1 ELSE 1]

\* To the nearest number of that many digits, a tie to the even one.
Printed(value) ==
    LET exponent == CHOOSE e \in 0 .. value :
                        value < Radix ^ (Digits + e) /\ (e = 0 \/ value >= Radix ^ (Digits + e - 1))
        unit == Radix ^ exponent
        whole == value \div unit
        up == 2 * (value % unit) > unit \/ (2 * (value % unit) = unit /\ whole % 2 = 1)
    IN  (IF up THEN whole + 1 ELSE whole) * unit

RenderPrometheusMetrics(metrics) == [n \in DOMAIN metrics |-> Printed(metrics[n])]

=============================================================================
