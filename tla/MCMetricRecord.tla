--------------------------- MODULE MCMetricRecord ---------------------------
(***************************************************************************)
(* All pairs of records with additive fields in {0, 1}, two timestamps    *)
(* and one id, and the divisors 0, 2 and a non-number.                    *)
(***************************************************************************)
EXTENDS MetricRecord

CONSTANT NotANumber

MCDivisors == {0, 2, NotANumber}

=============================================================================
