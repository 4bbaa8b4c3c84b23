---------------------------- MODULE MCMetricsPush ----------------------------
(* Model values for MetricsPush.                                           *)
EXTENDS MetricsPush

CONSTANTS s1, s2
=============================================================================
