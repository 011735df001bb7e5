----------------------------- MODULE MCStartUp ------------------------------
(* An instance of StartUp for TLC: a sample of two models, a third name that *)
(* has the slug of the first one's second key, and samples of two versions.   *)
EXTENDS StartUp, TLC

CONSTANTS pump, pumpTwo, compressor

SlugOf == [name \in Names |-> IF name = pump THEN <<100>> ELSE IF name = pumpTwo THEN <<100, 2>> ELSE <<200>>]
TwoModels == <<pump, compressor>>

\* Version 1 degraded in production, then version 2: in staging, and at the very
\* thresholds in production.
TwoVersions ==
  {Metric(<<100>>, "1.0.0", "PRODUCTION", 1, 9899, 3, 30), Metric(<<100>>, "1.0.0", "PRODUCTION", 2, 9900, 4, 30),
   Metric(<<100>>, "1.0.0", "PRODUCTION", 3, 9950, 1, 31), Metric(<<100>>, "2.0.0", "STAGING", 4, 9900, 9, 30),
   Metric(<<100>>, "2.0.0", "PRODUCTION", 5, 9900, 3, 30)}
=============================================================================
