--------------------------- MODULE MCScheduledSends ---------------------------
(* Instances of ScheduledSends for TLC: three sends, two for the violation.  *)
EXTENDS ScheduledSends

CONSTANTS s1, s2, s3
=============================================================================
