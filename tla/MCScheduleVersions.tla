------------------------ MODULE MCScheduleVersions ------------------------
(* Small instances of ScheduleVersions for TLC: the sessions are model     *)
(* values. Sets of them are given in the configurations; no symmetry is    *)
(* declared, since the concurrent run checks a liveness property.          *)
EXTENDS ScheduleVersions

CONSTANTS s1, s2, s3
=============================================================================
