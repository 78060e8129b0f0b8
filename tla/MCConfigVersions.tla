--------------------------- MODULE MCConfigVersions --------------------------
(* Administrators who save either of two sections or activate a version.    *)
EXTENDS ConfigVersions
CONSTANTS s1, s2, s3
=============================================================================
