---------------------------- MODULE MCReplanning ----------------------------
EXTENDS Replanning
CONSTANTS o1, o2, m1, m2
=============================================================================
