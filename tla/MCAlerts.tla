------------------------------ MODULE MCAlerts ------------------------------
EXTENDS Alerts
CONSTANTS r1, r2, v1, v2, u1, u2
=============================================================================
