----------------------------- MODULE MCWorkload -----------------------------
EXTENDS WorkloadProofs

CONSTANTS t1, t2, t3
=============================================================================
