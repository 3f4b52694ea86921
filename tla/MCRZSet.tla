------------------------------- MODULE MCRZSet -------------------------------
EXTENDS RZSet

MCMaxOps == (0 :> 2) @@ (1 :> 2) @@ (2 :> 1)

\* Distinct per server, and with the increments distinct powers of two.
MCAddValue == (0 :> {1}) @@ (1 :> {2}) @@ (2 :> {8})
=============================================================================
