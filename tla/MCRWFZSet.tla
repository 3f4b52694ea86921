------------------------------ MODULE MCRWFZSet ------------------------------
EXTENDS RWFZSet, TLC

MCMaxOps == (0 :> 3) @@ (1 :> 1) @@ (2 :> 1)
=============================================================================
