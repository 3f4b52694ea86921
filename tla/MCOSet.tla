------------------------------- MODULE MCOSet -------------------------------
EXTENDS OSetProofs, TLC

MCMaxOps == (0 :> 3) @@ (1 :> 2) @@ (2 :> 1)
=============================================================================
