------------------------------- MODULE MCMesh -------------------------------
EXTENDS MeshProofs, TLC

MCMaxOps == (0 :> 2) @@ (1 :> 1) @@ (2 :> 1)
=============================================================================
