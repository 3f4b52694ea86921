------------------------------ MODULE MCRWFList ------------------------------
EXTENDS RWFList

\* a is created at server 0 only, b at server 1 only.
MCCreators == [x \in Elem |-> IF x = "a" THEN {0} ELSE {1}]

MCMaxOps == (0 :> 2) @@ (1 :> 1) @@ (2 :> 1)
=============================================================================
