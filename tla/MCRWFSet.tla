------------------------------ MODULE MCRWFSet ------------------------------
EXTENDS RWFSetProofs, TLC

\* Enough for an add, a remove and an add again at one server, concurrent with
\* a remove and an add at another, and with one operation of a third.
MCMaxOps == (0 :> 3) @@ (1 :> 2) @@ (2 :> 1)
=============================================================================
