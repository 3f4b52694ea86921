------------------------------- MODULE MCOZSet -------------------------------
EXTENDS OZSet

\* Three servers, so that an increment or a remove can overtake the add it
\* applies to.
MCMaxOps == (0 :> 2) @@ (1 :> 2) @@ (2 :> 1)
=============================================================================
