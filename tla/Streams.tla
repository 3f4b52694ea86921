------------------------------- MODULE Streams -------------------------------
(***************************************************************************)
(* What the replication layer promises, whatever its connections do: once  *)
(* a server has joined the stream of another, it runs the commands issued  *)
(* from then on in the order they were issued, none skipped, none twice.   *)
(* It promises neither the commands issued before nor that a stream goes   *)
(* on for ever.  Mesh implements this; P2P, on which the containers rest,  *)
(* is the case in which everybody has joined before the first command.     *)
(*                                                                         *)
(* log[a] counts the commands of a.  On the stream <<a, b>>, b has run the *)
(* commands from[<<a, b>>] + 1 to to[<<a, b>>] of a.                       *)
(***************************************************************************)
EXTENDS Naturals

CONSTANT Server

Stream == {s \in Server \X Server : s[1] # s[2]}

VARIABLES log, joined, from, to

vars == <<log, joined, from, to>>

Init ==
  /\ log = [a \in Server |-> 0]
  /\ joined \in [Stream -> BOOLEAN]
  /\ from = [s \in Stream |-> 0]
  /\ to = [s \in Stream |-> 0]

Issue(a) ==
  /\ log' = [log EXCEPT ![a] = @ + 1]
  /\ UNCHANGED <<joined, from, to>>

Join(s) ==
  /\ ~joined[s]
  /\ joined' = [joined EXCEPT ![s] = TRUE]
  /\ from' = [from EXCEPT ![s] = log[s[1]]]
  /\ to' = [to EXCEPT ![s] = log[s[1]]]
  /\ UNCHANGED log

Deliver(s) ==
  /\ joined[s]
  /\ to[s] < log[s[1]]
  /\ to' = [to EXCEPT ![s] = @ + 1]
  /\ UNCHANGED <<log, joined, from>>

Next ==
  \/ \E a \in Server : Issue(a)
  \/ \E s \in Stream : Join(s) \/ Deliver(s)

Spec == Init /\ [][Next]_vars
=============================================================================
