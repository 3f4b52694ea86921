----------------------------- MODULE RWFramework -----------------------------
(***************************************************************************)
(* RWFramework.h: the header that every element of an RWF container        *)
(* carries and the three checks its effect phases are built from.  The     *)
(* vector of a header counts removes only (the "remove history").          *)
(* An element that has no metadata yet behaves like a fresh header: both   *)
(* preconditions treat a null pointer and a non-existing element alike.    *)
(***************************************************************************)
EXTENDS P2P

PID_NEXIST      == -1
PID_WAIT_INNATE == -2

REH == [pid : Server \cup {PID_NEXIST, PID_WAIT_INNATE}, current : VC]

REH_INIT(i) == [pid |-> PID_NEXIST, current |-> vc_new(i)]

REH_RMV_FUNC(h, t) == [pid |-> PID_NEXIST, current |-> vc_update(h.current, t)]

EXISTS(h) == h.pid # PID_NEXIST

\* Mutants of addCheck: without the priority between concurrent adds, and
\* without the comparison of the remove histories.
addCheck_no_priority(h, t) == vc_equal(t, h.current)

addCheck_no_history(h, t) == h.pid < t.id

addCheck(h, t) == vc_equal(t, h.current) /\ h.pid < t.id

addHeader(h, t) == [h EXCEPT !.pid = t.id]

updateCheck(h, t) == vc_equal(t, h.current)

updateHeader(h) == IF EXISTS(h) THEN h ELSE [h EXCEPT !.pid = PID_WAIT_INNATE]

removeCheck(h, t) == \E j \in Server : h.current.vector[j] < t.vector[j]
=============================================================================
