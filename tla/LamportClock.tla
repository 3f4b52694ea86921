---------------------------- MODULE LamportClock ----------------------------
(***************************************************************************)
(* lamport_clock.h: a counter with the id of the server that drew it.      *)
(***************************************************************************)
EXTENDS Integers

\* Order of unique tags: the id decides first.
lc_cmp_as_tag(t1, t2) == IF t1.id # t2.id THEN t1.id - t2.id ELSE t1.x - t2.x

\* Order of Lamport timestamps: the counter decides first.
lc_cmp(t1, t2) == IF t1.x # t2.x THEN t1.x - t2.x ELSE t1.id - t2.id

\* The greatest of a non-empty set of tags.
NewestTag(S) == CHOOSE t \in S : \A u \in S : lc_cmp_as_tag(u, t) <= 0
=============================================================================
