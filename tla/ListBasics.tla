----------------------------- MODULE ListBasics -----------------------------
(***************************************************************************)
(* list_basics.c and list_basics.h: the position identifiers of list       *)
(* elements and the linked list ordered by them.  An identifier is a       *)
(* sequence of positions (pos, pid, count); <<>> stands for a null pointer *)
(* (no neighbour, or an element whose oid is not set).  The linked list is *)
(* the sequence of its elements' names.                                    *)
(***************************************************************************)
EXTENDS RWFramework, SequencesExt

CONSTANTS
  BASE,       \* 2^24 in the code: positions of one level are in 0..BASE
  RDM_STEP,   \* 128 in the code: how far from its left neighbour an element goes
  Elem,       \* names of list elements
  Creators,   \* which servers' clients insert an element for the first time
  Null        \* the predecessor of an insert at the head; a timestamp never set

ASSUME ListAssumption ==
  /\ BASE \in Nat \ {0, 1}
  /\ RDM_STEP \in Nat \ {0}
  /\ Creators \in [Elem -> SUBSET Server]
  /\ Null \notin Elem

Position == [pos : 0..BASE, pid : Server, count : Nat]

\* Mutant of PosLess: equal positions are not told apart by their server.
PosLess_no_pid(a, b) == a.pos < b.pos \/ (a.pos = b.pos /\ a.count < b.count)

\* pos_cmp(a, b) < 0
PosLess(a, b) ==
  \/ a.pos < b.pos
  \/ a.pos = b.pos /\ a.pid < b.pid
  \/ a.pos = b.pos /\ a.pid = b.pid /\ a.count < b.count

\* leid_cmp(p, q) < 0: lexicographic, a proper prefix first.
LeidLess(p, q) ==
  \/ IsStrictPrefix(p, q)
  \/ \E k \in DOMAIN p \cap DOMAIN q :
       SubSeq(p, 1, k - 1) = SubSeq(q, 1, k - 1) /\ PosLess(p[k], q[k])

lprefix(p, k) == IF k \in DOMAIN p THEN p[k].pos ELSE 0

rprefix(q, k) == IF k \in DOMAIN q THEN q[k].pos ELSE BASE

\* rand() % min(step, RDM_STEP), and 0 when there is a single place left.
RandomStep(step) ==
  IF step = 0 THEN {0} ELSE 0..(IF step < RDM_STEP THEN step - 1 ELSE RDM_STEP - 1)

\* The identifiers constructLeid can return for an element between p and q: the
\* first level with room between them gets the new position.  Above that level
\* a neighbour p is copied, continued by q; q is long enough, since a level
\* that neither reaches has room.
constructLeid(p, q, pid, count) ==
  LET room(k) == rprefix(q, k) - lprefix(p, k)
      n == Min({k \in 1..(Len(p) + Len(q) + 1) : room(k) >= 2})
      prefix == [k \in 1..(n - 1) |->
                   IF p = <<>> THEN [pos |-> 0, pid |-> 0, count |-> 0]
                   ELSE IF k \in DOMAIN p THEN p[k] ELSE q[k]]
  IN  {Append(prefix, [pos |-> lprefix(p, n) + step + 1, pid |-> pid, count |-> count]) :
         step \in RandomStep(room(n) - 2)}

\* The identifier of the element after pre, of the head if pre is Null.
rightOf(order, pos, pre) ==
  LET k == IF pre = Null THEN 1 ELSE CHOOSE n \in DOMAIN order : order[n] = pre
      next == IF pre = Null THEN k ELSE k + 1
  IN  IF next \in DOMAIN order THEN pos[order[next]] ELSE <<>>

\* Mutant of link: the element goes right after its predecessor.
link_after_pre(order, pos, x, id, pre) ==
  IF order = <<>> \/ pre \notin ToSet(order) THEN <<x>> \o order
  ELSE InsertAt(order, 1 + CHOOSE n \in DOMAIN order : order[n] = pre, x)

\* The list with x linked in at id: at the head if id is below the head's, else
\* before the first larger identifier found walking on from pre (from the head
\* if pre is not in this server's list).
link(order, pos, x, id, pre) ==
  IF order = <<>> \/ LeidLess(id, pos[order[1]]) THEN <<x>> \o order
  ELSE LET start == IF pre \in ToSet(order)
                    THEN CHOOSE n \in DOMAIN order : order[n] = pre ELSE 1
           stops == {k \in (start + 1)..Len(order) : ~LeidLess(pos[order[k]], id)}
       IN  InsertAt(order, IF stops = {} THEN Len(order) + 1 ELSE Min(stops), x)
-----------------------------------------------------------------------------
\* The linked list holds the elements that have an identifier, in the order of
\* their identifiers.
Ordered(order, pos) ==
  /\ ToSet(order) = {x \in Elem : pos[x] # <<>>}
  /\ \A m, n \in DOMAIN order : m < n => LeidLess(pos[order[m]], pos[order[n]])
=============================================================================
