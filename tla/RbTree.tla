-------------------------------- MODULE RbTree --------------------------------
(***************************************************************************)
(* The red-black tree that RB_GENERATE of tree.h makes, as operators on a  *)
(* tree value.  A node is its key, 0 is NULL, and a tree is the head and   *)
(* the rb fields of every node:                                            *)
(*   root, kid["l"][n], kid["r"][n], up[n] (rbe_parent), red[n].           *)
(* The macros come in mirrored pairs; here the side is a parameter.        *)
(***************************************************************************)
EXTENDS Integers, Sequences

CONSTANT Keys    \* the keys a node may have

ASSUME KeysAssumption == Keys \subseteq Nat \ {0}

NULL == 0
Other(d) == IF d = "l" THEN "r" ELSE "l"

Trees ==
  [root : Keys \cup {NULL},
   kid  : [{"l", "r"} -> [Keys -> Keys \cup {NULL}]],
   up   : [Keys -> Keys \cup {NULL}],
   red  : [Keys -> BOOLEAN]]

RB_INIT ==
  [root |-> NULL,
   kid  |-> [d \in {"l", "r"} |-> [n \in Keys |-> NULL]],
   up   |-> [n \in Keys |-> NULL],
   red  |-> [n \in Keys |-> FALSE]]

RB_EMPTY(t) == t.root = NULL

IsRed(t, n) == n # NULL /\ t.red[n]

Paint(t, n, isRed) == [t EXCEPT !.red[n] = isRed]

RB_SET_BLACKRED(t, black, red) == Paint(Paint(t, black, FALSE), red, TRUE)

\* An assignment to rbe_parent that is skipped for NULL.
SetUp(t, n, p) == IF n = NULL THEN t ELSE [t EXCEPT !.up[n] = p]

\* Where p (or the head) pointed to old, it points to new.
Relink(t, p, old, new) ==
  IF p = NULL THEN [t EXCEPT !.root = new]
  ELSE IF t.kid["l"][p] = old THEN [t EXCEPT !.kid["l"][p] = new]
                              ELSE [t EXCEPT !.kid["r"][p] = new]

\* Mutant: the parent of the subtree that changes sides is not set.
Rotate_unlinked(t, d, elm) ==
  LET o  == Other(d)
      tmp == t.kid[o][elm]
      t1 == [t EXCEPT !.kid[o][elm] = t.kid[d][tmp]]
      t2 == Relink([t1 EXCEPT !.up[tmp] = t.up[elm]], t.up[elm], elm, tmp)
  IN  [t2 EXCEPT !.kid[d][tmp] = elm, !.up[elm] = tmp]

\* RB_ROTATE_LEFT for d = "l", RB_ROTATE_RIGHT for d = "r".
Rotate(t, d, elm) ==
  LET o  == Other(d)
      tmp == t.kid[o][elm]
      t1 == SetUp([t EXCEPT !.kid[o][elm] = t.kid[d][tmp]], t.kid[d][tmp], elm)
      t2 == Relink([t1 EXCEPT !.up[tmp] = t.up[elm]], t.up[elm], elm, tmp)
  IN  [t2 EXCEPT !.kid[d][tmp] = elm, !.up[elm] = tmp]

RECURSIVE RB_INSERT_COLOR(_, _)
RB_INSERT_COLOR(t, elm) ==
  LET parent  == t.up[elm]
      gparent == t.up[parent]
      d       == IF t.kid["l"][gparent] = parent THEN "l" ELSE "r"
      uncle   == t.kid[Other(d)][gparent]
      inner   == t.kid[Other(d)][parent] = elm
      t1      == IF inner THEN Rotate(t, d, parent) ELSE t
      top     == IF inner THEN elm ELSE parent
      low     == IF inner THEN parent ELSE elm
  IN  CASE ~IsRed(t, parent) -> Paint(t, t.root, FALSE)
        [] IsRed(t, parent) /\ IsRed(t, uncle) ->
             RB_INSERT_COLOR(RB_SET_BLACKRED(Paint(t, uncle, FALSE), parent, gparent), gparent)
        [] OTHER ->
             RB_INSERT_COLOR(Rotate(RB_SET_BLACKRED(t1, top, gparent), Other(d), gparent), low)

\* The walk from node n towards key; the last node before NULL, or the key.
RECURSIVE Descend(_, _, _)
Descend(t, n, key) ==
  LET next == t.kid[IF key < n THEN "l" ELSE "r"][n]
  IN  IF n = key \/ next = NULL THEN n ELSE Descend(t, next, key)

RB_FIND(t, key) ==
  IF RB_EMPTY(t) THEN NULL
  ELSE LET n == Descend(t, t.root, key) IN IF n = key THEN n ELSE NULL

\* RB_INSERT of a key that is not in the tree.
RB_INSERT(t, elm) ==
  LET parent == IF RB_EMPTY(t) THEN NULL ELSE Descend(t, t.root, elm)
      d      == IF elm < parent THEN "l" ELSE "r"
      set    == [t EXCEPT !.up[elm] = parent, !.kid["l"][elm] = NULL,
                          !.kid["r"][elm] = NULL, !.red[elm] = TRUE]
  IN  RB_INSERT_COLOR(IF parent = NULL THEN [set EXCEPT !.root = elm]
                                       ELSE [set EXCEPT !.kid[d][parent] = elm], elm)

\* One black is missing below parent on the side of elm.
RECURSIVE RB_REMOVE_COLOR(_, _, _)
RB_REMOVE_COLOR(t, parent, elm) ==
  IF IsRed(t, elm) \/ elm = t.root
  THEN IF elm = NULL THEN t ELSE Paint(t, elm, FALSE)
  ELSE LET d    == IF t.kid["l"][parent] = elm THEN "l" ELSE "r"
           o    == Other(d)
           sib  == t.kid[o][parent]
           t1   == IF IsRed(t, sib) THEN Rotate(RB_SET_BLACKRED(t, sib, parent), d, parent) ELSE t
           tmp  == t1.kid[o][parent]
           near == t1.kid[d][tmp]
           t2   == IF IsRed(t1, t1.kid[o][tmp]) THEN t1
                   ELSE Rotate(RB_SET_BLACKRED(t1, near, tmp), o, tmp)
           sib2 == t2.kid[o][parent]
           far  == t2.kid[o][sib2]
           t3   == Paint(Paint(t2, sib2, t2.red[parent]), parent, FALSE)
           t4   == IF far = NULL THEN t3 ELSE Paint(t3, far, FALSE)
       IN  IF ~IsRed(t1, near) /\ ~IsRed(t1, t1.kid[o][tmp])
           THEN RB_REMOVE_COLOR(Paint(t1, tmp, TRUE), t1.up[parent], parent)
           ELSE LET t5 == Rotate(t4, d, parent) IN Paint(t5, t5.root, FALSE)

RECURSIVE Leftmost(_, _)
Leftmost(t, n) == IF t.kid["l"][n] = NULL THEN n ELSE Leftmost(t, t.kid["l"][n])

\* The fields of a node that left the tree mean nothing any more.
Forget(t, n) ==
  [t EXCEPT !.kid["l"][n] = NULL, !.kid["r"][n] = NULL, !.up[n] = NULL, !.red[n] = FALSE]

\* A node with at most one child is spliced out.
Splice(t, elm, child) == SetUp(Relink(t, t.up[elm], elm, child), child, t.up[elm])

\* A node with two children is replaced by its successor, which takes over all
\* its fields.
RB_REMOVE(t, old) ==
  LET l == t.kid["l"][old]  r == t.kid["r"][old]
      one    == l = NULL \/ r = NULL
      elm    == IF one THEN old ELSE Leftmost(t, r)
      child  == IF one /\ l # NULL THEN l ELSE t.kid["r"][elm]
      parent == IF ~one /\ t.up[elm] = old THEN elm ELSE t.up[elm]
      t1     == Splice(t, elm, child)
      t2     == [t1 EXCEPT !.kid["l"][elm] = t1.kid["l"][old], !.kid["r"][elm] = t1.kid["r"][old],
                           !.up[elm] = t1.up[old], !.red[elm] = t1.red[old]]
      t3     == Relink(t2, t2.up[old], old, elm)
      t4     == SetUp(SetUp(t3, t3.kid["l"][old], elm), t3.kid["r"][old], elm)
      t5     == IF one THEN t1 ELSE t4
  IN  Forget(IF t.red[elm] THEN t5 ELSE RB_REMOVE_COLOR(t5, parent, child), old)

-----------------------------------------------------------------------------
\* Walking the tree in order.

RB_MIN(t) == IF RB_EMPTY(t) THEN NULL ELSE Leftmost(t, t.root)

\* The first ancestor of n that n is not to the right of.
RECURSIVE Ascend(_, _)
Ascend(t, n) ==
  IF t.up[n] # NULL /\ t.kid["r"][t.up[n]] = n THEN Ascend(t, t.up[n]) ELSE t.up[n]

RB_NEXT(t, n) ==
  IF t.kid["r"][n] # NULL THEN Leftmost(t, t.kid["r"][n]) ELSE Ascend(t, n)

RECURSIVE Walk(_, _)
Walk(t, n) == IF n = NULL THEN <<>> ELSE <<n>> \o Walk(t, RB_NEXT(t, n))

-----------------------------------------------------------------------------
\* What a red-black tree is.

Nodes(t) == {n \in Keys : RB_FIND(t, n) = n}

\* Links agree: a child's parent is the node that has it as a child.
Linked(t) ==
  /\ t.root # NULL => t.up[t.root] = NULL
  /\ \A n \in Nodes(t), d \in {"l", "r"} : t.kid[d][n] # NULL => t.up[t.kid[d][n]] = n

RECURSIVE BlackHeights(_, _)
BlackHeights(t, n) ==
  IF n = NULL THEN {0}
  ELSE {h + (IF t.red[n] THEN 0 ELSE 1) : h \in BlackHeights(t, t.kid["l"][n]) \cup BlackHeights(t, t.kid["r"][n])}

\* The root is black, no red node has a red child, and every path down meets
\* the same number of black nodes.
Balanced(t) ==
  /\ ~IsRed(t, t.root)
  /\ \A n \in Nodes(t) : t.red[n] => ~IsRed(t, t.kid["l"][n]) /\ ~IsRed(t, t.kid["r"][n])
  /\ \A h1, h2 \in BlackHeights(t, t.root) : h1 = h2
=============================================================================
