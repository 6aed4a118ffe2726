------------------------------- MODULE RBTree -------------------------------
(***************************************************************************)
(* ztl_rbtree.c: the red-black tree under the maps and the timers, as      *)
(* operators on a tree [root, nd].  nd[n] has the fields of rbtree_node_s; *)
(* c[0] is its left child and c[1] its right one, so that the two mirrored *)
(* halves of the code are one definition with a side d.  Sentinel is the   *)
(* black leaf that all empty links lead to.                                *)
(***************************************************************************)
EXTENDS Integers, FiniteSets, SequencesExt

CONSTANTS Node, Less(_, _)   \* the nodes; the order of keys in use

Sentinel == 0
Sides == {0, 1}
Blank == [key |-> 0, c |-> [d \in Sides |-> Sentinel], parent |-> Sentinel, red |-> FALSE]
rbtree_init == [root |-> Sentinel, nd |-> [n \in Node \cup {Sentinel} |-> Blank]]

Parent(t, n) == t.nd[n].parent
Child(t, n, d) == t.nd[n].c[d]
Red(t, n) == t.nd[n].red
Color(t, n, red) == [t EXCEPT !.nd[n].red = red]
SideOf(t, n) == IF n = Child(t, Parent(t, n), 0) THEN 0 ELSE 1

\* Puts n where old was: below old's parent, or at the root.
Replace(t, old, n) ==
  IF old = t.root THEN [t EXCEPT !.root = n]
  ELSE [t EXCEPT !.nd[Parent(t, old)].c[SideOf(t, old)] = n]

\* rbtree_left_rotate (d = 0) and rbtree_right_rotate (d = 1).
Rotate(t, x, d) ==
  LET y == Child(t, x, 1 - d)
      b == Child(t, y, d)
      t1 == [t EXCEPT !.nd[x].c[1 - d] = b, !.nd[b].parent = IF b # Sentinel THEN x ELSE @,
                      !.nd[y].parent = Parent(t, x)]
  IN [Replace(t1, x, y) EXCEPT !.nd[y].c[d] = x, !.nd[x].parent = y]

\* Iterates a step s |-> Step(s) on [t, x, end] until it says so.
Repeat(Step(_), s) ==
  LET go[i \in 0 .. 2 * Cardinality(Node) + 2] ==
        IF i = 0 THEN s ELSE LET p == go[i - 1] IN IF p.end THEN p ELSE Step(p)
  IN go[2 * Cardinality(Node) + 2].t

-----------------------------------------------------------------------------
(* rbtree_insert_value and rbtree_insert_timer_value: below the last node  *)
(* on the search path, equal keys to the right.                            *)
InsertBelow(t, n, key) ==
  LET side(x) == IF Less(key, t.nd[x].key) THEN 0 ELSE 1
      path[i \in 0 .. Cardinality(Node)] ==
        IF i = 0 THEN t.root
        ELSE LET x == path[i - 1]  y == Child(t, x, side(x)) IN IF y = Sentinel THEN x ELSE y
      p == path[Cardinality(Node)] IN
  [t EXCEPT !.nd[n] = [Blank EXCEPT !.key = key, !.parent = p, !.red = TRUE],
            !.nd[p].c[side(p)] = n]

\* A broken variant: the inner grandchild is not rotated outwards first.
RebalanceStep_NoInner(s) ==
  LET t == s.t  x == s.x
      p == Parent(t, x)
      g == Parent(t, p)
      d == SideOf(t, p)
      u == Child(t, g, 1 - d)
  IN CASE x = t.root \/ ~Red(t, p) -> [s EXCEPT !.end = TRUE]
       [] x # t.root /\ Red(t, p) /\ Red(t, u) ->
            [t |-> Color(Color(Color(t, p, FALSE), u, FALSE), g, TRUE), x |-> g, end |-> FALSE]
       [] OTHER -> [t |-> Rotate(Color(Color(t, p, FALSE), g, TRUE), g, 1 - d), x |-> x, end |-> TRUE]

RebalanceStep(s) ==
  LET t == s.t  x == s.x
      p == Parent(t, x)
      g == Parent(t, p)
      d == SideOf(t, p)
      u == Child(t, g, 1 - d)
      inner == x = Child(t, p, 1 - d)
      y == IF inner THEN p ELSE x
      t1 == IF inner THEN Rotate(t, p, d) ELSE t
      t2 == Color(Color(t1, Parent(t1, y), FALSE), g, TRUE)
  IN CASE x = t.root \/ ~Red(t, p) -> [s EXCEPT !.end = TRUE]
       [] x # t.root /\ Red(t, p) /\ Red(t, u) ->
            [t |-> Color(Color(Color(t, p, FALSE), u, FALSE), g, TRUE), x |-> g, end |-> FALSE]
       [] OTHER -> [t |-> Rotate(t2, g, 1 - d), x |-> y, end |-> FALSE]

rbtree_insert(t, n, key) ==
  IF t.root = Sentinel
  THEN [t EXCEPT !.root = n, !.nd[n] = [Blank EXCEPT !.key = key]]
  ELSE LET t1 == Repeat(RebalanceStep, [t |-> InsertBelow(t, n, key), x |-> n, end |-> FALSE])
       IN Color(t1, t1.root, FALSE)

-----------------------------------------------------------------------------
rbtree_min(t, n) ==
  LET down[i \in 0 .. Cardinality(Node)] ==
        IF i = 0 THEN n
        ELSE LET x == down[i - 1] IN IF Child(t, x, 0) = Sentinel THEN x ELSE Child(t, x, 0)
  IN down[Cardinality(Node)]

\* The fixup of rbtree_delete; w is the sibling of x.
FixupStep(s) ==
  LET t == s.t  x == s.x
      d == SideOf(t, x)
      p == Parent(t, x)
      t1 == IF Red(t, Child(t, p, 1 - d))
            THEN Rotate(Color(Color(t, Child(t, p, 1 - d), FALSE), p, TRUE), p, d) ELSE t
      w == Child(t1, p, 1 - d)
      near == Child(t1, w, d)
      far == Child(t1, w, 1 - d)
      t2 == IF Red(t1, far) THEN t1
            ELSE Rotate(Color(Color(t1, near, FALSE), w, TRUE), w, 1 - d)
      w2 == Child(t2, p, 1 - d)
      t3 == Color(Color(Color(t2, w2, Red(t2, p)), p, FALSE), Child(t2, w2, 1 - d), FALSE)
      t4 == Rotate(t3, p, d)
  IN CASE x = t.root \/ Red(t, x) -> [t |-> Color(t, x, FALSE), x |-> x, end |-> TRUE]
       [] x # t.root /\ ~Red(t, x) /\ ~Red(t1, near) /\ ~Red(t1, far) ->
            [t |-> Color(t1, w, TRUE), x |-> p, end |-> FALSE]
       [] OTHER -> [t |-> t4, x |-> t4.root, end |-> FALSE]

\* Takes subst out of the tree and, if it is not n itself, puts it in n's
\* place with n's color and links.
Splice(t, n, subst, temp) ==
  LET t1 == [t EXCEPT !.nd[Parent(t, subst)].c[SideOf(t, subst)] = temp,
                      !.nd[temp].parent = IF subst # n /\ Parent(t, subst) = n
                                          THEN subst ELSE Parent(t, subst)]
      l == t1.nd[n].c[0]
      r == t1.nd[n].c[1]
      t2 == [t1 EXCEPT !.nd[subst] = [t1.nd[n] EXCEPT !.key = t.nd[subst].key]]
      t3 == [Replace(t2, n, subst) EXCEPT
               !.nd[l].parent = IF l # Sentinel THEN subst ELSE @]
      t4 == [t3 EXCEPT !.nd[r].parent = IF r # Sentinel THEN subst ELSE @]
  IN IF subst = n THEN t1 ELSE t4

\* The sentinel's parent is written before it is read in every deletion, so
\* it is forgotten between them, like the fields of the node that left.
Forget(t, n) == [t EXCEPT !.nd[n] = Blank, !.nd[Sentinel].parent = Sentinel,
                          !.nd[t.root].parent = Sentinel]

rbtree_delete(t, n) ==
  LET two == Child(t, n, 0) # Sentinel /\ Child(t, n, 1) # Sentinel
      subst == IF two THEN rbtree_min(t, Child(t, n, 1)) ELSE n
      temp == IF Child(t, subst, 0) # Sentinel THEN Child(t, subst, 0) ELSE Child(t, subst, 1)
      t1 == Splice(t, n, subst, temp) IN
  IF subst = t.root THEN Forget(Color([t EXCEPT !.root = temp], temp, FALSE), n)
  ELSE IF Red(t, subst) THEN Forget(t1, n)
  ELSE Forget(Repeat(FixupStep, [t |-> t1, x |-> temp, end |-> FALSE]), n)

-----------------------------------------------------------------------------
(* Views of a tree.                                                        *)

\* Nodes of the subtree of n, the node itself first: _rbtree_traverse.
Preorder(t) ==
  LET walk[i \in 0 .. Cardinality(Node), n \in Node \cup {Sentinel}] ==
        IF n = Sentinel \/ i = 0 THEN << >>
        ELSE <<n>> \o walk[i - 1, Child(t, n, 0)] \o walk[i - 1, Child(t, n, 1)]
  IN walk[Cardinality(Node), t.root]

Inorder(t) ==
  LET walk[i \in 0 .. Cardinality(Node), n \in Node \cup {Sentinel}] ==
        IF n = Sentinel \/ i = 0 THEN << >>
        ELSE walk[i - 1, Child(t, n, 0)] \o <<n>> \o walk[i - 1, Child(t, n, 1)]
  IN walk[Cardinality(Node), t.root]

Members(t) == ToSet(Inorder(t))

BlackHeight(t) ==
  LET h[i \in 0 .. Cardinality(Node), n \in Node \cup {Sentinel}] ==
        IF n = Sentinel \/ i = 0 THEN {0}
        ELSE LET below == h[i - 1, Child(t, n, 0)] \cup h[i - 1, Child(t, n, 1)]
             IN {IF Red(t, n) THEN x ELSE x + 1 : x \in below}
  IN h[Cardinality(Node), t.root]

\* A search tree, with parent links, black root and sentinel, no red node
\* under a red one, and equally many black nodes on every way down.
WellFormed(t) ==
  /\ LET s == Inorder(t) IN
     \A i, j \in DOMAIN s : i < j => ~Less(t.nd[s[j]].key, t.nd[s[i]].key)
  /\ \A n \in Members(t) : \A d \in Sides :
       Child(t, n, d) # Sentinel => Parent(t, Child(t, n, d)) = n
  /\ ~Red(t, t.root) /\ ~Red(t, Sentinel)
  /\ \A n \in Members(t) : Red(t, n) => \A d \in Sides : ~Red(t, Child(t, n, d))
  /\ Cardinality(BlackHeight(t)) = 1
=============================================================================
