-------------------------------- MODULE CMap --------------------------------
(***************************************************************************)
(* ztl_map.c: the ordered map on the red-black tree.  Adding a key twice   *)
(* makes two nodes; a node is <<key, copy>> coded as a number.  A node     *)
(* taken from the idle list is overwritten completely, so of that list     *)
(* only the length is kept.  A set is a map whose values are 0.            *)
(***************************************************************************)
EXTENDS Integers, FiniteSets, SequencesExt

CONSTANTS
  MapKeys, MapVals,
  Copies,         \* bound: nodes with the same key
  MapReserve      \* nodes made in advance by cmap_create

VARIABLES cmap,   \* [tree, udata, idles, size]
          pairs   \* what was added and not deleted: [node, key, value]

cmapVars == <<cmap, pairs>>

Nodes == {k * Copies + c : k \in MapKeys, c \in 0 .. Copies - 1}
KeyOf(n) == n \div Copies
LessKey(a, b) == a < b

T == INSTANCE RBTree WITH Node <- Nodes, Less <- LessKey

\* The search stops at the first node with the key.
FindNode(t, k) ==
  LET down[i \in 0 .. Cardinality(Nodes)] ==
        IF i = 0 THEN t.root
        ELSE LET x == down[i - 1] IN
             IF x = T!Sentinel \/ t.nd[x].key = k THEN x
             ELSE T!Child(t, x, IF t.nd[x].key < k THEN 1 ELSE 0)
  IN down[Cardinality(Nodes)]

InvalidValue == -1
Unread == -2      \* stands for what a node outside the tree still holds
cmap_find(k) ==
  LET n == FindNode(cmap.tree, k) IN IF n = T!Sentinel THEN InvalidValue ELSE cmap.udata[n]
cmap_count(k) == FindNode(cmap.tree, k) # T!Sentinel

Init ==
  /\ cmap = [tree |-> T!rbtree_init, udata |-> [n \in Nodes |-> Unread],
             idles |-> MapReserve, size |-> 0]
  /\ pairs = {}

FreeNode(k) == CHOOSE n \in {x \in Nodes : KeyOf(x) = k /\ x \notin T!Members(cmap.tree)} : TRUE

\* The caller's own node goes in and comes out.
cmap_add_ex(m, k, n) == [m EXCEPT !.size = @ + 1, !.tree = T!rbtree_insert(@, n, k)]
cmap_del_ex(m, n) == [m EXCEPT !.size = @ - 1, !.tree = T!rbtree_delete(@, n)]

cmap_add(k, v) ==
  LET n == FreeNode(k)
      taken == [cmap EXCEPT !.idles = IF @ > 0 THEN @ - 1 ELSE 0, !.udata[n] = v] IN
  /\ \E x \in Nodes : KeyOf(x) = k /\ x \notin T!Members(cmap.tree)
  /\ cmap' = cmap_add_ex(taken, k, n)
  /\ pairs' = pairs \cup {<<n, k, v>>}

cmap_del(k) ==
  LET n == FindNode(cmap.tree, k) IN
  /\ n # T!Sentinel
  /\ cmap' = [cmap_del_ex(cmap, n) EXCEPT !.idles = @ + 1, !.udata[n] = Unread]
  /\ pairs' = {p \in pairs : p[1] # n}

cset_add(k) == cmap_add(k, 0)
\* What cset_del returns for a key, before it deletes it.
cset_del(k) == IF cmap_find(k) # InvalidValue THEN 0 ELSE -1

\* Deletes the root until none is left; the nodes do not become idle.
cmap_clear ==
  LET go[i \in 0 .. Cardinality(Nodes)] ==
        IF i = 0 THEN cmap.tree
        ELSE LET t == go[i - 1] IN
             IF t.root = T!Sentinel THEN t ELSE T!rbtree_delete(t, t.root) IN
  /\ cmap' = [tree |-> go[Cardinality(Nodes)], udata |-> [n \in Nodes |-> Unread],
              idles |-> cmap.idles, size |-> 0]
  /\ pairs' = {}

\* cmap_to_array: the first arr_size pairs in the order of the traversal.
cmap_to_array(arr_size) ==
  LET ns == T!Preorder(cmap.tree)
      m == IF Len(ns) < arr_size THEN Len(ns) ELSE arr_size IN
  [i \in 1 .. m |-> <<cmap.tree.nd[ns[i]].key, cmap.udata[ns[i]]>>]

Next == cmap_clear \/ \E k \in MapKeys : cmap_del(k) \/ cset_add(k) \/ \E v \in MapVals : cmap_add(k, v)

(* The map finds exactly the keys that were added and not deleted, with a  *)
(* value that was added for the key; its size and its array hold every     *)
(* pair once; and after any sequence of additions and deletions the tree   *)
(* below is a balanced search tree.                                        *)
MapSound ==
  /\ T!WellFormed(cmap.tree)
  /\ \A k \in MapKeys :
       LET vs == {p[3] : p \in {q \in pairs : q[2] = k}} IN
       /\ cmap_count(k) <=> vs # {}
       /\ cset_del(k) = 0 <=> vs # {}
       /\ cmap_find(k) \in vs \/ (vs = {} /\ cmap_find(k) = InvalidValue)
  /\ cmap.size = Cardinality(pairs)
  /\ LET a == cmap_to_array(Cardinality(Nodes)) IN
     /\ Len(a) = Cardinality(pairs)
     /\ ToSet(a) = {<<p[2], p[3]>> : p \in pairs}
=============================================================================
