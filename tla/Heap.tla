-------------------------------- MODULE Heap --------------------------------
(***************************************************************************)
(* The binary heap of ztl_heap.c: hp.h[i - 1] of the code is hp.h[i] here, *)
(* and hp.index[e] is the position kept inside element e (offset >= 0).    *)
(***************************************************************************)
EXTENDS Integers, FiniteSets

CONSTANTS HeapElems,     \* elements, numbers above 0
          HeapPriority,  \* what cmp compares
          HeapHeight     \* the height given to heap_new

VARIABLES obj, spec      \* the heap, and the set of elements it stands for

NoElem == 0
left_node(i) == 2 * i
right_node(i) == 2 * i + 1
parent_node(i) == i \div 2
Less(hp, i, j) == HeapPriority[hp.h[i]] < HeapPriority[hp.h[j]]

heap_set(hp, i, e) == [hp EXCEPT !.h[i] = e, !.index[e] = i]
heap_swap(hp, i, j) == heap_set(heap_set(hp, i, hp.h[j]), j, hp.h[i])

Levels == 0 .. Cardinality(HeapElems)
bubble_up(hp, i) ==
  LET go[k \in Levels] ==
        IF k = 0 THEN [hp |-> hp, i |-> i]
        ELSE LET g == go[k - 1] IN
             IF g.i > 1 /\ Less(g.hp, parent_node(g.i), g.i)
             THEN [hp |-> heap_swap(g.hp, parent_node(g.i), g.i), i |-> parent_node(g.i)] ELSE g
  IN go[Cardinality(HeapElems)]

\* The greatest of a node and its children; an equal child does not win.
MaxChild(hp, i) ==
  LET m == IF left_node(i) <= hp.curr /\ Less(hp, i, left_node(i)) THEN left_node(i) ELSE i IN
  IF right_node(i) <= hp.curr /\ Less(hp, m, right_node(i)) THEN right_node(i) ELSE m
max_heapify(hp, i) ==
  LET go[k \in Levels] ==
        IF k = 0 THEN [hp |-> hp, i |-> i]
        ELSE LET g == go[k - 1]
                 m == MaxChild(g.hp, g.i) IN
             IF m = g.i THEN g ELSE [hp |-> heap_swap(g.hp, g.i, m), i |-> m]
  IN go[Cardinality(HeapElems)].hp

\* Without bubbling up: right when the last element replaces an ancestor.
_heap_remove_DownOnly(hp, i) ==
  max_heapify([heap_set(hp, i, hp.h[hp.curr]) EXCEPT !.curr = hp.curr - 1], i)
\* The last element takes the place of the removed one; it may have to go up
\* or down.  When the removed element is the last, it is compared beyond curr.
_heap_remove(hp, i) ==
  LET b == bubble_up([heap_set(hp, i, hp.h[hp.curr]) EXCEPT !.curr = hp.curr - 1], i)
  IN max_heapify(b.hp, b.i)

\* Cells beyond curr are not read again.
Tidy(hp) == [hp EXCEPT !.h = [i \in DOMAIN hp.h |-> IF i > hp.curr THEN NoElem ELSE hp.h[i]]]

HeapInit == /\ obj = [h |-> [i \in 1 .. Cardinality(HeapElems) |-> NoElem], index |-> [e \in HeapElems |-> 0],
                      curr |-> 0, avail |-> 2 * HeapHeight - 1]
            /\ spec = {}

heap_push(e) ==
  /\ e \notin spec
  /\ obj' = LET g == IF obj.curr = obj.avail THEN 2 * obj.avail + 1 ELSE obj.avail IN
            bubble_up(heap_set([obj EXCEPT !.avail = g, !.curr = @ + 1], obj.curr + 1, e), obj.curr + 1).hp
  /\ spec' = spec \cup {e}
\* grow_heap without memory forgets every element.
heap_push_fails ==
  /\ obj.curr = obj.avail
  /\ obj' = Tidy([obj EXCEPT !.curr = 0, !.avail = 0]) /\ spec' = {}
heap_pop == /\ obj.curr > 0
            /\ spec' = spec \ {obj.h[1]} /\ obj' = Tidy(_heap_remove(obj, 1))
\* An element that was in the heap keeps its last position: the call takes out
\* whatever stands there now.
heap_remove(e) ==
  LET i == obj.index[e] IN
  /\ i # 0 /\ i <= obj.curr
  /\ spec' = spec \ {IF e \in spec THEN e ELSE obj.h[i]} /\ obj' = Tidy(_heap_remove(obj, i))

HeapNext == heap_push_fails \/ heap_pop \/ \E e \in HeapElems : heap_push(e) \/ heap_remove(e)

(* The array holds exactly the elements pushed and not yet taken, each     *)
(* knows its place, no child is above its parent: the next heap_pop gives  *)
(* a greatest element, whatever the calls before, the removal of an        *)
(* element that had left the heap, which takes out another, among them.    *)
HeapExact ==
  /\ {obj.h[i] : i \in 1 .. obj.curr} = spec /\ Cardinality(spec) = obj.curr /\ obj.curr <= obj.avail
  /\ \A i \in 1 .. obj.curr : obj.index[obj.h[i]] = i /\ (i > 1 => ~Less(obj, parent_node(i), i))
=============================================================================
