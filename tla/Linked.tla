-------------------------------- MODULE Linked --------------------------------
(***************************************************************************)
(* The intrusive doubly linked list of ztl_linklist.h and ztl_linklist.c,  *)
(* as operators on the links of a set of nodes: l[n] = [prev, next].  A    *)
(* list is a circle through its sentinel.                                  *)
(***************************************************************************)
EXTENDS Integers, Sequences, FiniteSets, SequencesExt

CONSTANTS LinkNodes,     \* nodes a list can hold, numbers above 0
          LinkKey        \* what ztl_queue_sort compares

Sentinel == 0
Second == -1             \* the sentinel of a second list

ztl_queue_init(l, q) == [l EXCEPT ![q] = [prev |-> q, next |-> q]]
ztl_queue_empty(l, h) == l[h].prev = h

ztl_queue_insert_after(l, h, x) ==
  LET l1 == [l EXCEPT ![x].next = l[h].next]
      l2 == [l1 EXCEPT ![l1[x].next].prev = x] IN
  [l2 EXCEPT ![x].prev = h, ![h].next = x]
ztl_queue_insert_head(l, h, x) == ztl_queue_insert_after(l, h, x)
ztl_queue_insert_tail(l, h, x) ==
  LET l1 == [l EXCEPT ![x].prev = l[h].prev]
      l2 == [l1 EXCEPT ![l1[x].prev].next = x] IN
  [l2 EXCEPT ![x].next = h, ![h].prev = x]

\* The links of the node itself stay.
ztl_queue_remove(l, x) ==
  LET l1 == [l EXCEPT ![l[x].next].prev = l[x].prev] IN [l1 EXCEPT ![l1[x].prev].next = l1[x].next]

\* From q on, the nodes go from list h to list n; and all of n behind h.
ztl_queue_split(l, h, q, n) ==
  LET l1 == [l EXCEPT ![n] = [prev |-> l[h].prev, next |-> q]]
      l2 == [l1 EXCEPT ![l1[n].prev].next = n]
      l3 == [l2 EXCEPT ![h].prev = l2[q].prev]
      l4 == [l3 EXCEPT ![l3[h].prev].next = h] IN
  [l4 EXCEPT ![q].prev = n]
ztl_queue_add(l, h, n) ==
  LET l1 == [l EXCEPT ![l[h].prev].next = l[n].next]
      l2 == [l1 EXCEPT ![l1[n].next].prev = l1[h].prev]
      l3 == [l2 EXCEPT ![h].prev = l2[n].prev] IN
  [l3 EXCEPT ![l3[h].prev].next = h]

Steps == 0 .. 2 * Cardinality(LinkNodes) + 2
Walk(l, from, way, k) ==
  LET go[i \in Steps] == IF i = 0 THEN from ELSE IF way = "next" THEN l[go[i - 1]].next ELSE l[go[i - 1]].prev IN go[k]

\* The nodes of a list, in order.
Nodes(l, h) ==
  LET go[i \in Steps] == IF i = 0 THEN <<>> ELSE
        LET s == go[i - 1]
            at == l[IF s = <<>> THEN h ELSE Last(s)].next IN
        IF Len(s) # i - 1 \/ at = h THEN s ELSE Append(s, at)
  IN go[Cardinality(LinkNodes) + 1]
ztl_queue_size(l, h) == Len(Nodes(l, h))

\* One pointer takes one step, the other two; the last node ends it.
ztl_queue_middle(l, h) ==
  LET last == l[h].prev
      go[i \in Steps] ==
        IF i = 0 THEN [middle |-> l[h].next, next |-> l[h].next, done |-> l[h].next = last]
        ELSE LET g == go[i - 1]
                 one == l[g.next].next IN
             IF g.done THEN g
             ELSE [middle |-> l[g.middle].next, next |-> l[one].next, done |-> one = last \/ l[one].next = last]
  IN go[Cardinality(LinkNodes)].middle

\* Where an insertion sort puts q: behind the nearest node before it that
\* does not compare greater.
InsertPoint(l, h, q) ==
  LET back[i \in Steps] ==
        IF i = 0 THEN l[q].prev
        ELSE LET p == back[i - 1] IN IF p = h \/ LinkKey[p] <= LinkKey[q] THEN p ELSE l[p].prev
  IN back[Cardinality(LinkNodes)]
ztl_queue_sort(l, h) ==
  LET go[i \in Steps] ==
        IF i = 0 THEN [l |-> l, q |-> l[l[h].next].next]
        ELSE LET g == go[i - 1] IN
             IF g.q = h THEN g
             ELSE [l |-> ztl_queue_insert_after(ztl_queue_remove(g.l, g.q), InsertPoint(g.l, h, g.q), g.q),
                   q |-> g.l[g.q].next]
  IN IF l[h].next = l[h].prev THEN l ELSE go[Cardinality(LinkNodes)].l

----------------------------------------------------------------------------
\* Two lists over the nodes, and the sequences they stand for.
VARIABLES obj, spec

LinkInit ==
  /\ obj = ztl_queue_init(ztl_queue_init([n \in LinkNodes \cup {Sentinel, Second} |-> [prev |-> n, next |-> n]],
                                         Sentinel), Second)
  /\ spec = [a |-> <<>>, b |-> <<>>]

InsertHead(x) == obj' = ztl_queue_insert_head(obj, Sentinel, x) /\ spec' = [spec EXCEPT !.a = <<x>> \o @]
InsertTail(x) == obj' = ztl_queue_insert_tail(obj, Sentinel, x) /\ spec' = [spec EXCEPT !.a = Append(@, x)]
Unlink(x) == obj' = ztl_queue_remove(obj, x) /\ spec' = [spec EXCEPT !.a = Remove(@, x)]
\* The second list is empty before a split; its owner empties it after an add.
Split(i) == /\ spec.b = <<>>
            /\ obj' = ztl_queue_split(obj, Sentinel, spec.a[i], Second)
            /\ spec' = [a |-> SubSeq(spec.a, 1, i - 1), b |-> SubSeq(spec.a, i, Len(spec.a))]
Join == /\ spec.b # <<>>
        /\ obj' = ztl_queue_init(ztl_queue_add(obj, Sentinel, Second), Second)
        /\ spec' = [a |-> spec.a \o spec.b, b |-> <<>>]
Before(s, x, y) == LinkKey[x] < LinkKey[y] \/ (LinkKey[x] = LinkKey[y] /\ IndexFirstSubSeq(<<x>>, s) < IndexFirstSubSeq(<<y>>, s))
Sort == /\ spec.a # <<>>
        /\ obj' = ztl_queue_sort(obj, Sentinel)
        /\ spec' = [spec EXCEPT !.a = SortSeq(@, LAMBDA x, y : Before(spec.a, x, y))]

LinkNext == \/ \E x \in LinkNodes \ (Range(spec.a) \cup Range(spec.b)) : InsertHead(x) \/ InsertTail(x)
            \/ \E x \in Range(spec.a) : Unlink(x)
            \/ \E i \in DOMAIN spec.a : Split(i)
            \/ Join \/ Sort

(* Forwards and backwards the links give the sequences; the middle is the  *)
(* element in the middle, or the first of the second half; the sort is     *)
(* stable.                                                                 *)
LinkExact ==
  /\ Nodes(obj, Sentinel) = spec.a /\ Nodes(obj, Second) = spec.b
  /\ \A n \in DOMAIN obj : obj[obj[n].next].prev = n \/ n \notin Range(spec.a) \cup Range(spec.b) \cup {Sentinel, Second}
  /\ spec.a # <<>> => ztl_queue_middle(obj, Sentinel) = spec.a[Len(spec.a) \div 2 + 1]
=============================================================================
