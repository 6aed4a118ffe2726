-------------------------------- MODULE DList --------------------------------
(***************************************************************************)
(* ztl_dlist.c: a list of values over Linked, whose removed nodes go to a  *)
(* list of idle nodes and are used again, and one iterator on it.  Between *)
(* two steps of the iterator the list may change, but the element it is    *)
(* about to return stays (its node would take the iterator to the idle     *)
(* list).                                                                  *)
(***************************************************************************)
EXTENDS Linked

CONSTANTS DlValues,      \* positive numbers; two elements may be equal
          DlReserve      \* nodes made by dlist_create

NoIter == [nodelink |-> Sentinel, direction |-> "none", current |-> 0]

\* The pool's nodes above the reserve are made on demand.
DlInit ==
  /\ LET l0 == ztl_queue_init(ztl_queue_init([n \in LinkNodes \cup {Sentinel, Second} |-> [prev |-> n, next |-> n]],
                                             Sentinel), Second) IN
     obj = [l |-> FoldLeft(LAMBDA l, n : ztl_queue_insert_tail(l, Second, n), l0, [n \in 1..DlReserve |-> n]),
            made |-> DlReserve, size |-> 0, data |-> [n \in LinkNodes |-> 0], iter |-> NoIter]
  /\ spec = [nodes |-> <<>>, todo |-> <<>>, ok |-> TRUE]

\* _dlist_dlnode_alloc.
Alloc(d) == IF ztl_queue_empty(d.l, Second)
            THEN [node |-> d.made + 1, d |-> [d EXCEPT !.made = @ + 1]]
            ELSE [node |-> d.l[Second].next, d |-> [d EXCEPT !.l = ztl_queue_remove(d.l, d.l[Second].next)]]
HasNode == ~ztl_queue_empty(obj.l, Second) \/ obj.made < Cardinality(LinkNodes)
dlist_insert_head(d, x) ==
  LET a == Alloc(d) IN
  [a.d EXCEPT !.data[a.node] = x, !.l = ztl_queue_insert_head(a.d.l, Sentinel, a.node), !.size = @ + 1]
dlist_insert_tail(d, x) ==
  LET a == Alloc(d) IN
  [a.d EXCEPT !.data[a.node] = x, !.l = ztl_queue_insert_tail(a.d.l, Sentinel, a.node), !.size = @ + 1]
_dlist_remove(d, n) ==
  [d EXCEPT !.l = ztl_queue_insert_tail(ztl_queue_remove(d.l, n), Second, n), !.size = @ - 1]

dlist_iter_new(d, dir) ==
  [d EXCEPT !.iter = [nodelink |-> IF dir = "head" THEN d.l[Sentinel].next ELSE d.l[Sentinel].prev,
                      direction |-> dir, current |-> 0]]
dlist_next(d) ==
  LET n == d.iter.nodelink IN
  IF n = Sentinel THEN [d EXCEPT !.iter.current = 0]
  ELSE [d EXCEPT !.iter.current = n,
                 !.iter.nodelink = IF d.iter.direction = "head" THEN d.l[n].next ELSE d.l[n].prev]
\* The node behind the iterator, whatever it is by now.
dlist_erase(d) ==
  LET old == IF d.iter.direction = "head" THEN d.l[d.iter.nodelink].prev ELSE d.l[d.iter.nodelink].next IN
  IF old = Sentinel THEN d ELSE _dlist_remove(d, old)
\* Next and erase from the head to the end.
dlist_clear(d) ==
  LET go[i \in Steps] == IF i = 0 THEN dlist_next(dlist_iter_new(d, "head"))
                         ELSE IF go[i - 1].iter.current = 0 THEN go[i - 1] ELSE dlist_next(dlist_erase(go[i - 1])) IN
  [go[Cardinality(LinkNodes)] EXCEPT !.iter = NoIter]
\* To the first element that compares equal.
dlist_remove(d, x) ==
  LET go[i \in Steps] ==
        IF i = 0 THEN dlist_next(dlist_iter_new(d, "head"))
        ELSE LET e == go[i - 1] IN
             IF e.iter.current = 0 \/ e.data[e.iter.current] = x THEN e ELSE dlist_next(e)
      at == go[Cardinality(LinkNodes)] IN
  IF at.iter.current = 0 THEN d ELSE [dlist_erase(at) EXCEPT !.iter = NoIter]

\* What the iterator still has to return: elements put behind it are missed,
\* elements put before it are met.
Iterating == obj.iter.direction # "none"
DlInsertHead(x) ==
  LET n == Alloc(obj).node IN
  /\ HasNode /\ obj' = dlist_insert_head(obj, x)
  /\ spec' = [spec EXCEPT !.nodes = <<n>> \o @,
              !.todo = IF obj.iter.direction = "tail" /\ @ # <<>> THEN Append(@, n) ELSE @]
DlInsertTail(x) ==
  LET n == Alloc(obj).node IN
  /\ HasNode /\ obj' = dlist_insert_tail(obj, x)
  /\ spec' = [spec EXCEPT !.nodes = Append(@, n),
              !.todo = IF obj.iter.direction = "head" /\ @ # <<>> THEN Append(@, n) ELSE @]

Gone(n) == spec' = [spec EXCEPT !.nodes = Remove(@, n), !.todo = Remove(@, n)]
\* dlist_pop and dlist_pop_back, not of the node the iterator stands at.
PopNode(n) ==
  /\ spec.nodes # <<>> /\ n \in {Head(spec.nodes), Last(spec.nodes)}
  /\ Iterating => n # obj.iter.nodelink
  /\ obj' = _dlist_remove([obj EXCEPT !.iter.current = IF @ = n THEN 0 ELSE @], n) /\ Gone(n)

IterNew(dir) ==
  /\ ~Iterating /\ obj' = dlist_iter_new(obj, dir)
  /\ spec' = [spec EXCEPT !.todo = IF dir = "head" THEN spec.nodes ELSE Reverse(spec.nodes)]
IterNext ==
  LET next == IF spec.todo = <<>> THEN 0 ELSE Head(spec.todo) IN
  /\ Iterating /\ obj' = dlist_next(obj)
  /\ spec' = [spec EXCEPT !.todo = IF @ = <<>> THEN @ ELSE Tail(@), !.ok = obj'.iter.current = next]
\* Right after the step that returned the element, no change in between:
\* the neighbour of the iterator is that element.
IterErase ==
  LET n == obj.iter.current IN
  /\ Iterating /\ n # 0
  /\ n = IF obj.iter.direction = "head" THEN obj.l[obj.iter.nodelink].prev ELSE obj.l[obj.iter.nodelink].next
  /\ obj' = [dlist_erase(obj) EXCEPT !.iter.current = 0] /\ Gone(n)
IterDel == Iterating /\ obj' = [obj EXCEPT !.iter = NoIter] /\ spec' = [spec EXCEPT !.todo = <<>>]

Clear == ~Iterating /\ obj' = dlist_clear(obj) /\ spec' = [spec EXCEPT !.nodes = <<>>]
RemoveValue(x) ==
  /\ ~Iterating /\ obj' = dlist_remove(obj, x)
  /\ spec' = LET i == SelectInSeq(spec.nodes, LAMBDA n : obj.data[n] = x) IN
             IF i = 0 THEN spec ELSE [spec EXCEPT !.nodes = RemoveAt(@, i)]

DlNext ==
  \/ \E x \in DlValues : DlInsertHead(x) \/ DlInsertTail(x) \/ RemoveValue(x)
  \/ \E n \in LinkNodes : PopNode(n)
  \/ \E dir \in {"head", "tail"} : IterNew(dir)
  \/ IterNext \/ IterErase \/ IterDel \/ Clear

(* The list is the sequence, no node is in both lists or lost, and an      *)
(* iterator returns, in order, exactly the elements that are still there   *)
(* when it comes to them, whatever was inserted, erased through it or      *)
(* popped meanwhile.                                                       *)
DlExact ==
  /\ Nodes(obj.l, Sentinel) = spec.nodes /\ obj.size = Len(spec.nodes)
  /\ Range(Nodes(obj.l, Sentinel)) \cup Range(Nodes(obj.l, Second)) = 1 .. obj.made
  /\ Len(Nodes(obj.l, Sentinel)) + Len(Nodes(obj.l, Second)) = obj.made
  /\ spec.ok
  /\ \A n \in Range(spec.nodes) : obj.data[n] \in DlValues
=============================================================================
