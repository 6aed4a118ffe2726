--------------------------------- MODULE Ring ---------------------------------
(***************************************************************************)
(* ztl_ring.c: a circle of nodes without a sentinel; head is the element   *)
(* of index 0.  Its insertions and removals are those of Linked.           *)
(***************************************************************************)
EXTENDS Linked

CONSTANT RingValues

NoHead == 0
RingInit ==
  /\ obj = [length |-> 0, head |-> NoHead, l |-> [n \in LinkNodes |-> [prev |-> n, next |-> n]],
            value |-> [n \in LinkNodes |-> NoHead], used |-> {}]
  /\ spec = <<>>

\* The shorter way round to the node of index i.
Locate(r, i) == IF i <= r.length \div 2 THEN Walk(r.l, r.head, "next", i) ELSE Walk(r.l, r.head, "prev", r.length - i)

Fresh(r) == CHOOSE n \in LinkNodes \ r.used : TRUE
\* A new node before node q.
AddBefore(r, q, x) ==
  LET p == Fresh(r) IN
  [r EXCEPT !.l = ztl_queue_insert_tail(r.l, q, p), !.value[p] = x, !.length = @ + 1, !.used = @ \cup {p}]
ring_addhi(r, x) ==
  LET p == Fresh(r) IN
  IF r.head = NoHead
  THEN [r EXCEPT !.head = p, !.l[p] = [prev |-> p, next |-> p], !.value[p] = x, !.length = @ + 1, !.used = @ \cup {p}]
  ELSE AddBefore(r, r.head, x)
ring_addlo(r, x) == LET a == ring_addhi(r, x) IN [a EXCEPT !.head = a.l[a.head].prev]
ring_add(r, pos, x) ==
  CASE pos = 1 \/ pos = -r.length -> ring_addlo(r, x)
    [] ~(pos = 1 \/ pos = -r.length) /\ (pos = 0 \/ pos = r.length + 1) -> ring_addhi(r, x)
    [] OTHER -> AddBefore(r, Locate(r, IF pos < 0 THEN pos + r.length ELSE pos - 1), x)

TakeOut(r, q) ==
  [r EXCEPT !.l = ztl_queue_remove(r.l, q), !.length = @ - 1, !.used = @ \ {q}, !.value[q] = NoHead,
            !.head = IF r.length = 1 THEN NoHead ELSE @]
ring_remove(r, i) ==
  LET q == Locate(r, i) IN TakeOut(IF i = 0 THEN [r EXCEPT !.head = r.l[@].next] ELSE r, q)
ring_remhi(r) == TakeOut(r, r.l[r.head].prev)
ring_remlo(r) == ring_remhi([r EXCEPT !.head = r.l[@].next])

\* A ring of length 0 passes the range test with n = 0, and n % length is
\* undefined: no caller may rotate an empty ring.
ring_rotate(r, n) == [r EXCEPT !.head = Locate(r, IF n >= 0 THEN n % r.length ELSE n + r.length)]

ring_put(r, i, x) == [r EXCEPT !.value[Locate(r, i)] = x]
ring_get(r, i) == r.value[Locate(r, i)]

\* Where an element added at pos goes: 1 is the front, 0 the back, a
\* negative position counts from the back.
Slot(pos) == CASE pos > 0 -> pos [] pos = 0 -> Len(spec) + 1
              [] pos < 0 -> pos + Len(spec) + 1

Room == Len(spec) < Cardinality(LinkNodes)
RingAdd(pos, x) == Room /\ obj' = ring_add(obj, pos, x) /\ spec' = InsertAt(spec, Slot(pos), x)
RingPush(x) == Room /\ \/ obj' = ring_addlo(obj, x) /\ spec' = <<x>> \o spec
                       \/ obj' = ring_addhi(obj, x) /\ spec' = Append(spec, x)
RingRemove(i) == obj' = ring_remove(obj, i) /\ spec' = RemoveAt(spec, i + 1)
RingPop == spec # <<>> /\ \/ obj' = ring_remlo(obj) /\ spec' = Tail(spec)
                          \/ obj' = ring_remhi(obj) /\ spec' = Front(spec)
RingPut(i, x) == obj' = ring_put(obj, i, x) /\ spec' = [spec EXCEPT ![i + 1] = x]
RingRotate(n) ==
  LET i == IF n < 0 THEN n + Len(spec) ELSE n % Len(spec) IN
  obj' = ring_rotate(obj, n) /\ spec' = SubSeq(spec, i + 1, Len(spec)) \o SubSeq(spec, 1, i)

RingNext ==
  \/ \E x \in RingValues : RingPush(x) \/ \E pos \in -Len(spec) .. Len(spec) + 1 : RingAdd(pos, x)
  \/ \E i \in 0 .. Len(spec) - 1 : RingRemove(i) \/ \E x \in RingValues : RingPut(i, x)
  \/ RingPop
  \/ spec # <<>> /\ \E n \in -Len(spec) .. Len(spec) : RingRotate(n)

(* By index, from either side, the ring reads as the sequence; adding at a *)
(* position and rotating move nothing else.                                *)
RingExact ==
  /\ obj.length = Len(spec) /\ (obj.head = NoHead <=> spec = <<>>)
  /\ \A i \in 0 .. Len(spec) - 1 :
       /\ ring_get(obj, i) = spec[i + 1]
       /\ obj.value[Walk(obj.l, obj.head, "next", i)] = spec[i + 1]
       /\ obj.value[Walk(obj.l, obj.head, "prev", Len(spec) - i)] = spec[i + 1]
=============================================================================
