------------------------------- MODULE Arrays -------------------------------
(***************************************************************************)
(* A pool shared by its direct users and by one growing array of           *)
(* ztl_array.c.  obj is the pool and the array header, spec the memory     *)
(* the direct users hold and the sequence the array stands for.  harm      *)
(* remembers a call the array does not serve: ztl_array_clear gives back   *)
(* the elements and the header it goes on using, ztl_array_reserve         *)
(* compares an address with a number of elements, ztl_array_push_n doubles *)
(* only once.                                                              *)
(***************************************************************************)
EXTENDS Palloc

CONSTANTS ArrayHead,     \* sizeof(ztl_array_t)
          AllocSizes, EltSize, ArrayNum, ArrayValues, MaxElts, MaxPieces

VARIABLES obj, spec

NoArray == [head |-> Null, elts |-> Null, nelts |-> 0, nalloc |-> 0, cells |-> <<>>]
ArrInit == /\ obj = [pool |-> ztl_create_pool, arr |-> NoArray]
           /\ spec = [held |-> {}, seq |-> <<>>, harm |-> FALSE]
HasArray == obj.arr # NoArray

Took(r, size) == /\ obj' = [obj EXCEPT !.pool = r.pool]
                 /\ spec' = IF r.m = Null THEN spec ELSE [spec EXCEPT !.held = @ \cup {Region(r.m, size)}]
PoolAlloc(size) == Cardinality(spec.held) < MaxPieces /\ Took(ztl_palloc(obj.pool, size), size)
PoolNalloc(size) == Cardinality(spec.held) < MaxPieces /\ Took(ztl_pnalloc(obj.pool, size), size)
PoolMemalign(size) == Cardinality(spec.held) < MaxPieces /\ Len(obj.pool.large) < MaxPieces /\ Took(ztl_pmemalign(obj.pool), size)
\* Only large pieces can be given back.
PoolFree(r) == /\ r.b = 0
               /\ obj' = [obj EXCEPT !.pool = ztl_pfree(@, r.at)] /\ spec' = [spec EXCEPT !.held = @ \ {r}]
PoolReset == /\ obj.pool # ztl_create_pool
             /\ obj' = [pool |-> ztl_reset_pool(obj.pool), arr |-> NoArray]
             /\ spec' = [held |-> {}, seq |-> <<>>, harm |-> FALSE]

\* The header stays in the pool when the elements do not fit.
ztl_array_create ==
  LET h == ztl_palloc(obj.pool, ArrayHead)
      r == ztl_palloc(h.pool, ArrayNum * EltSize) IN
  /\ ~HasArray /\ h.m # Null
  /\ obj' = [pool |-> r.pool,
             arr |-> IF r.m = Null THEN NoArray
                     ELSE [head |-> h.m, elts |-> r.m, nelts |-> 0, nalloc |-> ArrayNum, cells |-> <<>>]]
  /\ UNCHANGED spec

Ends(pool, m, bytes) == m.b = 1 /\ m.at + bytes = pool.blocks[1].last
AtEnd(o, bytes) == Ends(o.pool, o.arr.elts, bytes)
ztl_array_reserve(o, n) ==
  LET r == ztl_palloc(o.pool, n * EltSize) IN
  IF n <= o.arr.nalloc THEN o
  ELSE IF AtEnd(o, n) /\ o.pool.blocks[1].last + EltSize <= PoolSize
  THEN [o EXCEPT !.pool.blocks[1].last = @ + EltSize, !.arr.nalloc = @ + 1]
  ELSE IF r.m = Null THEN o
  ELSE [pool |-> r.pool, arr |-> [o.arr EXCEPT !.elts = r.m, !.nalloc = n]]
\* The comparison takes the array for the last allocation when it is not.
Mistaken(o, n) == n > o.arr.nalloc /\ AtEnd(o, n) /\ ~AtEnd(o, o.arr.nalloc * EltSize)

Reserve(n) == /\ HasArray /\ obj' = ztl_array_reserve(obj, n)
              /\ spec' = [spec EXCEPT !.harm = @ \/ Mistaken(obj, n)]
ztl_array_push_n(n, v) ==
  LET full == obj.arr.nelts + n > obj.arr.nalloc
      o == IF full THEN ztl_array_reserve(obj, 2 * obj.arr.nalloc) ELSE obj IN
  /\ HasArray /\ obj.arr.nelts + n <= MaxElts
  /\ IF full /\ o = obj THEN UNCHANGED <<obj, spec>>
     ELSE /\ obj' = [o EXCEPT !.arr.nelts = @ + n, !.arr.cells = @ \o [i \in 1 .. n |-> v]]
          /\ spec' = [spec EXCEPT !.seq = @ \o [i \in 1 .. n |-> v],
                                  !.harm = @ \/ obj.arr.nelts + n > o.arr.nalloc
                                             \/ (full /\ Mistaken(obj, 2 * obj.arr.nalloc))]
ztl_array_pop_back == /\ obj.arr.nelts > 0
                      /\ obj' = [obj EXCEPT !.arr.nelts = @ - 1, !.arr.cells = Front(@)]
                      /\ spec' = [spec EXCEPT !.seq = Front(@)]
\* The cells behind the removed one move up by one.
MovedUp(s, x) == [i \in 1 .. Len(s) - 1 |-> IF i < x THEN s[i] ELSE s[i + 1]]
ztl_array_remove_index(x) ==
  /\ x \in 1 .. obj.arr.nelts
  /\ obj' = [obj EXCEPT !.arr.nelts = @ - 1, !.arr.cells = MovedUp(@, x)]
  /\ spec' = [spec EXCEPT !.seq = RemoveAt(@, x)]
ztl_array_remove_value(v) ==
  LET at == {i \in 1 .. obj.arr.nelts : obj.arr.cells[i] = v}
      x == CHOOSE i \in at : \A j \in at : i <= j IN
  /\ at # {}
  /\ obj' = [obj EXCEPT !.arr.nelts = @ - 1, !.arr.cells = MovedUp(@, x)]
  /\ spec' = [spec EXCEPT !.seq = RemoveFirst(@, v)]

Return(pool, m, bytes) == IF Ends(pool, m, bytes) THEN [pool EXCEPT !.blocks[1].last = m.at] ELSE pool
GivenBack(o) == Return(Return(o.pool, o.arr.elts, o.arr.nalloc * EltSize), o.arr.head, ArrayHead)
ztl_array_clear == /\ HasArray
                   /\ obj' = [pool |-> GivenBack(obj), arr |-> [obj.arr EXCEPT !.nelts = 0, !.cells = <<>>]]
                   /\ spec' = [spec EXCEPT !.seq = <<>>, !.harm = @ \/ GivenBack(obj) # obj.pool]
ztl_array_release == /\ HasArray
                     /\ obj' = [pool |-> GivenBack(obj), arr |-> NoArray]
                     /\ spec' = [spec EXCEPT !.seq = <<>>]

ArrNext == /\ ~spec.harm
           /\ \/ \E s \in AllocSizes : PoolAlloc(s) \/ PoolNalloc(s) \/ PoolMemalign(s)
              \/ \E r \in spec.held : PoolFree(r)
              \/ PoolReset
              \/ ztl_array_create \/ ztl_array_pop_back \/ ztl_array_clear \/ ztl_array_release
              \/ \E n \in 1 .. MaxElts : Reserve(n) \/ ztl_array_remove_index(n)
              \/ \E v \in ArrayValues : ztl_array_remove_value(v) \/ \E n \in 1 .. 2 : ztl_array_push_n(n, v)

Arrays == IF HasArray THEN {Region(obj.arr.head, ArrayHead), Region(obj.arr.elts, obj.arr.nalloc * EltSize)} ELSE {}
Used == spec.held \cup Records(obj.pool) \cup Arrays

(* No two pieces in use, the pool's own records and the array's header and *)
(* elements included, overlap or leave their block, and the array holds    *)
(* its sequence inside what it allocated.                                  *)
ArraysExact ==
  ~spec.harm =>
  /\ \A r \in Used : r.b > 0 => r.at >= (IF r.b = 1 THEN PoolHead ELSE DataHead) /\ r.at + r.size <= PoolSize
  /\ \A r, s \in Used : r # s => ~Overlap(r, s)
  /\ Cardinality(Used) = Cardinality(spec.held) + Len(obj.pool.large) + Cardinality(Arrays)
  /\ obj.arr.nelts <= obj.arr.nalloc /\ SubSeq(obj.arr.cells, 1, obj.arr.nelts) = spec.seq
=============================================================================
