------------------------------- MODULE Table --------------------------------
(***************************************************************************)
(* ztl_table.c: a hash table with incremental rehashing whose nodes come   *)
(* from a pool and are recycled through the list `idles'.  The links of    *)
(* the nodes are kept as they are in memory, because a freed node keeps    *)
(* its own.  Sizes are powers of two, so h & sizemask is h % size.         *)
(***************************************************************************)
EXTENDS Integers, FiniteSets, SequencesExt

CONSTANTS
  Keys, Vals, Hash,
  MaxNodes,       \* bound on the nodes ever taken from the pool
  InitSize,       \* ZTL_TABLE_INIT_SIZE
  ForceResize     \* table_force_resize_ratio, 5 in the code

VARIABLES
  tab,     \* [ti, rehashidx, iterators, canResize, reserve, idles]
  mem,     \* the nodes made so far: [next, key, val]
  titer,   \* the one iterator in use
  tmap,    \* what the table should hold
  lost     \* a node that is linked was handed out again

tableVars == <<tab, mem, titer, tmap, lost>>

NULL == 0
table_reset == [used |-> 0, buckets |-> << >>]
NoIterator == [on |-> FALSE]

Size(t) == Cardinality(DOMAIN t.buckets)
Rehashing(t) == t.rehashidx # -1
NextPower(n) == CHOOSE p \in {InitSize * 2^i : i \in 0 .. 8} :
                   p >= n /\ (p = InitSize \/ p \div 2 < n)

\* The nodes from n on, as the links lead.
Walk(m, n) ==
  LET go[x \in 0 .. MaxNodes, fuel \in 0 .. MaxNodes] ==
        IF x = NULL \/ fuel = 0 THEN << >> ELSE <<x>> \o go[m[x].next, fuel - 1]
  IN go[n, MaxNodes]

ChainNodes(t, m, i, k) == Walk(m, t.ti[i].buckets[Hash[k] % Size(t.ti[i])])
AllNodes(t, m, i) == UNION {ToSet(Walk(m, t.ti[i].buckets[b])) : b \in DOMAIN t.ti[i].buckets}
Linked(t, m) == AllNodes(t, m, 0) \cup AllNodes(t, m, 1)

-----------------------------------------------------------------------------
(* Rehashing. A state of the table is a pair of tab and mem.               *)

table_expand(t, size) ==
  LET n == NextPower(size)
      ti == [used |-> 0, buckets |-> [b \in 0 .. n - 1 |-> NULL]] IN
  IF Rehashing(t) \/ t.ti[0].used > size THEN t
  ELSE IF Size(t.ti[0]) = 0
       THEN [t EXCEPT !.ti[0] = ti, !.reserve = n]
       ELSE [t EXCEPT !.ti[1] = ti, !.reserve = n, !.rehashidx = 0]

table_expand_if_needed(t) ==
  LET used == t.ti[0].used  size == Size(t.ti[0]) IN
  CASE Rehashing(t) -> t
    [] ~Rehashing(t) /\ size = 0 -> table_expand(t, t.reserve)
    [] ~Rehashing(t) /\ size # 0 ->
         IF used >= size /\ (t.canResize \/ used \div size > ForceResize)
         THEN table_expand(t, used * 2) ELSE t

\* A broken variant: the bucket is that of the smaller table.
MoveNode_OldMask(s, n) ==
  LET b == Hash[s.m[n].key] % Size(s.t.ti[0]) IN
  [t |-> [s.t EXCEPT !.ti[0].used = @ - 1, !.ti[1].used = @ + 1, !.ti[1].buckets[b] = n],
   m |-> [s.m EXCEPT ![n].next = s.t.ti[1].buckets[b]]]

MoveNode(s, n) ==
  LET b == Hash[s.m[n].key] % Size(s.t.ti[1]) IN
  [t |-> [s.t EXCEPT !.ti[0].used = @ - 1, !.ti[1].used = @ + 1, !.ti[1].buckets[b] = n],
   m |-> [s.m EXCEPT ![n].next = s.t.ti[1].buckets[b]]]

\* One turn of the loop of table_rehash: finish, or move the next chain.
RehashTurn(s) ==
  LET t == s.t
      full == {b \in DOMAIN t.ti[0].buckets : b >= t.rehashidx /\ t.ti[0].buckets[b] # NULL}
      b == CHOOSE x \in full : \A y \in full : x <= y
      moved == FoldLeft(MoveNode, s, Walk(s.m, t.ti[0].buckets[b])) IN
  IF ~Rehashing(t) THEN s
  ELSE IF t.ti[0].used = 0
  THEN [s EXCEPT !.t.ti = [i \in {0, 1} |-> IF i = 0 THEN t.ti[1] ELSE table_reset],
                 !.t.rehashidx = -1]
  ELSE [moved EXCEPT !.t.ti[0].buckets[b] = NULL, !.t.rehashidx = b + 1]

RehashN(s, n) ==
  LET go[i \in 0 .. n] == IF i = 0 THEN s ELSE RehashTurn(go[i - 1]) IN go[n]

table_rehash_step(s) == IF s.t.iterators = 0 THEN RehashN(s, 1) ELSE s

Here == [t |-> tab, m |-> mem]
Stepped == IF Rehashing(tab) THEN table_rehash_step(Here) ELSE Here

-----------------------------------------------------------------------------
(* Finding, inserting, removing.                                           *)

\* <<table, position in its chain>> of k, or << >>.
Place(s, k) ==
  LET first(i) == SelectInSeq(ChainNodes(s.t, s.m, i, k), LAMBDA n : s.m[n].key = k)
      p0 == first(0)
      p1 == first(1) IN
  CASE Size(s.t.ti[0]) = 0 -> << >>
    [] Size(s.t.ti[0]) # 0 /\ p0 # 0 -> <<0, p0>>
    [] OTHER -> IF Rehashing(s.t) /\ p1 # 0 THEN <<1, p1>> ELSE << >>

NodeAt(s, k) == LET p == Place(s, k) IN ChainNodes(s.t, s.m, p[1], k)[p[2]]

table_find(s, k) == IF Place(s, k) = << >> THEN NULL ELSE NodeAt(s, k)

\* A recycled node first; otherwise a new one from the pool.
table_node_alloc(t, m) == IF t.idles # NULL THEN t.idles ELSE Len(m) + 1

\* table_insert of a key that is there: only the value changes.
InsertFound(k, v) ==
  LET s == Stepped IN
  /\ table_find(s, k) # NULL
  /\ tab' = s.t
  /\ mem' = [s.m EXCEPT ![NodeAt(s, k)].val = v]
  /\ tmap' = [tmap EXCEPT ![k] = v]
  /\ UNCHANGED <<titer, lost>>

InsertNew(k, v) ==
  LET s == Stepped
      t == table_expand_if_needed(s.t)
      n == table_node_alloc(t, s.m)
      i == IF Rehashing(t) THEN 1 ELSE 0
      b == Hash[k] % Size(t.ti[i])
      node == [next |-> t.ti[i].buckets[b], key |-> k, val |-> v]
      after == IF t.idles # NULL THEN s.m[n].next ELSE NULL IN
  /\ table_find(s, k) = NULL
  /\ n <= MaxNodes
  /\ lost' = (n \in Linked(t, s.m))
  /\ tab' = [t EXCEPT !.idles = after, !.ti[i].used = @ + 1, !.ti[i].buckets[b] = n]
  /\ mem' = IF n > Len(s.m) THEN Append(s.m, node) ELSE [s.m EXCEPT ![n] = node]
  /\ tmap' = [j \in DOMAIN tmap \cup {k} |-> IF j = k THEN v ELSE tmap[j]]
  /\ UNCHANGED titer

table_insert(k, v) == InsertFound(k, v) \/ InsertNew(k, v)

\* The link of the freed node is set only if the list was not empty. Its key
\* and value are not read again.
table_node_free(s, n) ==
  [t |-> [s.t EXCEPT !.idles = n],
   m |-> [s.m EXCEPT ![n] = [next |-> IF s.t.idles # NULL THEN s.t.idles ELSE @.next,
                             key |-> NULL, val |-> NULL]]]

Unlinked(s, k) ==
  LET p == Place(s, k)
      c == ChainNodes(s.t, s.m, p[1], k)
      b == Hash[k] % Size(s.t.ti[p[1]])
      n == c[p[2]] IN
  [t |-> [s.t EXCEPT !.ti[p[1]].used = @ - 1,
                     !.ti[p[1]].buckets[b] = IF p[2] = 1 THEN s.m[n].next ELSE @],
   m |-> IF p[2] = 1 THEN s.m ELSE [s.m EXCEPT ![c[p[2] - 1]].next = s.m[n].next]]

Removed(s, k) == table_node_free(Unlinked(s, k), NodeAt(s, k))

table_remove(k) ==
  LET s == Stepped
      r == IF table_find(s, k) = NULL THEN s ELSE Removed(s, k) IN
  /\ Size(tab.ti[0]) # 0
  /\ titer.on => ~(titer.next # NULL /\ mem[titer.next].key = k)
  /\ tab' = r.t
  /\ mem' = r.m
  /\ tmap' = [j \in DOMAIN tmap \ {k} |-> tmap[j]]
  /\ titer' = IF titer.on THEN [titer EXCEPT !.owed = @ \ {k}] ELSE titer
  /\ UNCHANGED lost

table_clear ==
  LET buckets(i) == [b \in 1 .. Size(tab.ti[i]) |-> Walk(mem, tab.ti[i].buckets[b - 1])]
      r == FoldLeft(table_node_free, Here, FlattenSeq(buckets(0)) \o FlattenSeq(buckets(1))) IN
  /\ ~titer.on
  /\ Size(tab.ti[0]) # 0
  /\ tab' = [r.t EXCEPT !.ti = [i \in {0, 1} |-> table_reset], !.rehashidx = -1, !.iterators = 0]
  /\ mem' = r.m
  /\ tmap' = << >>
  /\ UNCHANGED <<titer, lost>>

\* table_get_value and the other lookups change only the rehashing.
table_get_value ==
  /\ Size(tab.ti[0]) # 0
  /\ tab' = Stepped.t
  /\ mem' = Stepped.m
  /\ UNCHANGED <<titer, tmap, lost>>

table_resize ==
  LET used == tab.ti[0].used IN
  /\ tab.canResize /\ ~Rehashing(tab)
  /\ tab' = table_expand(tab, IF used < InitSize THEN InitSize ELSE used)
  /\ UNCHANGED <<mem, titer, tmap, lost>>

table_resize_disable ==
  /\ tab' = [tab EXCEPT !.canResize = ~@]
  /\ UNCHANGED <<mem, titer, tmap, lost>>

\* Explicit rehashing, also that of table_rehash_ms, ignores iterators.
table_rehash(n) ==
  /\ ~titer.on
  /\ Rehashing(tab)
  /\ tab' = RehashN(Here, n).t
  /\ mem' = RehashN(Here, n).m
  /\ UNCHANGED <<titer, tmap, lost>>

-----------------------------------------------------------------------------
(* A safe iterator.                                                        *)

table_iter_safe_new ==
  /\ ~titer.on
  /\ titer' = [on |-> TRUE, i |-> 0, index |-> -1, next |-> NULL, owed |-> DOMAIN tmap,
               end |-> FALSE]
  /\ UNCHANGED <<tab, mem, tmap, lost>>

\* The buckets before the iterator that are not empty.
Ahead == {p \in {0, 1} \X (DOMAIN tab.ti[0].buckets \cup DOMAIN tab.ti[1].buckets) :
            /\ (p[1] = titer.i /\ p[2] > titer.index) \/ (p[1] > titer.i /\ Rehashing(tab))
            /\ p[2] \in DOMAIN tab.ti[p[1]].buckets
            /\ tab.ti[p[1]].buckets[p[2]] # NULL}

Yields(i, b, n) == [titer EXCEPT !.i = i, !.index = b, !.next = mem[n].next,
                                 !.owed = @ \ {mem[n].key}]

table_next ==
  LET p == CHOOSE x \in Ahead : \A y \in Ahead : x[1] < y[1] \/ (x[1] = y[1] /\ x[2] <= y[2]) IN
  /\ titer.on /\ ~titer.end
  /\ titer' = CASE titer.next # NULL -> Yields(titer.i, titer.index, titer.next)
                [] titer.next = NULL /\ Ahead # {} -> Yields(p[1], p[2], tab.ti[p[1]].buckets[p[2]])
                [] OTHER -> [titer EXCEPT !.end = TRUE]
  /\ tab' = IF titer.next = NULL /\ titer.i = 0 /\ titer.index = -1
            THEN [tab EXCEPT !.iterators = @ + 1] ELSE tab
  /\ UNCHANGED <<mem, tmap, lost>>

\* Back to the start, here after an iteration; table_next then counts the
\* iterator a second time.
table_iter_rewind ==
  /\ titer.on /\ titer.end
  /\ tab.iterators < 2
  /\ titer' = [titer EXCEPT !.i = 0, !.index = -1, !.owed = DOMAIN tmap, !.end = FALSE]
  /\ UNCHANGED <<tab, mem, tmap, lost>>

table_iter_free ==
  /\ titer.on
  /\ titer' = NoIterator
  /\ tab' = IF titer.index # -1 \/ titer.end THEN [tab EXCEPT !.iterators = @ - 1] ELSE tab
  /\ UNCHANGED <<mem, tmap, lost>>

-----------------------------------------------------------------------------
Init ==
  /\ tab = [ti |-> [i \in {0, 1} |-> table_reset], rehashidx |-> -1, iterators |-> 0,
            canResize |-> TRUE, reserve |-> InitSize, idles |-> NULL]
  /\ mem = << >>
  /\ titer = NoIterator
  /\ tmap = << >>
  /\ lost = FALSE

\* What follows once a linked node was handed out has no meaning.
Next ==
  /\ ~lost
  /\ \/ \E k \in Keys : table_remove(k) \/ \E v \in Vals : table_insert(k, v)
     \/ table_get_value \/ table_clear \/ table_resize \/ table_resize_disable
     \/ \E n \in {1, 2 * InitSize} : table_rehash(n)
     \/ table_iter_safe_new \/ table_next \/ table_iter_rewind \/ table_iter_free

-----------------------------------------------------------------------------
(* The idle list has run into nodes that are still linked: a removed node  *)
(* that started the list kept the link to its successor.                   *)
Spoiled == lost \/ (Linked(tab, mem) \cap ToSet(Walk(mem, tab.idles)) # {})

(* The table is the finite map its callers made: every key is found with   *)
(* the value last inserted, and the counts are exact.                      *)
TableIsMap ==
  /\ \A k \in Keys : LET n == table_find(Here, k) IN
       IF k \in DOMAIN tmap THEN n # NULL /\ mem[n].val = tmap[k] ELSE n = NULL
  /\ tab.ti[0].used + tab.ti[1].used = Cardinality(DOMAIN tmap)

(* As long as no freed node drags live ones into the idle list, the table  *)
(* is the map, and an iteration that ended returned every key that was     *)
(* there since it began or was rewound.                                    *)
TableIsMapUnspoiled ==
  ~Spoiled => TableIsMap /\ (titer.on /\ titer.end => titer.owed = {})
=============================================================================
