------------------------------- MODULE Palloc -------------------------------
(***************************************************************************)
(* The region allocator of ztl_palloc.c as operators on a pool.  An        *)
(* address is [b, at]: an offset inside block b.  Sizes are in units of    *)
(* which PoolAlign make a pointer.  Every allocation returns the pool      *)
(* and the address, Null when malloc has no more.                          *)
(***************************************************************************)
EXTENDS Integers, Sequences, FiniteSets, SequencesExt

CONSTANTS PoolSize,      \* the size given to ztl_create_pool
          PoolHead,      \* sizeof(ztl_pool_t), before the first block's memory
          DataHead,      \* sizeof(ztl_pool_data_t), before a later block's
          LargeNode,     \* sizeof(ztl_pool_large_t)
          PoolAlign,
          TiredAt,       \* 5 failures move current on
          LargeScan,     \* 5 records are searched for a free one
          MaxPoolBlocks, MaxLarge    \* when malloc gives no more

Null == [b |-> 0, at |-> 0]
ztl_align_ptr(m) == ((m + PoolAlign - 1) \div PoolAlign) * PoolAlign

ztl_create_pool == [blocks |-> <<[last |-> PoolHead, failed |-> 0]>>, current |-> 1, large |-> <<>>]
PoolMax == PoolSize - PoolHead

\* p->d.end - m is compared as a size_t: a pointer aligned past the end fits.
Start(pool, b, aligned) == LET m == pool.blocks[b].last IN IF aligned THEN ztl_align_ptr(m) ELSE m
Fits(m, size) == PoolSize - m >= size \/ m > PoolSize

\* Each block after current that could not serve counts a failure; current
\* goes behind one that failed too often.
ztl_palloc_block(pool, size) ==
  LET n == Len(pool.blocks)
      m == ztl_align_ptr(DataHead)
      tired == {p \in pool.current .. n - 1 : pool.blocks[p].failed >= TiredAt}
      counted == [p \in 1 .. n |-> IF p >= pool.current /\ p < n
                                   THEN [pool.blocks[p] EXCEPT !.failed = @ + 1] ELSE pool.blocks[p]] IN
  IF n = MaxPoolBlocks THEN [pool |-> pool, m |-> Null]
  ELSE [pool |-> [pool EXCEPT !.blocks = Append(counted, [last |-> m + size, failed |-> 0]),
                              !.current = IF tired = {} THEN @ ELSE (CHOOSE p \in tired : \A q \in tired : q <= p) + 1],
        m |-> [b |-> n + 1, at |-> m]]

ztl_palloc_small(pool, size, aligned) ==
  LET ok == {p \in pool.current .. Len(pool.blocks) : Fits(Start(pool, p, aligned), size)} IN
  IF ok = {} THEN ztl_palloc_block(pool, size)
  ELSE LET b == CHOOSE p \in ok : \A q \in ok : p <= q
           m == Start(pool, b, aligned) IN
       [pool |-> [pool EXCEPT !.blocks[b].last = m + size], m |-> [b |-> b, at |-> m]]

\* Block 0 stands for malloc; at is the number of the piece.
Pieces(pool) == {pool.large[i].alloc : i \in DOMAIN pool.large} \ {0}
Malloc(pool) == CHOOSE k \in 1 .. MaxLarge + 1 : k \notin Pieces(pool) /\ \A j \in 1 .. k - 1 : j \in Pieces(pool)
\* The record of a large piece is itself in the pool.
Record(pool, k) ==
  LET r == ztl_palloc_small(pool, LargeNode, TRUE) IN
  IF r.m = Null THEN [pool |-> r.pool, m |-> Null]
  ELSE [pool |-> [r.pool EXCEPT !.large = <<[alloc |-> k, node |-> r.m]>> \o @], m |-> [b |-> 0, at |-> k]]
\* One of the first records may be free; only so many are looked at.
ztl_palloc_large(pool) ==
  LET k == Malloc(pool)
      free == {i \in 1 .. Len(pool.large) : i <= LargeScan /\ pool.large[i].alloc = 0} IN
  IF k > MaxLarge THEN [pool |-> pool, m |-> Null]
  ELSE IF free = {} THEN Record(pool, k)
  ELSE [pool |-> [pool EXCEPT !.large[CHOOSE i \in free : \A j \in free : i <= j].alloc = k],
        m |-> [b |-> 0, at |-> k]]
ztl_pmemalign(pool) == IF Malloc(pool) > MaxLarge THEN [pool |-> pool, m |-> Null] ELSE Record(pool, Malloc(pool))

ztl_palloc(pool, size) == IF size <= PoolMax THEN ztl_palloc_small(pool, size, TRUE) ELSE ztl_palloc_large(pool)
ztl_pnalloc(pool, size) == IF size <= PoolMax THEN ztl_palloc_small(pool, size, FALSE) ELSE ztl_palloc_large(pool)

ztl_pfree(pool, k) ==
  [pool EXCEPT !.large = [i \in DOMAIN pool.large |->
     IF pool.large[i].alloc = k THEN [pool.large[i] EXCEPT !.alloc = 0] ELSE pool.large[i]]]
\* Every block starts again behind a whole ztl_pool_t.
ztl_reset_pool(pool) == [blocks |-> [b \in DOMAIN pool.blocks |-> [last |-> PoolHead, failed |-> 0]],
                         current |-> 1, large |-> <<>>]

\* A piece of memory in use: where, and how long.
Region(m, size) == [b |-> m.b, at |-> m.at, size |-> IF m.b = 0 THEN 1 ELSE size]
Overlap(r, s) == r.b = s.b /\ r.at < s.at + s.size /\ s.at < r.at + r.size
Records(pool) == {Region(pool.large[i].node, LargeNode) : i \in DOMAIN pool.large}
=============================================================================
