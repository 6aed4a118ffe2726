-------------------------------- MODULE Dict --------------------------------
(***************************************************************************)
(* ztl_dict.c: a chained hash table that grows and shrinks by incremental  *)
(* rehashing.  While it rehashes, entries live in two tables, and every    *)
(* operation moves one more bucket.  An entry is known by its key, a chain *)
(* is the sequence of its entries, a table a function from bucket numbers  *)
(* to chains (empty before the first expansion).  Sizes are powers of two, *)
(* so h & sizemask is h % size.                                            *)
(***************************************************************************)
EXTENDS Integers, FiniteSets, SequencesExt

CONSTANTS
  Keys,          \* not 0, which stands for no entry
  Vals,
  Hash,          \* the hash of each key
  InitialSize,   \* DICT_HT_INITIAL_SIZE, 4 in the code
  EmptyVisits,   \* empty buckets one rehash step may pass, 10 in the code
  ForceRatio,    \* dict_force_resize_ratio, 5 in the code
  Word           \* 2^bits of the scan cursor

ASSUME DictAssumption ==
  /\ IsFiniteSet(Keys) /\ Hash \in [Keys -> Nat]
  /\ InitialSize \in Nat \ {0} /\ EmptyVisits \in Nat

\* The cursor and the tables have powers of two, whose divisors are even, and
\* the cursor is as wide as the largest table.
ASSUME WordAssumption ==
  /\ 0 \notin Keys
  /\ Word \in Nat \ {0} /\ \A q \in 2 .. Word : Word % q = 0 => q % 2 = 0
  /\ Word % InitialSize = 0 /\ 2 * Cardinality(Keys) <= Word

VARIABLES
  dict,  \* [ht, rehashidx, iterators, canResize]
  iter,  \* the one iterator in use, or NoIter
  scan,  \* the scan in progress, or NoScan
  map    \* what the dictionary should hold: a function on the present keys

dictVars == <<dict, iter, scan, map>>

NoTable == [used |-> 0, table |-> << >>]
NoIter  == [on |-> FALSE]
NoScan  == [on |-> FALSE]

Size(t) == Cardinality(DOMAIN t.table)
Bucket(h, t) == h % Size(t)
IsRehashing(d) == d.rehashidx # -1
dictSize(d) == d.ht[0].used + d.ht[1].used
NewTable(n) == [used |-> 0, table |-> [i \in 0 .. n - 1 |-> << >>]]
\* Doubles until it is enough; n times are always enough.
NextPower(n) ==
  LET go[k \in 0 .. n] == IF k = 0 THEN InitialSize
                          ELSE IF go[k - 1] >= n THEN go[k - 1] ELSE 2 * go[k - 1]
  IN go[n]
ChainKeys(c) == {c[i].key : i \in DOMAIN c}
TableKeys(t) == UNION {ChainKeys(t.table[i]) : i \in DOMAIN t.table}

-----------------------------------------------------------------------------
(* Expansion and rehashing. A result [d, ok] is a dictionary and a status. *)

Expand(d, size) ==
  LET n == NextPower(size) IN
  IF IsRehashing(d) \/ d.ht[0].used > size \/ n = Size(d.ht[0])
  THEN [d |-> d, ok |-> FALSE]
  ELSE [d |-> IF Size(d.ht[0]) = 0
              THEN [d EXCEPT !.ht[0] = NewTable(n)]
              ELSE [d EXCEPT !.ht[1] = NewTable(n), !.rehashidx = 0],
        ok |-> TRUE]

ExpandIfNeeded(d) ==
  LET t == d.ht[0] IN
  CASE IsRehashing(d) -> [d |-> d, ok |-> TRUE]
    [] ~IsRehashing(d) /\ Size(t) = 0 -> Expand(d, InitialSize)
    [] ~IsRehashing(d) /\ Size(t) # 0 ->
         IF t.used >= Size(t) /\ (d.canResize \/ t.used \div Size(t) > ForceRatio)
         THEN Expand(d, t.used * 2)
         ELSE [d |-> d, ok |-> TRUE]

\* An entry goes to the front of its chain: a new one, or one that is moved.
AddFront(t, e) ==
  LET b == Bucket(Hash[e.key], t) IN
  [used |-> t.used + 1, table |-> [t.table EXCEPT ![b] = <<e>> \o @]]

\* The entries of an old chain go one after the other.
MoveChain(t, c) ==
  LET go[j \in 0 .. Len(c)] == IF j = 0 THEN t ELSE AddFront(go[j - 1], c[j]) IN go[Len(c)]

RehashBucket(d) ==
  LET c == d.ht[0].table[d.rehashidx] IN
  [d EXCEPT !.ht[1] = MoveChain(@, c),
            !.ht[0] = [used |-> @.used - Len(c),
                       table |-> [@.table EXCEPT ![d.rehashidx] = << >>]],
            !.rehashidx = @ + 1]

\* The first bucket from rehashidx on that is not empty.
NextFull(d) == CHOOSE i \in d.rehashidx .. Size(d.ht[0]) - 1 :
                  /\ d.ht[0].table[i] # << >>
                  /\ \A j \in d.rehashidx .. i - 1 : d.ht[0].table[j] = << >>

FinishRehash(d) ==
  IF d.ht[0].used = 0
  THEN [d EXCEPT !.ht = [i \in {0, 1} |-> IF i = 0 THEN d.ht[1] ELSE NoTable],
                 !.rehashidx = -1]
  ELSE d

\* dictRehash(d, n): n buckets, or until `visits' empty ones were passed.
Rehash(d, n) ==
  LET go[k \in 0 .. n] ==
        IF k = 0 THEN [d |-> d, visits |-> n * EmptyVisits, out |-> FALSE]
        ELSE LET p == go[k - 1] IN
             IF p.out \/ p.d.ht[0].used = 0 THEN p
             ELSE LET skip == NextFull(p.d) - p.d.rehashidx IN
                  IF skip >= p.visits
                  THEN [d |-> [p.d EXCEPT !.rehashidx = @ + p.visits], visits |-> 0, out |-> TRUE]
                  ELSE [d |-> RehashBucket([p.d EXCEPT !.rehashidx = @ + skip]),
                        visits |-> p.visits - skip, out |-> FALSE]
  IN IF ~IsRehashing(d) THEN d
     ELSE IF go[n].out THEN go[n].d ELSE FinishRehash(go[n].d)

RehashStep(d) == IF IsRehashing(d) /\ d.iterators = 0 THEN Rehash(d, 1) ELSE d

-----------------------------------------------------------------------------
(* Lookup, insertion, deletion.                                            *)

Chain(d, i, k) == d.ht[i].table[Bucket(Hash[k], d.ht[i])]
Holds(d, i, k) == k \in ChainKeys(Chain(d, i, k))
IndexOf(c, k) == CHOOSE j \in DOMAIN c : c[j].key = k
EntryOf(c, k) == c[IndexOf(c, k)]

\* The table a lookup finds k in: both are searched only while rehashing.
Where(d, k) == CASE Holds(d, 0, k) -> 0
                 [] ~Holds(d, 0, k) /\ IsRehashing(d) /\ Holds(d, 1, k) -> 1
                 [] OTHER -> -1

NotThere == -1
Lookup(d, k) ==
  IF dictSize(d) = 0 \/ Where(d, k) = -1 THEN NotThere
  ELSE EntryOf(Chain(d, Where(d, k), k), k).val

\* A broken variant: while rehashing, a new entry goes to the old table.
Target_Old(d) == 0
Target(d) == IF IsRehashing(d) THEN 1 ELSE 0

PutFront(d, k, v) == [d EXCEPT !.ht[Target(d)] = AddFront(@, [key |-> k, val |-> v])]

\* dictAddRaw up to the search of _dictKeyIndex.
Prepared(d) == ExpandIfNeeded(RehashStep(d))

TakeOut(t, k) ==
  LET b == Bucket(Hash[k], t) IN
  [used |-> t.used - 1, table |-> [t.table EXCEPT ![b] = RemoveAt(@, IndexOf(@, k))]]

UnlinkEntry(d, k) == [d EXCEPT !.ht[Where(d, k)] = TakeOut(@, k)]

SetVal(d, k, v) ==
  LET i == Where(d, k)
      b == Bucket(Hash[k], d.ht[i]) IN
  [d EXCEPT !.ht[i].table[b] =
     [j \in DOMAIN @ |-> IF @[j].key = k THEN [key |-> k, val |-> v] ELSE @[j]]]

-----------------------------------------------------------------------------
(* Operations. An unsafe iterator forbids all of them (header, line 62);   *)
(* a safe one forbids only what would free the entry it has saved.         *)

MayUse == iter.on => iter.safe
Traversing == iter.on \/ scan.on

\* Keys that leave the dictionary are no longer owed to a traversal.
ForgetScan(k) == IF scan.on THEN [scan EXCEPT !.owed = @ \ {k}] ELSE scan
ForgetIter(k) == IF iter.on THEN [iter EXCEPT !.owed = @ \ {k}, !.seen = @ \ {k}] ELSE iter

dictAdd(k, v) ==
  LET x == Prepared(dict) IN
  /\ MayUse
  /\ k \notin DOMAIN map
  /\ x.ok /\ Where(x.d, k) = -1
  /\ dict' = PutFront(x.d, k, v)
  /\ map' = [j \in DOMAIN map \cup {k} |-> IF j = k THEN v ELSE map[j]]
  /\ UNCHANGED <<iter, scan>>

\* dictReplace of a present key; of an absent one it is dictAdd.
dictReplace(k, v) ==
  LET x == Prepared(dict) IN
  /\ MayUse
  /\ k \in DOMAIN map
  /\ x.ok /\ Where(x.d, k) # -1
  /\ dict' = SetVal(x.d, k, v)
  /\ map' = [map EXCEPT ![k] = v]
  /\ UNCHANGED <<iter, scan>>

\* dictDelete and dictUnlink, and deletes that find nothing.
dictGenericDelete(k) ==
  LET d == RehashStep(dict) IN
  /\ MayUse
  /\ iter.on => k # iter.next
  /\ dictSize(dict) # 0
  /\ dict' = IF Where(d, k) = -1 THEN d ELSE UnlinkEntry(d, k)
  /\ map' = [j \in DOMAIN map \ {k} |-> map[j]]
  /\ iter' = ForgetIter(k)
  /\ scan' = ForgetScan(k)

\* dictFind, dictFetchValue and dictGetRandomKey change only the rehashing.
dictFind ==
  /\ MayUse
  /\ dictSize(dict) # 0
  /\ dict' = RehashStep(dict)
  /\ UNCHANGED <<iter, scan, map>>

\* dictGetSomeKeys(count) does up to count rehash steps before it samples.
dictGetSomeKeys(count) ==
  LET n == IF dictSize(dict) < count THEN dictSize(dict) ELSE count
      go[j \in 0 .. n] == IF j = 0 THEN dict ELSE RehashStep(go[j - 1]) IN
  /\ MayUse
  /\ dict' = go[n]
  /\ UNCHANGED <<iter, scan, map>>

dictExpand(size) ==
  /\ MayUse
  /\ dict' = Expand(dict, size).d
  /\ UNCHANGED <<iter, scan, map>>

dictResize ==
  LET used == dict.ht[0].used IN
  /\ MayUse
  /\ dict.canResize /\ ~IsRehashing(dict)
  /\ dict' = Expand(dict, IF used < InitialSize THEN InitialSize ELSE used).d
  /\ UNCHANGED <<iter, scan, map>>

\* Explicit rehashing does not look at the iterators: its caller must.
dictRehash(n) ==
  /\ ~iter.on
  /\ dict' = Rehash(dict, n)
  /\ UNCHANGED <<iter, scan, map>>

\* Calls of dictRehash until nothing is left or the time is up.
dictRehashMilliseconds == dictRehash(Cardinality(Keys))

dictEnableResize(on) ==
  /\ dict' = [dict EXCEPT !.canResize = on]
  /\ UNCHANGED <<iter, scan, map>>

dictEmpty ==
  /\ ~Traversing
  /\ dict' = [dict EXCEPT !.ht = [i \in {0, 1} |-> NoTable], !.rehashidx = -1, !.iterators = 0]
  /\ map' = << >>
  /\ UNCHANGED <<iter, scan>>

-----------------------------------------------------------------------------
(* Iterators.                                                              *)

NULL == 0

\* What an unsafe iterator compares at its release: tables, sizes, counts.
dictFingerprint(d) == [i \in {0, 1} |-> <<Size(d.ht[i]), d.ht[i].used>>]

dictGetIterator(safe) ==
  /\ ~Traversing
  /\ iter' = [on |-> TRUE, safe |-> safe, table |-> 0, index |-> -1,
              next |-> NULL, seen |-> {}, owed |-> DOMAIN map, twice |-> FALSE, end |-> FALSE,
              fp |-> IF safe THEN << >> ELSE dictFingerprint(dict)]
  /\ UNCHANGED <<dict, scan, map>>

\* The buckets an iterator at bucket i of table t has still before it.
Ahead(d, t, i) ==
  {p \in ({0, 1} \X (0 .. Word)) :
     /\ (p[1] = t /\ p[2] > i) \/ (p[1] > t /\ IsRehashing(d))
     /\ p[2] < Size(d.ht[p[1]])
     /\ d.ht[p[1]].table[p[2]] # << >>}
Before(p, q) == p[1] < q[1] \/ (p[1] = q[1] /\ p[2] <= q[2])

AfterKey(c, k) ==
  LET j == IndexOf(c, k) IN
  IF j < Len(c) THEN c[j + 1].key ELSE NULL

Yield(t, i, k) == [iter EXCEPT !.table = t, !.index = i,
                     !.next = AfterKey(dict.ht[t].table[i], k), !.seen = @ \cup {k},
                     !.owed = @ \ {k}, !.twice = @ \/ k \in iter.seen]

Begun == iter.index # -1 \/ iter.end

\* Moves on in the chain, then to the next bucket that is not empty; a safe
\* iterator counts itself when it begins.
dictNext ==
  /\ iter.on /\ ~iter.end
  /\ LET ahead == Ahead(dict, iter.table, iter.index)
         p == CHOOSE q \in ahead : \A r \in ahead : Before(q, r) IN
     iter' = CASE iter.next # NULL -> Yield(iter.table, iter.index, iter.next)
               [] iter.next = NULL /\ ahead # {} -> Yield(p[1], p[2], dict.ht[p[1]].table[p[2]][1].key)
               [] OTHER -> [iter EXCEPT !.end = TRUE]
  /\ dict' = IF iter.safe /\ ~Begun THEN [dict EXCEPT !.iterators = @ + 1] ELSE dict
  /\ UNCHANGED <<scan, map>>

dictReleaseIterator ==
  /\ iter.on
  /\ iter' = NoIter
  /\ dict' = IF iter.safe /\ Begun THEN [dict EXCEPT !.iterators = @ - 1] ELSE dict
  /\ UNCHANGED <<scan, map>>

-----------------------------------------------------------------------------
(* dictScan: a cursor that survives any resizing between two calls.        *)

\* rev: the low bits of v, as many as w has, in the opposite order.
rev[w \in 1 .. Word] ==
  [v \in 0 .. Word - 1 |-> IF w = 1 THEN 0 ELSE (v % 2) * (w \div 2) + rev[w \div 2][v \div 2]]

\* A broken variant: the cursor counts up from its low bits.
NextCursor_Plain(v, size) == ((v % size) + 1) % size

\* v |= ~mask; v = rev(v); v++; v = rev(v)
NextCursor(v, size) ==
  LET w == (v % size) + (Word - size) IN rev[Word][(rev[Word][w] + 1) % Word]

Emit(t, v) == ChainKeys(t.table[Bucket(v, t)])

\* The buckets of the larger table that expand bucket v of the smaller one.
Expansion(v, small, large) ==
  LET at[i \in 0 .. Size(large)] == IF i = 0 THEN v ELSE NextCursor(at[i - 1], Size(large))
      last == CHOOSE i \in 1 .. Size(large) :
                 /\ (at[i] % Size(large)) \div Size(small) = 0
                 /\ \A j \in 1 .. i - 1 : (at[j] % Size(large)) \div Size(small) # 0
  IN [keys |-> UNION {Emit(large, at[i]) : i \in 0 .. last - 1}, cursor |-> at[last]]

Scan(d, v) ==
  LET t0 == d.ht[0]  t1 == d.ht[1]
      small == IF Size(t0) > Size(t1) THEN t1 ELSE t0
      large == IF Size(t0) > Size(t1) THEN t0 ELSE t1
      x == Expansion(v, small, large) IN
  CASE dictSize(d) = 0 -> [keys |-> {}, cursor |-> 0]
    [] dictSize(d) # 0 /\ ~IsRehashing(d) -> [keys |-> Emit(t0, v), cursor |-> NextCursor(v, Size(t0))]
    [] dictSize(d) # 0 /\ IsRehashing(d) -> [keys |-> Emit(small, v) \cup x.keys, cursor |-> x.cursor]

dictScan ==
  LET s == IF scan.on THEN scan
           ELSE [on |-> TRUE, v |-> 0, owed |-> DOMAIN map, end |-> FALSE]
      r == Scan(dict, s.v) IN
  /\ ~iter.on
  /\ scan.on => ~scan.end
  /\ scan' = [s EXCEPT !.v = r.cursor, !.owed = @ \ r.keys, !.end = r.cursor = 0]
  /\ UNCHANGED <<dict, iter, map>>

ScanEnd == scan.on /\ scan.end /\ scan' = NoScan /\ UNCHANGED <<dict, iter, map>>

-----------------------------------------------------------------------------
DictInit ==
  /\ dict = [ht |-> [i \in {0, 1} |-> NoTable], rehashidx |-> -1,
             iterators |-> 0, canResize |-> TRUE]
  /\ iter = NoIter
  /\ scan = NoScan
  /\ map = << >>

DictNext ==
  \/ \E k \in Keys : dictGenericDelete(k) \/ \E v \in Vals : dictAdd(k, v) \/ dictReplace(k, v)
  \/ dictFind \/ dictResize \/ dictEmpty
  \/ \E n \in 1 .. Cardinality(Keys) : dictGetSomeKeys(n) \/ dictExpand(n)
  \/ dictRehash(1) \/ dictRehashMilliseconds
  \/ \E b \in BOOLEAN : dictEnableResize(b) \/ dictGetIterator(b)
  \/ dictNext \/ dictReleaseIterator \/ dictScan \/ ScanEnd

-----------------------------------------------------------------------------
(* The keys dictGetRandomKey may return: while rehashing it draws a bucket *)
(* from rehashidx on, through both tables.                                 *)
RandomKeys(d) ==
  LET n == Size(d.ht[0])
      buckets == IF IsRehashing(d) THEN d.rehashidx .. n + Size(d.ht[1]) - 1 ELSE 0 .. n - 1 IN
  UNION {ChainKeys(IF h >= n THEN d.ht[1].table[h - n] ELSE d.ht[0].table[h]) : h \in buckets}

(* At every moment, in the middle of a rehash too, the two tables together *)
(* are the finite map the calls made: every lookup finds the value last    *)
(* stored and nothing else, the counts are exact, and a random draw can    *)
(* reach every key.                                                        *)
DictIsMap ==
  /\ \A k \in Keys : Lookup(dict, k) = IF k \in DOMAIN map THEN map[k] ELSE NotThere
  /\ dictSize(dict) = Cardinality(DOMAIN map)
  /\ TableKeys(dict.ht[0]) \cup TableKeys(dict.ht[1]) = DOMAIN map
  /\ RandomKeys(dict) = DOMAIN map

(* A scan that has returned to cursor 0 has reported every key that was    *)
(* there all the time, whatever was added, deleted, resized and rehashed   *)
(* between its calls; an iteration that has ended has returned every such  *)
(* key once, and no key twice; and an unsafe iterator's fingerprint holds. *)
TraversalComplete ==
  /\ scan.on /\ scan.end => scan.owed = {}
  /\ iter.on => /\ ~iter.twice
                /\ iter.end => iter.owed = {}
                /\ ~iter.safe => iter.fp = dictFingerprint(dict)
=============================================================================
