------------------------------ MODULE Buffers ------------------------------
(***************************************************************************)
(* Four byte containers over a block of cells 0 .. capacity - 1: the       *)
(* growing buffer of ztl_buffer.c, the string builder of ztl_bufcat.c, the *)
(* reference counted message of ztl_msg_buffer.c and the vector of         *)
(* ztl_vector.c.  spec.seq is what each stands for.  spec.harm remembers a *)
(* call it does not serve; nothing is claimed from there on.               *)
(***************************************************************************)
EXTENDS Integers, Sequences, FiniteSets, SequencesExt

CONSTANTS BufBytes, MaxBuf, BufWord, FixedSize, SepLens, NumWidths, NumReserve

VARIABLES obj, spec

Garbage == 0
Cells(n) == [i \in 0 .. n - 1 |-> Garbage]
\* Cells outside the block are not there: what is moved there is lost.
memmove(cells, to, from, n) ==
  [i \in DOMAIN cells |-> IF i \in to .. to + n - 1 THEN
                            (IF from + i - to \in DOMAIN cells THEN cells[from + i - to] ELSE Garbage) ELSE cells[i]]
memcpy(cells, to, s) == [i \in DOMAIN cells |-> IF i \in to .. to + Len(s) - 1 THEN s[i - to + 1] ELSE cells[i]]
realloc(cells, n) == [i \in 0 .. n - 1 |-> IF i \in DOMAIN cells THEN cells[i] ELSE Garbage]
Capacity == Cardinality(DOMAIN obj.cells)
Content == [i \in 1 .. obj.len |-> obj.cells[i - 1]]
(* A container holds, inside its block, the bytes its calls put together. *)
Sound == ~spec.harm => obj.len <= Capacity /\ Content = spec.seq
Times(n, s) == FlattenSeq([i \in 1 .. n |-> s])

----------------------------------------------------------------------------
\* ztl_buffer.c: a block that grows by powers of two, or a fixed one.
BufInit == /\ obj \in {[cells |-> Cells(0), len |-> 0, fixed |-> FALSE], [cells |-> Cells(FixedSize), len |-> 0, fixed |-> TRUE]}
           /\ spec = [seq |-> <<>>, harm |-> FALSE]

\* The shifts of an unsigned 32-bit number: past the middle it becomes 0.
RoundUp(n) == (CHOOSE p \in {2 ^ k : k \in 0 .. MaxBuf} : p >= n /\ p < 2 * n) % BufWord
ztl_buffer_reserve(o, n) ==
  IF o.fixed \/ n <= Cardinality(DOMAIN o.cells) THEN o ELSE [o EXCEPT !.cells = realloc(@, RoundUp(n))]
ztl_buffer_compact == /\ ~obj.fixed /\ obj.len < Capacity
                      /\ obj' = [obj EXCEPT !.cells = realloc(@, obj.len)] /\ UNCHANGED spec
Reserve(n) == /\ obj' = ztl_buffer_reserve(obj, n)
              /\ spec' = [spec EXCEPT !.harm = ~obj.fixed /\ n > Capacity /\ RoundUp(n) = 0]

\* append, insert and fill do not look at what reserve returned.
Put(pos, s) ==
  LET o == ztl_buffer_reserve(obj, obj.len + Len(s))
      moved == IF pos < obj.len THEN memmove(o.cells, pos + Len(s), pos, obj.len - pos) ELSE o.cells IN
  /\ obj.len + Len(s) <= MaxBuf
  /\ obj' = [o EXCEPT !.cells = memcpy(moved, pos, s), !.len = @ + Len(s)]
  /\ spec' = [seq |-> SubSeq(spec.seq, 1, pos) \o s \o SubSeq(spec.seq, pos + 1, Len(spec.seq)),
              harm |-> obj.len + Len(s) > Cardinality(DOMAIN o.cells)]
ztl_buffer_append(s) == Put(obj.len, s)
ztl_buffer_insert(pos, s) == Put(pos, s)
ztl_buffer_fill(pos, count, s) == Put(pos, Times(count, s))
ztl_buffer_erase(pos, n) ==
  /\ pos + n <= obj.len
  /\ obj' = [obj EXCEPT !.cells = memmove(@, pos, pos + n, obj.len - pos - n), !.len = @ - n]
  /\ spec' = [spec EXCEPT !.seq = SubSeq(@, 1, pos) \o SubSeq(@, pos + n + 1, Len(@))]

Pieces == {<<a>> : a \in BufBytes} \cup {<<a, b>> : a, b \in BufBytes}
BufNext == /\ ~spec.harm
           /\ \/ \E s \in Pieces : \/ ztl_buffer_append(s)
                                   \/ \E pos \in 0 .. obj.len : ztl_buffer_insert(pos, s) \/ ztl_buffer_fill(pos, 2, s)
              \/ \E pos \in 0 .. obj.len, n \in 1 .. 2 : ztl_buffer_erase(pos, n)
              \/ \E n \in 1 .. MaxBuf : Reserve(n)
              \/ ztl_buffer_compact

----------------------------------------------------------------------------
\* ztl_bufcat.c: pieces with a separator of sepLen cells (bytes 9) between.
Sep == 9
CatInit == /\ obj \in {[cells |-> Cells(FixedSize), len |-> 0, fixed |-> f, sep |-> l] : f \in BOOLEAN, l \in SepLens}
           /\ spec = [seq |-> <<>>, harm |-> FALSE]

bufcat_expand_if_needed(o, n) ==
  LET c == Cardinality(DOMAIN o.cells) IN
  IF o.len + o.sep + n >= c /\ ~o.fixed THEN [o EXCEPT !.cells = realloc(@, 2 * c + n)] ELSE o
\* A separator of three or more cells is copied to the front of the buffer.
bufcat_append_sep(o) ==
  IF o.len = 0 \/ o.sep = 0 THEN o
  ELSE [o EXCEPT !.cells = memcpy(@, IF o.sep > 2 THEN 0 ELSE o.len, Times(o.sep, <<Sep>>)), !.len = @ + o.sep]
\* reserve is what the caller asks for, end what it writes behind (a NUL).
Cat(s, reserve, end) ==
  LET o == bufcat_append_sep(bufcat_expand_if_needed(obj, reserve)) IN
  /\ ~spec.harm /\ o.len + Len(s) <= MaxBuf
  /\ obj' = [o EXCEPT !.cells = memcpy(@, o.len, s \o end), !.len = @ + Len(s)]
  /\ spec' = [seq |-> IF spec.seq = <<>> THEN s ELSE spec.seq \o Times(obj.sep, <<Sep>>) \o s,
              harm |-> o.len + Len(s \o end) > Cardinality(DOMAIN o.cells) \/ (obj.len > 0 /\ obj.sep > 2)]
bufcat_str_len(s) == Cat(s, Len(s), <<>>)
\* bufcat_int, bufcat_int64 and bufcat_double reserve more than they write.
bufcat_int(w, a) == Cat(Times(w, <<a>>), NumReserve, <<Garbage>>)
CatNext == \E a \in BufBytes : bufcat_str_len(<<a>>) \/ bufcat_str_len(<<a, a>>) \/ \E w \in NumWidths : bufcat_int(w, a)

----------------------------------------------------------------------------
\* ztl_msg_buffer.c: one message, shared by counted references.
MbInit == /\ obj = [cells |-> Cells(FixedSize), len |-> 0, refcount |-> 0, freed |-> FALSE]
          /\ spec = [seq |-> <<>>, harm |-> FALSE, refs |-> 0]
ztl_mb_avail == Capacity - obj.len
ztl_mb_append(s) == /\ ztl_mb_avail >= Len(s)
                    /\ obj' = [obj EXCEPT !.cells = memcpy(@, obj.len, s), !.len = @ + Len(s)]
                    /\ spec' = [spec EXCEPT !.seq = @ \o s]
\* ztl_mb_insert leaves used alone: its caller follows with ztl_mb_update_used.
ztl_mb_insert(pos, s) ==
  /\ ztl_mb_avail >= Len(s)
  /\ obj' = [obj EXCEPT !.cells = memcpy(memmove(@, pos + Len(s), pos, obj.len - pos), pos, s), !.len = @ + Len(s)]
  /\ spec' = [spec EXCEPT !.seq = SubSeq(@, 1, pos) \o s \o SubSeq(@, pos + 1, Len(@))]
ztl_mb_addref == /\ obj.refcount < 2
                 /\ obj' = [obj EXCEPT !.refcount = @ + 1] /\ spec' = [spec EXCEPT !.refs = @ + 1]
\* A message fresh from ztl_mb_alloc has no reference to drop.
ztl_mb_decref_release ==
  /\ obj.refcount > 0
  /\ obj' = [obj EXCEPT !.refcount = @ - 1, !.freed = obj.refcount = 1] /\ spec' = [spec EXCEPT !.refs = @ - 1]
ztl_mb_clone == /\ obj' = [obj EXCEPT !.refcount = 1] /\ spec' = [spec EXCEPT !.refs = 1]
MbNext == /\ ~obj.freed
          /\ \/ \E s \in Pieces : ztl_mb_append(s) \/ \E pos \in 0 .. obj.len : ztl_mb_insert(pos, s)
             \/ ztl_mb_addref \/ ztl_mb_decref_release \/ ztl_mb_clone
(* A message keeps its bytes until the last counted reference is dropped. *)
MbExact == Sound /\ (obj.freed => spec.refs = 0) /\ obj.refcount = spec.refs

----------------------------------------------------------------------------
\* ztl_vector.c: sizes in multiples of VecAlign.
VecAlign == 4
Aligned(n) == ((n + VecAlign - 1) \div VecAlign) * VecAlign
VecInit == obj = [cells |-> Cells(Aligned(1)), len |-> 0] /\ spec = [seq |-> <<>>, harm |-> FALSE]
cvector_reserve(o, n) == IF Cardinality(DOMAIN o.cells) >= Aligned(n) THEN o ELSE [o EXCEPT !.cells = realloc(@, Aligned(n))]
VecReserve(n) == obj' = cvector_reserve(obj, n) /\ UNCHANGED spec
\* One push of the type of the elements; without memory it writes behind.
cvector_push_x(a, memory) ==
  LET o == IF obj.len = Capacity /\ memory THEN cvector_reserve(obj, 2 * Capacity) ELSE obj IN
  /\ obj.len < MaxBuf
  /\ obj' = [o EXCEPT !.cells = memcpy(@, o.len, <<a>>), !.len = @ + 1]
  /\ spec' = [seq |-> Append(spec.seq, a), harm |-> o.len >= Cardinality(DOMAIN o.cells)]
cvector_index(a) == CHOOSE i \in -1 .. obj.len - 1 : (i >= 0 => obj.cells[i] = a) /\ \A j \in 0 .. obj.len - 1 :
                                                     obj.cells[j] = a => i >= 0 /\ i <= j
\* nelts is decremented before it bounds the move.  Nothing moves for the last
\* but one: it stays, and the last one is lost.  For those before it too many
\* cells move, beyond the block where it is full.
cvector_remove(i) ==
  LET n == obj.len - 1 IN
  /\ i < obj.len
  /\ obj' = [obj EXCEPT !.len = n, !.cells = IF i < n - 1 THEN memmove(@, i, i + 1, n) ELSE @]
  /\ spec' = [seq |-> RemoveAt(spec.seq, IF i = n - 1 THEN obj.len ELSE i + 1), harm |-> i < n - 1 /\ i + 1 + n > Capacity]
VecNext == /\ ~spec.harm
           /\ \/ \E a \in BufBytes, memory \in BOOLEAN : cvector_push_x(a, memory)
              \/ \E i \in 0 .. MaxBuf - 1 : cvector_remove(i)
              \/ \E n \in 1 .. MaxBuf : VecReserve(n)
(* The vector is the sequence its calls left, the removal of the last but  *)
(* one taking the last, and an element is found at its first place.        *)
VecExact == Sound /\ (~spec.harm => \A a \in BufBytes : cvector_index(a) = SelectInSeq(spec.seq, LAMBDA x : x = a) - 1)
=============================================================================
