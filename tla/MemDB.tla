-------------------------------- MODULE MemDB --------------------------------
(***************************************************************************)
(* ztl_memdb.c over ztl_shm.c: entries one after the other in shared       *)
(* memory, each behind a header; a process that opens the memory scans     *)
(* the headers and rebuilds its vector of entries.  Lengths and addresses  *)
(* are in units of a header (MHEAD_SIZE); the control block is shm.size,   *)
(* shm.start and shm.max.  A crash may fall between any two of the writes  *)
(* that the next scan could tell apart.                                    *)
(***************************************************************************)
EXTENDS Integers, SequencesExt

CONSTANTS DbSizes,      \* sizes a process may ask for
          EntryLens,
          Payloads,     \* what is written to an entry; 0 is cleared memory
          DbStarts      \* arguments of ztl_memdb_set_start_seq

\* Lengths and sequence numbers start at 1: an entry of length 0 would look
\* like the end of the memory, the number 0 like an entry never appended.
ASSUME DbAssumption ==
  /\ DbSizes \subseteq Nat /\ \E s \in DbSizes : \A t \in DbSizes : t <= s
  /\ EntryLens \subseteq Nat \ {0} /\ DbStarts \subseteq Nat \ {0}

VARIABLES shm,          \* size, start, max, mem (headers), buf (contents)
          db,           \* the process: isopen, cap, cur, vec, total
          op,           \* the call in progress
          log,          \* the entries appended and not freed
          harm          \* which of the code's flaws the run has met
dbVars == <<shm, db, op, log, harm>>

Base == 0
Zero == [len |-> 0, pre |-> 0, seq |-> 0, flag |-> "UNUSED"]
MaxAddr == 2 * CHOOSE s \in DbSizes : \A t \in DbSizes : t <= s
Idle == [kind |-> "idle"]
ClosedDb == [isopen |-> FALSE, cap |-> 0, cur |-> Base, vec |-> <<>>, total |-> 0]

DbInit ==
  /\ shm = [size |-> 0, start |-> 1, max |-> 0,
            mem |-> [a \in 0..MaxAddr |-> Zero], buf |-> [a \in 0..MaxAddr |-> 0]]
  /\ db = ClosedDb /\ op = Idle /\ log = <<>> /\ harm = {}

NextHeadPtr(mem, a) == a + 1 + mem[a].len
\* The macro adds the length of the predecessor instead of subtracting it:
\* right only behind an entry of length 0, the base.
PrevHeadPtr(mem, a) == a + mem[a].pre - 1

\* Headers that are free are cleared from cur backwards; the memory, and
\* where allocation goes on.
MergeMemory(mem, cur) ==
  LET go[k \in 0..MaxAddr] ==
        IF k = 0 THEN [m |-> [mem EXCEPT ![cur] = Zero], p |-> PrevHeadPtr(mem, cur)]
        ELSE LET g == go[k - 1] IN
             IF g.p = Base \/ g.m[g.p].flag # "DEALLOC" THEN g
             ELSE [m |-> [g.m EXCEPT ![g.p] = Zero], p |-> PrevHeadPtr(g.m, g.p)]
  IN IF mem[cur].flag # "DEALLOC" THEN [m |-> mem, p |-> cur] ELSE go[MaxAddr]
\* The walk may read a header behind the end of what is mapped.
MergeHarm(mem, cur, cap) ==
  IF mem[cur].flag = "DEALLOC" /\ PrevHeadPtr(mem, cur) >= cap THEN {"wild"} ELSE {}

\* One header of the scan: outside [start, max] it is rolled back, inside
\* and filled it goes to the vector.  The number of slots to push is an
\* unsigned difference: a sequence that is not ahead of the last one wraps.
ScanOne(st, start, max) ==
  LET h == st.m[st.at]
      inside == h.seq >= start /\ h.seq <= max
      slots == h.seq - (start + Len(st.vec) - 1)
      rolled == [h EXCEPT !.seq = 0, !.flag = "DEALLOC",
                          !.pre = IF ~inside /\ @ = 0 /\ st.cur # Base THEN st.m[st.cur].len ELSE @]
      onward == [st EXCEPT !.cur = st.at, !.at = NextHeadPtr(st.m, st.at)] IN
  CASE inside /\ h.flag = "FILLED" /\ slots >= 0 ->
         LET pushed == st.vec \o [i \in 1..slots |-> Base] IN
         [onward EXCEPT !.vec = [pushed EXCEPT ![Len(pushed)] = st.at], !.total = @ + h.len]
    [] inside /\ h.flag = "FILLED" /\ slots < 0 -> [onward EXCEPT !.harm = @ \cup {"order"}, !.total = @ + h.len]
    [] OTHER -> [onward EXCEPT !.m[st.at] = rolled, !.b[st.at] = 0]

\* The scan ends at the end of the memory or at a header of length 0.
ScanMemory(mem, buf, vec, total, end, start, max) ==
  LET go[k \in 0..MaxAddr] ==
        IF k = 0 THEN [m |-> mem, b |-> buf, cur |-> Base, at |-> NextHeadPtr(mem, Base),
                       vec |-> vec, total |-> total, harm |-> {}]
        ELSE LET st == go[k - 1] IN
             IF st.at + 1 < end /\ st.m[st.at].len # 0 THEN ScanOne(st, start, max) ELSE st
  IN go[MaxAddr]

\* ztl_memdb_open: _open_shm truncates the memory to the size asked for,
\* before ShmSize is looked at and the larger of the two is mapped.
ztl_memdb_open(size) ==
  LET cap == IF size < shm.size THEN shm.size ELSE size
      mem == [a \in 0..MaxAddr |-> IF a < size THEN shm.mem[a] ELSE Zero]
      s == ScanMemory(mem, shm.buf, db.vec, db.total, cap, shm.start, shm.max)
      g == MergeMemory(s.m, s.cur) IN
  /\ ~db.isopen /\ op = Idle
  /\ shm' = [shm EXCEPT !.size = IF @ = 0 THEN size ELSE @,
                        !.mem = [g.m EXCEPT ![Base].flag = "ALLOCED"], !.buf = s.b,
                        !.max = shm.start + Len(s.vec) - 1]
  /\ db' = [isopen |-> TRUE, cap |-> cap, cur |-> g.p, vec |-> s.vec, total |-> s.total]
  /\ harm' = harm \cup s.harm \cup MergeHarm(s.m, s.cur, cap)
       \cup (IF \E a \in 1..MaxAddr : shm.mem[a].len > 0 /\ NextHeadPtr(shm.mem, a) > size THEN {"cut"} ELSE {})
       \cup (IF db.vec # <<>> THEN {"reuse"} ELSE {})
  /\ UNCHANGED <<op, log>>

Ready == db.isopen /\ op = Idle
last_seq == shm.start + Len(db.vec) - 1

\* The vector and the total of the object survive the close; a process that
\* ends takes them with it.
ztl_memdb_close ==
  /\ db.isopen /\ op = Idle
  /\ db' = [db EXCEPT !.isopen = FALSE] /\ UNCHANGED <<shm, op, log, harm>>
\* An append cut short counts where MaxIndex covers it already: it may be
\* left over from a larger start.
Crash ==
  /\ db.isopen \/ db.vec # <<>>
  /\ db' = ClosedDb /\ op' = Idle
  /\ log' = IF op.kind = "append" /\ last_seq <= shm.max
            THEN Append(log, [at |-> op.at, val |-> shm.buf[op.at]]) ELSE log
  /\ UNCHANGED <<shm, harm>>

\* A merge that did not end at the base has left cur behind the header it has
\* cleared, at none: what is allocated next has a gap before it.
Astray == db.cur # Base /\ shm.mem[db.cur].len = 0

\* Nothing changes when the entry does not fit.
AllocLength(len, val) ==
  LET a == NextHeadPtr(shm.mem, db.cur) IN
  /\ Ready /\ a + 1 + len < db.cap
  /\ op' = [kind |-> "alloc", at |-> a, pre |-> shm.mem[db.cur].len, val |-> val]
  /\ db' = [db EXCEPT !.cur = a]
  /\ shm' = [shm EXCEPT !.mem[a].len = len]
  /\ harm' = IF Astray THEN harm \cup {"gap"} ELSE harm
  /\ UNCHANGED log
AllocRest ==
  /\ op.kind = "alloc" /\ op' = Idle
  /\ shm' = [shm EXCEPT !.mem[op.at] = [@ EXCEPT !.pre = op.pre, !.seq = 0, !.flag = "ALLOCED"],
                        !.buf[op.at] = op.val]
  /\ UNCHANGED <<db, log, harm>>

EntriesThatAre(flag) == {a \in 1..MaxAddr : shm.mem[a].flag = flag /\ shm.mem[a].len > 0}

\* ztl_memdb_direct_append: an appended entry is refused.  The number is written
\* before the flag.
AppendMark(a) ==
  LET vec == Append(db.vec, a) IN
  /\ Ready /\ a \in EntriesThatAre("ALLOCED") /\ shm.mem[a].seq = 0
  /\ db' = [db EXCEPT !.vec = vec, !.total = @ + shm.mem[a].len]
  /\ shm' = [shm EXCEPT !.mem[a].seq = shm.start + Len(vec) - 1]
  /\ op' = [kind |-> "mark", at |-> a]
  /\ harm' = IF \E i \in DOMAIN db.vec : db.vec[i] > a THEN harm \cup {"order"} ELSE harm
  /\ UNCHANGED log
AppendFill ==
  /\ op.kind = "mark" /\ op' = [op EXCEPT !.kind = "append"]
  /\ shm' = [shm EXCEPT !.mem[op.at].flag = "FILLED"]
  /\ UNCHANGED <<db, log, harm>>
Appended == op' = Idle /\ log' = Append(log, [at |-> op.at, val |-> shm.buf[op.at]]) /\ UNCHANGED <<db, harm>>
\* A broken variant: MaxIndex is not updated.
AppendPublish_NoMax == op.kind = "append" /\ Appended /\ UNCHANGED shm
AppendPublish == op.kind = "append" /\ Appended /\ shm' = [shm EXCEPT !.max = last_seq]

\* ztl_memdb_free_entry: an entry never appended, or the last one appended.
FreeClear(a) ==
  LET appended == shm.mem[a].seq # 0 IN
  /\ Ready /\ a \in EntriesThatAre("ALLOCED") \cup EntriesThatAre("FILLED")
  /\ appended => shm.mem[a].seq = last_seq
  /\ shm' = [shm EXCEPT !.mem[a].seq = 0, !.buf[a] = 0]
  /\ op' = [kind |-> IF appended THEN "pop" ELSE "dealloc", at |-> a]
  /\ log' = IF appended THEN Front(log) ELSE log
  /\ UNCHANGED <<db, harm>>
FreePop ==
  /\ op.kind = "pop" /\ op' = [op EXCEPT !.kind = "dealloc"]
  /\ shm' = [shm EXCEPT !.max = @ - 1]
  /\ db' = [db EXCEPT !.vec = Front(@), !.total = @ - shm.mem[op.at].len]
  /\ UNCHANGED <<log, harm>>
FreeMerge ==
  LET mem == [shm.mem EXCEPT ![op.at].flag = "DEALLOC"]
      g == MergeMemory(mem, db.cur) IN
  /\ op.kind = "dealloc" /\ op' = Idle
  /\ shm' = [shm EXCEPT !.mem = g.m] /\ db' = [db EXCEPT !.cur = g.p]
  /\ harm' = harm \cup MergeHarm(mem, db.cur, db.cap)
  /\ UNCHANGED log

ztl_memdb_set_start_seq(seq) ==
  /\ Ready /\ db.vec = <<>> /\ shm' = [shm EXCEPT !.start = seq] /\ UNCHANGED <<db, op, log, harm>>

\* ztl_memdb_get_entry, _foreach: the address for a sequence number.
ztl_memdb_get_entry(seq) == IF seq < shm.start \/ seq > last_seq THEN Base ELSE db.vec[seq - shm.start + 1]

DbNext ==
  \/ ztl_memdb_close \/ Crash \/ AllocRest \/ AppendFill \/ AppendPublish \/ FreePop \/ FreeMerge
  \/ \E size \in DbSizes : ztl_memdb_open(size)
  \/ \E len \in EntryLens, val \in Payloads : AllocLength(len, val)
  \/ \E a \in 1..MaxAddr : AppendMark(a) \/ FreeClear(a)
  \/ \E seq \in DbStarts : ztl_memdb_set_start_seq(seq)

DbSpec == DbInit /\ [][DbNext]_dbVars

\* The bytes of the entries of a vector.
Bytes(mem, vec) ==
  LET sum[i \in 0..Len(vec)] == IF i = 0 THEN 0 ELSE sum[i - 1] + mem[vec[i]].len IN sum[Len(vec)]

(* What was appended and not freed is what the sequence numbers find, with *)
(* its contents, now and after every crash and reopening.                  *)
DbRecovers ==
  Ready =>
    /\ Len(log) = Len(db.vec) /\ (log = <<>> \/ shm.max = last_seq)
    /\ \A i \in DOMAIN log :
         LET a == ztl_memdb_get_entry(shm.start + i - 1) IN
         /\ a = log[i].at /\ shm.buf[a] = log[i].val
         /\ shm.mem[a].flag = "FILLED" /\ shm.mem[a].seq = shm.start + i - 1
    /\ db.total = Bytes(shm.mem, db.vec)

(* The same, until the process meets one of the flaws of ztl_memdb.c: an   *)
(* append out of the order of allocation, an allocation behind a gap, a    *)
(* merge that reads behind the memory, an open with a size that cuts an    *)
(* entry off, a second open of one object.  A process that dies anywhere,  *)
(* an allocation, an append or a free half done behind entries that are    *)
(* published, leaves shared memory from which ztl_memdb_open finds every   *)
(* one of them.                                                            *)
DbRecoversUnharmed == harm = {} => DbRecovers
Unharmed == harm = {}

(* The same, where the one flaw met is the gap: an entry that was freed,   *)
(* or allocated and not appended at a crash, costs no other entry.         *)
DbRecoversGaps == harm \subseteq {"gap"} => DbRecovers
GapsOnly == harm \subseteq {"gap"}
=============================================================================
