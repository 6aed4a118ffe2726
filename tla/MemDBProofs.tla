----------------------------- MODULE MemDBProofs -----------------------------
(***************************************************************************)
(* Proofs about MemDB, for any sizes of memory, any lengths and contents   *)
(* of entries and any start of the sequence.                               *)
(***************************************************************************)
EXTENDS MemDB, FiniteSetTheorems, SequenceTheorems, WellFoundedInduction, TLAPS

\* A set of natural numbers that is not empty has a lowest one.
LEMMA Lowest ==
    ASSUME NEW T, T \subseteq Nat, T # {}
    PROVE  \E x \in T : \A y \in T : ~(y < x)
<1> DEFINE R == {ss \in Nat \X Nat : ss[1] < ss[2]}
<1>1. IsWellFoundedOn(R, Nat)
  BY NatLessThanWellFounded, Zenon DEF OpToRel
<1> HIDE DEF R
<1>2. PICK x \in T : \A y \in T : ~(<<y, x>> \in R)
  BY <1>1, WFMin
<1>3. ASSUME NEW y \in T, y < x PROVE FALSE
  <2>1. y \in Nat /\ x \in Nat
    BY <1>2
  <2>2. <<y, x>> \in R
    BY <1>3, <2>1 DEF R
  <2> QED BY <1>2, <2>2
<1> QED BY <1>2, <1>3

\* What holds of 0 and passes from each number below n to the next holds up to n.
LEMMA UpTo ==
    ASSUME NEW n \in Nat, NEW S, 0 \in S, \A k \in 1 .. n : k - 1 \in S => k \in S
    PROVE  \A k \in 0 .. n : k \in S
<1> DEFINE T == {k \in 0 .. n : k \notin S}
<1>1. SUFFICES ASSUME T # {} PROVE FALSE
  OBVIOUS
<1>2. PICK x \in T : \A y \in T : ~(y < x)
  <2>1. T \subseteq Nat
    OBVIOUS
  <2> HIDE DEF T
  <2> QED BY <1>1, <2>1, Lowest
<1>3. x \in 1 .. n /\ x - 1 \in 0 .. n
  BY <1>2
<1>4. x - 1 \in S
  BY <1>2, <1>3
<1> QED BY <1>2, <1>3, <1>4

-----------------------------------------------------------------------------
(* Loops.  A loop of the code is a function of the number of its turns;    *)
(* that there is one is what makes its equation usable.                    *)

\* One turn of each loop: of the scan at open, of the merge of free headers, and
\* of the sum of the entries' lengths.
ScanTurn(p, end, start, max) ==
    IF p.at + 1 < end /\ p.m[p.at].len # 0 THEN ScanOne(p, start, max) ELSE p
MergeTurn(p) ==
    IF p.p = Base \/ p.m[p.p].flag # "DEALLOC" THEN p
    ELSE [m |-> [p.m EXCEPT ![p.p] = Zero], p |-> PrevHeadPtr(p.m, p.p)]
Turn(loop, p, x) ==
    IF loop = "scan" THEN ScanTurn(p, x.end, x.start, x.max) ELSE IF loop = "merge" THEN MergeTurn(p) ELSE p + x

\* g is the state of a loop that starts at s after each of m turns.
Run(g, m, loop, s, x) == g = [k \in 0 .. m |-> IF k = 0 THEN s ELSE Turn(loop, g[k - 1], x[k])]

\* Every loop runs.
LEMMA LoopRuns ==
    ASSUME NEW loop, NEW s, NEW x, NEW n \in Nat
    PROVE  \E g : Run(g, n, loop, s, x)
<1> DEFINE S == {m \in Nat : \E g : Run(g, m, loop, s, x)}
<1>1. 0 \in S
  <2> DEFINE g == [k \in 0 .. 0 |-> s]
  <2>1. Run(g, 0, loop, s, x)
    BY DEF Run
  <2> QED BY <2>1
<1>2. ASSUME NEW m \in 1 .. n, m - 1 \in S PROVE m \in S
  <2>1. PICK g : Run(g, m - 1, loop, s, x)
    BY <1>2
  <2> DEFINE h == [k \in 0 .. m |-> IF k = m THEN Turn(loop, g[m - 1], x[m]) ELSE g[k]]
  <2>2. \A k \in 0 .. m : h[k] = IF k = 0 THEN s ELSE Turn(loop, h[k - 1], x[k])
    <3>1. \A k \in 0 .. m - 1 : h[k] = g[k] /\ k # m
      OBVIOUS
    <3>2. \A k \in 0 .. m - 1 : g[k] = IF k = 0 THEN s ELSE Turn(loop, g[k - 1], x[k])
      BY <2>1 DEF Run
    <3>3. h[m] = Turn(loop, g[m - 1], x[m]) /\ h[m - 1] = g[m - 1]
      OBVIOUS
    <3>4. \A k \in 1 .. m - 1 : k - 1 \in 0 .. m - 1
      OBVIOUS
    <3> HIDE DEF h
    <3> QED BY <3>1, <3>2, <3>3, <3>4
  <2>3. Run(h, m, loop, s, x)
    BY <2>2 DEF Run
  <2>4. m \in Nat
    OBVIOUS
  <2> HIDE DEF h
  <2> QED BY <2>3, <2>4
<1> HIDE DEF S
<1>3. n \in S
  <2>1. \A m \in 0 .. n : m \in S
    BY <1>1, <1>2, UpTo
  <2> QED BY <2>1
<1> QED BY <1>3 DEF S

-----------------------------------------------------------------------------
(* Types                                                                   *)

Flags == {"UNUSED", "ALLOCED", "FILLED", "DEALLOC"}
HeadType == [len : Nat, pre : Nat, seq : Nat, flag : Flags]
Headers == [0..MaxAddr -> HeadType]
Contents == [0..MaxAddr -> Payloads \cup {0}]
LogEntry == [at : 1..MaxAddr, val : Payloads \cup {0}]

DbTypes ==
    /\ shm \in [size : 0..MaxAddr, start : Nat \ {0}, max : Nat, mem : Headers, buf : Contents]
    /\ db \in [isopen : BOOLEAN, cap : 0..MaxAddr, cur : 0..MaxAddr, vec : Seq(1..MaxAddr), total : Int]
    /\ log \in Seq(LogEntry)
    /\ op.kind \in {"idle", "alloc", "mark", "append", "pop", "dealloc"}
    /\ op.kind # "idle" => op.at \in 1..MaxAddr
    /\ op.kind = "alloc" => op.pre \in Nat /\ op.val \in Payloads

\* There is a largest size, and twice as much room.
LEMMA MaxAddrBound == MaxAddr \in Nat /\ \A s \in DbSizes : s \in Nat /\ s <= MaxAddr
<1> DEFINE Largest(s) == s \in DbSizes /\ \A t \in DbSizes : t <= s
<1>1. \E s : Largest(s)
  BY DbAssumption
<1>2. Largest(CHOOSE s : Largest(s))
  BY <1>1
<1>3. (CHOOSE s : Largest(s)) = CHOOSE s \in DbSizes : \A t \in DbSizes : t <= s
  OBVIOUS
<1>4. PICK s : Largest(s) /\ MaxAddr = 2 * s
  BY <1>2, <1>3 DEF MaxAddr
<1> QED BY <1>4, DbAssumption

-----------------------------------------------------------------------------
(* The layout of the memory                                                *)

\* Where an entry begins.
Heads(m) == {a \in 1..MaxAddr : m[a].len > 0}

\* The entries lie one behind the other from the base on and do not overlap; all
\* other headers are clear; and a header that is complete has a predecessor of
\* length 0 only behind the base.
Layout(m) ==
    /\ m[0].len = 0 /\ m[0].seq = 0 /\ m[0].flag # "DEALLOC"
    /\ \A a \in 1..MaxAddr : m[a].len = 0 => m[a] = Zero
    /\ \A a \in Heads(m) : NextHeadPtr(m, a) <= MaxAddr
    /\ \A a, b \in Heads(m) : a < b => NextHeadPtr(m, a) <= b
    /\ \A a \in Heads(m) : \E b \in Heads(m) \cup {0} : NextHeadPtr(m, b) = a
    /\ \A a \in Heads(m) : m[a].pre = 0 /\ m[a].flag # "UNUSED" => a = 1

\* A header and the next one.
LEMMA NextIsBehind ==
    ASSUME NEW m \in Headers, NEW a \in 0..MaxAddr
    PROVE  /\ m[a] \in HeadType /\ m[a].len \in Nat
           /\ NextHeadPtr(m, a) = a + 1 + m[a].len
           /\ NextHeadPtr(m, a) \in Nat /\ NextHeadPtr(m, a) > a
<1>1. m[a] \in HeadType
  BY DEF Headers
<1>2. m[a].len \in Nat
  BY <1>1 DEF HeadType
<1> QED BY <1>1, <1>2 DEF NextHeadPtr

\* A header is what its fields are.
LEMMA SameHeader ==
    ASSUME NEW r \in HeadType, NEW h \in HeadType,
           r.len = h.len, r.pre = h.pre, r.seq = h.seq, r.flag = h.flag
    PROVE  r = h
BY DEF HeadType

\* A header is written, or its length only.
SetHead(m, a, h) == [m EXCEPT ![a] = h]
SetLen(m, a, len) == [m EXCEPT ![a] = [m[a] EXCEPT !.len = len]]

\* Writing a header without changing its length keeps the layout.
LEMMA LayoutRewritten ==
    ASSUME NEW m \in Headers, Layout(m), NEW a \in Heads(m), NEW h \in HeadType,
           h.len = m[a].len,
           h.pre = 0 /\ h.flag # "UNUSED" => a = 1,
           NEW mm, mm = SetHead(m, a, h)
    PROVE  /\ mm \in Headers /\ Layout(mm) /\ Heads(mm) = Heads(m)
           /\ \A c \in 0..MaxAddr : mm[c].len = m[c].len /\ NextHeadPtr(mm, c) = NextHeadPtr(m, c)
<1>1. a \in 1..MaxAddr /\ a \in 0..MaxAddr /\ a # 0
  BY DEF Heads
<1>2. mm \in Headers /\ mm[a] = h /\ \A c \in 0..MaxAddr : c # a => mm[c] = m[c]
  BY <1>1 DEF Headers, SetHead
<1>3. \A c \in 0..MaxAddr : mm[c].len = m[c].len
  BY <1>2
<1>4. \A c \in 0..MaxAddr : NextHeadPtr(mm, c) = NextHeadPtr(m, c)
  BY <1>3 DEF NextHeadPtr
<1>5. Heads(mm) = Heads(m)
  BY <1>3, MaxAddrBound DEF Heads
<1>6. Heads(m) \subseteq 1..MaxAddr /\ \A c \in 1..MaxAddr : c \in 0..MaxAddr
  BY DEF Heads
<1>7. Layout(mm)
  <2>1. mm[0] = m[0]
    BY <1>1, <1>2, MaxAddrBound
  <2>2. \A c \in 1..MaxAddr : mm[c].len = 0 => mm[c] = Zero
    <3>1. m[a].len # 0
      BY DEF Heads
    <3> QED BY <1>2, <1>3, <1>6, <3>1 DEF Layout
  <2>3. \A c \in Heads(mm) : NextHeadPtr(mm, c) <= MaxAddr
    BY <1>4, <1>5, <1>6 DEF Layout
  <2>4. \A c, d \in Heads(mm) : c < d => NextHeadPtr(mm, c) <= d
    BY <1>4, <1>5, <1>6 DEF Layout
  <2>5. ASSUME NEW c \in Heads(mm) PROVE \E d \in Heads(mm) \cup {0} : NextHeadPtr(mm, d) = c
    <3>1. PICK d \in Heads(m) \cup {0} : NextHeadPtr(m, d) = c
      BY <1>5 DEF Layout
    <3>2. d \in 0..MaxAddr
      BY <1>6, MaxAddrBound
    <3> QED BY <1>4, <1>5, <3>1, <3>2
  <2>7. \A c \in Heads(mm) : mm[c].pre = 0 /\ mm[c].flag # "UNUSED" => c = 1
    BY <1>2, <1>5, <1>6 DEF Layout
  <2> QED BY <2>1, <2>2, <2>3, <2>4, <2>5, <2>7 DEF Layout
<1> QED BY <1>2, <1>3, <1>4, <1>5, <1>7

\* The length of a new entry, written behind the last one, extends the layout.
LEMMA LayoutExtended ==
    ASSUME NEW m \in Headers, Layout(m), NEW cur \in Heads(m) \cup {0},
           \A c \in Heads(m) : c <= cur,
           NEW len \in Nat \ {0}, NEW a, a = NextHeadPtr(m, cur), a + 1 + len <= MaxAddr,
           NEW mm, mm = SetLen(m, a, len)
    PROVE  /\ mm \in Headers /\ Layout(mm) /\ Heads(mm) = Heads(m) \cup {a}
           /\ a \in 1..MaxAddr /\ a > cur /\ m[a] = Zero
           /\ mm[a] = [len |-> len, pre |-> 0, seq |-> 0, flag |-> "UNUSED"]
           /\ \A c \in 0..MaxAddr : c # a => mm[c] = m[c]
           /\ NextHeadPtr(mm, a) = a + 1 + len
           /\ \A c \in Heads(m) \cup {0} : NextHeadPtr(mm, c) = NextHeadPtr(m, c)
<1>1. cur \in 0..MaxAddr /\ MaxAddr \in Nat
  BY MaxAddrBound DEF Heads
<1>2. a \in 1..MaxAddr /\ a > cur
  BY <1>1, NextIsBehind
<1>3. a \notin Heads(m) /\ a \in 0..MaxAddr /\ m[a].len = 0
  <2>1. a \notin Heads(m)
    BY <1>1, <1>2
  <2>2. m[a].len \in Nat
    BY <1>2, NextIsBehind
  <2> QED BY <1>2, <2>1, <2>2 DEF Heads
<1>4. m[a] = Zero
  BY <1>2, <1>3 DEF Layout
<1> DEFINE h == [len |-> len, pre |-> 0, seq |-> 0, flag |-> "UNUSED"]
<1>5. h \in HeadType /\ [m[a] EXCEPT !.len = len] = h
  BY <1>4 DEF Zero, HeadType, Flags
<1>6. mm \in Headers /\ mm[a] = h /\ \A c \in 0..MaxAddr : c # a => mm[c] = m[c]
  <2>1. mm = [m EXCEPT ![a] = h]
    BY <1>5 DEF SetLen
  <2> HIDE DEF h
  <2> QED BY <1>3, <1>5, <2>1 DEF Headers
<1>7. Heads(mm) = Heads(m) \cup {a}
  <2>1. ASSUME NEW c \in 1..MaxAddr PROVE c \in Heads(mm) <=> c \in Heads(m) \cup {a}
    <3>1. CASE c = a
      BY <1>2, <1>6, <3>1 DEF Heads
    <3>2. CASE c # a
      <4>1. mm[c] = m[c]
        BY <1>1, <1>6, <3>2
      <4> QED BY <3>2, <4>1 DEF Heads
    <3> QED BY <3>1, <3>2
  <2>2. Heads(mm) \subseteq 1..MaxAddr /\ Heads(m) \subseteq 1..MaxAddr
    BY DEF Heads
  <2> QED BY <1>2, <2>1, <2>2
<1>8. \A c \in Heads(m) \cup {0} : NextHeadPtr(mm, c) = NextHeadPtr(m, c)
  <2>1. \A c \in Heads(m) \cup {0} : mm[c] = m[c]
    BY <1>1, <1>2, <1>3, <1>6 DEF Heads
  <2> QED BY <2>1 DEF NextHeadPtr
<1>9. NextHeadPtr(mm, a) = a + 1 + len
  BY <1>6 DEF NextHeadPtr
<1>10. \A c \in Heads(m) : c \in 1..MaxAddr /\ c # a /\ c < a /\ mm[c] = m[c]
  BY <1>1, <1>2, <1>3, <1>6 DEF Heads
<1>11. Layout(mm)
  <2>1. mm[0] = m[0]
    BY <1>1, <1>2, <1>6
  <2>2. \A c \in 1..MaxAddr : mm[c].len = 0 => mm[c] = Zero
    BY <1>1, <1>6 DEF Layout
  <2>3. \A c \in Heads(mm) : NextHeadPtr(mm, c) <= MaxAddr
    BY <1>7, <1>8, <1>9 DEF Layout
  <2>4. \A c, d \in Heads(mm) : c < d => NextHeadPtr(mm, c) <= d
    <3>1. \A c \in Heads(m) : NextHeadPtr(m, c) <= a
      <4>1. ASSUME NEW c \in Heads(m), c < cur PROVE NextHeadPtr(m, c) <= a
        <5>1. cur \in Heads(m)
          BY <1>1, <1>10, <4>1
        <5>2. NextHeadPtr(m, c) <= cur
          BY <4>1, <5>1 DEF Layout
        <5>3. NextHeadPtr(m, c) \in Nat
          BY <1>1, <1>10, NextIsBehind
        <5> QED BY <1>1, <1>2, <5>2, <5>3
      <4>2. \A c \in Heads(m) : c < cur \/ c = cur
        BY <1>1, <1>10
      <4>3. a <= a
        BY <1>2
      <4> QED BY <4>1, <4>2, <4>3
    <3>2. \A c, d \in Heads(m) : c < d => NextHeadPtr(m, c) <= d
      BY DEF Layout
    <3>3. ~(a < a) /\ \A d \in Heads(m) : ~(a < d)
      BY <1>2, <1>10
    <3> QED BY <1>7, <1>8, <3>1, <3>2, <3>3
  <2>5. ASSUME NEW c \in Heads(mm) PROVE \E d \in Heads(mm) \cup {0} : NextHeadPtr(mm, d) = c
    <3>1. CASE c \in Heads(m)
      <4>1. PICK d \in Heads(m) \cup {0} : NextHeadPtr(m, d) = c
        BY <3>1 DEF Layout
      <4> QED BY <1>7, <1>8, <4>1
    <3>2. CASE c = a
      BY <1>7, <1>8, <3>2
    <3> QED BY <1>7, <3>1, <3>2
  <2>6. mm[a].seq = 0 /\ mm[a].flag = "UNUSED"
    BY <1>6
  <2>7. \A c \in Heads(m) : mm[c].pre = 0 /\ mm[c].flag # "UNUSED" => c = 1
    BY <1>10 DEF Layout
  <2>8. \A c \in Heads(mm) : mm[c].pre = 0 /\ mm[c].flag # "UNUSED" => c = 1
    BY <1>7, <2>6, <2>7
  <2> QED BY <2>1, <2>2, <2>3, <2>4, <2>5, <2>8 DEF Layout
<1> QED BY <1>2, <1>4, <1>6, <1>7, <1>8, <1>9, <1>11

\* Clearing the last header leaves the layout of the others.
LEMMA LayoutShortened ==
    ASSUME NEW m \in Headers, Layout(m), NEW a \in Heads(m), \A c \in Heads(m) : c <= a,
           NEW mm, mm = SetHead(m, a, Zero)
    PROVE  /\ mm \in Headers /\ Layout(mm) /\ Heads(mm) = Heads(m) \ {a}
           /\ \A c \in 0..MaxAddr : c # a => mm[c] = m[c] /\ NextHeadPtr(mm, c) = NextHeadPtr(m, c)
           /\ mm[a] = Zero
<1>1. a \in 1..MaxAddr /\ a \in 0..MaxAddr /\ Zero \in HeadType /\ Zero.len = 0 /\ MaxAddr \in Nat
  BY MaxAddrBound DEF Heads, Zero, HeadType, Flags
<1>2. mm \in Headers /\ mm[a] = Zero /\ \A c \in 0..MaxAddr : c # a => mm[c] = m[c]
  BY <1>1 DEF Headers, SetHead
<1>3. \A c \in 0..MaxAddr : c # a => NextHeadPtr(mm, c) = NextHeadPtr(m, c)
  BY <1>2 DEF NextHeadPtr
<1>4. Heads(m) \subseteq 1..MaxAddr /\ (\A c \in 1..MaxAddr : c \in 0..MaxAddr) /\ ~(Zero.len > 0)
  BY <1>1 DEF Heads
<1>5. Heads(mm) = Heads(m) \ {a}
  <2>1. \A c \in 1..MaxAddr : c \in Heads(mm) <=> c \in Heads(m) /\ c # a
    <3>1. \A c \in 1..MaxAddr : c # a => mm[c] = m[c]
      BY <1>2, <1>4
    <3> QED BY <1>2, <1>4, <3>1 DEF Heads
  <2>2. Heads(mm) \subseteq 1..MaxAddr
    BY DEF Heads
  <2> QED BY <1>4, <2>1, <2>2
<1>6. \A c \in Heads(mm) : c \in Heads(m) /\ c # a /\ c \in 0..MaxAddr /\ mm[c] = m[c]
                          /\ NextHeadPtr(mm, c) = NextHeadPtr(m, c)
  BY <1>2, <1>3, <1>4, <1>5
<1>7. mm[0] = m[0] /\ NextHeadPtr(mm, 0) = NextHeadPtr(m, 0)
  BY <1>1, <1>2, <1>3
<1>8. \A c \in 1..MaxAddr : mm[c].len = 0 => mm[c] = Zero
  BY <1>2, <1>4 DEF Layout
<1>9. ASSUME NEW c \in Heads(mm) PROVE \E d \in Heads(mm) \cup {0} : NextHeadPtr(mm, d) = c
  <2>1. PICK d \in Heads(m) \cup {0} : NextHeadPtr(m, d) = c
    BY <1>6 DEF Layout
  <2>2. d # a
    <3>1. NextHeadPtr(m, a) > a /\ NextHeadPtr(m, a) \in Nat
      BY <1>1, NextIsBehind
    <3>2. c <= a /\ c \in 0..MaxAddr
      BY <1>6
    <3> QED BY <1>1, <2>1, <3>1, <3>2
  <2>3. d \in Heads(mm) \cup {0} /\ NextHeadPtr(mm, d) = NextHeadPtr(m, d)
    BY <1>5, <1>6, <1>7, <2>1, <2>2
  <2> QED BY <2>1, <2>3
<1>10. Layout(mm)
  <2>1. \A c \in Heads(mm) : NextHeadPtr(mm, c) <= MaxAddr
    BY <1>6 DEF Layout
  <2>2. \A c, d \in Heads(mm) : c < d => NextHeadPtr(mm, c) <= d
    BY <1>6 DEF Layout
  <2>3. \A c \in Heads(mm) : mm[c].pre = 0 /\ mm[c].flag # "UNUSED" => c = 1
    BY <1>6 DEF Layout
  <2>4. mm[0].len = 0 /\ mm[0].seq = 0 /\ mm[0].flag # "DEALLOC"
    BY <1>7 DEF Layout
  <2> QED BY <1>8, <1>9, <2>1, <2>2, <2>3, <2>4 DEF Layout
<1> QED BY <1>2, <1>3, <1>5, <1>10

\* Marking the base, or cutting memory behind the last entry, leaves the layout.
LEMMA LayoutSame ==
    ASSUME NEW m \in Headers, Layout(m), NEW mm \in Headers,
           \A c \in 1..MaxAddr : mm[c] = m[c],
           mm[0].len = 0 /\ mm[0].seq = 0 /\ mm[0].flag # "DEALLOC"
    PROVE  /\ Layout(mm) /\ Heads(mm) = Heads(m)
           /\ \A c \in 0..MaxAddr : mm[c].len = m[c].len /\ NextHeadPtr(mm, c) = NextHeadPtr(m, c)
<1>1. \A c \in 0..MaxAddr : mm[c].len = m[c].len
  <2>1. \A c \in 0..MaxAddr : c = 0 \/ c \in 1..MaxAddr
    BY MaxAddrBound
  <2> QED BY <2>1 DEF Layout
<1>2. \A c \in 0..MaxAddr : NextHeadPtr(mm, c) = NextHeadPtr(m, c)
  BY <1>1 DEF NextHeadPtr
<1>3. Heads(mm) = Heads(m)
  BY DEF Heads
<1>4. \A c \in Heads(m) : c \in 0..MaxAddr /\ mm[c] = m[c]
  BY DEF Heads
<1>5. 0 \in 0..MaxAddr
  BY MaxAddrBound
<1>6. \A c \in Heads(mm) : NextHeadPtr(mm, c) <= MaxAddr
  BY <1>2, <1>3, <1>4 DEF Layout
<1>7. \A c, d \in Heads(mm) : c < d => NextHeadPtr(mm, c) <= d
  BY <1>2, <1>3, <1>4 DEF Layout
<1>8. ASSUME NEW c \in Heads(mm) PROVE \E d \in Heads(mm) \cup {0} : NextHeadPtr(mm, d) = c
  <2>1. PICK d \in Heads(m) \cup {0} : NextHeadPtr(m, d) = c
    BY <1>3 DEF Layout
  <2>2. d \in 0..MaxAddr
    BY <1>4, <1>5
  <2> QED BY <1>2, <1>3, <2>1, <2>2
<1>9. \A c \in Heads(mm) : mm[c].pre = 0 /\ mm[c].flag # "UNUSED" => c = 1
  BY <1>3, <1>4 DEF Layout
<1>10. \A c \in 1..MaxAddr : mm[c].len = 0 => mm[c] = Zero
  BY DEF Layout
<1>11. Layout(mm)
  BY <1>6, <1>7, <1>8, <1>9, <1>10 DEF Layout
<1> QED BY <1>1, <1>2, <1>3, <1>11

-----------------------------------------------------------------------------
(* Merging clears the last header, where it is given back, and leaves cur  *)
(* at the base, or at no header.                                           *)

AtEndOf(m, cur) == cur \in Heads(m) \cup {0} /\ \A c \in Heads(m) : c <= cur
AstrayIn(m, cur) == cur # Base /\ m[cur].len = 0

\* What memory w, with cur at p, has kept of m.
Merged(m, w, p) ==
    /\ Layout(w) /\ Heads(w) \subseteq Heads(m)
    /\ \A c \in Heads(w) : w[c] = m[c] /\ NextHeadPtr(w, c) = NextHeadPtr(m, c)
    /\ \A c \in Heads(m) : c \notin Heads(w) => m[c].flag = "DEALLOC"
    /\ AstrayIn(w, p) \/ AtEndOf(w, p)

LEMMA MergeOk ==
    ASSUME NEW m \in Headers, Layout(m), NEW cur \in 0..MaxAddr, AstrayIn(m, cur) \/ AtEndOf(m, cur),
           NEW cap \in 0..MaxAddr, MergeHarm(m, cur, cap) = {}
    PROVE  \E w \in Headers, p \in 0..MaxAddr : MergeMemory(m, cur) = [m |-> w, p |-> p] /\ Merged(m, w, p)
<1>1. CASE m[cur].flag # "DEALLOC"
  <2>1. MergeMemory(m, cur) = [m |-> m, p |-> cur]
    BY <1>1 DEF MergeMemory
  <2>2. Merged(m, m, cur)
    BY DEF Merged
  <2> QED BY <2>1, <2>2
<1>2. CASE m[cur].flag = "DEALLOC"
  <2> DEFINE w == SetHead(m, cur, Zero)  p == PrevHeadPtr(m, cur)
             s == [m |-> [m EXCEPT ![cur] = Zero], p |-> PrevHeadPtr(m, cur)]
             go == CHOOSE g : g = [k \in 0..MaxAddr |-> IF k = 0 THEN s ELSE MergeTurn(g[k - 1])]
  <2>1. cur \in Heads(m) /\ cur # 0 /\ cur \in 1..MaxAddr /\ \A c \in Heads(m) : c <= cur
    <3>1. cur # 0
      BY <1>2 DEF Layout
    <3>2. cur \in 1..MaxAddr
      BY <3>1, MaxAddrBound
    <3>3. m[cur].len # 0
      BY <1>2, <3>2 DEF Layout, Zero
    <3> QED BY <3>1, <3>2, <3>3 DEF AstrayIn, AtEndOf
  <2>2. m[cur].pre \in Nat /\ p = cur + m[cur].pre - 1 /\ ~(p >= cap)
    <3>1. m[cur] \in HeadType
      BY NextIsBehind
    <3>2. ~(p >= cap)
      BY <1>2 DEF MergeHarm
    <3> QED BY <3>1, <3>2 DEF HeadType, PrevHeadPtr
  <2> HIDE DEF w, p
  <2>3. /\ w \in Headers /\ Layout(w) /\ Heads(w) = Heads(m) \ {cur} /\ w[cur] = Zero
        /\ \A c \in 0..MaxAddr : c # cur => w[c] = m[c] /\ NextHeadPtr(w, c) = NextHeadPtr(m, c)
    BY <2>1, LayoutShortened DEF w
  <2>4. \A c \in Heads(w) : c \in 0..MaxAddr /\ c # cur
    BY <2>3, MaxAddrBound DEF Heads
  <2>5. p \in 0..MaxAddr /\ (p = 0 \/ p >= cur)
    <3>1. m[cur].pre = 0 => cur = 1
      BY <1>2, <2>1 DEF Layout
    <3> QED BY <2>1, <2>2, <3>1, MaxAddrBound
  <2>6. p = 0 => AtEndOf(w, p)
    <3>1. SUFFICES ASSUME p = 0 PROVE Heads(w) = {}
      BY DEF AtEndOf
    <3>2. m[cur].pre = 0 /\ cur = 1
      BY <2>1, <2>2, <3>1
    <3>3. \A c \in Heads(w) : c \in 1..MaxAddr /\ c <= 1 /\ c # 1
      BY <2>1, <2>3, <3>2 DEF Heads
    <3> QED BY <3>3
  <2>7. p # 0 => w[p] = Zero
    <3>1. SUFFICES ASSUME p # 0 PROVE w[p] = Zero
      OBVIOUS
    <3>2. p \in 1..MaxAddr /\ p >= cur
      BY <2>5, <3>1, MaxAddrBound
    <3>3. p \notin Heads(w)
      <4>1. ASSUME p \in Heads(w) PROVE FALSE
        <5>1. p \in Heads(m) /\ p # cur
          BY <2>3, <4>1
        <5>2. p <= cur
          BY <2>1, <5>1
        <5> QED BY <2>1, <3>2, <5>1, <5>2
      <4> QED BY <4>1
    <3>4. w[p].len \in Nat
      BY <2>3, <2>5, NextIsBehind
    <3>5. w[p].len = 0
      BY <3>2, <3>3, <3>4 DEF Heads
    <3> QED BY <2>3, <3>2, <3>5 DEF Layout
  <2>8. Zero.len = 0 /\ Zero.flag # "DEALLOC"
    BY DEF Zero
  <2>9. AstrayIn(w, p) \/ AtEndOf(w, p)
    BY <2>6, <2>7, <2>8 DEF AstrayIn, Base
  <2>10. Merged(m, w, p)
    <3>1. Heads(w) \subseteq Heads(m) /\ \A c \in Heads(w) : w[c] = m[c] /\ NextHeadPtr(w, c) = NextHeadPtr(m, c)
      BY <2>3, <2>4
    <3>2. \A c \in Heads(m) : c \notin Heads(w) => m[c].flag = "DEALLOC"
      BY <1>2, <2>3
    <3> QED BY <2>3, <2>9, <3>1, <3>2 DEF Merged
  <2>11. go = [k \in 0..MaxAddr |-> IF k = 0 THEN s ELSE MergeTurn(go[k - 1])]
    <3>1. PICK g : Run(g, MaxAddr, "merge", s, << >>)
      BY LoopRuns, MaxAddrBound
    <3>2. g = [k \in 0..MaxAddr |-> IF k = 0 THEN s ELSE MergeTurn(g[k - 1])]
      BY <3>1 DEF Run, Turn
    <3> QED BY <3>2, Zenon
  <2>12. MergeMemory(m, cur) = go[MaxAddr]
    BY <1>2 DEF MergeMemory, MergeTurn
  <2>13. s = [m |-> w, p |-> p]
    BY DEF s, w, p, SetHead
  <2> HIDE DEF go, s
  <2>14. s.p = Base \/ s.m[s.p].flag # "DEALLOC"
    BY <2>7, <2>8, <2>13 DEF Base
  <2> DEFINE S == {k \in 0..MaxAddr : go[k] = s}
  <2>15. 0 \in S
    BY <2>11, MaxAddrBound
  <2>16. ASSUME NEW k \in 1..MaxAddr, k - 1 \in S PROVE k \in S
    <3>1. go[k] = MergeTurn(go[k - 1])
      BY <2>11, MaxAddrBound
    <3> QED BY <2>14, <2>16, <3>1 DEF MergeTurn
  <2> HIDE DEF S
  <2>17. MaxAddr \in S
    BY <2>15, <2>16, UpTo, MaxAddrBound
  <2>18. go[MaxAddr] = s
    BY <2>17 DEF S
  <2> QED BY <2>3, <2>5, <2>10, <2>12, <2>13, <2>18
<1> QED BY <1>1, <1>2

-----------------------------------------------------------------------------
(* Sums of lengths                                                         *)

\* f gives the sums of x up to n, and x the lengths of the entries of a vector.
IsSum(f, x, n) == f[0] = 0 /\ \A i \in 1..n : f[i] = f[i - 1] + x[i]
Lens(m, vec) == [i \in 1..Len(vec) |-> m[vec[i]].len]

\* The sum as a function of how many are added.
LEMMA BytesAreSums ==
    ASSUME NEW m, NEW vec \in Seq(1..MaxAddr), NEW n \in Nat, n = Len(vec)
    PROVE  \E sum : IsSum(sum, Lens(m, vec), n) /\ Bytes(m, vec) = sum[n]
<1> DEFINE go == CHOOSE g : g = [i \in 0..Len(vec) |-> IF i = 0 THEN 0 ELSE g[i - 1] + m[vec[i]].len]
<1>1. go = [i \in 0..Len(vec) |-> IF i = 0 THEN 0 ELSE go[i - 1] + m[vec[i]].len]
  <2> DEFINE x == Lens(m, vec)
  <2>1. PICK g : Run(g, n, "bytes", 0, x)
    BY LoopRuns
  <2>2. g = [i \in 0..n |-> IF i = 0 THEN 0 ELSE g[i - 1] + x[i]]
    BY <2>1 DEF Run, Turn
  <2>3. g = [i \in 0..n |-> IF i = 0 THEN 0 ELSE g[i - 1] + m[vec[i]].len]
    <3>1. \A i \in 0..n : i # 0 => x[i] = m[vec[i]].len
      BY DEF Lens
    <3> HIDE DEF x
    <3> QED BY <2>2, <3>1
  <2> QED BY <2>3, Zenon
<1>2. Bytes(m, vec) = go[Len(vec)]
  BY DEF Bytes
<1> HIDE DEF go
<1>3. go[0] = 0
  BY <1>1
<1>4. \A i \in 1..n : go[i] = go[i - 1] + m[vec[i]].len
  BY <1>1
<1>5. IsSum(go, Lens(m, vec), n)
  BY <1>3, <1>4 DEF IsSum, Lens
<1> QED BY <1>2, <1>5

\* Two vectors that agree up to n have the same sums up to n.
LEMMA SumsAgree ==
    ASSUME NEW n \in Nat, NEW f, NEW g, NEW x, NEW y, IsSum(f, x, n), IsSum(g, y, n),
           \A i \in 1..n : x[i] = y[i]
    PROVE  f[n] = g[n]
<1> DEFINE S == {i \in 0..n : f[i] = g[i]}
<1>1. 0 \in S
  BY DEF IsSum
<1>2. ASSUME NEW k \in 1..n, k - 1 \in S PROVE k \in S
  BY <1>2 DEF IsSum
<1> HIDE DEF S
<1>3. n \in S
  BY <1>1, <1>2, UpTo
<1> QED BY <1>3 DEF S

LEMMA BytesOfNone == \A m : Bytes(m, << >>) = 0
<1> TAKE m
<1>1. << >> \in Seq(1..MaxAddr) /\ Len(<< >>) = 0
  OBVIOUS
<1> DEFINE none == << >>
<1>2. none \in Seq(1..MaxAddr) /\ 0 = Len(none) /\ 0 \in Nat
  BY <1>1
<1> HIDE DEF none
<1>3. PICK sum : IsSum(sum, Lens(m, none), 0) /\ Bytes(m, none) = sum[0]
  BY <1>2, BytesAreSums
<1> QED BY <1>3 DEF IsSum, none

\* The sum depends on the lengths of the entries in the vector only.
LEMMA BytesOfSame ==
    ASSUME NEW m, NEW mm, NEW vec \in Seq(1..MaxAddr),
           \A i \in 1..Len(vec) : m[vec[i]].len = mm[vec[i]].len
    PROVE  Bytes(m, vec) = Bytes(mm, vec)
<1>1. PICK n \in Nat : n = Len(vec)
  BY LenProperties
<1>2. PICK f : IsSum(f, Lens(m, vec), n) /\ Bytes(m, vec) = f[n]
  BY <1>1, BytesAreSums
<1>3. PICK g : IsSum(g, Lens(mm, vec), n) /\ Bytes(mm, vec) = g[n]
  BY <1>1, BytesAreSums
<1>4. \A i \in 1..n : Lens(m, vec)[i] = Lens(mm, vec)[i]
  BY <1>1 DEF Lens
<1>5. f[n] = g[n]
  BY <1>2, <1>3, <1>4, SumsAgree
<1> QED BY <1>2, <1>3, <1>5

\* One entry more.
LEMMA BytesOfAppend ==
    ASSUME NEW m, NEW vec \in Seq(1..MaxAddr), NEW a \in 1..MaxAddr
    PROVE  Bytes(m, Append(vec, a)) = Bytes(m, vec) + m[a].len
<1>1. PICK n \in Nat : n = Len(vec)
  BY LenProperties
<1>2. /\ Append(vec, a) \in Seq(1..MaxAddr) /\ Len(Append(vec, a)) = n + 1
      /\ Append(vec, a)[n + 1] = a /\ \A i \in 1..n : Append(vec, a)[i] = vec[i]
  BY <1>1, AppendProperties
<1>3. PICK w \in Seq(1..MaxAddr) : /\ w = Append(vec, a) /\ Len(w) = n + 1 /\ w[n + 1] = a
                                   /\ \A i \in 1..n : w[i] = vec[i]
  BY <1>2
<1>4. PICK f : IsSum(f, Lens(m, vec), n) /\ Bytes(m, vec) = f[n]
  BY <1>1, BytesAreSums
<1>5. PICK g : IsSum(g, Lens(m, w), n + 1) /\ Bytes(m, w) = g[n + 1]
  <2>1. n + 1 \in Nat /\ n + 1 = Len(w)
    BY <1>3
  <2> QED BY <2>1, BytesAreSums
<1>6. IsSum(g, Lens(m, w), n)
  <2>1. \A i \in 1..n : i \in 1..n + 1
    OBVIOUS
  <2> QED BY <1>5, <2>1 DEF IsSum
<1>7. \A i \in 1..n : Lens(m, vec)[i] = Lens(m, w)[i]
  <2>1. \A i \in 1..n : i \in 1..Len(vec) /\ i \in 1..Len(w)
    BY <1>1, <1>3
  <2> QED BY <1>3, <2>1 DEF Lens
<1>8. f[n] = g[n]
  BY <1>4, <1>6, <1>7, SumsAgree
<1>9. g[n + 1] = g[n] + m[a].len
  <2>1. n + 1 \in 1..n + 1 /\ (n + 1) - 1 = n /\ n + 1 \in 1..Len(w)
    BY <1>3
  <2>2. g[n + 1] = g[n] + Lens(m, w)[n + 1]
    BY <1>5, <2>1 DEF IsSum
  <2>3. Lens(m, w)[n + 1] = m[a].len
    BY <1>3, <2>1 DEF Lens
  <2> QED BY <2>2, <2>3
<1> QED BY <1>3, <1>4, <1>5, <1>8, <1>9

\* One entry less.
LEMMA BytesOfFront ==
    ASSUME NEW m, NEW vec \in Seq(1..MaxAddr), NEW n \in Nat, Len(vec) = n + 1
    PROVE  /\ Front(vec) \in Seq(1..MaxAddr) /\ Len(Front(vec)) = n
           /\ \A i \in 1..n : Front(vec)[i] = vec[i]
           /\ Bytes(m, vec) = Bytes(m, Front(vec)) + m[vec[n + 1]].len
<1>1. \A i \in 1..n + 1 : vec[i] \in 1..MaxAddr
  BY ElementOfSeq
<1>2. Front(vec) = SubSeq(vec, 1, n)
  BY DEF Front
<1>3. /\ SubSeq(vec, 1, n) \in Seq(1..MaxAddr)
      /\ Len(SubSeq(vec, 1, n)) = n
      /\ \A i \in 1..n : SubSeq(vec, 1, n)[i] = vec[i]
  <2>1. \A i \in 1..n : vec[i] \in 1..MaxAddr /\ 1 + i - 1 = i
    BY <1>1
  <2>2. n - 1 + 1 = n /\ (IF 1 <= n THEN n - 1 + 1 ELSE 0) = n /\ 1 \in Int /\ n \in Int
    OBVIOUS
  <2> QED BY <2>1, <2>2, SubSeqProperties
<1>4. PICK f \in Seq(1..MaxAddr) : f = Front(vec) /\ Len(f) = n /\ \A i \in 1..n : f[i] = vec[i]
  BY <1>2, <1>3
<1>5. PICK a \in 1..MaxAddr : a = vec[n + 1]
  BY <1>1
<1>6. vec = Append(f, a)
  <2>1. /\ Append(f, a) \in Seq(1..MaxAddr) /\ Len(Append(f, a)) = n + 1
        /\ \A i \in 1..n : Append(f, a)[i] = f[i]
        /\ Append(f, a)[n + 1] = a
    BY <1>4, AppendProperties
  <2>2. ASSUME NEW i \in 1..Len(vec) PROVE vec[i] = Append(f, a)[i]
    <3>1. i \in 1..n \/ i = n + 1
      OBVIOUS
    <3> QED BY <1>4, <1>5, <2>1, <3>1
  <2> QED BY <2>1, <2>2, SeqEqual
<1>7. Bytes(m, Append(f, a)) = Bytes(m, f) + m[a].len
  BY BytesOfAppend
<1> QED BY <1>4, <1>5, <1>6, <1>7

-----------------------------------------------------------------------------
(* The invariant                                                           *)

\* Every entry of the log is in memory, filled, under its number and with its
\* contents; later entries have higher addresses.
LogKept ==
    /\ \A i \in 1..Len(log) :
         /\ log[i].at \in Heads(shm.mem) /\ shm.mem[log[i].at].flag = "FILLED"
         /\ shm.mem[log[i].at].seq = shm.start + i - 1 /\ shm.buf[log[i].at] = log[i].val
    /\ \A i, j \in 1..Len(log) : i < j => log[i].at < log[j].at

InLog(a) == \E i \in 1..Len(log) : log[i].at = a

\* Between two processes: MaxIndex covers the log, and nothing else that is numbered
\* and filled.
ClosedOk ==
    /\ op = Idle
    /\ log # << >> => shm.start + Len(log) - 1 <= shm.max
    /\ \A a \in Heads(shm.mem) :
         shm.mem[a].seq # 0 => shm.mem[a].seq > shm.max \/ InLog(a) \/ shm.mem[a].flag = "ALLOCED"

\* An entry on its way into the log or out of it is the last of the vector already or still.
InHand == op.kind \in {"mark", "append", "pop"}
InVec(a) == \E i \in 1..Len(db.vec) : db.vec[i] = a

\* Allocation goes on behind the last entry, or astray.
AtEnd == db.cur \in Heads(shm.mem) \cup {0} /\ \A a \in Heads(shm.mem) : a <= db.cur
CurIsLast ==
    /\ \A a \in Heads(shm.mem) : NextHeadPtr(shm.mem, a) <= db.cap
    /\ Astray \/ AtEnd

\* The vector is the log and what is in hand.
VecIsLog ==
    /\ Len(db.vec) = IF InHand THEN Len(log) + 1 ELSE Len(log)
    /\ \A i \in 1..Len(log) : db.vec[i] = log[i].at
    /\ InHand => db.vec[Len(db.vec)] = op.at

\* It is in the order of the addresses and has every entry that is numbered.
VecInOrder ==
    /\ \A i, j \in 1..Len(db.vec) : i < j => db.vec[i] < db.vec[j]
    /\ \A i \in 1..Len(db.vec) : db.vec[i] \in Heads(shm.mem)
    /\ \A a \in Heads(shm.mem) : shm.mem[a].seq # 0 => InVec(a)

\* MaxIndex is the last number of the log, or about to follow it.
MaxFollows ==
    IF op.kind = "pop" THEN shm.max = last_seq
    ELSE log # << >> => shm.max = shm.start + Len(log) - 1

\* What the call in progress has done.
AllocBegun ==
    op.kind = "alloc" => /\ db.cur = op.at /\ op.at \in Heads(shm.mem) /\ (op.pre = 0 => op.at = 1)
                         /\ shm.mem[op.at].seq = 0
AppendBegun ==
    /\ op.kind \in {"mark", "append"} => shm.mem[op.at].seq = last_seq
    /\ op.kind = "mark" => shm.mem[op.at].flag = "ALLOCED"
    /\ op.kind = "append" => shm.mem[op.at].flag = "FILLED"
FreeBegun ==
    /\ op.kind \in {"pop", "dealloc"} => op.at \in Heads(shm.mem) /\ shm.mem[op.at].seq = 0
    /\ op.kind = "dealloc" => ~InVec(op.at)
Complete ==
    \A a \in Heads(shm.mem) : shm.mem[a].flag = "UNUSED" => op.kind = "alloc" /\ op.at = a

OpenOk == /\ CurIsLast /\ VecIsLog /\ VecInOrder /\ MaxFollows
          /\ AllocBegun /\ AppendBegun /\ FreeBegun /\ Complete

DbOk ==
    /\ DbTypes /\ Layout(shm.mem) /\ LogKept
    /\ db.total = Bytes(shm.mem, db.vec)
    /\ db.isopen => OpenOk
    /\ ~db.isopen => ClosedOk

DbInv == harm = {} => DbOk

-----------------------------------------------------------------------------
(* The steps                                                               *)

\* At the beginning the memory is clear.
LEMMA DbInitOk == ASSUME DbInit PROVE DbOk
<1>1. MaxAddr \in Nat
  BY MaxAddrBound
<1>2. Zero \in HeadType /\ shm.mem \in Headers /\ \A a \in 0..MaxAddr : shm.mem[a] = Zero
  BY DEF DbInit, Headers, HeadType, Zero, Flags
<1>3. shm.buf \in Contents
  BY DEF DbInit, Contents
<1>4. log = << >> /\ db.vec = << >> /\ db.total = 0 /\ ~db.isopen /\ op = Idle
  BY DEF DbInit, ClosedDb
<1>5. DbTypes
  <2>1. db \in [isopen : BOOLEAN, cap : 0..MaxAddr, cur : 0..MaxAddr, vec : Seq(1..MaxAddr), total : Int]
    BY <1>1 DEF DbInit, ClosedDb, Base
  <2>2. shm \in [size : 0..MaxAddr, start : Nat \ {0}, max : Nat, mem : Headers, buf : Contents]
    <3>1. shm = [size |-> 0, start |-> 1, max |-> 0, mem |-> shm.mem, buf |-> shm.buf]
      BY DEF DbInit
    <3>2. 0 \in 0..MaxAddr
      BY <1>1
    <3> QED BY <1>2, <1>3, <3>1, <3>2
  <2>3. op.kind = "idle" /\ log \in Seq(LogEntry)
    BY <1>4 DEF Idle
  <2> QED BY <2>1, <2>2, <2>3 DEF DbTypes
<1>6. Heads(shm.mem) = {}
  BY <1>1, <1>2 DEF Heads, Zero
<1>7. Layout(shm.mem)
  BY <1>1, <1>2, <1>6 DEF Layout, Zero
<1>8. LogKept /\ ClosedOk
  BY <1>4, <1>6 DEF LogKept, ClosedOk
<1>9. db.total = Bytes(shm.mem, db.vec)
  BY <1>4, BytesOfNone
<1> QED BY <1>4, <1>5, <1>7, <1>8, <1>9 DEF DbOk

\* What the types say of the parts of the state.
LEMMA TypedParts ==
    ASSUME DbTypes
    PROVE  /\ shm.mem \in Headers /\ shm.buf \in Contents
           /\ shm.start \in Nat \ {0} /\ shm.max \in Nat /\ shm.size \in 0..MaxAddr
           /\ db.vec \in Seq(1..MaxAddr) /\ db.cur \in 0..MaxAddr /\ db.cap \in 0..MaxAddr /\ db.total \in Int
           /\ Len(db.vec) \in Nat /\ Len(log) \in Nat /\ MaxAddr \in Nat
           /\ \A i \in 1..Len(db.vec) : db.vec[i] \in 1..MaxAddr
           /\ \A i \in 1..Len(log) : log[i].at \in 1..MaxAddr /\ log[i].val \in Payloads \cup {0}
<1>1. db.vec \in Seq(1..MaxAddr) /\ log \in Seq(LogEntry)
  BY DEF DbTypes
<1>2. Len(db.vec) \in Nat /\ \A i \in 1..Len(db.vec) : db.vec[i] \in 1..MaxAddr
  BY <1>1, LenProperties, ElementOfSeq
<1>3. Len(log) \in Nat /\ \A i \in 1..Len(log) : log[i] \in LogEntry
  BY <1>1, LenProperties, ElementOfSeq
<1>4. \A i \in 1..Len(log) : log[i].at \in 1..MaxAddr /\ log[i].val \in Payloads \cup {0}
  BY <1>3 DEF LogEntry
<1>5. shm.mem \in Headers /\ shm.buf \in Contents
      /\ shm.start \in Nat \ {0} /\ shm.max \in Nat /\ shm.size \in 0..MaxAddr
  BY DEF DbTypes
<1>6. db.cur \in 0..MaxAddr /\ db.cap \in 0..MaxAddr /\ db.total \in Int
  BY DEF DbTypes
<1> QED BY <1>1, <1>2, <1>3, <1>4, <1>5, <1>6, MaxAddrBound

\* Where nothing is in hand, the vector is the log.
LEMMA InVecInLog ==
    ASSUME DbOk, db.isopen, ~InHand
    PROVE  /\ Len(db.vec) = Len(log) /\ \A i \in 1..Len(log) : db.vec[i] = log[i].at
           /\ \A a : InVec(a) <=> InLog(a)
<1>1. Len(db.vec) = Len(log) /\ \A i \in 1..Len(log) : db.vec[i] = log[i].at
  BY DEF DbOk, OpenOk, VecIsLog
<1> QED BY <1>1 DEF InVec, InLog

\* A close leaves memory from which the next process recovers the log.
LEMMA CloseOk == ASSUME DbOk, ztl_memdb_close PROVE DbOk'
<1>1. /\ db.isopen /\ op = Idle /\ db' = [db EXCEPT !.isopen = FALSE]
      /\ shm' = shm /\ op' = op /\ log' = log
  BY DEF ztl_memdb_close
<1>2. op.kind = "idle" /\ ~InHand /\ DbTypes
  BY <1>1 DEF Idle, InHand, DbOk
<1>3. ~db'.isopen /\ db'.vec = db.vec /\ db'.total = db.total
  BY <1>1, <1>2 DEF DbTypes
<1>4. DbTypes'
  BY <1>1, <1>2 DEF DbTypes
<1>5. ClosedOk
  <2>1. \A a \in Heads(shm.mem) : shm.mem[a].seq # 0 => InLog(a)
    BY <1>1, <1>2, InVecInLog DEF DbOk, OpenOk, VecInOrder
  <2>2. log # << >> => shm.start + Len(log) - 1 <= shm.max
    <3>1. log # << >> => shm.max = shm.start + Len(log) - 1
      BY <1>1, <1>2 DEF DbOk, OpenOk, MaxFollows
    <3> QED BY <1>2, <3>1, TypedParts
  <2> QED BY <1>1, <2>1, <2>2 DEF ClosedOk
<1>6. ClosedOk' /\ LogKept'
  <2>1. LogKept
    BY DEF DbOk
  <2> QED BY <1>1, <1>5, <2>1 DEF ClosedOk, LogKept, InLog
<1> QED BY <1>1, <1>3, <1>4, <1>6 DEF DbOk

\* A crash anywhere leaves such memory too.
LEMMA CrashOk == ASSUME DbOk, Crash PROVE DbOk'
<1>1. /\ db' = ClosedDb /\ op' = Idle /\ shm' = shm
      /\ log' = IF op.kind = "append" /\ last_seq <= shm.max
                THEN Append(log, [at |-> op.at, val |-> shm.buf[op.at]]) ELSE log
  BY DEF Crash
<1>2. DbTypes /\ log \in Seq(LogEntry)
  BY DEF DbOk, DbTypes
<1>3. ~db'.isopen /\ db'.vec = << >> /\ db'.total = 0
  BY <1>1 DEF ClosedDb
<1>4. db'.total = Bytes(shm'.mem, db'.vec)
  BY <1>3, BytesOfNone
<1>5. db' \in [isopen : BOOLEAN, cap : 0..MaxAddr, cur : 0..MaxAddr, vec : Seq(1..MaxAddr), total : Int]
  BY <1>1, MaxAddrBound DEF ClosedDb, Base
<1>6. SUFFICES /\ log' \in Seq(LogEntry) /\ LogKept'
               /\ log' # << >> => shm.start + Len(log') - 1 <= shm.max
               /\ \A a \in Heads(shm.mem) :
                    shm.mem[a].seq # 0 => shm.mem[a].seq > shm.max \/ InLog(a)' \/ shm.mem[a].flag = "ALLOCED"
  <2>1. DbTypes'
    BY <1>1, <1>2, <1>5, <1>6 DEF DbTypes, Idle
  <2>2. ClosedOk'
    BY <1>1, <1>6 DEF ClosedOk
  <2>3. Layout(shm'.mem)
    BY <1>1 DEF DbOk
  <2> QED BY <1>3, <1>4, <1>6, <2>1, <2>2, <2>3 DEF DbOk
<1>7. CASE ~db.isopen
  <2>1. ClosedOk /\ LogKept
    BY <1>7 DEF DbOk
  <2>2. log' = log
    BY <1>1, <2>1 DEF ClosedOk, Idle
  <2> QED BY <1>1, <1>2, <2>1, <2>2 DEF ClosedOk, LogKept, InLog
<1>8. CASE db.isopen /\ log' = log
  <2>1. LogKept'
    BY <1>1, <1>8 DEF DbOk, LogKept
  <2>2. OpenOk
    BY <1>8 DEF DbOk
  <2>3. PICK n \in Nat : n = Len(log)
    BY <1>2, LenProperties
  <2>4. log # << >> => shm.start + n - 1 <= shm.max
    <3>1. log # << >> => shm.max = shm.start + n - 1 \/ (shm.max = last_seq /\ Len(db.vec) = n + 1)
      <4>1. CASE op.kind = "pop"
        BY <2>2, <2>3, <4>1 DEF OpenOk, MaxFollows, VecIsLog, InHand
      <4>2. CASE op.kind # "pop"
        <5>1. log # << >> => shm.max = shm.start + Len(log) - 1
          BY <2>2, <4>2 DEF OpenOk, MaxFollows
        <5> QED BY <2>3, <5>1
      <4> QED BY <4>1, <4>2
    <3>2. last_seq = shm.start + Len(db.vec) - 1
      BY DEF last_seq
    <3>3. shm.start \in Nat /\ Len(db.vec) \in Nat
      BY <1>2, TypedParts
    <3> QED BY <2>3, <3>1, <3>2, <3>3
  <2>5. ASSUME NEW a \in Heads(shm.mem), shm.mem[a].seq # 0
        PROVE  shm.mem[a].seq > shm.max \/ InLog(a) \/ shm.mem[a].flag = "ALLOCED"
    <3>1. PICK i \in 1..Len(db.vec) : db.vec[i] = a
      BY <2>2, <2>5 DEF OpenOk, VecInOrder, InVec
    <3>2. CASE i \in 1..n
      BY <2>2, <2>3, <3>1, <3>2 DEF OpenOk, VecIsLog, InLog
    <3>3. CASE i \notin 1..n
      <4>1. Len(db.vec) = n + 1 /\ InHand /\ a = op.at
        BY <2>2, <2>3, <3>1, <3>3 DEF OpenOk, VecIsLog
      <4>2. op.kind \in {"mark", "append"}
        BY <2>2, <2>5, <4>1 DEF OpenOk, FreeBegun, InHand
      <4>3. shm.mem[a].seq = last_seq /\ (op.kind = "mark" => shm.mem[a].flag = "ALLOCED")
        BY <2>2, <4>1, <4>2 DEF OpenOk, AppendBegun
      <4>4. op.kind = "append" => ~(last_seq <= shm.max)
        <5>1. Append(log, [at |-> op.at, val |-> shm.buf[op.at]]) # log
          BY <1>2, <2>3
        <5> QED BY <1>1, <1>8, <5>1
      <4>5. last_seq \in Int /\ shm.max \in Int
        BY <1>2, TypedParts DEF last_seq
      <4> QED BY <4>2, <4>3, <4>4, <4>5
    <3> QED BY <3>2, <3>3
  <2> QED BY <1>2, <1>8, <2>1, <2>3, <2>4, <2>5 DEF InLog
<1>9. CASE db.isopen /\ log' # log
  <2> DEFINE e == [at |-> op.at, val |-> shm.buf[op.at]]
  <2>1. op.kind = "append" /\ last_seq <= shm.max /\ log' = Append(log, e) /\ OpenOk
    BY <1>1, <1>9 DEF DbOk
  <2>2. e \in LogEntry
    <3>1. op.at \in 1..MaxAddr /\ op.at \in 0..MaxAddr /\ shm.buf \in Contents
      BY <1>2, <2>1 DEF DbTypes
    <3>2. shm.buf[op.at] \in Payloads \cup {0}
      BY <3>1 DEF Contents
    <3> QED BY <3>1, <3>2 DEF LogEntry
  <2>3. PICK n \in Nat : n = Len(log)
    BY <1>2, LenProperties
  <2>4. /\ log' \in Seq(LogEntry) /\ Len(log') = n + 1 /\ log'[n + 1] = e
        /\ \A i \in 1..n : log'[i] = log[i]
    <3> HIDE DEF e
    <3> QED BY <1>2, <2>1, <2>2, <2>3, AppendProperties
  <2>5. Len(db.vec) = n + 1 /\ db.vec[n + 1] = op.at /\ \A i \in 1..n : db.vec[i] = log[i].at
    BY <2>1, <2>3 DEF OpenOk, VecIsLog, InHand
  <2>6. \A i \in 1..n + 1 : db.vec[i] = log'[i].at
    <3>1. \A i \in 1..n + 1 : i \in 1..n \/ i = n + 1
      OBVIOUS
    <3> QED BY <2>4, <2>5, <3>1
  <2>7. last_seq = shm.start + (n + 1) - 1
    BY <2>5 DEF last_seq
  <2>8. LogKept'
    <3>1. ASSUME NEW i \in 1..n + 1
          PROVE  /\ log'[i].at \in Heads(shm.mem) /\ shm.mem[log'[i].at].flag = "FILLED"
                 /\ shm.mem[log'[i].at].seq = shm.start + i - 1 /\ shm.buf[log'[i].at] = log'[i].val
      <4>1. log'[i].at \in Heads(shm.mem)
        BY <2>1, <2>5, <2>6 DEF OpenOk, VecInOrder
      <4>2. CASE i \in 1..n
        BY <2>3, <2>4, <4>1, <4>2 DEF DbOk, LogKept
      <4>3. CASE i = n + 1
        BY <2>1, <2>4, <2>7, <4>1, <4>3 DEF OpenOk, AppendBegun
      <4> QED BY <4>2, <4>3
    <3>2. \A i, j \in 1..n + 1 : i < j => log'[i].at < log'[j].at
      <4>1. \A i, j \in 1..Len(db.vec) : i < j => db.vec[i] < db.vec[j]
        BY <2>1 DEF OpenOk, VecInOrder
      <4>2. \A i, j \in 1..n + 1 : i < j => db.vec[i] < db.vec[j]
        BY <2>5, <4>1
      <4> QED BY <2>6, <4>2
    <3> QED BY <1>1, <2>4, <3>1, <3>2 DEF LogKept
  <2>9. ASSUME NEW a \in Heads(shm.mem), shm.mem[a].seq # 0 PROVE InLog(a)'
    <3>1. PICK i \in 1..n + 1 : db.vec[i] = a
      BY <2>1, <2>5, <2>9 DEF OpenOk, VecInOrder, InVec
    <3>2. i \in 1..Len(log') /\ log'[i].at = a
      BY <2>4, <2>6, <3>1
    <3> QED BY <3>2 DEF InLog
  <2> QED BY <2>1, <2>4, <2>7, <2>8, <2>9
<1> QED BY <1>7, <1>8, <1>9

\* An allocation writes the length of a header behind the last one.
LEMMA AllocLengthOk ==
    ASSUME DbOk, NEW len \in EntryLens, NEW val \in Payloads, AllocLength(len, val), ~Astray
    PROVE  DbOk'
<1> DEFINE m == shm.mem  mm == shm'.mem  a == NextHeadPtr(shm.mem, db.cur)
<1>1. /\ db.isopen /\ op = Idle /\ a + 1 + len < db.cap
      /\ op' = [kind |-> "alloc", at |-> a, pre |-> m[db.cur].len, val |-> val]
      /\ db' = [db EXCEPT !.cur = a]
      /\ shm' = [shm EXCEPT !.mem[a].len = len]
      /\ log' = log
  BY DEF AllocLength, Ready
<1>2. DbTypes /\ Layout(m) /\ LogKept /\ OpenOk /\ db.total = Bytes(m, db.vec) /\ op.kind = "idle" /\ ~InHand
  BY <1>1 DEF DbOk, Idle, InHand
<1>3. /\ mm = SetLen(m, a, len)
      /\ shm'.start = shm.start /\ shm'.max = shm.max /\ shm'.buf = shm.buf /\ shm'.size = shm.size
      /\ db'.cur = a /\ db'.vec = db.vec /\ db'.total = db.total /\ db'.isopen = db.isopen /\ db'.cap = db.cap
  BY <1>1, <1>2 DEF DbTypes, SetLen
<1>4. db.cur \in Heads(m) \cup {0} /\ \A c \in Heads(m) : c <= db.cur /\ NextHeadPtr(m, c) <= db.cap
  BY <1>2 DEF OpenOk, CurIsLast, AtEnd
<1>5. len \in Nat \ {0} /\ m \in Headers /\ db.cur \in 0..MaxAddr /\ db.cap \in 0..MaxAddr /\ MaxAddr \in Nat
  BY <1>2, TypedParts, DbAssumption
<1>6. a \in Nat /\ a > db.cur /\ a = db.cur + 1 + m[db.cur].len /\ m[db.cur].len \in Nat /\ a + 1 + len <= MaxAddr
  <2>1. a \in Nat /\ a > db.cur /\ a = db.cur + 1 + m[db.cur].len /\ m[db.cur].len \in Nat
    BY <1>5, NextIsBehind
  <2> QED BY <1>1, <1>5, <2>1
<1>7. /\ mm \in Headers /\ Layout(mm) /\ Heads(mm) = Heads(m) \cup {a}
      /\ a \in 1..MaxAddr /\ a > db.cur /\ m[a] = Zero
      /\ mm[a] = [len |-> len, pre |-> 0, seq |-> 0, flag |-> "UNUSED"]
      /\ \A c \in 0..MaxAddr : c # a => mm[c] = m[c]
      /\ NextHeadPtr(mm, a) = a + 1 + len
      /\ \A c \in Heads(m) \cup {0} : NextHeadPtr(mm, c) = NextHeadPtr(m, c)
  <2> HIDE DEF a, m, mm
  <2>1. a = NextHeadPtr(m, db.cur) /\ \A c \in Heads(m) : c <= db.cur
    BY <1>4 DEF a, m
  <2> QED BY <1>2, <1>3, <1>4, <1>5, <1>6, <2>1, LayoutExtended
<1> HIDE DEF a
<1>8. DbTypes'
  <2>1. shm' \in [size : 0..MaxAddr, start : Nat \ {0}, max : Nat, mem : Headers, buf : Contents]
    <3>1. shm' = [size |-> shm.size, start |-> shm.start, max |-> shm.max, mem |-> mm, buf |-> shm.buf]
      BY <1>1, <1>2 DEF DbTypes
    <3> QED BY <1>2, <1>7, <3>1, TypedParts
  <2>2. db' \in [isopen : BOOLEAN, cap : 0..MaxAddr, cur : 0..MaxAddr, vec : Seq(1..MaxAddr), total : Int]
    <3>1. a \in 0..MaxAddr
      BY <1>5, <1>7
    <3> QED BY <1>1, <1>2, <3>1 DEF DbTypes
  <2> QED BY <1>1, <1>2, <1>6, <1>7, <2>1, <2>2 DEF DbTypes
<1>9. \A c \in Heads(m) : c \in 0..MaxAddr /\ c # a /\ mm[c] = m[c] /\ c \in Heads(mm)
  <2>1. \A c \in Heads(m) : c \in 0..MaxAddr /\ c # a /\ c \in Heads(mm)
    <3>1. \A c \in Heads(m) : c \in 1..MaxAddr
      BY DEF Heads
    <3> QED BY <1>4, <1>5, <1>6, <1>7, <3>1
  <2> QED BY <1>7, <2>1
<1>10. LogKept'
  <2>1. \A i \in 1..Len(log) : log[i].at \in Heads(m) /\ log[i].at \in Heads(mm) /\ mm[log[i].at] = m[log[i].at]
    BY <1>2, <1>9 DEF LogKept
  <2>2. shm'.start = shm.start /\ shm'.buf = shm.buf /\ log' = log
    BY <1>1, <1>3
  <2> HIDE DEF mm
  <2>3. mm = shm'.mem
    BY DEF mm
  <2> QED BY <1>2, <2>1, <2>2, <2>3 DEF LogKept
<1>11. db'.total = Bytes(mm, db'.vec)
  <2>1. \A i \in 1..Len(db.vec) : db.vec[i] \in Heads(m)
    BY <1>2 DEF OpenOk, VecInOrder
  <2>2. db.vec \in Seq(1..MaxAddr) /\ \A i \in 1..Len(db.vec) : m[db.vec[i]].len = mm[db.vec[i]].len
    BY <1>2, <1>9, <2>1, TypedParts
  <2>3. Bytes(m, db.vec) = Bytes(mm, db.vec)
    <3> HIDE DEF m, mm
    <3> QED BY <2>2, BytesOfSame
  <2> QED BY <1>2, <1>3, <2>3
<1>12. OpenOk'
  <2>1. CurIsLast'
    <3>1. \A c \in Heads(mm) : c = a \/ c \in Heads(m)
      BY <1>7
    <3>2. \A c \in Heads(m) : c <= a
      <4>1. \A c \in Heads(m) : c \in 1..MaxAddr
        BY DEF Heads
      <4> QED BY <1>4, <1>5, <1>6, <4>1
    <3>3. a + 1 + len <= db.cap /\ a <= a
      BY <1>1, <1>5, <1>6 DEF a
    <3> QED BY <1>3, <1>4, <1>7, <3>1, <3>2, <3>3 DEF CurIsLast, AtEnd
  <2>2. ~InHand' /\ op'.kind = "alloc" /\ op'.at = a /\ op'.pre = m[db.cur].len
    BY <1>1 DEF InHand
  <2>3. VecIsLog'
    BY <1>1, <1>2, <1>3, <2>2 DEF OpenOk, VecIsLog
  <2>4. VecInOrder'
    <3>1. VecInOrder
      BY <1>2 DEF OpenOk
    <3>2. ASSUME NEW c \in Heads(mm), mm[c].seq # 0 PROVE InVec(c)
      <4>1. c # a
        BY <1>7, <3>2
      <4> QED BY <1>7, <1>9, <3>1, <3>2, <4>1 DEF VecInOrder
    <3>3. \A i \in 1..Len(db.vec) : db.vec[i] \in Heads(mm)
      BY <1>9, <3>1 DEF VecInOrder
    <3>4. db'.vec = db.vec
      BY <1>3
    <3> QED BY <3>1, <3>2, <3>3, <3>4 DEF VecInOrder, InVec
  <2>5. MaxFollows'
    BY <1>1, <1>2, <1>3, <2>2 DEF OpenOk, MaxFollows
  <2>6. AllocBegun'
    <3>1. m[db.cur].len = 0 => a = 1
      BY <1>4, <1>6 DEF Heads
    <3> QED BY <1>3, <1>7, <2>2, <3>1 DEF AllocBegun
  <2>7. AppendBegun' /\ FreeBegun'
    BY <2>2 DEF AppendBegun, FreeBegun
  <2>8. Complete'
    BY <1>2, <1>7, <1>9, <2>2 DEF OpenOk, Complete
  <2> QED BY <2>1, <2>3, <2>4, <2>5, <2>6, <2>7, <2>8 DEF OpenOk
<1>13. db'.isopen
  BY <1>1, <1>3
<1> QED BY <1>7, <1>8, <1>10, <1>11, <1>12, <1>13 DEF DbOk

\* A header outside the log is written again with the same length: memory keeps
\* its layout, the log its entries and the vector its bytes.
LEMMA HeaderRewritten ==
    ASSUME DbOk, NEW a \in Heads(shm.mem), NEW h \in HeadType,
           h.len = shm.mem[a].len,
           h.pre = 0 /\ h.flag # "UNUSED" => a = 1,
           NEW mm, mm = SetHead(shm.mem, a, h)
    PROVE  /\ a \in 1..MaxAddr /\ a \in 0..MaxAddr
           /\ mm \in Headers /\ Layout(mm) /\ Heads(mm) = Heads(shm.mem)
           /\ mm[a] = h /\ \A c \in 0..MaxAddr : c # a => mm[c] = shm.mem[c]
           /\ \A c \in 0..MaxAddr : mm[c].len = shm.mem[c].len
           /\ \A c \in Heads(shm.mem) : c # a => mm[c] = shm.mem[c]
           /\ \A c \in Heads(shm.mem) : NextHeadPtr(mm, c) = NextHeadPtr(shm.mem, c)
           /\ Bytes(mm, db.vec) = db.total
<1>1. DbTypes /\ Layout(shm.mem) /\ shm.mem \in Headers /\ db.vec \in Seq(1..MaxAddr) /\ db.total = Bytes(shm.mem, db.vec)
  BY TypedParts DEF DbOk
<1>2. /\ mm \in Headers /\ Layout(mm) /\ Heads(mm) = Heads(shm.mem)
      /\ \A c \in 0..MaxAddr : mm[c].len = shm.mem[c].len /\ NextHeadPtr(mm, c) = NextHeadPtr(shm.mem, c)
  BY <1>1, LayoutRewritten
<1>3. a \in 1..MaxAddr /\ a \in 0..MaxAddr /\ \A c \in Heads(shm.mem) : c \in 0..MaxAddr
  BY DEF Heads
<1>4. mm[a] = h /\ \A c \in 0..MaxAddr : c # a => mm[c] = shm.mem[c]
  BY <1>1, <1>3 DEF SetHead, Headers
<1>5. \A i \in 1..Len(db.vec) : shm.mem[db.vec[i]].len = mm[db.vec[i]].len
  <2>1. \A i \in 1..Len(db.vec) : db.vec[i] \in 0..MaxAddr
    BY <1>1, TypedParts
  <2> QED BY <1>2, <2>1
<1>6. Bytes(mm, db.vec) = db.total
  BY <1>1, <1>5, BytesOfSame
<1> QED BY <1>2, <1>3, <1>4, <1>6

\* Entries of the log that no step touches are kept.
LEMMA LogUntouched ==
    ASSUME LogKept, DbTypes, NEW a, ~InLog(a), log' = log, shm'.start = shm.start,
           Heads(shm'.mem) = Heads(shm.mem),
           \A c \in Heads(shm.mem) : c # a => shm'.mem[c] = shm.mem[c],
           \A c \in 0..MaxAddr : c # a => shm'.buf[c] = shm.buf[c]
    PROVE  LogKept'
<1>1. \A i \in 1..Len(log) : /\ log[i].at \in Heads(shm.mem) /\ log[i].at # a /\ log[i].at \in 0..MaxAddr
  BY TypedParts DEF LogKept, InLog
<1>2. \A i \in 1..Len(log) : /\ shm'.mem[log[i].at] = shm.mem[log[i].at]
                             /\ shm'.buf[log[i].at] = shm.buf[log[i].at]
  BY <1>1
<1> QED BY <1>1, <1>2 DEF LogKept

\* The types of a state in which a header, a content and MaxIndex may have changed.
LEMMA ShmTypesKept ==
    ASSUME DbTypes, NEW s, s.mem \in Headers, s.buf \in Contents, s.start = shm.start, s.size = shm.size,
           s.max \in Nat, s = [size |-> s.size, start |-> s.start, max |-> s.max, mem |-> s.mem, buf |-> s.buf]
    PROVE  s \in [size : 0..MaxAddr, start : Nat \ {0}, max : Nat, mem : Headers, buf : Contents]
<1>1. shm.start \in Nat \ {0} /\ shm.size \in 0..MaxAddr
  BY TypedParts
<1> QED BY <1>1

\* Where cur and the lengths are as before, allocation goes on where it did.
LEMMA CurKept ==
    ASSUME DbTypes, CurIsLast, Heads(shm'.mem) = Heads(shm.mem), db'.cur = db.cur, db'.cap = db.cap,
           \A c \in 0..MaxAddr : shm'.mem[c].len = shm.mem[c].len
    PROVE  CurIsLast'
<1>1. shm'.mem[db.cur].len = shm.mem[db.cur].len
  BY TypedParts
<1>2. \A c \in Heads(shm.mem) : NextHeadPtr(shm'.mem, c) = NextHeadPtr(shm.mem, c)
  BY DEF Heads, NextHeadPtr
<1>3. \A c \in Heads(shm'.mem) : NextHeadPtr(shm'.mem, c) <= db'.cap
  BY <1>2 DEF CurIsLast
<1>4. Astray => Astray'
  BY <1>1 DEF Astray
<1>5. AtEnd => AtEnd'
  BY DEF AtEnd
<1> QED BY <1>3, <1>4, <1>5 DEF CurIsLast

\* The rest of an allocation completes the header and fills the entry.
LEMMA AllocRestOk == ASSUME DbOk, AllocRest PROVE DbOk'
<1> DEFINE m == shm.mem  mm == shm'.mem  a == op.at
           h == [len |-> shm.mem[op.at].len, pre |-> op.pre, seq |-> 0, flag |-> "ALLOCED"]
<1>1. /\ op.kind = "alloc" /\ op' = Idle
      /\ shm' = [shm EXCEPT !.mem[op.at] = [@ EXCEPT !.pre = op.pre, !.seq = 0, !.flag = "ALLOCED"],
                            !.buf[op.at] = op.val]
      /\ db' = db /\ log' = log
  BY DEF AllocRest
<1>2. DbTypes /\ Layout(m) /\ LogKept /\ db.isopen /\ OpenOk
  BY <1>1 DEF DbOk, ClosedOk, Idle
<1>3. a \in Heads(m) /\ m[a].seq = 0 /\ db.cur = a /\ (op.pre = 0 => a = 1) /\ op.pre \in Nat /\ op.val \in Payloads
  BY <1>1, <1>2 DEF OpenOk, AllocBegun, DbTypes
<1>4. a \in 0..MaxAddr /\ m[a] \in HeadType /\ m \in Headers /\ shm.buf \in Contents
  BY <1>2, <1>3, TypedParts, NextIsBehind DEF Heads
<1>5. h \in HeadType /\ [m[a] EXCEPT !.pre = op.pre, !.seq = 0, !.flag = "ALLOCED"] = h
  <2>1. m[a].len \in Nat
    BY <1>4, NextIsBehind
  <2>2. h \in HeadType
    BY <1>3, <2>1 DEF HeadType, Flags
  <2>3. [m[a] EXCEPT !.pre = op.pre, !.seq = 0, !.flag = "ALLOCED"] = h
    <3> DEFINE r == [m[a] EXCEPT !.pre = op.pre, !.seq = 0, !.flag = "ALLOCED"]
    <3>1. r \in HeadType
      BY <1>3, <1>4 DEF HeadType, Flags
    <3>2. r.len = h.len /\ r.pre = h.pre /\ r.seq = h.seq /\ r.flag = h.flag
      BY <1>4 DEF HeadType
    <3> HIDE DEF r, h
    <3>3. r = h
      BY <2>2, <3>1, <3>2, SameHeader
    <3> QED BY <3>3 DEF r
  <2> QED BY <2>2, <2>3
<1>6. /\ mm = SetHead(m, a, h) /\ shm'.buf = [shm.buf EXCEPT ![a] = op.val]
      /\ shm'.start = shm.start /\ shm'.max = shm.max /\ shm'.size = shm.size
      /\ shm' = [size |-> shm'.size, start |-> shm'.start, max |-> shm'.max, mem |-> shm'.mem, buf |-> shm'.buf]
  BY <1>1, <1>2, <1>5 DEF DbTypes, SetHead
<1>7. h.len = m[a].len /\ h.seq = 0 /\ h.flag = "ALLOCED" /\ h.pre = op.pre
  OBVIOUS
<1> HIDE DEF h, a
<1>8. /\ a \in 1..MaxAddr /\ mm \in Headers /\ Layout(mm) /\ Heads(mm) = Heads(m)
      /\ mm[a] = h /\ \A c \in Heads(m) : c # a => mm[c] = m[c]
      /\ \A c \in 0..MaxAddr : mm[c].len = m[c].len
      /\ Bytes(mm, db.vec) = db.total
  <2>1. mm = SetHead(shm.mem, a, h) /\ h.len = shm.mem[a].len /\ a \in Heads(shm.mem) /\ h \in HeadType
    BY <1>3, <1>5, <1>6, <1>7
  <2>2. h.pre = 0 /\ h.flag # "UNUSED" => a = 1
    BY <1>3, <1>7 DEF a
  <2> HIDE DEF mm
  <2> QED BY <2>1, <2>2, HeaderRewritten
<1>9. ~InLog(a)
  <2>1. \A i \in 1..Len(log) : m[log[i].at].seq = shm.start + i - 1 /\ shm.start + i - 1 # 0
    BY <1>2, TypedParts DEF LogKept
  <2> QED BY <1>3, <2>1 DEF InLog
<1>10. shm'.buf \in Contents /\ \A c \in 0..MaxAddr : c # a => shm'.buf[c] = shm.buf[c]
  BY <1>3, <1>4, <1>6 DEF Contents
<1>11. LogKept'
  BY <1>1, <1>2, <1>6, <1>8, <1>9, <1>10, LogUntouched
<1>12. DbTypes'
  <2>1. shm' \in [size : 0..MaxAddr, start : Nat \ {0}, max : Nat, mem : Headers, buf : Contents]
    <3>1. shm.max \in Nat
      BY <1>2, TypedParts
    <3> QED BY <1>2, <1>6, <1>8, <1>10, <3>1, ShmTypesKept
  <2> QED BY <1>1, <1>2, <2>1 DEF DbTypes, Idle
<1>13. ~InHand /\ ~InHand' /\ op'.kind = "idle"
  BY <1>1 DEF InHand, Idle
<1>14. ~InVec(a)
  BY <1>2, <1>9, <1>13, InVecInLog
<1>15. OpenOk'
  <2>1. CurIsLast'
    BY <1>1, <1>2, <1>8, CurKept DEF OpenOk
  <2>2. VecIsLog'
    BY <1>1, <1>2, <1>13 DEF OpenOk, VecIsLog
  <2>3. VecInOrder'
    <3>2. \A i \in 1..Len(db.vec) : db.vec[i] \in Heads(mm)
      BY <1>2, <1>8 DEF OpenOk, VecInOrder
    <3>3. \A c \in Heads(mm) : mm[c].seq # 0 => c # a /\ InVec(c)
      BY <1>2, <1>7, <1>8 DEF OpenOk, VecInOrder
    <3> QED BY <1>1, <1>2, <3>2, <3>3 DEF OpenOk, VecInOrder, InVec
  <2>4. MaxFollows'
    BY <1>1, <1>2, <1>6, <1>13 DEF OpenOk, MaxFollows
  <2>5. AllocBegun' /\ AppendBegun' /\ FreeBegun'
    BY <1>13 DEF AllocBegun, AppendBegun, FreeBegun
  <2>6. Complete'
    <3>1. \A c \in Heads(m) : m[c].flag = "UNUSED" => c = a
      BY <1>2 DEF OpenOk, Complete, a
    <3> QED BY <1>7, <1>8, <3>1 DEF Complete
  <2> QED BY <2>1, <2>2, <2>3, <2>4, <2>5, <2>6 DEF OpenOk
<1> QED BY <1>1, <1>2, <1>8, <1>11, <1>12, <1>15 DEF DbOk

\* An append that is in the order of allocation marks a header that is in no vector.
LEMMA AppendMarkOk ==
    ASSUME DbOk, NEW a \in 1..MaxAddr, AppendMark(a), ~ \E i \in DOMAIN db.vec : db.vec[i] > a
    PROVE  DbOk'
<1> DEFINE m == shm.mem  mm == shm'.mem  vec == Append(db.vec, a)
           h == [len |-> shm.mem[a].len, pre |-> shm.mem[a].pre,
                 seq |-> shm.start + Len(Append(db.vec, a)) - 1, flag |-> shm.mem[a].flag]
<1>1. /\ db.isopen /\ op = Idle /\ a \in EntriesThatAre("ALLOCED") /\ m[a].seq = 0
      /\ db' = [db EXCEPT !.vec = vec, !.total = @ + shm.mem[a].len]
      /\ shm' = [shm EXCEPT !.mem[a].seq = shm.start + Len(vec) - 1]
      /\ op' = [kind |-> "mark", at |-> a] /\ log' = log
  BY DEF AppendMark, Ready
<1>2. DbTypes /\ Layout(m) /\ LogKept /\ OpenOk /\ db.total = Bytes(m, db.vec) /\ op.kind = "idle" /\ ~InHand
  BY <1>1 DEF DbOk, Idle, InHand
<1>3. a \in Heads(m) /\ m[a].flag = "ALLOCED" /\ (m[a].pre = 0 => a = 1)
  BY <1>1, <1>2 DEF EntriesThatAre, Heads, Layout
<1>4. a \in 0..MaxAddr /\ m[a] \in HeadType /\ m \in Headers /\ m[a].len \in Nat /\ m[a].pre \in Nat
  <2>1. a \in 0..MaxAddr /\ m \in Headers
    BY <1>2, TypedParts
  <2>2. m[a] \in HeadType
    BY <2>1, NextIsBehind
  <2> QED BY <2>1, <2>2 DEF HeadType
<1>5. PICK n \in Nat : n = Len(db.vec) /\ n = Len(log)
  BY <1>1, <1>2, InVecInLog, TypedParts
<1>6. vec \in Seq(1..MaxAddr) /\ Len(vec) = n + 1 /\ vec[n + 1] = a /\ \A i \in 1..n : vec[i] = db.vec[i]
  <2>1. PICK v \in Seq(1..MaxAddr) : v = db.vec /\ n = Len(v)
    BY <1>2, <1>5, TypedParts
  <2>2. /\ Append(v, a) \in Seq(1..MaxAddr) /\ Len(Append(v, a)) = n + 1
        /\ Append(v, a)[n + 1] = a /\ \A i \in 1..n : Append(v, a)[i] = v[i]
    BY <2>1, AppendProperties
  <2> QED BY <2>1, <2>2
<1>7. h.len = m[a].len /\ h.pre = m[a].pre /\ h.seq = shm.start + n /\ h.flag = m[a].flag /\ h.seq \in Nat \ {0}
  <2>1. shm.start \in Nat \ {0}
    BY <1>2, TypedParts
  <2>2. h.seq = shm.start + Len(vec) - 1
    OBVIOUS
  <2> HIDE DEF vec
  <2>3. h.seq = shm.start + n
    BY <1>6, <2>1, <2>2
  <2> QED BY <2>1, <2>3
<1>8. h \in HeadType /\ [m[a] EXCEPT !.seq = shm.start + Len(vec) - 1] = h
  <2>1. h = [len |-> h.len, pre |-> h.pre, seq |-> h.seq, flag |-> h.flag]
    OBVIOUS
  <2>2. h \in HeadType
    <3> HIDE DEF h
    <3> QED BY <1>4, <1>7, <2>1 DEF HeadType, Flags
  <2> DEFINE q == h.seq
             r == [m[a] EXCEPT !.seq = q]
  <2>3. q \in Nat
    BY <1>7
  <2> HIDE DEF q
  <2>4. r \in HeadType /\ r.len = m[a].len /\ r.pre = m[a].pre /\ r.seq = q /\ r.flag = m[a].flag
    BY <1>4, <2>3 DEF HeadType, Flags
  <2>5. [m[a] EXCEPT !.seq = shm.start + Len(vec) - 1] = r
    BY DEF q
  <2> HIDE DEF r, h
  <2>6. r = h
    <3>1. r.len = h.len /\ r.pre = h.pre /\ r.seq = h.seq /\ r.flag = h.flag
      BY <1>7, <2>4 DEF q
    <3> QED BY <2>2, <2>4, <3>1, SameHeader
  <2> QED BY <2>2, <2>5, <2>6
<1>9. /\ mm = SetHead(m, a, h) /\ shm'.buf = shm.buf
      /\ shm'.start = shm.start /\ shm'.max = shm.max /\ shm'.size = shm.size
      /\ shm' = [size |-> shm'.size, start |-> shm'.start, max |-> shm'.max, mem |-> shm'.mem, buf |-> shm'.buf]
  <2>1. shm' = [shm EXCEPT !.mem[a] = h]
    <3> DEFINE q == shm.start + Len(vec) - 1
    <3>1. shm' = [shm EXCEPT !.mem = [shm.mem EXCEPT ![a] = [shm.mem[a] EXCEPT !.seq = q]]]
      BY <1>1
    <3>2. [shm.mem[a] EXCEPT !.seq = q] = h
      BY <1>8
    <3> HIDE DEF q, h
    <3> QED BY <3>1, <3>2
  <2> HIDE DEF h
  <2> QED BY <1>2, <2>1 DEF DbTypes, SetHead
<1>10. /\ db'.vec = vec /\ db'.total = db.total + m[a].len
       /\ db'.isopen = db.isopen /\ db'.cur = db.cur /\ db'.cap = db.cap
       /\ db' \in [isopen : BOOLEAN, cap : 0..MaxAddr, cur : 0..MaxAddr, vec : Seq(1..MaxAddr), total : Int]
  <2> DEFINE q == shm.mem[a].len
  <2>1. db' = [db EXCEPT !.vec = vec, !.total = db.total + q] /\ q \in Nat /\ q = m[a].len
    BY <1>1, <1>4
  <2> HIDE DEF vec, q
  <2>2. /\ db'.vec = vec /\ db'.total = db.total + q
        /\ db'.isopen = db.isopen /\ db'.cur = db.cur /\ db'.cap = db.cap
    BY <1>2, <2>1 DEF DbTypes
  <2>3. db' \in [isopen : BOOLEAN, cap : 0..MaxAddr, cur : 0..MaxAddr, vec : Seq(1..MaxAddr), total : Int]
    <3> DEFINE t == db.total + q
    <3>1. db' = [db EXCEPT !.vec = vec, !.total = t] /\ t \in Int
      BY <1>2, <2>1, TypedParts
    <3>2. db \in [isopen : BOOLEAN, cap : 0..MaxAddr, cur : 0..MaxAddr, vec : Seq(1..MaxAddr), total : Int]
      BY <1>2 DEF DbTypes
    <3> HIDE DEF t
    <3> QED BY <1>6, <3>1, <3>2
  <2> QED BY <2>1, <2>2, <2>3
<1> HIDE DEF h, vec
<1>11. /\ mm \in Headers /\ Layout(mm) /\ Heads(mm) = Heads(m)
       /\ mm[a] = h /\ \A c \in Heads(m) : c # a => mm[c] = m[c]
       /\ \A c \in 0..MaxAddr : mm[c].len = m[c].len
       /\ Bytes(mm, db.vec) = db.total
  <2>1. mm = SetHead(shm.mem, a, h) /\ h.len = shm.mem[a].len /\ a \in Heads(shm.mem) /\ h \in HeadType
    BY <1>3, <1>7, <1>8, <1>9
  <2>2. h.pre = 0 /\ h.flag # "UNUSED" => a = 1
    BY <1>3, <1>7
  <2> HIDE DEF mm
  <2> QED BY <2>1, <2>2, HeaderRewritten
<1>12. ~InVec(a) /\ ~InLog(a)
  <2>1. ~InLog(a)
    BY <1>2, <1>3 DEF LogKept, InLog
  <2> QED BY <1>1, <1>2, <2>1, InVecInLog
<1>13. LogKept'
  BY <1>1, <1>2, <1>9, <1>11, <1>12, LogUntouched
<1>14. DbTypes'
  <2>1. shm' \in [size : 0..MaxAddr, start : Nat \ {0}, max : Nat, mem : Headers, buf : Contents]
    <3>1. shm.max \in Nat /\ shm.buf \in Contents
      BY <1>2, TypedParts
    <3> QED BY <1>2, <1>9, <1>11, <3>1, ShmTypesKept
  <2> QED BY <1>1, <1>2, <1>10, <2>1 DEF DbTypes
<1>15. db'.total = Bytes(mm, db'.vec)
  <2>1. Bytes(mm, vec) = Bytes(mm, db.vec) + mm[a].len
    <3>1. db.vec \in Seq(1..MaxAddr)
      BY <1>2, TypedParts
    <3> QED BY <3>1, BytesOfAppend DEF vec
  <2> QED BY <1>7, <1>10, <1>11, <2>1
<1>16. InHand' /\ op'.kind = "mark" /\ op'.at = a
  BY <1>1 DEF InHand
<1>17. OpenOk'
  <2>1. CurIsLast'
    BY <1>2, <1>10, <1>11, CurKept DEF OpenOk
  <2>2. VecIsLog'
    <3>1. \A i \in 1..n : vec[i] = log[i].at
      BY <1>2, <1>5, <1>6, InVecInLog, <1>1
    <3> QED BY <1>1, <1>5, <1>6, <1>10, <1>16, <3>1 DEF VecIsLog
  <2>3. VecInOrder'
    <3>1. \A i \in 1..n : db.vec[i] \in 1..MaxAddr /\ db.vec[i] < a
      <4>1. \A i \in 1..n : i \in DOMAIN db.vec /\ db.vec[i] \in 1..MaxAddr /\ db.vec[i] # a
        BY <1>2, <1>5, <1>12, TypedParts, LenProperties DEF InVec
      <4> QED BY <4>1
    <3>2. \A i, j \in 1..n + 1 : i < j => vec[i] < vec[j]
      <4>1. \A i, j \in 1..n : i < j => db.vec[i] < db.vec[j]
        BY <1>2, <1>5 DEF OpenOk, VecInOrder
      <4>2. \A i, j \in 1..n + 1 : i < j => i \in 1..n /\ (j \in 1..n \/ j = n + 1)
        OBVIOUS
      <4> QED BY <1>6, <3>1, <4>1, <4>2
    <3>3. \A i \in 1..n : db.vec[i] \in Heads(mm)
      BY <1>2, <1>5, <1>11 DEF OpenOk, VecInOrder
    <3>4. \A i \in 1..n + 1 : vec[i] \in Heads(mm)
      <4>1. \A i \in 1..n + 1 : i \in 1..n \/ i = n + 1
        OBVIOUS
      <4>2. a \in Heads(mm)
        BY <1>3, <1>11
      <4> HIDE DEF mm
      <4> QED BY <1>6, <3>3, <4>1, <4>2
    <3>5. ASSUME NEW c \in Heads(mm), mm[c].seq # 0 PROVE InVec(c)'
      <4>1. CASE c = a
        <5>1. n + 1 \in 1..Len(db'.vec) /\ db'.vec[n + 1] = c
          BY <1>6, <1>10, <4>1
        <5> QED BY <5>1 DEF InVec
      <4>2. CASE c # a
        <5>1. PICK i \in 1..n : db.vec[i] = c
          BY <1>2, <1>5, <1>11, <3>5, <4>2 DEF OpenOk, VecInOrder, InVec
        <5>2. i \in 1..Len(db'.vec) /\ db'.vec[i] = c
          BY <1>6, <1>10, <5>1
        <5> QED BY <5>2 DEF InVec
      <4> QED BY <4>1, <4>2
    <3> QED BY <1>6, <1>10, <3>2, <3>4, <3>5 DEF VecInOrder
  <2>4. MaxFollows'
    BY <1>1, <1>2, <1>9, <1>16 DEF OpenOk, MaxFollows
  <2>5. AllocBegun' /\ FreeBegun'
    BY <1>16 DEF AllocBegun, FreeBegun
  <2>6. AppendBegun'
    <3>1. last_seq' = shm.start + n
      <4>1. shm.start \in Nat
        BY <1>2, TypedParts
      <4> QED BY <1>6, <1>9, <1>10, <4>1 DEF last_seq
    <3> QED BY <1>3, <1>7, <1>11, <1>16, <3>1 DEF AppendBegun
  <2>7. Complete'
    <3>1. \A c \in Heads(m) : m[c].flag # "UNUSED"
      BY <1>2 DEF OpenOk, Complete
    <3>2. \A c \in Heads(mm) : mm[c].flag # "UNUSED"
      BY <1>3, <1>7, <1>11, <3>1
    <3> QED BY <3>2 DEF Complete
  <2> QED BY <2>1, <2>2, <2>3, <2>4, <2>5, <2>6, <2>7 DEF OpenOk
<1> QED BY <1>1, <1>10, <1>11, <1>13, <1>14, <1>15, <1>17 DEF DbOk

\* The flag of the header follows its number.
LEMMA AppendFillOk == ASSUME DbOk, AppendFill PROVE DbOk'
<1> DEFINE m == shm.mem  mm == shm'.mem  a == op.at
           h == [len |-> shm.mem[op.at].len, pre |-> shm.mem[op.at].pre,
                 seq |-> shm.mem[op.at].seq, flag |-> "FILLED"]
<1>1. /\ op.kind = "mark" /\ op' = [op EXCEPT !.kind = "append"] /\ db' = db /\ log' = log
      /\ shm' = [shm EXCEPT !.mem[op.at].flag = "FILLED"]
  BY DEF AppendFill
<1>2. DbTypes /\ Layout(m) /\ LogKept /\ db.isopen /\ OpenOk /\ InHand
  BY <1>1 DEF DbOk, ClosedOk, Idle, InHand
<1>3. PICK n \in Nat : n = Len(log) /\ Len(db.vec) = n + 1
  BY <1>2, TypedParts DEF OpenOk, VecIsLog
<1>4. db.vec[n + 1] = a /\ \A i \in 1..n : db.vec[i] = log[i].at
  BY <1>2, <1>3 DEF OpenOk, VecIsLog
<1>5. a \in Heads(m) /\ m[a].flag = "ALLOCED" /\ m[a].seq = last_seq /\ (m[a].pre = 0 => a = 1)
  <2>1. a \in Heads(m)
    <3>1. n + 1 \in 1..Len(db.vec)
      BY <1>3
    <3> QED BY <1>2, <1>4, <3>1 DEF OpenOk, VecInOrder
  <2>2. m[a].flag = "ALLOCED" /\ m[a].seq = last_seq
    BY <1>1, <1>2 DEF OpenOk, AppendBegun
  <2> QED BY <1>2, <2>1, <2>2 DEF Layout
<1>6. a \in 0..MaxAddr /\ m[a] \in HeadType /\ m \in Headers /\ shm.buf \in Contents /\ shm.max \in Nat
  <2>1. a \in 0..MaxAddr /\ m \in Headers /\ shm.buf \in Contents /\ shm.max \in Nat
    BY <1>2, <1>5, TypedParts DEF Heads
  <2> QED BY <2>1, NextIsBehind
<1>7. h \in HeadType /\ [m[a] EXCEPT !.flag = "FILLED"] = h
  <2>1. h \in HeadType
    BY <1>6 DEF HeadType, Flags
  <2> DEFINE r == [m[a] EXCEPT !.flag = "FILLED"]
  <2>2. r \in HeadType /\ r.len = m[a].len /\ r.pre = m[a].pre /\ r.seq = m[a].seq /\ r.flag = "FILLED"
    BY <1>6 DEF HeadType, Flags
  <2>3. r.len = h.len /\ r.pre = h.pre /\ r.seq = h.seq /\ r.flag = h.flag
    BY <2>2
  <2> HIDE DEF r, h
  <2>4. r = h
    BY <2>1, <2>2, <2>3, SameHeader
  <2> QED BY <2>1, <2>4 DEF r
<1>8. /\ mm = SetHead(m, a, h) /\ shm'.buf = shm.buf
      /\ shm'.start = shm.start /\ shm'.max = shm.max /\ shm'.size = shm.size
      /\ shm' = [size |-> shm'.size, start |-> shm'.start, max |-> shm'.max, mem |-> shm'.mem, buf |-> shm'.buf]
  <2>1. shm' = [shm EXCEPT !.mem = [shm.mem EXCEPT ![a] = [m[a] EXCEPT !.flag = "FILLED"]]]
    BY <1>1
  <2>2. shm' = [shm EXCEPT !.mem = [shm.mem EXCEPT ![a] = h]]
    BY <1>7, <2>1
  <2> HIDE DEF h
  <2> QED BY <1>2, <2>2 DEF DbTypes, SetHead
<1>9. h.len = m[a].len /\ h.pre = m[a].pre /\ h.seq = m[a].seq /\ h.flag = "FILLED"
  OBVIOUS
<1> HIDE DEF h, a
<1>10. /\ mm \in Headers /\ Layout(mm) /\ Heads(mm) = Heads(m)
       /\ mm[a] = h /\ \A c \in Heads(m) : c # a => mm[c] = m[c]
       /\ \A c \in 0..MaxAddr : mm[c].len = m[c].len
       /\ Bytes(mm, db.vec) = db.total
  <2>1. mm = SetHead(shm.mem, a, h) /\ h.len = shm.mem[a].len /\ a \in Heads(shm.mem) /\ h \in HeadType
    BY <1>5, <1>7, <1>8, <1>9
  <2>2. h.pre = 0 /\ h.flag # "UNUSED" => a = 1
    BY <1>5, <1>9
  <2> HIDE DEF mm
  <2> QED BY <2>1, <2>2, HeaderRewritten
<1>11. ~InLog(a)
  BY <1>2, <1>5 DEF LogKept, InLog
<1>12. LogKept'
  BY <1>1, <1>2, <1>8, <1>10, <1>11, LogUntouched
<1>13. op'.kind = "append" /\ op'.at = op.at /\ InHand' /\ DbTypes'
  <2>1. op'.kind = "append" /\ op'.at = op.at
    BY <1>1, <1>2 DEF DbTypes
  <2>2. shm' \in [size : 0..MaxAddr, start : Nat \ {0}, max : Nat, mem : Headers, buf : Contents]
    BY <1>2, <1>6, <1>8, <1>10, ShmTypesKept
  <2> QED BY <1>1, <1>2, <2>1, <2>2 DEF DbTypes, InHand
<1>14. \A c \in Heads(m) : c \in Heads(mm) /\ mm[c].seq = m[c].seq /\ (mm[c].flag = "UNUSED" => m[c].flag = "UNUSED")
  BY <1>9, <1>10
<1>15. OpenOk'
  <2>1. CurIsLast'
    BY <1>1, <1>2, <1>10, CurKept DEF OpenOk
  <2>2. VecIsLog'
    BY <1>1, <1>2, <1>13 DEF OpenOk, VecIsLog
  <2>3. VecInOrder'
    BY <1>1, <1>2, <1>10, <1>14 DEF OpenOk, VecInOrder, InVec
  <2>4. MaxFollows'
    BY <1>1, <1>2, <1>8, <1>13 DEF OpenOk, MaxFollows
  <2>5. AllocBegun' /\ FreeBegun'
    BY <1>13 DEF AllocBegun, FreeBegun
  <2>6. AppendBegun'
    <3>1. last_seq' = last_seq
      BY <1>1, <1>8 DEF last_seq
    <3> QED BY <1>5, <1>9, <1>10, <1>13, <3>1 DEF AppendBegun, a
  <2>7. Complete'
    <3>1. \A c \in Heads(m) : m[c].flag # "UNUSED"
      BY <1>1, <1>2 DEF OpenOk, Complete
    <3> QED BY <1>10, <1>14, <3>1 DEF Complete
  <2> QED BY <2>1, <2>2, <2>3, <2>4, <2>5, <2>6, <2>7 DEF OpenOk
<1> QED BY <1>1, <1>2, <1>10, <1>12, <1>13, <1>15 DEF DbOk

\* The end of an append publishes the number and puts the entry in the log.
LEMMA AppendPublishOk == ASSUME DbOk, AppendPublish PROVE DbOk'
<1> DEFINE e == [at |-> op.at, val |-> shm.buf[op.at]]
<1>1. /\ op.kind = "append" /\ op' = Idle /\ log' = Append(log, e) /\ db' = db
      /\ shm' = [shm EXCEPT !.max = last_seq]
  BY DEF AppendPublish, Appended
<1>2. DbTypes /\ Layout(shm.mem) /\ LogKept /\ db.isopen /\ OpenOk /\ db.total = Bytes(shm.mem, db.vec)
  BY <1>1 DEF DbOk, ClosedOk, Idle
<1>3. e \in LogEntry
  <2>1. op.at \in 1..MaxAddr /\ op.at \in 0..MaxAddr /\ shm.buf \in Contents
    BY <1>1, <1>2 DEF DbTypes
  <2>2. shm.buf[op.at] \in Payloads \cup {0}
    BY <2>1 DEF Contents
  <2> QED BY <2>1, <2>2 DEF LogEntry
<1>4. PICK n \in Nat : n = Len(log)
  BY <1>2, TypedParts
<1>5. /\ log' \in Seq(LogEntry) /\ Len(log') = n + 1 /\ log'[n + 1] = e
      /\ \A i \in 1..n : log'[i] = log[i]
  <2>1. log \in Seq(LogEntry)
    BY <1>2 DEF DbTypes
  <2> HIDE DEF e
  <2> QED BY <1>1, <1>3, <1>4, <2>1, AppendProperties
<1>6. Len(db.vec) = n + 1 /\ db.vec[n + 1] = op.at /\ \A i \in 1..n : db.vec[i] = log[i].at
  BY <1>1, <1>2, <1>4 DEF OpenOk, VecIsLog, InHand
<1>7. \A i \in 1..n + 1 : db.vec[i] = log'[i].at
  <2>1. \A i \in 1..n + 1 : i \in 1..n \/ i = n + 1
    OBVIOUS
  <2> QED BY <1>5, <1>6, <2>1
<1>8. last_seq = shm.start + (n + 1) - 1 /\ last_seq \in Nat
  <2>1. shm.start \in Nat \ {0}
    BY <1>2, TypedParts
  <2> QED BY <1>6, <2>1 DEF last_seq
<1>9. /\ shm'.mem = shm.mem /\ shm'.buf = shm.buf /\ shm'.start = shm.start /\ shm'.size = shm.size
      /\ shm'.max = last_seq
      /\ shm' = [size |-> shm'.size, start |-> shm'.start, max |-> shm'.max, mem |-> shm'.mem, buf |-> shm'.buf]
  BY <1>1, <1>2 DEF DbTypes
<1>10. DbTypes'
  <2>1. shm' \in [size : 0..MaxAddr, start : Nat \ {0}, max : Nat, mem : Headers, buf : Contents]
    BY <1>2, <1>8, <1>9, ShmTypesKept, TypedParts
  <2> QED BY <1>1, <1>2, <1>5, <2>1 DEF DbTypes, Idle
<1>11. LogKept'
  <2>1. ASSUME NEW i \in 1..n + 1
        PROVE  /\ log'[i].at \in Heads(shm.mem) /\ shm.mem[log'[i].at].flag = "FILLED"
               /\ shm.mem[log'[i].at].seq = shm.start + i - 1 /\ shm.buf[log'[i].at] = log'[i].val
    <3>1. log'[i].at \in Heads(shm.mem)
      BY <1>2, <1>6, <1>7 DEF OpenOk, VecInOrder
    <3>2. CASE i \in 1..n
      BY <1>2, <1>4, <1>5, <3>1, <3>2 DEF LogKept
    <3>3. CASE i = n + 1
      BY <1>1, <1>2, <1>5, <1>8, <3>1, <3>3 DEF OpenOk, AppendBegun
    <3> QED BY <3>2, <3>3
  <2>2. \A i, j \in 1..n + 1 : i < j => log'[i].at < log'[j].at
    <3>1. \A i, j \in 1..n + 1 : i < j => db.vec[i] < db.vec[j]
      BY <1>2, <1>6 DEF OpenOk, VecInOrder
    <3> QED BY <1>7, <3>1
  <2> QED BY <1>5, <1>9, <2>1, <2>2 DEF LogKept
<1>12. ~InHand' /\ op'.kind = "idle"
  BY <1>1 DEF InHand, Idle
<1>13. OpenOk'
  <2>1. CurIsLast'
    BY <1>1, <1>2, <1>9, CurKept DEF OpenOk
  <2>2. VecIsLog'
    BY <1>1, <1>5, <1>6, <1>7, <1>12 DEF VecIsLog
  <2>3. VecInOrder'
    BY <1>1, <1>2, <1>9 DEF OpenOk, VecInOrder, InVec
  <2>4. MaxFollows'
    BY <1>5, <1>8, <1>9, <1>12 DEF MaxFollows
  <2>5. AllocBegun' /\ AppendBegun' /\ FreeBegun'
    BY <1>12 DEF AllocBegun, AppendBegun, FreeBegun
  <2>6. Complete'
    BY <1>1, <1>2, <1>9 DEF OpenOk, Complete
  <2> QED BY <2>1, <2>2, <2>3, <2>4, <2>5, <2>6 DEF OpenOk
<1> QED BY <1>1, <1>2, <1>9, <1>10, <1>11, <1>13 DEF DbOk

\* The entries of the log but the last one, which a step may touch, are kept.
LEMMA LogShortened ==
    ASSUME LogKept, DbTypes, NEW n \in Nat, Len(log) = n + 1, NEW a, a = log[n + 1].at, log' = Front(log),
           shm'.start = shm.start, Heads(shm'.mem) = Heads(shm.mem),
           \A c \in Heads(shm.mem) : c # a => shm'.mem[c] = shm.mem[c],
           \A c \in 0..MaxAddr : c # a => shm'.buf[c] = shm.buf[c]
    PROVE  LogKept' /\ log' \in Seq(LogEntry) /\ Len(log') = n /\ \A i \in 1..n : log'[i] = log[i]
<1>1. log \in Seq(LogEntry)
  BY DEF DbTypes
<1>2. /\ log' \in Seq(LogEntry) /\ Len(log') = n /\ \A i \in 1..n : log'[i] = log[i]
  <2>1. Front(log) = SubSeq(log, 1, n)
    BY DEF Front
  <2>2. /\ SubSeq(log, 1, n) \in Seq(LogEntry)
        /\ Len(SubSeq(log, 1, n)) = n
        /\ \A i \in 1..n : SubSeq(log, 1, n)[i] = log[i]
    <3>1. \A i \in 1..n : log[i] \in LogEntry /\ 1 + i - 1 = i
      BY <1>1, ElementOfSeq
    <3>2. n - 1 + 1 = n /\ (IF 1 <= n THEN n - 1 + 1 ELSE 0) = n /\ 1 \in Int /\ n \in Int
      OBVIOUS
    <3> QED BY <3>1, <3>2, SubSeqProperties
  <2> QED BY <2>1, <2>2
<1>3. \A i \in 1..n : /\ log[i].at \in Heads(shm.mem) /\ log[i].at # a /\ log[i].at \in 0..MaxAddr
  <2>1. \A i \in 1..n : i \in 1..Len(log) /\ n + 1 \in 1..Len(log) /\ i < n + 1
    OBVIOUS
  <2>2. \A i \in 1..n : log[i].at < a /\ log[i].at \in Heads(shm.mem)
    BY <2>1 DEF LogKept
  <2>3. \A i \in 1..n : log[i].at \in 1..MaxAddr /\ a \in 1..MaxAddr
    BY <2>1, TypedParts
  <2> QED BY <2>2, <2>3
<1>4. \A i \in 1..n : /\ shm'.mem[log'[i].at] = shm.mem[log[i].at] /\ log'[i].at = log[i].at
                      /\ shm'.buf[log'[i].at] = shm.buf[log[i].at]
  BY <1>2, <1>3
<1>5. LogKept'
  <2>1. \A i \in 1..n : /\ log[i].at \in Heads(shm.mem) /\ shm.mem[log[i].at].flag = "FILLED"
                        /\ shm.mem[log[i].at].seq = shm.start + i - 1 /\ shm.buf[log[i].at] = log[i].val
    BY DEF LogKept
  <2>2. \A i, j \in 1..n : i < j => log[i].at < log[j].at
    BY DEF LogKept
  <2> QED BY <1>2, <1>4, <2>1, <2>2 DEF LogKept
<1> QED BY <1>2, <1>5

\* The beginning of a free clears the number and the contents of an entry, in the log
\* the last one.
LEMMA FreeClearOk == ASSUME DbOk, NEW a \in 1..MaxAddr, FreeClear(a) PROVE DbOk'
<1> DEFINE m == shm.mem  mm == shm'.mem
           h == [len |-> shm.mem[a].len, pre |-> shm.mem[a].pre, seq |-> 0, flag |-> shm.mem[a].flag]
<1>1. /\ db.isopen /\ op = Idle /\ m[a].flag \in {"ALLOCED", "FILLED"} /\ a \in Heads(m)
      /\ m[a].seq # 0 => m[a].seq = last_seq
      /\ shm' = [shm EXCEPT !.mem[a].seq = 0, !.buf[a] = 0]
      /\ op' = [kind |-> IF m[a].seq # 0 THEN "pop" ELSE "dealloc", at |-> a]
      /\ log' = IF m[a].seq # 0 THEN Front(log) ELSE log
      /\ db' = db
  BY DEF FreeClear, Ready, EntriesThatAre, Heads
<1>2. DbTypes /\ Layout(m) /\ LogKept /\ OpenOk /\ db.total = Bytes(m, db.vec) /\ op.kind = "idle" /\ ~InHand
  BY <1>1 DEF DbOk, Idle, InHand
<1>3. a \in 0..MaxAddr /\ m[a] \in HeadType /\ m \in Headers /\ shm.buf \in Contents
  <2>1. a \in 0..MaxAddr /\ m \in Headers /\ shm.buf \in Contents
    BY <1>2, TypedParts
  <2> QED BY <2>1, NextIsBehind
<1>4. h \in HeadType /\ [m[a] EXCEPT !.seq = 0] = h
  <2>1. m[a].len \in Nat /\ m[a].pre \in Nat /\ m[a].flag \in Flags
    BY <1>3 DEF HeadType
  <2>2. h \in HeadType
    BY <2>1 DEF HeadType
  <2> DEFINE r == [m[a] EXCEPT !.seq = 0]
  <2>3. r \in HeadType /\ r.len = m[a].len /\ r.pre = m[a].pre /\ r.seq = 0 /\ r.flag = m[a].flag
    BY <1>3 DEF HeadType
  <2>4. r.len = h.len /\ r.pre = h.pre /\ r.seq = h.seq /\ r.flag = h.flag
    BY <2>3
  <2> HIDE DEF r, h
  <2>5. r = h
    BY <2>2, <2>3, <2>4, SameHeader
  <2> QED BY <2>2, <2>5 DEF r
<1>5. /\ mm = SetHead(m, a, h) /\ shm'.buf = [shm.buf EXCEPT ![a] = 0]
      /\ shm'.start = shm.start /\ shm'.max = shm.max /\ shm'.size = shm.size
      /\ shm' = [size |-> shm'.size, start |-> shm'.start, max |-> shm'.max, mem |-> shm'.mem, buf |-> shm'.buf]
  <2>1. shm' = [shm EXCEPT !.mem[a] = h, !.buf[a] = 0]
    BY <1>1, <1>4
  <2> HIDE DEF h
  <2> QED BY <1>2, <2>1 DEF DbTypes, SetHead
<1>6. h.len = m[a].len /\ h.seq = 0 /\ h.flag = m[a].flag /\ h.pre = m[a].pre
  OBVIOUS
<1> HIDE DEF h
<1>7. /\ mm \in Headers /\ Layout(mm) /\ Heads(mm) = Heads(m)
      /\ mm[a] = h /\ \A c \in Heads(m) : c # a => mm[c] = m[c]
      /\ \A c \in 0..MaxAddr : mm[c].len = m[c].len
      /\ Bytes(mm, db.vec) = db.total
  <2>1. mm = SetHead(shm.mem, a, h) /\ h.len = shm.mem[a].len /\ a \in Heads(shm.mem) /\ h \in HeadType
    BY <1>1, <1>4, <1>5, <1>6
  <2>2. h.pre = 0 /\ h.flag # "UNUSED" => a = 1
    BY <1>1, <1>2, <1>6 DEF Layout
  <2> HIDE DEF mm
  <2> QED BY <2>1, <2>2, HeaderRewritten
<1>8. \A c \in Heads(mm) : mm[c].flag = m[c].flag /\ (mm[c].seq # 0 => mm[c].seq = m[c].seq)
  BY <1>6, <1>7
<1>9. shm'.buf \in Contents /\ \A c \in 0..MaxAddr : c # a => shm'.buf[c] = shm.buf[c]
  BY <1>3, <1>5 DEF Contents
<1>10. shm' \in [size : 0..MaxAddr, start : Nat \ {0}, max : Nat, mem : Headers, buf : Contents]
  <2>1. shm.max \in Nat
    BY <1>2, TypedParts
  <2> QED BY <1>2, <1>5, <1>7, <1>9, <2>1, ShmTypesKept
<1>11. CurIsLast'
  BY <1>1, <1>2, <1>7, CurKept DEF OpenOk
<1>12. VecInOrder'
  <2>1. VecInOrder
    BY <1>2 DEF OpenOk
  <2>2. \A i \in 1..Len(db.vec) : db.vec[i] \in Heads(mm)
    BY <1>7, <2>1 DEF VecInOrder
  <2>3. \A c \in Heads(mm) : mm[c].seq # 0 => InVec(c)
    BY <1>7, <1>8, <2>1 DEF VecInOrder
  <2> QED BY <1>1, <2>1, <2>2, <2>3 DEF VecInOrder, InVec
<1>13. Complete'
  <2>1. \A c \in Heads(m) : m[c].flag # "UNUSED"
    BY <1>2 DEF OpenOk, Complete
  <2> QED BY <1>7, <1>8, <2>1 DEF Complete
<1>14. PICK n \in Nat : n = Len(db.vec) /\ n = Len(log)
  BY <1>1, <1>2, InVecInLog, TypedParts
<1>15. SUFFICES op'.kind \in {"pop", "dealloc"} /\ LogKept' /\ log' \in Seq(LogEntry)
                /\ VecIsLog' /\ MaxFollows' /\ (op'.kind = "dealloc" => ~InVec(a))
  <2>1. op'.at = a /\ op'.kind # "alloc" /\ op'.kind \notin {"mark", "append"}
    BY <1>1, <1>15
  <2>2. AllocBegun' /\ AppendBegun'
    BY <2>1 DEF AllocBegun, AppendBegun
  <2>3. FreeBegun'
    BY <1>1, <1>6, <1>7, <1>15, <2>1 DEF FreeBegun, InVec
  <2>4. OpenOk'
    BY <1>11, <1>12, <1>13, <1>15, <2>2, <2>3 DEF OpenOk
  <2>5. DbTypes'
    BY <1>1, <1>2, <1>10, <1>15, <2>1 DEF DbTypes
  <2> QED BY <1>1, <1>2, <1>7, <1>15, <2>4, <2>5 DEF DbOk
<1>16. CASE m[a].seq = 0
  <2>1. log' = log /\ op'.kind = "dealloc"
    BY <1>1, <1>16
  <2>2. ~InLog(a)
    <3>1. \A i \in 1..Len(log) : m[log[i].at].seq = shm.start + i - 1 /\ shm.start + i - 1 # 0
      BY <1>2, TypedParts DEF LogKept
    <3> QED BY <1>16, <3>1 DEF InLog
  <2>3. ~InVec(a)
    BY <1>1, <1>2, <2>2, InVecInLog
  <2>4. LogKept'
    BY <1>2, <1>5, <1>7, <1>9, <2>1, <2>2, LogUntouched
  <2>5. VecIsLog' /\ MaxFollows'
    BY <1>1, <1>2, <1>5, <2>1 DEF OpenOk, VecIsLog, MaxFollows, InHand
  <2> QED BY <1>2, <2>1, <2>3, <2>4, <2>5 DEF DbTypes
<1>17. CASE m[a].seq # 0
  <2>1. log' = Front(log) /\ op'.kind = "pop" /\ op'.at = a /\ m[a].seq = last_seq
    BY <1>1, <1>17
  <2>2. PICK i \in 1..n : db.vec[i] = a
    BY <1>1, <1>2, <1>14, <1>17 DEF OpenOk, VecInOrder, InVec
  <2>3. log[i].at = a /\ m[a].seq = shm.start + i - 1
    BY <1>1, <1>2, <1>14, <2>2, InVecInLog DEF LogKept
  <2>4. last_seq = shm.start + n - 1
    BY <1>14 DEF last_seq
  <2>5. i = n
    <3>1. shm.start \in Nat
      BY <1>2, TypedParts
    <3>2. shm.start + i - 1 = shm.start + n - 1
      BY <2>1, <2>3, <2>4, Zenon
    <3> QED BY <3>1, <3>2
  <2>6. PICK k \in Nat : n = k + 1
    <3>1. n - 1 \in Nat /\ n = (n - 1) + 1
      BY <2>2
    <3> QED BY <3>1
  <2>7. LogKept' /\ log' \in Seq(LogEntry) /\ Len(log') = k /\ \A j \in 1..k : log'[j] = log[j]
    <3>1. Len(log) = k + 1 /\ a = log[k + 1].at
      BY <1>14, <2>3, <2>5, <2>6
    <3> QED BY <1>2, <1>5, <1>7, <1>9, <2>1, <3>1, LogShortened
  <2>8. VecIsLog'
    <3>1. Len(db.vec) = k + 1 /\ db.vec[k + 1] = a
      BY <1>14, <2>2, <2>5, <2>6
    <3>2. \A j \in 1..k : db.vec[j] = log'[j].at
      <4>1. \A j \in 1..k : j \in 1..Len(log)
        BY <1>14, <2>6
      <4> QED BY <1>1, <1>2, <2>7, <4>1, InVecInLog
    <3> QED BY <1>1, <2>1, <2>7, <3>1, <3>2 DEF VecIsLog, InHand
  <2>9. MaxFollows'
    <3>1. log # << >>
      BY <1>14, <2>2
    <3>2. shm.max = shm.start + n - 1
      BY <1>2, <1>14, <3>1 DEF OpenOk, MaxFollows
    <3> QED BY <1>1, <1>5, <1>14, <2>1, <3>2 DEF MaxFollows, last_seq
  <2> QED BY <2>1, <2>7, <2>8, <2>9
<1> QED BY <1>16, <1>17

\* The vector and MaxIndex follow.
LEMMA FreePopOk == ASSUME DbOk, FreePop PROVE DbOk'
<1>1. /\ op.kind = "pop" /\ op' = [op EXCEPT !.kind = "dealloc"] /\ log' = log
      /\ shm' = [shm EXCEPT !.max = @ - 1]
      /\ db' = [db EXCEPT !.vec = Front(@), !.total = @ - shm.mem[op.at].len]
  BY DEF FreePop
<1>2. DbTypes /\ Layout(shm.mem) /\ LogKept /\ db.isopen /\ OpenOk /\ db.total = Bytes(shm.mem, db.vec)
  BY <1>1 DEF DbOk, ClosedOk, Idle
<1>3. PICK n \in Nat : n = Len(log)
  BY <1>2, TypedParts
<1>4. Len(db.vec) = n + 1 /\ db.vec[n + 1] = op.at /\ \A i \in 1..n : db.vec[i] = log[i].at
  BY <1>1, <1>2, <1>3 DEF OpenOk, VecIsLog, InHand
<1>5. /\ Front(db.vec) \in Seq(1..MaxAddr) /\ Len(Front(db.vec)) = n
      /\ \A i \in 1..n : Front(db.vec)[i] = db.vec[i]
      /\ Bytes(shm.mem, db.vec) = Bytes(shm.mem, Front(db.vec)) + shm.mem[op.at].len
  <2>1. PICK v \in Seq(1..MaxAddr) : v = db.vec /\ Len(v) = n + 1
    BY <1>2, <1>4, TypedParts
  <2>2. /\ Front(v) \in Seq(1..MaxAddr) /\ Len(Front(v)) = n
        /\ \A i \in 1..n : Front(v)[i] = v[i]
        /\ Bytes(shm.mem, v) = Bytes(shm.mem, Front(v)) + shm.mem[v[n + 1]].len
    BY <2>1, BytesOfFront
  <2> QED BY <1>4, <2>1, <2>2
<1>6. PICK w \in Seq(1..MaxAddr) : w = Front(db.vec)
  BY <1>5
<1>7. op.at \in Heads(shm.mem) /\ op.at \in 0..MaxAddr /\ op.at \in 1..MaxAddr /\ shm.mem[op.at].seq = 0
      /\ shm.mem[op.at].len \in Nat
  <2>1. op.at \in Heads(shm.mem) /\ op.at \in 1..MaxAddr /\ op.at \in 0..MaxAddr /\ shm.mem[op.at].seq = 0
    BY <1>1, <1>2 DEF OpenOk, FreeBegun, DbTypes
  <2> QED BY <1>2, <2>1, TypedParts, NextIsBehind
<1>8. shm.max = shm.start + n /\ shm.max - 1 \in Nat /\ shm.max - 1 = shm.start + n - 1
  <2>1. shm.start \in Nat \ {0}
    BY <1>2, TypedParts
  <2>2. shm.max = shm.start + (n + 1) - 1
    BY <1>1, <1>2, <1>4 DEF OpenOk, MaxFollows, last_seq
  <2> QED BY <2>1, <2>2
<1>9. /\ shm'.mem = shm.mem /\ shm'.buf = shm.buf /\ shm'.start = shm.start /\ shm'.size = shm.size
      /\ shm'.max = shm.max - 1
      /\ shm' = [size |-> shm'.size, start |-> shm'.start, max |-> shm'.max, mem |-> shm'.mem, buf |-> shm'.buf]
  BY <1>1, <1>2 DEF DbTypes
<1>10. /\ db'.vec = w /\ db'.total = Bytes(shm.mem, w)
       /\ db'.isopen = db.isopen /\ db'.cur = db.cur /\ db'.cap = db.cap
       /\ db' \in [isopen : BOOLEAN, cap : 0..MaxAddr, cur : 0..MaxAddr, vec : Seq(1..MaxAddr), total : Int]
  <2> DEFINE q == shm.mem[op.at].len
             t == db.total - q
  <2>1. db' = [db EXCEPT !.vec = w, !.total = t] /\ q \in Nat /\ q = shm.mem[op.at].len
    BY <1>1, <1>6, <1>7
  <2>2. db.total \in Int /\ Bytes(shm.mem, db.vec) = Bytes(shm.mem, w) + q
    BY <1>2, <1>5, <1>6, TypedParts
  <2>3. Bytes(shm.mem, w) \in Int
    <3>1. PICK f : IsSum(f, Lens(shm.mem, w), n) /\ Bytes(shm.mem, w) = f[n]
      BY <1>5, <1>6, BytesAreSums
    <3> DEFINE S == {i \in 0..n : f[i] \in Int}
    <3>2. 0 \in S
      BY <3>1 DEF IsSum
    <3>3. ASSUME NEW i \in 1..n, i - 1 \in S PROVE i \in S
      <4>1. w[i] \in 0..MaxAddr /\ i \in 1..Len(w)
        <5>1. Len(w) = n
          BY <1>5, <1>6
        <5>2. w[i] \in 1..MaxAddr
          BY <5>1, ElementOfSeq
        <5> QED BY <5>1, <5>2
      <4>2. Lens(shm.mem, w)[i] \in Nat
        <5>1. shm.mem[w[i]].len \in Nat
          BY <1>2, <4>1, TypedParts, NextIsBehind
        <5> QED BY <4>1, <5>1 DEF Lens
      <4>3. f[i] = f[i - 1] + Lens(shm.mem, w)[i]
        BY <3>1 DEF IsSum
      <4> QED BY <3>3, <4>2, <4>3
    <3> HIDE DEF S
    <3>4. n \in S
      BY <3>2, <3>3, UpTo
    <3> QED BY <3>1, <3>4 DEF S
  <2>4. t = Bytes(shm.mem, w) /\ t \in Int
    <3> HIDE DEF q
    <3>1. db.total = Bytes(shm.mem, w) + q
      BY <1>2, <2>2
    <3> QED BY <2>1, <2>2, <2>3, <3>1
  <2> HIDE DEF q, t
  <2>5. db \in [isopen : BOOLEAN, cap : 0..MaxAddr, cur : 0..MaxAddr, vec : Seq(1..MaxAddr), total : Int]
    BY <1>2 DEF DbTypes
  <2>6. db'.vec = w /\ db'.total = t /\ db'.isopen = db.isopen /\ db'.cur = db.cur /\ db'.cap = db.cap
    BY <2>1, <2>5
  <2>7. db' \in [isopen : BOOLEAN, cap : 0..MaxAddr, cur : 0..MaxAddr, vec : Seq(1..MaxAddr), total : Int]
    BY <2>1, <2>4, <2>5
  <2> QED BY <2>4, <2>6, <2>7
<1>11. op'.kind = "dealloc" /\ op'.at = op.at
  <2>1. op.at = op.at /\ op.kind = "pop"
    BY <1>1
  <2> QED BY <1>1
<1>12. Len(w) = n /\ \A i \in 1..n : w[i] = db.vec[i]
  BY <1>5, <1>6
<1>13. DbTypes'
  <2>1. shm' \in [size : 0..MaxAddr, start : Nat \ {0}, max : Nat, mem : Headers, buf : Contents]
    BY <1>2, <1>8, <1>9, ShmTypesKept, TypedParts
  <2> QED BY <1>1, <1>2, <1>7, <1>10, <1>11, <2>1 DEF DbTypes
<1>14. LogKept'
  BY <1>1, <1>2, <1>9 DEF LogKept
<1>15. OpenOk'
  <2>1. CurIsLast'
    BY <1>2, <1>9, <1>10, CurKept DEF OpenOk
  <2>2. VecIsLog'
    BY <1>1, <1>3, <1>4, <1>10, <1>11, <1>12 DEF VecIsLog, InHand
  <2>3. VecInOrder'
    <3>1. \A i \in 1..n : i \in 1..Len(db.vec)
      BY <1>4
    <3>2. \A i, j \in 1..n : i < j => w[i] < w[j]
      BY <1>2, <1>12, <3>1 DEF OpenOk, VecInOrder
    <3>3. \A i \in 1..n : w[i] \in Heads(shm.mem)
      BY <1>2, <1>12, <3>1 DEF OpenOk, VecInOrder
    <3>4. ASSUME NEW c \in Heads(shm.mem), shm.mem[c].seq # 0 PROVE InVec(c)'
      <4>1. PICK i \in 1..n + 1 : db.vec[i] = c
        BY <1>2, <1>4, <3>4 DEF OpenOk, VecInOrder, InVec
      <4>2. i # n + 1
        BY <1>4, <1>7, <3>4, <4>1
      <4>3. i \in 1..Len(db'.vec) /\ db'.vec[i] = c
        BY <1>10, <1>12, <4>1, <4>2
      <4> QED BY <4>3 DEF InVec
    <3> QED BY <1>9, <1>10, <1>12, <3>2, <3>3, <3>4 DEF VecInOrder
  <2>4. MaxFollows'
    BY <1>1, <1>3, <1>8, <1>9, <1>11 DEF MaxFollows
  <2>5. AllocBegun' /\ AppendBegun'
    BY <1>11 DEF AllocBegun, AppendBegun
  <2>6. FreeBegun'
    <3>1. \A i \in 1..n : w[i] # op.at
      <4>1. \A i \in 1..n : i \in 1..Len(db.vec) /\ n + 1 \in 1..Len(db.vec) /\ i < n + 1
        BY <1>4
      <4>2. \A i \in 1..n : db.vec[i] < op.at
        BY <1>2, <1>4, <4>1 DEF OpenOk, VecInOrder
      <4>3. \A i \in 1..n : db.vec[i] \in 1..MaxAddr
        BY <1>2, <4>1, TypedParts
      <4> QED BY <1>7, <1>12, <4>2, <4>3
    <3>2. ~InVec(op.at)'
      BY <1>10, <1>11, <1>12, <3>1 DEF InVec
    <3> QED BY <1>7, <1>9, <1>11, <3>2 DEF FreeBegun
  <2>7. Complete'
    BY <1>1, <1>2, <1>9 DEF OpenOk, Complete
  <2> QED BY <2>1, <2>2, <2>3, <2>4, <2>5, <2>6, <2>7 DEF OpenOk
<1> QED BY <1>2, <1>9, <1>10, <1>13, <1>14, <1>15 DEF DbOk

\* The end of a free gives the header back, and clears it where it is the only one.
LEMMA FreeMergeOk == ASSUME DbOk, FreeMerge, harm' = {} PROVE DbOk'
<1> DEFINE m == shm.mem  a == op.at
           h == [len |-> shm.mem[op.at].len, pre |-> shm.mem[op.at].pre, seq |-> shm.mem[op.at].seq, flag |-> "DEALLOC"]
           mm == [shm.mem EXCEPT ![op.at].flag = "DEALLOC"]
<1>1. /\ op.kind = "dealloc" /\ op' = Idle /\ log' = log
      /\ shm' = [shm EXCEPT !.mem = MergeMemory(mm, db.cur).m]
      /\ db' = [db EXCEPT !.cur = MergeMemory(mm, db.cur).p]
      /\ MergeHarm(mm, db.cur, db.cap) = {}
  <2>1. harm' = harm \cup MergeHarm(mm, db.cur, db.cap)
    BY DEF FreeMerge
  <2>2. MergeHarm(mm, db.cur, db.cap) = {}
    BY <2>1
  <2> QED BY <2>2 DEF FreeMerge
<1>2. DbTypes /\ Layout(m) /\ LogKept /\ db.isopen /\ OpenOk /\ db.total = Bytes(m, db.vec)
  BY <1>1 DEF DbOk, ClosedOk, Idle
<1>3. ~InHand /\ a \in Heads(m) /\ m[a].seq = 0 /\ ~InVec(a) /\ ~InLog(a)
  <2>1. ~InHand /\ a \in Heads(m) /\ m[a].seq = 0 /\ ~InVec(a)
    BY <1>1, <1>2 DEF OpenOk, FreeBegun, InHand
  <2> QED BY <1>2, <2>1, InVecInLog
<1>4. (\A c \in Heads(m) : m[c].flag # "UNUSED") /\ (m[a].pre = 0 => a = 1)
  <2>1. \A c \in Heads(m) : m[c].flag # "UNUSED"
    BY <1>1, <1>2 DEF OpenOk, Complete
  <2> QED BY <1>2, <1>3, <2>1 DEF Layout
<1>5. a \in 0..MaxAddr /\ m[a] \in HeadType /\ m \in Headers /\ shm.buf \in Contents /\ shm.max \in Nat
  <2>1. a \in 0..MaxAddr /\ m \in Headers /\ shm.buf \in Contents /\ shm.max \in Nat
    BY <1>2, <1>3, TypedParts DEF Heads
  <2> QED BY <2>1, NextIsBehind
<1>6. h \in HeadType /\ [m[a] EXCEPT !.flag = "DEALLOC"] = h
  <2>1. m[a].len \in Nat /\ m[a].pre \in Nat /\ m[a].seq \in Nat
    BY <1>5 DEF HeadType
  <2>2. h \in HeadType
    BY <2>1 DEF HeadType, Flags
  <2> DEFINE r == [m[a] EXCEPT !.flag = "DEALLOC"]
  <2>3. r \in HeadType /\ r.len = m[a].len /\ r.pre = m[a].pre /\ r.seq = m[a].seq /\ r.flag = "DEALLOC"
    BY <1>5 DEF HeadType, Flags
  <2>4. r.len = h.len /\ r.pre = h.pre /\ r.seq = h.seq /\ r.flag = h.flag
    BY <2>3
  <2> HIDE DEF r, h
  <2>5. r = h
    BY <2>2, <2>3, <2>4, SameHeader
  <2> QED BY <2>2, <2>5 DEF r
<1>7. mm = SetHead(m, a, h)
  <2>1. mm = [m EXCEPT ![a] = [m[a] EXCEPT !.flag = "DEALLOC"]]
    OBVIOUS
  <2> QED BY <1>6, <2>1 DEF SetHead
<1>8. h.len = m[a].len /\ h.pre = m[a].pre /\ h.seq = 0 /\ h.flag = "DEALLOC"
  BY <1>3
<1> HIDE DEF h, a, mm
<1>9. /\ mm \in Headers /\ Layout(mm) /\ Heads(mm) = Heads(m)
      /\ mm[a] = h /\ \A c \in Heads(m) : c # a => mm[c] = m[c]
      /\ \A c \in Heads(m) : NextHeadPtr(mm, c) = NextHeadPtr(m, c)
      /\ \A c \in 0..MaxAddr : mm[c].len = m[c].len
      /\ Bytes(mm, db.vec) = db.total
  <2>1. mm = SetHead(shm.mem, a, h) /\ h.len = shm.mem[a].len /\ a \in Heads(shm.mem) /\ h \in HeadType
    BY <1>3, <1>6, <1>7, <1>8
  <2>2. h.pre = 0 /\ h.flag # "UNUSED" => a = 1
    BY <1>4, <1>8
  <2> QED BY <2>1, <2>2, HeaderRewritten
<1>10. CurIsLast /\ VecIsLog /\ VecInOrder /\ MaxFollows
  BY <1>2 DEF OpenOk
<1>11. \A c \in Heads(mm) : mm[c].flag # "UNUSED"
  BY <1>4, <1>8, <1>9
<1>12. \A i \in 1..Len(log) : /\ log[i].at \in Heads(mm) /\ mm[log[i].at] = m[log[i].at]
                              /\ mm[log[i].at].flag = "FILLED"
  <2>1. \A i \in 1..Len(log) : log[i].at \in Heads(m) /\ m[log[i].at].flag = "FILLED" /\ log[i].at # a
    BY <1>2, <1>3 DEF LogKept, InLog
  <2> QED BY <1>9, <2>1
<1>13. op'.kind = "idle" /\ ~InHand'
  BY <1>1 DEF Idle, InHand
<1>14. PICK w \in Headers, p \in 0..MaxAddr : MergeMemory(mm, db.cur) = [m |-> w, p |-> p] /\ Merged(mm, w, p)
  <2> DEFINE cur == db.cur  cap == db.cap
  <2>1. cur \in 0..MaxAddr /\ cap \in 0..MaxAddr
    BY <1>2, TypedParts
  <2>2. AstrayIn(mm, cur) \/ AtEndOf(mm, cur)
    <3>1. Astray \/ AtEnd
      BY <1>10 DEF CurIsLast
    <3>2. mm[cur].len = m[cur].len
      BY <1>9, <2>1
    <3>3. Astray => AstrayIn(mm, cur)
      BY <3>2 DEF Astray, AstrayIn
    <3>4. AtEnd => AtEndOf(mm, cur)
      BY <1>9 DEF AtEnd, AtEndOf
    <3> QED BY <3>1, <3>3, <3>4
  <2>3. MergeHarm(mm, cur, cap) = {}
    BY <1>1
  <2> HIDE DEF cur, cap
  <2>4. \E w \in Headers, p \in 0..MaxAddr : MergeMemory(mm, cur) = [m |-> w, p |-> p] /\ Merged(mm, w, p)
    BY <1>9, <2>1, <2>2, <2>3, MergeOk
  <2> QED BY <2>4 DEF cur
<1>15. /\ shm'.mem = w /\ shm'.buf = shm.buf /\ shm'.start = shm.start /\ shm'.max = shm.max
       /\ db'.cur = p /\ db'.vec = db.vec /\ db'.total = db.total
       /\ db'.isopen = db.isopen /\ db'.cap = db.cap
       /\ DbTypes'
  <2>1. shm' = [shm EXCEPT !.mem = w] /\ db' = [db EXCEPT !.cur = p]
    BY <1>1, <1>14
  <2>2. /\ shm'.mem = w /\ shm'.buf = shm.buf /\ shm'.start = shm.start /\ shm'.max = shm.max /\ shm'.size = shm.size
        /\ shm' = [size |-> shm'.size, start |-> shm'.start, max |-> shm'.max, mem |-> shm'.mem, buf |-> shm'.buf]
    BY <1>2, <2>1 DEF DbTypes
  <2>3. /\ db'.cur = p /\ db'.vec = db.vec /\ db'.total = db.total /\ db'.isopen = db.isopen /\ db'.cap = db.cap
        /\ db' \in [isopen : BOOLEAN, cap : 0..MaxAddr, cur : 0..MaxAddr, vec : Seq(1..MaxAddr), total : Int]
    BY <1>2, <2>1 DEF DbTypes
  <2>4. shm' \in [size : 0..MaxAddr, start : Nat \ {0}, max : Nat, mem : Headers, buf : Contents]
    BY <1>2, <1>5, <2>2, ShmTypesKept
  <2>5. DbTypes'
    BY <1>1, <1>2, <1>13, <2>3, <2>4 DEF DbTypes
  <2> QED BY <2>2, <2>3, <2>5
<1>16. /\ Layout(w) /\ Heads(w) \subseteq Heads(mm) /\ (AstrayIn(w, p) \/ AtEndOf(w, p))
       /\ \A c \in Heads(w) : w[c] = mm[c] /\ NextHeadPtr(w, c) = NextHeadPtr(mm, c)
       /\ \A c \in Heads(mm) : c \notin Heads(w) => mm[c].flag = "DEALLOC"
  BY <1>14 DEF Merged
<1>17. \A i \in 1..Len(log) : log[i].at \in Heads(w) /\ w[log[i].at] = m[log[i].at]
  BY <1>12, <1>16
<1>18. LogKept'
  <2>1. \A i \in 1..Len(log) : /\ m[log[i].at].flag = "FILLED"
                                /\ m[log[i].at].seq = shm.start + i - 1 /\ shm.buf[log[i].at] = log[i].val
    BY <1>2 DEF LogKept
  <2>2. \A i, j \in 1..Len(log) : i < j => log[i].at < log[j].at
    BY <1>2 DEF LogKept
  <2> QED BY <1>1, <1>15, <1>17, <2>1, <2>2 DEF LogKept
<1>19. Len(db.vec) = Len(log) /\ \A i \in 1..Len(log) : db.vec[i] = log[i].at
  BY <1>2, <1>3, InVecInLog
<1>20. db'.total = Bytes(shm'.mem, db'.vec)
  <2>1. db.vec \in Seq(1..MaxAddr) /\ \A i \in 1..Len(db.vec) : m[db.vec[i]].len = w[db.vec[i]].len
    <3>1. \A i \in 1..Len(log) : w[db.vec[i]] = m[db.vec[i]]
      BY <1>17, <1>19
    <3>2. db.vec \in Seq(1..MaxAddr)
      BY <1>2, TypedParts
    <3> QED BY <1>19, <3>1, <3>2
  <2> HIDE DEF m
  <2>2. Bytes(m, db.vec) = Bytes(w, db.vec)
    BY <2>1, BytesOfSame
  <2> QED BY <1>2, <1>15, <2>2
<1>21. OpenOk'
  <2>1. CurIsLast'
    <3>1. \A c \in Heads(w) : NextHeadPtr(w, c) <= db.cap
      BY <1>9, <1>10, <1>16 DEF CurIsLast
    <3>2. AstrayIn(w, p) => Astray'
      BY <1>15 DEF Astray, AstrayIn
    <3>3. AtEndOf(w, p) => AtEnd'
      BY <1>15 DEF AtEnd, AtEndOf
    <3> QED BY <1>15, <1>16, <3>1, <3>2, <3>3 DEF CurIsLast
  <2>2. VecIsLog' /\ MaxFollows'
    BY <1>1, <1>3, <1>10, <1>13, <1>15 DEF VecIsLog, MaxFollows
  <2>3. VecInOrder'
    <3>1. \A c \in Heads(mm) : mm[c].seq # 0 => InVec(c)
      BY <1>8, <1>9, <1>10 DEF VecInOrder
    <3>2. \A c \in Heads(w) : w[c].seq # 0 => InVec(c)
      BY <1>16, <3>1
    <3>3. \A i \in 1..Len(db.vec) : db.vec[i] \in Heads(w)
      BY <1>17, <1>19
    <3> QED BY <1>10, <1>15, <3>2, <3>3 DEF VecInOrder, InVec
  <2>4. AllocBegun' /\ AppendBegun' /\ FreeBegun'
    BY <1>13 DEF AllocBegun, AppendBegun, FreeBegun
  <2>5. Complete'
    BY <1>11, <1>15, <1>16 DEF Complete
  <2> QED BY <2>1, <2>2, <2>3, <2>4, <2>5 DEF OpenOk
<1> QED BY <1>2, <1>15, <1>16, <1>18, <1>20, <1>21 DEF DbOk

\* The start of the sequence is set where nothing is numbered.
LEMMA SetStartOk ==
    ASSUME DbOk, NEW seq \in DbStarts, ztl_memdb_set_start_seq(seq)
    PROVE  DbOk'
<1>1. /\ db.isopen /\ op = Idle /\ db.vec = << >> /\ shm' = [shm EXCEPT !.start = seq]
      /\ db' = db /\ op' = op /\ log' = log
  BY DEF ztl_memdb_set_start_seq, Ready
<1>2. DbTypes /\ Layout(shm.mem) /\ LogKept /\ OpenOk /\ db.total = Bytes(shm.mem, db.vec) /\ op.kind = "idle" /\ ~InHand
  BY <1>1 DEF DbOk, Idle, InHand
<1>3. seq \in Nat \ {0}
  BY DbAssumption
<1>4. /\ shm'.mem = shm.mem /\ shm'.buf = shm.buf /\ shm'.max = shm.max
      /\ shm' \in [size : 0..MaxAddr, start : Nat \ {0}, max : Nat, mem : Headers, buf : Contents]
  BY <1>1, <1>2, <1>3 DEF DbTypes
<1>5. DbTypes'
  BY <1>1, <1>2, <1>4 DEF DbTypes
<1>6. Len(log) = 0 /\ log = << >>
  <2>1. Len(db.vec) = Len(log) /\ Len(db.vec) = 0
    BY <1>1, <1>2, InVecInLog
  <2>2. log \in Seq(LogEntry)
    BY <1>2 DEF DbTypes
  <2> QED BY <2>1, <2>2, EmptySeq
<1>7. LogKept'
  BY <1>1, <1>6 DEF LogKept
<1>8. OpenOk'
  <2>1. CurIsLast'
    BY <1>1, <1>2, <1>4, CurKept DEF OpenOk
  <2>2. VecInOrder' /\ Complete'
    BY <1>1, <1>2, <1>4 DEF OpenOk, VecInOrder, Complete, InVec
  <2>3. VecIsLog' /\ MaxFollows' /\ AllocBegun' /\ AppendBegun' /\ FreeBegun'
    BY <1>1, <1>2, <1>6 DEF OpenOk, VecIsLog, MaxFollows, AllocBegun, AppendBegun, FreeBegun, InHand
  <2> QED BY <2>1, <2>2, <2>3 DEF OpenOk
<1> QED BY <1>1, <1>2, <1>4, <1>5, <1>7, <1>8 DEF DbOk

-----------------------------------------------------------------------------
(* The scan                                                                *)

ScanType == [m : Headers, b : Contents, cur : 0..MaxAddr, at : Nat, vec : Seq(1..MaxAddr),
             total : Int, harm : SUBSET {"order"}]

\* The scan takes the header h over into the vector.
Pushed(st, r, h) ==
    /\ r \in ScanType
    /\ r.m = st.m /\ r.b = st.b /\ r.cur = st.at /\ r.at = NextHeadPtr(st.m, st.at)
    /\ r.vec = Append(st.vec, st.at) /\ r.total = st.total + h.len /\ r.harm = st.harm

\* The next entry of the log is pushed.
LEMMA ScanPushes ==
    ASSUME NEW st \in ScanType, NEW start \in Nat, NEW max \in Nat, NEW h,
           st.at \in 1..MaxAddr, h = st.m[st.at],
           h.flag = "FILLED", h.seq = start + Len(st.vec), h.seq <= max,
           NEW r, r = ScanOne(st, start, max)
    PROVE  Pushed(st, r, h)
<1>1. PICK u \in Seq(1..MaxAddr) : u = st.vec
  BY DEF ScanType
<1>2. PICK n \in Nat : n = Len(u)
  BY LenProperties
<1>3. st.m \in Headers /\ st.vec \in Seq(1..MaxAddr) /\ st.total \in Int /\ st.at \in 0..MaxAddr
  BY DEF ScanType
<1>4. NextHeadPtr(st.m, st.at) \in Nat /\ h.len \in Nat
  BY <1>3, NextIsBehind
<1> DEFINE slots == st.m[st.at].seq - (start + Len(st.vec) - 1)
           pushed == st.vec \o [i \in 1..slots |-> Base]
           w == [pushed EXCEPT ![Len(pushed)] = st.at]
           next == NextHeadPtr(st.m, st.at)
           sum == st.total + h.len
<1>5. slots = 1 /\ h.seq >= start /\ h.seq <= max
  BY <1>1, <1>2
<1>6. w = Append(st.vec, st.at) /\ w \in Seq(1..MaxAddr)
  <2>1. PICK v \in Seq(0..MaxAddr) : v = st.vec /\ Len(v) = n
    <3>1. u \in Seq(0..MaxAddr)
      <4>1. 1..MaxAddr \subseteq 0..MaxAddr
        OBVIOUS
      <4> QED BY <4>1, SeqMonotonic
    <3> QED BY <1>1, <1>2, <3>1
  <2>2. PICK z \in Seq(0..MaxAddr) : z = [i \in 1..slots |-> Base] /\ Len(z) = 1
    <3>1. [i \in 1..1 |-> 0] \in [1..1 -> 0..MaxAddr]
      BY MaxAddrBound
    <3>2. [i \in 1..1 |-> 0] \in Seq(0..MaxAddr)
      BY <3>1, SeqDef
    <3>3. Len([i \in 1..1 |-> 0]) = 1
      OBVIOUS
    <3> HIDE DEF slots
    <3> QED BY <1>5, <3>2, <3>3 DEF Base
  <2>3. v \o z \in Seq(0..MaxAddr) /\ Len(v \o z) = n + 1 /\ \A i \in 1..n : (v \o z)[i] = v[i]
    BY <2>1, <2>2, ConcatProperties
  <2>4. PICK p \in Seq(0..MaxAddr) : p = pushed /\ Len(p) = n + 1 /\ \A i \in 1..n : p[i] = v[i]
    BY <2>1, <2>2, <2>3
  <2>5. w = [p EXCEPT ![n + 1] = st.at]
    BY <2>4
  <2> HIDE DEF w
  <2>6. w \in Seq(0..MaxAddr) /\ Len(w) = n + 1 /\ w[n + 1] = st.at /\ \A i \in 1..n : w[i] = v[i]
    <3> DEFINE k == n + 1
    <3>1. k \in 1..Len(p) /\ k = n + 1 /\ \A i \in 1..n : i \in 1..Len(p) /\ i # k
      BY <2>4
    <3> HIDE DEF k
    <3>2. /\ [p EXCEPT ![k] = st.at] \in Seq(0..MaxAddr)
          /\ Len([p EXCEPT ![k] = st.at]) = Len(p)
          /\ \A j \in 1..Len(p) : [p EXCEPT ![k] = st.at][j] = IF j = k THEN st.at ELSE p[j]
      BY <1>3, <3>1, ExceptSeq
    <3>3. w = [p EXCEPT ![k] = st.at]
      BY <2>5, <3>1
    <3> QED BY <2>4, <3>1, <3>2, <3>3
  <2>7. /\ Append(v, st.at) \in Seq(0..MaxAddr) /\ Len(Append(v, st.at)) = n + 1
        /\ Append(v, st.at)[n + 1] = st.at /\ \A i \in 1..n : Append(v, st.at)[i] = v[i]
    <3> DEFINE S == 0..MaxAddr  e == st.at
    <3>1. v \in Seq(S) /\ e \in S
      BY <1>3, <2>1
    <3> HIDE DEF S, e
    <3>2. /\ Append(v, e) \in Seq(S) /\ Len(Append(v, e)) = Len(v) + 1
          /\ \A i \in 1..Len(v) : Append(v, e)[i] = v[i]
          /\ Append(v, e)[Len(v) + 1] = e
      BY <3>1, AppendProperties
    <3> QED BY <2>1, <3>2 DEF S, e
  <2>8. \A i \in 1..n + 1 : w[i] = Append(v, st.at)[i]
    <3>1. \A i \in 1..n + 1 : i \in 1..n \/ i = n + 1
      OBVIOUS
    <3> QED BY <2>6, <2>7, <3>1
  <2>9. w = Append(v, st.at)
    BY <2>6, <2>7, <2>8, SeqEqual
  <2>10. Append(u, st.at) \in Seq(1..MaxAddr)
    BY AppendProperties
  <2> QED BY <1>1, <2>1, <2>9, <2>10
<1>7. r = [[st EXCEPT !.cur = st.at, !.at = next] EXCEPT !.vec = w, !.total = @ + st.m[st.at].len]
  <2>1. /\ st.m[st.at].flag = "FILLED" /\ st.m[st.at].seq - (start + Len(st.vec) - 1) >= 0
        /\ st.m[st.at].seq >= start /\ st.m[st.at].seq <= max
        /\ ~(st.m[st.at].seq - (start + Len(st.vec) - 1) < 0)
    BY <1>5
  <2> QED BY <2>1, Zenon DEF ScanOne
<1> HIDE DEF w, slots
<1>8. r = [st EXCEPT !.cur = st.at, !.at = next, !.vec = w, !.total = sum]
  BY <1>7 DEF ScanType
<1>9. next \in Nat /\ sum \in Int
  BY <1>3, <1>4
<1> HIDE DEF next, sum
<1>10. r \in ScanType
  BY <1>3, <1>6, <1>8, <1>9 DEF ScanType
<1>11. r.m = st.m /\ r.b = st.b /\ r.cur = st.at /\ r.at = next /\ r.vec = w /\ r.total = sum /\ r.harm = st.harm
  BY <1>8 DEF ScanType
<1> QED BY <1>6, <1>10, <1>11 DEF next, sum, Pushed

\* The scan rolls the header h back, which becomes k.
RolledBack(st, r, k, h) ==
    /\ k \in HeadType /\ k.len = h.len /\ k.seq = 0 /\ k.flag = "DEALLOC"
    /\ k.pre = 0 => h.pre = 0 /\ (st.cur = 0 \/ st.m[st.cur].len = 0 \/ h.flag = "ALLOCED")
    /\ r \in ScanType
    /\ r.m = SetHead(st.m, st.at, k) /\ r.b = [st.b EXCEPT ![st.at] = 0]
    /\ r.cur = st.at /\ r.at = NextHeadPtr(st.m, st.at)
    /\ r.vec = st.vec /\ r.total = st.total /\ r.harm = st.harm

\* Any other header is rolled back.
LEMMA ScanRollsBack ==
    ASSUME NEW st \in ScanType, NEW start \in Nat \ {0}, NEW max \in Nat, NEW h,
           st.at \in 1..MaxAddr, h = st.m[st.at],
           ~(h.seq >= start /\ h.seq <= max) \/ h.flag = "ALLOCED",
           NEW r, r = ScanOne(st, start, max)
    PROVE  \E k : RolledBack(st, r, k, h)
<1>1. st.m \in Headers /\ st.b \in Contents /\ st.at \in 0..MaxAddr /\ st.cur \in 0..MaxAddr
  BY DEF ScanType
<1>2. h \in HeadType /\ st.m[st.cur] \in HeadType
  BY <1>1, NextIsBehind
<1> DEFINE out == ~(h.seq >= start /\ h.seq <= max)
           pre == IF out /\ h.pre = 0 /\ st.cur # Base THEN st.m[st.cur].len ELSE h.pre
           k == [h EXCEPT !.seq = 0, !.flag = "DEALLOC", !.pre = pre]
           next == NextHeadPtr(st.m, st.at)
<1>3. pre \in Nat /\ (pre = 0 => h.pre = 0 /\ (st.cur = 0 \/ st.m[st.cur].len = 0 \/ h.flag = "ALLOCED"))
  BY <1>2 DEF HeadType, Base
<1>4. next \in Nat
  BY <1>1, NextIsBehind
<1>5. [h EXCEPT !.seq = 0, !.flag = "DEALLOC",
                !.pre = IF ~(h.seq >= start /\ h.seq <= max) /\ @ = 0 /\ st.cur # Base THEN st.m[st.cur].len ELSE @] = k
  BY <1>2 DEF HeadType
<1> HIDE DEF pre
<1>6. k \in HeadType /\ k.len = h.len /\ k.seq = 0 /\ k.flag = "DEALLOC" /\ k.pre = pre
  BY <1>2, <1>3 DEF HeadType, Flags
<1> HIDE DEF k
<1>7. r = [[st EXCEPT !.cur = st.at, !.at = next] EXCEPT !.m[st.at] = k, !.b[st.at] = 0]
  BY <1>5 DEF ScanOne
<1> HIDE DEF next
<1>8. r = [st EXCEPT !.cur = st.at, !.at = next, !.m = [st.m EXCEPT ![st.at] = k], !.b = [st.b EXCEPT ![st.at] = 0]]
  BY <1>7 DEF ScanType
<1> DEFINE m == [st.m EXCEPT ![st.at] = k]
           b == [st.b EXCEPT ![st.at] = 0]
<1>9. m \in Headers /\ b \in Contents
  BY <1>1, <1>6 DEF Headers, Contents
<1>10. m = SetHead(st.m, st.at, k) /\ b = [st.b EXCEPT ![st.at] = 0]
  BY DEF SetHead
<1>11. r = [st EXCEPT !.cur = st.at, !.at = next, !.m = m, !.b = b]
  BY <1>8
<1> HIDE DEF m, b
<1>12. r \in ScanType
  BY <1>1, <1>4, <1>9, <1>11 DEF ScanType
<1>13. r.m = m /\ r.b = b /\ r.cur = st.at /\ r.at = next /\ r.vec = st.vec /\ r.total = st.total /\ r.harm = st.harm
  BY <1>11 DEF ScanType
<1>14. RolledBack(st, r, k, h)
  BY <1>3, <1>6, <1>10, <1>12, <1>13 DEF next, RolledBack
<1> QED BY <1>14

\* What the scan has done up to st.cur: entries of the log are as they were and in
\* the vector, all others are given back.
ScanInv(st) ==
    /\ st \in ScanType /\ Layout(st.m) /\ Heads(st.m) = Heads(shm.mem) /\ st.harm = {}
    /\ \A c \in Heads(shm.mem) \cup {0} : NextHeadPtr(st.m, c) = NextHeadPtr(shm.mem, c)
    /\ \A c \in Heads(shm.mem) : c > st.cur => st.m[c] = shm.mem[c]
    /\ \A c \in Heads(shm.mem) : c <= st.cur /\ ~InLog(c) => st.m[c].seq = 0 /\ st.m[c].flag = "DEALLOC"
    /\ \A i \in 1..Len(log) : st.m[log[i].at] = shm.mem[log[i].at] /\ st.b[log[i].at] = shm.buf[log[i].at]
    /\ st.cur \in Heads(shm.mem) \cup {0} /\ st.at = NextHeadPtr(shm.mem, st.cur)
    /\ st.total = Bytes(shm.mem, st.vec)
    /\ Len(st.vec) <= Len(log)
    /\ \A i \in 1..Len(st.vec) : st.vec[i] = log[i].at /\ st.vec[i] <= st.cur
    /\ \A i \in 1..Len(log) : log[i].at <= st.cur => i <= Len(st.vec)

\* Between a header and the next there is none.
LEMMA NoneBetween ==
    ASSUME NEW m \in Headers, Layout(m), NEW cur \in Heads(m) \cup {0}, NEW c \in Heads(m), c > cur
    PROVE  NextHeadPtr(m, cur) <= c
<1>1. c \in 1..MaxAddr /\ MaxAddr \in Nat
  BY MaxAddrBound DEF Heads
<1>2. CASE cur \in Heads(m)
  <2>1. cur < c
    <3>1. cur \in 1..MaxAddr
      BY <1>2 DEF Heads
    <3> QED BY <1>1, <3>1
  <2> QED BY <1>2, <2>1 DEF Layout
<1>3. CASE cur = 0
  <2>1. NextHeadPtr(m, cur) = 1
    BY <1>3 DEF Layout, NextHeadPtr
  <2> QED BY <1>1, <2>1
<1> QED BY <1>2, <1>3

\* One header of the scan.
LEMMA ScanStepOk ==
    ASSUME DbTypes, Layout(shm.mem), LogKept, ClosedOk, NEW st, ScanInv(st),
           st.at \in 1..MaxAddr, st.m[st.at].len # 0, NEW r, r = ScanOne(st, shm.start, shm.max)
    PROVE  ScanInv(r) /\ r.at > st.at
<1> DEFINE m == shm.mem  a == st.at  h == st.m[st.at]
<1>1. /\ st \in ScanType /\ Layout(st.m) /\ Heads(st.m) = Heads(m) /\ st.harm = {}
      /\ st.cur \in Heads(m) \cup {0} /\ a = NextHeadPtr(m, st.cur)
      /\ st.m \in Headers /\ st.b \in Contents /\ st.vec \in Seq(1..MaxAddr) /\ st.total \in Int /\ st.cur \in 0..MaxAddr
  BY DEF ScanInv, ScanType
<1>2. m \in Headers /\ shm.start \in Nat \ {0} /\ shm.max \in Nat /\ Len(log) \in Nat /\ MaxAddr \in Nat
      /\ \A i \in 1..Len(log) : log[i].at \in 1..MaxAddr
  BY TypedParts
<1>3. a \in Heads(m) /\ a \in 0..MaxAddr
  <2>1. st.m[a].len \in Nat
    BY <1>1, NextIsBehind
  <2> QED BY <1>1, <2>1 DEF Heads
<1>4. a > st.cur
  BY <1>1, <1>2, NextIsBehind
<1>5. h = m[a] /\ h \in HeadType
  <2>1. h = m[a]
    BY <1>3, <1>4 DEF ScanInv
  <2> QED BY <1>2, <1>3, <2>1, NextIsBehind
<1>6. \A c \in Heads(m) : c \in 1..MaxAddr /\ (c <= st.cur \/ c >= a)
  <2>1. \A c \in Heads(m) : c \in 1..MaxAddr
    BY DEF Heads
  <2>2. \A c \in Heads(m) : c > st.cur => NextHeadPtr(m, st.cur) <= c
    BY <1>1, <1>2, NoneBetween
  <2> QED BY <1>1, <2>1, <2>2
<1>7. NextHeadPtr(st.m, a) = NextHeadPtr(m, a) /\ NextHeadPtr(m, a) > a
  BY <1>2, <1>3, NextIsBehind DEF ScanInv
<1>8. PICK v \in Nat : v = Len(st.vec)
  BY <1>1, LenProperties
<1>9. PICK n \in Nat : n = Len(log)
  BY <1>2
<1>10. \A i \in 1..n : log[i].at < a => i <= v
  <2>1. \A i \in 1..n : log[i].at \in Heads(m)
    BY <1>9 DEF LogKept
  <2>2. \A i \in 1..n : log[i].at < a => log[i].at <= st.cur
    BY <1>1, <1>2, <1>6, <2>1
  <2> QED BY <1>8, <1>9, <2>2 DEF ScanInv
<1>11. \A i \in 1..v : st.vec[i] = log[i].at /\ st.vec[i] <= st.cur /\ st.vec[i] \in 1..MaxAddr
  BY <1>1, <1>8, ElementOfSeq DEF ScanInv
<1>12. v <= n
  BY <1>8, <1>9 DEF ScanInv
<1>13. CASE InLog(a)
  <2>1. PICK j \in 1..n : log[j].at = a
    BY <1>9, <1>13 DEF InLog
  <2>2. h.flag = "FILLED" /\ h.seq = shm.start + j - 1
    BY <1>5, <1>9, <2>1 DEF LogKept
  <2>3. \A i \in 1..n : i # j => log[i].at < a \/ log[i].at > a
    <3>1. \A i, k \in 1..n : i < k => log[i].at < log[k].at
      BY <1>9 DEF LogKept
    <3>2. \A i \in 1..n : i # j => i < j \/ j < i
      OBVIOUS
    <3> HIDE DEF a
    <3>3. \A i \in 1..n : log[i].at \in 1..MaxAddr /\ a \in 1..MaxAddr
      BY <1>2, <1>9, <2>1
    <3> QED BY <2>1, <3>1, <3>2, <3>3
  <2>4. j = v + 1
    <3>1. ~(j \in 1..v)
      <4>1. j \in 1..v => a <= st.cur
        BY <1>11, <2>1
      <4> QED BY <1>1, <1>3, <1>4, <4>1
    <3>2. \A i \in 1..n : i < j => log[i].at < a
      BY <1>9, <2>1 DEF LogKept
    <3>3. ~(v + 1 < j)
      <4>1. v + 1 < j => v + 1 \in 1..n /\ ~(v + 1 <= v)
        OBVIOUS
      <4> QED BY <1>10, <3>2, <4>1
    <3> QED BY <3>1, <3>3
  <2>5. h.seq = shm.start + Len(st.vec) /\ h.seq <= shm.max
    <3>1. h.seq = shm.start + v
      <4> DEFINE q == h.seq
      <4>1. q = shm.start + j - 1
        BY <2>2
      <4> HIDE DEF q
      <4>2. q = shm.start + v
        BY <1>2, <2>4, <4>1
      <4> QED BY <4>2 DEF q
    <3>2. shm.start + n - 1 <= shm.max
      <4>1. log # << >>
        BY <1>9, <2>1
      <4> QED BY <1>9, <4>1 DEF ClosedOk
    <3>3. shm.start + v <= shm.max
      BY <1>2, <2>4, <3>2
    <3> QED BY <1>8, <3>1, <3>3
  <2>6. /\ r \in ScanType
        /\ r.m = st.m /\ r.b = st.b /\ r.cur = a /\ r.at = NextHeadPtr(st.m, a)
        /\ r.vec = Append(st.vec, a) /\ r.total = st.total + h.len /\ r.harm = st.harm
    <3> DEFINE x == shm.start  y == shm.max
    <3>1. x \in Nat /\ y \in Nat /\ h = st.m[st.at] /\ st.at \in 1..MaxAddr /\ r = ScanOne(st, x, y)
          /\ h.flag = "FILLED" /\ h.seq = x + Len(st.vec) /\ h.seq <= y
      BY <1>2, <2>2, <2>5
    <3> HIDE DEF x, y, h
    <3>2. st \in ScanType
      BY <1>1
    <3>3. Pushed(st, r, h)
      BY <3>1, <3>2, ScanPushes
    <3> QED BY <3>3 DEF Pushed
  <2>7. /\ r.vec \in Seq(1..MaxAddr) /\ Len(r.vec) = v + 1 /\ r.vec[v + 1] = a
        /\ \A i \in 1..v : r.vec[i] = st.vec[i]
    <3>1. PICK u \in Seq(1..MaxAddr) : u = st.vec /\ v = Len(u)
      BY <1>1, <1>8
    <3> HIDE DEF a
    <3>2. a \in 1..MaxAddr
      BY DEF a
    <3>3. /\ Append(u, a) \in Seq(1..MaxAddr) /\ Len(Append(u, a)) = v + 1
          /\ Append(u, a)[v + 1] = a /\ \A i \in 1..v : Append(u, a)[i] = u[i]
      BY <3>1, <3>2, AppendProperties
    <3> QED BY <2>6, <3>1, <3>3
  <2>8. r.total = Bytes(m, r.vec)
    <3>1. st.total = Bytes(m, st.vec)
      BY DEF ScanInv
    <3>2. Bytes(m, Append(st.vec, a)) = Bytes(m, st.vec) + m[a].len
      BY <1>1, BytesOfAppend
    <3> QED BY <1>5, <2>6, <3>1, <3>2
  <2>9. \A c \in Heads(m) : c > r.cur => r.m[c] = m[c]
    <3>1. \A c \in Heads(m) : c > a => c > st.cur
      BY <1>1, <1>3, <1>4, <1>6
    <3> QED BY <2>6, <3>1 DEF ScanInv
  <2>10. \A c \in Heads(m) : c <= r.cur /\ ~InLog(c) => r.m[c].seq = 0 /\ r.m[c].flag = "DEALLOC"
    <3>1. \A c \in Heads(m) : c <= a /\ ~InLog(c) => c <= st.cur
      BY <1>3, <1>6, <1>13
    <3> QED BY <2>6, <3>1 DEF ScanInv
  <2>11. \A i \in 1..Len(log) : r.m[log[i].at] = m[log[i].at] /\ r.b[log[i].at] = shm.buf[log[i].at]
    BY <2>6 DEF ScanInv
  <2>12. \A i \in 1..v + 1 : r.vec[i] = log[i].at /\ r.vec[i] <= r.cur
    <3>1. \A i \in 1..v : r.vec[i] = log[i].at /\ r.vec[i] <= a
      <4>1. \A i \in 1..v : st.vec[i] <= a
        BY <1>1, <1>3, <1>4, <1>11
      <4> QED BY <1>11, <2>7, <4>1
    <3>2. r.vec[v + 1] = log[v + 1].at /\ r.vec[v + 1] <= a
      BY <1>3, <2>1, <2>4, <2>7
    <3>3. \A i \in 1..v + 1 : i \in 1..v \/ i = v + 1
      OBVIOUS
    <3> QED BY <2>6, <3>1, <3>2, <3>3
  <2>13. \A i \in 1..n : log[i].at <= r.cur => i <= v + 1
    <3>1. \A i \in 1..n : log[i].at <= a => log[i].at < a \/ i = j
      BY <1>2, <1>3, <1>9, <2>3
    <3> QED BY <1>10, <2>4, <2>6, <3>1
  <2>14. v + 1 <= n
    BY <2>4
  <2>15. r.cur \in Heads(m) \cup {0} /\ r.at = NextHeadPtr(m, r.cur) /\ r.harm = {}
         /\ Layout(r.m) /\ Heads(r.m) = Heads(m)
         /\ \A c \in Heads(m) \cup {0} : NextHeadPtr(r.m, c) = NextHeadPtr(m, c)
    BY <1>1, <1>3, <1>7, <2>6 DEF ScanInv
  <2>16. ScanInv(r)
    BY <1>9, <2>6, <2>7, <2>8, <2>9, <2>10, <2>11, <2>12, <2>13, <2>14, <2>15 DEF ScanInv
  <2> QED BY <1>7, <2>6, <2>16
<1>14. CASE ~InLog(a)
  <2>1. ~(h.seq >= shm.start /\ h.seq <= shm.max) \/ h.flag = "ALLOCED"
    <3>1. h.seq \in Nat
      BY <1>5 DEF HeadType
    <3>2. h.seq # 0 => h.seq > shm.max \/ h.flag = "ALLOCED"
      BY <1>3, <1>5, <1>14 DEF ClosedOk
    <3> QED BY <1>2, <3>1, <3>2
  <2>2. PICK k \in HeadType :
             /\ k.len = h.len /\ k.seq = 0 /\ k.flag = "DEALLOC"
             /\ (k.pre = 0 => h.pre = 0 /\ (st.cur = 0 \/ st.m[st.cur].len = 0 \/ h.flag = "ALLOCED"))
             /\ r \in ScanType
             /\ r.m = SetHead(st.m, a, k) /\ r.b = [st.b EXCEPT ![a] = 0]
             /\ r.cur = a /\ r.at = NextHeadPtr(st.m, a)
             /\ r.vec = st.vec /\ r.total = st.total /\ r.harm = st.harm
    <3> DEFINE x == shm.start  y == shm.max
    <3>1. x \in Nat \ {0} /\ y \in Nat /\ h = st.m[st.at] /\ st.at \in 1..MaxAddr /\ r = ScanOne(st, x, y)
          /\ (~(h.seq >= x /\ h.seq <= y) \/ h.flag = "ALLOCED")
      BY <1>2, <2>1
    <3> HIDE DEF x, y, h
    <3>2. PICK k : RolledBack(st, r, k, h)
      BY <1>1, <3>1, ScanRollsBack
    <3> QED BY <3>2 DEF RolledBack
  <2>3. k.pre = 0 => a = 1
    <3>1. st.m[st.cur].len = 0 => st.cur = 0
      BY <1>1 DEF Heads
    <3>2. st.cur = 0 => a = 1
      BY <1>1 DEF Layout, NextHeadPtr
    <3>3. h.pre = 0 /\ h.flag = "ALLOCED" => a = 1
      BY <1>1, <1>3 DEF Layout
    <3> QED BY <2>2, <3>1, <3>2, <3>3
  <2>4. /\ r.m \in Headers /\ Layout(r.m) /\ Heads(r.m) = Heads(st.m)
        /\ \A c \in 0..MaxAddr : NextHeadPtr(r.m, c) = NextHeadPtr(st.m, c)
    <3> DEFINE mm == r.m
    <3>1. mm = SetHead(st.m, a, k) /\ a \in Heads(st.m) /\ k.len = st.m[a].len
      BY <1>1, <1>3, <2>2
    <3> HIDE DEF mm, a
    <3>2. k.pre = 0 /\ k.flag # "UNUSED" => a = 1
      BY <2>2, <2>3
    <3>3. /\ mm \in Headers /\ Layout(mm) /\ Heads(mm) = Heads(st.m)
          /\ \A c \in 0..MaxAddr : mm[c].len = st.m[c].len /\ NextHeadPtr(mm, c) = NextHeadPtr(st.m, c)
      BY <1>1, <3>1, <3>2, LayoutRewritten
    <3> QED BY <3>3 DEF mm
  <2>5. r.m[a] = k /\ \A c \in 0..MaxAddr : c # a => r.m[c] = st.m[c] /\ r.b[c] = st.b[c]
    BY <1>1, <1>3, <2>2 DEF SetHead, Headers, Contents
  <2>6. \A c \in Heads(m) : c > r.cur => r.m[c] = m[c]
    <3>1. \A c \in Heads(m) : c > a => c > st.cur /\ c \in 0..MaxAddr /\ c # a
      BY <1>1, <1>3, <1>4, <1>6
    <3> QED BY <2>2, <2>5, <3>1 DEF ScanInv
  <2>7. \A c \in Heads(m) : c <= r.cur /\ ~InLog(c) => r.m[c].seq = 0 /\ r.m[c].flag = "DEALLOC"
    <3>1. \A c \in Heads(m) : c <= a => c = a \/ (c <= st.cur /\ c \in 0..MaxAddr /\ c # a)
      BY <1>1, <1>3, <1>4, <1>6
    <3> QED BY <2>2, <2>5, <3>1 DEF ScanInv
  <2>8. \A i \in 1..n : log[i].at # a /\ log[i].at \in 0..MaxAddr
    BY <1>2, <1>9, <1>14 DEF InLog
  <2>9. \A i \in 1..Len(log) : r.m[log[i].at] = m[log[i].at] /\ r.b[log[i].at] = shm.buf[log[i].at]
    BY <1>9, <2>5, <2>8 DEF ScanInv
  <2>10. \A i \in 1..v : r.vec[i] = log[i].at /\ r.vec[i] <= r.cur
    <3>1. \A i \in 1..v : st.vec[i] <= a
      BY <1>1, <1>3, <1>4, <1>11
    <3> QED BY <1>11, <2>2, <3>1
  <2>11. \A i \in 1..n : log[i].at <= r.cur => i <= v
    <3>1. \A i \in 1..n : log[i].at <= a => log[i].at < a
      BY <1>2, <1>3, <1>9, <2>8
    <3> QED BY <1>10, <2>2, <3>1
  <2>12. /\ r.cur \in Heads(m) \cup {0} /\ r.at = NextHeadPtr(m, r.cur) /\ r.harm = {}
         /\ Layout(r.m) /\ Heads(r.m) = Heads(m)
    BY <1>1, <1>3, <1>7, <2>2, <2>4
  <2>13. \A c \in Heads(m) \cup {0} : NextHeadPtr(r.m, c) = NextHeadPtr(m, c)
    <3>1. \A c \in Heads(m) \cup {0} : c \in 0..MaxAddr
      BY <1>2, <1>6
    <3> QED BY <2>4, <3>1 DEF ScanInv
  <2>14. r.total = Bytes(m, r.vec) /\ r.vec = st.vec /\ r \in ScanType
    BY <2>2 DEF ScanInv
  <2>15. ScanInv(r)
    BY <1>8, <1>9, <1>12, <2>6, <2>7, <2>9, <2>10, <2>11, <2>12, <2>13, <2>14 DEF ScanInv
  <2> QED BY <1>7, <2>2, <2>15
<1> QED BY <1>13, <1>14

\* Memory as the process that opens it maps it.
Mapped(M) ==
    /\ M \in Headers /\ M[0].len = 0 /\ M[0].seq = 0 /\ M[0].flag # "DEALLOC"
    /\ \A c \in 1..MaxAddr : M[c] = shm.mem[c]

\* Before the first header.
LEMMA ScanStartOk ==
    ASSUME DbTypes, Layout(shm.mem), LogKept, NEW M, Mapped(M),
           NEW st, st = [m |-> M, b |-> shm.buf, cur |-> 0, at |-> 1, vec |-> << >>, total |-> 0, harm |-> {}]
    PROVE  ScanInv(st)
<1>1. shm.mem \in Headers /\ shm.buf \in Contents /\ MaxAddr \in Nat /\ Len(log) \in Nat
  BY TypedParts
<1>2. M \in Headers /\ M[0].len = 0 /\ M[0].seq = 0 /\ M[0].flag # "DEALLOC" /\ \A c \in 1..MaxAddr : M[c] = shm.mem[c]
  BY DEF Mapped
<1>3. Layout(M) /\ Heads(M) = Heads(shm.mem) /\ \A c \in 0..MaxAddr : NextHeadPtr(M, c) = NextHeadPtr(shm.mem, c)
  BY <1>1, <1>2, LayoutSame
<1>4. \A c \in Heads(shm.mem) : c \in 1..MaxAddr /\ ~(c <= 0)
  BY DEF Heads
<1>5. \A i \in 1..Len(log) : log[i].at \in 1..MaxAddr
  BY TypedParts
<1>6. /\ st.m = M /\ st.b = shm.buf /\ st.cur = 0 /\ st.at = 1 /\ st.vec = << >> /\ st.total = 0 /\ st.harm = {}
  OBVIOUS
<1>7. st \in ScanType
  <2>1. << >> \in Seq(1..MaxAddr) /\ 0 \in 0..MaxAddr
    BY <1>1
  <2> QED BY <1>1, <1>2, <2>1 DEF ScanType
<1>8. NextHeadPtr(shm.mem, 0) = 1
  BY DEF Layout, NextHeadPtr
<1>9. \A c \in Heads(shm.mem) \cup {0} : NextHeadPtr(st.m, c) = NextHeadPtr(shm.mem, c)
  <2>1. \A c \in Heads(shm.mem) \cup {0} : c \in 0..MaxAddr
    BY <1>1, <1>4
  <2> QED BY <1>3, <1>6, <2>1
<1>10. \A c \in Heads(shm.mem) : c > st.cur => st.m[c] = shm.mem[c]
  BY <1>2, <1>4, <1>6
<1>11. \A c \in Heads(shm.mem) : c <= st.cur /\ ~InLog(c) => st.m[c].seq = 0 /\ st.m[c].flag = "DEALLOC"
  BY <1>4, <1>6
<1>12. \A i \in 1..Len(log) : st.m[log[i].at] = shm.mem[log[i].at] /\ st.b[log[i].at] = shm.buf[log[i].at]
  BY <1>2, <1>5, <1>6
<1>13. st.total = Bytes(shm.mem, st.vec)
  BY <1>6, BytesOfNone
<1>14. Len(st.vec) = 0 /\ \A i \in 1..Len(log) : ~(log[i].at <= st.cur)
  BY <1>5, <1>6
<1> HIDE <1>6
<1>15. Layout(st.m) /\ Heads(st.m) = Heads(shm.mem) /\ st.harm = {}
       /\ st.cur \in Heads(shm.mem) \cup {0} /\ st.at = NextHeadPtr(shm.mem, st.cur)
  BY <1>3, <1>6, <1>8
<1> QED BY <1>1, <1>7, <1>9, <1>10, <1>11, <1>12, <1>13, <1>14, <1>15 DEF ScanInv

\* Where the scan stops there is no header ahead.
LEMMA ScanEndOk ==
    ASSUME DbTypes, Layout(shm.mem), NEW end \in 0..MaxAddr,
           \A c \in Heads(shm.mem) : NextHeadPtr(shm.mem, c) <= end,
           NEW st, ScanInv(st), ~(st.at + 1 < end /\ st.m[st.at].len # 0)
    PROVE  \A c \in Heads(shm.mem) : c <= st.cur
<1> DEFINE m == shm.mem
           T == {c \in Heads(m) : c > st.cur}
<1>1. m \in Headers /\ MaxAddr \in Nat /\ Heads(m) \subseteq 1..MaxAddr
  BY TypedParts DEF Heads
<1>2. st.cur \in Heads(m) \cup {0} /\ st.cur \in 0..MaxAddr /\ st.at = NextHeadPtr(m, st.cur)
  BY <1>1 DEF ScanInv
<1>3. SUFFICES ASSUME T # {} PROVE FALSE
  BY <1>1, <1>2
<1>4. PICK x \in T : \A y \in T : ~(y < x)
  <2>1. T \subseteq Nat
    BY <1>1
  <2> HIDE DEF T
  <2> QED BY <1>3, <2>1, Lowest
<1>5. x \in Heads(m) /\ x > st.cur /\ x \in 1..MaxAddr
  BY <1>1, <1>4
<1>6. PICK b \in Heads(m) \cup {0} : NextHeadPtr(m, b) = x
  BY <1>5 DEF Layout
<1>7. b \in 0..MaxAddr /\ b < x
  <2>1. b \in 0..MaxAddr
    BY <1>1, <1>6
  <2> QED BY <1>1, <1>5, <1>6, <2>1, NextIsBehind
<1>8. b <= st.cur
  <2>1. CASE b = 0
    BY <1>2, <2>1
  <2>2. CASE b \in Heads(m)
    <3>1. b \notin T
      BY <1>4, <1>7
    <3> QED BY <1>2, <1>7, <2>2, <3>1
  <2> QED BY <1>6, <2>1, <2>2
<1>9. b = st.cur
  <2>1. SUFFICES ASSUME b < st.cur PROVE FALSE
    BY <1>2, <1>7, <1>8
  <2>2. st.cur \in Heads(m)
    BY <1>2, <1>7, <2>1
  <2>3. st.cur > b
    BY <1>2, <1>7, <2>1
  <2>4. NextHeadPtr(m, b) <= st.cur
    BY <1>1, <1>6, <2>2, <2>3, NoneBetween
  <2> QED BY <1>2, <1>5, <1>6, <2>4
<1>10. st.at = x /\ st.m[x] = m[x]
  BY <1>2, <1>5, <1>6, <1>9 DEF ScanInv
<1>11. NextHeadPtr(m, x) <= end /\ NextHeadPtr(m, x) = x + 1 + m[x].len /\ m[x].len \in Nat /\ m[x].len > 0
  <2>1. x \in 0..MaxAddr
    BY <1>5
  <2>2. NextHeadPtr(m, x) = x + 1 + m[x].len /\ m[x].len \in Nat
    BY <1>1, <2>1, NextIsBehind
  <2> QED BY <1>5, <2>2 DEF Heads
<1>12. x + 1 < end /\ m[x].len # 0
  BY <1>1, <1>5, <1>11
<1> QED BY <1>10, <1>12

\* The scan ends behind the last header.
LEMMA ScanMemoryOk ==
    ASSUME DbTypes, Layout(shm.mem), LogKept, ClosedOk, NEW M, Mapped(M), NEW end \in 0..MaxAddr,
           \A c \in Heads(shm.mem) : NextHeadPtr(shm.mem, c) <= end,
           NEW vec, vec = << >>, NEW total, total = 0,
           NEW s, s = ScanMemory(M, shm.buf, vec, total, end, shm.start, shm.max)
    PROVE  ScanInv(s) /\ \A c \in Heads(shm.mem) : c <= s.cur
<1> DEFINE start == shm.start  max == shm.max
           st0 == [m |-> M, b |-> shm.buf, cur |-> Base, at |-> NextHeadPtr(M, Base),
                   vec |-> vec, total |-> total, harm |-> {}]
           go == CHOOSE g : g = [k \in 0..MaxAddr |-> IF k = 0 THEN st0 ELSE ScanTurn(g[k - 1], end, start, max)]
<1>1. s = go[MaxAddr]
  BY DEF ScanMemory, ScanTurn
<1>2. ScanInv(st0)
  <2>1. NextHeadPtr(M, Base) = 1
    BY DEF Mapped, NextHeadPtr, Base
  <2>2. st0 = [m |-> M, b |-> shm.buf, cur |-> 0, at |-> 1, vec |-> << >>, total |-> 0, harm |-> {}]
    BY <2>1 DEF Base
  <2> HIDE DEF st0
  <2> QED BY <2>2, ScanStartOk
<1> HIDE DEF st0, start, max
<1>3. go = [k \in 0..MaxAddr |-> IF k = 0 THEN st0 ELSE ScanTurn(go[k - 1], end, start, max)]
  <2> DEFINE x == [k \in 0..MaxAddr |-> [end |-> end, start |-> start, max |-> max]]
  <2>1. PICK g : Run(g, MaxAddr, "scan", st0, x)
    BY LoopRuns, MaxAddrBound
  <2>2. g = [k \in 0..MaxAddr |-> IF k = 0 THEN st0 ELSE Turn("scan", g[k - 1], x[k])]
    BY <2>1 DEF Run
  <2>3. ASSUME NEW k \in 0..MaxAddr
        PROVE  Turn("scan", g[k - 1], x[k]) = ScanTurn(g[k - 1], end, start, max)
    <3>1. x[k].end = end /\ x[k].start = start /\ x[k].max = max
      OBVIOUS
    <3> HIDE DEF x
    <3> QED BY <3>1 DEF Turn
  <2> HIDE DEF x
  <2>4. g = [k \in 0..MaxAddr |-> IF k = 0 THEN st0 ELSE ScanTurn(g[k - 1], end, start, max)]
    BY <2>2, <2>3
  <2> QED BY <2>4, Zenon
<1> HIDE DEF go
<1> DEFINE Stopped(p) == ~(p.at + 1 < end /\ p.m[p.at].len # 0)
           S == {k \in 0..MaxAddr : ScanInv(go[k]) /\ (go[k].at > k \/ Stopped(go[k]))}
<1>4. 0 \in S
  <2>1. go[0] = st0
    BY <1>3, MaxAddrBound
  <2>2. st0.at = 1
    BY DEF st0, Mapped, NextHeadPtr, Base
  <2> QED BY <1>2, <2>1, <2>2, MaxAddrBound
<1>5. ASSUME NEW k \in 1..MaxAddr, k - 1 \in S PROVE k \in S
  <2> DEFINE p == go[k - 1]
  <2>1. go[k] = ScanTurn(p, end, start, max)
    BY <1>3, MaxAddrBound
  <2>2. ScanInv(p) /\ (p.at > k - 1 \/ Stopped(p))
    BY <1>5
  <2>3. CASE Stopped(p)
    <3>1. go[k] = p
      BY <2>1, <2>3 DEF ScanTurn
    <3> QED BY <2>2, <2>3, <3>1
  <2>4. CASE ~Stopped(p)
    <3>1. go[k] = ScanOne(p, start, max) /\ p.at + 1 < end /\ p.m[p.at].len # 0 /\ p.at > k - 1
      BY <2>1, <2>2, <2>4 DEF ScanTurn
    <3>2. p.at \in 1..MaxAddr
      <4>1. p.at \in Nat
        BY <2>2 DEF ScanInv, ScanType
      <4> QED BY <3>1, <4>1, MaxAddrBound
    <3> HIDE DEF p
    <3> DEFINE r == go[k]
    <3>3. r = ScanOne(p, shm.start, shm.max)
      BY <3>1 DEF start, max
    <3> HIDE DEF r
    <3>4. ScanInv(r) /\ r.at > p.at
      BY <2>2, <3>1, <3>2, <3>3, ScanStepOk
    <3>5. r.at > k
      <4>1. r.at \in Nat /\ p.at \in Nat
        BY <2>2, <3>4 DEF ScanInv, ScanType
      <4> QED BY <3>1, <3>4, <4>1
    <3> QED BY <3>4, <3>5 DEF r
  <2> QED BY <2>3, <2>4
<1> HIDE DEF S
<1>6. MaxAddr \in S
  <2>1. MaxAddr \in Nat /\ \A k \in 1..MaxAddr : k - 1 \in S => k \in S
    BY <1>5, MaxAddrBound
  <2>2. \A k \in 0..MaxAddr : k \in S
    BY <1>4, <2>1, UpTo
  <2> QED BY <2>1, <2>2
<1>7. ScanInv(s) /\ (s.at > MaxAddr \/ Stopped(s))
  BY <1>1, <1>6 DEF S
<1>8. Stopped(s)
  <2>1. s.at \in Nat /\ MaxAddr \in Nat
    BY <1>7, MaxAddrBound DEF ScanInv, ScanType
  <2>2. s.at > MaxAddr => ~(s.at + 1 < end)
    BY <2>1
  <2> QED BY <1>7, <2>2
<1>9. \A c \in Heads(shm.mem) : c <= s.cur
  BY <1>7, <1>8, ScanEndOk
<1> QED BY <1>7, <1>9

-----------------------------------------------------------------------------
(* The open                                                                *)

\* What is mapped has every entry, if none is cut off.
LEMMA NothingCut ==
    ASSUME DbTypes, Layout(shm.mem), NEW size \in DbSizes,
           ~ \E a \in 1..MaxAddr : shm.mem[a].len > 0 /\ NextHeadPtr(shm.mem, a) > size,
           NEW M, M = [a \in 0..MaxAddr |-> IF a < size THEN shm.mem[a] ELSE Zero]
    PROVE  Mapped(M) /\ \A c \in Heads(shm.mem) : NextHeadPtr(shm.mem, c) <= size
<1>1. shm.mem \in Headers /\ MaxAddr \in Nat /\ size \in Nat
  BY TypedParts, MaxAddrBound
<1>2. \A c \in 0..MaxAddr : shm.mem[c] \in HeadType /\ shm.mem[c].len \in Nat
                            /\ NextHeadPtr(shm.mem, c) \in Nat /\ NextHeadPtr(shm.mem, c) > c
  BY <1>1, NextIsBehind
<1>3. \A c \in Heads(shm.mem) : NextHeadPtr(shm.mem, c) <= size
  <2>1. \A c \in Heads(shm.mem) : c \in 0..MaxAddr /\ ~(NextHeadPtr(shm.mem, c) > size)
    BY DEF Heads
  <2> QED BY <1>1, <1>2, <2>1
<1>4. Zero \in HeadType /\ Zero.len = 0 /\ Zero.seq = 0 /\ Zero.flag = "UNUSED"
  BY DEF Zero, HeadType, Flags
<1>5. M \in Headers
  BY <1>2, <1>4 DEF Headers
<1>6. \A c \in 1..MaxAddr : M[c] = shm.mem[c]
  <2>1. ASSUME NEW c \in 1..MaxAddr, ~(c < size) PROVE shm.mem[c] = Zero
    <3>1. c \notin Heads(shm.mem)
      BY <1>1, <1>2, <1>3, <2>1
    <3>2. shm.mem[c].len = 0
      BY <1>2, <3>1 DEF Heads
    <3> QED BY <3>2 DEF Layout
  <2> QED BY <2>1
<1>7. M[0].len = 0 /\ M[0].seq = 0 /\ M[0].flag # "DEALLOC"
  <2>1. M[0] = shm.mem[0] \/ M[0] = Zero
    BY <1>1
  <2> QED BY <1>4, <2>1 DEF Layout
<1> QED BY <1>3, <1>5, <1>6, <1>7 DEF Mapped

\* The entries of the log are found again, and no others.
LEMMA OpenAgainOk ==
    ASSUME DbOk, NEW size \in DbSizes, ztl_memdb_open(size), harm' = {}
    PROVE  DbOk'
<1> DEFINE cap == IF size < shm.size THEN shm.size ELSE size
           M == [a \in 0..MaxAddr |-> IF a < size THEN shm.mem[a] ELSE Zero]
           s == ScanMemory(M, shm.buf, db.vec, db.total, cap, shm.start, shm.max)
           g == MergeMemory(s.m, s.cur)
           total == shm.start + Len(s.vec) - 1
           sz == IF shm.size = 0 THEN size ELSE shm.size
<1>1. /\ ~db.isopen /\ op = Idle /\ op' = op /\ log' = log
      /\ shm' = [shm EXCEPT !.size = IF @ = 0 THEN size ELSE @,
                            !.mem = [g.m EXCEPT ![Base].flag = "ALLOCED"], !.buf = s.b,
                            !.max = shm.start + Len(s.vec) - 1]
      /\ db' = [isopen |-> TRUE, cap |-> cap, cur |-> g.p, vec |-> s.vec, total |-> s.total]
  BY DEF ztl_memdb_open
<1>2. /\ MergeHarm(s.m, s.cur, cap) = {} /\ db.vec = << >>
      /\ ~ \E a \in 1..MaxAddr : shm.mem[a].len > 0 /\ NextHeadPtr(shm.mem, a) > size
  <2>1. harm' = harm \cup s.harm \cup MergeHarm(s.m, s.cur, cap)
       \cup (IF \E a \in 1..MaxAddr : shm.mem[a].len > 0 /\ NextHeadPtr(shm.mem, a) > size THEN {"cut"} ELSE {})
       \cup (IF db.vec # <<>> THEN {"reuse"} ELSE {})
    BY DEF ztl_memdb_open
  <2> HIDE DEF s
  <2>2. MergeHarm(s.m, s.cur, cap) = {}
    BY <2>1
  <2>3. (IF db.vec # <<>> THEN {"reuse"} ELSE {}) = {}
    BY <2>1
  <2>4. (IF \E a \in 1..MaxAddr : shm.mem[a].len > 0 /\ NextHeadPtr(shm.mem, a) > size THEN {"cut"} ELSE {}) = {}
    BY <2>1
  <2> QED BY <2>2, <2>3, <2>4
<1>3. DbTypes /\ Layout(shm.mem) /\ LogKept /\ ClosedOk /\ db.total = 0
  BY <1>1, <1>2, BytesOfNone DEF DbOk
<1>4. Mapped(M) /\ \A c \in Heads(shm.mem) : NextHeadPtr(shm.mem, c) <= size
  <2> DEFINE MM == M
  <2>1. MM = [a \in 0..MaxAddr |-> IF a < size THEN shm.mem[a] ELSE Zero]
    OBVIOUS
  <2> HIDE DEF MM
  <2>2. Mapped(MM) /\ \A c \in Heads(shm.mem) : NextHeadPtr(shm.mem, c) <= size
    BY <1>2, <1>3, <2>1, NothingCut
  <2> QED BY <2>2 DEF MM
<1> HIDE DEF M
<1>5. /\ shm.mem \in Headers /\ shm.start \in Nat \ {0} /\ shm.max \in Nat /\ shm.size \in 0..MaxAddr
      /\ MaxAddr \in Nat /\ size \in 0..MaxAddr /\ Len(log) \in Nat
      /\ \A i \in 1..Len(log) : log[i].at \in 1..MaxAddr
  BY <1>3, TypedParts, MaxAddrBound
<1>6. cap \in 0..MaxAddr /\ size <= cap /\ sz \in 0..MaxAddr
  BY <1>5
<1>7. \A c \in Heads(shm.mem) : NextHeadPtr(shm.mem, c) <= cap
  <2> DEFINE m == shm.mem
  <2>1. \A c \in Heads(shm.mem) : c \in 0..MaxAddr
    BY <1>5 DEF Heads
  <2>2. m \in Headers
    BY <1>5
  <2> HIDE DEF m
  <2>3. \A c \in 0..MaxAddr : NextHeadPtr(m, c) \in Nat
    BY <2>2, NextIsBehind
  <2>4. \A c \in Heads(shm.mem) : NextHeadPtr(shm.mem, c) \in Nat
    BY <2>1, <2>3 DEF m
  <2> QED BY <1>4, <1>5, <1>6, <2>4
<1> HIDE DEF cap
<1>8. ScanInv(s) /\ \A c \in Heads(shm.mem) : c <= s.cur
  <2> DEFINE vec == db.vec  t == db.total  ss == s
  <2>1. vec = << >> /\ t = 0 /\ ss = ScanMemory(M, shm.buf, vec, t, cap, shm.start, shm.max)
    BY <1>2, <1>3
  <2> HIDE DEF vec, t, ss
  <2>2. ScanInv(ss) /\ \A c \in Heads(shm.mem) : c <= ss.cur
    BY <1>3, <1>4, <1>6, <1>7, <2>1, ScanMemoryOk
  <2> QED BY <2>2 DEF ss
<1> HIDE DEF s
<1>9. /\ s \in ScanType /\ Layout(s.m) /\ Heads(s.m) = Heads(shm.mem)
      /\ s.cur \in Heads(shm.mem) \cup {0} /\ s.total = Bytes(shm.mem, s.vec)
      /\ s.m \in Headers /\ s.b \in Contents /\ s.vec \in Seq(1..MaxAddr) /\ s.total \in Int /\ s.cur \in 0..MaxAddr
  BY <1>8 DEF ScanInv, ScanType
<1>10. PICK n \in Nat : n = Len(log)
  BY <1>5
<1>11. Len(s.vec) = n /\ \A i \in 1..n : s.vec[i] = log[i].at
  <2>1. PICK v \in Nat : v = Len(s.vec)
    BY <1>9, LenProperties
  <2>2. \A i \in 1..n : log[i].at <= s.cur
    BY <1>3, <1>8, <1>10 DEF LogKept
  <2>3. \A i \in 1..n : i <= v
    BY <1>8, <1>10, <2>1, <2>2 DEF ScanInv
  <2>4. v <= n /\ \A i \in 1..v : s.vec[i] = log[i].at
    BY <1>8, <1>10, <2>1 DEF ScanInv
  <2>5. v = n
    <3>1. n = 0 \/ n \in 1..n
      OBVIOUS
    <3> QED BY <2>3, <2>4, <3>1
  <2> QED BY <2>1, <2>4, <2>5
<1>12. \A c \in Heads(s.m) : IF InLog(c) THEN s.m[c].flag = "FILLED"
                             ELSE s.m[c].flag = "DEALLOC" /\ s.m[c].seq = 0
  <2>1. \A i \in 1..n : s.m[log[i].at].flag = "FILLED"
    BY <1>3, <1>8, <1>10 DEF ScanInv, LogKept
  <2>2. \A c \in Heads(s.m) : InLog(c) => s.m[c].flag = "FILLED"
    BY <1>10, <2>1 DEF InLog
  <2>3. \A c \in Heads(s.m) : ~InLog(c) => s.m[c].flag = "DEALLOC" /\ s.m[c].seq = 0
    BY <1>8, <1>9 DEF ScanInv
  <2> QED BY <2>2, <2>3
<1>13. PICK w \in Headers, p \in 0..MaxAddr : g = [m |-> w, p |-> p] /\ Merged(s.m, w, p)
  <2> DEFINE m == s.m  cur == s.cur
  <2>1. m \in Headers /\ Layout(m) /\ cur \in 0..MaxAddr /\ MergeHarm(m, cur, cap) = {}
    BY <1>2, <1>9
  <2>2. AtEndOf(m, cur)
    BY <1>8, <1>9 DEF AtEndOf
  <2> HIDE DEF m, cur
  <2>3. \E w \in Headers, p \in 0..MaxAddr : MergeMemory(m, cur) = [m |-> w, p |-> p] /\ Merged(m, w, p)
    BY <1>6, <2>1, <2>2, MergeOk
  <2> QED BY <2>3 DEF m, cur
<1>14. total \in Nat /\ total = shm.start + n - 1
  BY <1>5, <1>11
<1> HIDE DEF g, total, sz
<1> HIDE DEF g
<1>15. /\ Layout(w) /\ Heads(w) \subseteq Heads(s.m) /\ (AstrayIn(w, p) \/ AtEndOf(w, p))
       /\ \A c \in Heads(w) : w[c] = s.m[c] /\ NextHeadPtr(w, c) = NextHeadPtr(s.m, c)
       /\ \A c \in Heads(s.m) : c \notin Heads(w) => s.m[c].flag = "DEALLOC"
  BY <1>13 DEF Merged
<1>16. /\ shm'.mem \in Headers /\ Layout(shm'.mem) /\ Heads(shm'.mem) = Heads(w)
       /\ \A c \in 1..MaxAddr : shm'.mem[c] = w[c]
       /\ shm'.buf = s.b /\ shm'.start = shm.start /\ shm'.max = total
       /\ db' = [isopen |-> TRUE, cap |-> cap, cur |-> p, vec |-> s.vec, total |-> s.total]
       /\ DbTypes'
  <2> DEFINE mm == [w EXCEPT ![Base].flag = "ALLOCED"]
  <2>1. w[0] \in HeadType /\ 0 \in 0..MaxAddr
    <3>1. 0 \in 0..MaxAddr
      BY <1>5
    <3> QED BY <3>1, NextIsBehind
  <2>2. mm \in Headers /\ mm[0].len = w[0].len /\ mm[0].seq = w[0].seq /\ mm[0].flag = "ALLOCED"
        /\ \A c \in 1..MaxAddr : mm[c] = w[c]
    <3> DEFINE h == [w[0] EXCEPT !.flag = "ALLOCED"]
    <3>1. h \in HeadType /\ h.len = w[0].len /\ h.seq = w[0].seq /\ h.flag = "ALLOCED"
      BY <2>1 DEF HeadType, Flags
    <3>2. mm = [w EXCEPT ![0] = h]
      BY DEF Base
    <3> HIDE DEF h, mm
    <3>3. mm \in Headers /\ mm[0] = h /\ \A c \in 1..MaxAddr : mm[c] = w[c]
      BY <1>13, <2>1, <3>1, <3>2 DEF Headers
    <3> QED BY <3>1, <3>3
  <2> HIDE DEF mm
  <2>3. Layout(mm) /\ Heads(mm) = Heads(w)
    <3>1. mm[0].len = 0 /\ mm[0].seq = 0 /\ mm[0].flag # "DEALLOC"
      BY <1>15, <2>2 DEF Layout
    <3> QED BY <1>15, <2>2, <3>1, LayoutSame
  <2>4. shm' = [shm EXCEPT !.size = sz, !.mem = mm, !.buf = s.b, !.max = total]
    <3>1. g.m = w
      BY <1>13
    <3>2. shm' = [shm EXCEPT !.size = sz, !.mem = [g.m EXCEPT ![Base].flag = "ALLOCED"], !.buf = s.b, !.max = total]
      BY <1>1 DEF sz, total
    <3> QED BY <3>1, <3>2 DEF mm
  <2>5. shm'.mem = mm /\ shm'.buf = s.b /\ shm'.start = shm.start /\ shm'.max = total
        /\ shm' \in [size : 0..MaxAddr, start : Nat \ {0}, max : Nat, mem : Headers, buf : Contents]
    BY <1>3, <1>6, <1>9, <1>14, <2>2, <2>4 DEF DbTypes
  <2>6. db' = [isopen |-> TRUE, cap |-> cap, cur |-> p, vec |-> s.vec, total |-> s.total]
    BY <1>1, <1>13
  <2>7. db' \in [isopen : BOOLEAN, cap : 0..MaxAddr, cur : 0..MaxAddr, vec : Seq(1..MaxAddr), total : Int]
    BY <1>6, <1>9, <1>13, <2>6
  <2>8. DbTypes'
    BY <1>1, <1>3, <2>5, <2>7 DEF DbTypes
  <2> QED BY <2>2, <2>3, <2>5, <2>6, <2>8
<1>17. op'.kind = "idle" /\ ~InHand'
  BY <1>1 DEF Idle, InHand
<1>18. VecIsLog' /\ (shm'.max = total /\ shm'.start = shm.start => MaxFollows')
  <2>1. db'.vec = s.vec
    BY <1>1
  <2>2. VecIsLog'
    BY <1>1, <1>10, <1>11, <1>17, <2>1 DEF VecIsLog
  <2>3. shm'.max = total /\ shm'.start = shm.start => MaxFollows'
    BY <1>1, <1>10, <1>14, <1>17 DEF MaxFollows
  <2> QED BY <2>2, <2>3
<1>19. AllocBegun' /\ AppendBegun' /\ FreeBegun'
  BY <1>17 DEF AllocBegun, AppendBegun, FreeBegun
<1>20. \A i \in 1..n : /\ log[i].at \in Heads(shm'.mem) /\ log[i].at \in Heads(shm.mem)
                      /\ shm'.mem[log[i].at] = shm.mem[log[i].at] /\ shm'.buf[log[i].at] = shm.buf[log[i].at]
  <2>1. \A i \in 1..n : log[i].at \in Heads(shm.mem) /\ InLog(log[i].at) /\ log[i].at \in 1..MaxAddr
    BY <1>3, <1>5, <1>10 DEF LogKept, InLog
  <2>2. \A i \in 1..n : log[i].at \in Heads(w)
    BY <1>9, <1>12, <1>15, <2>1
  <2>3. \A i \in 1..n : shm'.mem[log[i].at] = s.m[log[i].at]
    BY <1>16, <1>15, <2>1, <2>2
  <2>4. \A i \in 1..n : s.m[log[i].at] = shm.mem[log[i].at] /\ s.b[log[i].at] = shm.buf[log[i].at]
    BY <1>8, <1>10 DEF ScanInv
  <2> QED BY <1>16, <2>1, <2>2, <2>3, <2>4
<1>21. \A c \in Heads(shm'.mem) : /\ c \in Heads(s.m) /\ shm'.mem[c] = s.m[c]
                                 /\ NextHeadPtr(shm'.mem, c) = NextHeadPtr(shm.mem, c)
  <2>1. \A c \in Heads(shm'.mem) : c \in Heads(s.m) /\ shm'.mem[c] = s.m[c]
    <3>1. \A c \in Heads(shm'.mem) : c \in 1..MaxAddr /\ c \in Heads(w)
      BY <1>16 DEF Heads
    <3> QED BY <1>16, <1>15, <3>1
  <2>2. \A c \in Heads(s.m) : NextHeadPtr(s.m, c) = NextHeadPtr(shm.mem, c)
    BY <1>8, <1>9 DEF ScanInv
  <2> QED BY <2>1, <2>2 DEF NextHeadPtr
<1>22. LogKept'
  <2>1. \A i \in 1..n : /\ shm.mem[log[i].at].flag = "FILLED"
                        /\ shm.mem[log[i].at].seq = shm.start + i - 1 /\ shm.buf[log[i].at] = log[i].val
    BY <1>3, <1>10 DEF LogKept
  <2>2. \A i \in 1..n : /\ shm'.mem[log[i].at].flag = "FILLED"
                        /\ shm'.mem[log[i].at].seq = shm'.start + i - 1 /\ shm'.buf[log[i].at] = log[i].val
    BY <1>16, <1>20, <2>1
  <2>3. \A i, j \in 1..n : i < j => log[i].at < log[j].at
    BY <1>3, <1>10 DEF LogKept
  <2> QED BY <1>1, <1>10, <1>20, <2>2, <2>3 DEF LogKept
<1>23. db'.total = Bytes(shm'.mem, db'.vec)
  <2> DEFINE v == s.vec  m == shm.mem  mm == shm'.mem
  <2>1. v \in Seq(1..MaxAddr) /\ \A i \in 1..Len(v) : m[v[i]].len = mm[v[i]].len
    BY <1>9, <1>11, <1>20
  <2> HIDE DEF v, m, mm
  <2>2. Bytes(m, v) = Bytes(mm, v)
    BY <2>1, BytesOfSame
  <2> QED BY <1>9, <1>16, <2>2 DEF v, m, mm
<1>24. CurIsLast'
  <2>1. db'.cur = p /\ db'.cap = cap
    BY <1>16
  <2>2. \A c \in Heads(shm'.mem) : NextHeadPtr(shm'.mem, c) <= cap
    BY <1>7, <1>9, <1>21
  <2>3. AstrayIn(w, p) => Astray'
    <3>1. SUFFICES ASSUME AstrayIn(w, p) PROVE Astray'
      OBVIOUS
    <3>2. p \in 1..MaxAddr /\ w[p].len = 0 /\ p # Base
      BY <3>1, <1>5 DEF AstrayIn, Base
    <3> QED BY <1>16, <2>1, <3>2 DEF Astray
  <2>4. AtEndOf(w, p) => AtEnd'
    BY <1>16, <2>1 DEF AtEnd, AtEndOf
  <2> QED BY <1>15, <2>1, <2>2, <2>3, <2>4 DEF CurIsLast
<1>25. VecInOrder'
  <2>1. db'.vec = s.vec
    BY <1>1
  <2>2. \A i, j \in 1..n : i < j => s.vec[i] < s.vec[j]
    BY <1>3, <1>10, <1>11 DEF LogKept
  <2>3. \A i \in 1..n : s.vec[i] \in Heads(shm'.mem)
    BY <1>11, <1>20
  <2>4. ASSUME NEW c \in Heads(shm'.mem), shm'.mem[c].seq # 0 PROVE InVec(c)'
    <3>1. InLog(c)
      BY <1>12, <1>21, <2>4
    <3>2. PICK i \in 1..n : log[i].at = c
      BY <1>10, <3>1 DEF InLog
    <3>3. i \in 1..Len(db'.vec) /\ db'.vec[i] = c
      BY <1>11, <2>1, <3>2
    <3> QED BY <3>3 DEF InVec
  <2> QED BY <1>11, <2>1, <2>2, <2>3, <2>4 DEF VecInOrder
<1>26. Complete'
  BY <1>12, <1>21 DEF Complete
<1>27. db'.isopen
  BY <1>16
<1>28. VecIsLog' /\ MaxFollows'
  BY <1>16, <1>18
<1>29. OpenOk'
  BY <1>19, <1>24, <1>25, <1>26, <1>28 DEF OpenOk
<1> QED BY <1>16, <1>22, <1>23, <1>27, <1>29 DEF DbOk

-----------------------------------------------------------------------------
(* The theorems                                                            *)

\* A flaw that was met stays met.
LEMMA HarmStays == ASSUME [DbNext]_dbVars, harm' = {} PROVE harm = {}
<1>1. CASE UNCHANGED dbVars
  BY <1>1 DEF dbVars
<1>2. CASE ztl_memdb_close \/ Crash \/ AllocRest \/ AppendFill \/ AppendPublish \/ FreePop
  BY <1>2 DEF ztl_memdb_close, Crash, AllocRest, AppendFill, AppendPublish, Appended, FreePop
<1>3. CASE FreeMerge
  <2>1. \E h : harm' = harm \cup h
    BY <1>3 DEF FreeMerge
  <2> QED BY <2>1
<1>4. ASSUME NEW size \in DbSizes, ztl_memdb_open(size) PROVE harm = {}
  <2> DEFINE cap == IF size < shm.size THEN shm.size ELSE size
             mem == [a \in 0..MaxAddr |-> IF a < size THEN shm.mem[a] ELSE Zero]
             s == ScanMemory(mem, shm.buf, db.vec, db.total, cap, shm.start, shm.max)
             m == MergeHarm(s.m, s.cur, cap)
             cut == IF \E a \in 1..MaxAddr : shm.mem[a].len > 0 /\ NextHeadPtr(shm.mem, a) > size
                    THEN {"cut"} ELSE {}
             reuse == IF db.vec # <<>> THEN {"reuse"} ELSE {}
  <2>1. harm' = harm \cup s.harm \cup m \cup cut \cup reuse
    BY <1>4, Zenon DEF ztl_memdb_open
  <2> HIDE DEF s, m, cut, reuse
  <2> QED BY <2>1
<1>5. ASSUME NEW len \in EntryLens, NEW val \in Payloads, AllocLength(len, val) PROVE harm = {}
  BY <1>5 DEF AllocLength
<1>6. ASSUME NEW a \in 1..MaxAddr, AppendMark(a) \/ FreeClear(a) PROVE harm = {}
  BY <1>6 DEF AppendMark, FreeClear
<1>7. ASSUME NEW seq \in DbStarts, ztl_memdb_set_start_seq(seq) PROVE harm = {}
  BY <1>7 DEF ztl_memdb_set_start_seq
<1> QED BY <1>1, <1>2, <1>3, <1>4, <1>5, <1>6, <1>7 DEF DbNext

\* Every step keeps the invariant.
LEMMA DbStepOk == ASSUME DbInv, [DbNext]_dbVars PROVE DbInv'
<1>1. SUFFICES ASSUME harm' = {} PROVE DbOk'
  BY DEF DbInv
<1>2. harm = {}
  BY <1>1, HarmStays
<1>3. DbOk
  BY <1>2 DEF DbInv
<1>4. CASE UNCHANGED dbVars
  <2>1. shm' = shm /\ db' = db /\ op' = op /\ log' = log
    BY <1>4 DEF dbVars
  <2>2. DbTypes' /\ Layout(shm'.mem) /\ LogKept' /\ db'.total = Bytes(shm'.mem, db'.vec)
    BY <1>3, <2>1 DEF DbOk, DbTypes, LogKept
  <2>3. db.isopen => OpenOk'
    <3>1. ASSUME db.isopen PROVE OpenOk'
      <4>1. OpenOk
        BY <1>3, <3>1 DEF DbOk
      <4>2. CurIsLast' /\ VecIsLog' /\ VecInOrder' /\ MaxFollows'
        BY <2>1, <4>1 DEF OpenOk, CurIsLast, Astray, AtEnd, VecIsLog, VecInOrder, MaxFollows, InHand, InVec, last_seq
      <4>3. AllocBegun' /\ AppendBegun' /\ FreeBegun' /\ Complete'
        BY <2>1, <4>1 DEF OpenOk, AllocBegun, AppendBegun, FreeBegun, Complete, InVec, last_seq
      <4> QED BY <4>2, <4>3 DEF OpenOk
    <3> QED BY <3>1
  <2>4. ~db.isopen => ClosedOk'
    BY <1>3, <2>1 DEF DbOk, ClosedOk, InLog
  <2> QED BY <2>1, <2>2, <2>3, <2>4 DEF DbOk
<1>5. CASE ztl_memdb_close
  BY <1>3, <1>5, CloseOk
<1>6. CASE Crash
  BY <1>3, <1>6, CrashOk
<1>7. CASE AllocRest
  BY <1>3, <1>7, AllocRestOk
<1>8. CASE AppendPublish
  BY <1>3, <1>8, AppendPublishOk
<1>9. CASE FreePop
  BY <1>3, <1>9, FreePopOk
<1>10. CASE FreeMerge
  BY <1>1, <1>3, <1>10, FreeMergeOk
<1>11. ASSUME NEW size \in DbSizes, ztl_memdb_open(size) PROVE DbOk'
  BY <1>1, <1>3, <1>11, OpenAgainOk
<1>12. ASSUME NEW len \in EntryLens, NEW val \in Payloads, AllocLength(len, val) PROVE DbOk'
  <2>1. ~Astray
    <3>1. harm' = IF Astray THEN harm \cup {"gap"} ELSE harm
      BY <1>12 DEF AllocLength
    <3>2. harm \cup {"gap"} # {}
      OBVIOUS
    <3> QED BY <1>1, <3>1, <3>2
  <2> QED BY <1>3, <1>12, <2>1, AllocLengthOk
<1>13. ASSUME NEW a \in 1..MaxAddr, AppendMark(a) PROVE DbOk'
  <2>1. ~ \E i \in DOMAIN db.vec : db.vec[i] > a
    <3>1. harm' = IF \E i \in DOMAIN db.vec : db.vec[i] > a THEN harm \cup {"order"} ELSE harm
      BY <1>13 DEF AppendMark
    <3>2. harm \cup {"order"} # {}
      OBVIOUS
    <3> QED BY <1>1, <3>1, <3>2
  <2> QED BY <1>3, <1>13, <2>1, AppendMarkOk
<1>14. ASSUME NEW a \in 1..MaxAddr, FreeClear(a) PROVE DbOk'
  BY <1>3, <1>14, FreeClearOk
<1>15. ASSUME NEW seq \in DbStarts, ztl_memdb_set_start_seq(seq) PROVE DbOk'
  BY <1>3, <1>15, SetStartOk
<1>16. CASE AppendFill
  BY <1>3, <1>16, AppendFillOk
<1> QED BY <1>4, <1>5, <1>6, <1>7, <1>8, <1>9, <1>10, <1>11, <1>12, <1>13, <1>14, <1>15, <1>16 DEF DbNext

\* Between two calls the invariant is what the entries' readers rely on.
LEMMA DbInvRecovers == ASSUME DbInv PROVE DbRecoversUnharmed
<1>1. SUFFICES ASSUME harm = {}, Ready
               PROVE  /\ Len(log) = Len(db.vec) /\ (log = << >> \/ shm.max = last_seq)
                      /\ \A i \in DOMAIN log :
                           LET a == ztl_memdb_get_entry(shm.start + i - 1) IN
                           /\ a = log[i].at /\ shm.buf[a] = log[i].val
                           /\ shm.mem[a].flag = "FILLED" /\ shm.mem[a].seq = shm.start + i - 1
                      /\ db.total = Bytes(shm.mem, db.vec)
  BY DEF DbRecoversUnharmed, DbRecovers
<1>2. DbOk /\ db.isopen /\ op.kind = "idle" /\ ~InHand
  BY <1>1 DEF DbInv, Ready, Idle, InHand
<1>3. DbTypes /\ LogKept /\ OpenOk /\ db.total = Bytes(shm.mem, db.vec)
  BY <1>2 DEF DbOk
<1>4. PICK n \in Nat : n = Len(log) /\ n = Len(db.vec)
  BY <1>2, <1>3, InVecInLog, TypedParts
<1>5. \A i \in 1..n : db.vec[i] = log[i].at
  BY <1>2, <1>4, InVecInLog
<1>6. shm.start \in Nat /\ last_seq = shm.start + n - 1
  BY <1>3, <1>4, TypedParts DEF last_seq
<1>7. log = << >> \/ shm.max = last_seq
  BY <1>2, <1>3, <1>4, <1>6 DEF OpenOk, MaxFollows
<1>8. DOMAIN log = 1..n
  <2>1. log \in Seq(LogEntry)
    BY <1>3 DEF DbTypes
  <2> QED BY <1>4, <2>1, LenProperties
<1>9. ASSUME NEW i \in 1..n
      PROVE  ztl_memdb_get_entry(shm.start + i - 1) = log[i].at
  <2> DEFINE seq == shm.start + i - 1
  <2>1. ~(seq < shm.start \/ seq > last_seq) /\ seq - shm.start + 1 = i
    BY <1>6
  <2> HIDE DEF seq
  <2>2. ztl_memdb_get_entry(seq) = db.vec[i]
    BY <2>1 DEF ztl_memdb_get_entry
  <2> QED BY <1>5, <2>2 DEF seq
<1>10. \A i \in 1..n : /\ shm.buf[log[i].at] = log[i].val /\ shm.mem[log[i].at].flag = "FILLED"
                       /\ shm.mem[log[i].at].seq = shm.start + i - 1
  BY <1>3, <1>4 DEF LogKept
<1> QED BY <1>3, <1>4, <1>7, <1>8, <1>9, <1>10

\* The layout of the memory, the vector of the process and the log of what was
\* appended and not freed agree, in a process and between two (ztl_memdb.c).
THEOREM DbInvariant == DbSpec => []DbInv
<1>1. DbInit => DbInv
  BY DbInitOk DEF DbInv
<1>2. DbInv /\ [DbNext]_dbVars => DbInv'
  BY DbStepOk
<1> QED BY <1>1, <1>2, PTL DEF DbSpec

\* What was appended and not freed is found again under its number, with its
\* contents, after any crashes and opens of ztl_memdb_open that met no flaw.
THEOREM DbAlwaysRecovers == DbSpec => []DbRecoversUnharmed
<1>1. DbInv => DbRecoversUnharmed
  BY DbInvRecovers
<1> QED BY <1>1, DbInvariant, PTL

=============================================================================
