----------------------------- MODULE DictProofs ------------------------------
(***************************************************************************)
(* Proofs about Dict, for any finite set of keys, any values, any hash     *)
(* function, any initial size, and any width of the cursor that its        *)
(* assumption allows: that the dictionary is a map, and that scans and     *)
(* iterations are complete.                                                *)
(***************************************************************************)
EXTENDS Dict, FiniteSetTheorems, SequenceTheorems, WellFoundedInduction, TLAPS

-----------------------------------------------------------------------------
(* Induction: the provers know no induction scheme, but a set of numbers   *)
(* that is not empty has a least element.                                  *)

\* A set of natural numbers that is not empty has a lowest one.
LEMMA Lowest ==
    ASSUME NEW T, T \subseteq Nat, T # {}
    PROVE  \E x \in T : \A y \in T : ~(y < x)
<1> DEFINE R == {ss \in Nat \X Nat : ss[1] < ss[2]}
<1>1. IsWellFoundedOn(R, Nat)
  BY NatLessThanWellFounded, Zenon DEF OpToRel
<1> HIDE DEF R
<1>2. PICK x \in T : \A y \in T : ~(<<y, x>> \in R)
  BY <1>1, WFMin
<1>3. ASSUME NEW y \in T, y < x PROVE FALSE
  <2>1. y \in Nat /\ x \in Nat
    BY <1>2
  <2>2. <<y, x>> \in R
    BY <1>3, <2>1 DEF R
  <2> QED BY <1>2, <2>2
<1> QED BY <1>2, <1>3

\* What holds of 0 and passes from each number below n to the next holds up to n.
LEMMA UpTo ==
    ASSUME NEW n \in Nat, NEW S, 0 \in S, \A k \in 1 .. n : k - 1 \in S => k \in S
    PROVE  \A k \in 0 .. n : k \in S
<1> DEFINE T == {k \in 0 .. n : k \notin S}
<1>1. SUFFICES ASSUME T # {} PROVE FALSE
  OBVIOUS
<1>2. PICK x \in T : \A y \in T : ~(y < x)
  <2>1. T \subseteq Nat
    OBVIOUS
  <2> HIDE DEF T
  <2> QED BY <1>1, <2>1, Lowest
<1>3. x \in 1 .. n /\ x - 1 \in 0 .. n
  BY <1>2
<1>4. x - 1 \in S
  BY <1>2, <1>3
<1> QED BY <1>2, <1>3, <1>4

-----------------------------------------------------------------------------
(* Quotients and remainders *)

LEMMA DivMod ==
    ASSUME NEW a \in Nat, NEW b \in Nat \ {0}
    PROVE  a \div b \in Nat /\ a % b \in 0 .. b - 1 /\ a = b * (a \div b) + (a % b)
OBVIOUS

\* There is one quotient and one remainder.
LEMMA OneQuotient ==
    ASSUME NEW b \in Nat \ {0}, NEW q \in Nat, NEW p \in Nat, NEW r \in 0 .. b - 1, NEW s \in 0 .. b - 1,
           b * q + r = b * p + s
    PROVE  q = p /\ r = s
<1>1. ASSUME NEW x \in Nat, NEW y \in Nat, x < y PROVE b * y >= b * x + b
  <2>1. y - x - 1 \in Nat
    BY <1>1
  <2>2. b * (y - x - 1) >= 0
    BY <2>1
  <2> QED BY <2>1, <2>2
<1>2. b * q \in Nat /\ b * p \in Nat
  OBVIOUS
<1>3. ~(q < p)
  BY <1>1, <1>2
<1>4. ~(p < q)
  BY <1>1, <1>2
<1> QED BY <1>3, <1>4

LEMMA Quotient ==
    ASSUME NEW a \in Nat, NEW b \in Nat \ {0}, NEW q \in Nat, NEW r \in 0 .. b - 1, a = b * q + r
    PROVE  a \div b = q /\ a % b = r
BY DivMod, OneQuotient

\* Products.
LEMMA Product ==
    ASSUME NEW a \in Nat, NEW b \in Nat
    PROVE  a * b \in Nat /\ a * b = b * a /\ (a # 0 /\ b # 0 => a * b >= a /\ a * b >= b /\ a * b # 0)
<1>1. a * b \in Nat /\ a * b = b * a
  OBVIOUS
<1>2. ASSUME a # 0, b # 0 PROVE a * b >= a /\ a * b >= b
  <2>1. a - 1 \in Nat /\ b - 1 \in Nat
    BY <1>2
  <2>2. (a - 1) * b >= 0 /\ a * (b - 1) >= 0
    BY <2>1
  <2> QED BY <2>2
<1> QED BY <1>1, <1>2

-----------------------------------------------------------------------------
(* Sizes: the divisors of Word *)

Divisors == {w \in 1 .. Word : Word % w = 0}

LEMMA DivisorParts ==
    ASSUME NEW w \in Divisors
    PROVE  /\ w \in Nat \ {0} /\ w <= Word /\ Word \in Nat \ {0}
           /\ Word \div w \in Nat \ {0} /\ w * (Word \div w) = Word
<1>1. w \in 1 .. Word /\ Word % w = 0 /\ Word \in Nat \ {0}
  BY WordAssumption DEF Divisors
<1>2. w \in Nat \ {0}
  BY <1>1
<1>3. Word \div w \in Nat /\ Word = w * (Word \div w)
  <2>1. Word \div w \in Nat /\ Word = w * (Word \div w) + (Word % w)
    BY <1>1, <1>2, DivMod
  <2> QED BY <1>1, <1>2, <2>1
<1>4. Word \div w # 0
  BY <1>1, <1>3
<1> QED BY <1>1, <1>2, <1>3, <1>4

LEMMA MakeDivisor ==
    ASSUME NEW w \in Nat \ {0}, NEW q \in Nat, w * q = Word
    PROVE  w \in Divisors /\ q \in Divisors /\ Word \div w = q /\ Word \div q = w
<1>1. Word \in Nat \ {0}
  BY WordAssumption
<1>2. q # 0
  BY <1>1
<1>3. w <= Word /\ q <= Word
  BY <1>2, Product
<1>4. Word = w * q + 0 /\ Word = q * w + 0
  BY <1>1, Product
<1>5. Word \div w = q /\ Word % w = 0
  BY <1>1, <1>4, Quotient
<1>6. Word \div q = w /\ Word % q = 0
  BY <1>1, <1>2, <1>4, Quotient
<1> QED BY <1>2, <1>3, <1>5, <1>6 DEF Divisors

\* A size is 1 or twice a size.
LEMMA Halves ==
    ASSUME NEW w \in Divisors, w # 1
    PROVE  w \div 2 \in Divisors /\ w = 2 * (w \div 2) /\ w \div 2 < w /\ w \div 2 \in Nat \ {0}
<1> DEFINE h == w \div 2  q == Word \div w
<1>1. w \in Nat \ {0} /\ w <= Word /\ q \in Nat \ {0} /\ w * q = Word /\ Word % w = 0
  BY DivisorParts DEF Divisors
<1>2. w % 2 = 0
  BY <1>1, WordAssumption
<1>3. h \in Nat \ {0} /\ w = 2 * h /\ h < w
  BY <1>1, <1>2
<1> HIDE DEF h, q
<1>4. h * (2 * q) = Word /\ 2 * q \in Nat
  BY <1>1, <1>3
<1>5. h \in Divisors
  BY <1>3, <1>4, MakeDivisor
<1> QED BY <1>3, <1>5 DEF h

\* Twice a size below Word is a size.
LEMMA Doubled ==
    ASSUME NEW w \in Divisors, w # Word
    PROVE  2 * w \in Divisors
<1> DEFINE q == Word \div w  h == q \div 2
<1>1. w \in Nat \ {0} /\ w <= Word /\ q \in Nat \ {0} /\ w * q = Word
  BY DivisorParts
<1>2. q \in Divisors
  <2> HIDE DEF q
  <2> QED BY <1>1, MakeDivisor
<1> HIDE DEF q
<1>3. q # 1
  BY <1>1
<1>4. q = 2 * h /\ h \in Nat
  BY <1>2, <1>3, Halves
<1> HIDE DEF h
<1>5. (2 * w) * h = Word
  BY <1>1, <1>4
<1>6. 2 * w \in Nat \ {0}
  BY <1>1
<1> QED BY <1>4, <1>5, <1>6, MakeDivisor

-----------------------------------------------------------------------------
(* Loops.  A loop of the code is a function of the number of its turns;    *)
(* that there is one is what makes its equation usable.                    *)

\* One turn of each loop: of _dictNextPower, of the walk through a chain that
\* moves its entries, of dictRehash, of rev, of the buckets dictScan expands, and
\* of the rehash steps of dictGetSomeKeys.
PowerTurn(n, p) == IF p >= n THEN p ELSE 2 * p
RehashTurn(p) ==
    IF p.out \/ p.d.ht[0].used = 0 THEN p
    ELSE IF NextFull(p.d) - p.d.rehashidx >= p.visits
         THEN [d |-> [p.d EXCEPT !.rehashidx = @ + p.visits], visits |-> 0, out |-> TRUE]
         ELSE [d |-> RehashBucket([p.d EXCEPT !.rehashidx = @ + (NextFull(p.d) - p.d.rehashidx)]),
               visits |-> p.visits - (NextFull(p.d) - p.d.rehashidx), out |-> FALSE]
RevTurn(g) ==
    [w \in 1 .. Word |->
       [v \in 0 .. Word - 1 |-> IF w = 1 THEN 0 ELSE (v % 2) * (w \div 2) + g[w \div 2][v \div 2]]]
Turn(loop, p, x) ==
    IF loop = "power" THEN PowerTurn(x, p)
    ELSE IF loop = "move" THEN AddFront(p, x)
    ELSE IF loop = "rehash" THEN RehashTurn(p)
    ELSE IF loop = "rev" THEN RevTurn(p)
    ELSE IF loop = "cursor" THEN NextCursor(p, x)
    ELSE RehashStep(p)

\* g is the state of a loop that starts at s after each of m turns.
Run(g, m, loop, s, x) == g = [k \in 0 .. m |-> IF k = 0 THEN s ELSE Turn(loop, g[k - 1], x[k])]

\* Every loop runs.
LEMMA LoopRuns ==
    ASSUME NEW loop, NEW s, NEW x, NEW n \in Nat
    PROVE  \E g : Run(g, n, loop, s, x)
<1> DEFINE S == {m \in Nat : \E g : Run(g, m, loop, s, x)}
<1>1. 0 \in S
  <2> DEFINE g == [k \in 0 .. 0 |-> s]
  <2>1. Run(g, 0, loop, s, x)
    BY DEF Run
  <2> QED BY <2>1
<1>2. ASSUME NEW m \in 1 .. n, m - 1 \in S PROVE m \in S
  <2>1. PICK g : Run(g, m - 1, loop, s, x)
    BY <1>2
  <2> DEFINE h == [k \in 0 .. m |-> IF k = m THEN Turn(loop, g[m - 1], x[m]) ELSE g[k]]
  <2>2. \A k \in 0 .. m : h[k] = IF k = 0 THEN s ELSE Turn(loop, h[k - 1], x[k])
    <3>1. \A k \in 0 .. m - 1 : h[k] = g[k] /\ k # m
      OBVIOUS
    <3>2. \A k \in 0 .. m - 1 : g[k] = IF k = 0 THEN s ELSE Turn(loop, g[k - 1], x[k])
      BY <2>1 DEF Run
    <3>3. h[m] = Turn(loop, g[m - 1], x[m]) /\ h[m - 1] = g[m - 1]
      OBVIOUS
    <3>4. \A k \in 1 .. m - 1 : k - 1 \in 0 .. m - 1
      OBVIOUS
    <3> HIDE DEF h
    <3> QED BY <3>1, <3>2, <3>3, <3>4
  <2>3. Run(h, m, loop, s, x)
    BY <2>2 DEF Run
  <2>4. m \in Nat
    OBVIOUS
  <2> HIDE DEF h
  <2> QED BY <2>3, <2>4
<1> HIDE DEF S
<1>3. n \in S
  <2>1. \A m \in 0 .. n : m \in S
    BY <1>1, <1>2, UpTo
  <2> QED BY <2>1
<1> QED BY <1>3 DEF S

LEMMA InitialDivides ==
    InitialSize \in Divisors /\ InitialSize <= Word
<1>1. /\ InitialSize \in Nat \ {0} /\ Word \in Nat \ {0} /\ Word % InitialSize = 0
  BY DictAssumption, WordAssumption
<1>2. Word = InitialSize * (Word \div InitialSize) /\ Word \div InitialSize \in Nat
  <2>1. Word = InitialSize * (Word \div InitialSize) + (Word % InitialSize) /\ Word \div InitialSize \in Nat
    BY <1>1, DivMod
  <2> QED BY <1>1, <2>1
<1>3. InitialSize \in Divisors
  BY <1>1, <1>2, MakeDivisor
<1> QED BY <1>3, DivisorParts

\* _dictNextPower gives a size that is positive, and enough, and that divides Word.
LEMMA NextPowerEnough ==
    ASSUME NEW n \in Nat
    PROVE  NextPower(n) \in Nat \ {0} /\ NextPower(n) >= n /\ (n <= Word => NextPower(n) \in Divisors)
<1> DEFINE go == CHOOSE g : g = [k \in 0 .. n |-> IF k = 0 THEN InitialSize ELSE PowerTurn(n, g[k - 1])]
<1>1. go = [k \in 0 .. n |-> IF k = 0 THEN InitialSize ELSE PowerTurn(n, go[k - 1])]
  <2>1. PICK g : Run(g, n, "power", InitialSize, [k \in 0 .. n |-> n])
    BY LoopRuns
  <2>2. g = [k \in 0 .. n |-> IF k = 0 THEN InitialSize ELSE PowerTurn(n, g[k - 1])]
    BY <2>1 DEF Run, Turn
  <2> QED BY <2>2, Zenon
<1>2. NextPower(n) = go[n]
  BY DEF NextPower, PowerTurn
<1> HIDE DEF go
<1> DEFINE S == {k \in 0 .. n : /\ go[k] \in Nat \ {0} /\ (go[k] >= n \/ go[k] > k)
                                /\ n <= Word => go[k] \in Divisors}
<1>3. 0 \in S
  <2>1. InitialSize \in Divisors
    BY InitialDivides
  <2> QED BY <1>1, <2>1, DictAssumption
<1>4. ASSUME NEW k \in 1 .. n, k - 1 \in S PROVE k \in S
  <2>1. go[k] = PowerTurn(n, go[k - 1])
    BY <1>1
  <2>2. ASSUME n <= Word PROVE go[k] \in Divisors
    <3>1. go[k - 1] \in Divisors
      BY <1>4, <2>2
    <3>2. CASE go[k - 1] >= n
      BY <2>1, <3>1, <3>2 DEF PowerTurn
    <3>3. CASE ~(go[k - 1] >= n)
      <4>1. go[k - 1] # Word
        BY <2>2, <3>3
      <4> QED BY <2>1, <3>1, <3>3, <4>1, Doubled DEF PowerTurn
    <3> QED BY <3>2, <3>3
  <2>3. go[k] \in Nat \ {0} /\ (go[k] >= n \/ go[k] > k)
    BY <1>4, <2>1 DEF PowerTurn
  <2> QED BY <2>2, <2>3
<1> HIDE DEF S
<1>5. n \in S
  BY <1>3, <1>4, UpTo
<1> QED BY <1>2, <1>5 DEF S

-----------------------------------------------------------------------------
(* Chains *)

Entry == [key : Keys, val : Vals]
ChainSet(c) == {c[j] : j \in DOMAIN c}
Home(k, n) == Hash[k] % n     \* the bucket of k in a table of n

\* The chain of bucket b of n: entries that belong there, each key once.
ChainOK(c, b, n) ==
    /\ c \in Seq(Entry)
    /\ \A j \in 1 .. Len(c) : Home(c[j].key, n) = b
    /\ \A i, j \in 1 .. Len(c) : c[i].key = c[j].key => i = j

\* Keys and entries of a chain.
LEMMA ChainParts ==
    ASSUME NEW c \in Seq(Entry)
    PROVE  /\ Len(c) \in Nat /\ DOMAIN c = 1 .. Len(c) /\ ChainSet(c) \subseteq Entry
           /\ \A j \in 1 .. Len(c) : c[j] \in Entry
           /\ ChainKeys(c) = {e.key : e \in ChainSet(c)} /\ ChainKeys(c) \subseteq Keys
           /\ c = <<>> <=> ChainSet(c) = {}
<1>1. Len(c) \in Nat /\ DOMAIN c = 1 .. Len(c) /\ \A j \in 1 .. Len(c) : c[j] \in Entry
  OBVIOUS
<1>2. ChainSet(c) \subseteq Entry
  BY <1>1 DEF ChainSet
<1>3. ChainKeys(c) = {e.key : e \in ChainSet(c)}
  BY DEF ChainKeys, ChainSet
<1>4. ChainKeys(c) \subseteq Keys
  BY <1>2, <1>3 DEF Entry
<1>5. ASSUME c # <<>> PROVE ChainSet(c) # {}
  <2>1. 1 \in DOMAIN c
    BY <1>5
  <2> QED BY <2>1 DEF ChainSet
<1>6. ASSUME c = <<>> PROVE ChainSet(c) = {}
  BY <1>6 DEF ChainSet
<1> QED BY <1>1, <1>2, <1>3, <1>4, <1>5, <1>6

\* An entry of a chain belongs to its bucket.
LEMMA ChainHome ==
    ASSUME NEW c, NEW b, NEW n, ChainOK(c, b, n), NEW e \in ChainSet(c)
    PROVE  Home(e.key, n) = b
<1>1. PICK j \in DOMAIN c : c[j] = e
  BY DEF ChainSet
<1>2. j \in 1 .. Len(c)
  BY DEF ChainOK
<1> QED BY <1>1, <1>2 DEF ChainOK

\* An entry with a new key goes to the front.
LEMMA ChainPut ==
    ASSUME NEW c, NEW b, NEW n, ChainOK(c, b, n), NEW e \in Entry,
           Home(e.key, n) = b, e.key \notin ChainKeys(c)
    PROVE  ChainOK(<<e>> \o c, b, n) /\ ChainSet(<<e>> \o c) = ChainSet(c) \cup {e}
<1> DEFINE d == <<e>> \o c
<1>1. c \in Seq(Entry) /\ Len(c) \in Nat
  BY DEF ChainOK
<1>2. d \in Seq(Entry) /\ Len(d) = Len(c) + 1 /\ d[1] = e /\ \A j \in 1 .. Len(c) : d[j + 1] = c[j]
  BY <1>1
<1> HIDE DEF d
<1>3. \A j \in 1 .. Len(d) : j = 1 \/ (j - 1 \in 1 .. Len(c) /\ d[j] = c[j - 1])
  BY <1>1, <1>2
<1>4. \A j \in 1 .. Len(c) : c[j].key # e.key
  BY <1>1 DEF ChainKeys
<1>5. \A j \in 1 .. Len(d) : Home(d[j].key, n) = b
  <2>1. \A j \in 1 .. Len(c) : Home(c[j].key, n) = b
    BY DEF ChainOK
  <2>2. d[1] = e
    BY <1>2
  <2> QED BY <1>3, <2>1, <2>2
<1>6. ASSUME NEW i \in 1 .. Len(d), NEW j \in 1 .. Len(d), d[i].key = d[j].key PROVE i = j
  <2>1. CASE i = 1 /\ j = 1
    BY <2>1
  <2>2. CASE i = 1 /\ j # 1
    BY <1>2, <1>3, <1>4, <1>6, <2>2
  <2>3. CASE i # 1 /\ j = 1
    BY <1>2, <1>3, <1>4, <1>6, <2>3
  <2>4. CASE i # 1 /\ j # 1
    <3>1. i - 1 = j - 1
      BY <1>3, <1>6, <2>4 DEF ChainOK
    <3> QED BY <3>1
  <2> QED BY <2>1, <2>2, <2>3, <2>4
<1>7. DOMAIN d = 1 .. Len(c) + 1 /\ DOMAIN c = 1 .. Len(c)
  BY <1>1, <1>2
<1>8. \A j \in 1 .. Len(c) : j + 1 \in 1 .. Len(c) + 1
  BY <1>1
<1>9. ChainSet(d) = ChainSet(c) \cup {e}
  <2>1. ASSUME NEW x \in ChainSet(d) PROVE x \in ChainSet(c) \cup {e}
    <3>1. PICK j \in 1 .. Len(d) : x = d[j]
      BY <1>2, <1>7 DEF ChainSet
    <3> QED BY <1>2, <1>3, <1>7, <3>1 DEF ChainSet
  <2>2. ASSUME NEW x \in ChainSet(c) PROVE x \in ChainSet(d)
    <3>1. PICK j \in 1 .. Len(c) : x = c[j]
      BY <1>7 DEF ChainSet
    <3>2. j + 1 \in DOMAIN d /\ d[j + 1] = x
      BY <1>2, <1>7, <1>8, <3>1
    <3> QED BY <3>2 DEF ChainSet
  <2>3. e \in ChainSet(d)
    <3>1. 1 \in DOMAIN d
      BY <1>1, <1>7
    <3> QED BY <1>2, <3>1 DEF ChainSet
  <2> QED BY <2>1, <2>2, <2>3
<1> QED BY <1>2, <1>5, <1>6, <1>9 DEF ChainOK, d

\* The entries behind the one of a key move up when it is taken out.
LEMMA ChainCut ==
    ASSUME NEW c, NEW b, NEW n, ChainOK(c, b, n), NEW k \in ChainKeys(c), NEW x, x = IndexOf(c, k),
           NEW d, d = RemoveAt(c, x)
    PROVE  /\ x \in 1 .. Len(c) /\ c[x].key = k /\ \A j \in 1 .. Len(c) : j # x => c[j].key # k
           /\ d \in Seq(Entry) /\ Len(d) = Len(c) - 1
           /\ \A j \in 1 .. Len(c) - 1 : d[j] = IF j < x THEN c[j] ELSE c[j + 1]
<1>1. c \in Seq(Entry) /\ Len(c) \in Nat /\ DOMAIN c = 1 .. Len(c) /\ \A j \in 1 .. Len(c) : c[j] \in Entry
  BY DEF ChainOK
<1>2. x \in 1 .. Len(c) /\ c[x].key = k
  BY <1>1 DEF ChainKeys, IndexOf
<1>3. \A j \in 1 .. Len(c) : j # x => c[j].key # k
  BY <1>2 DEF ChainOK
<1> DEFINE s == SubSeq(c, 1, x - 1)
           t == SubSeq(c, x + 1, Len(c))
<1>4. s \in Seq(Entry) /\ Len(s) = x - 1 /\ \A j \in 1 .. x - 1 : s[j] = c[j]
  BY <1>1, <1>2
<1>5. t \in Seq(Entry) /\ Len(t) = Len(c) - x /\ \A j \in 1 .. Len(c) - x : t[j] = c[x + j]
  <2>1. \A i \in x + 1 .. Len(c) : c[i] \in Entry
    BY <1>1, <1>2
  <2>2. /\ t \in Seq(Entry) /\ Len(t) = (IF x + 1 <= Len(c) THEN Len(c) - (x + 1) + 1 ELSE 0)
        /\ \A j \in 1 .. Len(c) - (x + 1) + 1 : t[j] = c[x + 1 + j - 1]
    BY <1>1, <1>2, <2>1, SubSeqProperties
  <2> HIDE DEF t
  <2>3. Len(c) - (x + 1) + 1 = Len(c) - x /\ Len(t) = Len(c) - x
    <3>1. x \in Nat /\ x <= Len(c) /\ Len(c) \in Nat
      BY <1>1, <1>2
    <3>2. Len(t) = IF x + 1 <= Len(c) THEN Len(c) - (x + 1) + 1 ELSE 0
      BY <2>2
    <3> QED BY <3>1, <3>2
  <2>4. ASSUME NEW j \in 1 .. Len(c) - x PROVE t[j] = c[x + j]
    <3>1. t[j] = c[x + 1 + j - 1] /\ x + 1 + j - 1 = x + j
      <4>1. j \in 1 .. Len(c) - (x + 1) + 1
        BY <2>3
      <4>2. x + 1 + j - 1 = x + j
        BY <1>1, <1>2
      <4> QED BY <2>2, <4>1, <4>2
    <3> QED BY <3>1
  <2> QED BY <2>2, <2>3, <2>4
<1>6. d = s \o t
  BY DEF RemoveAt
<1> HIDE DEF s, t
<1>7. /\ d \in Seq(Entry) /\ Len(d) = Len(c) - 1
      /\ \A j \in 1 .. Len(c) - 1 : d[j] = IF j < x THEN c[j] ELSE c[j + 1]
  <2>1. d \in Seq(Entry) /\ Len(d) = Len(s) + Len(t)
    BY <1>4, <1>5, <1>6, ConcatProperties
  <2>2. \A j \in 1 .. Len(s) + Len(t) : d[j] = IF j <= Len(s) THEN s[j] ELSE t[j - Len(s)]
    BY <1>4, <1>5, <1>6, ConcatProperties
  <2>3. ASSUME NEW j \in 1 .. Len(c) - 1 PROVE d[j] = IF j < x THEN c[j] ELSE c[j + 1]
    <3>1. j \in 1 .. Len(s) + Len(t)
      BY <1>1, <1>2, <1>4, <1>5
    <3>2. CASE j < x
      BY <1>1, <1>2, <1>4, <2>2, <3>1, <3>2
    <3>3. CASE ~(j < x)
      <4>1. j - Len(s) \in 1 .. Len(c) - x /\ ~(j <= Len(s)) /\ x + (j - Len(s)) = j + 1
        BY <1>1, <1>2, <1>4, <3>3
      <4>2. d[j] = t[j - Len(s)]
        BY <2>2, <3>1, <4>1
      <4>3. t[j - Len(s)] = c[j + 1]
        BY <1>5, <4>1
      <4> QED BY <3>3, <4>2, <4>3
    <3> QED BY <3>2, <3>3
  <2> QED BY <1>1, <1>2, <1>4, <1>5, <2>1, <2>3
<1> QED BY <1>2, <1>3, <1>7

\* The entry of a key is taken out.
LEMMA ChainDrop ==
    ASSUME NEW c, NEW b, NEW n, ChainOK(c, b, n), NEW k \in ChainKeys(c)
    PROVE  /\ ChainOK(RemoveAt(c, IndexOf(c, k)), b, n)
           /\ ChainSet(RemoveAt(c, IndexOf(c, k))) = {e \in ChainSet(c) : e.key # k}
<1> DEFINE x == IndexOf(c, k)
           d == RemoveAt(c, x)
<1>1. c \in Seq(Entry) /\ Len(c) \in Nat /\ DOMAIN c = 1 .. Len(c) /\ \A j \in 1 .. Len(c) : c[j] \in Entry
  BY DEF ChainOK
<1>d. x = IndexOf(c, k) /\ d = RemoveAt(c, x)
  OBVIOUS
<1> HIDE DEF x, d
<1>2. x \in 1 .. Len(c) /\ c[x].key = k
  BY <1>d, ChainCut
<1>3. \A j \in 1 .. Len(c) : j # x => c[j].key # k
  BY <1>d, ChainCut
<1>7. /\ d \in Seq(Entry) /\ Len(d) = Len(c) - 1
      /\ \A j \in 1 .. Len(c) - 1 : d[j] = IF j < x THEN c[j] ELSE c[j + 1]
  BY <1>d, ChainCut
<1> DEFINE at(j) == IF j < x THEN j ELSE j + 1
<1>8. \A j \in 1 .. Len(d) : at(j) \in 1 .. Len(c) /\ at(j) # x /\ d[j] = c[at(j)]
  BY <1>1, <1>2, <1>7
<1>9. \A i, j \in 1 .. Len(d) : at(i) = at(j) => i = j
  BY <1>1, <1>2, <1>7
<1>10. \A i \in 1 .. Len(c) : i # x => \E j \in 1 .. Len(d) : d[j] = c[i]
  <2> SUFFICES ASSUME NEW i \in 1 .. Len(c), i # x PROVE \E j \in 1 .. Len(d) : d[j] = c[i]
    OBVIOUS
  <2>1. CASE i < x
    <3>1. i \in 1 .. Len(d) /\ d[i] = c[i]
      BY <1>1, <1>2, <1>7, <2>1
    <3> QED BY <3>1
  <2>2. CASE i > x
    <3>1. i - 1 \in 1 .. Len(d) /\ d[i - 1] = c[i]
      BY <1>1, <1>2, <1>7, <2>2
    <3> QED BY <3>1
  <2> QED BY <1>2, <2>1, <2>2
<1>11. DOMAIN d = 1 .. Len(d)
  BY <1>7
<1> HIDE DEF at
<1>12. ChainOK(d, b, n)
  BY <1>7, <1>8, <1>9 DEF ChainOK
<1>13. ChainSet(d) = {e \in ChainSet(c) : e.key # k}
  <2>1. ASSUME NEW e \in ChainSet(d) PROVE e \in ChainSet(c) /\ e.key # k
    <3>1. PICK j \in 1 .. Len(d) : e = d[j]
      BY <1>11 DEF ChainSet
    <3> QED BY <1>1, <1>3, <1>8, <3>1 DEF ChainSet
  <2>2. ASSUME NEW e \in ChainSet(c), e.key # k PROVE e \in ChainSet(d)
    <3>1. PICK i \in 1 .. Len(c) : e = c[i]
      BY <1>1 DEF ChainSet
    <3>2. i # x
      BY <1>2, <2>2, <3>1
    <3>3. PICK j \in 1 .. Len(d) : d[j] = c[i]
      BY <1>10, <3>2
    <3> QED BY <1>11, <3>1, <3>3 DEF ChainSet
  <2> QED BY <2>1, <2>2
<1> QED BY <1>12, <1>13, <1>d

\* The entry of a key gets another value.
LEMMA ChainSetVal ==
    ASSUME NEW c, NEW b, NEW n, ChainOK(c, b, n), NEW k \in Keys, NEW v \in Vals, NEW d,
           d = [j \in DOMAIN c |-> IF c[j].key = k THEN [key |-> k, val |-> v] ELSE c[j]]
    PROVE  /\ ChainOK(d, b, n) /\ ChainKeys(d) = ChainKeys(c)
           /\ k \in ChainKeys(c) => ChainSet(d) = {e \in ChainSet(c) : e.key # k} \cup {[key |-> k, val |-> v]}
<1>1. c \in Seq(Entry) /\ Len(c) \in Nat /\ DOMAIN c = 1 .. Len(c) /\ \A j \in 1 .. Len(c) : c[j] \in Entry
  BY DEF ChainOK
<1>2. \A j \in 1 .. Len(c) : d[j] \in Entry /\ d[j].key = c[j].key
  BY <1>1 DEF Entry
<1>3. d \in Seq(Entry) /\ Len(d) = Len(c) /\ DOMAIN d = 1 .. Len(c)
  <2>1. d \in [1 .. Len(c) -> Entry]
    BY <1>1, <1>2
  <2> QED BY <1>1, <2>1
<1>4. ChainOK(d, b, n)
  BY <1>2, <1>3 DEF ChainOK
<1>5. ChainKeys(d) = ChainKeys(c)
  BY <1>1, <1>2, <1>3 DEF ChainKeys
<1>6. ASSUME k \in ChainKeys(c) PROVE ChainSet(d) = {e \in ChainSet(c) : e.key # k} \cup {[key |-> k, val |-> v]}
  <2>1. PICK x \in 1 .. Len(c) : c[x].key = k
    BY <1>1, <1>6 DEF ChainKeys
  <2>2. d[x] = [key |-> k, val |-> v] /\ \A j \in 1 .. Len(c) : c[j].key # k => d[j] = c[j]
    BY <1>1, <2>1
  <2>3. \A j \in 1 .. Len(c) : c[j].key = k => d[j] = [key |-> k, val |-> v]
    BY <1>1
  <2> QED BY <1>1, <1>3, <2>1, <2>2, <2>3 DEF ChainSet
<1> QED BY <1>4, <1>5, <1>6

-----------------------------------------------------------------------------
(* Tables *)

Rows(n) == [0 .. n - 1 -> Seq(Entry)]
Buckets == UNION {Rows(n) : n \in Nat}
Tables == [used : Nat, table : Buckets]
Ents(t) == UNION {ChainSet(t.table[b]) : b \in DOMAIN t.table}

\* Every entry is in its bucket, each key once, and the count is exact.
Chained(t) == \A b \in 0 .. Size(t) - 1 : ChainOK(t.table[b], b, Size(t))
Good(t) == t \in Tables /\ Chained(t) /\ t.used = Cardinality(TableKeys(t))

\* A table is made of its buckets, numbered from 0.
TableOf(u, f) == [used |-> u, table |-> f]

LEMMA MakeTable ==
    ASSUME NEW n \in Nat, NEW f \in Rows(n), NEW u \in Nat, NEW t, t = TableOf(u, f)
    PROVE  t \in Tables /\ Size(t) = n /\ t.table = f /\ t.used = u
<1>1. f \in Buckets
  BY DEF Buckets
<1>2. DOMAIN t.table = 0 .. n - 1
  BY DEF TableOf, Rows
<1>3. Cardinality(0 .. n - 1) = n
  <2>1. Cardinality(0 .. n - 1) = IF 0 > n - 1 THEN 0 ELSE n - 1 - 0 + 1
    BY FS_Interval
  <2> QED BY <2>1
<1> QED BY <1>1, <1>2, <1>3 DEF Tables, Size, TableOf

LEMMA TableParts ==
    ASSUME NEW t \in Tables
    PROVE  /\ Size(t) \in Nat /\ t.table \in [0 .. Size(t) - 1 -> Seq(Entry)] /\ t.used \in Nat
           /\ DOMAIN t.table = 0 .. Size(t) - 1
           /\ t = [used |-> t.used, table |-> t.table]
           /\ \A b \in 0 .. Size(t) - 1 : t.table[b] \in Seq(Entry)
<1>1. t.used \in Nat /\ t.table \in Buckets /\ t = [used |-> t.used, table |-> t.table]
  BY DEF Tables
<1>2. PICK n \in Nat : t.table \in Rows(n)
  BY <1>1 DEF Buckets
<1>3. Size(t) = n
  BY <1>1, <1>2, MakeTable DEF TableOf
<1> QED BY <1>1, <1>2, <1>3 DEF Rows

\* Where a key belongs.
LEMMA HomeIn ==
    ASSUME NEW k \in Keys, NEW n \in Nat \ {0}
    PROVE  Home(k, n) \in 0 .. n - 1
<1>1. Hash[k] \in Nat
  BY DictAssumption
<1> QED BY <1>1 DEF Home

\* Keys and entries of a table.
LEMMA TableSets ==
    ASSUME NEW t \in Tables
    PROVE  /\ Ents(t) \subseteq Entry /\ TableKeys(t) = {e.key : e \in Ents(t)}
           /\ TableKeys(t) \subseteq Keys /\ IsFiniteSet(TableKeys(t)) /\ Cardinality(TableKeys(t)) \in Nat
           /\ TableKeys(t) = {} <=> Ents(t) = {}
<1>1. \A b \in DOMAIN t.table : t.table[b] \in Seq(Entry)
  BY TableParts
<1>2. \A b \in DOMAIN t.table : /\ ChainSet(t.table[b]) \subseteq Entry
                                /\ ChainKeys(t.table[b]) = {e.key : e \in ChainSet(t.table[b])}
  BY <1>1, ChainParts
<1>3. Ents(t) \subseteq Entry
  BY <1>2 DEF Ents
<1>4. TableKeys(t) = {e.key : e \in Ents(t)}
  <2>1. ASSUME NEW k \in TableKeys(t) PROVE \E e \in Ents(t) : e.key = k
    <3>1. PICK b \in DOMAIN t.table : k \in ChainKeys(t.table[b])
      BY DEF TableKeys
    <3>2. PICK e \in ChainSet(t.table[b]) : e.key = k
      BY <1>2, <3>1
    <3> QED BY <3>1, <3>2 DEF Ents
  <2>2. ASSUME NEW e \in Ents(t) PROVE e.key \in TableKeys(t)
    <3>1. PICK b \in DOMAIN t.table : e \in ChainSet(t.table[b])
      BY DEF Ents
    <3>2. e.key \in ChainKeys(t.table[b])
      BY <1>2, <3>1
    <3> QED BY <3>1, <3>2 DEF TableKeys
  <2> QED BY <2>1, <2>2
<1>5. TableKeys(t) \subseteq Keys
  BY <1>3, <1>4 DEF Entry
<1>6. IsFiniteSet(TableKeys(t)) /\ Cardinality(TableKeys(t)) \in Nat
  BY <1>5, DictAssumption, FS_Subset, FS_CardinalityType
<1>7. TableKeys(t) = {} <=> Ents(t) = {}
  BY <1>4
<1> QED BY <1>3, <1>4, <1>5, <1>6, <1>7

\* An entry is in the bucket of its key, and no other entry has the key.
LEMMA InItsBucket ==
    ASSUME NEW t \in Tables, Chained(t), NEW e \in Ents(t)
    PROVE  /\ e \in Entry /\ Size(t) \in Nat \ {0} /\ Home(e.key, Size(t)) \in 0 .. Size(t) - 1
           /\ e \in ChainSet(t.table[Home(e.key, Size(t))])
           /\ \A f \in Ents(t) : f.key = e.key => f = e
<1>0. Size(t) \in Nat /\ DOMAIN t.table = 0 .. Size(t) - 1 /\ Ents(t) \subseteq Entry
  BY TableParts, TableSets
<1>1. ASSUME NEW f \in Ents(t)
      PROVE  \E b \in 0 .. Size(t) - 1 :
               Home(f.key, Size(t)) = b /\ \E j \in 1 .. Len(t.table[b]) : t.table[b][j] = f
  <2>1. PICK b \in 0 .. Size(t) - 1 : f \in ChainSet(t.table[b])
    BY <1>0, <1>1 DEF Ents
  <2>2. ChainOK(t.table[b], b, Size(t))
    BY DEF Chained
  <2>3. PICK j \in 1 .. Len(t.table[b]) : t.table[b][j] = f
    BY <2>1, <2>2, ChainParts DEF ChainSet, ChainOK
  <2>4. Home(f.key, Size(t)) = b
    BY <2>2, <2>3 DEF ChainOK
  <2> QED BY <2>3, <2>4
<1>2. PICK b \in 0 .. Size(t) - 1 :
        Home(e.key, Size(t)) = b /\ \E j \in 1 .. Len(t.table[b]) : t.table[b][j] = e
  BY <1>1
<1>3. ChainOK(t.table[b], b, Size(t)) /\ t.table[b] \in Seq(Entry)
  BY DEF Chained, ChainOK
<1>4. e \in ChainSet(t.table[b])
  BY <1>2, <1>3, ChainParts DEF ChainSet
<1>5. ASSUME NEW f \in Ents(t), f.key = e.key PROVE f = e
  <2>1. PICK j \in 1 .. Len(t.table[b]) : t.table[b][j] = e
    BY <1>2
  <2>2. PICK i \in 1 .. Len(t.table[b]) : t.table[b][i] = f
    BY <1>1, <1>2, <1>5
  <2>3. i = j
    BY <1>3, <1>5, <2>1, <2>2 DEF ChainOK
  <2> QED BY <2>1, <2>2, <2>3
<1>6. Size(t) # 0
  BY <1>0, <1>2
<1> QED BY <1>0, <1>2, <1>4, <1>5, <1>6

\* A key is looked up in one bucket.
LEMMA LookedUp ==
    ASSUME NEW t \in Tables, Chained(t), Size(t) # 0, NEW k \in Keys
    PROVE  /\ Home(k, Size(t)) \in 0 .. Size(t) - 1
           /\ k \in ChainKeys(t.table[Home(k, Size(t))]) <=> k \in TableKeys(t)
<1> DEFINE b == Home(k, Size(t))
<1>1. b \in 0 .. Size(t) - 1
  BY TableParts, HomeIn
<1>2. t.table[b] \in Seq(Entry) /\ b \in DOMAIN t.table
  BY <1>1, TableParts
<1>3. ASSUME k \in ChainKeys(t.table[b]) PROVE k \in TableKeys(t)
  BY <1>2, <1>3 DEF TableKeys
<1>4. ASSUME k \in TableKeys(t) PROVE k \in ChainKeys(t.table[b])
  <2>1. PICK e \in Ents(t) : e.key = k
    BY <1>4, TableSets
  <2>2. e \in ChainSet(t.table[b])
    BY <2>1, InItsBucket
  <2> QED BY <1>2, <2>1, <2>2, ChainParts
<1> QED BY <1>1, <1>3, <1>4

\* One bucket is replaced.
Replaced(t, b, c, u) == [used |-> u, table |-> [t.table EXCEPT ![b] = c]]

LEMMA Replace ==
    ASSUME NEW t \in Tables, Chained(t), NEW b \in 0 .. Size(t) - 1, NEW c, ChainOK(c, b, Size(t)), NEW u \in Nat
    PROVE  /\ Replaced(t, b, c, u) \in Tables /\ Size(Replaced(t, b, c, u)) = Size(t)
           /\ Chained(Replaced(t, b, c, u)) /\ Replaced(t, b, c, u).used = u
           /\ Replaced(t, b, c, u).table[b] = c
           /\ \A a \in 0 .. Size(t) - 1 : a # b => Replaced(t, b, c, u).table[a] = t.table[a]
           /\ Ents(Replaced(t, b, c, u)) = (Ents(t) \ ChainSet(t.table[b])) \cup ChainSet(c)
<1> DEFINE r == Replaced(t, b, c, u)
           f == [t.table EXCEPT ![b] = c]
<1>0. Size(t) \in Nat /\ t.table \in [0 .. Size(t) - 1 -> Seq(Entry)] /\ c \in Seq(Entry)
  BY TableParts DEF ChainOK
<1>1. f \in [0 .. Size(t) - 1 -> Seq(Entry)] /\ f[b] = c /\ \A a \in 0 .. Size(t) - 1 : a # b => f[a] = t.table[a]
  BY <1>0
<1>r. r = TableOf(u, f)
  BY DEF Replaced, TableOf
<1> HIDE DEF r, f
<1>2. r \in Tables /\ Size(r) = Size(t) /\ r.table = f /\ r.used = u
  <2>1. f \in Rows(Size(t))
    BY <1>1 DEF Rows
  <2> QED BY <1>0, <1>r, <2>1, MakeTable
<1>3. Chained(r)
  BY <1>1, <1>2 DEF Chained
<1>4. DOMAIN r.table = 0 .. Size(t) - 1 /\ DOMAIN t.table = 0 .. Size(t) - 1
  BY <1>2, TableParts
<1>5. ASSUME NEW e \in Ents(r) PROVE e \in (Ents(t) \ ChainSet(t.table[b])) \cup ChainSet(c)
  <2>1. PICK a \in 0 .. Size(t) - 1 : e \in ChainSet(r.table[a])
    BY <1>4, <1>5 DEF Ents
  <2>2. CASE a = b
    BY <1>1, <1>2, <2>1, <2>2
  <2>3. CASE a # b
    <3>1. e \in ChainSet(t.table[a]) /\ e \in Ents(t)
      BY <1>1, <1>2, <1>4, <2>1, <2>3 DEF Ents
    <3>2. Home(e.key, Size(t)) = a
      <4>1. ChainOK(t.table[a], a, Size(t))
        BY DEF Chained
      <4> QED BY <3>1, <4>1, ChainHome
    <3>3. ASSUME e \in ChainSet(t.table[b]) PROVE FALSE
      <4>1. ChainOK(t.table[b], b, Size(t))
        BY DEF Chained
      <4>2. Home(e.key, Size(t)) = b
        BY <3>3, <4>1, ChainHome
      <4> QED BY <2>3, <3>2, <4>2
    <3> QED BY <3>1, <3>3
  <2> QED BY <2>2, <2>3
<1>6. ASSUME NEW e \in Ents(t), e \notin ChainSet(t.table[b]) PROVE e \in Ents(r)
  <2>1. PICK a \in 0 .. Size(t) - 1 : e \in ChainSet(t.table[a])
    BY <1>4, <1>6 DEF Ents
  <2>2. e \in ChainSet(r.table[a])
    BY <1>1, <1>2, <1>6, <2>1
  <2> QED BY <1>4, <2>2 DEF Ents
<1>7. ASSUME NEW e \in ChainSet(c) PROVE e \in Ents(r)
  BY <1>1, <1>2, <1>4, <1>7 DEF Ents
<1>8. Ents(r) = (Ents(t) \ ChainSet(t.table[b])) \cup ChainSet(c)
  BY <1>5, <1>6, <1>7
<1> QED BY <1>1, <1>2, <1>3, <1>8 DEF r

\* Keys of a table whose entries are those of another and one more.
LEMMA KeysAdded ==
    ASSUME NEW t \in Tables, NEW r \in Tables, NEW e, Ents(r) = Ents(t) \cup {e}
    PROVE  TableKeys(r) = TableKeys(t) \cup {e.key}
<1>1. TableKeys(t) = {f.key : f \in Ents(t)} /\ TableKeys(r) = {f.key : f \in Ents(r)}
  BY TableSets
<1> QED BY <1>1

\* dictAddRaw and the rehashing put an entry at the front of its bucket.
LEMMA TablePut ==
    ASSUME NEW t, Good(t), Size(t) # 0, NEW e \in Entry, e.key \notin TableKeys(t)
    PROVE  /\ Good(AddFront(t, e)) /\ Size(AddFront(t, e)) = Size(t)
           /\ Ents(AddFront(t, e)) = Ents(t) \cup {e}
           /\ TableKeys(AddFront(t, e)) = TableKeys(t) \cup {e.key}
           /\ AddFront(t, e).used = t.used + 1
<1> DEFINE b == Home(e.key, Size(t))
           c == t.table[b]
           r == Replaced(t, b, <<e>> \o c, t.used + 1)
<1>0. t \in Tables /\ Chained(t) /\ t.used = Cardinality(TableKeys(t)) /\ e.key \in Keys
  BY DEF Good, Entry
<1>1. b \in 0 .. Size(t) - 1 /\ e.key \notin ChainKeys(c)
  BY <1>0, LookedUp
<1>2. ChainOK(c, b, Size(t)) /\ c \in Seq(Entry)
  BY <1>0, <1>1 DEF Chained, ChainOK
<1>3. AddFront(t, e) = r
  BY DEF AddFront, Bucket, Home, Replaced
<1> DEFINE d == <<e>> \o c
<1>4. ChainOK(d, b, Size(t)) /\ ChainSet(d) = ChainSet(c) \cup {e}
  BY <1>1, <1>2, ChainPut
<1>5. t.used + 1 \in Nat
  BY <1>0, TableParts
<1>6. c = t.table[b] /\ r = Replaced(t, b, d, t.used + 1)
  OBVIOUS
<1> HIDE DEF b, c, d, r
<1>7. /\ r \in Tables /\ Size(r) = Size(t) /\ Chained(r) /\ r.used = t.used + 1
      /\ Ents(r) = (Ents(t) \ ChainSet(c)) \cup ChainSet(d)
  BY <1>0, <1>1, <1>4, <1>5, <1>6, Replace
<1>8. ChainSet(c) \subseteq Ents(t)
  BY <1>0, <1>1, <1>6, TableParts DEF Ents
<1>9. Ents(r) = Ents(t) \cup {e}
  BY <1>4, <1>7, <1>8
<1>10. TableKeys(r) = TableKeys(t) \cup {e.key}
  BY <1>0, <1>7, <1>9, KeysAdded
<1>11. Cardinality(TableKeys(t) \cup {e.key}) = Cardinality(TableKeys(t)) + 1
  BY <1>0, TableSets, FS_AddElement
<1>12. Good(r)
  BY <1>0, <1>7, <1>10, <1>11 DEF Good
<1> QED BY <1>3, <1>7, <1>9, <1>10, <1>12

\* The table with the value of a key set.
Revalued(t, k, v) == LET b == Home(k, Size(t))  c == t.table[b] IN
    Replaced(t, b, [j \in DOMAIN c |-> IF c[j].key = k THEN [key |-> k, val |-> v] ELSE c[j]], t.used)

\* dictGenericDelete unlinks the entry of a key.
LEMMA TableDrop ==
    ASSUME NEW t, Good(t), NEW k \in TableKeys(t)
    PROVE  /\ Good(TakeOut(t, k)) /\ Size(TakeOut(t, k)) = Size(t)
           /\ Ents(TakeOut(t, k)) = {e \in Ents(t) : e.key # k}
           /\ TableKeys(TakeOut(t, k)) = TableKeys(t) \ {k}
<1> DEFINE b == Home(k, Size(t))
           c == t.table[b]
           d == RemoveAt(c, IndexOf(c, k))
           r == TakeOut(t, k)
<1>0. t \in Tables /\ Chained(t) /\ t.used = Cardinality(TableKeys(t)) /\ k \in Keys
  BY TableSets DEF Good
<1>1. PICK x \in Ents(t) : x.key = k
  BY <1>0, TableSets
<1>2. Size(t) # 0
  BY <1>0, <1>1, InItsBucket
<1>3. b \in 0 .. Size(t) - 1 /\ k \in ChainKeys(c)
  BY <1>0, <1>2, LookedUp
<1>4. ChainOK(c, b, Size(t))
  BY <1>0, <1>3 DEF Chained
<1>5. ChainOK(d, b, Size(t)) /\ ChainSet(d) = {e \in ChainSet(c) : e.key # k}
  BY <1>3, <1>4, ChainDrop
<1>6. Cardinality(TableKeys(t) \ {k}) = Cardinality(TableKeys(t)) - 1 /\ t.used - 1 \in Nat
  <2>1. /\ Cardinality(TableKeys(t) \ {k}) = Cardinality(TableKeys(t)) - 1
        /\ IsFiniteSet(TableKeys(t) \ {k})
    BY <1>0, TableSets, FS_RemoveElement
  <2> QED BY <1>0, <2>1, FS_CardinalityType
<1>7. c = t.table[b] /\ r = Replaced(t, b, d, t.used - 1)
  BY DEF TakeOut, Bucket, Home, Replaced
<1>8. \A e \in Ents(t) : e.key = k => e \in ChainSet(c)
  BY <1>0, InItsBucket
<1> HIDE DEF b, c, d, r
<1>9. /\ r \in Tables /\ Size(r) = Size(t) /\ Chained(r) /\ r.used = t.used - 1
      /\ Ents(r) = (Ents(t) \ ChainSet(c)) \cup ChainSet(d)
  BY <1>0, <1>3, <1>5, <1>6, <1>7, Replace
<1>10. ChainSet(c) \subseteq Ents(t)
  BY <1>0, <1>3, <1>7, TableParts DEF Ents
<1>11. Ents(r) = {e \in Ents(t) : e.key # k}
  BY <1>5, <1>8, <1>9, <1>10
<1>12. TableKeys(r) = TableKeys(t) \ {k}
  <2>1. TableKeys(t) = {f.key : f \in Ents(t)} /\ TableKeys(r) = {f.key : f \in Ents(r)}
    BY <1>0, <1>9, TableSets
  <2> QED BY <1>11, <2>1
<1>13. Good(r)
  BY <1>0, <1>6, <1>9, <1>12 DEF Good
<1> QED BY <1>9, <1>11, <1>12, <1>13 DEF r

\* dictReplace sets the value of a key that is there.
LEMMA TableRevalue ==
    ASSUME NEW t, Good(t), NEW k \in TableKeys(t), NEW v \in Vals
    PROVE  /\ Good(Revalued(t, k, v)) /\ Size(Revalued(t, k, v)) = Size(t)
           /\ Ents(Revalued(t, k, v)) = {e \in Ents(t) : e.key # k} \cup {[key |-> k, val |-> v]}
           /\ TableKeys(Revalued(t, k, v)) = TableKeys(t)
<1> DEFINE b == Home(k, Size(t))
           c == t.table[b]
           d == [j \in DOMAIN c |-> IF c[j].key = k THEN [key |-> k, val |-> v] ELSE c[j]]
           r == Revalued(t, k, v)
           x == [key |-> k, val |-> v]
<1>0. t \in Tables /\ Chained(t) /\ t.used = Cardinality(TableKeys(t)) /\ k \in Keys /\ t.used \in Nat
  BY TableSets DEF Good
<1>1. PICK y \in Ents(t) : y.key = k
  BY <1>0, TableSets
<1>2. Size(t) # 0
  BY <1>0, <1>1, InItsBucket
<1>3. b \in 0 .. Size(t) - 1 /\ k \in ChainKeys(c)
  BY <1>0, <1>2, LookedUp
<1>4. ChainOK(c, b, Size(t))
  BY <1>0, <1>3 DEF Chained
<1>5. ChainOK(d, b, Size(t)) /\ ChainSet(d) = {e \in ChainSet(c) : e.key # k} \cup {x}
  BY <1>0, <1>3, <1>4, ChainSetVal
<1>7. c = t.table[b] /\ r = Replaced(t, b, d, t.used) /\ x.key = k
  BY DEF Revalued
<1>8. \A e \in Ents(t) : e.key = k => e \in ChainSet(c)
  BY <1>0, InItsBucket
<1> HIDE DEF b, c, d, r, x
<1>9. /\ r \in Tables /\ Size(r) = Size(t) /\ Chained(r) /\ r.used = t.used
      /\ Ents(r) = (Ents(t) \ ChainSet(c)) \cup ChainSet(d)
  BY <1>0, <1>3, <1>5, <1>7, Replace
<1>10. ChainSet(c) \subseteq Ents(t)
  BY <1>0, <1>3, <1>7, TableParts DEF Ents
<1>11. Ents(r) = {e \in Ents(t) : e.key # k} \cup {x}
  BY <1>5, <1>8, <1>9, <1>10
<1>12. TableKeys(r) = TableKeys(t)
  <2>1. TableKeys(t) = {f.key : f \in Ents(t)} /\ TableKeys(r) = {f.key : f \in Ents(r)}
    BY <1>0, <1>9, TableSets
  <2>2. \A q \in TableKeys(t) : q \in TableKeys(r)
    BY <1>7, <1>11, <2>1
  <2>3. \A q \in TableKeys(r) : q \in TableKeys(t)
    BY <1>7, <1>11, <2>1
  <2> QED BY <2>2, <2>3
<1>13. Good(r)
  BY <1>0, <1>9, <1>12 DEF Good
<1> QED BY <1>9, <1>11, <1>12, <1>13 DEF r, x

\* A new table is empty.
LEMMA TableNew ==
    ASSUME NEW n \in Nat
    PROVE  Good(NewTable(n)) /\ Size(NewTable(n)) = n /\ Ents(NewTable(n)) = {} /\ TableKeys(NewTable(n)) = {}
<1> DEFINE f == [i \in 0 .. n - 1 |-> << >>]
           t == NewTable(n)
<1>1. f \in [0 .. n - 1 -> Seq(Entry)] /\ \A i \in 0 .. n - 1 : f[i] = << >>
  OBVIOUS
<1>2. t = TableOf(0, f)
  BY DEF NewTable, TableOf
<1> HIDE DEF f, t
<1>3. t \in Tables /\ Size(t) = n /\ t.table = f /\ t.used = 0
  <2> DEFINE z == 0
  <2>1. z \in Nat /\ t = TableOf(z, f)
    BY <1>2
  <2>2. f \in Rows(n)
    BY <1>1 DEF Rows
  <2> HIDE DEF z
  <2>3. t \in Tables /\ Size(t) = n /\ t.table = f /\ t.used = z
    BY <2>1, <2>2, MakeTable
  <2> QED BY <2>3 DEF z
<1>4. ChainSet(<< >>) = {} /\ \A b : ChainOK(<< >>, b, n)
  BY DEF ChainSet, ChainOK
<1>5. Chained(t)
  BY <1>1, <1>3, <1>4 DEF Chained
<1>6. Ents(t) = {}
  BY <1>1, <1>3, <1>4, TableParts DEF Ents
<1>7. TableKeys(t) = {}
  BY <1>3, <1>6, TableSets
<1>8. Good(t)
  BY <1>3, <1>5, <1>7, FS_EmptySet DEF Good
<1> QED BY <1>3, <1>6, <1>7, <1>8 DEF t

\* _dictReset leaves a table without buckets.
LEMMA TableNone ==
    Good(NoTable) /\ Size(NoTable) = 0 /\ Ents(NoTable) = {} /\ TableKeys(NoTable) = {} /\ NoTable \in Tables
<1>1. NewTable(0) = NoTable
  <2>1. [i \in 0 .. 0 - 1 |-> << >>] = << >>
    OBVIOUS
  <2> QED BY <2>1 DEF NewTable, NoTable
<1> QED BY <1>1, TableNew DEF Good

-----------------------------------------------------------------------------
(* Rehashing a bucket *)

\* Table r is table t with the first j entries of c moved to it.
Moved(r, t, c, j) ==
    /\ Good(r) /\ Size(r) = Size(t) /\ r.used = t.used + j
    /\ Ents(r) = Ents(t) \cup {c[i] : i \in 1 .. j}
    /\ TableKeys(r) = TableKeys(t) \cup {c[i].key : i \in 1 .. j}

\* A chain whose keys are new to a table is moved to it entry by entry.
LEMMA ChainMoved ==
    ASSUME NEW t, Good(t), Size(t) # 0, NEW c \in Seq(Entry),
           \A i, j \in 1 .. Len(c) : c[i].key = c[j].key => i = j,
           ChainKeys(c) \cap TableKeys(t) = {}
    PROVE  /\ Good(MoveChain(t, c)) /\ Size(MoveChain(t, c)) = Size(t)
           /\ Ents(MoveChain(t, c)) = Ents(t) \cup ChainSet(c)
           /\ TableKeys(MoveChain(t, c)) = TableKeys(t) \cup ChainKeys(c)
           /\ Cardinality(ChainKeys(c)) = Len(c)
<1> DEFINE n == Len(c)
           go == CHOOSE g : g = [k \in 0 .. n |-> IF k = 0 THEN t ELSE AddFront(g[k - 1], c[k])]
<1>0. n \in Nat /\ DOMAIN c = 1 .. n /\ t.used \in Nat /\ t.used = Cardinality(TableKeys(t)) /\ t \in Tables
  BY TableParts DEF Good
<1>1. go = [k \in 0 .. n |-> IF k = 0 THEN t ELSE AddFront(go[k - 1], c[k])]
  <2>1. n \in Nat
    BY <1>0
  <2> HIDE DEF n
  <2>2. PICK g : Run(g, n, "move", t, c)
    BY <2>1, LoopRuns
  <2>3. g = [k \in 0 .. n |-> IF k = 0 THEN t ELSE AddFront(g[k - 1], c[k])]
    BY <2>2 DEF Run, Turn
  <2> QED BY <2>3, Zenon
<1>2. MoveChain(t, c) = go[n]
  BY DEF MoveChain
<1>n. \A j \in 1 .. n : c[j] \in Entry /\ c[j].key \in ChainKeys(c)
  BY <1>0 DEF ChainKeys
<1>u. \A i, j \in 1 .. n : c[i].key = c[j].key => i = j
  OBVIOUS
<1> HIDE DEF go, n
<1> DEFINE S == {k \in 0 .. n : Moved(go[k], t, c, k)}
<1>3. 0 \in S
  <2>1. go[0] = t
    BY <1>0, <1>1
  <2>2. 1 .. 0 = {} /\ t.used + 0 = t.used
    BY <1>0
  <2> QED BY <1>0, <2>1, <2>2 DEF Moved
<1>4. ASSUME NEW k \in 1 .. n, k - 1 \in S PROVE k \in S
  <2> DEFINE p == go[k - 1]
             e == c[k]
  <2>1. go[k] = AddFront(p, e)
    <3>1. k \in 0 .. n /\ k # 0
      BY <1>0
    <3> QED BY <1>1, <3>1
  <2>2. Moved(p, t, c, k - 1) /\ k \in 0 .. n
    BY <1>4
  <2>3. e \in Entry /\ e.key \in ChainKeys(c)
    BY <1>n
  <2>4. e.key \notin TableKeys(p)
    <3>1. \A i \in 1 .. k - 1 : i \in 1 .. n /\ i # k
      BY <1>0
    <3>2. \A i \in 1 .. k - 1 : c[i].key # e.key
      BY <1>u, <3>1
    <3> QED BY <2>2, <2>3, <3>2 DEF Moved
  <2> HIDE DEF p
  <2>5. Good(p) /\ Size(p) # 0 /\ Size(p) = Size(t) /\ p.used = t.used + (k - 1)
    BY <2>2 DEF Moved
  <2>6. /\ Good(AddFront(p, e)) /\ Size(AddFront(p, e)) = Size(p)
        /\ Ents(AddFront(p, e)) = Ents(p) \cup {e}
        /\ TableKeys(AddFront(p, e)) = TableKeys(p) \cup {e.key}
        /\ AddFront(p, e).used = p.used + 1
    BY <2>3, <2>4, <2>5, TablePut
  <2>7. 1 .. k = (1 .. k - 1) \cup {k}
    BY <1>0
  <2>8. {c[i] : i \in 1 .. k} = {c[i] : i \in 1 .. k - 1} \cup {e}
    BY <2>7
  <2>9. {c[i].key : i \in 1 .. k} = {c[i].key : i \in 1 .. k - 1} \cup {e.key}
    BY <2>7
  <2>10. go[k].used = t.used + k
    BY <1>0, <2>1, <2>5, <2>6
  <2>11. Ents(go[k]) = Ents(t) \cup {c[i] : i \in 1 .. k}
    BY <2>1, <2>2, <2>6, <2>8 DEF Moved
  <2>12. TableKeys(go[k]) = TableKeys(t) \cup {c[i].key : i \in 1 .. k}
    BY <2>1, <2>2, <2>6, <2>9 DEF Moved
  <2> QED BY <2>1, <2>2, <2>5, <2>6, <2>10, <2>11, <2>12 DEF Moved
<1> HIDE DEF S
<1>5. n \in S
  <2>1. n \in Nat /\ n \in 0 .. n
    BY <1>0
  <2>2. \A k \in 1 .. n : k - 1 \in S => k \in S
    BY <1>4
  <2>3. \A k \in 0 .. n : k \in S
    BY <1>3, <2>1, <2>2, UpTo
  <2> QED BY <2>1, <2>3
<1>6. Moved(go[n], t, c, n)
  BY <1>5 DEF S
<1>7. ChainSet(c) = {c[i] : i \in 1 .. n} /\ ChainKeys(c) = {c[i].key : i \in 1 .. n}
  BY <1>0 DEF ChainSet, ChainKeys
<1>8. Cardinality(ChainKeys(c)) = n
  <2>1. ChainKeys(c) \subseteq Keys
    BY ChainParts
  <2>2. /\ IsFiniteSet(ChainKeys(c)) /\ Cardinality(ChainKeys(c)) \in Nat
        /\ IsFiniteSet(TableKeys(t)) /\ Cardinality(TableKeys(t)) \in Nat
    BY <1>0, <2>1, DictAssumption, FS_Subset, FS_CardinalityType, TableSets
  <2>3. Cardinality(TableKeys(t) \cup ChainKeys(c)) =
          Cardinality(TableKeys(t)) + Cardinality(ChainKeys(c)) - Cardinality(TableKeys(t) \cap ChainKeys(c))
    BY <2>2, FS_Union
  <2>4. Cardinality(TableKeys(t) \cap ChainKeys(c)) = 0
    <3>1. TableKeys(t) \cap ChainKeys(c) = {}
      OBVIOUS
    <3> QED BY <3>1, FS_EmptySet
  <2>5. t.used + n = Cardinality(TableKeys(t) \cup ChainKeys(c))
    BY <1>6, <1>7 DEF Moved, Good
  <2> QED BY <1>0, <2>2, <2>3, <2>4, <2>5
<1> QED BY <1>2, <1>6, <1>7, <1>8 DEF Moved, n

\* The bucket it came from is left empty.
Cleared(t, b) == Replaced(t, b, << >>, t.used - Len(t.table[b]))

LEMMA TableCleared ==
    ASSUME NEW t, Good(t), NEW b \in 0 .. Size(t) - 1, Cardinality(ChainKeys(t.table[b])) = Len(t.table[b]), NEW r,
           r = Cleared(t, b)
    PROVE  /\ Good(r) /\ Size(r) = Size(t) /\ Ents(r) = Ents(t) \ ChainSet(t.table[b])
           /\ TableKeys(r) = TableKeys(t) \ ChainKeys(t.table[b]) /\ r.table[b] = << >>
           /\ \A a \in 0 .. Size(t) - 1 : a # b => r.table[a] = t.table[a]
<1> DEFINE c == t.table[b]
<1>0. t \in Tables /\ Chained(t) /\ t.used = Cardinality(TableKeys(t)) /\ c \in Seq(Entry) /\ ChainOK(c, b, Size(t))
  BY TableParts DEF Good, Chained
<1>1. ChainKeys(c) = {e.key : e \in ChainSet(c)} /\ ChainSet(c) \subseteq Ents(t) /\ ChainKeys(c) \subseteq TableKeys(t)
  BY <1>0, ChainParts, TableParts DEF Ents, TableKeys
<1>2. IsFiniteSet(TableKeys(t)) /\ TableKeys(t) = {e.key : e \in Ents(t)}
  BY <1>0, TableSets
<1>3. /\ IsFiniteSet(TableKeys(t) \ ChainKeys(c))
      /\ Cardinality(TableKeys(t) \ ChainKeys(c)) = t.used - Len(c)
  <2>1. TableKeys(t) \cap ChainKeys(c) = ChainKeys(c)
    BY <1>1
  <2>2. /\ IsFiniteSet(TableKeys(t) \ ChainKeys(c))
        /\ Cardinality(TableKeys(t) \ ChainKeys(c)) = Cardinality(TableKeys(t)) - Cardinality(TableKeys(t) \cap ChainKeys(c))
    BY <1>2, FS_Difference
  <2> QED BY <1>0, <2>1, <2>2
<1>4. t.used - Len(c) \in Nat
  BY <1>3, FS_CardinalityType
<1>5. ChainOK(<< >>, b, Size(t)) /\ ChainSet(<< >>) = {}
  BY DEF ChainOK, ChainSet
<1> HIDE DEF c
<1>6. /\ r \in Tables /\ Size(r) = Size(t) /\ Chained(r) /\ r.used = t.used - Len(c) /\ r.table[b] = << >>
      /\ \A a \in 0 .. Size(t) - 1 : a # b => r.table[a] = t.table[a]
      /\ Ents(r) = (Ents(t) \ ChainSet(c)) \cup ChainSet(<< >>)
  <2>1. r = Replaced(t, b, << >>, t.used - Len(c))
    BY DEF c, Cleared
  <2>2. t \in Tables /\ Chained(t)
    BY <1>0
  <2>3. ChainOK(<< >>, b, Size(t))
    BY <1>5
  <2> DEFINE u == t.used - Len(c)
             w == << >>
  <2>4. u \in Nat /\ r = Replaced(t, b, w, u) /\ ChainOK(w, b, Size(t))
    BY <1>4, <2>1, <2>3
  <2>5. c = t.table[b]
    BY DEF c
  <2> HIDE DEF u, w
  <2>6. /\ r \in Tables /\ Size(r) = Size(t) /\ Chained(r) /\ r.used = u /\ r.table[b] = w
        /\ \A a \in 0 .. Size(t) - 1 : a # b => r.table[a] = t.table[a]
        /\ Ents(r) = (Ents(t) \ ChainSet(c)) \cup ChainSet(w)
    BY <2>2, <2>4, <2>5, Replace
  <2> QED BY <2>6 DEF u, w
<1>7. Ents(r) = Ents(t) \ ChainSet(c)
  BY <1>5, <1>6
<1>8. TableKeys(r) = TableKeys(t) \ ChainKeys(c)
  <2>1. TableKeys(r) = {e.key : e \in Ents(r)}
    BY <1>6, TableSets
  <2>2. ASSUME NEW e \in Ents(t), e \notin ChainSet(c), e.key \in ChainKeys(c) PROVE FALSE
    <3>1. PICK f \in ChainSet(c) : f.key = e.key
      BY <1>1, <2>2
    <3>2. f \in Ents(t)
      BY <1>1
    <3>3. f = e
      BY <1>0, <3>1, <3>2, InItsBucket
    <3> QED BY <2>2, <3>3
  <2> QED BY <1>1, <1>2, <1>7, <2>1, <2>2
<1>9. Good(r)
  BY <1>3, <1>6, <1>8 DEF Good
<1> QED BY <1>6, <1>7, <1>8, <1>9 DEF c

-----------------------------------------------------------------------------
(* Dictionaries *)

DictType == [ht : [{0, 1} -> Tables], rehashidx : Int, iterators : Int, canResize : BOOLEAN]

\* A table has no buckets, or as many as a divisor of Word.
Sizes == {0} \cup Divisors

\* Two tables and a rehash index that may go together: no key is in both; the
\* second table is there while rehashing, and then the buckets of the first
\* below the index are empty.
Fits(t0, t1, i) ==
    /\ Good(t0) /\ Good(t1) /\ TableKeys(t0) \cap TableKeys(t1) = {}
    /\ Size(t0) \in Sizes /\ Size(t1) \in Sizes
    /\ i = -1 => t1 = NoTable
    /\ i # -1 => /\ i \in 0 .. Size(t0) /\ Size(t0) # 0 /\ Size(t1) # 0
                 /\ \A b \in 0 .. i - 1 : t0.table[b] = << >>
DictOK(d) == d \in DictType /\ Fits(d.ht[0], d.ht[1], d.rehashidx)
AllEnts(d) == Ents(d.ht[0]) \cup Ents(d.ht[1])

\* Another dictionary with the same entries and iterators.
Same(d, e) == DictOK(e) /\ AllEnts(e) = AllEnts(d) /\ e.iterators = d.iterators

LEMMA DictParts ==
    ASSUME NEW d, DictOK(d)
    PROVE  /\ d \in DictType /\ d.ht \in [{0, 1} -> Tables] /\ d.rehashidx \in Int /\ d.iterators \in Int
           /\ Good(d.ht[0]) /\ Good(d.ht[1]) /\ d.ht[0] \in Tables /\ d.ht[1] \in Tables
           /\ TableKeys(d.ht[0]) \cap TableKeys(d.ht[1]) = {}
           /\ Size(d.ht[0]) \in Nat /\ Size(d.ht[1]) \in Nat
           /\ d.ht[0].used \in Nat /\ d.ht[1].used \in Nat
<1>1. d \in DictType /\ Fits(d.ht[0], d.ht[1], d.rehashidx)
  BY DEF DictOK
<1>2. d.ht \in [{0, 1} -> Tables] /\ d.rehashidx \in Int /\ d.iterators \in Int
  BY <1>1 DEF DictType
<1>3. Good(d.ht[0]) /\ Good(d.ht[1]) /\ TableKeys(d.ht[0]) \cap TableKeys(d.ht[1]) = {}
  BY <1>1 DEF Fits
<1>4. d.ht[0] \in Tables /\ d.ht[1] \in Tables
  BY <1>3 DEF Good
<1>5. Size(d.ht[0]) \in Nat /\ Size(d.ht[1]) \in Nat /\ d.ht[0].used \in Nat /\ d.ht[1].used \in Nat
  BY <1>4, TableParts
<1> QED BY <1>1, <1>2, <1>3, <1>4, <1>5

\* A dictionary with other tables and another index.
Remade(d, t0, t1, i) == [d EXCEPT !.ht = [j \in {0, 1} |-> IF j = 0 THEN t0 ELSE t1], !.rehashidx = i]

LEMMA MakeDict ==
    ASSUME NEW d \in DictType, NEW t0, NEW t1, NEW i \in Int, Fits(t0, t1, i)
    PROVE  /\ DictOK(Remade(d, t0, t1, i)) /\ AllEnts(Remade(d, t0, t1, i)) = Ents(t0) \cup Ents(t1)
           /\ Remade(d, t0, t1, i).ht[0] = t0 /\ Remade(d, t0, t1, i).ht[1] = t1
           /\ Remade(d, t0, t1, i).rehashidx = i /\ Remade(d, t0, t1, i).iterators = d.iterators
<1> DEFINE h == [j \in {0, 1} |-> IF j = 0 THEN t0 ELSE t1]
           e == Remade(d, t0, t1, i)
<1>1. t0 \in Tables /\ t1 \in Tables
  BY DEF Fits, Good
<1>2. h \in [{0, 1} -> Tables] /\ h[0] = t0 /\ h[1] = t1
  BY <1>1
<1>3. e = [[d EXCEPT !.ht = h] EXCEPT !.rehashidx = i]
  BY DEF Remade
<1> HIDE DEF h
<1>4. [d EXCEPT !.ht = h] \in DictType
  BY <1>2 DEF DictType
<1>5. \A x \in DictType : [x EXCEPT !.rehashidx = i] \in DictType
  BY DEF DictType
<1>6. e \in DictType
  BY <1>3, <1>4, <1>5
<1>7. e.ht = h /\ e.rehashidx = i /\ e.iterators = d.iterators
  BY <1>3 DEF DictType
<1> HIDE DEF e
<1> QED BY <1>2, <1>6, <1>7 DEF DictOK, AllEnts, e

\* Only the first table, only the second, or the second and the index differ.
LEMMA RemadeFirst ==
    ASSUME NEW d \in DictType, NEW t
    PROVE  [d EXCEPT !.ht[0] = t] = Remade(d, t, d.ht[1], d.rehashidx)
BY DEF DictType, Remade

LEMMA RemadeSecond ==
    ASSUME NEW d \in DictType, NEW t
    PROVE  [d EXCEPT !.ht[1] = t] = Remade(d, d.ht[0], t, d.rehashidx)
<1>1. d.ht \in [{0, 1} -> Tables]
  BY DEF DictType
<1>2. [d.ht EXCEPT ![1] = t] = [j \in {0, 1} |-> IF j = 0 THEN d.ht[0] ELSE t]
  BY <1>1
<1>3. [d EXCEPT !.ht[1] = t] = [d EXCEPT !.ht = [d.ht EXCEPT ![1] = t], !.rehashidx = d.rehashidx]
  BY DEF DictType
<1>4. [d EXCEPT !.ht = [d.ht EXCEPT ![1] = t], !.rehashidx = d.rehashidx] =
        [d EXCEPT !.ht = [j \in {0, 1} |-> IF j = 0 THEN d.ht[0] ELSE t], !.rehashidx = d.rehashidx]
  BY <1>2, Zenon
<1> QED BY <1>3, <1>4 DEF Remade

LEMMA RemadeBegin ==
    ASSUME NEW d \in DictType, NEW t
    PROVE  [d EXCEPT !.ht[1] = t, !.rehashidx = 0] = Remade(d, d.ht[0], t, 0)
<1>1. d.ht \in [{0, 1} -> Tables]
  BY DEF DictType
<1>2. [d.ht EXCEPT ![1] = t] = [j \in {0, 1} |-> IF j = 0 THEN d.ht[0] ELSE t]
  BY <1>1
<1>3. [d EXCEPT !.ht[1] = t, !.rehashidx = 0] = [d EXCEPT !.ht = [d.ht EXCEPT ![1] = t], !.rehashidx = 0]
  OBVIOUS
<1>4. [d EXCEPT !.ht = [d.ht EXCEPT ![1] = t], !.rehashidx = 0] =
        [d EXCEPT !.ht = [j \in {0, 1} |-> IF j = 0 THEN d.ht[0] ELSE t], !.rehashidx = 0]
  BY <1>2, Zenon
<1> QED BY <1>3, <1>4 DEF Remade

\* A table without buckets or without entries.
LEMMA TableEmpty ==
    ASSUME NEW t, Good(t), Size(t) = 0 \/ t.used = 0
    PROVE  t.used = 0 /\ TableKeys(t) = {} /\ Ents(t) = {}
<1>1. t \in Tables /\ t.used = Cardinality(TableKeys(t)) /\ IsFiniteSet(TableKeys(t))
  BY TableSets DEF Good
<1>2. CASE Size(t) = 0
  <2>1. DOMAIN t.table = {}
    <3>1. DOMAIN t.table = 0 .. 0 - 1
      BY <1>1, <1>2, TableParts
    <3> QED BY <3>1
  <2>2. Ents(t) = {} /\ TableKeys(t) = {}
    BY <2>1 DEF Ents, TableKeys
  <2> QED BY <1>1, <2>2, FS_EmptySet
<1>3. CASE t.used = 0
  <2>1. TableKeys(t) = {}
    BY <1>1, <1>3, FS_EmptySet
  <2> QED BY <1>1, <1>3, <2>1, TableSets
<1> QED BY <1>2, <1>3

\* A table with entries has a bucket that is not empty.
LEMMA TableFull ==
    ASSUME NEW t, Good(t), t.used # 0
    PROVE  \E b \in 0 .. Size(t) - 1 : t.table[b] # << >>
<1>1. t \in Tables /\ t.used = Cardinality(TableKeys(t)) /\ DOMAIN t.table = 0 .. Size(t) - 1
  BY TableParts DEF Good
<1>2. Ents(t) # {}
  BY <1>1, TableSets, FS_EmptySet
<1>3. PICK b \in 0 .. Size(t) - 1 : ChainSet(t.table[b]) # {}
  BY <1>1, <1>2 DEF Ents
<1>4. t.table[b] # << >>
  BY <1>3 DEF ChainSet
<1> QED BY <1>4

\* No table has more entries than there are keys.
LEMMA UsedBound ==
    ASSUME NEW d, DictOK(d)
    PROVE  d.ht[0].used \in Nat /\ d.ht[0].used * 2 <= Word /\ d.ht[0].used <= Word
<1>1. /\ Good(d.ht[0]) /\ d.ht[0] \in Tables /\ d.ht[0].used \in Nat
      /\ d.ht[0].used = Cardinality(TableKeys(d.ht[0]))
  BY DictParts DEF Good
<1>2. TableKeys(d.ht[0]) \subseteq Keys
  BY <1>1, TableSets
<1>3. Cardinality(TableKeys(d.ht[0])) <= Cardinality(Keys) /\ Cardinality(Keys) \in Nat
  BY <1>2, DictAssumption, FS_Subset, FS_CardinalityType
<1>4. 2 * Cardinality(Keys) <= Word /\ Word \in Nat
  BY WordAssumption
<1> QED BY <1>1, <1>3, <1>4

\* _dictExpand keeps the entries, and when it says so there are buckets.
LEMMA Expanded ==
    ASSUME NEW d, DictOK(d), NEW size \in Nat, size <= Word
    PROVE  Same(d, Expand(d, size).d) /\ (Expand(d, size).ok => Size(Expand(d, size).d.ht[0]) # 0)
<1> DEFINE n == NextPower(size)
           x == Expand(d, size)
<1>0. n \in Nat \ {0} /\ n \in Sizes /\ 0 \in Sizes
  BY NextPowerEnough DEF Sizes
<1>1. /\ d \in DictType /\ Good(d.ht[0]) /\ Good(d.ht[1]) /\ d.rehashidx \in Int
      /\ TableKeys(d.ht[0]) \cap TableKeys(d.ht[1]) = {} /\ Fits(d.ht[0], d.ht[1], d.rehashidx)
  BY DictParts DEF DictOK
<1>n. /\ Good(NewTable(n)) /\ Size(NewTable(n)) = n /\ Ents(NewTable(n)) = {} /\ TableKeys(NewTable(n)) = {}
      /\ NewTable(n) \in Tables
  BY <1>0, TableNew DEF Good
<1>2. CASE IsRehashing(d) \/ d.ht[0].used > size \/ n = Size(d.ht[0])
  <2>1. x = [d |-> d, ok |-> FALSE]
    BY <1>2 DEF Expand
  <2> QED BY <2>1 DEF Same
<1>3. CASE ~(IsRehashing(d) \/ d.ht[0].used > size \/ n = Size(d.ht[0])) /\ Size(d.ht[0]) = 0
  <2> DEFINE t == NewTable(n)
             e == [d EXCEPT !.ht[0] = t]
  <2>1. x = [d |-> e, ok |-> TRUE]
    BY <1>3 DEF Expand
  <2>2. d.rehashidx = -1 /\ d.ht[1] = NoTable
    BY <1>1, <1>3 DEF IsRehashing, Fits
  <2>3. Good(t) /\ Size(t) = n /\ Ents(t) = {} /\ TableKeys(t) = {}
    BY <1>n
  <2> HIDE DEF n, t
  <2>4. e = Remade(d, t, d.ht[1], d.rehashidx)
    BY <1>1, RemadeFirst
  <2>5. Fits(t, d.ht[1], d.rehashidx)
    BY <1>0, <1>1, <2>2, <2>3 DEF Fits
  <2>6. Ents(d.ht[0]) = {}
    BY <1>1, <1>3, TableEmpty
  <2> HIDE DEF e
  <2>7. DictOK(e) /\ AllEnts(e) = Ents(t) \cup Ents(d.ht[1]) /\ e.ht[0] = t /\ e.iterators = d.iterators
    BY <1>1, <2>4, <2>5, MakeDict
  <2>8. AllEnts(e) = AllEnts(d)
    BY <2>3, <2>6, <2>7 DEF AllEnts
  <2> QED BY <1>0, <2>1, <2>3, <2>7, <2>8 DEF Same
<1>4. CASE ~(IsRehashing(d) \/ d.ht[0].used > size \/ n = Size(d.ht[0])) /\ Size(d.ht[0]) # 0
  <2> DEFINE t == NewTable(n)
             e == [d EXCEPT !.ht[1] = t, !.rehashidx = 0]
  <2>1. x = [d |-> e, ok |-> TRUE]
    BY <1>4 DEF Expand
  <2>2. d.rehashidx = -1 /\ d.ht[1] = NoTable
    BY <1>1, <1>4 DEF IsRehashing, Fits
  <2>3. Good(t) /\ Size(t) = n /\ Ents(t) = {} /\ TableKeys(t) = {}
    BY <1>n
  <2> HIDE DEF n, t
  <2>4. e = Remade(d, d.ht[0], t, 0)
    BY <1>1, RemadeBegin
  <2>5. Fits(d.ht[0], t, 0)
    <3>1. 0 \in 0 .. Size(d.ht[0]) /\ 0 .. 0 - 1 = {}
      BY DictParts
    <3> QED BY <1>0, <1>1, <1>4, <2>3, <3>1 DEF Fits
  <2>6. Ents(d.ht[1]) = {}
    BY <2>2, TableNone
  <2> HIDE DEF e
  <2>7. /\ DictOK(e) /\ AllEnts(e) = Ents(d.ht[0]) \cup Ents(t) /\ e.ht[0] = d.ht[0]
        /\ e.iterators = d.iterators
    BY <1>1, <2>4, <2>5, MakeDict
  <2>8. AllEnts(e) = AllEnts(d)
    BY <2>3, <2>6, <2>7 DEF AllEnts
  <2> QED BY <1>4, <2>1, <2>7, <2>8 DEF Same
<1> QED BY <1>2, <1>3, <1>4

\* _dictExpandIfNeeded.
LEMMA ExpandedIfNeeded ==
    ASSUME NEW d, DictOK(d)
    PROVE  Same(d, ExpandIfNeeded(d).d) /\ (ExpandIfNeeded(d).ok => Size(ExpandIfNeeded(d).d.ht[0]) # 0)
<1>1. /\ Same(d, d) /\ d.ht[0].used \in Nat /\ d.ht[0].used * 2 \in Nat /\ InitialSize \in Nat
      /\ d.ht[0].used * 2 <= Word /\ InitialSize <= Word
  <2>1. Same(d, d) /\ InitialSize \in Nat /\ InitialSize <= Word
    BY DictAssumption, InitialDivides DEF Same
  <2>2. d.ht[0].used \in Nat /\ d.ht[0].used * 2 <= Word
    BY UsedBound
  <2> QED BY <2>1, <2>2
<1>2. IsRehashing(d) => Size(d.ht[0]) # 0
  BY DEF IsRehashing, DictOK, Fits
<1>3. /\ Same(d, Expand(d, InitialSize).d) /\ (Expand(d, InitialSize).ok => Size(Expand(d, InitialSize).d.ht[0]) # 0)
      /\ Same(d, Expand(d, d.ht[0].used * 2).d)
      /\ (Expand(d, d.ht[0].used * 2).ok => Size(Expand(d, d.ht[0].used * 2).d.ht[0]) # 0)
  BY <1>1, Expanded
<1>4. CASE IsRehashing(d)
  <2>1. ExpandIfNeeded(d) = [d |-> d, ok |-> TRUE]
    BY <1>4 DEF ExpandIfNeeded
  <2> QED BY <1>1, <1>2, <1>4, <2>1
<1>5. CASE ~IsRehashing(d) /\ Size(d.ht[0]) = 0
  <2>1. ExpandIfNeeded(d) = Expand(d, InitialSize)
    BY <1>5 DEF ExpandIfNeeded
  <2> QED BY <1>3, <2>1
<1>6. CASE ~IsRehashing(d) /\ Size(d.ht[0]) # 0
  <2>1. ExpandIfNeeded(d) = Expand(d, d.ht[0].used * 2) \/ ExpandIfNeeded(d) = [d |-> d, ok |-> TRUE]
    BY <1>6 DEF ExpandIfNeeded
  <2> QED BY <1>1, <1>3, <1>6, <2>1
<1> QED BY <1>4, <1>5, <1>6

-----------------------------------------------------------------------------
(* Incremental rehashing *)

\* A bucket is moved from the first table to the second.
LEMMA BucketRehashed ==
    ASSUME NEW d, DictOK(d), d.rehashidx # -1, d.rehashidx < Size(d.ht[0])
    PROVE  Same(d, RehashBucket(d)) /\ RehashBucket(d).rehashidx # -1
<1> DEFINE i == d.rehashidx
           t0 == d.ht[0]
           t1 == d.ht[1]
           c == t0.table[i]
           r0 == Cleared(t0, i)
           r1 == MoveChain(t1, c)
<1>1. /\ d \in DictType /\ Good(t0) /\ Good(t1) /\ t0 \in Tables /\ t1 \in Tables /\ i \in Int
      /\ TableKeys(t0) \cap TableKeys(t1) = {}
  BY DictParts
<1>2. /\ i \in 0 .. Size(t0) - 1 /\ Size(t0) \in Nat /\ Size(t0) # 0 /\ Size(t1) # 0
      /\ Size(t0) \in Sizes /\ Size(t1) \in Sizes
      /\ \A b \in 0 .. i - 1 : t0.table[b] = << >>
  BY DictParts DEF DictOK, Fits
<1>3. RehashBucket(d) = Remade(d, r0, r1, i + 1)
  BY <1>1 DEF DictType, Remade, RehashBucket, Replaced, Cleared
<1>c. c = t0.table[i] /\ r0 = Cleared(t0, i)
  OBVIOUS
<1>s. AllEnts(d) = Ents(t0) \cup Ents(t1)
  BY DEF AllEnts
<1> HIDE DEF t0, t1, i, c, r0
<1>4. ChainOK(c, i, Size(t0)) /\ c \in Seq(Entry) /\ ChainKeys(c) \subseteq TableKeys(t0) /\ ChainSet(c) \subseteq Ents(t0)
  <2>1. ChainOK(c, i, Size(t0))
    BY <1>1, <1>2, <1>c DEF Good, Chained
  <2>2. DOMAIN t0.table = 0 .. Size(t0) - 1
    BY <1>1, TableParts
  <2> QED BY <1>2, <1>c, <2>1, <2>2 DEF ChainOK, TableKeys, Ents
<1>5. /\ Good(r1) /\ Size(r1) = Size(t1) /\ Ents(r1) = Ents(t1) \cup ChainSet(c)
      /\ TableKeys(r1) = TableKeys(t1) \cup ChainKeys(c) /\ Cardinality(ChainKeys(c)) = Len(c)
  <2>1. ChainKeys(c) \cap TableKeys(t1) = {}
    BY <1>1, <1>4
  <2>2. \A a, b \in 1 .. Len(c) : c[a].key = c[b].key => a = b
    BY <1>4 DEF ChainOK
  <2> QED BY <1>1, <1>2, <1>4, <2>1, <2>2, ChainMoved
<1> HIDE DEF r1
<1>6. /\ Good(r0) /\ Size(r0) = Size(t0) /\ Ents(r0) = Ents(t0) \ ChainSet(c)
      /\ TableKeys(r0) = TableKeys(t0) \ ChainKeys(c) /\ r0.table[i] = << >>
      /\ \A a \in 0 .. Size(t0) - 1 : a # i => r0.table[a] = t0.table[a]
  <2>1. /\ Cardinality(ChainKeys(t0.table[i])) = Len(t0.table[i])
        /\ r0 = Cleared(t0, i)
    BY <1>5, <1>c
  <2>2. /\ Good(r0) /\ Size(r0) = Size(t0) /\ Ents(r0) = Ents(t0) \ ChainSet(t0.table[i])
        /\ TableKeys(r0) = TableKeys(t0) \ ChainKeys(t0.table[i]) /\ r0.table[i] = << >>
        /\ \A a \in 0 .. Size(t0) - 1 : a # i => r0.table[a] = t0.table[a]
    BY <1>1, <1>2, <2>1, TableCleared
  <2> QED BY <1>c, <2>2
<1>7. Fits(r0, r1, i + 1)
  <2>1. i + 1 # -1 /\ i + 1 \in 0 .. Size(t0)
    BY <1>2
  <2>2. ASSUME NEW b \in 0 .. i + 1 - 1 PROVE r0.table[b] = << >>
    <3>1. b = i \/ (b # i /\ b \in 0 .. i - 1 /\ b \in 0 .. Size(t0) - 1)
      BY <1>2
    <3> QED BY <1>2, <1>6, <3>1
  <2>3. TableKeys(r0) \cap TableKeys(r1) = {}
    BY <1>1, <1>5, <1>6
  <2> QED BY <1>2, <1>5, <1>6, <2>1, <2>2, <2>3 DEF Fits
<1>8. i + 1 \in Int /\ i + 1 # -1
  BY <1>2
<1>9. /\ DictOK(RehashBucket(d)) /\ AllEnts(RehashBucket(d)) = Ents(r0) \cup Ents(r1)
      /\ RehashBucket(d).rehashidx = i + 1 /\ RehashBucket(d).iterators = d.iterators
  BY <1>1, <1>3, <1>7, <1>8, MakeDict
<1>10. Ents(r0) \cup Ents(r1) = Ents(t0) \cup Ents(t1)
  BY <1>4, <1>5, <1>6
<1> QED BY <1>8, <1>9, <1>10, <1>s DEF Same

\* The index may move over empty buckets.
LEMMA IndexMoved ==
    ASSUME NEW d, DictOK(d), d.rehashidx # -1, NEW s \in Nat, d.rehashidx + s <= Size(d.ht[0]),
           \A b \in d.rehashidx .. d.rehashidx + s - 1 : d.ht[0].table[b] = << >>
    PROVE  /\ Same(d, [d EXCEPT !.rehashidx = @ + s])
           /\ [d EXCEPT !.rehashidx = @ + s].rehashidx = d.rehashidx + s
           /\ [d EXCEPT !.rehashidx = @ + s].ht = d.ht
           /\ d.rehashidx + s # -1
<1> DEFINE e == [d EXCEPT !.rehashidx = @ + s]
<1>1. d \in DictType /\ d.rehashidx \in 0 .. Size(d.ht[0]) /\ Size(d.ht[0]) \in Nat
  BY DictParts DEF DictOK, Fits
<1>2. e = [d EXCEPT !.rehashidx = d.rehashidx + s] /\ d.rehashidx + s \in Int /\ d.rehashidx + s # -1
  BY <1>1
<1>3. e \in DictType /\ e.ht = d.ht /\ e.rehashidx = d.rehashidx + s /\ e.iterators = d.iterators
  BY <1>1, <1>2 DEF DictType
<1>4. Fits(d.ht[0], d.ht[1], d.rehashidx + s)
  <2>1. ASSUME NEW b \in 0 .. d.rehashidx + s - 1 PROVE d.ht[0].table[b] = << >>
    <3>1. b \in 0 .. d.rehashidx - 1 \/ b \in d.rehashidx .. d.rehashidx + s - 1
      BY <1>1
    <3> QED BY <3>1 DEF DictOK, Fits
  <2>2. d.rehashidx + s \in 0 .. Size(d.ht[0])
    BY <1>1
  <2> QED BY <2>1, <2>2 DEF DictOK, Fits
<1> HIDE DEF e
<1>5. DictOK(e) /\ AllEnts(e) = AllEnts(d)
  BY <1>3, <1>4 DEF DictOK, AllEnts
<1> QED BY <1>2, <1>3, <1>5 DEF Same, e

\* While entries are left in the first table there is a next bucket with some.
LEMMA NextFullIs ==
    ASSUME NEW d, DictOK(d), d.rehashidx # -1, d.ht[0].used # 0
    PROVE  /\ NextFull(d) \in d.rehashidx .. Size(d.ht[0]) - 1
           /\ \A b \in d.rehashidx .. NextFull(d) - 1 : d.ht[0].table[b] = << >>
<1> DEFINE t == d.ht[0]
           i == d.rehashidx
           T == {b \in i .. Size(t) - 1 : t.table[b] # << >>}
<1>1. Good(t) /\ i \in 0 .. Size(t) /\ Size(t) \in Nat /\ \A b \in 0 .. i - 1 : t.table[b] = << >>
  BY DictParts DEF DictOK, Fits
<1>2. PICK b \in 0 .. Size(t) - 1 : t.table[b] # << >>
  BY <1>1, TableFull
<1>3. b \in T
  <2>1. b \notin 0 .. i - 1
    BY <1>1, <1>2
  <2> QED BY <1>1, <1>2, <2>1
<1>4. T \subseteq Nat
  BY <1>1
<1>5. PICK x \in T : \A y \in T : ~(y < x)
  <2> HIDE DEF T
  <2> QED BY <1>3, <1>4, Lowest
<1>6. x \in i .. Size(t) - 1 /\ t.table[x] # << >>
  OBVIOUS
<1>7. \A j \in i .. x - 1 : t.table[j] = << >>
  <2>1. \A j \in i .. x - 1 : j < x /\ j \in i .. Size(t) - 1
    BY <1>1, <1>6
  <2> QED BY <1>5, <2>1
<1>8. \E y \in i .. Size(t) - 1 : t.table[y] # << >> /\ \A j \in i .. y - 1 : t.table[j] = << >>
  BY <1>6, <1>7
<1> QED BY <1>8, Zenon DEF NextFull

\* When the first table is empty the second takes its place.
LEMMA Finished ==
    ASSUME NEW d, DictOK(d), d.rehashidx # -1
    PROVE  Same(d, FinishRehash(d))
<1> DEFINE h == [i \in {0, 1} |-> IF i = 0 THEN d.ht[1] ELSE NoTable]
           e == [d EXCEPT !.ht = h, !.rehashidx = -1]
<1>1. CASE d.ht[0].used # 0
  BY <1>1 DEF FinishRehash, Same
<1>2. CASE d.ht[0].used = 0
  <2>1. FinishRehash(d) = e /\ e = Remade(d, d.ht[1], NoTable, -1)
    BY <1>2 DEF FinishRehash, Remade
  <2>2. d \in DictType /\ Good(d.ht[0]) /\ Good(d.ht[1])
    BY DictParts
  <2>3. Fits(d.ht[1], NoTable, -1)
    <3>1. Size(d.ht[1]) \in Sizes /\ 0 \in Sizes
      BY DEF DictOK, Fits, Sizes
    <3> QED BY <2>2, <3>1, TableNone DEF Fits
  <2> DEFINE z == -1
  <2>4. z \in Int /\ Fits(d.ht[1], NoTable, z) /\ e = Remade(d, d.ht[1], NoTable, z)
    BY <2>1, <2>3
  <2> HIDE DEF e, z
  <2>5. DictOK(e) /\ AllEnts(e) = Ents(d.ht[1]) \cup Ents(NoTable) /\ e.iterators = d.iterators
    BY <2>2, <2>4, MakeDict
  <2>6. Ents(d.ht[0]) = {} /\ Ents(NoTable) = {}
    BY <1>2, <2>2, TableEmpty, TableNone
  <2> QED BY <2>1, <2>5, <2>6 DEF Same, AllEnts
<1> QED BY <1>1, <1>2

\* A state of the loop of dictRehash: the entries of d, still rehashing.
Going(p, d) == Same(d, p.d) /\ p.d.rehashidx # -1 /\ p.visits \in Nat

LEMMA TurnRehashed ==
    ASSUME NEW d, NEW p, Going(p, d)
    PROVE  Going(RehashTurn(p), d)
<1> DEFINE e == p.d
           s == NextFull(e) - e.rehashidx
           a == [e EXCEPT !.rehashidx = @ + p.visits]
           b == [e EXCEPT !.rehashidx = @ + s]
<1>0. /\ DictOK(e) /\ AllEnts(e) = AllEnts(d) /\ e.iterators = d.iterators
      /\ e.rehashidx # -1 /\ p.visits \in Nat
  BY DEF Going, Same
<1>1. CASE p.out \/ e.ht[0].used = 0
  BY <1>1 DEF RehashTurn
<1>2. CASE ~(p.out \/ e.ht[0].used = 0)
  <2>1. /\ NextFull(e) \in e.rehashidx .. Size(e.ht[0]) - 1
        /\ \A j \in e.rehashidx .. NextFull(e) - 1 : e.ht[0].table[j] = << >>
    BY <1>0, <1>2, NextFullIs
  <2>2. e.rehashidx \in 0 .. Size(e.ht[0]) /\ Size(e.ht[0]) \in Nat
    BY <1>0, DictParts DEF DictOK, Fits
  <2>3. s \in Nat /\ e.rehashidx + s = NextFull(e)
    BY <2>1, <2>2
  <2>4. RehashTurn(p) = IF s >= p.visits THEN [d |-> a, visits |-> 0, out |-> TRUE]
                        ELSE [d |-> RehashBucket(b), visits |-> p.visits - s, out |-> FALSE]
    BY <1>2 DEF RehashTurn
  <2> HIDE DEF e, s, a, b
  <2>5. CASE s >= p.visits
    <3>1. e.rehashidx + p.visits <= Size(e.ht[0])
      BY <1>0, <2>1, <2>2, <2>3, <2>5
    <3>2. \A j \in e.rehashidx .. e.rehashidx + p.visits - 1 : e.ht[0].table[j] = << >>
      <4>1. \A j \in e.rehashidx .. e.rehashidx + p.visits - 1 : j \in e.rehashidx .. NextFull(e) - 1
        BY <1>0, <2>1, <2>2, <2>3, <2>5
      <4> QED BY <2>1, <4>1
    <3>3. /\ Same(e, [e EXCEPT !.rehashidx = @ + p.visits])
          /\ [e EXCEPT !.rehashidx = @ + p.visits].rehashidx = e.rehashidx + p.visits
          /\ e.rehashidx + p.visits # -1
      BY <1>0, <3>1, <3>2, IndexMoved
    <3>4. Same(e, a) /\ a.rehashidx # -1
      BY <3>3 DEF a
    <3>5. Same(d, a)
      BY <1>0, <3>4 DEF Same
    <3>6. RehashTurn(p) = [d |-> a, visits |-> 0, out |-> TRUE]
      BY <2>4, <2>5
    <3> QED BY <3>4, <3>5, <3>6 DEF Going
  <2>6. CASE ~(s >= p.visits)
    <3>1. e.rehashidx + s <= Size(e.ht[0])
      BY <2>1, <2>2, <2>3
    <3>2. \A j \in e.rehashidx .. e.rehashidx + s - 1 : e.ht[0].table[j] = << >>
      <4>1. e.rehashidx + s - 1 = NextFull(e) - 1
        BY <2>1, <2>2, <2>3
      <4> QED BY <2>1, <4>1
    <3>3. /\ Same(e, [e EXCEPT !.rehashidx = @ + s])
          /\ [e EXCEPT !.rehashidx = @ + s].rehashidx = e.rehashidx + s
          /\ [e EXCEPT !.rehashidx = @ + s].ht = e.ht
          /\ e.rehashidx + s # -1
      BY <1>0, <2>3, <3>1, <3>2, IndexMoved
    <3>4. Same(e, b) /\ b.rehashidx = e.rehashidx + s /\ b.ht = e.ht /\ b.rehashidx # -1
      BY <3>3 DEF b
    <3>5. DictOK(b) /\ b.rehashidx < Size(b.ht[0])
      BY <2>1, <2>2, <2>3, <3>4 DEF Same
    <3>6. Same(b, RehashBucket(b)) /\ RehashBucket(b).rehashidx # -1
      BY <3>4, <3>5, BucketRehashed
    <3>7. Same(d, RehashBucket(b))
      BY <1>0, <3>4, <3>6 DEF Same
    <3>8. p.visits - s \in Nat
      BY <1>0, <2>3, <2>6
    <3>9. RehashTurn(p) = [d |-> RehashBucket(b), visits |-> p.visits - s, out |-> FALSE]
      BY <2>4, <2>6
    <3> QED BY <3>6, <3>7, <3>8, <3>9 DEF Going
  <2> QED BY <2>5, <2>6
<1> QED BY <1>1, <1>2

\* dictRehash keeps the entries, wherever it stops.
LEMMA Rehashed ==
    ASSUME NEW d, DictOK(d), NEW n \in Nat
    PROVE  Same(d, Rehash(d, n))
<1> DEFINE s == [d |-> d, visits |-> n * EmptyVisits, out |-> FALSE]
           go == CHOOSE g : g = [k \in 0 .. n |-> IF k = 0 THEN s ELSE RehashTurn(g[k - 1])]
<1>1. go = [k \in 0 .. n |-> IF k = 0 THEN s ELSE RehashTurn(go[k - 1])]
  <2> HIDE DEF s
  <2>1. PICK g : Run(g, n, "rehash", s, << >>)
    BY LoopRuns
  <2>2. g = [k \in 0 .. n |-> IF k = 0 THEN s ELSE RehashTurn(g[k - 1])]
    BY <2>1 DEF Run, Turn
  <2> QED BY <2>2, Zenon
<1>2. Rehash(d, n) = IF ~IsRehashing(d) THEN d ELSE IF go[n].out THEN go[n].d ELSE FinishRehash(go[n].d)
  BY DEF Rehash, RehashTurn
<1>3. n * EmptyVisits \in Nat
  BY DictAssumption
<1>4. CASE ~IsRehashing(d)
  BY <1>2, <1>4 DEF Same
<1>5. CASE IsRehashing(d)
  <2>1. Going(s, d)
    BY <1>3, <1>5 DEF Going, Same, IsRehashing
  <2> HIDE DEF go, s
  <2> DEFINE S == {k \in 0 .. n : Going(go[k], d)}
  <2>2. 0 \in S
    BY <1>1, <2>1
  <2>3. ASSUME NEW k \in 1 .. n, k - 1 \in S PROVE k \in S
    <3>1. k \in 0 .. n /\ k # 0
      OBVIOUS
    <3>2. go[k] = RehashTurn(go[k - 1])
      BY <1>1, <3>1
    <3> QED BY <2>3, <3>1, <3>2, TurnRehashed
  <2> HIDE DEF S
  <2>4. n \in S
    <3>1. \A k \in 0 .. n : k \in S
      BY <2>2, <2>3, UpTo
    <3> QED BY <3>1
  <2>5. Going(go[n], d)
    BY <2>4 DEF S
  <2>6. Same(d, go[n].d) /\ Same(go[n].d, FinishRehash(go[n].d))
    BY <2>5, Finished DEF Going, Same
  <2>7. Same(d, FinishRehash(go[n].d))
    BY <2>6 DEF Same
  <2> QED BY <1>2, <1>5, <2>6, <2>7
<1> QED BY <1>4, <1>5

\* _dictRehashStep does, and so do several of them.
LEMMA StepRehashed ==
    ASSUME NEW d, DictOK(d)
    PROVE  Same(d, RehashStep(d))
<1>1. Same(d, Rehash(d, 1)) /\ Same(d, d)
  BY Rehashed DEF Same
<1> QED BY <1>1 DEF RehashStep

LEMMA StepsRehashed ==
    ASSUME NEW d, DictOK(d), NEW n \in Nat, NEW go,
           go = CHOOSE g : g = [j \in 0 .. n |-> IF j = 0 THEN d ELSE RehashStep(g[j - 1])]
    PROVE  Same(d, go[n]) /\ (d.iterators # 0 => go[n] = d)
<1>1. go = [j \in 0 .. n |-> IF j = 0 THEN d ELSE RehashStep(go[j - 1])]
  <2>1. PICK g : Run(g, n, "step", d, << >>)
    BY LoopRuns
  <2>2. g = [j \in 0 .. n |-> IF j = 0 THEN d ELSE RehashStep(g[j - 1])]
    BY <2>1 DEF Run, Turn
  <2> QED BY <2>2, Zenon
<1> DEFINE S == {k \in 0 .. n : Same(d, go[k]) /\ (d.iterators # 0 => go[k] = d)}
<1>2. 0 \in S
  <2>1. 0 \in 0 .. n
    OBVIOUS
  <2>2. go[0] = d
    BY <1>1, <2>1
  <2> QED BY <2>1, <2>2 DEF Same
<1>3. ASSUME NEW k \in 1 .. n, k - 1 \in S PROVE k \in S
  <2>1. k \in 0 .. n /\ k # 0
    OBVIOUS
  <2>2. go[k] = RehashStep(go[k - 1])
    BY <1>1, <2>1
  <2>3. Same(go[k - 1], RehashStep(go[k - 1])) /\ Same(d, go[k - 1])
    BY <1>3, StepRehashed DEF Same
  <2>4. Same(d, go[k])
    BY <2>2, <2>3 DEF Same
  <2>5. d.iterators # 0 => go[k] = d
    BY <1>3, <2>2 DEF RehashStep
  <2> QED BY <2>1, <2>4, <2>5
<1> HIDE DEF S
<1>4. n \in S
  <2>1. \A k \in 0 .. n : k \in S
    BY <1>2, <1>3, UpTo
  <2> QED BY <2>1
<1> QED BY <1>4 DEF S

-----------------------------------------------------------------------------
(* Lookups *)

AllKeys(d) == TableKeys(d.ht[0]) \cup TableKeys(d.ht[1])

\* The keys of a dictionary, and their number.
LEMMA Counted ==
    ASSUME NEW d, DictOK(d)
    PROVE  /\ AllKeys(d) = {e.key : e \in AllEnts(d)} /\ AllKeys(d) \subseteq Keys
           /\ dictSize(d) = Cardinality(AllKeys(d)) /\ dictSize(d) \in Nat
           /\ dictSize(d) # 0 => Size(d.ht[0]) # 0
           /\ \A e, f \in AllEnts(d) : e.key = f.key => e = f
<1> DEFINE t0 == d.ht[0]
           t1 == d.ht[1]
<1>1. /\ Good(t0) /\ Good(t1) /\ TableKeys(t0) \cap TableKeys(t1) = {} /\ t0.used \in Nat /\ t1.used \in Nat
      /\ t0 \in Tables /\ t1 \in Tables /\ Fits(t0, t1, d.rehashidx)
  BY DictParts DEF DictOK
<1> HIDE DEF t0, t1
<1>2. /\ TableKeys(t0) = {e.key : e \in Ents(t0)} /\ TableKeys(t0) \subseteq Keys /\ IsFiniteSet(TableKeys(t0))
      /\ TableKeys(t1) = {e.key : e \in Ents(t1)} /\ TableKeys(t1) \subseteq Keys /\ IsFiniteSet(TableKeys(t1))
  BY <1>1, TableSets
<1>3. AllKeys(d) = TableKeys(t0) \cup TableKeys(t1) /\ AllEnts(d) = Ents(t0) \cup Ents(t1)
  BY DEF AllKeys, AllEnts, t0, t1
<1>4. AllKeys(d) = {e.key : e \in AllEnts(d)} /\ AllKeys(d) \subseteq Keys
  BY <1>2, <1>3
<1>5. t0.used + t1.used = Cardinality(AllKeys(d))
  <2>1. Cardinality(TableKeys(t0) \cup TableKeys(t1)) =
          Cardinality(TableKeys(t0)) + Cardinality(TableKeys(t1)) - Cardinality(TableKeys(t0) \cap TableKeys(t1))
    BY <1>2, FS_Union
  <2>2. Cardinality(TableKeys(t0) \cap TableKeys(t1)) = 0
    BY <1>1, FS_EmptySet
  <2>3. t0.used = Cardinality(TableKeys(t0)) /\ t1.used = Cardinality(TableKeys(t1))
    BY <1>1 DEF Good
  <2> QED BY <1>1, <1>3, <2>1, <2>2, <2>3
<1>6. dictSize(d) = t0.used + t1.used
  BY DEF dictSize, t0, t1
<1>7. ASSUME Size(t0) = 0 PROVE dictSize(d) = 0
  <2>1. t0.used = 0
    BY <1>1, <1>7, TableEmpty
  <2>2. t1 = NoTable
    BY <1>1, <1>7 DEF Fits
  <2> QED BY <1>6, <2>1, <2>2 DEF NoTable
<1>8. ASSUME NEW e \in AllEnts(d), NEW f \in AllEnts(d), e.key = f.key PROVE e = f
  <2>1. (e \in Ents(t0) /\ f \in Ents(t0)) \/ (e \in Ents(t1) /\ f \in Ents(t1))
    BY <1>1, <1>2, <1>3, <1>8
  <2> QED BY <1>1, <1>8, <2>1, InItsBucket DEF Good
<1> QED BY <1>1, <1>4, <1>5, <1>6, <1>7, <1>8 DEF t0

\* _dictKeyIndex and dictFind look in the right table.
LEMMA WhereIs ==
    ASSUME NEW d, DictOK(d), Size(d.ht[0]) # 0, NEW k \in Keys
    PROVE  /\ Where(d, k) = -1 => k \notin AllKeys(d)
           /\ Where(d, k) # -1 => /\ Where(d, k) \in {0, 1} /\ (Where(d, k) = 1 => IsRehashing(d))
                                  /\ k \in TableKeys(d.ht[Where(d, k)]) /\ k \in AllKeys(d)
                                  /\ Size(d.ht[Where(d, k)]) # 0
<1>1. /\ Good(d.ht[0]) /\ Good(d.ht[1]) /\ Fits(d.ht[0], d.ht[1], d.rehashidx)
      /\ TableKeys(d.ht[0]) \cap TableKeys(d.ht[1]) = {}
  BY DictParts DEF DictOK
<1>2. Holds(d, 0, k) <=> k \in TableKeys(d.ht[0])
  <2>1. k \in ChainKeys(d.ht[0].table[Home(k, Size(d.ht[0]))]) <=> k \in TableKeys(d.ht[0])
    BY <1>1, LookedUp DEF Good
  <2> QED BY <2>1 DEF Holds, Chain, Bucket, Home
<1>3. ASSUME IsRehashing(d) PROVE (Holds(d, 1, k) <=> k \in TableKeys(d.ht[1])) /\ Size(d.ht[1]) # 0
  <2>1. Size(d.ht[1]) # 0
    BY <1>1, <1>3 DEF IsRehashing, Fits
  <2>2. k \in ChainKeys(d.ht[1].table[Home(k, Size(d.ht[1]))]) <=> k \in TableKeys(d.ht[1])
    BY <1>1, <2>1, LookedUp DEF Good
  <2> QED BY <2>1, <2>2 DEF Holds, Chain, Bucket, Home
<1>4. ~IsRehashing(d) => TableKeys(d.ht[1]) = {}
  BY <1>1, TableNone DEF IsRehashing, Fits
<1>5. CASE Holds(d, 0, k)
  <2>1. Where(d, k) = 0
    BY <1>5 DEF Where
  <2> QED BY <1>2, <1>5, <2>1 DEF AllKeys
<1>6. CASE ~Holds(d, 0, k) /\ IsRehashing(d) /\ Holds(d, 1, k)
  <2>1. Where(d, k) = 1
    BY <1>6 DEF Where
  <2> QED BY <1>3, <1>6, <2>1 DEF AllKeys
<1>7. CASE ~Holds(d, 0, k) /\ ~(IsRehashing(d) /\ Holds(d, 1, k))
  <2>1. Where(d, k) = -1
    BY <1>7 DEF Where
  <2> QED BY <1>2, <1>3, <1>4, <1>7, <2>1 DEF AllKeys
<1> QED BY <1>5, <1>6, <1>7

\* A lookup finds the entry of the key.
LEMMA LookupFinds ==
    ASSUME NEW d, DictOK(d), NEW k \in Keys
    PROVE  /\ k \notin AllKeys(d) => Lookup(d, k) = NotThere
           /\ k \in AllKeys(d) => \E e \in AllEnts(d) : e.key = k /\ Lookup(d, k) = e.val
<1>1. CASE dictSize(d) = 0
  <2>1. AllKeys(d) = {}
    <3>1. IsFiniteSet(AllKeys(d))
      BY Counted, DictAssumption, FS_Subset
    <3> QED BY <1>1, <3>1, Counted, FS_EmptySet
  <2> QED BY <1>1, <2>1 DEF Lookup
<1>2. CASE dictSize(d) # 0
  <2>1. Size(d.ht[0]) # 0
    BY <1>2, Counted
  <2>2. CASE Where(d, k) = -1
    BY <2>1, <2>2, WhereIs DEF Lookup
  <2>3. CASE Where(d, k) # -1
    <3> DEFINE i == Where(d, k)
               t == d.ht[i]
               c == t.table[Home(k, Size(t))]
               e == c[IndexOf(c, k)]
    <3>1. Lookup(d, k) = e.val
      BY <1>2, <2>3 DEF Lookup, EntryOf, Chain, Bucket, Home
    <3>2. i \in {0, 1} /\ k \in TableKeys(t) /\ k \in AllKeys(d) /\ Size(t) # 0
      BY <2>1, <2>3, WhereIs
    <3>3. Good(t) /\ t \in Tables /\ Chained(t)
      BY <3>2, DictParts DEF Good
    <3>4. Home(k, Size(t)) \in 0 .. Size(t) - 1 /\ k \in ChainKeys(c)
      BY <3>2, <3>3, LookedUp
    <3>5. \E j \in DOMAIN c : c[j].key = k
      BY <3>4 DEF ChainKeys
    <3>6. IndexOf(c, k) \in DOMAIN c /\ e.key = k
      BY <3>5, Zenon DEF IndexOf
    <3>7. e \in ChainSet(c)
      BY <3>6 DEF ChainSet
    <3>8. Home(k, Size(t)) \in DOMAIN t.table
      BY <3>3, <3>4, TableParts
    <3>9. e \in Ents(t)
      BY <3>7, <3>8 DEF Ents
    <3>10. e \in AllEnts(d)
      BY <3>2, <3>9 DEF AllEnts
    <3> QED BY <3>1, <3>2, <3>6, <3>10
  <2> QED BY <2>2, <2>3
<1> QED BY <1>1, <1>2

-----------------------------------------------------------------------------
(* Insertion and deletion *)

\* A bucket that is empty stays so when no key is added.
LEMMA StillEmpty ==
    ASSUME NEW t, Good(t), NEW r, Good(r), Size(r) = Size(t), Size(t) # 0, TableKeys(r) \subseteq TableKeys(t),
           NEW b \in 0 .. Size(t) - 1, t.table[b] = << >>
    PROVE  r.table[b] = << >>
<1>1. SUFFICES ASSUME r.table[b] # << >> PROVE FALSE
  OBVIOUS
<1>2. t \in Tables /\ Chained(t) /\ r \in Tables /\ Chained(r) /\ b \in 0 .. Size(r) - 1
  BY DEF Good
<1>3. r.table[b] \in Seq(Entry) /\ ChainOK(r.table[b], b, Size(r)) /\ DOMAIN r.table = 0 .. Size(r) - 1
  BY <1>2, TableParts DEF Chained
<1>4. PICK e \in ChainSet(r.table[b]) : TRUE
  BY <1>1, <1>3, ChainParts
<1>5. Home(e.key, Size(r)) = b
  BY <1>3, <1>4, ChainHome
<1>6. e \in Ents(r)
  BY <1>2, <1>3, <1>4 DEF Ents
<1>7. e.key \in TableKeys(t) /\ e.key \in Keys
  BY <1>2, <1>6, TableSets
<1>8. e.key \in ChainKeys(t.table[b])
  BY <1>2, <1>5, <1>7, LookedUp
<1> QED BY <1>8 DEF ChainKeys

\* One of the tables changes.
Changed(d, j, t) == [d EXCEPT !.ht[j] = t]

LEMMA TableChanged ==
    ASSUME NEW d, DictOK(d), NEW j \in {0, 1}, j = 1 => IsRehashing(d), Size(d.ht[j]) # 0,
           NEW t, Good(t), Size(t) = Size(d.ht[j]), TableKeys(t) \cap TableKeys(d.ht[1 - j]) = {},
           j = 0 /\ IsRehashing(d) => TableKeys(t) \subseteq TableKeys(d.ht[0])
    PROVE  DictOK(Changed(d, j, t)) /\ AllEnts(Changed(d, j, t)) = Ents(t) \cup Ents(d.ht[1 - j])
<1> DEFINE i == d.rehashidx
<1>1. d \in DictType /\ Fits(d.ht[0], d.ht[1], i) /\ i \in Int
  BY DictParts DEF DictOK
<1>2. CASE j = 0
  <2>1. Changed(d, j, t) = Remade(d, t, d.ht[1], i)
    BY <1>1, <1>2, RemadeFirst DEF Changed
  <2>2. TableKeys(t) \cap TableKeys(d.ht[1]) = {} /\ Size(t) = Size(d.ht[0]) /\ Size(t) # 0
    BY <1>2
  <2>3. ASSUME i # -1, NEW b \in 0 .. i - 1 PROVE t.table[b] = << >>
    <3>1. IsRehashing(d) /\ TableKeys(t) \subseteq TableKeys(d.ht[0])
      BY <1>2, <2>3 DEF IsRehashing
    <3>2. b \in 0 .. Size(d.ht[0]) - 1 /\ d.ht[0].table[b] = << >> /\ Good(d.ht[0])
      BY <1>1, <2>3, DictParts DEF Fits
    <3> QED BY <2>2, <3>1, <3>2, StillEmpty
  <2>4. Fits(t, d.ht[1], i)
    BY <1>1, <2>2, <2>3 DEF Fits
  <2>5. d.ht[1 - j] = d.ht[1]
    BY <1>2
  <2> QED BY <1>1, <2>1, <2>4, <2>5, MakeDict
<1>3. CASE j = 1
  <2>1. Changed(d, j, t) = Remade(d, d.ht[0], t, i)
    BY <1>1, <1>3, RemadeSecond DEF Changed
  <2>2. TableKeys(t) \cap TableKeys(d.ht[0]) = {} /\ Size(t) # 0 /\ i # -1
    BY <1>3 DEF IsRehashing
  <2>3. Fits(d.ht[0], t, i)
    BY <1>1, <2>2 DEF Fits
  <2>4. d.ht[1 - j] = d.ht[0]
    BY <1>3
  <2> QED BY <1>1, <2>1, <2>3, <2>4, MakeDict
<1> QED BY <1>2, <1>3

\* dictAddRaw puts the new entry into the table of new entries.
LEMMA Added ==
    ASSUME NEW d, DictOK(d), Size(d.ht[0]) # 0, NEW k \in Keys, NEW v \in Vals, Where(d, k) = -1
    PROVE  DictOK(PutFront(d, k, v)) /\ AllEnts(PutFront(d, k, v)) = AllEnts(d) \cup {[key |-> k, val |-> v]}
<1> DEFINE j == Target(d)
           e == [key |-> k, val |-> v]
           t == AddFront(d.ht[j], e)
<1>1. j \in {0, 1} /\ (j = 1 <=> IsRehashing(d)) /\ (j = 0 <=> ~IsRehashing(d))
  BY DEF Target
<1>2. Good(d.ht[0]) /\ Good(d.ht[1]) /\ TableKeys(d.ht[0]) \cap TableKeys(d.ht[1]) = {}
  BY DictParts
<1>3. Size(d.ht[j]) # 0
  BY <1>1 DEF DictOK, Fits, IsRehashing
<1>4. k \notin TableKeys(d.ht[0]) /\ k \notin TableKeys(d.ht[1])
  BY WhereIs DEF AllKeys
<1>5. e \in Entry /\ e.key = k
  BY DEF Entry
<1>6. PutFront(d, k, v) = Changed(d, j, t)
  BY DEF PutFront, Changed
<1> HIDE DEF j, e
<1>7. Good(d.ht[j]) /\ e.key \notin TableKeys(d.ht[j])
  BY <1>1, <1>2, <1>4, <1>5
<1>8. /\ Good(t) /\ Size(t) = Size(d.ht[j]) /\ Ents(t) = Ents(d.ht[j]) \cup {e}
      /\ TableKeys(t) = TableKeys(d.ht[j]) \cup {e.key}
  BY <1>3, <1>5, <1>7, TablePut
<1> HIDE DEF t
<1>9. TableKeys(t) \cap TableKeys(d.ht[1 - j]) = {}
  BY <1>1, <1>2, <1>4, <1>5, <1>8
<1>10. DictOK(Changed(d, j, t)) /\ AllEnts(Changed(d, j, t)) = Ents(t) \cup Ents(d.ht[1 - j])
  BY <1>1, <1>3, <1>8, <1>9, TableChanged
<1>11. Ents(t) \cup Ents(d.ht[1 - j]) = AllEnts(d) \cup {e}
  BY <1>1, <1>8 DEF AllEnts
<1> QED BY <1>6, <1>10, <1>11 DEF e

\* dictGenericDelete takes out the entry of the key and no other.
LEMMA Unlinked ==
    ASSUME NEW d, DictOK(d), Size(d.ht[0]) # 0, NEW k \in Keys, Where(d, k) # -1
    PROVE  DictOK(UnlinkEntry(d, k)) /\ AllEnts(UnlinkEntry(d, k)) = {e \in AllEnts(d) : e.key # k}
<1> DEFINE j == Where(d, k)
           t == TakeOut(d.ht[j], k)
<1>1. j \in {0, 1} /\ (j = 1 => IsRehashing(d)) /\ k \in TableKeys(d.ht[j]) /\ Size(d.ht[j]) # 0
  BY WhereIs
<1>2. Good(d.ht[0]) /\ Good(d.ht[1]) /\ TableKeys(d.ht[0]) \cap TableKeys(d.ht[1]) = {}
  BY DictParts
<1>3. UnlinkEntry(d, k) = Changed(d, j, t)
  BY DEF UnlinkEntry, Changed
<1> HIDE DEF j
<1>4. Good(d.ht[j])
  BY <1>1, <1>2
<1>5. /\ Good(t) /\ Size(t) = Size(d.ht[j]) /\ Ents(t) = {e \in Ents(d.ht[j]) : e.key # k}
      /\ TableKeys(t) = TableKeys(d.ht[j]) \ {k}
  BY <1>1, <1>4, TableDrop
<1> HIDE DEF t
<1>6. TableKeys(t) \cap TableKeys(d.ht[1 - j]) = {} /\ (j = 0 => TableKeys(t) \subseteq TableKeys(d.ht[0]))
  BY <1>1, <1>2, <1>5
<1>7. DictOK(Changed(d, j, t)) /\ AllEnts(Changed(d, j, t)) = Ents(t) \cup Ents(d.ht[1 - j])
  BY <1>1, <1>5, <1>6, TableChanged
<1>8. \A e \in Ents(d.ht[1 - j]) : e.key # k
  <2>1. k \notin TableKeys(d.ht[1 - j]) /\ d.ht[1 - j] \in Tables
    BY <1>1, <1>2 DEF Good
  <2> QED BY <2>1, TableSets
<1>9. Ents(t) \cup Ents(d.ht[1 - j]) = {e \in AllEnts(d) : e.key # k}
  BY <1>1, <1>5, <1>8 DEF AllEnts
<1> QED BY <1>3, <1>7, <1>9

\* Setting a value changes one chain of the table of the key.
LEMMA SetValIs ==
    ASSUME NEW d, DictOK(d), NEW k, NEW v, Where(d, k) \in {0, 1}
    PROVE  SetVal(d, k, v) = Changed(d, Where(d, k), Revalued(d.ht[Where(d, k)], k, v))
<1> DEFINE j == Where(d, k)
           t == Revalued(d.ht[j], k, v)
<1> DEFINE b == Home(k, Size(d.ht[j]))
           c == d.ht[j].table[b]
           f == [i \in DOMAIN c |-> IF c[i].key = k THEN [key |-> k, val |-> v] ELSE c[i]]
<1>1. d.ht[j] = [used |-> d.ht[j].used, table |-> d.ht[j].table]
  BY DictParts, TableParts
<1>2. SetVal(d, k, v) = [d EXCEPT !.ht[j] = [d.ht[j] EXCEPT !.table = [d.ht[j].table EXCEPT ![b] = f]]]
  BY DEF SetVal, Bucket, Home
<1>3. t = [used |-> d.ht[j].used, table |-> [d.ht[j].table EXCEPT ![b] = f]]
  BY DEF Revalued, Replaced
<1> HIDE DEF t, f, b
<1>4. [d.ht[j] EXCEPT !.table = [d.ht[j].table EXCEPT ![b] = f]] =
        [used |-> d.ht[j].used, table |-> [d.ht[j].table EXCEPT ![b] = f]]
  BY <1>1
<1> QED BY <1>2, <1>3, <1>4, Zenon DEF Changed, t

\* dictReplace sets the value of the entry of the key and of no other.
LEMMA ValueSet ==
    ASSUME NEW d, DictOK(d), Size(d.ht[0]) # 0, NEW k \in Keys, NEW v \in Vals, Where(d, k) # -1
    PROVE  /\ DictOK(SetVal(d, k, v))
           /\ AllEnts(SetVal(d, k, v)) = {e \in AllEnts(d) : e.key # k} \cup {[key |-> k, val |-> v]}
<1> DEFINE j == Where(d, k)
           t == Revalued(d.ht[j], k, v)
<1>1. j \in {0, 1} /\ (j = 1 => IsRehashing(d)) /\ k \in TableKeys(d.ht[j]) /\ Size(d.ht[j]) # 0
  BY WhereIs
<1>2. Good(d.ht[0]) /\ Good(d.ht[1]) /\ TableKeys(d.ht[0]) \cap TableKeys(d.ht[1]) = {}
  BY DictParts
<1>3. SetVal(d, k, v) = Changed(d, j, t)
  BY <1>1, SetValIs
<1> HIDE DEF j
<1>4. Good(d.ht[j])
  BY <1>1, <1>2
<1>5. /\ Good(t) /\ Size(t) = Size(d.ht[j])
      /\ Ents(t) = {e \in Ents(d.ht[j]) : e.key # k} \cup {[key |-> k, val |-> v]}
      /\ TableKeys(t) = TableKeys(d.ht[j])
  BY <1>1, <1>4, TableRevalue
<1> HIDE DEF t
<1>6. TableKeys(t) \cap TableKeys(d.ht[1 - j]) = {} /\ (j = 0 => TableKeys(t) \subseteq TableKeys(d.ht[0]))
  BY <1>1, <1>2, <1>5
<1>7. DictOK(Changed(d, j, t)) /\ AllEnts(Changed(d, j, t)) = Ents(t) \cup Ents(d.ht[1 - j])
  BY <1>1, <1>5, <1>6, TableChanged
<1>8. \A e \in Ents(d.ht[1 - j]) : e.key # k
  <2>1. k \notin TableKeys(d.ht[1 - j]) /\ d.ht[1 - j] \in Tables
    BY <1>1, <1>2 DEF Good
  <2> QED BY <2>1, TableSets
<1>9. Ents(t) \cup Ents(d.ht[1 - j]) = {e \in AllEnts(d) : e.key # k} \cup {[key |-> k, val |-> v]}
  BY <1>1, <1>5, <1>8 DEF AllEnts
<1> QED BY <1>3, <1>7, <1>9

-----------------------------------------------------------------------------
(* The invariant *)

\* The entries a map stands for.
Pairs(m) == {[key |-> k, val |-> m[k]] : k \in DOMAIN m}

\* What the calls made of the dictionary is what its tables hold.
DictInv ==
    /\ DictOK(dict)
    /\ DOMAIN map \subseteq Keys /\ map \in [DOMAIN map -> Vals]
    /\ AllEnts(dict) = Pairs(map)

\* The keys are those of the map, and a lookup finds the value of the map.
LEMMA InvParts ==
    ASSUME DictInv
    PROVE  /\ AllKeys(dict) = DOMAIN map
           /\ \A k \in Keys : Lookup(dict, k) = IF k \in DOMAIN map THEN map[k] ELSE NotThere
<1>1. AllKeys(dict) = DOMAIN map
  <2>1. AllKeys(dict) = {e.key : e \in Pairs(map)}
    BY Counted DEF DictInv
  <2>2. ASSUME NEW e \in Pairs(map) PROVE e.key \in DOMAIN map
    BY DEF Pairs
  <2>3. ASSUME NEW k \in DOMAIN map PROVE \E e \in Pairs(map) : e.key = k
    <3>1. [key |-> k, val |-> map[k]] \in Pairs(map)
      BY DEF Pairs
    <3> QED BY <3>1
  <2> QED BY <2>1, <2>2, <2>3
<1>2. ASSUME NEW k \in Keys PROVE Lookup(dict, k) = IF k \in DOMAIN map THEN map[k] ELSE NotThere
  <2>1. CASE k \notin AllKeys(dict)
    BY <1>1, <2>1, LookupFinds DEF DictInv
  <2>2. CASE k \in AllKeys(dict)
    <3>1. PICK e \in AllEnts(dict) : e.key = k /\ Lookup(dict, k) = e.val
      BY <2>2, LookupFinds DEF DictInv
    <3>2. e \in Pairs(map)
      BY <3>1 DEF DictInv
    <3>3. e.val = map[k]
      BY <3>1, <3>2 DEF Pairs
    <3> QED BY <1>1, <2>2, <3>1, <3>3
  <2> QED BY <2>1, <2>2
<1> QED BY <1>1, <1>2

\* The invariant says that the dictionary is the map.
LEMMA InvIsMap ==
    DictInv => DictIsMap
<1> SUFFICES ASSUME DictInv PROVE DictIsMap
  OBVIOUS
<1> DEFINE t0 == dict.ht[0]
           t1 == dict.ht[1]
           n == Size(t0)
           m == Size(t1)
           c(h) == IF h >= n THEN t1.table[h - n] ELSE t0.table[h]
<1>1. DictOK(dict) /\ AllKeys(dict) = DOMAIN map
  BY InvParts DEF DictInv
<1>2. /\ t0 \in Tables /\ t1 \in Tables /\ n \in Nat /\ m \in Nat /\ Fits(t0, t1, dict.rehashidx)
      /\ DOMAIN t0.table = 0 .. n - 1 /\ DOMAIN t1.table = 0 .. m - 1
  BY <1>1, DictParts, TableParts DEF DictOK
<1>3. AllKeys(dict) = TableKeys(t0) \cup TableKeys(t1)
  BY DEF AllKeys
<1>4. RandomKeys(dict) = UNION {ChainKeys(c(h)) : h \in IF IsRehashing(dict) THEN dict.rehashidx .. n + m - 1 ELSE 0 .. n - 1}
  BY DEF RandomKeys
<1> HIDE DEF t0, t1, n, m
<1>7. RandomKeys(dict) = AllKeys(dict)
  <2>5. CASE IsRehashing(dict)
    <3>1. /\ dict.rehashidx \in 0 .. n /\ \A b \in 0 .. dict.rehashidx - 1 : t0.table[b] = << >>
      BY <1>2, <2>5 DEF Fits, IsRehashing, n
    <3>2. ASSUME NEW k \in RandomKeys(dict) PROVE k \in TableKeys(t0) \cup TableKeys(t1)
      <4>1. PICK h \in dict.rehashidx .. n + m - 1 : k \in ChainKeys(c(h))
        BY <1>4, <2>5, <3>2
      <4>2. CASE h >= n
        <5>1. h - n \in 0 .. m - 1 /\ k \in ChainKeys(t1.table[h - n])
          BY <1>2, <3>1, <4>1, <4>2
        <5> QED BY <1>2, <5>1 DEF TableKeys
      <4>3. CASE ~(h >= n)
        <5>1. h \in 0 .. n - 1 /\ k \in ChainKeys(t0.table[h])
          BY <1>2, <3>1, <4>1, <4>3
        <5> QED BY <1>2, <5>1 DEF TableKeys
      <4> QED BY <4>2, <4>3
    <3>3. ASSUME NEW k \in TableKeys(t0) PROVE k \in RandomKeys(dict)
      <4>1. PICK b \in 0 .. n - 1 : k \in ChainKeys(t0.table[b])
        BY <1>2, <3>3 DEF TableKeys
      <4>2. ASSUME b \in 0 .. dict.rehashidx - 1 PROVE FALSE
        <5>1. t0.table[b] = << >>
          BY <3>1, <4>2
        <5> QED BY <4>1, <5>1 DEF ChainKeys
      <4>3. b \in dict.rehashidx .. n + m - 1 /\ ~(b >= n)
        BY <1>2, <3>1, <4>1, <4>2
      <4>4. k \in ChainKeys(c(b))
        BY <4>1, <4>3
      <4> QED BY <1>4, <2>5, <4>3, <4>4
    <3>4. ASSUME NEW k \in TableKeys(t1) PROVE k \in RandomKeys(dict)
      <4>1. PICK b \in 0 .. m - 1 : k \in ChainKeys(t1.table[b])
        BY <1>2, <3>4 DEF TableKeys
      <4>2. b + n \in dict.rehashidx .. n + m - 1 /\ b + n >= n /\ (b + n) - n = b
        BY <1>2, <3>1
      <4>3. k \in ChainKeys(c(b + n))
        BY <4>1, <4>2
      <4> QED BY <1>4, <2>5, <4>2, <4>3
    <3> QED BY <1>3, <3>2, <3>3, <3>4
  <2>6. CASE ~IsRehashing(dict)
    <3>1. TableKeys(t1) = {}
      BY <1>2, <2>6, TableNone DEF Fits, IsRehashing
    <3>2. \A h \in 0 .. n - 1 : ~(h >= n)
      BY <1>2
    <3>3. RandomKeys(dict) = TableKeys(t0)
      BY <1>2, <1>4, <2>6, <3>2 DEF TableKeys
    <3> QED BY <1>3, <3>1, <3>3
  <2> QED BY <2>5, <2>6
<1>8. \A k \in Keys : Lookup(dict, k) = IF k \in DOMAIN map THEN map[k] ELSE NotThere
  BY InvParts
<1>9. dictSize(dict) = Cardinality(DOMAIN map)
  BY <1>1, Counted
<1> QED BY <1>1, <1>3, <1>7, <1>8, <1>9 DEF DictIsMap, t0, t1

\* A step that keeps the entries and the map keeps the invariant.
LEMMA SameInv ==
    ASSUME DictInv, DictOK(dict'), AllEnts(dict') = AllEnts(dict), UNCHANGED map
    PROVE  DictInv'
<1>1. DictOK(dict') /\ AllEnts(dict') = AllEnts(dict) /\ map' = map
  OBVIOUS
<1>2. AllEnts(dict') = Pairs(map')
  BY <1>1 DEF DictInv
<1>3. DOMAIN map' \subseteq Keys /\ map' \in [DOMAIN map' -> Vals]
  BY <1>1 DEF DictInv
<1> QED BY <1>1, <1>2, <1>3 DEF DictInv, DictOK, DictType

\* At first there are no tables and no keys.
LEMMA DictInvInit ==
    DictInit => DictInv
<1> SUFFICES ASSUME DictInit PROVE DictInv
  OBVIOUS
<1>1. /\ dict = [ht |-> [i \in {0, 1} |-> NoTable], rehashidx |-> -1, iterators |-> 0, canResize |-> TRUE]
      /\ map = << >>
  BY DEF DictInit
<1>2. dict \in DictType /\ dict.ht[0] = NoTable /\ dict.ht[1] = NoTable /\ dict.rehashidx = -1
  BY <1>1, TableNone DEF DictType
<1>3. DictOK(dict) /\ AllEnts(dict) = {}
  BY <1>2, TableNone DEF DictOK, Fits, AllEnts, Sizes
<1>4. Pairs(map) = {} /\ DOMAIN map \subseteq Keys /\ map \in [DOMAIN map -> Vals]
  BY <1>1 DEF Pairs
<1> QED BY <1>3, <1>4 DEF DictInv

\* dictAddRaw up to its search: the entries stay, and when it goes on there are buckets.
LEMMA PreparedIs ==
    ASSUME NEW d, DictOK(d)
    PROVE  Same(d, Prepared(d).d) /\ (Prepared(d).ok => Size(Prepared(d).d.ht[0]) # 0)
<1>1. Same(d, RehashStep(d)) /\ DictOK(RehashStep(d))
  BY StepRehashed DEF Same
<1>2. /\ Same(RehashStep(d), Prepared(d).d)
      /\ Prepared(d).ok => Size(Prepared(d).d.ht[0]) # 0
  BY <1>1, ExpandedIfNeeded DEF Prepared
<1> QED BY <1>1, <1>2 DEF Same

\* The entries of a map to which a key was added, and of one without a key.
LEMMA PairsSet ==
    ASSUME NEW m, NEW k, NEW v, NEW p, p = [j \in DOMAIN m \cup {k} |-> IF j = k THEN v ELSE m[j]]
    PROVE  Pairs(p) = {e \in Pairs(m) : e.key # k} \cup {[key |-> k, val |-> v]}
<1>1. DOMAIN p = DOMAIN m \cup {k} /\ p[k] = v /\ \A j \in DOMAIN m : j # k => p[j] = m[j]
  OBVIOUS
<1>2. ASSUME NEW e \in Pairs(p) PROVE e \in {f \in Pairs(m) : f.key # k} \cup {[key |-> k, val |-> v]}
  <2>1. PICK j \in DOMAIN p : e = [key |-> j, val |-> p[j]]
    BY <1>2 DEF Pairs
  <2>2. CASE j = k
    BY <1>1, <2>1, <2>2
  <2>3. CASE j # k
    <3>1. j \in DOMAIN m /\ e = [key |-> j, val |-> m[j]] /\ e.key = j
      BY <1>1, <2>1, <2>3
    <3>2. e \in Pairs(m)
      BY <3>1 DEF Pairs
    <3> QED BY <2>3, <3>1, <3>2
  <2> QED BY <2>2, <2>3
<1>3. ASSUME NEW e \in Pairs(m), e.key # k PROVE e \in Pairs(p)
  <2>1. PICK j \in DOMAIN m : e = [key |-> j, val |-> m[j]]
    BY <1>3 DEF Pairs
  <2>2. j \in DOMAIN p /\ e = [key |-> j, val |-> p[j]]
    BY <1>1, <1>3, <2>1
  <2> QED BY <2>2 DEF Pairs
<1>4. [key |-> k, val |-> v] \in Pairs(p)
  BY <1>1 DEF Pairs
<1> QED BY <1>2, <1>3, <1>4

LEMMA PairsWithout ==
    ASSUME NEW m, NEW k, NEW p, p = [j \in DOMAIN m \ {k} |-> m[j]]
    PROVE  Pairs(p) = {e \in Pairs(m) : e.key # k}
<1>1. DOMAIN p = DOMAIN m \ {k} /\ \A j \in DOMAIN m : j # k => p[j] = m[j]
  OBVIOUS
<1>2. ASSUME NEW e \in Pairs(p) PROVE e \in Pairs(m) /\ e.key # k
  <2>1. PICK j \in DOMAIN p : e = [key |-> j, val |-> p[j]]
    BY <1>2 DEF Pairs
  <2>2. j \in DOMAIN m /\ j # k /\ e = [key |-> j, val |-> m[j]]
    BY <1>1, <2>1
  <2> QED BY <2>2 DEF Pairs
<1>3. ASSUME NEW e \in Pairs(m), e.key # k PROVE e \in Pairs(p)
  <2>1. PICK j \in DOMAIN m : e = [key |-> j, val |-> m[j]]
    BY <1>3 DEF Pairs
  <2>2. j \in DOMAIN p /\ e = [key |-> j, val |-> p[j]]
    BY <1>1, <1>3, <2>1
  <2> QED BY <2>2 DEF Pairs
<1> QED BY <1>2, <1>3

\* The table entries become those of the map.
LEMMA StepInv ==
    ASSUME NEW d, DictOK(d), NEW m, AllEnts(d) = Pairs(m), DOMAIN m \subseteq Keys, m \in [DOMAIN m -> Vals],
           dict' = d, map' = m
    PROVE  DictInv'
BY DEF DictInv, DictOK, DictType, AllEnts, Pairs

LEMMA AddStep ==
    ASSUME DictInv, NEW k \in Keys, NEW v \in Vals, dictAdd(k, v)
    PROVE  DictInv'
<1> DEFINE x == Prepared(dict)
           d == PutFront(x.d, k, v)
           m == [j \in DOMAIN map \cup {k} |-> IF j = k THEN v ELSE map[j]]
<1>1. k \notin DOMAIN map /\ x.ok /\ Where(x.d, k) = -1 /\ dict' = d /\ map' = m
  BY DEF dictAdd
<1>2. Same(dict, x.d) /\ Size(x.d.ht[0]) # 0
  BY <1>1, PreparedIs DEF DictInv
<1> HIDE DEF x
<1>3. DictOK(d) /\ AllEnts(d) = AllEnts(dict) \cup {[key |-> k, val |-> v]}
  BY <1>1, <1>2, Added DEF Same
<1> HIDE DEF d
<1>4. Pairs(m) = {e \in Pairs(map) : e.key # k} \cup {[key |-> k, val |-> v]}
  BY PairsSet
<1>5. \A e \in Pairs(map) : e.key # k
  BY <1>1 DEF Pairs
<1>6. DOMAIN m \subseteq Keys /\ m \in [DOMAIN m -> Vals]
  BY DEF DictInv
<1> HIDE DEF m
<1>7. AllEnts(d) = Pairs(m)
  BY <1>3, <1>4, <1>5 DEF DictInv
<1> QED BY <1>1, <1>3, <1>6, <1>7, StepInv

LEMMA ReplaceStep ==
    ASSUME DictInv, NEW k \in Keys, NEW v \in Vals, dictReplace(k, v)
    PROVE  DictInv'
<1> DEFINE x == Prepared(dict)
           d == SetVal(x.d, k, v)
           m == [map EXCEPT ![k] = v]
<1>1. k \in DOMAIN map /\ x.ok /\ Where(x.d, k) # -1 /\ dict' = d /\ map' = m
  BY DEF dictReplace
<1>2. Same(dict, x.d) /\ Size(x.d.ht[0]) # 0
  BY <1>1, PreparedIs DEF DictInv
<1> HIDE DEF x
<1>3. DictOK(d) /\ AllEnts(d) = {e \in AllEnts(dict) : e.key # k} \cup {[key |-> k, val |-> v]}
  BY <1>1, <1>2, ValueSet DEF Same
<1> HIDE DEF d
<1>4. m = [j \in DOMAIN map \cup {k} |-> IF j = k THEN v ELSE map[j]]
  <2>1. DOMAIN map \cup {k} = DOMAIN map
    BY <1>1
  <2>2. map \in [DOMAIN map -> Vals]
    BY DEF DictInv
  <2> QED BY <2>1, <2>2
<1>5. Pairs(m) = {e \in Pairs(map) : e.key # k} \cup {[key |-> k, val |-> v]}
  <2> HIDE DEF m
  <2> QED BY <1>4, PairsSet
<1>6. DOMAIN m \subseteq Keys /\ m \in [DOMAIN m -> Vals]
  BY DEF DictInv
<1> HIDE DEF m
<1>7. AllEnts(d) = Pairs(m)
  BY <1>3, <1>5 DEF DictInv
<1> QED BY <1>1, <1>3, <1>6, <1>7, StepInv

LEMMA DeleteStep ==
    ASSUME DictInv, NEW k \in Keys, dictGenericDelete(k)
    PROVE  DictInv'
<1> DEFINE d == RehashStep(dict)
           w == IF Where(d, k) = -1 THEN d ELSE UnlinkEntry(d, k)
           m == [j \in DOMAIN map \ {k} |-> map[j]]
<1>1. dictSize(dict) # 0 /\ dict' = w /\ map' = m
  BY DEF dictGenericDelete
<1>2. DictOK(d) /\ AllEnts(d) = AllEnts(dict)
  BY StepRehashed DEF DictInv, Same
<1>w. w = IF Where(d, k) = -1 THEN d ELSE UnlinkEntry(d, k)
  OBVIOUS
<1> HIDE DEF d, w
<1>3. Size(d.ht[0]) # 0
  <2>1. AllKeys(d) = AllKeys(dict)
    BY <1>2, Counted DEF DictInv
  <2>2. dictSize(d) # 0
    BY <1>1, <1>2, <2>1, Counted DEF DictInv
  <2> QED BY <1>2, <2>2, Counted
<1>4. DictOK(w) /\ AllEnts(w) = {e \in AllEnts(dict) : e.key # k}
  <2>1. CASE Where(d, k) = -1
    <3>1. k \notin AllKeys(d)
      BY <1>2, <1>3, <2>1, WhereIs
    <3>2. \A e \in AllEnts(d) : e.key # k
      BY <1>2, <3>1, Counted
    <3> QED BY <1>2, <1>w, <2>1, <3>2
  <2>2. CASE Where(d, k) # -1
    <3>1. DictOK(UnlinkEntry(d, k)) /\ AllEnts(UnlinkEntry(d, k)) = {e \in AllEnts(d) : e.key # k}
      BY <1>2, <1>3, <2>2, Unlinked
    <3> QED BY <1>2, <1>w, <2>2, <3>1
  <2> QED BY <2>1, <2>2
<1>5. Pairs(m) = {e \in Pairs(map) : e.key # k}
  BY PairsWithout
<1>6. DOMAIN m \subseteq Keys /\ m \in [DOMAIN m -> Vals]
  BY DEF DictInv
<1> HIDE DEF m
<1>7. AllEnts(w) = Pairs(m)
  BY <1>4, <1>5 DEF DictInv
<1> QED BY <1>1, <1>4, <1>6, <1>7, StepInv

\* Steps that only move entries, or only resize.
LEMMA MoveStep ==
    ASSUME DictInv,
           \/ dictFind \/ dictResize \/ \E n \in 1 .. Cardinality(Keys) : dictGetSomeKeys(n) \/ dictExpand(n)
           \/ dictRehash(1) \/ dictRehashMilliseconds
    PROVE  DictInv'
<1>1. DictOK(dict)
  BY DEF DictInv
<1>2. CASE dictFind
  BY <1>1, <1>2, StepRehashed, SameInv DEF dictFind, Same
<1>3. CASE dictResize
  <2> DEFINE size == IF dict.ht[0].used < InitialSize THEN InitialSize ELSE dict.ht[0].used
  <2>1. dict' = Expand(dict, size).d /\ UNCHANGED map
    BY <1>3 DEF dictResize
  <2>2. size \in Nat /\ size <= Word
    BY <1>1, UsedBound, InitialDivides, DictAssumption
  <2> HIDE DEF size
  <2>3. Same(dict, Expand(dict, size).d)
    BY <1>1, <2>2, Expanded
  <2> QED BY <2>1, <2>3, SameInv DEF Same
<1>4. ASSUME NEW n \in 1 .. Cardinality(Keys), dictGetSomeKeys(n) PROVE DictInv'
  <2> DEFINE c == IF dictSize(dict) < n THEN dictSize(dict) ELSE n
             go == CHOOSE g : g = [j \in 0 .. c |-> IF j = 0 THEN dict ELSE RehashStep(g[j - 1])]
  <2>1. dict' = go[c] /\ UNCHANGED map
    BY <1>4 DEF dictGetSomeKeys
  <2>2. c \in Nat
    BY <1>1, Counted
  <2> HIDE DEF c
  <2>3. go = CHOOSE g : g = [j \in 0 .. c |-> IF j = 0 THEN dict ELSE RehashStep(g[j - 1])]
    OBVIOUS
  <2> HIDE DEF go
  <2>4. Same(dict, go[c])
    BY <1>1, <2>2, <2>3, StepsRehashed
  <2> QED BY <2>1, <2>4, SameInv DEF Same
<1>5. ASSUME NEW n \in 1 .. Cardinality(Keys), dictExpand(n) PROVE DictInv'
  <2>1. dict' = Expand(dict, n).d /\ UNCHANGED map
    BY <1>5 DEF dictExpand
  <2>2. n \in Nat /\ n <= Word
    <3>1. Cardinality(Keys) \in Nat /\ Word \in Nat /\ 2 * Cardinality(Keys) <= Word
      BY DictAssumption, WordAssumption, FS_CardinalityType
    <3> QED BY <3>1
  <2>3. Same(dict, Expand(dict, n).d)
    BY <1>1, <2>2, Expanded
  <2> QED BY <2>1, <2>3, SameInv DEF Same
<1>6. ASSUME NEW n \in Nat, dictRehash(n) PROVE DictInv'
  <2>1. dict' = Rehash(dict, n) /\ UNCHANGED map
    BY <1>6 DEF dictRehash
  <2> QED BY <1>1, <2>1, Rehashed, SameInv DEF Same
<1>7. CASE dictRehashMilliseconds
  <2>1. Cardinality(Keys) \in Nat
    BY DictAssumption, FS_CardinalityType
  <2> QED BY <1>6, <1>7, <2>1 DEF dictRehashMilliseconds
<1>8. CASE dictRehash(1)
  BY <1>6, <1>8
<1> QED BY <1>2, <1>3, <1>4, <1>5, <1>7, <1>8

\* dictEmpty leaves nothing.
LEMMA EmptyStep ==
    ASSUME DictInv, dictEmpty
    PROVE  DictInv'
<1> DEFINE h == [i \in {0, 1} |-> NoTable]
           d == [dict EXCEPT !.ht = h, !.rehashidx = -1, !.iterators = 0]
           m == << >>
<1>1. dict' = d /\ map' = m
  BY DEF dictEmpty
<1>2. dict \in DictType /\ h \in [{0, 1} -> Tables] /\ h[0] = NoTable /\ h[1] = NoTable
  BY TableNone DEF DictInv, DictOK
<1>3. d = [[[dict EXCEPT !.ht = h] EXCEPT !.rehashidx = -1] EXCEPT !.iterators = 0]
  OBVIOUS
<1> HIDE DEF h
<1>4. /\ [dict EXCEPT !.ht = h] \in DictType
      /\ \A x \in DictType : [x EXCEPT !.rehashidx = -1] \in DictType
      /\ \A x \in DictType : [x EXCEPT !.iterators = 0] \in DictType
  BY <1>2 DEF DictType
<1>5. d \in DictType
  BY <1>3, <1>4
<1>6. d.ht = h /\ d.rehashidx = -1
  BY <1>2 DEF DictType
<1> HIDE DEF d
<1>7. DictOK(d) /\ AllEnts(d) = {}
  BY <1>2, <1>5, <1>6, TableNone DEF DictOK, Fits, AllEnts, Sizes
<1>8. Pairs(m) = {} /\ DOMAIN m \subseteq Keys /\ m \in [DOMAIN m -> Vals]
  BY DEF Pairs
<1> HIDE DEF m
<1> QED BY <1>1, <1>7, <1>8, StepInv

\* Steps that set a flag or count an iterator, or leave the dictionary alone.
LEMMA FlagStep ==
    ASSUME DictInv, UNCHANGED map,
           \/ dict' = dict
           \/ \E b \in BOOLEAN : dict' = [dict EXCEPT !.canResize = b]
           \/ \E n \in Int : dict' = [dict EXCEPT !.iterators = n]
    PROVE  DictInv'
<1>1. DictOK(dict) /\ dict \in DictType
  BY DEF DictInv, DictOK
<1>2. dict' \in DictType /\ dict'.ht = dict.ht /\ dict'.rehashidx = dict.rehashidx
  <2>1. CASE dict' = dict
    BY <1>1, <2>1
  <2>2. ASSUME NEW b \in BOOLEAN, dict' = [dict EXCEPT !.canResize = b]
        PROVE  dict' \in DictType /\ dict'.ht = dict.ht /\ dict'.rehashidx = dict.rehashidx
    BY <1>1, <2>2 DEF DictType
  <2>3. ASSUME NEW n \in Int, dict' = [dict EXCEPT !.iterators = n]
        PROVE  dict' \in DictType /\ dict'.ht = dict.ht /\ dict'.rehashidx = dict.rehashidx
    BY <1>1, <2>3 DEF DictType
  <2> QED BY <2>1, <2>2, <2>3
<1> DEFINE d == dict'
<1>3. d \in DictType /\ d.ht = dict.ht /\ d.rehashidx = dict.rehashidx
  BY <1>2
<1> HIDE DEF d
<1>4. DictOK(d) /\ AllEnts(d) = AllEnts(dict)
  BY <1>1, <1>3 DEF DictOK, AllEnts
<1> QED BY <1>4, SameInv DEF d

\* Every step keeps the invariant.
LEMMA DictInvStep ==
    DictInv /\ [DictNext]_dictVars => DictInv'
<1> SUFFICES ASSUME DictInv, [DictNext]_dictVars PROVE DictInv'
  OBVIOUS
<1>i. dict \in DictType /\ dict.iterators \in Int
  BY DictParts DEF DictInv
<1>1. ASSUME NEW k \in Keys, dictGenericDelete(k) PROVE DictInv'
  BY <1>1, DeleteStep
<1>2. ASSUME NEW k \in Keys, NEW v \in Vals, dictAdd(k, v) PROVE DictInv'
  BY <1>2, AddStep
<1>3. ASSUME NEW k \in Keys, NEW v \in Vals, dictReplace(k, v) PROVE DictInv'
  BY <1>3, ReplaceStep
<1>4. CASE \/ dictFind \/ dictResize \/ \E n \in 1 .. Cardinality(Keys) : dictGetSomeKeys(n) \/ dictExpand(n)
           \/ dictRehash(1) \/ dictRehashMilliseconds
  BY <1>4, MoveStep
<1>5. CASE dictEmpty
  BY <1>5, EmptyStep
<1>6. ASSUME NEW b \in BOOLEAN, dictEnableResize(b) PROVE DictInv'
  BY <1>6, FlagStep DEF dictEnableResize
<1>7. ASSUME NEW b \in BOOLEAN, dictGetIterator(b) PROVE DictInv'
  BY <1>7, FlagStep DEF dictGetIterator
<1>8. CASE dictNext
  <2>1. UNCHANGED map /\ (dict' = dict \/ dict' = [dict EXCEPT !.iterators = dict.iterators + 1])
    BY <1>8 DEF dictNext
  <2> QED BY <1>i, <2>1, FlagStep
<1>9. CASE dictReleaseIterator
  <2>1. UNCHANGED map /\ (dict' = dict \/ dict' = [dict EXCEPT !.iterators = dict.iterators - 1])
    BY <1>9 DEF dictReleaseIterator
  <2> QED BY <1>i, <2>1, FlagStep
<1>10. CASE dictScan \/ ScanEnd
  BY <1>10, FlagStep DEF dictScan, ScanEnd
<1>11. CASE UNCHANGED dictVars
  BY <1>11, FlagStep DEF dictVars
<1> QED BY <1>1, <1>2, <1>3, <1>4, <1>5, <1>6, <1>7, <1>8, <1>9, <1>10, <1>11 DEF DictNext

\* The tables of ztl_dict.c hold the entries of the map the calls made, each
\* in the bucket of its key and once, and between two tables while rehashing.
THEOREM DictInvariant ==
    DictInit /\ [][DictNext]_dictVars => []DictInv
<1>1. DictInit => DictInv
  BY DictInvInit
<1>2. DictInv /\ [DictNext]_dictVars => DictInv'
  BY DictInvStep
<1> QED BY <1>1, <1>2, PTL

\* At every moment the dictionary is the finite map the calls made of it:
\* lookups, counts, and the keys a random draw can reach.
THEOREM DictAlwaysIsMap ==
    DictInit /\ [][DictNext]_dictVars => []DictIsMap
<1>1. DictInv => DictIsMap
  BY InvIsMap
<1> QED BY <1>1, DictInvariant, PTL

-----------------------------------------------------------------------------
(* Reversed words *)

\* One turn of rev.
LEMMA RevTurnIs ==
    ASSUME NEW g, NEW w \in 1 .. Word, NEW v \in 0 .. Word - 1
    PROVE  RevTurn(g)[w][v] = IF w = 1 THEN 0 ELSE (v % 2) * (w \div 2) + g[w \div 2][v \div 2]
<1>1. RevTurn(g)[w] =
        [y \in 0 .. Word - 1 |-> IF w = 1 THEN 0 ELSE (y % 2) * (w \div 2) + g[w \div 2][y \div 2]]
  BY Zenon DEF RevTurn
<1> QED BY <1>1, Zenon

\* The recursion of rev ends: after as many turns as w, rev[w] no longer changes.
LEMMA RevIs ==
    ASSUME NEW w \in 1 .. Word, NEW v \in 0 .. Word - 1
    PROVE  rev[w][v] = IF w = 1 THEN 0 ELSE (v % 2) * (w \div 2) + rev[w \div 2][v \div 2]
<1>0. Word \in Nat \ {0}
  BY WordAssumption
<1>h. \A x \in 2 .. Word : x \div 2 \in 1 .. Word /\ x \div 2 < x
  BY <1>0
<1>v. \A y \in 0 .. Word - 1 : y \div 2 \in 0 .. Word - 1
  BY <1>0
<1> DEFINE s == [x \in 1 .. Word |-> 0]
<1>1. PICK g : Run(g, Word + 1, "rev", s, << >>)
  <2>1. Word + 1 \in Nat
    BY <1>0
  <2> QED BY <2>1, LoopRuns
<1> HIDE DEF s
<1>2. \A k \in 1 .. Word + 1 : g[k] = RevTurn(g[k - 1])
  <2>1. g = [k \in 0 .. Word + 1 |-> IF k = 0 THEN s ELSE RevTurn(g[k - 1])]
    BY <1>1 DEF Run, Turn
  <2>2. \A k \in 1 .. Word + 1 : k \in 0 .. Word + 1 /\ k # 0
    OBVIOUS
  <2> QED BY <2>1, <2>2
<1>3. \A k \in 1 .. Word + 1 : \A x \in 1 .. Word : \A y \in 0 .. Word - 1 :
        g[k][x][y] = IF x = 1 THEN 0 ELSE (y % 2) * (x \div 2) + g[k - 1][x \div 2][y \div 2]
  BY <1>2, RevTurnIs
<1> DEFINE S == {k \in 0 .. Word : \A x \in 1 .. k : \A y \in 0 .. Word - 1 : g[k + 1][x][y] = g[k][x][y]}
<1>4. 0 \in S
  BY <1>0
<1>5. ASSUME NEW k \in 1 .. Word, k - 1 \in S PROVE k \in S
  <2>1. ASSUME NEW x \in 1 .. k, NEW y \in 0 .. Word - 1 PROVE g[k + 1][x][y] = g[k][x][y]
    <3>1. /\ g[k + 1][x][y] = IF x = 1 THEN 0 ELSE (y % 2) * (x \div 2) + g[k][x \div 2][y \div 2]
          /\ g[k][x][y] = IF x = 1 THEN 0 ELSE (y % 2) * (x \div 2) + g[k - 1][x \div 2][y \div 2]
      <4>1. k \in 1 .. Word + 1 /\ k + 1 \in 1 .. Word + 1 /\ (k + 1) - 1 = k /\ x \in 1 .. Word
        BY <1>0
      <4> QED BY <1>3, <4>1
    <3>2. CASE x = 1
      BY <3>1, <3>2
    <3>3. CASE x # 1
      <4>1. x \div 2 \in 1 .. k - 1 /\ y \div 2 \in 0 .. Word - 1
        BY <1>v, <3>3
      <4>2. g[k][x \div 2][y \div 2] = g[k - 1][x \div 2][y \div 2]
        <5>1. \A a \in 1 .. k - 1 : \A b \in 0 .. Word - 1 : g[(k - 1) + 1][a][b] = g[k - 1][a][b]
          BY <1>5
        <5>2. (k - 1) + 1 = k
          OBVIOUS
        <5> QED BY <4>1, <5>1, <5>2
      <4> QED BY <3>1, <3>3, <4>2
    <3> QED BY <3>2, <3>3
  <2> QED BY <2>1
<1> HIDE DEF S
<1>6. Word \in S
  <2>1. \A k \in 0 .. Word : k \in S
    BY <1>0, <1>4, <1>5, UpTo
  <2> QED BY <1>0, <2>1
<1>7. \A x \in 1 .. Word : \A y \in 0 .. Word - 1 : g[Word + 1][x][y] = g[Word][x][y]
  BY <1>6 DEF S
<1> DEFINE f == g[Word + 1]
<1>8. f = [x \in 1 .. Word |->
             [y \in 0 .. Word - 1 |-> IF x = 1 THEN 0 ELSE (y % 2) * (x \div 2) + f[x \div 2][y \div 2]]]
  <2>1. f = RevTurn(g[Word])
    <3>1. Word + 1 \in 1 .. Word + 1 /\ (Word + 1) - 1 = Word
      BY <1>0
    <3> QED BY <1>2, <3>1
  <2>2. \A x \in 2 .. Word : \A y \in 0 .. Word - 1 : f[x \div 2][y \div 2] = g[Word][x \div 2][y \div 2]
    BY <1>7, <1>h, <1>v
  <2> HIDE DEF f
  <2>3. RevTurn(g[Word]) = RevTurn(f)
    <3>1. \A x \in 1 .. Word : x = 1 \/ x \in 2 .. Word
      OBVIOUS
    <3> QED BY <2>2, <3>1 DEF RevTurn
  <2>4. f = RevTurn(f)
    BY <2>1, <2>3
  <2> QED BY <2>4 DEF RevTurn
<1> HIDE DEF f
<1>9. rev = [x \in 1 .. Word |->
             [y \in 0 .. Word - 1 |-> IF x = 1 THEN 0 ELSE (y % 2) * (x \div 2) + rev[x \div 2][y \div 2]]]
  BY <1>8, Zenon DEF rev
<1>10. rev = RevTurn(rev)
  BY <1>9 DEF RevTurn
<1> QED BY <1>10, RevTurnIs

\* What holds of 1, and of a size if it holds of its half, holds of all sizes.
LEMMA HalvingUp ==
    ASSUME NEW S, 1 \in S, \A w \in Divisors : w # 1 /\ w \div 2 \in S => w \in S
    PROVE  \A w \in Divisors : w \in S
<1> DEFINE T == {w \in Divisors : w \notin S}
<1>1. SUFFICES ASSUME T # {} PROVE FALSE
  OBVIOUS
<1>2. T \subseteq Nat
  BY DivisorParts
<1>3. PICK x \in T : \A y \in T : ~(y < x)
  <2> HIDE DEF T
  <2> QED BY <1>1, <1>2, Lowest
<1>4. x \in Divisors /\ x # 1
  OBVIOUS
<1>5. x \div 2 \in Divisors /\ x \div 2 < x
  BY <1>4, Halves
<1> QED BY <1>3, <1>4, <1>5

\* Even and odd numbers below twice a size.
LEMMA Digits ==
    ASSUME NEW h \in Nat \ {0}, NEW v \in Nat
    PROVE  /\ (v % (2 * h)) % 2 = v % 2 /\ (v % (2 * h)) \div 2 = (v \div 2) % h
           /\ (v \div 2) \div h = v \div (2 * h)
           /\ v % 2 \in {0, 1} /\ v \div 2 \in Nat /\ v = 2 * (v \div 2) + (v % 2)
<1> DEFINE q == v \div (2 * h)  r == v % (2 * h)  a == r \div 2  c == r % 2
<1>1. 2 * h \in Nat \ {0}
  OBVIOUS
<1>2. q \in Nat /\ r \in 0 .. 2 * h - 1 /\ v = (2 * h) * q + r
  <2> DEFINE z == 2 * h
  <2>1. z \in Nat \ {0}
    BY <1>1
  <2> HIDE DEF z
  <2>2. v \div z \in Nat /\ v % z \in 0 .. z - 1 /\ v = z * (v \div z) + (v % z)
    BY <2>1, DivMod
  <2> QED BY <2>2 DEF z
<1>3. a \in Nat /\ c \in {0, 1} /\ r = 2 * a + c
  BY <1>2
<1>x. v \div 2 \in Nat /\ v % 2 \in {0, 1} /\ v = 2 * (v \div 2) + (v % 2)
  OBVIOUS
<1>q. q = v \div (2 * h) /\ r = v % (2 * h) /\ a = r \div 2 /\ c = r % 2
  OBVIOUS
<1> HIDE DEF q, r, a, c
<1>4. a \in 0 .. h - 1
  BY <1>2, <1>3
<1>5. h * q \in Nat /\ (2 * h) * q = 2 * (h * q)
  BY <1>2
<1>6. v = 2 * (h * q + a) + c /\ h * q + a \in Nat
  BY <1>2, <1>3, <1>5
<1>7. v \div 2 = h * q + a /\ v % 2 = c
  <2> DEFINE A == h * q + a  y == v \div 2  z == v % 2
  <2>1. A \in Nat /\ y \in Nat /\ z \in {0, 1} /\ c \in {0, 1} /\ 2 * A + c = 2 * y + z
    BY <1>3, <1>6, <1>x
  <2> HIDE DEF A, y, z
  <2>2. y = A /\ z = c
    BY <2>1
  <2> QED BY <2>2 DEF A, y, z
<1>8. (v \div 2) \div h = q /\ (v \div 2) % h = a
  BY <1>2, <1>4, <1>6, <1>7, Quotient
<1> QED BY <1>q, <1>x, <1>7, <1>8

\* The reversal of as many bits as w has is below w.
LEMMA RevType ==
    ASSUME NEW w \in Divisors
    PROVE  \A v \in 0 .. Word - 1 : rev[w][v] \in 0 .. w - 1
<1>0. Word \in Nat \ {0}
  BY WordAssumption
<1> DEFINE S == {x \in Divisors : \A v \in 0 .. Word - 1 : rev[x][v] \in 0 .. x - 1}
<1>1. 1 \in S
  <2>1. 1 \in Divisors /\ 1 \in 1 .. Word
    BY <1>0 DEF Divisors
  <2>2. \A v \in 0 .. Word - 1 : rev[1][v] = 0
    BY <2>1, RevIs
  <2> QED BY <2>1, <2>2
<1>2. ASSUME NEW x \in Divisors, x # 1, x \div 2 \in S PROVE x \in S
  <2> DEFINE h == x \div 2
  <2>1. h \in Nat \ {0} /\ x = 2 * h /\ x \in 1 .. Word
    BY <1>2, Halves DEF Divisors
  <2>2. \A v \in 0 .. Word - 1 : rev[h][v] \in 0 .. h - 1
    BY <1>2
  <2>3. ASSUME NEW v \in 0 .. Word - 1 PROVE rev[x][v] \in 0 .. x - 1
    <3>1. rev[x][v] = (v % 2) * h + rev[h][v \div 2]
      BY <1>2, <2>1, RevIs
    <3> HIDE DEF h
    <3>2. v \div 2 \in 0 .. Word - 1
      BY <1>0
    <3>3. rev[h][v \div 2] \in 0 .. h - 1
      BY <2>2, <3>2
    <3>4. v % 2 = 0 \/ v % 2 = 1
      OBVIOUS
    <3>5. CASE v % 2 = 0
      <4>1. rev[x][v] = rev[h][v \div 2]
        BY <2>1, <3>1, <3>3, <3>5
      <4> QED BY <2>1, <3>3, <4>1
    <3>6. CASE v % 2 = 1
      <4>1. rev[x][v] = h + rev[h][v \div 2]
        BY <2>1, <3>1, <3>6
      <4> QED BY <2>1, <3>3, <4>1
    <3> QED BY <3>4, <3>5, <3>6
  <2> QED BY <1>2, <2>3
<1> HIDE DEF S
<1>3. \A x \in Divisors : x \in S
  BY <1>1, <1>2, HalvingUp
<1> QED BY <1>3 DEF S

\* The low bits of a word become the high bits of its reversal, and the other way round.
LEMMA RevSplit ==
    ASSUME NEW s \in Divisors, NEW q \in Divisors, s * q \in Divisors, NEW v \in 0 .. Word - 1
    PROVE  rev[s * q][v] = q * rev[s][v % s] + rev[q][v \div s]
<1>0. Word \in Nat \ {0}
  BY WordAssumption
<1> DEFINE T == {x \in Divisors : \A y \in Divisors : x * y \in Divisors =>
                   \A u \in 0 .. Word - 1 : rev[x * y][u] = y * rev[x][u % x] + rev[y][u \div x]}
<1>1. 1 \in T
  <2>1. 1 \in Divisors /\ 1 \in 1 .. Word
    BY <1>0 DEF Divisors
  <2>2. ASSUME NEW y \in Divisors, NEW u \in 0 .. Word - 1
        PROVE  rev[1 * y][u] = y * rev[1][u % 1] + rev[y][u \div 1]
    <3>1. y \in Nat /\ 1 * y = y /\ u % 1 = 0 /\ u \div 1 = u /\ 0 \in 0 .. Word - 1
      BY <1>0, DivisorParts
    <3>2. rev[1][0] = 0
      BY <2>1, <3>1, RevIs
    <3>3. rev[y][u] \in Nat
      BY RevType, DivisorParts
    <3>4. y * 0 + rev[y][u] = rev[y][u]
      BY <3>1, <3>3
    <3> QED BY <3>1, <3>2, <3>4
  <2> QED BY <2>1, <2>2
<1>2. ASSUME NEW x \in Divisors, x # 1, x \div 2 \in T PROVE x \in T
  <2> DEFINE h == x \div 2
  <2>1. h \in Nat \ {0} /\ x = 2 * h /\ h \in Divisors
    BY <1>2, Halves
  <2>2. ASSUME NEW y \in Divisors, x * y \in Divisors, NEW u \in 0 .. Word - 1
        PROVE  rev[x * y][u] = y * rev[x][u % x] + rev[y][u \div x]
    <3> DEFINE a == rev[h][(u \div 2) % h]
               b == rev[y][(u \div 2) \div h]
    <3>1. y \in Nat \ {0} /\ x * y \in 1 .. Word /\ x \in 1 .. Word
      BY <2>2, DivisorParts DEF Divisors
    <3>2. /\ (u % x) % 2 = u % 2 /\ (u % x) \div 2 = (u \div 2) % h /\ (u \div 2) \div h = u \div x
          /\ u % 2 \in {0, 1} /\ u \div 2 \in 0 .. Word - 1 /\ u % x \in 0 .. Word - 1
      <4>1. u \in Nat
        BY <1>0
      <4>2. /\ (u % (2 * h)) % 2 = u % 2 /\ (u % (2 * h)) \div 2 = (u \div 2) % h
            /\ (u \div 2) \div h = u \div (2 * h) /\ u % 2 \in {0, 1}
        <5> HIDE DEF h
        <5> QED BY <2>1, <4>1, Digits
      <4>3. u \div 2 \in 0 .. Word - 1
        BY <1>0
      <4>4. u % x \in 0 .. x - 1
        BY <3>1, <4>1, DivMod
      <4>5. u % x \in 0 .. Word - 1
        BY <1>0, <3>1, <4>4
      <4> QED BY <2>1, <4>2, <4>3, <4>5
    <3>3. x * y # 1 /\ (x * y) \div 2 = h * y /\ h * y \in Divisors
      <4> DEFINE z == x * y
      <4>1. z = 2 * (h * y) /\ h * y \in Nat \ {0} /\ z # 1 /\ z \div 2 = h * y
        <5> HIDE DEF h
        <5>1. h * y \in Nat /\ h * y # 0
          BY <2>1, <3>1, Product
        <5>2. z = 2 * (h * y)
          BY <2>1, <3>1
        <5> QED BY <5>1, <5>2
      <4>2. z \div 2 \in Divisors
        <5>1. z \in Divisors /\ z # 1
          BY <2>2, <4>1
        <5> HIDE DEF z
        <5> QED BY <5>1, Halves
      <4> QED BY <4>1, <4>2
    <3>4. rev[x * y][u] = (u % 2) * (h * y) + rev[h * y][u \div 2]
      BY <3>1, <3>3, RevIs
    <3>5. rev[h * y][u \div 2] = y * a + b
      BY <1>2, <3>2, <3>3
    <3>6. rev[x][u % x] = (u % 2) * h + a
      BY <1>2, <3>1, <3>2, RevIs
    <3>7. a \in Nat /\ b \in Nat
      <4>1. (u \div 2) % h \in 0 .. Word - 1 /\ (u \div 2) \div h \in 0 .. Word - 1
        <5>1. u \div 2 \in Nat /\ h \in Nat \ {0} /\ u \div 2 <= Word - 1
          BY <1>0, <2>1, <3>2
        <5> HIDE DEF h
        <5>2. (u \div 2) % h \in 0 .. h - 1 /\ (u \div 2) \div h \in Nat
              /\ u \div 2 = h * ((u \div 2) \div h) + ((u \div 2) % h)
          BY <5>1, DivMod
        <5>3. h * ((u \div 2) \div h) >= (u \div 2) \div h
          BY <5>1, <5>2, Product
        <5> QED BY <1>0, <5>1, <5>2, <5>3
      <4>2. rev[h][(u \div 2) % h] \in 0 .. h - 1 /\ rev[y][(u \div 2) \div h] \in 0 .. y - 1
        <5> HIDE DEF h
        <5> QED BY <2>1, <4>1, RevType
      <4> QED BY <4>2, <2>1, <3>1
    <3>8. b = rev[y][u \div x]
      BY <3>2
    <3> HIDE DEF a, b, h
    <3>9. (u % 2) * (h * y) + (y * a + b) = y * ((u % 2) * h + a) + b
      <4>1. CASE u % 2 = 0
        BY <2>1, <3>1, <3>7, <4>1
      <4>2. CASE u % 2 = 1
        <5>1. y * (h + a) = h * y + y * a
          BY <2>1, <3>1, <3>7
        <5> QED BY <2>1, <3>1, <3>7, <4>2, <5>1
      <4> QED BY <3>2, <4>1, <4>2
    <3> QED BY <3>4, <3>5, <3>6, <3>8, <3>9
  <2> QED BY <1>2, <2>2
<1> HIDE DEF T
<1>3. s \in T
  <2>1. \A x \in Divisors : x \in T
    BY <1>1, <1>2, HalvingUp
  <2> QED BY <2>1
<1> QED BY <1>3 DEF T

\* No bits stay no bits, all bits stay all bits.
LEMMA RevEnds ==
    ASSUME NEW w \in Divisors
    PROVE  rev[w][0] = 0 /\ rev[w][w - 1] = w - 1
<1>0. Word \in Nat \ {0}
  BY WordAssumption
<1> DEFINE S == {x \in Divisors : rev[x][0] = 0 /\ rev[x][x - 1] = x - 1}
<1>1. 1 \in S
  <2>1. 1 \in Divisors /\ 1 \in 1 .. Word /\ 0 \in 0 .. Word - 1
    BY <1>0 DEF Divisors
  <2>2. rev[1][0] = 0
    BY <2>1, RevIs
  <2> QED BY <2>1, <2>2
<1>2. ASSUME NEW x \in Divisors, x # 1, x \div 2 \in S PROVE x \in S
  <2> DEFINE h == x \div 2
  <2>1. h \in Nat \ {0} /\ x = 2 * h /\ x \in 1 .. Word
    BY <1>2, Halves DEF Divisors
  <2>2. rev[h][0] = 0 /\ rev[h][h - 1] = h - 1
    BY <1>2
  <2>3. rev[x][0] = (0 % 2) * h + rev[h][0 \div 2] /\ rev[x][x - 1] = ((x - 1) % 2) * h + rev[h][(x - 1) \div 2]
    <3>1. 0 \in 0 .. Word - 1 /\ x - 1 \in 0 .. Word - 1
      BY <1>0, <2>1
    <3> QED BY <1>2, <2>1, <3>1, RevIs
  <2> HIDE DEF h
  <2>4. (x - 1) % 2 = 1 /\ (x - 1) \div 2 = h - 1 /\ 0 % 2 = 0 /\ 0 \div 2 = 0
    BY <2>1
  <2>5. rev[x][0] = 0 /\ rev[x][x - 1] = h + (h - 1)
    BY <2>1, <2>2, <2>3, <2>4
  <2> QED BY <2>1, <2>5
<1> HIDE DEF S
<1>3. \A x \in Divisors : x \in S
  BY <1>1, <1>2, HalvingUp
<1> QED BY <1>3 DEF S

\* Reversed twice, a word is itself again.
LEMMA RevBack ==
    ASSUME NEW w \in Divisors
    PROVE  \A v \in 0 .. w - 1 : rev[w][rev[w][v]] = v
<1>0. Word \in Nat \ {0}
  BY WordAssumption
<1> DEFINE S == {x \in Divisors : \A v \in 0 .. x - 1 : rev[x][rev[x][v]] = v}
<1>1. 1 \in S
  <2>1. 1 \in Divisors
    BY <1>0 DEF Divisors
  <2>2. rev[1][0] = 0
    BY <2>1, RevEnds
  <2> QED BY <2>1, <2>2
<1>2. ASSUME NEW x \in Divisors, x # 1, x \div 2 \in S PROVE x \in S
  <2> DEFINE h == x \div 2  two == 2
  <2>1. h \in Divisors /\ h \in Nat \ {0} /\ x = 2 * h /\ x \in 1 .. Word /\ h * two = x
    BY <1>2, Halves DEF Divisors
  <2>2. \A v \in 0 .. h - 1 : rev[h][rev[h][v]] = v
    BY <1>2
  <2>3. two \in Divisors /\ rev[two][0] = 0 /\ rev[two][1] = 1
    <3>1. x \in Nat \ {0} /\ Word \div x \in Nat /\ x * (Word \div x) = Word
      BY DivisorParts
    <3> DEFINE q == Word \div x
    <3>2. two \in Nat \ {0} /\ h * q \in Nat /\ two * (h * q) = Word
      <4> HIDE DEF h, q
      <4>1. q \in Nat /\ x * q = Word
        BY <3>1 DEF q
      <4> QED BY <2>1, <4>1
    <3>3. two \in Divisors
      <4> HIDE DEF two, h, q
      <4> QED BY <3>2, MakeDivisor
    <3>4. rev[two][0] = 0 /\ rev[two][two - 1] = two - 1
      <4> HIDE DEF two
      <4> QED BY <3>3, RevEnds
    <3>5. two - 1 = 1
      OBVIOUS
    <3> QED BY <3>3, <3>4, <3>5
  <2>4. ASSUME NEW v \in 0 .. x - 1 PROVE rev[x][rev[x][v]] = v
    <3> DEFINE a == v \div 2  c == v % 2  r == rev[h][a]  u == rev[x][v]
    <3>1. a \in 0 .. h - 1 /\ c \in {0, 1} /\ v = 2 * a + c /\ v \in 0 .. Word - 1
      <4> HIDE DEF h
      <4> QED BY <1>0, <2>1
    <3>2. u = c * h + r
      BY <1>2, <2>1, <3>1, RevIs
    <3>3. r \in 0 .. h - 1 /\ u \in 0 .. x - 1
      <4>1. a \in 0 .. Word - 1
        BY <1>0, <2>1, <3>1
      <4>2. rev[h][a] \in 0 .. h - 1
        <5> HIDE DEF h, a
        <5> QED BY <2>1, <4>1, RevType
      <4>3. rev[x][v] \in 0 .. x - 1
        BY <3>1, RevType
      <4> QED BY <4>2, <4>3
    <3>4. rev[h][r] = a
      BY <2>2, <3>1
    <3> HIDE DEF h, two, a, c, r, u
    <3>5. u % h = r /\ u \div h = c
      <4>1. u = h * c + r /\ u \in Nat /\ c \in Nat
        BY <2>1, <3>1, <3>2, <3>3
      <4> QED BY <2>1, <3>3, <4>1, Quotient
    <3>6. rev[h * two][u] = two * rev[h][u % h] + rev[two][u \div h]
      <4>1. u \in 0 .. Word - 1
        BY <1>0, <2>1, <3>3
      <4> QED BY <2>1, <2>3, <4>1, RevSplit
    <3>7. rev[two][c] = c
      BY <2>3, <3>1
    <3>8. rev[x][u] = two * a + c
      BY <2>1, <3>4, <3>5, <3>6, <3>7
    <3> QED BY <3>1, <3>8 DEF two, u
  <2> QED BY <1>2, <2>4
<1> HIDE DEF S
<1>3. \A x \in Divisors : x \in S
  BY <1>1, <1>2, HalvingUp
<1> QED BY <1>3 DEF S

-----------------------------------------------------------------------------
(* The order of a scan: words by their reversals *)

Pos(v) == rev[Word][v]

\* The place of bucket v % w in the order in which a scan visits w buckets.
Place(v, w) == rev[w][v % w]

\* Word is a size itself.
LEMMA WholeWord ==
    Word \in Divisors /\ Word \in Nat \ {0}
<1>1. Word \in Nat \ {0} /\ Word * 1 = Word /\ 1 \in Nat
  BY WordAssumption
<1> DEFINE one == 1
<1>2. one \in Nat /\ Word * one = Word
  BY <1>1
<1> HIDE DEF one
<1> QED BY <1>1, <1>2, MakeDivisor

\* The words in bucket b follow each other.
LEMMA PosParts ==
    ASSUME NEW w \in Divisors, NEW v \in 0 .. Word - 1
    PROVE  /\ Pos(v) \in 0 .. Word - 1 /\ Place(v, w) \in 0 .. w - 1 /\ Word \div w \in Nat \ {0}
           /\ Pos(v) = (Word \div w) * Place(v, w) + rev[Word \div w][v \div w]
           /\ rev[Word \div w][v \div w] \in 0 .. (Word \div w) - 1
           /\ Pos(v) \div (Word \div w) = Place(v, w)
<1> DEFINE q == Word \div w  r == rev[q][v \div w]
<1>1. w \in Nat \ {0} /\ w <= Word /\ Word \in Nat \ {0} /\ q \in Nat \ {0} /\ w * q = Word
  BY DivisorParts
<1>q. r = rev[q][v \div w] /\ q = Word \div w
  OBVIOUS
<1> HIDE DEF q, r
<1>2. q \in Divisors
  BY <1>1, MakeDivisor
<1>3. v % w \in 0 .. Word - 1 /\ v \div w \in 0 .. Word - 1
  <2>0. v \in Nat
    BY <1>1
  <2>1. v \in Nat /\ v % w \in 0 .. w - 1 /\ v \div w \in Nat /\ v = w * (v \div w) + (v % w)
    BY <1>1, <2>0, DivMod
  <2>2. w * (v \div w) >= v \div w
    BY <1>1, <2>1, Product
  <2> QED BY <1>1, <2>1, <2>2
<1>4. Place(v, w) \in 0 .. w - 1 /\ r \in 0 .. q - 1
  BY <1>2, <1>3, <1>q, RevType DEF Place
<1>5. Pos(v) \in 0 .. Word - 1
  BY WholeWord, RevType DEF Pos
<1>6. Pos(v) = q * Place(v, w) + r
  <2>1. rev[w * q][v] = q * rev[w][v % w] + rev[q][v \div w]
    BY <1>1, <1>2, WholeWord, RevSplit
  <2> QED BY <1>1, <1>q, <2>1 DEF Pos, Place
<1>7. Pos(v) \div q = Place(v, w)
  BY <1>1, <1>4, <1>5, <1>6, Quotient
<1> QED BY <1>1, <1>q, <1>4, <1>5, <1>6, <1>7

\* Words have the same place if they are in the same bucket only.
LEMMA SamePlace ==
    ASSUME NEW w \in Divisors, NEW u \in Nat, NEW v \in Nat, Place(u, w) = Place(v, w)
    PROVE  u % w = v % w
<1>1. w \in Nat \ {0}
  BY DivisorParts
<1>2. u % w \in 0 .. w - 1 /\ v % w \in 0 .. w - 1
  BY <1>1, DivMod
<1>3. rev[w][rev[w][u % w]] = u % w /\ rev[w][rev[w][v % w]] = v % w
  BY <1>2, RevBack
<1> QED BY <1>3 DEF Place

\* The scan begins and ends at 0, and a place and its position determine each other.
LEMMA PosZero ==
    /\ 0 \in 0 .. Word - 1 /\ Pos(0) = 0
    /\ \A v \in 0 .. Word - 1 : Pos(v) \in 0 .. Word - 1 /\ Pos(Pos(v)) = v /\ (Pos(v) = 0 => v = 0)
<1>1. 0 \in 0 .. Word - 1 /\ Pos(0) = 0
  BY WholeWord, RevEnds DEF Pos
<1>2. ASSUME NEW v \in 0 .. Word - 1 PROVE Pos(v) \in 0 .. Word - 1 /\ Pos(Pos(v)) = v /\ (Pos(v) = 0 => v = 0)
  <2>1. Pos(v) \in 0 .. Word - 1
    BY WholeWord, RevType DEF Pos
  <2>2. Pos(Pos(v)) = v
    BY WholeWord, RevBack DEF Pos
  <2> QED BY <1>1, <2>1, <2>2
<1> QED BY <1>1, <1>2

\* The cursor moves to the first word of the next bucket, or to 0 after the last.
LEMMA NextIs ==
    ASSUME NEW w \in Divisors, NEW v \in 0 .. Word - 1
    PROVE  /\ NextCursor(v, w) \in 0 .. Word - 1
           /\ Pos(NextCursor(v, w)) =
                IF Place(v, w) + 1 = w THEN 0 ELSE (Word \div w) * (Place(v, w) + 1)
<1> DEFINE q == Word \div w  p == Place(v, w)  u == (v % w) + (Word - w)  n == NextCursor(v, w)
<1>1. w \in Nat \ {0} /\ w <= Word /\ Word \in Nat \ {0} /\ q \in Nat \ {0} /\ w * q = Word
  BY DivisorParts
<1>2. p \in 0 .. w - 1
  BY PosParts
<1>3. v % w \in 0 .. w - 1
  <2>1. v \in Nat
    BY <1>1
  <2> QED BY <1>1, <2>1, DivMod
<1>4. n = Pos((Pos(u) + 1) % Word)
  BY DEF NextCursor, Pos
<1>p. p = Place(v, w) /\ q = Word \div w /\ u = (v % w) + (Word - w) /\ n = NextCursor(v, w)
  OBVIOUS
<1> HIDE DEF q, p, u, n
<1>5. u \in 0 .. Word - 1
  BY <1>1, <1>3, <1>p
<1>6. u % w = v % w /\ u \div w = q - 1
  <2>1. w * (q - 1) = Word - w
    BY <1>1
  <2>2. u \in Nat /\ q - 1 \in Nat /\ u = w * (q - 1) + (v % w)
    BY <1>1, <1>3, <1>5, <1>p, <2>1
  <2> QED BY <1>1, <1>3, <2>2, Quotient
<1>7. Pos(u) = q * p + (q - 1)
  <2>1. Pos(u) = q * Place(u, w) + rev[q][u \div w]
    BY <1>5, <1>p, PosParts
  <2>2. Place(u, w) = p
    BY <1>6, <1>p DEF Place
  <2>3. rev[q][q - 1] = q - 1
    BY <1>1, MakeDivisor, RevEnds
  <2> QED BY <1>6, <2>1, <2>2, <2>3
<1>8. q * (p + 1) = q * p + q /\ q * p \in Nat
  BY <1>1, <1>2
<1>9. CASE p + 1 = w
  <2>1. Pos(u) + 1 = Word
    BY <1>1, <1>2, <1>7, <1>8, <1>9
  <2>2. (Pos(u) + 1) % Word = 0
    BY <1>1, <2>1
  <2> QED BY <1>4, <1>9, <1>p, <2>2, PosZero
<1>10. CASE p + 1 # w
  <2>1. q * (p + 1) + q <= Word
    <3>1. w - p - 2 \in Nat
      BY <1>1, <1>2, <1>10
    <3>2. q * (w - p - 2) >= 0
      BY <1>1, <3>1
    <3>3. q * (w - p - 2) = q * w - q * (p + 1) - q
      BY <1>1, <1>2
    <3> QED BY <1>1, <1>2, <3>2, <3>3
  <2>2. Pos(u) + 1 = q * (p + 1) /\ Pos(u) + 1 \in 0 .. Word - 1
    BY <1>1, <1>2, <1>7, <1>8, <2>1
  <2>3. (Pos(u) + 1) % Word = q * (p + 1)
    BY <1>1, <2>2
  <2> QED BY <1>4, <1>10, <1>p, <2>2, <2>3, PosZero
<1> QED BY <1>9, <1>10, <1>p

\* The smaller of two sizes divides the larger one.
LEMMA SizesNest ==
    ASSUME NEW s \in Divisors, NEW l \in Divisors, s <= l
    PROVE  \E e \in Divisors : l = s * e
<1> DEFINE T == {x \in Divisors : \A y \in Divisors : x <= y => \E e \in Divisors : y = x * e}
<1>1. 1 \in T
  <2>1. 1 \in Divisors
    BY WholeWord DEF Divisors
  <2>2. \A y \in Divisors : y = 1 * y
    BY DivisorParts
  <2> QED BY <2>1, <2>2
<1>2. ASSUME NEW x \in Divisors, x # 1, x \div 2 \in T PROVE x \in T
  <2> DEFINE h == x \div 2
  <2>1. h \in Divisors /\ x = 2 * h /\ h \in Nat \ {0}
    BY <1>2, Halves
  <2>2. ASSUME NEW y \in Divisors, x <= y PROVE \E e \in Divisors : y = x * e
    <3> DEFINE g == y \div 2
    <3>1. y \in Nat \ {0} /\ y # 1
      <4>1. y \in Nat \ {0}
        BY DivisorParts
      <4> HIDE DEF h
      <4> QED BY <2>1, <2>2, <4>1
    <3>2. g \in Divisors /\ y = 2 * g /\ g \in Nat \ {0}
      BY <3>1, Halves
    <3>3. h <= g
      <4> HIDE DEF h, g
      <4> QED BY <2>1, <2>2, <3>2
    <3>4. PICK e \in Divisors : g = h * e
      BY <1>2, <3>2, <3>3
    <3>5. e \in Nat
      BY DivisorParts
    <3> HIDE DEF h, g
    <3>6. y = x * e
      BY <2>1, <3>2, <3>4, <3>5
    <3> QED BY <3>6
  <2> QED BY <1>2, <2>2
<1> HIDE DEF T
<1>3. s \in T
  <2>1. \A x \in Divisors : x \in T
    BY <1>1, <1>2, HalvingUp
  <2> QED BY <2>1
<1> QED BY <1>3 DEF T

\* A remainder has the remainders of the number.
LEMMA Remainders ==
    ASSUME NEW a \in Nat, NEW w \in Nat \ {0}, NEW e \in Nat \ {0}
    PROVE  (a % (w * e)) % w = a % w /\ (a % (w * e)) \div w \in 0 .. e - 1
<1> DEFINE l == w * e  q == a \div l  r == a % l  p == r \div w  t == r % w
<1>1. l \in Nat \ {0}
  BY Product
<1>l. l = w * e
  OBVIOUS
<1>2. q \in Nat /\ r \in 0 .. l - 1 /\ a = l * q + r
  <2> HIDE DEF l
  <2> QED BY <1>1, DivMod
<1>3. p \in Nat /\ t \in 0 .. w - 1 /\ r = w * p + t
  <2>1. r \in Nat
    BY <1>1, <1>2
  <2> HIDE DEF r
  <2> QED BY <2>1, DivMod
<1>p. p = (a % (w * e)) \div w /\ t = (a % (w * e)) % w
  OBVIOUS
<1> HIDE DEF l, q, r, p, t
<1>4. l * q = w * (e * q) /\ e * q \in Nat
  BY <1>2, <1>l
<1>5. a = w * (e * q + p) + t /\ e * q + p \in Nat
  BY <1>2, <1>3, <1>4
<1>6. a % w = t
  BY <1>3, <1>5, Quotient
<1>7. p <= e - 1
  <2>1. SUFFICES ASSUME p >= e PROVE FALSE
    BY <1>3
  <2>2. p - e \in Nat /\ w * (p - e) >= 0
    BY <1>3, <2>1
  <2>3. w * p >= w * e
    BY <1>3, <2>2
  <2> QED BY <1>2, <1>3, <1>l, <2>3
<1> QED BY <1>3, <1>6, <1>7, <1>p

\* A bucket of the smaller table is made of e consecutive ones of the larger.
LEMMA PlaceParts ==
    ASSUME NEW s \in Divisors, NEW e \in Divisors, NEW l \in Divisors, l = s * e, NEW u \in 0 .. Word - 1
    PROVE  /\ Place(u, l) = e * Place(u, s) + rev[e][(u % l) \div s]
           /\ rev[e][(u % l) \div s] \in 0 .. e - 1
           /\ (u % l) \div s = 0 <=> rev[e][(u % l) \div s] = 0
           /\ Place(u, s) \in 0 .. s - 1
<1> DEFINE a == (u % l) \div s
<1>1. s \in Nat \ {0} /\ e \in Nat \ {0} /\ e <= Word /\ l \in Nat \ {0} /\ l <= Word /\ Word \in Nat \ {0}
  BY DivisorParts
<1>2. u \in Nat
  BY <1>1
<1>3. (u % l) % s = u % s /\ a \in 0 .. e - 1
  BY <1>1, <1>2, Remainders
<1>4. u % l \in 0 .. Word - 1
  <2>1. u % l \in 0 .. l - 1
    BY <1>1, <1>2, DivMod
  <2> QED BY <1>1, <2>1
<1>5. rev[s * e][u % l] = e * rev[s][(u % l) % s] + rev[e][(u % l) \div s]
  <2> DEFINE z == u % l
  <2>1. z \in 0 .. Word - 1
    BY <1>4
  <2> HIDE DEF z
  <2>2. rev[s * e][z] = e * rev[s][z % s] + rev[e][z \div s]
    BY <2>1, RevSplit
  <2> QED BY <2>2 DEF z
<1>6. rev[e][a] \in 0 .. e - 1
  <2>1. a \in 0 .. Word - 1
    BY <1>1, <1>3
  <2> HIDE DEF a
  <2> QED BY <2>1, RevType
<1>7. a = 0 <=> rev[e][a] = 0
  <2>1. rev[e][rev[e][a]] = a /\ rev[e][0] = 0
    <3> HIDE DEF a
    <3> QED BY <1>3, RevBack, RevEnds
  <2> QED BY <2>1
<1>8. Place(u, s) \in 0 .. s - 1
  BY PosParts
<1> QED BY <1>3, <1>5, <1>6, <1>7, <1>8 DEF Place

-----------------------------------------------------------------------------
(* One call of dictScan *)

Spot(k) == Hash[k] % Word

\* A key's spot has the low bits of its hash.
LEMMA SpotIn ==
    ASSUME NEW k \in Keys
    PROVE  Spot(k) \in 0 .. Word - 1 /\ \A w \in Divisors : Spot(k) % w = Home(k, w)
<1>1. Hash[k] \in Nat /\ Word \in Nat \ {0}
  BY DictAssumption, WordAssumption
<1>2. Spot(k) \in 0 .. Word - 1
  BY <1>1, DivMod DEF Spot
<1>3. ASSUME NEW w \in Divisors PROVE Spot(k) % w = Home(k, w)
  <2>1. w \in Nat \ {0} /\ Word \div w \in Nat \ {0} /\ w * (Word \div w) = Word
    BY DivisorParts
  <2>2. (Hash[k] % (w * (Word \div w))) % w = Hash[k] % w
    BY <1>1, <2>1, Remainders
  <2> QED BY <2>1, <2>2 DEF Spot, Home
<1> QED BY <1>2, <1>3

\* Every key of the bucket of the cursor is reported.
LEMMA Emitted ==
    ASSUME NEW t, Good(t), Size(t) \in Divisors, NEW v \in 0 .. Word - 1, NEW k \in TableKeys(t),
           Place(Spot(k), Size(t)) = Place(v, Size(t))
    PROVE  k \in Emit(t, v)
<1> DEFINE w == Size(t)
<1>1. t \in Tables /\ Chained(t) /\ k \in Keys /\ Word \in Nat \ {0}
  BY TableSets, WholeWord DEF Good
<1>2. Spot(k) \in 0 .. Word - 1 /\ Spot(k) % w = Home(k, w)
  BY <1>1, SpotIn
<1>3. Spot(k) % w = v % w
  <2>1. Spot(k) \in Nat /\ v \in Nat
    BY <1>1, <1>2
  <2> QED BY <2>1, SamePlace
<1>4. w # 0
  BY DivisorParts
<1>5. k \in ChainKeys(t.table[Home(k, w)])
  BY <1>1, <1>4, LookedUp
<1> QED BY <1>2, <1>3, <1>5 DEF Emit, Bucket

\* A later place, a later word.
LEMMA LaterPlace ==
    ASSUME NEW w \in Divisors, NEW u \in 0 .. Word - 1, NEW v \in 0 .. Word - 1
    PROVE  /\ Pos(u) >= Pos(v) => Place(u, w) >= Place(v, w)
           /\ \A p \in Nat : Place(u, w) >= p => Pos(u) >= (Word \div w) * p
<1> DEFINE q == Word \div w  a == Place(u, w)  b == Place(v, w)  x == rev[q][u \div w]  y == rev[q][v \div w]
<1>1. w \in Nat \ {0} /\ q \in Nat \ {0}
  BY DivisorParts
<1>2. /\ a \in 0 .. w - 1 /\ x \in 0 .. q - 1 /\ Pos(u) = q * a + x
      /\ b \in 0 .. w - 1 /\ y \in 0 .. q - 1 /\ Pos(v) = q * b + y
  BY PosParts
<1>q. q = Word \div w /\ a = Place(u, w) /\ b = Place(v, w)
  OBVIOUS
<1> HIDE DEF q, a, b, x, y
<1>3. ASSUME NEW p \in Nat, a >= p PROVE Pos(u) >= q * p
  <2>1. a - p \in Nat
    BY <1>1, <1>2, <1>3
  <2>2. q * (a - p) >= 0
    BY <1>1, <2>1
  <2>3. q * (a - p) = q * a - q * p
    BY <1>1, <1>2, <2>1
  <2> QED BY <1>1, <1>2, <2>2, <2>3
<1>4. ASSUME Pos(u) >= Pos(v), ~(a >= b) PROVE FALSE
  <2>1. b - a - 1 \in Nat
    BY <1>1, <1>2, <1>4
  <2>2. q * (b - a - 1) >= 0
    BY <1>1, <2>1
  <2>3. q * (b - a - 1) = q * b - q * a - q
    BY <1>1, <1>2, <2>1
  <2>4. q * a \in Nat /\ q * b \in Nat
    BY <1>1, <1>2
  <2> QED BY <1>1, <1>2, <1>4, <2>2, <2>3, <2>4
<1> QED BY <1>3, <1>4, <1>q

\* n is the first word after the bucket of v among w buckets, 0 when there is none.
NextPlace(n, v, w) ==
    /\ n \in 0 .. Word - 1
    /\ Pos(n) = IF Place(v, w) + 1 = w THEN 0 ELSE (Word \div w) * (Place(v, w) + 1)

\* A word from v on that is not in the bucket of v is from n on.
LEMMA LeftOver ==
    ASSUME NEW w \in Divisors, NEW u \in 0 .. Word - 1, NEW v \in 0 .. Word - 1, NEW n, NextPlace(n, v, w),
           Pos(u) >= Pos(v), Place(u, w) # Place(v, w)
    PROVE  n # 0 /\ Pos(u) >= Pos(n)
<1> DEFINE q == Word \div w  a == Place(u, w)  b == Place(v, w)
<1>1. w \in Nat \ {0} /\ q \in Nat \ {0} /\ a \in 0 .. w - 1 /\ b \in 0 .. w - 1
  BY DivisorParts, PosParts
<1>2. a >= b /\ a # b
  BY LaterPlace
<1>3. Pos(n) = IF b + 1 = w THEN 0 ELSE q * (b + 1)
  BY DEF NextPlace
<1>4. b + 1 \in Nat /\ a >= b + 1 => Pos(u) >= q * (b + 1)
  BY <1>1, LaterPlace
<1> HIDE DEF q, a, b
<1>5. a >= b + 1 /\ b + 1 # w /\ b + 1 \in Nat \ {0}
  BY <1>1, <1>2
<1>6. Pos(n) = q * (b + 1) /\ Pos(u) >= Pos(n)
  BY <1>3, <1>4, <1>5
<1>7. Pos(n) # 0
  BY <1>1, <1>5, <1>6, Product
<1>8. n # 0
  BY <1>7, PosZero
<1> QED BY <1>6, <1>8

\* While it expands a bucket the cursor goes through the words of the larger
\* table one place after the other; r is the place in the bucket it began at.
Cursors(at, v, l) == at = [i \in 0 .. l |-> IF i = 0 THEN v ELSE NextCursor(at[i - 1], l)]

\* The cursor walks through the buckets of the larger table that expand one of the smaller.
LEMMA Walk ==
    ASSUME NEW s \in Divisors, NEW e \in Divisors, NEW l \in Divisors, l = s * e, NEW v \in 0 .. Word - 1,
           NEW at, Cursors(at, v, l),
           NEW r \in 0 .. e - 1, Place(v, l) = e * Place(v, s) + r
    PROVE  /\ \A i \in 0 .. e - r - 1 : at[i] \in 0 .. Word - 1 /\ Place(at[i], l) = Place(v, l) + i
           /\ NextPlace(at[e - r], v, s)
<1> DEFINE b == Place(v, s)  p == Place(v, l)  m == e - r  Q == Word \div l
<1>1. /\ s \in Nat \ {0} /\ e \in Nat \ {0} /\ l \in Nat \ {0} /\ l <= Word /\ Word \in Nat \ {0}
      /\ Q \in Nat \ {0} /\ l * Q = Word
  BY DivisorParts
<1>2. b \in 0 .. s - 1 /\ p \in 0 .. l - 1 /\ m \in 1 .. e /\ p = e * b + r
  BY <1>1, PosParts
<1>d. p = Place(v, l) /\ b = Place(v, s) /\ m = e - r /\ Q = Word \div l
  OBVIOUS
<1> HIDE DEF b, p, m, Q
<1>3. e * (b + 1) = p + m /\ p + m <= l /\ (p + m = l <=> b + 1 = s) /\ m <= l
  <2>1. e * (b + 1) = e * b + e /\ e * b \in Nat
    BY <1>1, <1>2
  <2>2. e * (b + 1) = p + m
    <3>1. m = e - r /\ p = e * b + r /\ r \in 0 .. e - 1
      BY <1>2, <1>d
    <3> QED BY <1>1, <2>1, <3>1
  <2>3. s - (b + 1) \in Nat /\ e * (s - (b + 1)) = l - (p + m)
    <3>1. e * (s - (b + 1)) = e * s - e * (b + 1)
      BY <1>1, <1>2
    <3> QED BY <1>1, <1>2, <2>2, <3>1
  <2>4. e * (s - (b + 1)) \in Nat /\ (e * (s - (b + 1)) = 0 <=> s - (b + 1) = 0)
    BY <1>1, <2>3, Product
  <2> DEFINE X == e * (s - (b + 1))
  <2>5. X \in Nat /\ X = l - (p + m) /\ (X = 0 <=> s - (b + 1) = 0)
    BY <2>3, <2>4
  <2>6. e <= l
    BY <1>1, Product
  <2> HIDE DEF X
  <2> QED BY <1>1, <1>2, <2>2, <2>5, <2>6
<1> DEFINE S == {i \in 0 .. m : /\ at[i] \in 0 .. Word - 1
                                /\ p + i < l => Place(at[i], l) = p + i
                                /\ i > 0 => Pos(at[i]) = IF p + i = l THEN 0 ELSE Q * (p + i)}
<1>4. 0 \in S
  <2>1. at[0] = v
    BY <1>1 DEF Cursors
  <2> QED BY <1>1, <1>2, <1>d, <2>1
<1>5. ASSUME NEW i \in 1 .. m, i - 1 \in S PROVE i \in S
  <2>1. i \in 1 .. l /\ p + i <= l
    BY <1>1, <1>2, <1>3
  <2>2. at[i] = NextCursor(at[i - 1], l)
    BY <1>1, <2>1 DEF Cursors
  <2>3. at[i - 1] \in 0 .. Word - 1 /\ Place(at[i - 1], l) = p + (i - 1)
    BY <1>1, <1>2, <1>5, <2>1
  <2>4. /\ at[i] \in 0 .. Word - 1
        /\ Pos(at[i]) = IF p + (i - 1) + 1 = l THEN 0 ELSE Q * (p + (i - 1) + 1)
    <3>1. /\ NextCursor(at[i - 1], l) \in 0 .. Word - 1
          /\ Pos(NextCursor(at[i - 1], l)) =
               IF Place(at[i - 1], l) + 1 = l THEN 0 ELSE (Word \div l) * (Place(at[i - 1], l) + 1)
      BY <2>3, NextIs
    <3> QED BY <1>d, <2>2, <2>3, <3>1
  <2>5. p + (i - 1) + 1 = p + i /\ p + i \in Nat
    BY <1>2
  <2>6. ASSUME p + i < l PROVE Place(at[i], l) = p + i
    <3>1. Pos(at[i]) = Q * (p + i) + 0 /\ Pos(at[i]) \in Nat
      BY <1>1, <2>4, <2>5, <2>6
    <3>2. Pos(at[i]) \div Q = p + i
      BY <1>1, <2>5, <3>1, Quotient
    <3> QED BY <1>d, <2>4, <3>2, PosParts
  <2>7. i \in 0 .. m
    OBVIOUS
  <2> QED BY <2>4, <2>5, <2>6, <2>7
<1>6. \A i \in 0 .. m : i \in S
  <2> HIDE DEF S
  <2>1. m \in Nat
    BY <1>1, <1>2
  <2> QED BY <1>4, <1>5, <2>1, UpTo
<1>7. \A i \in 0 .. m - 1 : at[i] \in 0 .. Word - 1 /\ Place(at[i], l) = p + i
  <2>1. \A i \in 0 .. m - 1 : i \in 0 .. m /\ p + i < l
    BY <1>1, <1>2, <1>3
  <2> QED BY <1>6, <2>1
<1>8. at[m] \in 0 .. Word - 1 /\ Pos(at[m]) = IF b + 1 = s THEN 0 ELSE Q * (e * (b + 1))
  <2>1. m \in 0 .. m /\ m > 0
    BY <1>1, <1>2
  <2>2. m \in S
    BY <1>6, <2>1
  <2> QED BY <1>3, <2>1, <2>2
<1>9. Q * (e * (b + 1)) = (Word \div s) * (b + 1)
  <2>1. s * (Q * e) = Word /\ Q * e \in Nat
    BY <1>1
  <2>2. Word \div s = Q * e
    BY <1>1, <2>1, MakeDivisor
  <2>3. Q * (e * (b + 1)) = (Q * e) * (b + 1)
    BY <1>1, <1>2
  <2> QED BY <2>2, <2>3
<1>10. NextPlace(at[m], v, s)
  BY <1>8, <1>9 DEF NextPlace, b
<1> QED BY <1>7, <1>10, <1>d

\* dictScan reports all of them, and goes on to the next bucket of the smaller table.
LEMMA ExpansionIs ==
    ASSUME NEW small, NEW large, Good(large), Size(small) \in Divisors, Size(large) \in Divisors,
           Size(small) <= Size(large), NEW v \in 0 .. Word - 1, NEW x, x = Expansion(v, small, large)
    PROVE  /\ NextPlace(x.cursor, v, Size(small))
           /\ \A k \in TableKeys(large) :
                Pos(Spot(k)) >= Pos(v) /\ Place(Spot(k), Size(small)) = Place(v, Size(small)) => k \in x.keys
<1> DEFINE s == Size(small)  l == Size(large)
           at == CHOOSE g : g = [i \in 0 .. l |-> IF i = 0 THEN v ELSE NextCursor(g[i - 1], l)]
           last == CHOOSE i \in 1 .. l : /\ (at[i] % l) \div s = 0
                                         /\ \A j \in 1 .. i - 1 : (at[j] % l) \div s # 0
<1>1. Cursors(at, v, l)
  <2>1. l \in Nat
    BY DivisorParts
  <2> HIDE DEF l
  <2>2. PICK g : Run(g, l, "cursor", v, [i \in 0 .. l |-> l])
    BY <2>1, LoopRuns
  <2>3. g = [i \in 0 .. l |-> IF i = 0 THEN v ELSE NextCursor(g[i - 1], l)]
    BY <2>2 DEF Run, Turn
  <2> QED BY <2>3, Zenon DEF Cursors
<1>x. x.keys = UNION {Emit(large, at[i]) : i \in 0 .. last - 1} /\ x.cursor = at[last]
  BY DEF Expansion
<1>d. s \in Divisors /\ l \in Divisors /\ s <= l /\ s = Size(small) /\ l = Size(large)
  OBVIOUS
<1>l. last = CHOOSE i \in 1 .. l : /\ (at[i] % l) \div s = 0
                                   /\ \A j \in 1 .. i - 1 : (at[j] % l) \div s # 0
  OBVIOUS
<1> HIDE DEF s, l, at, last
<1>2. PICK e \in Divisors : l = s * e
  BY <1>d, SizesNest
<1>q. \A u \in 0 .. Word - 1 : /\ Place(u, l) = e * Place(u, s) + rev[e][(u % l) \div s]
                               /\ rev[e][(u % l) \div s] \in 0 .. e - 1
                               /\ (u % l) \div s = 0 <=> rev[e][(u % l) \div s] = 0
                               /\ Place(u, s) \in 0 .. s - 1
  BY <1>2, <1>d, PlaceParts
<1>3. /\ s \in Nat \ {0} /\ e \in Nat \ {0} /\ l \in Nat \ {0} /\ l <= Word /\ Word \in Nat \ {0}
  BY <1>d, DivisorParts
<1> DEFINE b == Place(v, s)  p == Place(v, l)  r == rev[e][(v % l) \div s]  m == e - r
<1>4. p = e * b + r /\ r \in 0 .. e - 1 /\ b \in 0 .. s - 1
  BY <1>q, Zenon
<1>m. p = Place(v, l) /\ b = Place(v, s) /\ m = e - r
  OBVIOUS
<1> HIDE DEF b, p, r, m
<1>5. /\ \A i \in 0 .. m - 1 : at[i] \in 0 .. Word - 1 /\ Place(at[i], l) = p + i
      /\ NextPlace(at[m], v, s)
  <2>1. /\ \A i \in 0 .. e - r - 1 : at[i] \in 0 .. Word - 1 /\ Place(at[i], l) = Place(v, l) + i
        /\ NextPlace(at[e - r], v, s)
    <3>1. Place(v, l) = e * Place(v, s) + r
      BY <1>4, <1>m
    <3> QED BY <1>1, <1>2, <1>4, <1>d, <3>1, Walk
  <2> QED BY <1>m, <2>1
<1>6. m \in 1 .. e /\ m <= l
  <2>1. e <= l
    BY <1>2, <1>3, Product
  <2> QED BY <1>3, <1>4, <1>m, <2>1
<1>7. \A j \in 1 .. m - 1 : (at[j] % l) \div s # 0
  <2> SUFFICES ASSUME NEW j \in 1 .. m - 1 PROVE (at[j] % l) \div s # 0
    OBVIOUS
  <2> DEFINE c == Place(at[j], s)  f == rev[e][(at[j] % l) \div s]
  <2>1. at[j] \in 0 .. Word - 1 /\ Place(at[j], l) = p + j
    BY <1>5, <1>6
  <2>2. Place(at[j], l) = e * c + f /\ f \in 0 .. e - 1 /\ c \in 0 .. s - 1 /\ ((at[j] % l) \div s = 0 <=> f = 0)
    BY <1>q, <2>1, Zenon
  <2> HIDE DEF c, f
  <2>3. e * c + f = e * b + (r + j) /\ r + j \in 1 .. e - 1
    BY <1>3, <1>4, <1>6, <1>m, <2>1, <2>2
  <2>4. f = r + j
    <3> DEFINE g == r + j
    <3>1. g \in 0 .. e - 1 /\ e * c + f = e * b + g /\ c \in Nat /\ b \in Nat
      BY <1>3, <1>4, <2>2, <2>3
    <3> HIDE DEF g
    <3>2. f = g
      BY <1>3, <2>2, <3>1, OneQuotient
    <3> QED BY <3>2 DEF g
  <2> QED BY <2>2, <2>3, <2>4
<1>8. (at[m] % l) \div s = 0
  <2>1. at[m] \in 0 .. Word - 1 /\ Pos(at[m]) = IF b + 1 = s THEN 0 ELSE (Word \div s) * (b + 1)
    BY <1>5, <1>m DEF NextPlace
  <2>2. CASE b + 1 = s
    <3>1. at[m] = 0
      BY <2>1, <2>2, PosZero
    <3> QED BY <1>3, <3>1
  <2>3. CASE b + 1 # s
    <3> DEFINE f == rev[e][(at[m] % l) \div s]  c == Place(at[m], s)
    <3>1. Word \div s \in Nat \ {0} /\ b + 1 \in Nat
      BY <1>4, <1>d, DivisorParts
    <3>2. Pos(at[m]) = (Word \div s) * (b + 1) + 0 /\ Pos(at[m]) \in Nat
      BY <2>1, <2>3, <3>1
    <3>3. c = b + 1
      <4>1. Pos(at[m]) \div (Word \div s) = b + 1
        BY <3>1, <3>2, Quotient
      <4> QED BY <1>d, <2>1, <4>1, PosParts
    <3>4. Place(at[m], l) = e * c + f /\ f \in 0 .. e - 1 /\ ((at[m] % l) \div s = 0 <=> f = 0)
      BY <1>q, <2>1, Zenon
    <3>5. Place(at[m], l) = e * (b + 1)
      <4> DEFINE Q == Word \div l  a == Place(at[m], l)  y == rev[Q][at[m] \div l]
      <4>1. Q \in Nat \ {0} /\ l * Q = Word
        BY <1>d, DivisorParts
      <4>2. Pos(at[m]) = Q * a + y /\ a \in Nat /\ y \in 0 .. Q - 1
        BY <1>d, <2>1, PosParts
      <4> HIDE DEF Q, a, y
      <4>3. Word \div s = Q * e
        <5>1. s * (Q * e) = Word /\ Q * e \in Nat
          BY <1>2, <1>3, <4>1
        <5> QED BY <1>3, <5>1, MakeDivisor
      <4>4. Pos(at[m]) = Q * (e * (b + 1)) + 0 /\ e * (b + 1) \in Nat
        <5>1. (Q * e) * (b + 1) = Q * (e * (b + 1))
          BY <1>3, <1>4, <4>1
        <5> QED BY <1>3, <1>4, <3>2, <4>1, <4>3, <5>1
      <4>5. a = e * (b + 1)
        <5> DEFINE z == 0  E == e * (b + 1)
        <5>1. z \in 0 .. Q - 1 /\ E \in Nat
          BY <4>1, <4>4
        <5>2. Q * a + y = Q * E + z
          BY <4>2, <4>4
        <5> HIDE DEF z, E
        <5>3. a = E
          BY <4>1, <4>2, <5>1, <5>2, OneQuotient
        <5> QED BY <5>3 DEF E
      <4> QED BY <4>5 DEF a
    <3> HIDE DEF f, c
    <3>6. f = 0
      BY <1>3, <1>4, <3>3, <3>4, <3>5
    <3> QED BY <3>4, <3>6
  <2> QED BY <2>2, <2>3
<1>9. last = m
  <2>1. \E i \in 1 .. l : (at[i] % l) \div s = 0 /\ \A j \in 1 .. i - 1 : (at[j] % l) \div s # 0
    <3>1. m \in 1 .. l
      BY <1>6
    <3> QED BY <1>7, <1>8, <3>1
  <2>2. last \in 1 .. l /\ (at[last] % l) \div s = 0 /\ \A j \in 1 .. last - 1 : (at[j] % l) \div s # 0
    BY <1>l, <2>1, Zenon
  <2>3. ~(last < m) /\ ~(m < last)
    <3>1. ASSUME last < m PROVE FALSE
      <4>1. last \in 1 .. m - 1
        BY <1>6, <2>2, <3>1
      <4> QED BY <1>7, <2>2, <4>1
    <3>2. ASSUME m < last PROVE FALSE
      <4>1. m \in 1 .. last - 1
        BY <1>6, <2>2, <3>2
      <4> QED BY <1>8, <2>2, <4>1
    <3> QED BY <3>1, <3>2
  <2> QED BY <1>6, <2>2, <2>3
<1>10. ASSUME NEW k \in TableKeys(large), Pos(Spot(k)) >= Pos(v), Place(Spot(k), s) = b
       PROVE  k \in x.keys
  <2> DEFINE u == Spot(k)
  <2>1. u \in 0 .. Word - 1 /\ Place(u, s) = b /\ Pos(u) >= Pos(v)
    BY <1>10, SpotIn, TableSets DEF Good
  <2>u. u = Spot(k)
    OBVIOUS
  <2> HIDE DEF u
  <2> DEFINE f == rev[e][(u % l) \div s]  i == Place(u, l) - p
  <2>2. Place(u, l) = e * b + f /\ f \in 0 .. e - 1
    BY <1>q, <2>1, Zenon
  <2>3. Place(u, l) >= p
    BY <1>d, <1>m, <2>1, LaterPlace
  <2>i. i = Place(u, l) - p
    OBVIOUS
  <2> HIDE DEF f, i
  <2>4. i \in 0 .. m - 1 /\ p + i = Place(u, l)
    BY <1>3, <1>4, <1>m, <2>2, <2>3, <2>i
  <2>5. at[i] \in 0 .. Word - 1 /\ Place(at[i], l) = Place(u, l)
    BY <1>5, <2>4
  <2>6. k \in Emit(large, at[i])
    BY <1>d, <2>5, <2>u, Emitted
  <2> QED BY <1>x, <1>9, <2>4, <2>6
<1> QED BY <1>5, <1>9, <1>10, <1>d, <1>m, <1>x

\* One call of dictScan reports every key that is still to come and in the bucket of
\* the cursor; it returns 0 only when no other is left.
LEMMA ScanReports ==
    ASSUME NEW d, DictOK(d), NEW v \in 0 .. Word - 1, NEW r, r = Scan(d, v)
    PROVE  /\ r.cursor \in 0 .. Word - 1
           /\ \A k \in AllKeys(d) : k \notin r.keys /\ Pos(Spot(k)) >= Pos(v) =>
                                       r.cursor # 0 /\ Pos(Spot(k)) >= Pos(r.cursor)
<1> DEFINE t0 == d.ht[0]  t1 == d.ht[1]
           small == IF Size(t0) > Size(t1) THEN t1 ELSE t0
           large == IF Size(t0) > Size(t1) THEN t0 ELSE t1
           x == Expansion(v, small, large)
<1>1. /\ Good(t0) /\ Good(t1) /\ Fits(t0, t1, d.rehashidx) /\ Size(t0) \in Sizes /\ Size(t1) \in Sizes
      /\ Size(t0) \in Nat /\ Size(t1) \in Nat
  BY DictParts DEF DictOK, Fits
<1>2. ASSUME NEW k \in AllKeys(d) PROVE Spot(k) \in 0 .. Word - 1 /\ (k \in TableKeys(t0) \/ k \in TableKeys(t1))
  BY Counted, SpotIn DEF AllKeys
<1>3. CASE dictSize(d) = 0
  <2>1. AllKeys(d) = {}
    BY <1>3, Counted, DictAssumption, FS_Subset, FS_EmptySet
  <2>2. r.cursor = 0
    BY <1>3 DEF Scan
  <2> QED BY <2>1, <2>2, PosZero
<1>4. CASE dictSize(d) # 0 /\ ~IsRehashing(d)
  <2> DEFINE w == Size(t0)  n == NextCursor(v, w)
  <2>1. r = [keys |-> Emit(t0, v), cursor |-> n]
    BY <1>4 DEF Scan
  <2>2. w \in Divisors
    BY <1>1, <1>4, Counted DEF Sizes
  <2>3. NextPlace(n, v, w)
    <3> HIDE DEF w
    <3> QED BY <2>2, NextIs DEF NextPlace
  <2>4. TableKeys(t1) = {}
    BY <1>1, <1>4, TableNone DEF IsRehashing, Fits
  <2>5. ASSUME NEW k \in AllKeys(d), k \notin r.keys, Pos(Spot(k)) >= Pos(v)
        PROVE  r.cursor # 0 /\ Pos(Spot(k)) >= Pos(r.cursor)
    <3>1. k \in TableKeys(t0) /\ k \notin Emit(t0, v) /\ Spot(k) \in 0 .. Word - 1 /\ r.cursor = n
      BY <1>2, <2>1, <2>4, <2>5
    <3> HIDE DEF t0, n
    <3>2. Place(Spot(k), w) # Place(v, w)
      BY <1>1, <2>2, <3>1, Emitted
    <3> HIDE DEF w
    <3> QED BY <2>2, <2>3, <2>5, <3>1, <3>2, LeftOver
  <2>6. r.cursor \in 0 .. Word - 1
    BY <2>1, <2>3 DEF NextPlace
  <2> QED BY <2>5, <2>6
<1>5. CASE dictSize(d) # 0 /\ IsRehashing(d)
  <2>1. r = [keys |-> Emit(small, v) \cup x.keys, cursor |-> x.cursor]
    BY <1>5 DEF Scan
  <2>2. Size(t0) \in Divisors /\ Size(t1) \in Divisors
    BY <1>1, <1>5 DEF IsRehashing, Fits, Sizes
  <2>3. /\ Good(small) /\ Good(large) /\ Size(small) \in Divisors /\ Size(large) \in Divisors
        /\ Size(small) <= Size(large)
    BY <1>1, <2>2
  <2>4. \A k : k \in TableKeys(t0) \/ k \in TableKeys(t1) => k \in TableKeys(small) \/ k \in TableKeys(large)
    OBVIOUS
  <2>x. x = Expansion(v, small, large)
    OBVIOUS
  <2> HIDE DEF small, large, x
  <2>5. /\ NextPlace(x.cursor, v, Size(small))
        /\ \A k \in TableKeys(large) :
             Pos(Spot(k)) >= Pos(v) /\ Place(Spot(k), Size(small)) = Place(v, Size(small)) => k \in x.keys
    BY <2>3, <2>x, ExpansionIs
  <2>6. ASSUME NEW k \in AllKeys(d), k \notin r.keys, Pos(Spot(k)) >= Pos(v)
        PROVE  r.cursor # 0 /\ Pos(Spot(k)) >= Pos(r.cursor)
    <3>1. /\ k \in TableKeys(small) \/ k \in TableKeys(large)
          /\ k \notin Emit(small, v) /\ k \notin x.keys /\ Spot(k) \in 0 .. Word - 1 /\ r.cursor = x.cursor
      BY <1>2, <2>1, <2>4, <2>6
    <3>2. Place(Spot(k), Size(small)) # Place(v, Size(small))
      BY <2>3, <2>5, <2>6, <3>1, Emitted
    <3> QED BY <2>3, <2>5, <2>6, <3>1, <3>2, LeftOver
  <2>7. r.cursor \in 0 .. Word - 1
    BY <2>1, <2>5 DEF NextPlace
  <2> QED BY <2>6, <2>7
<1> QED BY <1>3, <1>4, <1>5

-----------------------------------------------------------------------------
(* What is left of a chain from a key on *)

Following(c, k) == {y \in ChainKeys(c) : \E i, j \in DOMAIN c : i <= j /\ c[i].key = k /\ c[j].key = y}

\* A chain that keeps the order of the keys, but for one of them.
ChainKeeps(c, d, x) ==
    \A k, y : k # x /\ y # x => (y \in Following(d, k) <=> y \in Following(c, k))

\* What it is to follow.
LEMMA Follows ==
    ASSUME NEW c, NEW k, NEW y
    PROVE  /\ y \in Following(c, k) <=> \E i, j \in DOMAIN c : i <= j /\ c[i].key = k /\ c[j].key = y
           /\ y \in Following(c, k) => y \in ChainKeys(c)
BY DEF Following, ChainKeys

\* f tells where the entries of d are in c.
LEMMA KeysInOrder ==
    ASSUME NEW c, NEW d, NEW x, NEW f \in [DOMAIN d -> DOMAIN c],
           \A i, j \in DOMAIN d : i <= j <=> f[i] <= f[j],
           \A j \in DOMAIN d : d[j].key = c[f[j]].key,
           \A i \in DOMAIN c : c[i].key # x => \E j \in DOMAIN d : f[j] = i
    PROVE  ChainKeeps(c, d, x)
<1> SUFFICES ASSUME NEW k, NEW y, k # x, y # x PROVE y \in Following(d, k) <=> y \in Following(c, k)
  BY DEF ChainKeeps
<1>1. ASSUME y \in Following(d, k) PROVE y \in Following(c, k)
  <2>1. PICK i \in DOMAIN d, j \in DOMAIN d : i <= j /\ d[i].key = k /\ d[j].key = y
    BY <1>1, Follows
  <2>2. f[i] \in DOMAIN c /\ f[j] \in DOMAIN c /\ f[i] <= f[j] /\ c[f[i]].key = k /\ c[f[j]].key = y
    BY <2>1
  <2> QED BY <2>2, Follows
<1>2. ASSUME y \in Following(c, k) PROVE y \in Following(d, k)
  <2>1. PICK i \in DOMAIN c, j \in DOMAIN c : i <= j /\ c[i].key = k /\ c[j].key = y
    BY <1>2, Follows
  <2>2. PICK a \in DOMAIN d : f[a] = i
    BY <2>1
  <2>3. PICK b \in DOMAIN d : f[b] = j
    BY <2>1
  <2>4. a <= b /\ d[a].key = k /\ d[b].key = y
    BY <2>1, <2>2, <2>3
  <2> QED BY <2>4, Follows
<1> QED BY <1>1, <1>2

\* An entry before the others, an entry less, another value.
LEMMA PutKeeps ==
    ASSUME NEW c \in Seq(Entry), NEW e \in Entry
    PROVE  ChainKeeps(c, <<e>> \o c, e.key)
<1> DEFINE d == <<e>> \o c
           f == [j \in DOMAIN c |-> j + 1]
<1>1. /\ Len(c) \in Nat /\ DOMAIN c = 1 .. Len(c) /\ DOMAIN d = 1 .. Len(c) + 1
      /\ d[1] = e /\ \A j \in 1 .. Len(c) : d[j + 1] = c[j]
  OBVIOUS
<1> HIDE DEF d
<1>2. f \in [DOMAIN c -> DOMAIN d] /\ \A i, j \in DOMAIN c : i <= j <=> f[i] <= f[j]
  BY <1>1
<1>3. \A j \in DOMAIN c : c[j].key = d[f[j]].key
  BY <1>1
<1>4. ASSUME NEW i \in DOMAIN d, d[i].key # e.key PROVE \E j \in DOMAIN c : f[j] = i
  <2>1. i # 1
    BY <1>1, <1>4
  <2>2. i - 1 \in DOMAIN c /\ f[i - 1] = i
    BY <1>1, <2>1
  <2> QED BY <2>2
<1> HIDE DEF f
<1>5. ChainKeeps(d, c, e.key)
  BY <1>2, <1>3, <1>4, KeysInOrder
<1> QED BY <1>5 DEF ChainKeeps, d

\* An entry is taken out.
LEMMA DropKeeps ==
    ASSUME NEW c, NEW b, NEW n, ChainOK(c, b, n), NEW k \in ChainKeys(c)
    PROVE  ChainKeeps(c, RemoveAt(c, IndexOf(c, k)), k)
<1> DEFINE x == IndexOf(c, k)
           d == RemoveAt(c, x)
<1>d. x = IndexOf(c, k) /\ d = RemoveAt(c, x)
  OBVIOUS
<1> HIDE DEF x, d
<1>1. /\ x \in 1 .. Len(c) /\ c[x].key = k /\ d \in Seq(Entry) /\ Len(d) = Len(c) - 1
      /\ \A j \in 1 .. Len(c) - 1 : d[j] = IF j < x THEN c[j] ELSE c[j + 1]
  BY <1>d, ChainCut
<1>2. c \in Seq(Entry) /\ Len(c) \in Nat /\ DOMAIN c = 1 .. Len(c) /\ DOMAIN d = 1 .. Len(c) - 1
  BY <1>1 DEF ChainOK
<1> DEFINE f == [j \in 1 .. Len(c) - 1 |-> IF j < x THEN j ELSE j + 1]
<1>3. f \in [DOMAIN d -> DOMAIN c] /\ \A i, j \in DOMAIN d : i <= j <=> f[i] <= f[j]
  BY <1>1, <1>2
<1>4. \A j \in DOMAIN d : d[j].key = c[f[j]].key
  BY <1>1, <1>2
<1>5. ASSUME NEW i \in DOMAIN c, c[i].key # k PROVE \E j \in DOMAIN d : f[j] = i
  <2>1. CASE i < x
    <3>1. i \in DOMAIN d /\ f[i] = i
      BY <1>1, <1>2, <2>1
    <3> QED BY <3>1
  <2>2. CASE ~(i < x)
    <3>1. i # x
      BY <1>1, <1>5
    <3>2. i - 1 \in DOMAIN d /\ f[i - 1] = i
      BY <1>1, <1>2, <2>2, <3>1
    <3> QED BY <3>2
  <2> QED BY <2>1, <2>2
<1> HIDE DEF f
<1>6. ChainKeeps(c, d, k)
  BY <1>3, <1>4, <1>5, KeysInOrder
<1> QED BY <1>6, <1>d

\* A value is set.
LEMMA SetValKeeps ==
    ASSUME NEW c, NEW x, NEW d, DOMAIN d = DOMAIN c, \A j \in DOMAIN d : d[j].key = c[j].key
    PROVE  ChainKeeps(c, d, x)
<1> DEFINE f == [j \in DOMAIN d |-> j]
<1>1. DOMAIN d = DOMAIN c /\ \A j \in DOMAIN d : d[j].key = c[j].key
  OBVIOUS
<1>2. f \in [DOMAIN d -> DOMAIN c] /\ \A j \in DOMAIN d : f[j] = j
  BY <1>1
<1> HIDE DEF f
<1>3. \A i, j \in DOMAIN d : i <= j <=> f[i] <= f[j]
  BY <1>2, Zenon
<1>4. \A j \in DOMAIN d : d[j].key = c[f[j]].key
  BY <1>1, <1>2
<1>5. \A i \in DOMAIN c : c[i].key # x => \E j \in DOMAIN d : f[j] = i
  BY <1>1, <1>2
<1> QED BY <1>2, <1>3, <1>4, <1>5, KeysInOrder

\* The first key of a chain and the keys after it; the key after a key.
LEMMA FollowFirst ==
    ASSUME NEW c \in Seq(Entry), c # << >>
    PROVE  c[1].key \in ChainKeys(c) /\ Following(c, c[1].key) = ChainKeys(c)
<1>1. Len(c) \in Nat /\ DOMAIN c = 1 .. Len(c) /\ 1 \in DOMAIN c
  OBVIOUS
<1>2. ASSUME NEW y \in ChainKeys(c) PROVE y \in Following(c, c[1].key)
  <2>1. PICK j \in DOMAIN c : c[j].key = y
    BY DEF ChainKeys
  <2>2. 1 <= j
    BY <1>1
  <2> QED BY <1>1, <2>1, <2>2, Follows
<1> QED BY <1>1, <1>2, Follows DEF ChainKeys

\* The keys behind the next entry of a chain.
LEMMA FollowNext ==
    ASSUME NEW c, NEW b, NEW n, ChainOK(c, b, n), NEW k \in ChainKeys(c), NEW m, m = AfterKey(c, k)
    PROVE  /\ m # NULL => m \in ChainKeys(c)
           /\ \A y : (m # NULL /\ y \in Following(c, m)) <=> (y \in Following(c, k) /\ y # k)
           /\ k \in Following(c, k)
<1> DEFINE x == IndexOf(c, k)
<1>1. /\ c \in Seq(Entry) /\ Len(c) \in Nat /\ DOMAIN c = 1 .. Len(c) /\ \A j \in 1 .. Len(c) : c[j] \in Entry
      /\ \A i, j \in 1 .. Len(c) : c[i].key = c[j].key => i = j
  BY DEF ChainOK
<1>2. x \in 1 .. Len(c) /\ c[x].key = k
  BY <1>1 DEF ChainKeys, IndexOf
<1>3. m = IF x < Len(c) THEN c[x + 1].key ELSE NULL
  BY DEF AfterKey
<1>4. \A j \in 1 .. Len(c) : c[j].key # NULL
  BY <1>1, WordAssumption DEF Entry, NULL
<1> HIDE DEF x
<1>5. \A i \in 1 .. Len(c) : c[i].key = k => i = x
  BY <1>1, <1>2
<1>6. k \in Following(c, k)
  <2>1. x <= x
    BY <1>1, <1>2
  <2> QED BY <1>1, <1>2, <2>1, Follows
<1>7. \A y : y \in Following(c, k) <=> \E j \in 1 .. Len(c) : x <= j /\ c[j].key = y
  <2> SUFFICES ASSUME NEW y PROVE y \in Following(c, k) <=> \E j \in 1 .. Len(c) : x <= j /\ c[j].key = y
    OBVIOUS
  <2>1. y \in Following(c, k) <=> \E i, j \in 1 .. Len(c) : i <= j /\ c[i].key = k /\ c[j].key = y
    BY <1>1, Follows
  <2> QED BY <1>2, <1>5, <2>1
<1>8. CASE x < Len(c)
  <2>1. x + 1 \in 1 .. Len(c) /\ m = c[x + 1].key
    BY <1>1, <1>2, <1>3, <1>8
  <2>2. m # NULL /\ m \in ChainKeys(c) /\ \A i \in 1 .. Len(c) : c[i].key = m => i = x + 1
    BY <1>1, <1>4, <2>1 DEF ChainKeys
  <2>3. \A y : y \in Following(c, m) <=> \E j \in 1 .. Len(c) : x + 1 <= j /\ c[j].key = y
    <3> SUFFICES ASSUME NEW y PROVE y \in Following(c, m) <=> \E j \in 1 .. Len(c) : x + 1 <= j /\ c[j].key = y
      OBVIOUS
    <3>1. y \in Following(c, m) <=> \E i, j \in 1 .. Len(c) : i <= j /\ c[i].key = m /\ c[j].key = y
      BY <1>1, Follows
    <3> QED BY <2>1, <2>2, <3>1
  <2>4. ASSUME NEW y PROVE y \in Following(c, m) <=> (y \in Following(c, k) /\ y # k)
    <3>1. ASSUME NEW j \in 1 .. Len(c), x + 1 <= j, c[j].key = y PROVE x <= j /\ y # k
      BY <1>1, <1>2, <1>5, <3>1
    <3>2. ASSUME NEW j \in 1 .. Len(c), x <= j, c[j].key = y, y # k PROVE x + 1 <= j
      BY <1>1, <1>2, <3>2
    <3> QED BY <1>7, <2>3, <3>1, <3>2
  <2> QED BY <1>6, <2>2, <2>4
<1>9. CASE ~(x < Len(c))
  <2>1. m = NULL
    BY <1>3, <1>9
  <2>2. ASSUME NEW y, y \in Following(c, k) PROVE y = k
    <3>1. PICK j \in 1 .. Len(c) : x <= j /\ c[j].key = y
      BY <1>7, <2>2
    <3>2. j = x
      BY <1>1, <1>2, <1>9, <3>1
    <3> QED BY <1>2, <3>1, <3>2
  <2> QED BY <1>6, <2>1, <2>2
<1> QED BY <1>8, <1>9

-----------------------------------------------------------------------------
(* Steps that keep the order of the keys, but for one of them *)

TableKeeps(t, r, x) ==
    /\ \A y : y # x => (y \in TableKeys(r) <=> y \in TableKeys(t))
    /\ Size(t) # 0 => Size(r) = Size(t) /\ \A b \in 0 .. Size(t) - 1 : ChainKeeps(t.table[b], r.table[b], x)

Keeps(d, e, x) ==
    /\ IsRehashing(d) => IsRehashing(e)
    /\ TableKeeps(d.ht[0], e.ht[0], x) /\ TableKeeps(d.ht[1], e.ht[1], x)

\* Nothing changes.
LEMMA Unmoved ==
    ASSUME NEW t, NEW x
    PROVE  TableKeeps(t, t, x)
BY DEF TableKeeps, ChainKeeps

\* Two steps after each other.
LEMMA KeepsTwice ==
    ASSUME NEW d, NEW e, NEW f, NEW x, Keeps(d, e, x), Keeps(e, f, x)
    PROVE  Keeps(d, f, x)
<1>1. ASSUME NEW t, NEW r, NEW s, TableKeeps(t, r, x), TableKeeps(r, s, x) PROVE TableKeeps(t, s, x)
  <2>1. \A y : y # x => (y \in TableKeys(s) <=> y \in TableKeys(t))
    BY <1>1 DEF TableKeeps
  <2>2. ASSUME Size(t) # 0, NEW b \in 0 .. Size(t) - 1
        PROVE  Size(s) = Size(t) /\ ChainKeeps(t.table[b], s.table[b], x)
    <3>1. Size(r) = Size(t) /\ ChainKeeps(t.table[b], r.table[b], x)
      BY <1>1, <2>2 DEF TableKeeps
    <3>2. Size(s) = Size(t) /\ ChainKeeps(r.table[b], s.table[b], x)
      BY <1>1, <2>2, <3>1 DEF TableKeeps
    <3> QED BY <3>1, <3>2 DEF ChainKeeps
  <2>3. ASSUME Size(t) # 0 PROVE Size(s) = Size(t)
    BY <1>1, <2>3 DEF TableKeeps
  <2> QED BY <2>1, <2>2, <2>3 DEF TableKeeps
<1>2. TableKeeps(d.ht[0], f.ht[0], x) /\ TableKeeps(d.ht[1], f.ht[1], x)
  BY <1>1 DEF Keeps
<1> QED BY <1>2 DEF Keeps

\* A chain of a table is replaced.
LEMMA ReplaceKeeps ==
    ASSUME NEW t \in Tables, Chained(t), NEW b \in 0 .. Size(t) - 1, NEW c, ChainOK(c, b, Size(t)), NEW u \in Nat,
           NEW x, ChainKeeps(t.table[b], c, x), NEW r, r = Replaced(t, b, c, u),
           \A y : y # x => (y \in TableKeys(r) <=> y \in TableKeys(t))
    PROVE  TableKeeps(t, r, x)
<1>1. /\ Size(r) = Size(t) /\ r.table[b] = c
      /\ \A a \in 0 .. Size(t) - 1 : a # b => r.table[a] = t.table[a]
  BY Replace
<1>2. \A a \in 0 .. Size(t) - 1 : ChainKeeps(t.table[a], r.table[a], x)
  <2>1. \A s : ChainKeeps(s, s, x)
    BY DEF ChainKeeps
  <2> QED BY <1>1, <2>1
<1> QED BY <1>1, <1>2 DEF TableKeeps

\* An entry is put in front.
LEMMA TablePutKeeps ==
    ASSUME NEW t, Good(t), Size(t) # 0, NEW e \in Entry, e.key \notin TableKeys(t)
    PROVE  TableKeeps(t, AddFront(t, e), e.key)
<1> DEFINE b == Home(e.key, Size(t))
           c == t.table[b]
           d == <<e>> \o c
           r == AddFront(t, e)
<1>0. t \in Tables /\ Chained(t) /\ e.key \in Keys /\ t.used + 1 \in Nat
  BY TableParts DEF Good, Entry
<1>1. b \in 0 .. Size(t) - 1 /\ e.key \notin ChainKeys(c)
  BY <1>0, LookedUp
<1>2. ChainOK(c, b, Size(t)) /\ c \in Seq(Entry)
  BY <1>0, <1>1 DEF Chained, ChainOK
<1>3. r = Replaced(t, b, d, t.used + 1)
  BY DEF AddFront, Bucket, Home, Replaced
<1>4. ChainOK(d, b, Size(t)) /\ ChainKeeps(c, d, e.key)
  BY <1>1, <1>2, ChainPut, PutKeeps
<1>5. TableKeys(r) = TableKeys(t) \cup {e.key}
  BY TablePut
<1>c. c = t.table[b]
  OBVIOUS
<1> HIDE DEF b, c, d, r
<1>6. \A y : y # e.key => (y \in TableKeys(r) <=> y \in TableKeys(t))
  BY <1>5
<1>7. TableKeeps(t, r, e.key)
  BY <1>0, <1>1, <1>3, <1>4, <1>6, <1>c, ReplaceKeeps
<1> QED BY <1>7 DEF r

\* An entry is taken out of its chain.
LEMMA TableDropKeeps ==
    ASSUME NEW t, Good(t), NEW k \in TableKeys(t)
    PROVE  TableKeeps(t, TakeOut(t, k), k)
<1> DEFINE b == Home(k, Size(t))
           c == t.table[b]
           d == RemoveAt(c, IndexOf(c, k))
           r == TakeOut(t, k)
<1>0. t \in Tables /\ Chained(t) /\ t.used = Cardinality(TableKeys(t)) /\ k \in Keys
  BY TableSets DEF Good
<1>1. PICK x \in Ents(t) : x.key = k
  BY <1>0, TableSets
<1>2. Size(t) # 0
  BY <1>0, <1>1, InItsBucket
<1>3. b \in 0 .. Size(t) - 1 /\ k \in ChainKeys(c)
  BY <1>0, <1>2, LookedUp
<1>4. ChainOK(c, b, Size(t))
  BY <1>0, <1>3 DEF Chained
<1>5. ChainOK(d, b, Size(t)) /\ ChainKeeps(c, d, k)
  BY <1>3, <1>4, ChainDrop, DropKeeps
<1>6. t.used - 1 \in Nat
  <2>1. /\ Cardinality(TableKeys(t) \ {k}) = Cardinality(TableKeys(t)) - 1
        /\ IsFiniteSet(TableKeys(t) \ {k})
    BY <1>0, TableSets, FS_RemoveElement
  <2> QED BY <1>0, <2>1, FS_CardinalityType
<1>7. c = t.table[b] /\ r = Replaced(t, b, d, t.used - 1)
  BY DEF TakeOut, Bucket, Home, Replaced
<1>8. TableKeys(r) = TableKeys(t) \ {k}
  BY TableDrop
<1> HIDE DEF b, c, d, r
<1>9. \A y : y # k => (y \in TableKeys(r) <=> y \in TableKeys(t))
  BY <1>8
<1>10. TableKeeps(t, r, k)
  BY <1>0, <1>3, <1>5, <1>6, <1>7, <1>9, ReplaceKeeps
<1> QED BY <1>10 DEF r

\* A value is set in its chain.
LEMMA TableRevalueKeeps ==
    ASSUME NEW t, Good(t), NEW k \in TableKeys(t), NEW v \in Vals, NEW x
    PROVE  TableKeeps(t, Revalued(t, k, v), x)
<1> DEFINE b == Home(k, Size(t))
           c == t.table[b]
           d == [j \in DOMAIN c |-> IF c[j].key = k THEN [key |-> k, val |-> v] ELSE c[j]]
           r == Revalued(t, k, v)
<1>0. t \in Tables /\ Chained(t) /\ k \in Keys /\ t.used \in Nat
  BY TableSets, TableParts DEF Good
<1>1. PICK w \in Ents(t) : w.key = k
  BY <1>0, TableSets
<1>2. Size(t) # 0
  BY <1>0, <1>1, InItsBucket
<1>3. b \in 0 .. Size(t) - 1 /\ k \in ChainKeys(c)
  BY <1>0, <1>2, LookedUp
<1>4. ChainOK(c, b, Size(t))
  BY <1>0, <1>3 DEF Chained
<1>5. ChainOK(d, b, Size(t))
  BY <1>0, <1>4, ChainSetVal
<1>6. DOMAIN d = DOMAIN c /\ \A j \in DOMAIN d : d[j].key = c[j].key
  OBVIOUS
<1>7. c = t.table[b] /\ r = Replaced(t, b, d, t.used)
  BY DEF Revalued
<1>8. TableKeys(r) = TableKeys(t)
  BY TableRevalue
<1> HIDE DEF b, c, d, r
<1>9. ChainKeeps(c, d, x)
  BY <1>6, SetValKeeps
<1>10. \A y : y # x => (y \in TableKeys(r) <=> y \in TableKeys(t))
  BY <1>8
<1>11. TableKeeps(t, r, x)
  BY <1>0, <1>3, <1>5, <1>7, <1>9, <1>10, ReplaceKeeps
<1> QED BY <1>11 DEF r

\* One of the two tables changes.
LEMMA ChangedKeeps ==
    ASSUME NEW d, DictOK(d), NEW j \in {0, 1}, NEW t, NEW x, TableKeeps(d.ht[j], t, x)
    PROVE  Keeps(d, Changed(d, j, t), x) /\ Changed(d, j, t).iterators = d.iterators
<1> DEFINE e == Changed(d, j, t)
<1>1. d \in DictType
  BY DEF DictOK
<1>2. /\ e.rehashidx = d.rehashidx /\ e.iterators = d.iterators /\ e.ht = [d.ht EXCEPT ![j] = t]
      /\ d.ht \in [{0, 1} -> Tables]
  BY <1>1 DEF DictType, Changed
<1>3. e.ht[j] = t /\ \A i \in {0, 1} : i # j => e.ht[i] = d.ht[i]
  BY <1>2
<1> HIDE DEF e
<1>4. IsRehashing(d) => IsRehashing(e)
  BY <1>2 DEF IsRehashing
<1>5. CASE j = 0
  BY <1>2, <1>3, <1>4, <1>5, Unmoved DEF Keeps, e
<1>6. CASE j = 1
  BY <1>2, <1>3, <1>4, <1>6, Unmoved DEF Keeps, e
<1> QED BY <1>5, <1>6

\* dictAddRaw keeps the order of the other keys,
LEMMA AddedKeeps ==
    ASSUME NEW d, DictOK(d), Size(d.ht[0]) # 0, NEW k \in Keys, NEW v \in Vals, Where(d, k) = -1
    PROVE  Keeps(d, PutFront(d, k, v), k) /\ PutFront(d, k, v).iterators = d.iterators
<1> DEFINE j == Target(d)
           e == [key |-> k, val |-> v]
           t == AddFront(d.ht[j], e)
<1>1. j \in {0, 1} /\ (j = 1 <=> IsRehashing(d)) /\ (j = 0 <=> ~IsRehashing(d))
  BY DEF Target
<1>2. Good(d.ht[0]) /\ Good(d.ht[1])
  BY DictParts
<1>3. Size(d.ht[j]) # 0
  BY <1>1 DEF DictOK, Fits, IsRehashing
<1>4. k \notin TableKeys(d.ht[0]) /\ k \notin TableKeys(d.ht[1])
  BY WhereIs DEF AllKeys
<1>5. e \in Entry /\ e.key = k
  BY DEF Entry
<1>6. PutFront(d, k, v) = Changed(d, j, t)
  BY DEF PutFront, Changed
<1> HIDE DEF j, e
<1>7. Good(d.ht[j]) /\ e.key \notin TableKeys(d.ht[j])
  BY <1>1, <1>2, <1>4, <1>5
<1>8. TableKeeps(d.ht[j], t, e.key)
  BY <1>3, <1>5, <1>7, TablePutKeeps
<1> HIDE DEF t
<1>9. Keeps(d, Changed(d, j, t), e.key) /\ Changed(d, j, t).iterators = d.iterators
  BY <1>1, <1>8, ChangedKeeps
<1> QED BY <1>5, <1>6, <1>9

\* and so does dictGenericDelete,
LEMMA UnlinkedKeeps ==
    ASSUME NEW d, DictOK(d), Size(d.ht[0]) # 0, NEW k \in Keys, Where(d, k) # -1
    PROVE  Keeps(d, UnlinkEntry(d, k), k) /\ UnlinkEntry(d, k).iterators = d.iterators
<1> DEFINE j == Where(d, k)
           t == TakeOut(d.ht[j], k)
<1>1. j \in {0, 1} /\ k \in TableKeys(d.ht[j])
  BY WhereIs
<1>2. Good(d.ht[0]) /\ Good(d.ht[1])
  BY DictParts
<1>3. UnlinkEntry(d, k) = Changed(d, j, t)
  BY DEF UnlinkEntry, Changed
<1> HIDE DEF j
<1>4. TableKeeps(d.ht[j], t, k)
  BY <1>1, <1>2, TableDropKeeps
<1> HIDE DEF t
<1> QED BY <1>1, <1>3, <1>4, ChangedKeeps

\* and dictReplace,
LEMMA ValueSetKeeps ==
    ASSUME NEW d, DictOK(d), Size(d.ht[0]) # 0, NEW k \in Keys, NEW v \in Vals, Where(d, k) # -1, NEW x
    PROVE  Keeps(d, SetVal(d, k, v), x) /\ SetVal(d, k, v).iterators = d.iterators
<1> DEFINE j == Where(d, k)
           t == Revalued(d.ht[j], k, v)
<1>1. j \in {0, 1} /\ k \in TableKeys(d.ht[j])
  BY WhereIs
<1>2. Good(d.ht[0]) /\ Good(d.ht[1])
  BY DictParts
<1>3. SetVal(d, k, v) = Changed(d, j, t)
  BY <1>1, SetValIs
<1> HIDE DEF j
<1>4. TableKeeps(d.ht[j], t, x)
  BY <1>1, <1>2, TableRevalueKeeps
<1> HIDE DEF t
<1> QED BY <1>1, <1>3, <1>4, ChangedKeeps

\* and _dictExpand, which moves no entry.
LEMMA ExpandedKeeps ==
    ASSUME NEW d, DictOK(d), NEW size \in Nat, size <= Word, NEW x
    PROVE  Keeps(d, Expand(d, size).d, x)
<1> DEFINE n == NextPower(size)
<1>0. n \in Nat
  BY NextPowerEnough
<1>1. /\ d \in DictType /\ Good(d.ht[0]) /\ d.ht \in [{0, 1} -> Tables] /\ Fits(d.ht[0], d.ht[1], d.rehashidx)
  BY DictParts DEF DictOK
<1>2. Keeps(d, d, x)
  BY Unmoved DEF Keeps
<1>3. CASE IsRehashing(d) \/ d.ht[0].used > size \/ n = Size(d.ht[0])
  <2>1. Expand(d, size).d = d
    BY <1>3 DEF Expand
  <2> QED BY <1>2, <2>1
<1>4. CASE ~(IsRehashing(d) \/ d.ht[0].used > size \/ n = Size(d.ht[0]))
  <2> DEFINE t == NewTable(n)
             j == IF Size(d.ht[0]) = 0 THEN 0 ELSE 1
             e == Expand(d, size).d
  <2>1. j \in {0, 1} /\ e = IF j = 0 THEN [d EXCEPT !.ht[0] = t] ELSE [d EXCEPT !.ht[1] = t, !.rehashidx = 0]
    BY <1>4 DEF Expand
  <2>2. TableKeys(t) = {}
    BY <1>0, TableNew
  <2>3. d.ht[1] = NoTable /\ TableKeys(NoTable) = {} /\ Size(NoTable) = 0
    BY <1>1, <1>4, TableNone DEF IsRehashing, Fits
  <2>4. j = 0 => Size(d.ht[0]) = 0 /\ TableKeys(d.ht[0]) = {}
    BY <1>1, TableEmpty
  <2> HIDE DEF e, j, t
  <2>5. CASE j = 0
    <3>1. e.ht[0] = t /\ e.ht[1] = d.ht[1]
      BY <1>1, <2>1, <2>5 DEF DictType
    <3>2. TableKeeps(d.ht[0], t, x)
      BY <2>2, <2>4, <2>5 DEF TableKeeps
    <3> QED BY <1>4, <3>1, <3>2, Unmoved DEF Keeps, e
  <2>6. CASE j = 1
    <3>1. e.ht[0] = d.ht[0] /\ e.ht[1] = t
      BY <1>1, <2>1, <2>6 DEF DictType
    <3>2. TableKeeps(d.ht[1], t, x)
      BY <2>2, <2>3 DEF TableKeeps
    <3> QED BY <1>4, <3>1, <3>2, Unmoved DEF Keeps, e
  <2> QED BY <2>1, <2>5, <2>6
<1> QED BY <1>3, <1>4

\* No bucket is moved while a safe iterator is under way.
LEMMA PreparedKeeps ==
    ASSUME NEW d, DictOK(d), d.iterators # 0, NEW x
    PROVE  RehashStep(d) = d /\ Keeps(d, Prepared(d).d, x)
<1>1. RehashStep(d) = d
  BY DEF RehashStep
<1>2. Prepared(d) = ExpandIfNeeded(d)
  BY <1>1 DEF Prepared
<1>3. Keeps(d, d, x)
  BY Unmoved DEF Keeps
<1>4. InitialSize \in Nat /\ InitialSize <= Word /\ d.ht[0].used * 2 \in Nat /\ d.ht[0].used * 2 <= Word
  BY UsedBound, InitialDivides, DictAssumption
<1>5. Keeps(d, Expand(d, InitialSize).d, x) /\ Keeps(d, Expand(d, d.ht[0].used * 2).d, x)
  BY <1>4, ExpandedKeeps
<1>6. \/ ExpandIfNeeded(d) = [d |-> d, ok |-> TRUE] \/ ExpandIfNeeded(d) = Expand(d, InitialSize)
      \/ ExpandIfNeeded(d) = Expand(d, d.ht[0].used * 2)
  BY DEF ExpandIfNeeded
<1> QED BY <1>1, <1>2, <1>3, <1>5, <1>6

-----------------------------------------------------------------------------
(* Where an iterator stands *)

\* Key k is still to come for an iterator in bucket i of table t, whose next key is n.
Awaits(d, t, i, n, k) ==
    \/ n # NULL /\ k \in Following(d.ht[t].table[i], n)
    \/ k \in TableKeys(d.ht[t]) /\ Home(k, Size(d.ht[t])) > i
    \/ t = 0 /\ k \in TableKeys(d.ht[1])

\* There is such a bucket, and the key is in it.
OnTrack(d, t, i, n) ==
    /\ t \in {0, 1} /\ i \in 0 .. Size(d.ht[t]) - 1
    /\ n # NULL => n \in Following(d.ht[t].table[i], n)

\* The place of an iterator is the same after a step that keeps the order.
LEMMA TrackKept ==
    ASSUME NEW d, NEW e, NEW x, Keeps(d, e, x), DictOK(d), NEW t, NEW i, NEW n, OnTrack(d, t, i, n), n = NULL \/ n # x
    PROVE  OnTrack(e, t, i, n) /\ \A k : k # x => (Awaits(e, t, i, n, k) <=> Awaits(d, t, i, n, k))
<1>1. t \in {0, 1} /\ i \in 0 .. Size(d.ht[t]) - 1 /\ Size(d.ht[t]) \in Nat
  BY DictParts DEF OnTrack
<1>2. /\ TableKeeps(d.ht[t], e.ht[t], x) /\ \A y : y # x => (y \in TableKeys(e.ht[1]) <=> y \in TableKeys(d.ht[1]))
  BY <1>1 DEF Keeps, TableKeeps
<1>3. Size(e.ht[t]) = Size(d.ht[t]) /\ ChainKeeps(d.ht[t].table[i], e.ht[t].table[i], x)
  BY <1>1, <1>2 DEF TableKeeps
<1>4. OnTrack(e, t, i, n)
  BY <1>1, <1>3 DEF OnTrack, ChainKeeps
<1>5. ASSUME NEW k, k # x PROVE Awaits(e, t, i, n, k) <=> Awaits(d, t, i, n, k)
  <2>1. n # NULL => (k \in Following(e.ht[t].table[i], n) <=> k \in Following(d.ht[t].table[i], n))
    BY <1>3, <1>5 DEF ChainKeeps
  <2>2. k \in TableKeys(e.ht[t]) <=> k \in TableKeys(d.ht[t])
    BY <1>2, <1>5 DEF TableKeeps
  <2> QED BY <1>2, <1>3, <1>5, <2>1, <2>2 DEF Awaits
<1> QED BY <1>4, <1>5

\* The keys of a bucket.
LEMMA BucketKeys ==
    ASSUME NEW t, Good(t), NEW i \in 0 .. Size(t) - 1
    PROVE  /\ t.table[i] \in Seq(Entry) /\ ChainOK(t.table[i], i, Size(t))
           /\ \A k : k \in ChainKeys(t.table[i]) <=> k \in TableKeys(t) /\ Home(k, Size(t)) = i
<1>1. t \in Tables /\ Chained(t) /\ DOMAIN t.table = 0 .. Size(t) - 1 /\ t.table[i] \in Seq(Entry)
  BY TableParts DEF Good
<1>2. ChainOK(t.table[i], i, Size(t))
  BY <1>1 DEF Chained
<1>3. ASSUME NEW k \in ChainKeys(t.table[i]) PROVE k \in TableKeys(t) /\ Home(k, Size(t)) = i
  <2>1. k \in TableKeys(t)
    BY <1>1, <1>3 DEF TableKeys
  <2>2. PICK e \in ChainSet(t.table[i]) : e.key = k
    BY <1>1, ChainParts
  <2>3. Home(e.key, Size(t)) = i
    BY <1>2, ChainHome
  <2> QED BY <2>1, <2>2, <2>3
<1>4. ASSUME NEW k \in TableKeys(t), Home(k, Size(t)) = i PROVE k \in ChainKeys(t.table[i])
  <2>1. k \in Keys /\ Size(t) # 0
    <3>1. Size(t) \in Nat
      BY <1>1, TableParts
    <3> QED BY <1>1, <3>1, TableSets
  <2>2. k \in ChainKeys(t.table[Home(k, Size(t))])
    BY <1>1, <2>1, LookedUp
  <2> QED BY <1>4, <2>2
<1> QED BY <1>1, <1>2, <1>3, <1>4

\* A key is returned: it is no longer awaited, and every other key still is if it was.
LEMMA KeyYielded ==
    ASSUME NEW d, DictOK(d), NEW t, NEW i, NEW n, n # NULL, OnTrack(d, t, i, n),
           NEW m, m = AfterKey(d.ht[t].table[i], n)
    PROVE  /\ OnTrack(d, t, i, m) /\ Awaits(d, t, i, n, n) /\ n \in AllKeys(d) /\ (m # NULL => m \in Keys)
           /\ \A k : Awaits(d, t, i, m, k) <=> Awaits(d, t, i, n, k) /\ k # n
<1> DEFINE c == d.ht[t].table[i]
<1>1. /\ t \in {0, 1} /\ i \in 0 .. Size(d.ht[t]) - 1 /\ Size(d.ht[t]) \in Nat /\ Good(d.ht[t])
      /\ TableKeys(d.ht[0]) \cap TableKeys(d.ht[1]) = {} /\ n \in Following(c, n)
  BY DictParts DEF OnTrack
<1>c. c = d.ht[t].table[i]
  OBVIOUS
<1>2. /\ ChainOK(c, i, Size(d.ht[t])) /\ c \in Seq(Entry)
      /\ \A k : k \in ChainKeys(c) <=> k \in TableKeys(d.ht[t]) /\ Home(k, Size(d.ht[t])) = i
  BY <1>1, BucketKeys
<1> HIDE DEF c
<1>3. n \in ChainKeys(c)
  BY <1>1, Follows
<1>4. /\ m # NULL => m \in ChainKeys(c)
      /\ \A y : (m # NULL /\ y \in Following(c, m)) <=> (y \in Following(c, n) /\ y # n)
  BY <1>2, <1>3, <1>c, FollowNext
<1>5. m # NULL => m \in Following(c, m) /\ m \in Keys
  <2>1. ASSUME m # NULL PROVE m \in Following(c, m)
    BY <1>2, <1>4, <2>1, FollowNext
  <2>2. ASSUME m # NULL PROVE m \in Keys
    BY <1>2, <1>4, <2>2, ChainParts
  <2> QED BY <2>1, <2>2
<1>6. OnTrack(d, t, i, m)
  BY <1>1, <1>5, <1>c DEF OnTrack
<1>7. n \in TableKeys(d.ht[t]) /\ Home(n, Size(d.ht[t])) = i
  BY <1>2, <1>3
<1>8. ~(Home(n, Size(d.ht[t])) > i) /\ (t = 0 => n \notin TableKeys(d.ht[1])) /\ n \in AllKeys(d)
  BY <1>1, <1>7 DEF AllKeys
<1>9. ASSUME NEW k PROVE Awaits(d, t, i, m, k) <=> Awaits(d, t, i, n, k) /\ k # n
  BY <1>4, <1>8, <1>c DEF Awaits
<1>10. Awaits(d, t, i, n, n)
  BY <1>1, <1>c DEF Awaits
<1> QED BY <1>5, <1>6, <1>8, <1>9, <1>10

-----------------------------------------------------------------------------
(* The invariant of the traversals *)

\* A scan under way owes only keys that are there, and that are not behind its cursor.
ScanOn(s, m) ==
    /\ s \in [on : {TRUE}, v : 0 .. Word - 1, owed : SUBSET m, end : BOOLEAN]
    /\ s.end => s.owed = {}
    /\ ~s.end => \A k \in s.owed : Pos(Spot(k)) >= Pos(s.v)
ScanOK == scan = NoScan \/ ScanOn(scan, DOMAIN map)

Iterators ==
    [on : {TRUE}, safe : BOOLEAN, table : {0, 1}, index : Int, next : Keys \cup {NULL},
     seen : SUBSET Keys, owed : SUBSET Keys, twice : BOOLEAN, end : BOOLEAN,
     fp : {<< >>} \cup [{0, 1} -> Nat \X Nat]]
HasBegun(it) == it.index # -1 \/ it.end

\* An iterator that has not begun stands before the first bucket; one that has awaits
\* every key it owes and none that it has returned.
Tracks(d, it) ==
    /\ it.index = -1 => it.table = 0 /\ it.next = NULL /\ it.seen = {}
    /\ it.index # -1 => /\ OnTrack(d, it.table, it.index, it.next)
                        /\ \A k \in it.owed : Awaits(d, it.table, it.index, it.next, k)
                        /\ \A k \in it.seen : ~Awaits(d, it.table, it.index, it.next, k)

\* A safe iterator that has begun is counted, and holds off the rehash steps; an unsafe
\* one has the fingerprint of the dictionary.
IterOn(d, it, m) ==
    /\ it \in Iterators /\ it.owed \subseteq m /\ it.seen \subseteq m
    /\ d.iterators = IF it.safe /\ HasBegun(it) THEN 1 ELSE 0
    /\ ~it.safe => it.fp = dictFingerprint(d)
    /\ ~it.twice
    /\ it.end => it.owed = {}
    /\ ~it.end => Tracks(d, it)
IterOK == (iter = NoIter /\ dict.iterators = 0) \/ IterOn(dict, iter, DOMAIN map)

\* A scan keeps what it promises when the map keeps the keys owed.
LEMMA ScanStays ==
    ASSUME ScanOK, scan' = scan, DOMAIN map \subseteq DOMAIN map'
    PROVE  ScanOK'
<1>1. CASE scan = NoScan
  BY <1>1 DEF ScanOK
<1>2. CASE ScanOn(scan, DOMAIN map)
  <2> DEFINE m == DOMAIN map'
  <2>1. DOMAIN map \subseteq m
    OBVIOUS
  <2> HIDE DEF m
  <2>2. ScanOn(scan, m)
    BY <1>2, <2>1 DEF ScanOn
  <2> QED BY <2>2 DEF ScanOK, m
<1> QED BY <1>1, <1>2 DEF ScanOK

\* dictScan keeps it: what it did not report is still ahead of the new cursor.
LEMMA ScanStep ==
    ASSUME DictInv, ScanOK, dictScan
    PROVE  ScanOK'
<1> DEFINE m == DOMAIN map
           s == IF scan.on THEN scan ELSE [on |-> TRUE, v |-> 0, owed |-> DOMAIN map, end |-> FALSE]
           r == Scan(dict, s.v)
           n == [s EXCEPT !.v = r.cursor, !.owed = @ \ r.keys, !.end = r.cursor = 0]
<1>1. scan' = n /\ map' = map /\ (scan.on => ~scan.end)
  BY DEF dictScan
<1>2. DictOK(dict) /\ AllKeys(dict) = m /\ m \subseteq Keys
  BY InvParts DEF DictInv
<1>3. /\ s \in [on : {TRUE}, v : 0 .. Word - 1, owed : SUBSET m, end : BOOLEAN]
      /\ \A k \in s.owed : Pos(Spot(k)) >= Pos(s.v)
  <2>1. CASE scan = NoScan
    <3>1. s = [on |-> TRUE, v |-> 0, owed |-> m, end |-> FALSE]
      BY <2>1 DEF NoScan
    <3>2. \A k \in m : Pos(Spot(k)) >= Pos(0)
      <4>1. \A k \in m : Spot(k) \in 0 .. Word - 1
        BY <1>2, SpotIn
      <4>2. \A k \in m : Pos(Spot(k)) \in 0 .. Word - 1
        BY <4>1, PosZero
      <4> QED BY <4>2, PosZero
    <3> HIDE DEF s, m
    <3>3. s.v = 0 /\ s.owed = m /\ s.v \in 0 .. Word - 1
      BY <3>1, PosZero
    <3>4. s \in [on : {TRUE}, v : 0 .. Word - 1, owed : SUBSET m, end : BOOLEAN]
      BY <3>1, <3>3
    <3> QED BY <3>2, <3>3, <3>4
  <2>2. CASE ScanOn(scan, m)
    <3>1. s = scan /\ ~scan.end
      BY <1>1, <2>2 DEF ScanOn
    <3> HIDE DEF s, m
    <3> QED BY <2>2, <3>1 DEF ScanOn
  <2> QED BY <2>1, <2>2 DEF ScanOK
<1>r. r = Scan(dict, s.v)
  OBVIOUS
<1> HIDE DEF s, r, m
<1>4. /\ r.cursor \in 0 .. Word - 1
      /\ \A k \in m : k \notin r.keys /\ Pos(Spot(k)) >= Pos(s.v) => r.cursor # 0 /\ Pos(Spot(k)) >= Pos(r.cursor)
  <2>1. s.v \in 0 .. Word - 1
    BY <1>3
  <2> QED BY <1>2, <1>r, <2>1, ScanReports
<1>5. /\ n \in [on : {TRUE}, v : 0 .. Word - 1, owed : SUBSET m, end : BOOLEAN]
      /\ n.v = r.cursor /\ n.owed = s.owed \ r.keys /\ n.end = (r.cursor = 0)
  BY <1>3, <1>4
<1> HIDE DEF n
<1>6. \A k \in n.owed : r.cursor # 0 /\ Pos(Spot(k)) >= Pos(n.v)
  BY <1>3, <1>4, <1>5
<1>7. n.end => n.owed = {}
  BY <1>5, <1>6
<1>8. ScanOn(n, m)
  BY <1>5, <1>6, <1>7 DEF ScanOn
<1> QED BY <1>1, <1>8 DEF ScanOK, m

\* A key that is deleted is no longer owed.
LEMMA ScanForgets ==
    ASSUME ScanOK, NEW k, scan' = ForgetScan(k), DOMAIN map' = DOMAIN map \ {k}
    PROVE  ScanOK'
<1>1. CASE scan = NoScan
  BY <1>1 DEF ScanOK, ForgetScan, NoScan
<1>2. CASE ScanOn(scan, DOMAIN map)
  <2> DEFINE m == DOMAIN map  p == DOMAIN map'  n == [scan EXCEPT !.owed = @ \ {k}]
  <2>1. p = m \ {k} /\ scan' = n /\ ScanOn(scan, m)
    BY <1>2 DEF ScanOn, ForgetScan
  <2> HIDE DEF m, p
  <2>2. /\ n \in [on : {TRUE}, v : 0 .. Word - 1, owed : SUBSET p, end : BOOLEAN]
        /\ n.v = scan.v /\ n.owed \subseteq scan.owed /\ n.end = scan.end
    BY <2>1 DEF ScanOn
  <2> HIDE DEF n
  <2>3. ScanOn(n, p)
    BY <2>1, <2>2 DEF ScanOn
  <2> QED BY <2>1, <2>3 DEF ScanOK, p
<1> QED BY <1>1, <1>2 DEF ScanOK

\* Every step keeps the promise of a scan.
LEMMA ScanOKStep ==
    DictInv /\ ScanOK /\ [DictNext]_dictVars => ScanOK'
<1> SUFFICES ASSUME DictInv, ScanOK, [DictNext]_dictVars PROVE ScanOK'
  OBVIOUS
<1>1. ASSUME NEW k \in Keys, dictGenericDelete(k) PROVE ScanOK'
  <2>1. scan' = ForgetScan(k) /\ DOMAIN map' = DOMAIN map \ {k}
    BY <1>1 DEF dictGenericDelete
  <2> QED BY <2>1, ScanForgets
<1>2. ASSUME NEW k \in Keys, NEW v \in Vals, dictAdd(k, v) PROVE ScanOK'
  <2>1. scan' = scan /\ DOMAIN map \subseteq DOMAIN map'
    BY <1>2 DEF dictAdd
  <2> QED BY <2>1, ScanStays
<1>3. ASSUME NEW k \in Keys, NEW v \in Vals, dictReplace(k, v) PROVE ScanOK'
  <2>1. scan' = scan /\ DOMAIN map \subseteq DOMAIN map'
    BY <1>3 DEF dictReplace
  <2> QED BY <2>1, ScanStays
<1>4. CASE dictEmpty
  <2>1. scan = NoScan /\ scan' = scan
    BY <1>4 DEF dictEmpty, Traversing, ScanOK, ScanOn
  <2> QED BY <2>1 DEF ScanOK
<1>5. CASE UNCHANGED <<scan, map>>
  BY <1>5, ScanStays
<1>6. CASE dictScan
  BY <1>6, ScanStep
<1>7. CASE ScanEnd
  BY <1>7 DEF ScanEnd, ScanOK
<1>8. ASSUME NEW n \in 1 .. Cardinality(Keys), dictGetSomeKeys(n) \/ dictExpand(n) PROVE ScanOK'
  BY <1>5, <1>8 DEF dictGetSomeKeys, dictExpand
<1>9. ASSUME NEW b \in BOOLEAN, dictEnableResize(b) \/ dictGetIterator(b) PROVE ScanOK'
  BY <1>5, <1>9 DEF dictEnableResize, dictGetIterator
<1>10. CASE dictFind \/ dictResize \/ dictRehash(1) \/ dictRehashMilliseconds
  BY <1>5, <1>10 DEF dictFind, dictResize, dictRehash, dictRehashMilliseconds
<1>11. CASE dictNext \/ dictReleaseIterator
  <2>1. UNCHANGED <<scan, map>>
    BY <1>11, Zenon DEF dictNext, dictReleaseIterator
  <2> QED BY <1>5, <2>1
<1>12. CASE UNCHANGED dictVars
  BY <1>5, <1>12 DEF dictVars
<1> QED BY <1>1, <1>2, <1>3, <1>4, <1>6, <1>7, <1>8, <1>9, <1>10, <1>11, <1>12 DEF DictNext

-----------------------------------------------------------------------------
(* Iterators *)

\* The fingerprint depends on the tables alone.
LEMMA FingerprintIs ==
    ASSUME NEW d, DictOK(d)
    PROVE  /\ dictFingerprint(d) \in [{0, 1} -> Nat \X Nat]
           /\ \A e : e.ht = d.ht => dictFingerprint(e) = dictFingerprint(d)
<1>1. \A j \in {0, 1} : Size(d.ht[j]) \in Nat /\ d.ht[j].used \in Nat
  BY DictParts
<1>2. dictFingerprint(d) \in [{0, 1} -> Nat \X Nat]
  BY <1>1 DEF dictFingerprint
<1>3. \A e : e.ht = d.ht => dictFingerprint(e) = dictFingerprint(d)
  BY Zenon DEF dictFingerprint
<1> QED BY <1>2, <1>3

\* An iterator to which a key is no longer owed.
Forgot(it, x) == [it EXCEPT !.owed = @ \ {x}, !.seen = @ \ {x}]

\* What it changes.
LEMMA ForgotIs ==
    ASSUME NEW it \in Iterators, NEW x
    PROVE  /\ Forgot(it, x) \in Iterators
           /\ Forgot(it, x).owed = it.owed \ {x} /\ Forgot(it, x).seen = it.seen \ {x}
           /\ Forgot(it, x).table = it.table /\ Forgot(it, x).index = it.index /\ Forgot(it, x).next = it.next
           /\ Forgot(it, x).safe = it.safe /\ Forgot(it, x).end = it.end /\ Forgot(it, x).twice = it.twice
           /\ x \notin it.owed \cup it.seen => Forgot(it, x) = it
<1>1. it.owed \subseteq Keys /\ it.seen \subseteq Keys
  BY DEF Iterators
<1>2. ASSUME x \notin it.owed \cup it.seen PROVE Forgot(it, x) = it
  <2>1. it.owed \ {x} = it.owed /\ it.seen \ {x} = it.seen
    BY <1>2
  <2> QED BY <2>1 DEF Forgot, Iterators
<1>3. Forgot(it, x) \in Iterators
  BY DEF Forgot, Iterators
<1>4. /\ Forgot(it, x).owed = it.owed \ {x} /\ Forgot(it, x).seen = it.seen \ {x}
      /\ Forgot(it, x).table = it.table /\ Forgot(it, x).index = it.index /\ Forgot(it, x).next = it.next
      /\ Forgot(it, x).safe = it.safe /\ Forgot(it, x).end = it.end /\ Forgot(it, x).twice = it.twice
  BY DEF Forgot, Iterators
<1> QED BY <1>1, <1>2, <1>3, <1>4

\* A safe iterator stands a change of the dictionary that keeps the order of the keys.
LEMMA SafeKept ==
    ASSUME NEW d, DictOK(d), NEW it, NEW m, IterOn(d, it, m), it.safe,
           NEW e, e.iterators = d.iterators, NEW x, d.iterators # 0 => Keeps(d, e, x),
           it.next # NULL => it.next # x, NEW p, m \ {x} \subseteq p
    PROVE  IterOn(e, Forgot(it, x), p)
<1> DEFINE f == Forgot(it, x)
<1>1. it \in Iterators /\ it.owed \subseteq m /\ it.seen \subseteq m /\ it.owed \subseteq Keys /\ it.index \in Int
  BY DEF IterOn, Iterators
<1>2. /\ f \in Iterators /\ f.owed = it.owed \ {x} /\ f.seen = it.seen \ {x}
      /\ f.table = it.table /\ f.index = it.index /\ f.next = it.next
      /\ f.safe = it.safe /\ f.end = it.end /\ f.twice = it.twice
  BY <1>1, ForgotIs
<1> HIDE DEF f
<1>3. ASSUME ~it.end PROVE Tracks(e, f)
  <2>1. Tracks(d, it)
    BY <1>3 DEF IterOn
  <2>2. CASE it.index = -1
    <3>1. f.index = -1 /\ f.table = 0 /\ f.next = NULL /\ f.seen = {}
      BY <1>2, <2>1, <2>2 DEF Tracks
    <3> QED BY <3>1 DEF Tracks
  <2>3. CASE it.index # -1
    <3>1. d.iterators = 1 /\ Keeps(d, e, x)
      BY <2>3 DEF IterOn, HasBegun
    <3>2. /\ OnTrack(d, it.table, it.index, it.next)
          /\ \A k \in it.owed : Awaits(d, it.table, it.index, it.next, k)
          /\ \A k \in it.seen : ~Awaits(d, it.table, it.index, it.next, k)
      BY <2>1, <2>3 DEF Tracks
    <3>3. /\ OnTrack(e, it.table, it.index, it.next)
          /\ \A k : k # x => (Awaits(e, it.table, it.index, it.next, k) <=> Awaits(d, it.table, it.index, it.next, k))
      BY <3>1, <3>2, TrackKept
    <3> QED BY <1>2, <2>3, <3>2, <3>3 DEF Tracks
  <2> QED BY <2>2, <2>3
<1>4. f.owed \subseteq p /\ f.seen \subseteq p
  BY <1>1, <1>2
<1>5. e.iterators = IF f.safe /\ HasBegun(f) THEN 1 ELSE 0
  BY <1>2 DEF IterOn, HasBegun
<1>6. f.safe /\ ~f.twice /\ (f.end => f.owed = {})
  BY <1>2 DEF IterOn
<1> QED BY <1>2, <1>3, <1>4, <1>5, <1>6 DEF IterOn, f

\* The same tables have the same fingerprint, the same order and the same keys to come.
LEMMA SameTables ==
    ASSUME NEW d, DictOK(d), NEW e, e.ht = d.ht, NEW it
    PROVE  dictFingerprint(e) = dictFingerprint(d) /\ (Tracks(d, it) => Tracks(e, it))
<1>1. dictFingerprint(e) = dictFingerprint(d)
  BY FingerprintIs
<1>2. \A t, i, n : OnTrack(e, t, i, n) <=> OnTrack(d, t, i, n)
  BY DEF OnTrack
<1>3. \A t, i, n, k : Awaits(e, t, i, n, k) <=> Awaits(d, t, i, n, k)
  BY DEF Awaits
<1>4. Tracks(d, it) => Tracks(e, it)
  BY <1>2, <1>3 DEF Tracks
<1> QED BY <1>1, <1>4

\* What an iterator says of its next key.
LEMMA NextKey ==
    ASSUME DictInv, IterOn(dict, iter, DOMAIN map)
    PROVE  iter.next # NULL => iter.next \in DOMAIN map \/ iter.end
<1> SUFFICES ASSUME iter.next # NULL, ~iter.end PROVE iter.next \in DOMAIN map
  OBVIOUS
<1>1. OnTrack(dict, iter.table, iter.index, iter.next)
  BY DEF IterOn, Tracks
<1>2. iter.next \in AllKeys(dict)
  BY <1>1, KeyYielded DEF DictInv
<1> QED BY <1>2, InvParts

\* An operation that an iterator in use permits.
LEMMA UsedStep ==
    ASSUME DictInv, IterOK, MayUse, NEW x, dict'.iterators = dict.iterators,
           dict.iterators # 0 => Keeps(dict, dict', x),
           iter.on => (iter.next # NULL => iter.next # x),
           iter' = ForgetIter(x), DOMAIN map \ {x} \subseteq DOMAIN map'
    PROVE  IterOK'
<1>1. CASE iter = NoIter /\ dict.iterators = 0
  <2>1. iter' = NoIter
    BY <1>1 DEF ForgetIter, NoIter
  <2> QED BY <1>1, <2>1 DEF IterOK
<1>2. CASE IterOn(dict, iter, DOMAIN map)
  <2> DEFINE e == dict'  p == DOMAIN map'
  <2>1. iter.on = TRUE /\ iter.safe
    BY <1>2 DEF IterOn, Iterators, MayUse
  <2>2. iter' = Forgot(iter, x)
    BY <2>1 DEF ForgetIter, Forgot
  <2>3. /\ e.iterators = dict.iterators /\ (dict.iterators # 0 => Keeps(dict, e, x)) /\ DOMAIN map \ {x} \subseteq p
        /\ iter.next # NULL => iter.next # x
    BY <2>1
  <2> HIDE DEF e, p
  <2>4. IterOn(e, Forgot(iter, x), p)
    BY <1>2, <2>1, <2>3, SafeKept DEF DictInv
  <2> QED BY <2>2, <2>4 DEF IterOK, e, p
<1> QED BY <1>1, <1>2 DEF IterOK

\* An operation that takes no key away.
LEMMA QuietStep ==
    ASSUME DictInv, IterOK, MayUse, NEW x, x \notin DOMAIN map, dict'.iterators = dict.iterators,
           dict.iterators # 0 => Keeps(dict, dict', x),
           iter' = iter, DOMAIN map \subseteq DOMAIN map'
    PROVE  IterOK'
<1>1. CASE iter = NoIter
  <2>1. iter' = ForgetIter(x) /\ ~iter.on
    BY <1>1 DEF ForgetIter, NoIter
  <2> QED BY <2>1, UsedStep
<1>2. CASE iter # NoIter
  <2>1. IterOn(dict, iter, DOMAIN map)
    BY <1>2 DEF IterOK
  <2>2. iter \in Iterators /\ x \notin iter.owed \cup iter.seen
    BY <2>1 DEF IterOn
  <2>3. ForgetIter(x) = iter
    <3>1. Forgot(iter, x) = iter
      BY <2>2, ForgotIs
    <3> QED BY <3>1 DEF ForgetIter, Forgot
  <2>4. CASE iter.end
    <3> DEFINE e == dict'  p == DOMAIN map'
    <3>1. e.iterators = dict.iterators /\ DOMAIN map \subseteq p /\ iter.safe
      BY <2>2 DEF MayUse, Iterators
    <3> HIDE DEF e, p
    <3>2. IterOn(e, iter, p)
      BY <2>1, <2>4, <3>1 DEF IterOn
    <3> QED BY <3>2 DEF IterOK, e, p
  <2>5. CASE ~iter.end
    <3>1. iter.next # NULL => iter.next # x
      BY <2>1, <2>5, NextKey
    <3> QED BY <2>3, <3>1, UsedStep
  <2> QED BY <2>4, <2>5
<1> QED BY <1>1, <1>2

\* dictAdd, dictReplace and dictDelete keep what an iterator promises.
LEMMA AddIter ==
    ASSUME DictInv, IterOK, NEW k \in Keys, NEW v \in Vals, dictAdd(k, v)
    PROVE  IterOK'
<1> DEFINE x == Prepared(dict)  e == PutFront(x.d, k, v)
<1>1. /\ MayUse /\ k \notin DOMAIN map /\ x.ok /\ Where(x.d, k) = -1 /\ dict' = e /\ iter' = iter
      /\ DOMAIN map \subseteq DOMAIN map'
  BY DEF dictAdd
<1>2. Same(dict, x.d) /\ Size(x.d.ht[0]) # 0
  BY <1>1, PreparedIs DEF DictInv
<1>3. dict.iterators # 0 => Keeps(dict, x.d, k)
  BY PreparedKeeps DEF DictInv
<1> HIDE DEF x
<1>4. Keeps(x.d, e, k) /\ e.iterators = x.d.iterators
  BY <1>1, <1>2, AddedKeeps DEF Same
<1>5. e.iterators = dict.iterators
  BY <1>2, <1>4 DEF Same
<1> HIDE DEF e
<1>6. dict.iterators # 0 => Keeps(dict, e, k)
  BY <1>3, <1>4, KeepsTwice
<1> QED BY <1>1, <1>5, <1>6, QuietStep

LEMMA ReplaceIter ==
    ASSUME DictInv, IterOK, NEW k \in Keys, NEW v \in Vals, dictReplace(k, v)
    PROVE  IterOK'
<1> DEFINE x == Prepared(dict)  e == SetVal(x.d, k, v)
<1>0. NULL \notin DOMAIN map
  BY WordAssumption DEF DictInv, NULL
<1>1. /\ MayUse /\ x.ok /\ Where(x.d, k) # -1 /\ dict' = e /\ iter' = iter
      /\ DOMAIN map \subseteq DOMAIN map'
  BY DEF dictReplace
<1>2. Same(dict, x.d) /\ Size(x.d.ht[0]) # 0
  BY <1>1, PreparedIs DEF DictInv
<1>3. dict.iterators # 0 => Keeps(dict, x.d, NULL)
  BY PreparedKeeps DEF DictInv
<1> HIDE DEF x
<1>4. Keeps(x.d, e, NULL) /\ e.iterators = x.d.iterators
  BY <1>1, <1>2, ValueSetKeeps DEF Same
<1>5. e.iterators = dict.iterators
  BY <1>2, <1>4 DEF Same
<1> HIDE DEF e
<1>6. dict.iterators # 0 => Keeps(dict, e, NULL)
  BY <1>3, <1>4, KeepsTwice
<1> QED BY <1>0, <1>1, <1>5, <1>6, QuietStep

LEMMA DeleteIter ==
    ASSUME DictInv, IterOK, NEW k \in Keys, dictGenericDelete(k)
    PROVE  IterOK'
<1> DEFINE d == RehashStep(dict)
           w == IF Where(d, k) = -1 THEN d ELSE UnlinkEntry(d, k)
<1>1. /\ MayUse /\ (iter.on => k # iter.next) /\ dictSize(dict) # 0 /\ dict' = w /\ iter' = ForgetIter(k)
      /\ DOMAIN map \ {k} \subseteq DOMAIN map'
  BY DEF dictGenericDelete
<1>2. DictOK(d) /\ AllEnts(d) = AllEnts(dict) /\ d.iterators = dict.iterators
  BY StepRehashed DEF DictInv, Same
<1>3. dict.iterators # 0 => d = dict
  BY PreparedKeeps DEF DictInv
<1>w. w = IF Where(d, k) = -1 THEN d ELSE UnlinkEntry(d, k)
  OBVIOUS
<1> HIDE DEF d, w
<1>4. Size(d.ht[0]) # 0
  <2>1. AllKeys(d) = AllKeys(dict)
    BY <1>2, Counted DEF DictInv
  <2>2. dictSize(d) # 0
    BY <1>1, <1>2, <2>1, Counted DEF DictInv
  <2> QED BY <1>2, <2>2, Counted
<1>5. Keeps(d, w, k) /\ w.iterators = d.iterators
  <2>1. CASE Where(d, k) = -1
    BY <1>w, <2>1, Unmoved DEF Keeps
  <2>2. CASE Where(d, k) # -1
    BY <1>w, <1>2, <1>4, <2>2, UnlinkedKeeps
  <2> QED BY <2>1, <2>2
<1> QED BY <1>1, <1>2, <1>3, <1>5, UsedStep

\* Steps that only move entries, or only resize.
LEMMA MoveIter ==
    ASSUME DictInv, IterOK,
           \/ dictFind \/ dictResize \/ \E n \in 1 .. Cardinality(Keys) : dictGetSomeKeys(n) \/ dictExpand(n)
    PROVE  IterOK'
<1>0. NULL \notin DOMAIN map /\ DictOK(dict) /\ Keeps(dict, dict, NULL)
  BY WordAssumption, Unmoved DEF DictInv, NULL, Keeps
<1>1. CASE dictFind
  <2>1. dict' = RehashStep(dict) /\ UNCHANGED <<iter, map>> /\ MayUse
    BY <1>1 DEF dictFind
  <2>2. dict'.iterators = dict.iterators /\ (dict.iterators # 0 => dict' = dict)
    BY <1>0, <2>1, StepRehashed, PreparedKeeps DEF Same
  <2> QED BY <1>0, <2>1, <2>2, QuietStep
<1>2. ASSUME NEW size \in Nat, size <= Word, MayUse, dict' = Expand(dict, size).d, UNCHANGED <<iter, map>>
      PROVE  IterOK'
  <2>1. Keeps(dict, dict', NULL) /\ dict'.iterators = dict.iterators
    BY <1>0, <1>2, ExpandedKeeps, Expanded DEF Same
  <2> QED BY <1>0, <1>2, <2>1, QuietStep
<1>3. CASE dictResize
  <2> DEFINE size == IF dict.ht[0].used < InitialSize THEN InitialSize ELSE dict.ht[0].used
  <2>1. dict' = Expand(dict, size).d /\ UNCHANGED <<iter, map>> /\ MayUse
    BY <1>3 DEF dictResize
  <2>2. size \in Nat /\ size <= Word
    BY <1>0, UsedBound, InitialDivides, DictAssumption
  <2> QED BY <1>2, <2>1, <2>2
<1>4. ASSUME NEW n \in 1 .. Cardinality(Keys), dictGetSomeKeys(n) PROVE IterOK'
  <2> DEFINE c == IF dictSize(dict) < n THEN dictSize(dict) ELSE n
             go == CHOOSE g : g = [j \in 0 .. c |-> IF j = 0 THEN dict ELSE RehashStep(g[j - 1])]
  <2>1. dict' = go[c] /\ UNCHANGED <<iter, map>> /\ MayUse
    BY <1>4 DEF dictGetSomeKeys
  <2>2. c \in Nat
    BY <1>0, Counted
  <2> HIDE DEF c
  <2>3. go = CHOOSE g : g = [j \in 0 .. c |-> IF j = 0 THEN dict ELSE RehashStep(g[j - 1])]
    OBVIOUS
  <2> HIDE DEF go
  <2>4. Same(dict, go[c]) /\ (dict.iterators # 0 => go[c] = dict)
    BY <1>0, <2>2, <2>3, StepsRehashed
  <2>5. dict'.iterators = dict.iterators /\ (dict.iterators # 0 => Keeps(dict, dict', NULL))
    BY <1>0, <2>1, <2>4 DEF Same
  <2> QED BY <1>0, <2>1, <2>5, QuietStep
<1>5. ASSUME NEW n \in 1 .. Cardinality(Keys), dictExpand(n) PROVE IterOK'
  <2>1. dict' = Expand(dict, n).d /\ UNCHANGED <<iter, map>> /\ MayUse
    BY <1>5 DEF dictExpand
  <2>2. n \in Nat /\ n <= Word
    <3>1. Cardinality(Keys) \in Nat /\ Word \in Nat /\ 2 * Cardinality(Keys) <= Word
      BY DictAssumption, WordAssumption, FS_CardinalityType
    <3> QED BY <3>1
  <2> QED BY <1>2, <2>1, <2>2
<1> QED BY <1>1, <1>3, <1>4, <1>5

\* The bucket a key is still to be found in.
LEMMA AheadIs ==
    ASSUME NEW d, DictOK(d), NEW t \in {0, 1}, NEW i \in Int, NEW k
    PROVE  Awaits(d, t, i, NULL, k) <=> \E q \in Ahead(d, t, i) : k \in ChainKeys(d.ht[q[1]].table[q[2]])
<1>0. /\ \A j \in {0, 1} : Good(d.ht[j]) /\ Size(d.ht[j]) \in Nat /\ Size(d.ht[j]) <= Word
      /\ ~IsRehashing(d) => TableKeys(d.ht[1]) = {}
      /\ Word \in Nat
  <2>1. \A w \in Sizes : w <= Word
    BY DivisorParts, WordAssumption DEF Sizes
  <2> QED BY <2>1, DictParts, TableNone, WordAssumption DEF DictOK, Fits, IsRehashing
<1>1. ASSUME NEW j \in {0, 1}, k \in TableKeys(d.ht[j]), NEW h, h = Home(k, Size(d.ht[j]))
      PROVE  /\ h \in 0 .. Word /\ h < Size(d.ht[j]) /\ d.ht[j].table[h] # << >>
             /\ k \in ChainKeys(d.ht[j].table[h])
  <2> DEFINE s == d.ht[j]
  <2>1. Good(s) /\ Size(s) \in Nat /\ Size(s) <= Word /\ s \in Tables /\ k \in TableKeys(s)
    BY <1>0, <1>1 DEF Good
  <2>s. h = Home(k, Size(s))
    BY <1>1
  <2> HIDE DEF s
  <2>2. k \in Keys /\ Size(s) # 0
    BY <2>1, TableSets, TableEmpty
  <2>3. h \in 0 .. Size(s) - 1
    BY <2>1, <2>2, <2>s, HomeIn
  <2>4. k \in ChainKeys(s.table[h])
    BY <2>1, <2>3, <2>s, BucketKeys
  <2>5. s.table[h] # << >>
    BY <2>4 DEF ChainKeys
  <2> QED BY <1>0, <2>1, <2>3, <2>4, <2>5 DEF s
<1>2. ASSUME Awaits(d, t, i, NULL, k) PROVE \E q \in Ahead(d, t, i) : k \in ChainKeys(d.ht[q[1]].table[q[2]])
  <2>1. CASE k \in TableKeys(d.ht[t]) /\ Home(k, Size(d.ht[t])) > i
    <3> DEFINE h == Home(k, Size(d.ht[t]))  q == <<t, h>>
    <3>1. /\ h \in 0 .. Word /\ h < Size(d.ht[t]) /\ d.ht[t].table[h] # << >> /\ h > i
          /\ k \in ChainKeys(d.ht[t].table[h])
      BY <1>1, <2>1
    <3> HIDE DEF h
    <3>2. q \in Ahead(d, t, i) /\ q[1] = t /\ q[2] = h
      BY <3>1 DEF Ahead
    <3> QED BY <3>1, <3>2
  <2>2. CASE t = 0 /\ k \in TableKeys(d.ht[1])
    <3> DEFINE h == Home(k, Size(d.ht[1]))  q == <<1, h>>
    <3>1. /\ h \in 0 .. Word /\ h < Size(d.ht[1]) /\ d.ht[1].table[h] # << >>
          /\ k \in ChainKeys(d.ht[1].table[h])
      BY <1>1, <2>2
    <3>2. IsRehashing(d)
      BY <1>0, <2>2
    <3> HIDE DEF h
    <3>3. q \in Ahead(d, t, i) /\ q[1] = 1 /\ q[2] = h
      BY <2>2, <3>1, <3>2 DEF Ahead
    <3> QED BY <3>1, <3>3
  <2> QED BY <1>2, <2>1, <2>2 DEF Awaits
<1>3. ASSUME NEW q \in Ahead(d, t, i), k \in ChainKeys(d.ht[q[1]].table[q[2]]) PROVE Awaits(d, t, i, NULL, k)
  <2> DEFINE j == q[1]  h == q[2]
  <2>1. /\ j \in {0, 1} /\ h \in 0 .. Word /\ ((j = t /\ h > i) \/ (j > t /\ IsRehashing(d)))
        /\ h < Size(d.ht[j])
    BY DEF Ahead
  <2>2. k \in ChainKeys(d.ht[j].table[h])
    BY <1>3
  <2> HIDE DEF j, h
  <2>3. Good(d.ht[j]) /\ h \in 0 .. Size(d.ht[j]) - 1
    BY <1>0, <2>1
  <2>4. k \in TableKeys(d.ht[j]) /\ Home(k, Size(d.ht[j])) = h
    BY <2>2, <2>3, BucketKeys
  <2>5. CASE j = t /\ h > i
    BY <2>4, <2>5 DEF Awaits
  <2>6. CASE j > t
    <3>1. t = 0 /\ j = 1
      BY <2>1, <2>6
    <3> QED BY <2>4, <3>1 DEF Awaits
  <2> QED BY <2>1, <2>5, <2>6
<1> QED BY <1>2, <1>3

\* Of the buckets ahead there is a first one.
LEMMA AheadFirst ==
    ASSUME NEW d, NEW t \in {0, 1}, NEW i \in Int, NEW a, a = Ahead(d, t, i), a # {}
    PROVE  \E p \in a : \A r \in a : Before(p, r)
<1>1. a \subseteq {0, 1} \X (0 .. Word)
  BY DEF Ahead
<1> DEFINE R == {q[1] : q \in a}
<1>2. R \subseteq Nat /\ R # {}
  BY <1>1
<1> HIDE DEF R
<1>3. PICK x \in R : \A y \in R : ~(y < x)
  BY <1>2, Lowest
<1> DEFINE S == {q[2] : q \in {r \in a : r[1] = x}}
<1>4. S \subseteq Nat /\ S # {}
  <2>1. \E r \in a : r[1] = x
    BY <1>3 DEF R
  <2>2. \A r \in a : r[2] \in Nat
    BY <1>1, WordAssumption
  <2> QED BY <2>1, <2>2
<1> HIDE DEF S
<1>5. PICK y \in S : \A z \in S : ~(z < y)
  BY <1>4, Lowest
<1>6. PICK p \in a : p[1] = x /\ p[2] = y
  BY <1>5 DEF S
<1>7. ASSUME NEW r \in a PROVE Before(p, r)
  <2>1. r[1] \in R /\ (r[1] = x => r[2] \in S)
    BY DEF R, S
  <2>2. r[1] \in Nat /\ x \in Nat /\ y \in Nat /\ (r[1] = x => r[2] \in Nat)
    BY <1>2, <1>4, <2>1
  <2>3. ~(r[1] < x) /\ (r[1] = x => ~(r[2] < y))
    BY <1>3, <1>5, <2>1
  <2> QED BY <1>6, <2>2, <2>3 DEF Before
<1> QED BY <1>7

\* What it is for a bucket to be ahead.
LEMMA InAhead ==
    ASSUME NEW d, NEW t, NEW i, NEW q
    PROVE  q \in Ahead(d, t, i) <=>
             /\ q \in {0, 1} \X (0 .. Word) /\ ((q[1] = t /\ q[2] > i) \/ (q[1] > t /\ IsRehashing(d)))
             /\ q[2] < Size(d.ht[q[1]]) /\ d.ht[q[1]].table[q[2]] # << >>
BY Zenon DEF Ahead

\* An iterator that goes on to the first bucket ahead awaits what it did before.
LEMMA MovesAhead ==
    ASSUME NEW d, DictOK(d), NEW t \in {0, 1}, NEW i \in Int, NEW a, a = Ahead(d, t, i), a # {},
           NEW p \in a, \A r \in a : Before(p, r), NEW n, n = d.ht[p[1]].table[p[2]][1].key
    PROVE  /\ n # NULL /\ OnTrack(d, p[1], p[2], n)
           /\ \A k : Awaits(d, p[1], p[2], n, k) <=> Awaits(d, t, i, NULL, k)
<1> DEFINE j == p[1]  h == p[2]  c == d.ht[j].table[h]
<1>2. /\ j \in {0, 1} /\ h \in 0 .. Word /\ h < Size(d.ht[j]) /\ c # << >>
      /\ (j = t /\ h > i) \/ (j > t /\ IsRehashing(d))
      /\ p = <<j, h>>
  BY InAhead
<1>n. n = c[1].key
  OBVIOUS
<1>a. \A r \in a : j < r[1] \/ (j = r[1] /\ h <= r[2])
  BY DEF Before
<1>c. c = d.ht[p[1]].table[p[2]] /\ c = d.ht[j].table[h] /\ j = p[1] /\ h = p[2]
  OBVIOUS
<1> HIDE DEF j, h, c
<1>3. Good(d.ht[j]) /\ h \in 0 .. Size(d.ht[j]) - 1 /\ h \in Int
  <2>1. Good(d.ht[j]) /\ Size(d.ht[j]) \in Nat
    BY <1>2, DictParts
  <2> QED BY <1>2, <2>1, WordAssumption
<1>4. c \in Seq(Entry)
  BY <1>3, <1>c, BucketKeys
<1>5. n \in ChainKeys(c) /\ Following(c, n) = ChainKeys(c)
  BY <1>2, <1>4, <1>n, FollowFirst
<1>6. n # NULL
  BY <1>4, <1>5, ChainParts, WordAssumption DEF NULL
<1>7. OnTrack(d, j, h, n)
  BY <1>2, <1>3, <1>5, <1>c DEF OnTrack
<1>8. \A q : q \in a <=> q = p \/ q \in Ahead(d, j, h)
  <2>1. ASSUME NEW q \in Ahead(d, j, h) PROVE q \in a
    <3>1. /\ q \in {0, 1} \X (0 .. Word) /\ ((q[1] = j /\ q[2] > h) \/ (q[1] > j /\ IsRehashing(d)))
          /\ q[2] < Size(d.ht[q[1]]) /\ d.ht[q[1]].table[q[2]] # << >>
      BY InAhead
    <3>2. (q[1] = t /\ q[2] > i) \/ (q[1] > t /\ IsRehashing(d))
      <4>1. q[1] \in {0, 1} /\ q[2] \in Int
        BY <3>1, WordAssumption
      <4> QED BY <1>2, <1>3, <3>1, <4>1
    <3> QED BY <3>1, <3>2, InAhead
  <2>2. ASSUME NEW q \in a, q # p PROVE q \in Ahead(d, j, h)
    <3>1. /\ q \in {0, 1} \X (0 .. Word) /\ ((q[1] = t /\ q[2] > i) \/ (q[1] > t /\ IsRehashing(d)))
          /\ q[2] < Size(d.ht[q[1]]) /\ d.ht[q[1]].table[q[2]] # << >>
      BY InAhead
    <3>2. q[1] \in {0, 1} /\ q[2] \in Int /\ q = <<q[1], q[2]>>
      BY <3>1, WordAssumption
    <3>3. (q[1] = j /\ q[2] > h) \/ (q[1] > j /\ IsRehashing(d))
      <4>1. CASE j < q[1]
        BY <1>2, <3>1, <3>2, <4>1
      <4>2. CASE j = q[1] /\ h <= q[2]
        <5>1. q[2] # h
          BY <1>2, <2>2, <3>2, <4>2
        <5> QED BY <1>3, <3>2, <4>2, <5>1
      <4> QED BY <1>a, <4>1, <4>2
    <3> QED BY <3>1, <3>3, InAhead
  <2> QED BY <2>1, <2>2
<1>9. ASSUME NEW k PROVE Awaits(d, j, h, n, k) <=> Awaits(d, t, i, NULL, k)
  <2>1. Awaits(d, t, i, NULL, k) <=> \E q \in a : k \in ChainKeys(d.ht[q[1]].table[q[2]])
    BY AheadIs
  <2>2. Awaits(d, j, h, NULL, k) <=> \E q \in Ahead(d, j, h) : k \in ChainKeys(d.ht[q[1]].table[q[2]])
    BY <1>2, <1>3, AheadIs
  <2>3. Awaits(d, t, i, NULL, k) <=> k \in ChainKeys(c) \/ Awaits(d, j, h, NULL, k)
    BY <1>8, <1>c, <2>1, <2>2, Zenon
  <2>4. Awaits(d, j, h, n, k) <=> k \in ChainKeys(c) \/ Awaits(d, j, h, NULL, k)
    BY <1>5, <1>6, <1>c DEF Awaits
  <2> QED BY <2>3, <2>4
<1> QED BY <1>6, <1>7, <1>9, Zenon DEF j, h

\* An iterator returns the key it was about to return.
LEMMA Yielded ==
    ASSUME DictInv, IterOn(dict, iter, DOMAIN map), ~iter.end, NEW t, NEW i, NEW n, n # NULL, OnTrack(dict, t, i, n),
           \A k \in iter.owed : Awaits(dict, t, i, n, k), \A k \in iter.seen : ~Awaits(dict, t, i, n, k),
           NEW j, j = Yield(t, i, n)
    PROVE  /\ j \in Iterators /\ j.owed \subseteq DOMAIN map /\ j.seen \subseteq DOMAIN map
           /\ j.safe = iter.safe /\ j.fp = iter.fp /\ ~j.twice /\ ~j.end /\ j.index # -1 /\ Tracks(dict, j)
<1> DEFINE m == AfterKey(dict.ht[t].table[i], n)
<1>1. /\ iter \in Iterators /\ iter.owed \subseteq DOMAIN map /\ iter.seen \subseteq DOMAIN map /\ ~iter.twice
      /\ DictOK(dict) /\ AllKeys(dict) = DOMAIN map /\ DOMAIN map \subseteq Keys
  BY InvParts DEF IterOn, DictInv
<1>m. m = AfterKey(dict.ht[t].table[i], n)
  OBVIOUS
<1>j. j = [iter EXCEPT !.table = t, !.index = i, !.next = m, !.seen = @ \cup {n}, !.owed = @ \ {n},
                       !.twice = @ \/ n \in iter.seen]
  BY DEF Yield
<1> HIDE DEF m
<1>2. /\ OnTrack(dict, t, i, m) /\ Awaits(dict, t, i, n, n) /\ n \in AllKeys(dict) /\ (m # NULL => m \in Keys)
      /\ \A k : Awaits(dict, t, i, m, k) <=> Awaits(dict, t, i, n, k) /\ k # n
  BY <1>1, <1>m, KeyYielded
<1>3. n \notin iter.seen
  BY <1>2
<1>4. t \in {0, 1} /\ i \in Int /\ i # -1
  <2>1. t \in {0, 1} /\ i \in 0 .. Size(dict.ht[t]) - 1
    BY <1>2 DEF OnTrack
  <2>2. Size(dict.ht[t]) \in Nat
    BY <1>1, <2>1, DictParts
  <2> QED BY <2>1, <2>2
<1>5. iter.twice = FALSE /\ n \in Keys /\ m \in Keys \cup {NULL}
  BY <1>1, <1>2 DEF Iterators
<1>6. /\ j.table = t /\ j.index = i /\ j.next = m /\ j.seen = iter.seen \cup {n} /\ j.owed = iter.owed \ {n}
      /\ j.safe = iter.safe /\ j.fp = iter.fp /\ j.end = iter.end /\ j.twice = FALSE
      /\ j \in Iterators
  <2> DEFINE seen == iter.seen \cup {n}  owed == iter.owed \ {n}
  <2>1. j = [iter EXCEPT !.table = t, !.index = i, !.next = m, !.seen = seen, !.owed = owed, !.twice = FALSE]
    BY <1>3, <1>5, <1>j
  <2>2. seen \in SUBSET Keys /\ owed \in SUBSET Keys /\ seen = iter.seen \cup {n} /\ owed = iter.owed \ {n}
    BY <1>1, <1>5
  <2> HIDE DEF seen, owed
  <2>3. /\ j.table = t /\ j.index = i /\ j.next = m /\ j.seen = seen /\ j.owed = owed
        /\ j.safe = iter.safe /\ j.fp = iter.fp /\ j.end = iter.end /\ j.twice = FALSE
    BY <1>1, <2>1 DEF Iterators
  <2>4. j \in Iterators
    BY <1>1, <1>4, <1>5, <2>1, <2>2 DEF Iterators
  <2> QED BY <2>2, <2>3, <2>4
<1>7. Tracks(dict, j)
  BY <1>2, <1>4, <1>6 DEF Tracks
<1> QED BY <1>1, <1>2, <1>4, <1>6, <1>7

\* dictNext goes on in the chain, or to the first bucket ahead, or ends with nothing owed.
LEMMA NextIter ==
    ASSUME DictInv, IterOK, dictNext
    PROVE  IterOK'
<1> DEFINE m == DOMAIN map
           j == iter'
           ahead == Ahead(dict, iter.table, iter.index)
           p == CHOOSE q \in ahead : \A r \in ahead : Before(q, r)
           first == dict.ht[p[1]].table[p[2]][1].key
<1>1. iter.on /\ ~iter.end /\ map' = map
  BY Zenon DEF dictNext
<1>2. IterOn(dict, iter, m)
  BY <1>1 DEF IterOK, NoIter
<1>3. /\ iter \in Iterators /\ iter.owed \subseteq m /\ iter.seen \subseteq m
      /\ dict.iterators = IF iter.safe /\ Begun THEN 1 ELSE 0
      /\ (~iter.safe => iter.fp = dictFingerprint(dict)) /\ ~iter.twice /\ Tracks(dict, iter)
      /\ DictOK(dict) /\ AllKeys(dict) = m
  BY <1>1, <1>2, InvParts DEF IterOn, DictInv, HasBegun, Begun
<1>4. /\ iter.table \in {0, 1} /\ iter.index \in Int /\ iter.safe \in BOOLEAN
      /\ \A k \in iter.owed : Awaits(dict, iter.table, iter.index, iter.next, k)
      /\ \A k \in iter.seen : ~Awaits(dict, iter.table, iter.index, iter.next, k)
      /\ iter.next # NULL => OnTrack(dict, iter.table, iter.index, iter.next)
  <2>1. iter.table \in {0, 1} /\ iter.index \in Int /\ iter.safe \in BOOLEAN
    BY <1>3 DEF Iterators
  <2>2. CASE iter.index = -1
    <3>1. iter.table = 0 /\ iter.next = NULL /\ iter.seen = {}
      BY <1>3, <2>2 DEF Tracks
    <3>2. ASSUME NEW k \in iter.owed PROVE Awaits(dict, 0, -1, NULL, k)
      <4>1. k \in AllKeys(dict)
        BY <1>3
      <4>2. CASE k \in TableKeys(dict.ht[1])
        BY <4>2 DEF Awaits
      <4>3. CASE k \in TableKeys(dict.ht[0])
        <5>1. Good(dict.ht[0]) /\ dict.ht[0] \in Tables /\ Size(dict.ht[0]) \in Nat
          BY <1>3, DictParts
        <5>2. k \in Keys /\ Size(dict.ht[0]) # 0
          BY <4>3, <5>1, TableSets, TableEmpty
        <5>3. Home(k, Size(dict.ht[0])) \in 0 .. Size(dict.ht[0]) - 1
          BY <5>1, <5>2, HomeIn
        <5>4. Home(k, Size(dict.ht[0])) > -1
          BY <5>1, <5>3
        <5> QED BY <4>3, <5>4 DEF Awaits
      <4> QED BY <4>1, <4>2, <4>3 DEF AllKeys
    <3> QED BY <2>1, <2>2, <3>1, <3>2
  <2>3. CASE iter.index # -1
    BY <1>3, <2>1, <2>3 DEF Tracks
  <2> QED BY <2>2, <2>3
<1>5. /\ DictOK(dict') /\ dict'.ht = dict.ht
      /\ dict'.iterators = IF iter.safe THEN 1 ELSE 0
  <2>1. dict' = IF iter.safe /\ ~Begun THEN [dict EXCEPT !.iterators = @ + 1] ELSE dict
    BY Zenon DEF dictNext
  <2>2. dict \in DictType /\ dict.iterators \in Int
    BY <1>3, DictParts
  <2>3. CASE iter.safe /\ ~Begun
    <3> DEFINE e == [dict EXCEPT !.iterators = @ + 1]
    <3>1. e \in DictType /\ e.ht = dict.ht /\ e.rehashidx = dict.rehashidx /\ e.iterators = dict.iterators + 1
      BY <2>2 DEF DictType
    <3>2. dict' = e
      BY <2>1, <2>3
    <3> HIDE DEF e
    <3>3. DictOK(e) /\ e.iterators = 1
      BY <1>3, <2>3, <3>1 DEF DictOK
    <3> QED BY <2>3, <3>1, <3>2, <3>3
  <2>4. CASE ~(iter.safe /\ ~Begun)
    BY <1>3, <2>1, <2>4
  <2> QED BY <2>3, <2>4
<1>6. j = CASE iter.next # NULL -> Yield(iter.table, iter.index, iter.next)
            [] iter.next = NULL /\ ahead # {} -> Yield(p[1], p[2], first)
            [] OTHER -> [iter EXCEPT !.end = TRUE]
  BY Zenon DEF dictNext
<1>a. ahead = Ahead(dict, iter.table, iter.index) /\ first = dict.ht[p[1]].table[p[2]][1].key
  OBVIOUS
<1>p. p = CHOOSE q \in ahead : \A r \in ahead : Before(q, r)
  OBVIOUS
<1> HIDE DEF j, ahead, p, first, m
<1>7. ASSUME NEW t, NEW i, NEW n, n # NULL, OnTrack(dict, t, i, n), j = Yield(t, i, n),
             \A k \in iter.owed : Awaits(dict, t, i, n, k), \A k \in iter.seen : ~Awaits(dict, t, i, n, k)
      PROVE  IterOn(dict', j, m)
  <2> DEFINE e == dict'
  <2>1. /\ j \in Iterators /\ j.owed \subseteq m /\ j.seen \subseteq m
        /\ j.safe = iter.safe /\ j.fp = iter.fp /\ ~j.twice /\ ~j.end /\ j.index # -1 /\ Tracks(dict, j)
    BY <1>1, <1>2, <1>7, Yielded DEF m
  <2>2. /\ dictFingerprint(e) = dictFingerprint(dict) /\ (Tracks(dict, j) => Tracks(e, j))
        /\ e.iterators = IF iter.safe THEN 1 ELSE 0
    <3>1. e.ht = dict.ht /\ e.iterators = IF iter.safe THEN 1 ELSE 0
      BY <1>5
    <3> HIDE DEF e
    <3> QED BY <1>3, <3>1, SameTables
  <2> HIDE DEF e
  <2>3. IterOn(e, j, m)
    BY <1>3, <2>1, <2>2 DEF IterOn, HasBegun
  <2> QED BY <2>3 DEF e
<1>8. CASE iter.next # NULL
  <2>1. j = Yield(iter.table, iter.index, iter.next)
    BY <1>6, <1>8, Zenon
  <2> QED BY <1>1, <1>4, <1>7, <1>8, <2>1 DEF IterOK, j, m
<1>9. CASE iter.next = NULL /\ ahead # {}
  <2>1. j = Yield(p[1], p[2], first)
    BY <1>6, <1>9, Zenon
  <2>2. p \in ahead /\ \A r \in ahead : Before(p, r)
    <3>1. \E q \in ahead : \A r \in ahead : Before(q, r)
      BY <1>4, <1>9, <1>a, AheadFirst
    <3> QED BY <1>p, <3>1, Zenon
  <2>3. /\ first # NULL /\ OnTrack(dict, p[1], p[2], first)
        /\ \A k : Awaits(dict, p[1], p[2], first, k) <=> Awaits(dict, iter.table, iter.index, NULL, k)
    <3>1. /\ DictOK(dict) /\ iter.table \in {0, 1} /\ iter.index \in Int /\ ahead # {}
          /\ ahead = Ahead(dict, iter.table, iter.index) /\ first = dict.ht[p[1]].table[p[2]][1].key
      BY <1>3, <1>4, <1>9, <1>a
    <3> QED BY <2>2, <3>1, MovesAhead
  <2>4. /\ \A k \in iter.owed : Awaits(dict, p[1], p[2], first, k)
        /\ \A k \in iter.seen : ~Awaits(dict, p[1], p[2], first, k)
    BY <1>4, <1>9, <2>3
  <2>5. IterOn(dict', j, m)
    BY <1>7, <2>1, <2>3, <2>4
  <2> QED BY <1>1, <2>5 DEF IterOK, j, m
<1>10. CASE iter.next = NULL /\ ahead = {}
  <2>1. j = [iter EXCEPT !.end = TRUE]
    BY <1>6, <1>10, Zenon
  <2>2. iter.owed = {}
    <3>1. \A k : ~Awaits(dict, iter.table, iter.index, NULL, k)
      BY <1>3, <1>4, <1>10, <1>a, AheadIs
    <3> QED BY <1>4, <1>10, <3>1
  <2>3. /\ j \in Iterators /\ j.owed = iter.owed /\ j.seen = iter.seen /\ j.end = TRUE /\ j.safe = iter.safe
        /\ j.fp = iter.fp /\ j.twice = iter.twice
    BY <1>3, <2>1 DEF Iterators
  <2> DEFINE e == dict'
  <2>4. dictFingerprint(e) = dictFingerprint(dict) /\ e.iterators = IF iter.safe THEN 1 ELSE 0
    BY <1>3, <1>5, FingerprintIs
  <2> HIDE DEF e
  <2>5. IterOn(e, j, m)
    BY <1>3, <2>2, <2>3, <2>4 DEF IterOn, HasBegun
  <2> QED BY <1>1, <2>5 DEF IterOK, e, j, m
<1> QED BY <1>8, <1>9, <1>10

\* A new iterator owes every key.
LEMMA BeginIter ==
    ASSUME DictInv, IterOK, NEW safe \in BOOLEAN, dictGetIterator(safe)
    PROVE  IterOK'
<1> DEFINE m == DOMAIN map
           fp == IF safe THEN << >> ELSE dictFingerprint(dict)
           j == [on |-> TRUE, safe |-> safe, table |-> 0, index |-> -1,
                 next |-> NULL, seen |-> {}, owed |-> m, twice |-> FALSE, end |-> FALSE, fp |-> fp]
<1>1. iter' = j /\ dict' = dict /\ map' = map /\ ~iter.on
  BY DEF dictGetIterator, Traversing
<1>2. dict.iterators = 0
  BY <1>1 DEF IterOK, IterOn, Iterators
<1>3. m \subseteq Keys /\ fp \in {<< >>} \cup [{0, 1} -> Nat \X Nat] /\ (~safe => fp = dictFingerprint(dict))
  BY FingerprintIs DEF DictInv
<1> HIDE DEF m, fp
<1>4. j \in Iterators
  BY <1>3 DEF Iterators
<1>5. IterOn(dict, j, m)
  BY <1>2, <1>3, <1>4 DEF IterOn, Tracks, HasBegun
<1> HIDE DEF j
<1> QED BY <1>1, <1>5 DEF IterOK, m

\* A safe iterator that has begun is no longer counted when it is released.
LEMMA ReleaseIter ==
    ASSUME DictInv, IterOK, dictReleaseIterator
    PROVE  IterOK'
<1>1. iter.on /\ iter' = NoIter /\ dict' = IF iter.safe /\ Begun THEN [dict EXCEPT !.iterators = @ - 1] ELSE dict
  BY DEF dictReleaseIterator
<1>2. dict.iterators = IF iter.safe /\ Begun THEN 1 ELSE 0
  BY <1>1 DEF IterOK, IterOn, HasBegun, Begun, NoIter
<1>3. dict'.iterators = 0
  <2>1. dict \in DictType
    BY DEF DictInv, DictOK
  <2> QED BY <1>1, <1>2, <2>1 DEF DictType
<1> QED BY <1>1, <1>3 DEF IterOK

\* No iterator is in use.
LEMMA NoIterStep ==
    ASSUME IterOK, ~iter.on, iter' = iter, dict'.iterators = 0
    PROVE  IterOK'
<1>1. iter = NoIter
  BY DEF IterOK, IterOn, Iterators
<1> QED BY <1>1 DEF IterOK

\* The tables and the keys stay.
LEMMA StillIter ==
    ASSUME DictInv, IterOK, dict'.ht = dict.ht, dict'.iterators = dict.iterators, UNCHANGED <<iter, map>>
    PROVE  IterOK'
<1>1. CASE iter = NoIter /\ dict.iterators = 0
  BY <1>1 DEF IterOK
<1>2. CASE IterOn(dict, iter, DOMAIN map)
  <2> DEFINE e == dict'  m == DOMAIN map
  <2>1. e.ht = dict.ht /\ e.iterators = dict.iterators /\ IterOn(dict, iter, m) /\ iter' = iter /\ map' = map
    BY <1>2
  <2> HIDE DEF e, m
  <2>2. dictFingerprint(e) = dictFingerprint(dict) /\ (Tracks(dict, iter) => Tracks(e, iter))
    BY <2>1, SameTables DEF DictInv
  <2>3. IterOn(e, iter, m)
    BY <2>1, <2>2 DEF IterOn
  <2> QED BY <2>1, <2>3 DEF IterOK, e, m
<1> QED BY <1>1, <1>2 DEF IterOK

\* Every step keeps what an iterator promises.
LEMMA IterOKStep ==
    DictInv /\ IterOK /\ [DictNext]_dictVars => IterOK'
<1> SUFFICES ASSUME DictInv, IterOK, [DictNext]_dictVars PROVE IterOK'
  OBVIOUS
<1>i. dict \in DictType /\ DictOK(dict) /\ (~iter.on => dict.iterators = 0)
  BY DEF DictInv, DictOK, IterOK, IterOn, Iterators
<1>1. ASSUME NEW k \in Keys, dictGenericDelete(k) PROVE IterOK'
  BY <1>1, DeleteIter
<1>2. ASSUME NEW k \in Keys, NEW v \in Vals, dictAdd(k, v) PROVE IterOK'
  BY <1>2, AddIter
<1>3. ASSUME NEW k \in Keys, NEW v \in Vals, dictReplace(k, v) PROVE IterOK'
  BY <1>3, ReplaceIter
<1>4. CASE dictFind \/ dictResize \/ \E n \in 1 .. Cardinality(Keys) : dictGetSomeKeys(n) \/ dictExpand(n)
  BY <1>4, MoveIter
<1>5. CASE dictEmpty
  <2>1. ~iter.on /\ iter' = iter
    BY <1>5 DEF dictEmpty, Traversing
  <2>2. dict'.iterators = 0
    BY <1>i, <1>5 DEF dictEmpty, DictType
  <2> QED BY <2>1, <2>2, NoIterStep
<1>6. ASSUME NEW n \in Nat, dictRehash(n) PROVE IterOK'
  <2>1. ~iter.on /\ iter' = iter /\ dict' = Rehash(dict, n)
    BY <1>6 DEF dictRehash
  <2>2. dict'.iterators = 0
    BY <1>i, <2>1, Rehashed DEF Same
  <2> QED BY <2>1, <2>2, NoIterStep
<1>7. CASE dictRehash(1) \/ dictRehashMilliseconds
  <2>1. Cardinality(Keys) \in Nat
    BY DictAssumption, FS_CardinalityType
  <2> QED BY <1>6, <1>7, <2>1 DEF dictRehashMilliseconds
<1>8. ASSUME NEW b \in BOOLEAN, dictEnableResize(b) PROVE IterOK'
  <2>1. dict'.ht = dict.ht /\ dict'.iterators = dict.iterators /\ UNCHANGED <<iter, map>>
    BY <1>i, <1>8 DEF dictEnableResize, DictType
  <2> QED BY <2>1, StillIter
<1>9. ASSUME NEW b \in BOOLEAN, dictGetIterator(b) PROVE IterOK'
  BY <1>9, BeginIter
<1>10. CASE dictNext
  BY <1>10, NextIter
<1>11. CASE dictReleaseIterator
  BY <1>11, ReleaseIter
<1>12. CASE dictScan \/ ScanEnd \/ UNCHANGED dictVars
  <2>1. UNCHANGED <<dict, iter, map>>
    BY <1>12 DEF dictScan, ScanEnd, dictVars
  <2> QED BY <2>1, StillIter
<1> QED BY <1>1, <1>2, <1>3, <1>4, <1>5, <1>7, <1>8, <1>9, <1>10, <1>11, <1>12 DEF DictNext

\* What is still owed to a traversal lies ahead of the scan cursor of ztl_dict.c, or of
\* the iterator, whatever is added, deleted, resized or rehashed between its calls.
THEOREM TraversalInvariant ==
    DictInit /\ [][DictNext]_dictVars => [](DictInv /\ ScanOK /\ IterOK)
<1>1. DictInit => DictInv /\ ScanOK /\ IterOK
  <2>1. DictInit => ScanOK /\ IterOK
    BY DEF DictInit, ScanOK, IterOK
  <2> QED BY <2>1, DictInvInit
<1>2. DictInv /\ ScanOK /\ IterOK /\ [DictNext]_dictVars => (DictInv /\ ScanOK /\ IterOK)'
  BY DictInvStep, ScanOKStep, IterOKStep
<1> QED BY <1>1, <1>2, PTL

\* A scan that has come back to cursor 0 has reported every key that was there all the
\* time; an iteration that has ended has returned every such key, and none twice; and the
\* fingerprint of an unsafe iterator holds.
THEOREM TraversalsComplete ==
    DictInit /\ [][DictNext]_dictVars => []TraversalComplete
<1>1. DictInv /\ ScanOK /\ IterOK => TraversalComplete
  <2>1. ScanOK => (scan.on /\ scan.end => scan.owed = {})
    <3>1. CASE scan = NoScan
      BY <3>1 DEF NoScan
    <3>2. CASE scan # NoScan
      BY <3>2 DEF ScanOK, ScanOn
    <3> QED BY <3>1, <3>2
  <2>2. IterOK => (iter.on => ~iter.twice /\ (iter.end => iter.owed = {})
                             /\ (~iter.safe => iter.fp = dictFingerprint(dict)))
    <3>1. CASE iter = NoIter
      BY <3>1 DEF NoIter
    <3>2. CASE iter # NoIter
      BY <3>2 DEF IterOK, IterOn
    <3> QED BY <3>1, <3>2
  <2> QED BY <2>1, <2>2 DEF TraversalComplete
<1> QED BY <1>1, TraversalInvariant, PTL
=============================================================================
