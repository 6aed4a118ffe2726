---------------------------- MODULE LockPoolProofs ----------------------------
(***************************************************************************)
(* Proofs about Locks, for any finite set of threads smaller than the      *)
(* value that marks a write-locked word, and about MemPool, for any number *)
(* of threads, blocks and buffers that the counters can tell apart.        *)
(***************************************************************************)
EXTENDS Locks, MemPool, FiniteSetTheorems, TLAPS

-----------------------------------------------------------------------------
(* The locks                                                               *)

\* Types; a copy of the word that a reader is about to raise is not a writer's.
LockTypes ==
    /\ spin \in {0, 1} /\ rw \in Int
    /\ lpc \in [LockThreads -> LockPc]
    /\ readers \in [LockThreads -> Int]
    /\ \A t \in LockThreads : lpc[t] = "cas_lock" => readers[t] # ZTL_RWLOCK_WLOCK

\* The threads that were granted the read-write lock and have not given it back.
Users == {t \in LockThreads : lpc[t] \in {"write", "read", "read_unlock", "cas_unlock"}}

WriterAlone == \E w \in LockThreads : Users = {w} /\ lpc[w] \in {"write", "read_unlock"}

\* The word is the writer's value while one writer has the lock, else the number
\* of readers.
RwWord ==
    \/ rw = ZTL_RWLOCK_WLOCK /\ WriterAlone
    \/ rw = Cardinality(Users) /\ LAt("write") = {}

SpinWord == spin = Cardinality(LAt("spin"))

LockInv == LockTypes /\ SpinWord /\ RwWord

\* There are never so many readers that they look like a writer.
LEMMA UsersFinite ==
    /\ IsFiniteSet(Users) /\ Cardinality(Users) \in Nat
    /\ Cardinality(Users) < ZTL_RWLOCK_WLOCK
<1>1. Users \in SUBSET LockThreads
  BY DEF Users
<1>2. IsFiniteSet(Users) /\ Cardinality(Users) <= Cardinality(LockThreads)
  BY <1>1, FewThreads, FS_Subset
<1>3. Cardinality(Users) \in Nat /\ Cardinality(LockThreads) \in Nat
  BY <1>2, FewThreads, FS_CardinalityType
<1> QED BY <1>2, <1>3, FewThreads

\* Finitely many threads hold the spin lock.
LEMMA SpinFinite == IsFiniteSet(LAt("spin")) /\ Cardinality(LAt("spin")) \in Nat
<1>1. LAt("spin") \in SUBSET LockThreads
  BY DEF LAt
<1>2. IsFiniteSet(LAt("spin"))
  BY <1>1, FewThreads, FS_Subset
<1> QED BY <1>2, FS_CardinalityType

\* A word that is not the writer's counts the readers.
LEMMA ReadersCounted ==
    ASSUME LockInv, rw # ZTL_RWLOCK_WLOCK
    PROVE  rw = Cardinality(Users) /\ LAt("write") = {}
  BY DEF LockInv, RwWord

\* A step of one thread keeps the types.
LEMMA LockTypeStep ==
    ASSUME LockTypes, [LockNext]_lockVars
    PROVE  LockTypes'
<1> USE DEF LockTypes, LockPc, LGoto
<1>1. CASE UNCHANGED lockVars
  BY <1>1 DEF lockVars
<1>2. ASSUME NEW t \in LockThreads, NEW l \in {"wait_spin", "wait_write", "read_lock"}, LCall(t, l)
      PROVE  LockTypes'
  BY <1>2 DEF LCall
<1>3. ASSUME NEW t \in LockThreads, ztl_spinlock(t) PROVE LockTypes'
  BY <1>3 DEF ztl_spinlock
<1>4. ASSUME NEW t \in LockThreads, ztl_trylock(t) PROVE LockTypes'
  BY <1>4 DEF ztl_trylock
<1>5. ASSUME NEW t \in LockThreads, ztl_unlock(t) PROVE LockTypes'
  BY <1>5 DEF ztl_unlock
<1>6. ASSUME NEW t \in LockThreads, RwUnlock(t) PROVE LockTypes'
  BY <1>6 DEF RwUnlock
<1>7. ASSUME NEW t \in LockThreads, ztl_rwlock_wlock(t) PROVE LockTypes'
  BY <1>7, FewThreads DEF ztl_rwlock_wlock
<1>8. ASSUME NEW t \in LockThreads, RLockRead(t) PROVE LockTypes'
  BY <1>8 DEF RLockRead
<1>9. ASSUME NEW t \in LockThreads, RLockCas(t) PROVE LockTypes'
  BY <1>9 DEF RLockCas
<1>10. ASSUME NEW t \in LockThreads, UnlockRead(t) PROVE LockTypes'
  BY <1>10 DEF UnlockRead
<1>11. ASSUME NEW t \in LockThreads, UnlockCas(t) PROVE LockTypes'
  BY <1>11 DEF UnlockCas
<1> QED BY <1>1, <1>2, <1>3, <1>4, <1>5, <1>6, <1>7, <1>8, <1>9, <1>10, <1>11 DEF LockNext

\* The spin lock's word says how many threads have it: none or one.
LEMMA SpinStep ==
    ASSUME LockTypes, SpinWord, [LockNext]_lockVars
    PROVE  SpinWord'
<1> USE DEF LockTypes, LGoto
<1>1. ASSUME LAt("spin")' = LAt("spin"), spin' = spin PROVE SpinWord'
  BY <1>1 DEF SpinWord
<1>2. CASE UNCHANGED lockVars
  BY <1>1, <1>2 DEF lockVars, LAt
<1>3. ASSUME NEW t \in LockThreads, ztl_spinlock(t) \/ ztl_trylock(t) PROVE SpinWord'
  <2>1. LAt("spin")' = LAt("spin") \cup {t} /\ t \notin LAt("spin")
    BY <1>3 DEF ztl_spinlock, ztl_trylock, LAt
  <2>2. Cardinality(LAt("spin") \cup {t}) = Cardinality(LAt("spin")) + 1
    BY <2>1, SpinFinite, FS_AddElement
  <2>3. Cardinality(LAt("spin")) = 0 /\ spin' = 1
    BY <1>3 DEF ztl_spinlock, ztl_trylock, SpinWord
  <2>4. Cardinality(LAt("spin") \cup {t}) = 1
    BY <2>2, <2>3
  <2> QED BY <2>1, <2>3, <2>4 DEF SpinWord
<1>4. ASSUME NEW t \in LockThreads, ztl_unlock(t) PROVE SpinWord'
  <2>1. LAt("spin")' = LAt("spin") \ {t} /\ t \in LAt("spin")
    BY <1>4 DEF ztl_unlock, LAt
  <2>2. Cardinality(LAt("spin") \ {t}) = Cardinality(LAt("spin")) - 1
    BY <2>1, SpinFinite, FS_RemoveElement
  <2>3. Cardinality(LAt("spin")) = 1
    <3>1. Cardinality(LAt("spin")) # 0
      BY <2>1, SpinFinite, FS_EmptySet
    <3> QED BY <3>1 DEF SpinWord
  <2>4. spin' = 0
    BY <1>4 DEF ztl_unlock
  <2> QED BY <2>1, <2>2, <2>3, <2>4 DEF SpinWord
<1>5. ASSUME NEW t \in LockThreads, NEW l \in {"wait_spin", "wait_write", "read_lock"}, LCall(t, l)
      PROVE  SpinWord'
  BY <1>1, <1>5 DEF LCall, LAt
<1>6. ASSUME NEW t \in LockThreads,
             \/ ztl_rwlock_wlock(t) \/ RLockRead(t) \/ RLockCas(t)
             \/ RwUnlock(t) \/ UnlockRead(t) \/ UnlockCas(t)
      PROVE  SpinWord'
  BY <1>1, <1>6 DEF ztl_rwlock_wlock, RLockRead, RLockCas, RwUnlock, UnlockRead, UnlockCas, LAt
<1> QED BY <1>2, <1>3, <1>4, <1>5, <1>6 DEF LockNext

\* Readers that are counted while nobody writes stay so when the set of users does.
LEMMA UsersKept ==
    ASSUME RwWord, rw' = rw, Users' = Users, LAt("write")' = LAt("write"),
           \A t \in LockThreads : lpc[t] = "read_unlock" => lpc'[t] = lpc[t]
    PROVE  RwWord'
<1>1. CASE rw = ZTL_RWLOCK_WLOCK /\ WriterAlone
  <2>1. PICK w \in LockThreads : Users = {w} /\ lpc[w] \in {"write", "read_unlock"}
    BY <1>1 DEF WriterAlone
  <2>2. lpc'[w] \in {"write", "read_unlock"}
    BY <2>1 DEF LAt
  <2> QED BY <1>1, <2>1, <2>2 DEF RwWord, WriterAlone
<1>2. CASE rw = Cardinality(Users) /\ LAt("write") = {}
  BY <1>2 DEF RwWord
<1> QED BY <1>1, <1>2 DEF RwWord

\* A step of one thread keeps the read-write lock's word: a writer is granted the lock
\* when nobody has it, a reader when the word it read is still there, and an unlock
\* subtracts itself or clears the writer's value, whichever it finds.
LEMMA RwStep ==
    ASSUME LockTypes, RwWord, [LockNext]_lockVars
    PROVE  RwWord'
<1> USE DEF LockTypes, LGoto
<1>1. CASE UNCHANGED lockVars
  <2>1. Users' = Users /\ LAt("write")' = LAt("write") /\ rw' = rw /\ lpc' = lpc
    BY <1>1 DEF lockVars, Users, LAt
  <2> QED BY <2>1, UsersKept
<1>2. ASSUME NEW t \in LockThreads, NEW l \in {"wait_spin", "wait_write", "read_lock"}, LCall(t, l)
      PROVE  RwWord'
  BY <1>2, UsersKept DEF LCall, Users, LAt
<1>3. ASSUME NEW t \in LockThreads, ztl_spinlock(t) \/ ztl_trylock(t) \/ ztl_unlock(t) \/ RLockRead(t)
      PROVE  RwWord'
  BY <1>3, UsersKept DEF ztl_spinlock, ztl_trylock, ztl_unlock, RLockRead, Users, LAt
<1>4. ASSUME NEW t \in LockThreads, ztl_rwlock_wlock(t) PROVE RwWord'
  <2>1. Cardinality(Users) = 0
    BY <1>4, FewThreads, UsersFinite DEF ztl_rwlock_wlock, RwWord
  <2>2. Users = {}
    BY <2>1, UsersFinite, FS_EmptySet
  <2>3. Users' = Users \cup {t} /\ lpc'[t] = "write" /\ rw' = ZTL_RWLOCK_WLOCK
    BY <1>4 DEF ztl_rwlock_wlock, Users
  <2> QED BY <2>2, <2>3 DEF RwWord, WriterAlone
<1>5. ASSUME NEW t \in LockThreads, RLockCas(t) PROVE RwWord'
  <2>1. CASE rw = readers[t]
    <3>1. rw = Cardinality(Users) /\ LAt("write") = {}
      BY <1>5, <2>1 DEF RLockCas, RwWord
    <3>2. t \notin Users /\ Users' = Users \cup {t} /\ LAt("write")' = {} /\ rw' = rw + 1
      BY <1>5, <2>1, <3>1 DEF RLockCas, Users, LAt
    <3>3. Cardinality(Users \cup {t}) = Cardinality(Users) + 1
      BY <3>2, UsersFinite, FS_AddElement
    <3> QED BY <3>1, <3>2, <3>3 DEF RwWord
  <2>2. CASE rw # readers[t]
    BY <1>5, <2>2, UsersKept DEF RLockCas, Users, LAt
  <2> QED BY <2>1, <2>2
<1>6. ASSUME NEW t \in LockThreads, RwUnlock(t) PROVE RwWord'
  <2>1. Users' = Users /\ rw' = rw /\ lpc' = [lpc EXCEPT ![t] = "read_unlock"]
    BY <1>6 DEF RwUnlock, Users
  <2>2. CASE rw = ZTL_RWLOCK_WLOCK /\ WriterAlone
    BY <2>1, <2>2 DEF RwWord, WriterAlone
  <2>3. CASE rw = Cardinality(Users) /\ LAt("write") = {}
    <3>1. LAt("write")' = {}
      BY <2>1, <2>3 DEF LAt
    <3> QED BY <2>1, <2>3, <3>1 DEF RwWord
  <2> QED BY <2>2, <2>3 DEF RwWord
<1>7. ASSUME NEW t \in LockThreads, UnlockRead(t) PROVE RwWord'
  <2>1. t \in Users
    BY <1>7 DEF UnlockRead, Users
  <2>2. CASE rw = ZTL_RWLOCK_WLOCK
    <3>1. Users = {t}
      BY <2>1, <2>2, UsersFinite DEF RwWord, WriterAlone
    <3>2. Users' = {} /\ LAt("write")' = {} /\ rw' = 0
      BY <1>7, <2>2, <3>1 DEF UnlockRead, Users, LAt
    <3> QED BY <3>2, FS_EmptySet DEF RwWord
  <2>3. CASE rw # ZTL_RWLOCK_WLOCK
    <3>1. Users' = Users /\ LAt("write")' = LAt("write") /\ rw' = rw
      BY <1>7, <2>3 DEF UnlockRead, Users, LAt
    <3> QED BY <2>3, <3>1 DEF RwWord
  <2> QED BY <2>2, <2>3
<1>8. ASSUME NEW t \in LockThreads, UnlockCas(t) PROVE RwWord'
  <2>1. t \in Users /\ lpc[t] = "cas_unlock"
    BY <1>8 DEF UnlockCas, Users
  <2>2. rw = Cardinality(Users) /\ LAt("write") = {}
    BY <2>1 DEF RwWord, WriterAlone
  <2>3. CASE rw = readers[t]
    <3>1. Users' = Users \ {t} /\ LAt("write")' = {} /\ rw' = rw - 1
      BY <1>8, <2>1, <2>2, <2>3 DEF UnlockCas, Users, LAt
    <3>2. Cardinality(Users \ {t}) = Cardinality(Users) - 1
      BY <2>1, UsersFinite, FS_RemoveElement
    <3> QED BY <2>2, <3>1, <3>2 DEF RwWord
  <2>4. CASE rw # readers[t]
    <3>1. Users' = Users /\ LAt("write")' = LAt("write") /\ rw' = rw /\ lpc' = lpc
      BY <1>8, <2>4 DEF UnlockCas, Users, LAt
    <3> QED BY <3>1, UsersKept
  <2> QED BY <2>3, <2>4
<1> QED BY <1>1, <1>2, <1>3, <1>4, <1>5, <1>6, <1>7, <1>8 DEF LockNext

\* LockInv is an inductive invariant of the two locks.
THEOREM LockInvariant == LockSpec => []LockInv
<1>1. LockInit => LockInv
  <2> SUFFICES ASSUME LockInit PROVE LockInv
    OBVIOUS
  <2>1. LockTypes
    BY DEF LockInit, LockTypes, LockPc
  <2>2. Users = {} /\ LAt("spin") = {} /\ LAt("write") = {}
    BY DEF LockInit, Users, LAt
  <2>3. spin = 0 /\ rw = 0
    BY DEF LockInit
  <2> QED BY <2>1, <2>2, <2>3, FS_EmptySet DEF LockInv, SpinWord, RwWord
<1>2. LockInv /\ [LockNext]_lockVars => LockInv'
  BY LockTypeStep, SpinStep, RwStep DEF LockInv
<1> QED BY <1>1, <1>2, PTL DEF LockSpec

\* Whatever the number of threads and however their reads and compare-and-swaps
\* interleave: the spin lock has one owner at most, a writer is alone, and the word
\* of a read-write lock that nobody has is 0.
THEOREM LocksExclude == LockSpec => []LockExclusion
<1>1. LockInv => LockExclusion
  <2> SUFFICES ASSUME LockInv PROVE LockExclusion
    OBVIOUS
  <2>1. LAt("write") # {} => Cardinality(LAt("write")) = 1 /\ LAt("read") = {}
    <3> SUFFICES ASSUME LAt("write") # {}
                 PROVE  Cardinality(LAt("write")) = 1 /\ LAt("read") = {}
      OBVIOUS
    <3>1. PICK w \in LockThreads : Users = {w}
      BY DEF LockInv, RwWord, WriterAlone
    <3>2. LAt("write") = {w} /\ LAt("read") = {}
      BY <3>1 DEF LAt, Users
    <3> QED BY <3>2, FS_Singleton
  <2>2. lpc \in [LockThreads -> {"out", "wait_spin", "wait_write", "read_lock", "cas_lock", "spin"}] => rw = 0
    <3> SUFFICES ASSUME lpc \in [LockThreads -> {"out", "wait_spin", "wait_write", "read_lock", "cas_lock", "spin"}]
                 PROVE  rw = 0
      OBVIOUS
    <3>1. Users = {}
      BY DEF Users
    <3> QED BY <3>1, FS_EmptySet DEF LockInv, RwWord, WriterAlone
  <2> QED BY <2>1, <2>2 DEF LockExclusion, LockInv, SpinWord
<1> QED BY <1>1, LockInvariant, PTL

-----------------------------------------------------------------------------
(* The object pool                                                         *)

MpPc == {"idle", "alloc_lock", "alloc", "alloc_unlink", "alloc_unlock", "alloc_count",
         "free_lock", "free", "free_unlock", "free_count", "free_exposed"}
Critical == {"alloc", "alloc_unlink", "free", "alloc_unlock", "free_unlock"}

Pool == [AutoExpand : BOOLEAN, nFreeCount : 0 .. MpWord - 1, ExposedCount : 0 .. MpWord - 1,
         lock : {0, 1}, blocks : Seq(0 .. nInitCount), freenodes : Seq(Buffers)]

\* Types; a buffer in hand is a buffer.
MpTypes ==
    /\ mp \in Pool /\ Len(mp.blocks) <= MaxBlocks
    /\ mpc \in [MpThreads -> MpPc]
    /\ owned \in [MpThreads -> SUBSET Buffers]
    /\ mnode \in [MpThreads -> Buffers \cup {NoBuffer}]
    /\ \A t \in MpThreads : InHand(t) \subseteq Buffers

\* Without a pool nobody is in a call and nobody has a buffer.
Absent == mp.blocks = <<>> =>
    mp = NoPool /\ \A t \in MpThreads : mpc[t] = "idle" /\ owned[t] = {}

Exhausted == ~mp.AutoExpand /\ mp.freenodes = <<>> /\ Last(mp.blocks) = nInitCount

\* One thread at most is between lock and unlock; the top of the stack that it read
\* is still the top.
LockHeld ==
    /\ \A t \in MpThreads : mpc[t] \in Critical => mp.lock = 1
    /\ \A t, u \in MpThreads : mpc[t] \in Critical /\ mpc[u] \in Critical => t = u
    /\ mp.lock = 1 => Exhausted \/ \E t \in MpThreads : mpc[t] \in Critical
    /\ \A t \in MpThreads : mpc[t] = "alloc_unlink" =>
         mp.freenodes # <<>> /\ mnode[t] = Head(mp.freenodes)

\* The buffers of a thread: its own and the one a call of it has in hand.
Held(t) == owned[t] \cup InHand(t)

\* Every buffer handed out is in one place.
Places ==
    /\ IsInjective(mp.freenodes) /\ Cardinality(ToSet(mp.freenodes)) = Len(mp.freenodes)
    /\ \A t \in MpThreads : Held(t) \cap ToSet(mp.freenodes) = {} /\ owned[t] \cap InHand(t) = {}
    /\ \A t, u \in MpThreads : t # u => Held(t) \cap Held(u) = {}
    /\ mp.blocks # <<>> => \A b \in Buffers :
         b \in Handed <=> b \in ToSet(mp.freenodes) \/ \E t \in MpThreads : b \in Held(t)

\* The threads whose free has not added to nFreeCount, or not subtracted from
\* ExposedCount, yet.
Pushed == {t \in MpThreads : mpc[t] \in {"free_unlock", "free_count"}}
Freeing == {t \in MpThreads : mpc[t] \in {"free_lock", "free", "free_unlock", "free_count", "free_exposed"}}
AllOwned == UNION {owned[t] : t \in MpThreads}

\* nFreeCount may be behind, even below zero, which is a large number.
AsWord(n) == IF n >= 0 THEN n ELSE n + MpWord
FreeCounted == mp.nFreeCount = AsWord(Len(mp.freenodes) - Cardinality(Pushed))

ExposedCounted == mp.ExposedCount = Cardinality(AllOwned) + Cardinality(Freeing)

MpInv == MpTypes /\ Absent /\ LockHeld /\ Places /\ FreeCounted /\ ExposedCounted

-----------------------------------------------------------------------------
(* Sequences, sets and words *)

\* The last element of a sequence, and a sequence with one more.
LEMMA SeqParts ==
    ASSUME NEW S, NEW s \in Seq(S)
    PROVE  /\ s # <<>> => Len(s) \in Nat \ {0} /\ s[Len(s)] \in S
           /\ \A x \in S : /\ Append(s, x) \in Seq(S) /\ Len(Append(s, x)) = Len(s) + 1
                          /\ Append(s, x)[Len(s) + 1] = x
                          /\ \A i \in 1 .. Len(s) : Append(s, x)[i] = s[i]
  OBVIOUS

\* Popping the stack takes its top out of the set of stacked buffers.
LEMMA StackPop ==
    ASSUME NEW S, NEW s \in Seq(S), s # <<>>, IsInjective(s)
    PROVE  /\ Tail(s) \in Seq(S) /\ Head(s) \in S /\ Head(s) \in ToSet(s)
           /\ IsInjective(Tail(s)) /\ Len(Tail(s)) = Len(s) - 1
           /\ ToSet(Tail(s)) = ToSet(s) \ {Head(s)}
<1>1. Len(s) \in Nat \ {0} /\ DOMAIN s = 1 .. Len(s) /\ Head(s) = s[1]
  OBVIOUS
<1>2. /\ Tail(s) \in Seq(S) /\ Len(Tail(s)) = Len(s) - 1
      /\ \A i \in 1 .. Len(s) - 1 : Tail(s)[i] = s[i + 1]
  BY <1>1
<1>3. DOMAIN Tail(s) = 1 .. Len(s) - 1
  BY <1>2
<1>4. IsInjective(Tail(s))
  BY <1>1, <1>2, <1>3 DEF IsInjective
<1>5. ToSet(Tail(s)) \subseteq ToSet(s) \ {Head(s)}
  BY <1>1, <1>2, <1>3 DEF IsInjective, ToSet
<1>6. ASSUME NEW x \in ToSet(s) \ {Head(s)} PROVE x \in ToSet(Tail(s))
  <2>1. PICK i \in 1 .. Len(s) : x = s[i]
    BY <1>1 DEF ToSet
  <2>2. i - 1 \in 1 .. Len(s) - 1 /\ Tail(s)[i - 1] = x
    BY <1>1, <1>2, <2>1
  <2> QED BY <1>3, <2>2 DEF ToSet
<1>7. Head(s) \in S /\ Head(s) \in ToSet(s)
  BY <1>1 DEF ToSet
<1>8. ToSet(Tail(s)) = ToSet(s) \ {Head(s)}
  BY <1>5, <1>6
<1> QED BY <1>2, <1>4, <1>7, <1>8

\* Pushing a buffer that is not stacked adds it to the set of stacked buffers.
LEMMA StackPush ==
    ASSUME NEW S, NEW s \in Seq(S), NEW x \in S, IsInjective(s), x \notin ToSet(s)
    PROVE  /\ <<x>> \o s \in Seq(S) /\ IsInjective(<<x>> \o s)
           /\ Len(<<x>> \o s) = Len(s) + 1
           /\ ToSet(<<x>> \o s) = ToSet(s) \cup {x}
<1> DEFINE q == <<x>> \o s
<1>1. Len(s) \in Nat /\ DOMAIN s = 1 .. Len(s)
  OBVIOUS
<1>2. /\ q \in Seq(S) /\ Len(q) = Len(s) + 1 /\ q[1] = x
      /\ \A i \in 1 .. Len(s) + 1 : i # 1 => q[i] = s[i - 1]
  BY <1>1
<1>3. DOMAIN q = 1 .. Len(s) + 1
  BY <1>2
<1> HIDE DEF q
<1>4. \A i \in DOMAIN q : i # 1 => i - 1 \in DOMAIN s
  BY <1>1, <1>3
<1>5. IsInjective(q)
  BY <1>1, <1>2, <1>3, <1>4 DEF IsInjective, ToSet
<1>6. ToSet(q) \subseteq ToSet(s) \cup {x}
  BY <1>1, <1>2, <1>3, <1>4 DEF ToSet
<1>7. \A i \in DOMAIN s : i + 1 \in DOMAIN q /\ q[i + 1] = s[i]
  BY <1>1, <1>2, <1>3
<1>8. ToSet(s) \cup {x} \subseteq ToSet(q)
  BY <1>1, <1>2, <1>3, <1>7 DEF ToSet
<1> QED BY <1>2, <1>5, <1>6, <1>8 DEF q

\* The counters' arithmetic, without the remainder.
LEMMA WordSteps ==
    ASSUME NEW n \in 0 .. MpWord - 1
    PROVE  /\ MpInc(n) \in 0 .. MpWord - 1 /\ MpInc(n) = IF n = MpWord - 1 THEN 0 ELSE n + 1
           /\ MpDec(n) \in 0 .. MpWord - 1 /\ MpDec(n) = IF n = 0 THEN MpWord - 1 ELSE n - 1
<1>1. MpWord \in Nat \ {0}
  BY PoolAssumption
<1>2. \A k \in 0 .. MpWord - 1 : k % MpWord = k /\ (k + MpWord) % MpWord = k
  BY <1>1
<1>3. CASE n = MpWord - 1
  <2>1. MpInc(n) = 0
    BY <1>1, <1>2, <1>3 DEF MpInc
  <2> QED BY <1>1, <1>2, <1>3, <2>1 DEF MpDec
<1>4. CASE n # MpWord - 1
  BY <1>1, <1>2, <1>4 DEF MpInc, MpDec
<1> QED BY <1>3, <1>4

\* Counting down and up a word that stands for a number, which may be negative.
LEMMA WordMoves ==
    ASSUME NEW n \in Int, 0 - MpWord <= n, n < MpWord
    PROVE  /\ AsWord(n) \in 0 .. MpWord - 1
           /\ 0 - MpWord < n => MpDec(AsWord(n)) = AsWord(n - 1)
           /\ n + 1 < MpWord => MpInc(AsWord(n)) = AsWord(n + 1)
<1>1. MpWord \in Nat \ {0}
  BY PoolAssumption
<1>2. AsWord(n) \in 0 .. MpWord - 1
  BY <1>1 DEF AsWord
<1>3. /\ MpInc(AsWord(n)) = IF AsWord(n) = MpWord - 1 THEN 0 ELSE AsWord(n) + 1
      /\ MpDec(AsWord(n)) = IF AsWord(n) = 0 THEN MpWord - 1 ELSE AsWord(n) - 1
  BY <1>2, WordSteps
<1> QED BY <1>1, <1>2, <1>3 DEF AsWord

\* There are fewer buffers and threads than a counter's values.
LEMMA BuffersFinite ==
    /\ IsFiniteSet(Buffers) /\ Cardinality(Buffers) \in Nat
    /\ Cardinality(MpThreads) \in Nat
    /\ Cardinality(Buffers) + Cardinality(MpThreads) < MpWord
<1>1. /\ IsFiniteSet(1 .. MaxBlocks) /\ Cardinality(1 .. MaxBlocks) = MaxBlocks
      /\ IsFiniteSet(1 .. nInitCount) /\ Cardinality(1 .. nInitCount) = nInitCount
  BY PoolAssumption, FS_Interval
<1>2. IsFiniteSet(Buffers) /\ Cardinality(Buffers) = MaxBlocks * nInitCount
  <2>1. \A S, T : IsFiniteSet(S) /\ IsFiniteSet(T) =>
          IsFiniteSet(S \X T) /\ Cardinality(S \X T) = Cardinality(S) * Cardinality(T)
    BY FS_Product, Zenon
  <2>2. /\ IsFiniteSet(Buffers)
        /\ Cardinality(Buffers) = Cardinality(1 .. MaxBlocks) * Cardinality(1 .. nInitCount)
    BY <1>1, <2>1, Zenon DEF Buffers
  <2> QED BY <1>1, <2>2
<1>3. Cardinality(MpThreads) \in Nat /\ Cardinality(Buffers) \in Nat
  BY <1>2, CountersFit, FS_CardinalityType
<1> QED BY <1>2, <1>3, CountersFit

\* The stacked buffers are finitely many.
LEMMA StackFinite ==
    ASSUME NEW s \in Seq(Buffers)
    PROVE  IsFiniteSet(ToSet(s)) /\ Cardinality(ToSet(s)) <= Cardinality(Buffers)
<1>1. ToSet(s) \in SUBSET Buffers
  BY DEF ToSet
<1> QED BY <1>1, BuffersFinite, FS_Subset

\* The buffer ztl_mp_create takes and frees exists, and a counter can count to one.
LEMMA FirstBuffer == <<1, 1>> \in Buffers /\ MpWord \in Nat /\ MpWord > 1
<1>1. <<1, 1>> \in Buffers
  BY PoolAssumption DEF Buffers
<1>2. Cardinality(Buffers) # 0
  BY <1>1, BuffersFinite, FS_EmptySet
<1> QED BY <1>1, <1>2, BuffersFinite, PoolAssumption

\* A buffer from a block is one that was not handed out before.
LEMMA NewBuffer ==
    ASSUME MpInv, NEW t \in MpThreads, AllocNew(t)
    PROVE  /\ mp'.blocks \in Seq(0 .. nInitCount) /\ Len(mp'.blocks) <= MaxBlocks
           /\ mp'.blocks # <<>> /\ mp.blocks # <<>>
           /\ mp' = [mp EXCEPT !.blocks = mp'.blocks]
           /\ mnode'[t] \in Buffers /\ mnode'[t] \notin Handed
           /\ Handed' = Handed \cup {mnode'[t]}
<1> DEFINE n == Len(mp.blocks)
           bs == IF mp.blocks[n] = nInitCount THEN Append(mp.blocks, 0) ELSE mp.blocks
           m == Len(bs)
<1>1. /\ mp \in Pool /\ n <= MaxBlocks /\ mp.blocks # <<>>
      /\ mnode \in [MpThreads -> Buffers \cup {NoBuffer}]
  BY DEF MpInv, MpTypes, Absent, AllocNew
<1>2. mp.blocks \in Seq(0 .. nInitCount) /\ n \in Nat \ {0} /\ mp.blocks[n] \in 0 .. nInitCount
  <2>1. mp.blocks \in Seq(0 .. nInitCount)
    BY <1>1 DEF Pool
  <2> QED BY <1>1, <2>1, SeqParts
<1>3. /\ mp' = [mp EXCEPT !.blocks = [bs EXCEPT ![m] = @ + 1]]
      /\ mnode' = [mnode EXCEPT ![t] = <<m, bs[m] + 1>>]
      /\ mp.blocks[n] = nInitCount => n < MaxBlocks
  BY DEF AllocNew
<1>4. /\ bs \in Seq(0 .. nInitCount) /\ m \in 1 .. MaxBlocks /\ bs[m] \in 0 .. nInitCount - 1
      /\ n <= m /\ m <= n + 1 /\ \A i \in 1 .. n : bs[i] = mp.blocks[i]
      /\ m = n + 1 => bs[m] = 0
  <2>1. CASE mp.blocks[n] = nInitCount
    <3>1. /\ bs = Append(mp.blocks, 0) /\ 0 \in 0 .. nInitCount /\ n < MaxBlocks
          /\ MaxBlocks \in Nat /\ nInitCount \in Nat \ {0}
      BY <1>3, <2>1, PoolAssumption
    <3>2. /\ bs \in Seq(0 .. nInitCount) /\ m = n + 1 /\ bs[n + 1] = 0
          /\ \A i \in 1 .. n : bs[i] = mp.blocks[i]
      <4>1. \A x \in 0 .. nInitCount :
               /\ Append(mp.blocks, x) \in Seq(0 .. nInitCount)
               /\ Len(Append(mp.blocks, x)) = n + 1 /\ Append(mp.blocks, x)[n + 1] = x
               /\ \A i \in 1 .. n : Append(mp.blocks, x)[i] = mp.blocks[i]
        BY <1>2, SeqParts
      <4> QED BY <3>1, <4>1
    <3> QED BY <1>2, <3>1, <3>2
  <2>2. CASE mp.blocks[n] # nInitCount
    <3>1. bs = mp.blocks /\ MaxBlocks \in Nat /\ nInitCount \in Nat
      BY <2>2, PoolAssumption
    <3> QED BY <1>1, <1>2, <2>2, <3>1
  <2> QED BY <2>1, <2>2
<1>5. /\ mp'.blocks = [bs EXCEPT ![m] = @ + 1]
      /\ mnode'[t] = <<m, bs[m] + 1>>
  BY <1>1, <1>3 DEF Pool
<1> HIDE DEF bs
<1>6. mp'.blocks \in Seq(0 .. nInitCount) /\ Len(mp'.blocks) = m /\ mp'.blocks[m] = bs[m] + 1
  BY <1>4, <1>5, PoolAssumption
<1>7. \A i \in 1 .. m : i # m => i \in 1 .. n /\ mp'.blocks[i] = mp.blocks[i]
  BY <1>2, <1>4, <1>5
<1>8. mnode'[t] \in Buffers
  BY <1>4, <1>5, PoolAssumption DEF Buffers
<1>9. mnode'[t] \notin Handed
  BY <1>2, <1>4, <1>5 DEF Handed
<1>10. ASSUME NEW b \in Buffers PROVE b \in Handed' <=> b \in Handed \/ b = mnode'[t]
  <2>1. b[1] \in 1 .. MaxBlocks /\ b[2] \in 1 .. nInitCount /\ b = <<b[1], b[2]>>
    BY DEF Buffers
  <2>2. b \in Handed' <=> b[1] <= m /\ b[2] <= mp'.blocks[b[1]]
    BY <1>6 DEF Handed
  <2>3. b \in Handed <=> b[1] <= n /\ b[2] <= mp.blocks[b[1]]
    BY DEF Handed
  <2>4. CASE b[1] = m
    BY <1>2, <1>4, <1>5, <1>6, <2>1, <2>2, <2>3, <2>4
  <2>5. CASE b[1] # m
    BY <1>2, <1>4, <1>5, <1>7, <2>1, <2>2, <2>3, <2>5
  <2> QED BY <2>4, <2>5
<1>11. Handed' = Handed \cup {mnode'[t]}
  BY <1>8, <1>10 DEF Handed
<1>12. mp' = [mp EXCEPT !.blocks = mp'.blocks]
  BY <1>1, <1>3, <1>5
<1> QED BY <1>1, <1>4, <1>6, <1>8, <1>9, <1>11, <1>12

-----------------------------------------------------------------------------
(* The steps *)

\* Every step keeps the types: a buffer taken from the stack or from the newest block
\* is a buffer.
LEMMA MpTypesStep ==
    ASSUME MpInv, [MpNext]_mpVars
    PROVE  MpTypes'
<1> USE DEF MpTypes, MpPc, MpGoto, Pool
<1>0. MpTypes /\ Absent /\ LockHeld /\ Places
  BY DEF MpInv
<1>1. CASE UNCHANGED mpVars
  BY <1>0, <1>1 DEF mpVars, InHand
<1>2. CASE MpStart \/ ztl_mp_release
  <2>1. /\ mp' \in Pool /\ Len(mp'.blocks) <= MaxBlocks
    <3>1. PICK a \in BOOLEAN, k \in {<<>>, << 1 >>} :
            mp' = [AutoExpand |-> a, nFreeCount |-> 1, ExposedCount |-> 0, lock |-> 0,
                   blocks |-> k, freenodes |-> <<<<1, 1>>>>]
      BY <1>2 DEF MpStart, ztl_mp_release, ztl_mp_create, NoPool
    <3>2. k \in Seq(0 .. nInitCount) /\ Len(k) <= MaxBlocks
      <4>1. 1 \in 0 .. nInitCount /\ MaxBlocks \in Nat \ {0}
        BY PoolAssumption
      <4>2. CASE k = <<>>
        BY <4>1, <4>2
      <4>3. CASE k = << 1 >>
        BY <4>1, <4>3
      <4> QED BY <4>2, <4>3
    <3>3. <<<<1, 1>>>> \in Seq(Buffers)
      BY FirstBuffer
    <3> QED BY <3>1, <3>2, <3>3, FirstBuffer
  <2> QED BY <1>0, <1>2, <2>1 DEF MpStart, ztl_mp_release, InHand
<1>3. ASSUME NEW t \in MpThreads, AllocCall(t) PROVE MpTypes'
  BY <1>0, <1>3 DEF AllocCall, InHand
<1>4. ASSUME NEW t \in MpThreads, FreeCall(t) PROVE MpTypes'
  BY <1>0, <1>4 DEF FreeCall, InHand
<1>5. ASSUME NEW t \in MpThreads, MpLock(t) PROVE MpTypes'
  BY <1>0, <1>5 DEF MpLock, InHand
<1>6. ASSUME NEW t \in MpThreads, AllocFree(t) PROVE MpTypes'
  BY <1>0, <1>6 DEF AllocFree, InHand
<1>7. ASSUME NEW t \in MpThreads, AllocUnlink(t) PROVE MpTypes'
  <2>1. mp.freenodes # <<>> /\ mnode[t] = Head(mp.freenodes)
    BY <1>0, <1>7 DEF AllocUnlink, LockHeld
  <2>2. mnode[t] \in Buffers /\ Tail(mp.freenodes) \in Seq(Buffers)
    BY <1>0, <2>1, StackPop DEF Places
  <2>3. mp' \in Pool /\ mp'.blocks = mp.blocks
    BY <1>0, <1>7, <2>1, <2>2, WordSteps DEF AllocUnlink
  <2> QED BY <1>0, <1>7, <2>2, <2>3 DEF AllocUnlink, InHand
<1>8. ASSUME NEW t \in MpThreads, AllocNew(t) PROVE MpTypes'
  <2>1. /\ mp'.blocks \in Seq(0 .. nInitCount) /\ Len(mp'.blocks) <= MaxBlocks
        /\ mnode'[t] \in Buffers /\ mp' = [mp EXCEPT !.blocks = mp'.blocks]
    BY <1>8, NewBuffer
  <2> QED BY <1>0, <1>8, <2>1 DEF AllocNew, InHand
<1>9. ASSUME NEW t \in MpThreads, AllocExhausted(t) PROVE MpTypes'
  BY <1>0, <1>9 DEF AllocExhausted, InHand
<1>10. ASSUME NEW t \in MpThreads, AllocUnlock(t) PROVE MpTypes'
  BY <1>0, <1>10 DEF AllocUnlock, InHand
<1>11. ASSUME NEW t \in MpThreads, AllocReturn(t) PROVE MpTypes'
  BY <1>0, <1>11, WordSteps DEF AllocReturn, InHand
<1>12. ASSUME NEW t \in MpThreads, FreePush(t) PROVE MpTypes'
  <2>1. mnode[t] \in Buffers
    BY <1>0, <1>12 DEF FreePush, InHand
  <2>2. <<mnode[t]>> \o mp.freenodes \in Seq(Buffers)
    BY <1>0, <2>1
  <2> QED BY <1>0, <1>12, <2>2 DEF FreePush, InHand
<1>13. ASSUME NEW t \in MpThreads, FreeUnlock(t) PROVE MpTypes'
  BY <1>0, <1>13 DEF FreeUnlock, InHand
<1>14. ASSUME NEW t \in MpThreads, FreeCount(t) PROVE MpTypes'
  BY <1>0, <1>14, WordSteps DEF FreeCount, InHand
<1>15. ASSUME NEW t \in MpThreads, FreeReturn(t) PROVE MpTypes'
  BY <1>0, <1>15, WordSteps DEF FreeReturn, InHand
<1> QED BY <1>1, <1>2, <1>3, <1>4, <1>5, <1>6, <1>7, <1>8, <1>9, <1>10, <1>11, <1>12, <1>13, <1>14, <1>15 DEF MpNext

\* Nothing is used without a pool: an allocation needs a block, a free a buffer.
LEMMA AbsentStep ==
    ASSUME MpInv, [MpNext]_mpVars
    PROVE  Absent'
<1>0. mp \in Pool /\ mpc \in [MpThreads -> MpPc] /\ owned \in [MpThreads -> SUBSET Buffers] /\ Absent
  BY DEF MpInv, MpTypes
<1> USE DEF Absent, Pool, MpGoto
<1>1. CASE UNCHANGED mpVars
  BY <1>0, <1>1 DEF mpVars
<1>2. CASE MpStart
  BY <1>2 DEF MpStart, ztl_mp_create
<1>3. CASE ztl_mp_release
  BY <1>0, <1>3 DEF ztl_mp_release
<1>4. ASSUME NEW t \in MpThreads, AllocNew(t) PROVE Absent'
  BY <1>4, NewBuffer
<1>5. ASSUME NEW t \in MpThreads, AllocCall(t) \/ FreeCall(t) PROVE Absent'
  BY <1>0, <1>5 DEF AllocCall, FreeCall
<1>6. ASSUME NEW t \in MpThreads,
             \/ MpLock(t) \/ AllocFree(t) \/ AllocUnlink(t) \/ AllocExhausted(t)
             \/ AllocUnlock(t) \/ AllocReturn(t) \/ FreePush(t)
             \/ FreeUnlock(t) \/ FreeCount(t) \/ FreeReturn(t)
      PROVE  Absent'
  <2>1. mpc[t] # "idle"
    BY <1>6 DEF MpLock, AllocFree, AllocUnlink, AllocExhausted, AllocUnlock, AllocReturn,
                FreePush, FreeUnlock, FreeCount, FreeReturn
  <2>2. mp'.blocks = mp.blocks
    BY <1>0, <1>6 DEF MpLock, AllocFree, AllocUnlink, AllocExhausted, AllocUnlock, AllocReturn,
                FreePush, FreeUnlock, FreeCount, FreeReturn
  <2> QED BY <1>0, <2>1, <2>2
<1> QED BY <1>1, <1>2, <1>3, <1>4, <1>5, <1>6 DEF MpNext

\* The lock keeps others out from the read of the stack's top to its replacement, and
\* stays taken when the pool was found exhausted.
LEMMA LockHeldStep ==
    ASSUME MpInv, [MpNext]_mpVars
    PROVE  LockHeld'
<1>0. /\ mp \in Pool /\ mpc \in [MpThreads -> MpPc] /\ LockHeld /\ Absent
      /\ mnode \in [MpThreads -> Buffers \cup {NoBuffer}]
  BY DEF MpInv, MpTypes
<1> USE DEF LockHeld, Pool, MpGoto, Critical, Exhausted
<1>1. CASE UNCHANGED mpVars
  BY <1>0, <1>1 DEF mpVars
<1>2. CASE MpStart
  BY <1>0, <1>2 DEF MpStart, ztl_mp_create, NoPool, Absent
<1>3. CASE ztl_mp_release
  BY <1>0, <1>3 DEF ztl_mp_release, ztl_mp_create, NoPool
<1>4. ASSUME NEW t \in MpThreads, AllocCall(t) PROVE LockHeld'
  BY <1>0, <1>4 DEF AllocCall
<1>5. ASSUME NEW t \in MpThreads, FreeCall(t) PROVE LockHeld'
  BY <1>0, <1>5 DEF FreeCall
<1>6. ASSUME NEW t \in MpThreads, MpLock(t) PROVE LockHeld'
  BY <1>0, <1>6 DEF MpLock
<1>7. ASSUME NEW t \in MpThreads, AllocFree(t) PROVE LockHeld'
  BY <1>0, <1>7 DEF AllocFree
<1>8. ASSUME NEW t \in MpThreads, AllocUnlink(t) PROVE LockHeld'
  BY <1>0, <1>8 DEF AllocUnlink
<1>9. ASSUME NEW t \in MpThreads, AllocNew(t) PROVE LockHeld'
  <2>1. mp' = [mp EXCEPT !.blocks = mp'.blocks] /\ mp'.blocks # <<>>
    BY <1>9, NewBuffer
  <2>2. mp'.lock = mp.lock /\ mp'.freenodes = mp.freenodes /\ mp'.AutoExpand = mp.AutoExpand
    BY <1>0, <2>1
  <2>3. /\ mpc[t] = "alloc" /\ mpc' = [mpc EXCEPT ![t] = "alloc_unlock"]
        /\ \A u \in MpThreads : u # t => mnode'[u] = mnode[u]
    BY <1>0, <1>9 DEF AllocNew
  <2>4. \A u \in MpThreads : mpc'[u] \in Critical <=> mpc[u] \in Critical
    BY <1>0, <2>3
  <2>5. \E u \in MpThreads : mpc'[u] \in Critical
    BY <1>0, <2>3
  <2>6. \A u \in MpThreads : mpc'[u] = "alloc_unlink" => mpc[u] = "alloc_unlink" /\ u # t
    BY <1>0, <2>3
  <2> QED BY <1>0, <2>2, <2>3, <2>4, <2>5, <2>6
<1>10. ASSUME NEW t \in MpThreads, AllocExhausted(t) PROVE LockHeld'
  BY <1>0, <1>10 DEF AllocExhausted
<1>11. ASSUME NEW t \in MpThreads, AllocUnlock(t) \/ FreeUnlock(t) PROVE LockHeld'
  BY <1>0, <1>11 DEF AllocUnlock, FreeUnlock
<1>12. ASSUME NEW t \in MpThreads, FreePush(t) PROVE LockHeld'
  BY <1>0, <1>12 DEF FreePush
<1>13. ASSUME NEW t \in MpThreads, AllocReturn(t) PROVE LockHeld'
  BY <1>0, <1>13 DEF AllocReturn
<1>14. ASSUME NEW t \in MpThreads, FreeCount(t) PROVE LockHeld'
  BY <1>0, <1>14 DEF FreeCount
<1>15. ASSUME NEW t \in MpThreads, FreeReturn(t) PROVE LockHeld'
  BY <1>0, <1>15 DEF FreeReturn
<1> QED BY <1>1, <1>2, <1>3, <1>4, <1>5, <1>6, <1>7, <1>8, <1>9, <1>10, <1>11, <1>12, <1>13, <1>14, <1>15 DEF MpNext

\* A step that leaves the stack, the blocks and everybody's buffers where they are.
LEMMA PlacesKept ==
    ASSUME Places, mp'.freenodes = mp.freenodes, mp'.blocks = mp.blocks,
           \A t \in MpThreads : Held(t)' = Held(t) /\ owned'[t] \cap InHand(t)' = {}
    PROVE  Places'
<1>1. Handed' = Handed
  BY DEF Handed
<1> QED BY <1>1 DEF Places

\* Every buffer handed out stays in one place: it moves from the stack or a block into
\* the hand of one call, and from there to its thread or to the stack.
LEMMA PlacesStep ==
    ASSUME MpInv, [MpNext]_mpVars
    PROVE  Places'
<1>0. /\ mp \in Pool /\ mpc \in [MpThreads -> MpPc] /\ LockHeld /\ Absent /\ Places /\ MpTypes
      /\ mnode \in [MpThreads -> Buffers \cup {NoBuffer}]
      /\ owned \in [MpThreads -> SUBSET Buffers]
      /\ mp.freenodes \in Seq(Buffers)
  BY DEF MpInv, MpTypes, Pool
<1> USE DEF Pool, MpGoto
<1>1. CASE UNCHANGED mpVars
  BY <1>0, <1>1, PlacesKept DEF mpVars, Held, InHand, Places
<1>2. CASE MpStart \/ ztl_mp_release
  <2>1. /\ mp'.freenodes = <<<<1, 1>>>> /\ mp'.blocks \in {<<>>, << 1 >>}
        /\ \A t \in MpThreads : mpc'[t] = "idle" /\ owned'[t] = {}
    BY <1>0, <1>2 DEF MpStart, ztl_mp_release, ztl_mp_create, NoPool, Absent
  <2>2. ToSet(mp'.freenodes) = {<<1, 1>>} /\ Len(mp'.freenodes) = 1 /\ IsInjective(mp'.freenodes)
    BY <2>1 DEF ToSet, IsInjective
  <2>3. Cardinality(ToSet(mp'.freenodes)) = 1
    BY <2>2, FS_Singleton
  <2>4. \A t \in MpThreads : Held(t)' = {} /\ owned'[t] \cap InHand(t)' = {}
    BY <2>1 DEF Held, InHand
  <2>5. mp'.blocks # <<>> => Handed' = {<<1, 1>>}
    <3> SUFFICES ASSUME mp'.blocks = << 1 >> PROVE Handed' = {<<1, 1>>}
      BY <2>1
    <3>1. ASSUME NEW b \in Buffers PROVE b \in Handed' <=> b = <<1, 1>>
      <4>1. b[1] \in 1 .. MaxBlocks /\ b[2] \in 1 .. nInitCount /\ b = <<b[1], b[2]>>
        BY DEF Buffers
      <4>2. b \in Handed' <=> b[1] <= 1 /\ b[2] <= << 1 >>[b[1]]
        BY DEF Handed
      <4> QED BY <4>1, <4>2, PoolAssumption
    <3> QED BY <3>1, FirstBuffer DEF Handed
  <2> QED BY <2>2, <2>3, <2>4, <2>5 DEF Places
<1>4. ASSUME NEW t \in MpThreads, AllocCall(t) PROVE Places'
  BY <1>0, <1>4, PlacesKept DEF AllocCall, Held, InHand, Places
<1>5. ASSUME NEW t \in MpThreads, FreeCall(t) PROVE Places'
  BY <1>0, <1>5, PlacesKept DEF FreeCall, Held, InHand, Places
<1>6. ASSUME NEW t \in MpThreads, MpLock(t) PROVE Places'
  BY <1>0, <1>6, PlacesKept DEF MpLock, Held, InHand, Places
<1>7. ASSUME NEW t \in MpThreads, AllocFree(t) PROVE Places'
  BY <1>0, <1>7, PlacesKept DEF AllocFree, Held, InHand, Places
<1>8. ASSUME NEW t \in MpThreads, AllocUnlink(t) PROVE Places'
  <2>1. mp.freenodes # <<>> /\ mnode[t] = Head(mp.freenodes) /\ IsInjective(mp.freenodes)
    BY <1>0, <1>8 DEF AllocUnlink, LockHeld, Places
  <2>2. /\ mp'.freenodes = Tail(mp.freenodes) /\ mp'.blocks = mp.blocks
        /\ owned' = owned /\ mnode' = mnode
    BY <1>0, <1>8, <2>1 DEF AllocUnlink
  <2>3. /\ mnode[t] \in ToSet(mp.freenodes) /\ ToSet(mp'.freenodes) = ToSet(mp.freenodes) \ {mnode[t]}
        /\ IsInjective(mp'.freenodes) /\ Len(mp'.freenodes) = Len(mp.freenodes) - 1
    BY <1>0, <2>1, <2>2, StackPop
  <2>4. IsFiniteSet(ToSet(mp.freenodes))
    BY <1>0, StackFinite
  <2>5. Cardinality(ToSet(mp'.freenodes)) = Len(mp'.freenodes)
    <3>1. Cardinality(ToSet(mp.freenodes) \ {mnode[t]}) = Cardinality(ToSet(mp.freenodes)) - 1
      BY <2>3, <2>4, FS_RemoveElement
    <3>2. Cardinality(ToSet(mp.freenodes)) = Len(mp.freenodes)
      BY <1>0 DEF Places
    <3> QED BY <2>3, <3>1, <3>2
  <2>6. /\ Held(t)' = Held(t) \cup {mnode[t]} /\ InHand(t)' = {mnode[t]} /\ InHand(t) = {}
        /\ \A u \in MpThreads : u # t => Held(u)' = Held(u) /\ InHand(u)' = InHand(u)
    BY <1>0, <1>8 DEF AllocUnlink, Held, InHand
  <2>7. Handed' = Handed
    BY <2>2 DEF Handed
  <2>8. /\ \A u \in MpThreads : Held(u)' \cap ToSet(mp'.freenodes) = {} /\ owned'[u] \cap InHand(u)' = {}
        /\ \A u, v \in MpThreads : u # v => Held(u)' \cap Held(v)' = {}
    <3>1. \A u \in MpThreads : /\ Held(u) \cap ToSet(mp.freenodes) = {} /\ owned[u] \cap InHand(u) = {}
                                /\ owned[u] \subseteq Held(u)
      BY <1>0 DEF Places, Held
    <3>2. \A u, v \in MpThreads : u # v => Held(u) \cap Held(v) = {}
      BY <1>0 DEF Places
    <3>3. mnode[t] \notin owned[t] /\ \A u \in MpThreads : mnode[t] \notin Held(u)
      BY <2>3, <3>1
    <3>4. \A u \in MpThreads : Held(u)' \cap ToSet(mp'.freenodes) = {}
      BY <2>3, <2>6, <3>1
    <3>5. \A u \in MpThreads : owned'[u] \cap InHand(u)' = {}
      BY <2>2, <2>6, <3>1, <3>3
    <3>6. \A u, v \in MpThreads : u # v => Held(u)' \cap Held(v)' = {}
      BY <2>6, <3>2, <3>3
    <3> QED BY <3>4, <3>5, <3>6
  <2>9. mp'.blocks # <<>> => \A b \in Buffers :
          b \in Handed' <=> b \in ToSet(mp'.freenodes) \/ \E u \in MpThreads : b \in Held(u)'
    <3>1. mp.blocks # <<>> => \A b \in Buffers :
            b \in Handed <=> b \in ToSet(mp.freenodes) \/ \E u \in MpThreads : b \in Held(u)
      BY <1>0 DEF Places
    <3>2. ASSUME NEW b PROVE (\E u \in MpThreads : b \in Held(u)') <=>
                             b = mnode[t] \/ \E u \in MpThreads : b \in Held(u)
      BY <2>6
    <3>3. ASSUME NEW b PROVE b \in ToSet(mp.freenodes) <=> b = mnode[t] \/ b \in ToSet(mp'.freenodes)
      BY <2>3
    <3>4. mp'.blocks = mp.blocks
      BY <2>2
    <3> QED BY <2>7, <3>1, <3>2, <3>3, <3>4
  <2> QED BY <2>3, <2>5, <2>8, <2>9 DEF Places
<1>9. ASSUME NEW t \in MpThreads, AllocNew(t) PROVE Places'
  <2>1. /\ mnode'[t] \in Buffers /\ mnode'[t] \notin Handed /\ Handed' = Handed \cup {mnode'[t]}
        /\ mp.blocks # <<>> /\ mp' = [mp EXCEPT !.blocks = mp'.blocks]
    BY <1>9, NewBuffer
  <2>2. mp'.freenodes = mp.freenodes
    BY <1>0, <2>1
  <2>3. /\ Held(t)' = Held(t) \cup {mnode'[t]} /\ InHand(t)' = {mnode'[t]}
        /\ \A u \in MpThreads : u # t => Held(u)' = Held(u) /\ InHand(u)' = InHand(u)
    BY <1>0, <1>9 DEF AllocNew, Held, InHand
  <2>4. owned' = owned
    BY <1>9 DEF AllocNew
  <2>5. mnode'[t] \notin ToSet(mp.freenodes) /\ \A u \in MpThreads : mnode'[t] \notin Held(u)
    BY <1>0, <2>1 DEF Places
  <2>6. /\ \A u \in MpThreads : Held(u)' \cap ToSet(mp'.freenodes) = {} /\ owned'[u] \cap InHand(u)' = {}
        /\ \A u, v \in MpThreads : u # v => Held(u)' \cap Held(v)' = {}
    BY <1>0, <2>2, <2>3, <2>4, <2>5 DEF Places, Held
  <2>7. \A b \in Buffers :
          b \in Handed' <=> b \in ToSet(mp'.freenodes) \/ \E u \in MpThreads : b \in Held(u)'
    <3>1. \A b \in Buffers :
            b \in Handed <=> b \in ToSet(mp.freenodes) \/ \E u \in MpThreads : b \in Held(u)
      BY <1>0, <2>1 DEF Places
    <3>2. ASSUME NEW b PROVE (\E u \in MpThreads : b \in Held(u)') <=>
                             b = mnode'[t] \/ \E u \in MpThreads : b \in Held(u)
      BY <2>3
    <3> QED BY <2>1, <2>2, <3>1, <3>2
  <2> QED BY <1>0, <2>2, <2>6, <2>7 DEF Places
<1>10. ASSUME NEW t \in MpThreads, AllocExhausted(t) PROVE Places'
  BY <1>0, <1>10, PlacesKept DEF AllocExhausted, Held, InHand, Places
<1>11. ASSUME NEW t \in MpThreads, AllocUnlock(t) \/ FreeUnlock(t) PROVE Places'
  BY <1>0, <1>11, PlacesKept DEF AllocUnlock, FreeUnlock, Held, InHand, Places
<1>12. ASSUME NEW t \in MpThreads, FreePush(t) PROVE Places'
  <2>1. InHand(t) = {mnode[t]} /\ mnode[t] \in Buffers /\ mnode[t] \notin owned[t]
    BY <1>0, <1>12 DEF FreePush, InHand, MpTypes, Places
  <2>2. mnode[t] \in Held(t) /\ mnode[t] \notin ToSet(mp.freenodes)
    BY <1>0, <2>1 DEF Held, Places
  <2>3. mp'.freenodes = <<mnode[t]>> \o mp.freenodes /\ mp'.blocks = mp.blocks /\ owned' = owned
    BY <1>0, <1>12 DEF FreePush
  <2>4. /\ ToSet(mp'.freenodes) = ToSet(mp.freenodes) \cup {mnode[t]}
        /\ IsInjective(mp'.freenodes) /\ Len(mp'.freenodes) = Len(mp.freenodes) + 1
    BY <1>0, <2>1, <2>2, <2>3, StackPush DEF Places
  <2>5. Cardinality(ToSet(mp'.freenodes)) = Len(mp'.freenodes)
    <3>1. IsFiniteSet(ToSet(mp.freenodes))
      BY <1>0, StackFinite
    <3>2. Cardinality(ToSet(mp.freenodes) \cup {mnode[t]}) = Cardinality(ToSet(mp.freenodes)) + 1
      BY <2>2, <3>1, FS_AddElement
    <3>3. Cardinality(ToSet(mp.freenodes)) = Len(mp.freenodes)
      BY <1>0 DEF Places
    <3> QED BY <2>4, <3>2, <3>3
  <2>6. /\ Held(t)' = Held(t) \ {mnode[t]} /\ InHand(t)' = {}
        /\ \A u \in MpThreads : u # t => Held(u)' = Held(u) /\ InHand(u)' = InHand(u)
    BY <1>0, <1>12, <2>1 DEF FreePush, Held, InHand
  <2>7. Handed' = Handed
    BY <2>3 DEF Handed
  <2>8. /\ \A u \in MpThreads : Held(u)' \cap ToSet(mp'.freenodes) = {} /\ owned'[u] \cap InHand(u)' = {}
        /\ \A u, v \in MpThreads : u # v => Held(u)' \cap Held(v)' = {}
    BY <1>0, <2>2, <2>3, <2>4, <2>6 DEF Places
  <2>9. mp'.blocks # <<>> => \A b \in Buffers :
          b \in Handed' <=> b \in ToSet(mp'.freenodes) \/ \E u \in MpThreads : b \in Held(u)'
    <3> SUFFICES ASSUME mp.blocks # <<>>, NEW b \in Buffers
                 PROVE  b \in Handed' <=> b \in ToSet(mp'.freenodes) \/ \E u \in MpThreads : b \in Held(u)'
      BY <2>3
    <3>1. b \in Handed <=> b \in ToSet(mp.freenodes) \/ \E u \in MpThreads : b \in Held(u)
      BY <1>0 DEF Places
    <3>2. CASE b = mnode[t]
      BY <2>2, <2>4, <2>7, <3>1, <3>2
    <3>3. CASE b # mnode[t]
      BY <2>4, <2>6, <2>7, <3>1, <3>3
    <3> QED BY <3>2, <3>3
  <2> QED BY <2>4, <2>5, <2>8, <2>9 DEF Places
<1>13. ASSUME NEW t \in MpThreads, AllocReturn(t) PROVE Places'
  BY <1>0, <1>13, PlacesKept DEF AllocReturn, Held, InHand, Places
<1>14. ASSUME NEW t \in MpThreads, FreeCount(t) PROVE Places'
  BY <1>0, <1>14, PlacesKept DEF FreeCount, Held, InHand, Places
<1>15. ASSUME NEW t \in MpThreads, FreeReturn(t) PROVE Places'
  BY <1>0, <1>15, PlacesKept DEF FreeReturn, Held, InHand, Places
<1> QED BY <1>1, <1>2, <1>4, <1>5, <1>6, <1>7, <1>8, <1>9, <1>10, <1>11, <1>12, <1>13, <1>14, <1>15 DEF MpNext

\* The counted sets are finite, and together smaller than a counter's range.
LEMMA CountedFinite ==
    ASSUME MpInv
    PROVE  /\ IsFiniteSet(Pushed) /\ IsFiniteSet(Freeing) /\ IsFiniteSet(AllOwned)
           /\ Cardinality(Pushed) \in Nat /\ Cardinality(Freeing) \in Nat
           /\ Cardinality(AllOwned) \in Nat /\ Len(mp.freenodes) \in Nat
           /\ Len(mp.freenodes) + Cardinality(Pushed) < MpWord
           /\ Cardinality(AllOwned) + Cardinality(Freeing) < MpWord
<1>1. Pushed \in SUBSET MpThreads /\ Freeing \in SUBSET MpThreads
  BY DEF Pushed, Freeing
<1>2. AllOwned \in SUBSET Buffers
  BY DEF MpInv, MpTypes, AllOwned
<1>3. /\ IsFiniteSet(Pushed) /\ Cardinality(Pushed) <= Cardinality(MpThreads)
      /\ IsFiniteSet(Freeing) /\ Cardinality(Freeing) <= Cardinality(MpThreads)
  BY <1>1, CountersFit, FS_Subset
<1>4. IsFiniteSet(AllOwned) /\ Cardinality(AllOwned) <= Cardinality(Buffers)
  BY <1>2, BuffersFinite, FS_Subset
<1>5. mp.freenodes \in Seq(Buffers) /\ Cardinality(ToSet(mp.freenodes)) = Len(mp.freenodes)
  BY DEF MpInv, MpTypes, Pool, Places
<1>6. Len(mp.freenodes) \in Nat /\ Len(mp.freenodes) <= Cardinality(Buffers)
  BY <1>5, StackFinite
<1>7. Cardinality(Pushed) \in Nat /\ Cardinality(Freeing) \in Nat /\ Cardinality(AllOwned) \in Nat
  BY <1>3, <1>4, FS_CardinalityType
<1> QED BY <1>3, <1>4, <1>6, <1>7, BuffersFinite, PoolAssumption

\* nFreeCount follows the stack up to the frees that have pushed and not counted.
LEMMA FreeCountedStep ==
    ASSUME MpInv, [MpNext]_mpVars
    PROVE  FreeCounted'
<1>0. /\ mp \in Pool /\ mpc \in [MpThreads -> MpPc] /\ Absent /\ LockHeld /\ Places
      /\ FreeCounted /\ mp.freenodes \in Seq(Buffers) /\ mp.nFreeCount \in 0 .. MpWord - 1
  BY DEF MpInv, MpTypes, Pool
<1> DEFINE n == Len(mp.freenodes) - Cardinality(Pushed)
<1>w. n \in Int /\ 0 - MpWord < n /\ n < MpWord
  BY CountedFinite, PoolAssumption
<1>n. mp.nFreeCount = AsWord(n)
  BY <1>0 DEF FreeCounted
<1> USE DEF MpGoto
<1>20. ASSUME mp'.nFreeCount = mp.nFreeCount, mp'.freenodes = mp.freenodes, Pushed' = Pushed
      PROVE  FreeCounted'
  BY <1>0, <1>20 DEF FreeCounted
<1>1. CASE UNCHANGED mpVars
  BY <1>1, <1>20 DEF mpVars, Pushed
<1>2. CASE MpStart \/ ztl_mp_release
  <2>1. /\ mp'.freenodes = <<<<1, 1>>>> /\ mp'.nFreeCount = 1
        /\ \A t \in MpThreads : mpc'[t] = "idle"
    BY <1>0, <1>2 DEF MpStart, ztl_mp_release, ztl_mp_create, NoPool, Absent
  <2>2. Len(mp'.freenodes) = 1 /\ Pushed' = {}
    BY <2>1 DEF Pushed
  <2> QED BY <2>1, <2>2, FS_EmptySet DEF FreeCounted, AsWord
<1>3. ASSUME NEW t \in MpThreads,
             \/ AllocCall(t) \/ FreeCall(t) \/ AllocFree(t)
             \/ AllocExhausted(t) \/ FreeUnlock(t)
      PROVE  FreeCounted'
  BY <1>0, <1>3, <1>20 DEF AllocCall, FreeCall, AllocFree, AllocExhausted, FreeUnlock, Pushed, Pool
<1>4. ASSUME NEW t \in MpThreads, MpLock(t) \/ AllocUnlock(t) \/ AllocReturn(t) \/ FreeReturn(t)
      PROVE  FreeCounted'
  BY <1>0, <1>4, <1>20 DEF MpLock, AllocUnlock, AllocReturn, FreeReturn, Pushed, Pool
<1>5. ASSUME NEW t \in MpThreads, AllocNew(t) PROVE FreeCounted'
  <2>1. mp'.nFreeCount = mp.nFreeCount /\ mp'.freenodes = mp.freenodes
    BY <1>0, <1>5, NewBuffer DEF Pool
  <2>2. Pushed' = Pushed
    BY <1>0, <1>5 DEF AllocNew, Pushed
  <2> QED BY <1>20, <2>1, <2>2
<1>6. ASSUME NEW t \in MpThreads, AllocUnlink(t) PROVE FreeCounted'
  <2>1. mp.freenodes # <<>> /\ IsInjective(mp.freenodes)
    BY <1>0, <1>6 DEF AllocUnlink, LockHeld, Places
  <2>2. mp'.freenodes = Tail(mp.freenodes) /\ mp'.nFreeCount = MpDec(mp.nFreeCount)
    BY <1>0, <1>6, <2>1 DEF AllocUnlink, Pool
  <2>3. Len(mp'.freenodes) = Len(mp.freenodes) - 1
    BY <1>0, <2>1, <2>2, StackPop
  <2>4. Pushed' = Pushed
    BY <1>0, <1>6 DEF AllocUnlink, Pushed
  <2>5. MpDec(AsWord(n)) = AsWord(n - 1)
    <3> HIDE DEF n
    <3> QED BY <1>w, WordMoves, PoolAssumption
  <2>6. n - 1 = Len(mp'.freenodes) - Cardinality(Pushed)
    BY <2>3, CountedFinite
  <2> QED BY <1>n, <2>2, <2>4, <2>5, <2>6 DEF FreeCounted
<1>7. ASSUME NEW t \in MpThreads, FreePush(t) PROVE FreeCounted'
  <2>1. /\ mp'.freenodes = <<mnode[t]>> \o mp.freenodes /\ mp'.nFreeCount = mp.nFreeCount
        /\ mnode[t] \in Buffers
    BY <1>0, <1>7 DEF FreePush, Pool, MpInv, MpTypes, InHand
  <2>2. Len(mp'.freenodes) = Len(mp.freenodes) + 1
    BY <1>0, <2>1
  <2>3. Pushed' = Pushed \cup {t} /\ t \notin Pushed
    BY <1>0, <1>7 DEF FreePush, Pushed
  <2>4. Cardinality(Pushed \cup {t}) = Cardinality(Pushed) + 1
    BY <2>3, CountedFinite, FS_AddElement
  <2>5. Len(mp'.freenodes) - Cardinality(Pushed \cup {t}) = Len(mp.freenodes) - Cardinality(Pushed)
    <3>1. Len(mp.freenodes) \in Nat /\ Cardinality(Pushed) \in Nat
      BY CountedFinite
    <3> QED BY <2>2, <2>4, <3>1
  <2> QED BY <1>0, <2>1, <2>3, <2>5 DEF FreeCounted
<1>8. ASSUME NEW t \in MpThreads, FreeCount(t) PROVE FreeCounted'
  <2>1. mp'.freenodes = mp.freenodes /\ mp'.nFreeCount = MpInc(mp.nFreeCount)
    BY <1>0, <1>8 DEF FreeCount, Pool
  <2>2. Pushed' = Pushed \ {t} /\ t \in Pushed
    BY <1>0, <1>8 DEF FreeCount, Pushed
  <2>3. Cardinality(Pushed \ {t}) = Cardinality(Pushed) - 1
    BY <2>2, CountedFinite, FS_RemoveElement
  <2>4. n + 1 < MpWord
    BY <2>2, <2>3, CountedFinite, PoolAssumption, FS_EmptySet
  <2>5. MpInc(AsWord(n)) = AsWord(n + 1)
    <3> HIDE DEF n
    <3> QED BY <1>w, <2>4, WordMoves, PoolAssumption
  <2>6. n + 1 = Len(mp.freenodes) - Cardinality(Pushed \ {t})
    BY <2>3, CountedFinite
  <2> QED BY <1>n, <2>1, <2>2, <2>5, <2>6 DEF FreeCounted
<1> QED BY <1>1, <1>2, <1>3, <1>4, <1>5, <1>6, <1>7, <1>8 DEF MpNext

\* ExposedCount is the number of buffers that threads have or are giving back.
LEMMA ExposedCountedStep ==
    ASSUME MpInv, [MpNext]_mpVars
    PROVE  ExposedCounted'
<1>0. /\ mp \in Pool /\ mpc \in [MpThreads -> MpPc] /\ Absent /\ Places /\ MpTypes /\ ExposedCounted
      /\ owned \in [MpThreads -> SUBSET Buffers] /\ mp.ExposedCount \in 0 .. MpWord - 1
  BY DEF MpInv, MpTypes, Pool
<1> USE DEF MpGoto
<1>20. ASSUME mp'.ExposedCount = mp.ExposedCount, owned' = owned, Freeing' = Freeing
      PROVE  ExposedCounted'
  BY <1>0, <1>20 DEF ExposedCounted, AllOwned
<1>1. CASE UNCHANGED mpVars
  BY <1>1, <1>20 DEF mpVars, Freeing
<1>2. CASE MpStart \/ ztl_mp_release
  <2>1. /\ mp'.ExposedCount = 0
        /\ \A t \in MpThreads : mpc'[t] = "idle" /\ owned'[t] = {}
    BY <1>0, <1>2 DEF MpStart, ztl_mp_release, ztl_mp_create, NoPool, Absent
  <2>2. AllOwned' = {} /\ Freeing' = {}
    BY <2>1 DEF AllOwned, Freeing
  <2> QED BY <2>1, <2>2, FS_EmptySet DEF ExposedCounted
<1>3. ASSUME NEW t \in MpThreads, AllocCall(t) \/ AllocFree(t) \/ AllocExhausted(t) \/ AllocUnlink(t)
      PROVE  ExposedCounted'
  BY <1>0, <1>3, <1>20 DEF AllocCall, AllocFree, AllocExhausted, AllocUnlink, Freeing, Pool
<1>4. ASSUME NEW t \in MpThreads,
             MpLock(t) \/ AllocUnlock(t) \/ FreePush(t) \/ FreeUnlock(t) \/ FreeCount(t)
      PROVE  ExposedCounted'
  BY <1>0, <1>4, <1>20 DEF MpLock, AllocUnlock, FreePush, FreeUnlock, FreeCount, Freeing, Pool
<1>5. ASSUME NEW t \in MpThreads, AllocNew(t) PROVE ExposedCounted'
  <2>1. mp'.ExposedCount = mp.ExposedCount
    BY <1>0, <1>5, NewBuffer DEF Pool
  <2>2. Freeing' = Freeing /\ owned' = owned
    BY <1>0, <1>5 DEF AllocNew, Freeing
  <2> QED BY <1>20, <2>1, <2>2
<1>6. ASSUME NEW t \in MpThreads, FreeCall(t) PROVE ExposedCounted'
  <2>1. PICK b \in owned[t] : owned' = [owned EXCEPT ![t] = @ \ {b}]
    BY <1>6 DEF FreeCall
  <2>2. \A u \in MpThreads : u # t => b \notin owned[u]
    BY <1>0, <2>1 DEF Places, Held
  <2>3. AllOwned' = AllOwned \ {b} /\ b \in AllOwned
    BY <1>0, <2>1, <2>2 DEF AllOwned
  <2>4. Freeing' = Freeing \cup {t} /\ t \notin Freeing /\ mp' = mp
    BY <1>0, <1>6 DEF FreeCall, Freeing
  <2>5. Cardinality(AllOwned \ {b}) = Cardinality(AllOwned) - 1
    BY <2>3, CountedFinite, FS_RemoveElement
  <2>6. Cardinality(Freeing \cup {t}) = Cardinality(Freeing) + 1
    BY <2>4, CountedFinite, FS_AddElement
  <2> QED BY <1>0, <2>3, <2>4, <2>5, <2>6, CountedFinite DEF ExposedCounted
<1>7. ASSUME NEW t \in MpThreads, AllocReturn(t) PROVE ExposedCounted'
  <2>1. /\ InHand(t) = {mnode[t]} /\ owned' = [owned EXCEPT ![t] = @ \cup {mnode[t]}]
        /\ mp'.ExposedCount = MpInc(mp.ExposedCount)
    BY <1>0, <1>7 DEF AllocReturn, InHand, Pool
  <2>2. \A u \in MpThreads : mnode[t] \notin owned[u]
    BY <1>0, <2>1 DEF Places, Held
  <2>3. AllOwned' = AllOwned \cup {mnode[t]} /\ mnode[t] \notin AllOwned
    BY <1>0, <2>1, <2>2 DEF AllOwned
  <2>4. Freeing' = Freeing
    BY <1>0, <1>7 DEF AllocReturn, Freeing
  <2>5. Cardinality(AllOwned \cup {mnode[t]}) = Cardinality(AllOwned) + 1
    BY <2>3, CountedFinite, FS_AddElement
  <2>6. AllOwned' \in SUBSET Buffers /\ Freeing \in SUBSET MpThreads
    BY <1>0, <1>7, <2>1, <2>3 DEF MpTypes, AllOwned, Freeing
  <2>7. Cardinality(AllOwned') + Cardinality(Freeing) < MpWord
    <3>1. Cardinality(AllOwned') <= Cardinality(Buffers) /\ Cardinality(Freeing) <= Cardinality(MpThreads)
      BY <2>6, BuffersFinite, CountersFit, FS_Subset
    <3> QED BY <2>3, <2>5, <3>1, BuffersFinite, CountedFinite, PoolAssumption
  <2> QED BY <1>0, <2>1, <2>3, <2>4, <2>5, <2>7, WordSteps, CountedFinite, PoolAssumption DEF ExposedCounted
<1>8. ASSUME NEW t \in MpThreads, FreeReturn(t) PROVE ExposedCounted'
  <2>1. mp'.ExposedCount = MpDec(mp.ExposedCount) /\ owned' = owned
    BY <1>0, <1>8 DEF FreeReturn, Pool
  <2>2. Freeing' = Freeing \ {t} /\ t \in Freeing /\ AllOwned' = AllOwned
    BY <1>0, <1>8, <2>1 DEF FreeReturn, Freeing, AllOwned
  <2>3. Cardinality(Freeing \ {t}) = Cardinality(Freeing) - 1 /\ Cardinality(Freeing) # 0
    BY <2>2, CountedFinite, FS_RemoveElement, FS_EmptySet
  <2> QED BY <1>0, <2>1, <2>2, <2>3, WordSteps, CountedFinite, PoolAssumption DEF ExposedCounted
<1> QED BY <1>1, <1>2, <1>3, <1>4, <1>5, <1>6, <1>7, <1>8 DEF MpNext

\* MpInv is an inductive invariant of the pool.
THEOREM MpInvariant == MpSpec => []MpInv
<1>1. MpInit => MpInv
  <2> SUFFICES ASSUME MpInit PROVE MpInv
    OBVIOUS
  <2> DEFINE first == <<<<1, 1>>>>
  <2>1. /\ mp = [AutoExpand |-> TRUE, nFreeCount |-> 1, ExposedCount |-> 0, lock |-> 0,
                 blocks |-> <<>>, freenodes |-> first]
        /\ mp = NoPool /\ first \in Seq(Buffers)
    <3>1. first \in Seq(Buffers)
      BY FirstBuffer
    <3> QED BY <3>1 DEF MpInit, NoPool, ztl_mp_create
  <2>2. \A t \in MpThreads : /\ mpc[t] = "idle" /\ owned[t] = {} /\ InHand(t) = {} /\ Held(t) = {}
    BY DEF MpInit, InHand, Held
  <2>3. MpTypes
    BY <2>1, <2>2, FirstBuffer, PoolAssumption DEF MpInit, MpTypes, Pool, MpPc
  <2>4. Absent /\ LockHeld
    BY <2>1, <2>2 DEF Absent, LockHeld, Critical
  <2>5. ToSet(mp.freenodes) = {<<1, 1>>} /\ Len(mp.freenodes) = 1 /\ IsInjective(mp.freenodes)
    BY <2>1 DEF ToSet, IsInjective
  <2>6. Cardinality(ToSet(mp.freenodes)) = 1
    BY <2>5, FS_Singleton
  <2>7. Places
    BY <2>1, <2>2, <2>5, <2>6 DEF Places
  <2>8. Pushed = {} /\ Freeing = {} /\ AllOwned = {}
    BY <2>2 DEF Pushed, Freeing, AllOwned
  <2>9. FreeCounted /\ ExposedCounted
    BY <2>1, <2>5, <2>8, FS_EmptySet DEF FreeCounted, AsWord, ExposedCounted
  <2> QED BY <2>3, <2>4, <2>7, <2>9 DEF MpInv
<1>2. MpInv /\ [MpNext]_mpVars => MpInv'
  BY MpTypesStep, AbsentStep, LockHeldStep, PlacesStep, FreeCountedStep, ExposedCountedStep DEF MpInv
<1> QED BY <1>1, <1>2, PTL DEF MpSpec

\* Whatever the number of threads: no buffer is handed out twice, pushed twice or lost,
\* and the counters are exact whenever no call is under way.
THEOREM PoolIsExact == MpSpec => []PoolExact
<1>1. MpInv => PoolExact
  <2> SUFFICES ASSUME MpInv PROVE PoolExact
    OBVIOUS
  <2>0. Places /\ LockHeld /\ MpTypes /\ FreeCounted /\ ExposedCounted
    BY DEF MpInv
  <2>1. /\ IsInjective(mp.freenodes)
        /\ \A t \in MpThreads :
             /\ (owned[t] \cup InHand(t)) \cap ToSet(mp.freenodes) = {}
             /\ owned[t] \cap InHand(t) = {}
             /\ \A u \in MpThreads \ {t} : (owned[t] \cup InHand(t)) \cap (owned[u] \cup InHand(u)) = {}
    BY <2>0 DEF Places, Held
  <2>2. mp.blocks # <<>> => Handed = ToSet(mp.freenodes) \cup UNION {owned[t] \cup InHand(t) : t \in MpThreads}
    <3> SUFFICES ASSUME mp.blocks # <<>>
                 PROVE  Handed = ToSet(mp.freenodes) \cup UNION {Held(t) : t \in MpThreads}
      BY DEF Held
    <3>1. ToSet(mp.freenodes) \subseteq Buffers /\ \A t \in MpThreads : Held(t) \subseteq Buffers
      BY <2>0 DEF MpTypes, Pool, Held, ToSet
    <3>2. Handed \subseteq Buffers
      BY DEF Handed
    <3> QED BY <2>0, <3>1, <3>2 DEF Places
  <2>3. ASSUME mpc \in [MpThreads -> {"idle"}]
        PROVE  mp.nFreeCount = Len(mp.freenodes) /\ mp.ExposedCount = Cardinality(AllOwned)
    <3>1. Pushed = {} /\ Freeing = {}
      BY <2>3 DEF Pushed, Freeing
    <3> QED BY <2>0, <3>1, FS_EmptySet, CountedFinite DEF FreeCounted, AsWord, ExposedCounted
  <2>4. mp.lock = 1 =>
          \/ \E t \in MpThreads : mpc[t] \in {"alloc", "alloc_unlink", "free", "alloc_unlock", "free_unlock"}
          \/ ~mp.AutoExpand /\ mp.freenodes = <<>> /\ Last(mp.blocks) = nInitCount
    BY <2>0 DEF LockHeld, Critical, Exhausted
  <2> QED BY <2>1, <2>2, <2>3, <2>4 DEF PoolExact, AllOwned
<1> QED BY <1>1, MpInvariant, PTL
=============================================================================
