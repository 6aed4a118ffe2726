------------------------------- MODULE MemPool -------------------------------
(***************************************************************************)
(* ztl_mempool.c: a pool of equal buffers.  Blocks hold nInitCount buffers *)
(* that are handed out once in order; freed buffers are stacked and used   *)
(* again first.  A spin lock guards blocks and stack, the counters are     *)
(* changed atomically outside of it.                                       *)
(***************************************************************************)
EXTENDS Integers, Sequences, FiniteSets, SequencesExt

CONSTANTS MpThreads,
          nInitCount,
          MaxBlocks,     \* bound: blocks
          MpWord         \* the counters are unsigned: 2^32

ASSUME PoolAssumption == nInitCount \in Nat \ {0} /\ MaxBlocks \in Nat \ {0} /\ MpWord \in Nat \ {0}
\* Fewer threads and buffers than the counters can tell apart.
ASSUME CountersFit == /\ IsFiniteSet(MpThreads)
                      /\ MaxBlocks * nInitCount + Cardinality(MpThreads) < MpWord

VARIABLES mp,       \* the pool: AutoExpand, nFreeCount, ExposedCount, lock, blocks, freenodes
          mpc,      \* of each thread: where it is
          mnode,     \* and the buffer it is given or gives back
          owned     \* the buffers each thread has

mpVars == <<mp, mpc, mnode, owned>>

NoBuffer == <<0, 0>>
Buffers == (1 .. MaxBlocks) \X (1 .. nInitCount)

\* ztl_mp_create makes a block, takes a buffer and frees it again.
ztl_mp_create(auto) ==
  [AutoExpand |-> auto, nFreeCount |-> 1, ExposedCount |-> 0, lock |-> 0,
   blocks |-> <<1>>, freenodes |-> <<<<1, 1>>>>]

NoPool == [ztl_mp_create(TRUE) EXCEPT !.blocks = <<>>]

MpInit ==
  /\ mp = NoPool
  /\ mpc = [t \in MpThreads |-> "idle"]
  /\ mnode = [t \in MpThreads |-> NoBuffer]
  /\ owned = [t \in MpThreads |-> {}]

MpStart == mp = NoPool /\ (\E a \in BOOLEAN : mp' = ztl_mp_create(a)) /\ UNCHANGED <<mpc, mnode, owned>>

MpGoto(t, l) == mpc' = [mpc EXCEPT ![t] = l]

AllocCall(t) == mp.blocks # <<>> /\ mpc[t] = "idle" /\ MpGoto(t, "alloc_lock") /\ UNCHANGED <<mp, mnode, owned>>
FreeCall(t) ==
  /\ mpc[t] = "idle" /\ MpGoto(t, "free_lock")
  /\ \E b \in owned[t] : /\ mnode' = [mnode EXCEPT ![t] = b]
                         /\ owned' = [owned EXCEPT ![t] = @ \ {b}]
  /\ UNCHANGED mp

\* A broken variant: the lock is taken without looking.
MpLock_Blind(t) ==
  /\ mpc[t] \in {"alloc_lock", "free_lock"}
  /\ mp' = [mp EXCEPT !.lock = 1]
  /\ MpGoto(t, IF mpc[t] = "alloc_lock" THEN "alloc" ELSE "free")
  /\ UNCHANGED <<mnode, owned>>

MpLock(t) ==
  /\ mpc[t] \in {"alloc_lock", "free_lock"} /\ mp.lock = 0
  /\ mp' = [mp EXCEPT !.lock = 1]
  /\ MpGoto(t, IF mpc[t] = "alloc_lock" THEN "alloc" ELSE "free")
  /\ UNCHANGED <<mnode, owned>>

MpDec(n) == (n + MpWord - 1) % MpWord
MpInc(n) == (n + 1) % MpWord

\* The free stack is read and written in two steps, which the lock keeps together.
AllocFree(t) ==
  /\ mpc[t] = "alloc" /\ mp.freenodes # <<>>
  /\ mnode' = [mnode EXCEPT ![t] = Head(mp.freenodes)]
  /\ MpGoto(t, "alloc_unlink") /\ UNCHANGED <<mp, owned>>

AllocUnlink(t) ==
  /\ mpc[t] = "alloc_unlink"
  /\ mp' = [mp EXCEPT !.freenodes = IF @ = <<>> THEN @ ELSE Tail(@), !.nFreeCount = MpDec(@)]
  /\ MpGoto(t, "alloc_unlock") /\ UNCHANGED <<mnode, owned>>

\* The newest block, or a new one that _alloc_block puts before it.
AllocNew(t) ==
  LET n == Len(mp.blocks)
      full == mp.blocks[n] = nInitCount
      bs == IF full THEN Append(mp.blocks, 0) ELSE mp.blocks
      m == Len(bs) IN
  /\ mpc[t] = "alloc" /\ mp.freenodes = <<>>
  /\ full => mp.AutoExpand /\ n < MaxBlocks
  /\ mp' = [mp EXCEPT !.blocks = [bs EXCEPT ![m] = @ + 1]]
  /\ mnode' = [mnode EXCEPT ![t] = <<m, bs[m] + 1>>]
  /\ MpGoto(t, "alloc_unlock") /\ UNCHANGED owned

\* An exhausted pool: the return leaves the lock as it is.
AllocExhausted(t) ==
  /\ mpc[t] = "alloc" /\ mp.freenodes = <<>>
  /\ Last(mp.blocks) = nInitCount /\ ~mp.AutoExpand
  /\ MpGoto(t, "idle") /\ UNCHANGED <<mp, mnode, owned>>

AllocUnlock(t) == mpc[t] = "alloc_unlock" /\ mp' = [mp EXCEPT !.lock = 0] /\ MpGoto(t, "alloc_count") /\ UNCHANGED <<mnode, owned>>
AllocReturn(t) ==
  /\ mpc[t] = "alloc_count"
  /\ mp' = [mp EXCEPT !.ExposedCount = MpInc(@)]
  /\ owned' = [owned EXCEPT ![t] = @ \cup {mnode[t]}]
  /\ MpGoto(t, "idle") /\ UNCHANGED mnode

FreePush(t) ==
  /\ mpc[t] = "free"
  /\ mp' = [mp EXCEPT !.freenodes = <<mnode[t]>> \o @]
  /\ MpGoto(t, "free_unlock") /\ UNCHANGED <<mnode, owned>>
FreeUnlock(t) == mpc[t] = "free_unlock" /\ mp' = [mp EXCEPT !.lock = 0] /\ MpGoto(t, "free_count") /\ UNCHANGED <<mnode, owned>>
FreeCount(t) == mpc[t] = "free_count" /\ mp' = [mp EXCEPT !.nFreeCount = MpInc(@)] /\ MpGoto(t, "free_exposed") /\ UNCHANGED <<mnode, owned>>
FreeReturn(t) == mpc[t] = "free_exposed" /\ mp' = [mp EXCEPT !.ExposedCount = MpDec(@)] /\ MpGoto(t, "idle") /\ UNCHANGED <<mnode, owned>>

\* ztl_mp_release: all blocks go; nobody may use the pool any more.
ztl_mp_release ==
  /\ mp.blocks # <<>> /\ \A t \in MpThreads : mpc[t] = "idle"
  /\ mp' = NoPool
  /\ owned' = [t \in MpThreads |-> {}]
  /\ mnode' = [t \in MpThreads |-> NoBuffer]
  /\ UNCHANGED mpc

MpNext == MpStart \/ ztl_mp_release \/ \E t \in MpThreads :
  \/ AllocCall(t) \/ FreeCall(t) \/ MpLock(t)
  \/ AllocFree(t) \/ AllocUnlink(t) \/ AllocNew(t) \/ AllocExhausted(t) \/ AllocUnlock(t) \/ AllocReturn(t)
  \/ FreePush(t) \/ FreeUnlock(t) \/ FreeCount(t) \/ FreeReturn(t)

MpSpec == MpInit /\ [][MpNext]_mpVars

(* Every buffer handed out so far is in exactly one place: with one        *)
(* thread, in the hands of one call, or once on the free stack; the        *)
(* counters, which threads change after they have unlocked, agree with     *)
(* that whenever no call is under way; and the lock is held only by a      *)
(* thread inside the pool, or for ever after a call found the pool         *)
(* exhausted.                                                              *)
Handed == {b \in Buffers : b[1] <= Len(mp.blocks) /\ b[2] <= mp.blocks[b[1]]}
InHand(t) == IF mpc[t] \in {"alloc_unlock", "alloc_count", "free_lock", "free"} THEN {mnode[t]} ELSE {}
PoolExact ==
  /\ IsInjective(mp.freenodes)
  /\ \A t \in MpThreads :
       /\ (owned[t] \cup InHand(t)) \cap ToSet(mp.freenodes) = {}
       /\ owned[t] \cap InHand(t) = {}
       /\ \A u \in MpThreads \ {t} : (owned[t] \cup InHand(t)) \cap (owned[u] \cup InHand(u)) = {}
  /\ mp.blocks # <<>> => Handed = ToSet(mp.freenodes) \cup UNION {owned[t] \cup InHand(t) : t \in MpThreads}
  /\ mpc \in [MpThreads -> {"idle"}] /\ mp.blocks # <<>> =>
       /\ mp.nFreeCount = Len(mp.freenodes)
       /\ mp.ExposedCount = Cardinality(UNION {owned[t] : t \in MpThreads})
  /\ mp.lock = 1 =>
       \/ \E t \in MpThreads : mpc[t] \in {"alloc", "alloc_unlink", "free", "alloc_unlock", "free_unlock"}
       \/ ~mp.AutoExpand /\ mp.freenodes = <<>> /\ Last(mp.blocks) = nInitCount
=============================================================================
