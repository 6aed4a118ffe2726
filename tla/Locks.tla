-------------------------------- MODULE Locks --------------------------------
(***************************************************************************)
(* ztl_locks.c: a spin lock and a reader-writer lock, each one word that   *)
(* is changed by compare-and-swap.  The spinning of the code (pauses,      *)
(* sched_yield, a test before the CAS) changes nothing and is waiting.     *)
(***************************************************************************)
EXTENDS Integers, FiniteSets

CONSTANTS LockThreads,
          ZTL_RWLOCK_WLOCK     \* 2^32 - 1 in the code: the word of a write-locked lock

\* A reader that took the count to ZTL_RWLOCK_WLOCK would look like a writer.
ASSUME FewThreads == /\ IsFiniteSet(LockThreads)
                     /\ ZTL_RWLOCK_WLOCK \in Nat
                     /\ Cardinality(LockThreads) < ZTL_RWLOCK_WLOCK

VARIABLES spin, rw,      \* the two words
          lpc, readers   \* of each thread: where it is, its copy of the word

lockVars == <<spin, rw, lpc, readers>>

LockPc == {"out", "spin", "wait_spin", "wait_write", "write", "read_lock", "cas_lock",
           "read", "read_unlock", "cas_unlock"}

LockInit ==
  /\ spin = 0 /\ rw = 0
  /\ lpc = [t \in LockThreads |-> "out"]
  /\ readers = [t \in LockThreads |-> 0]

LGoto(t, l) == lpc' = [lpc EXCEPT ![t] = l]
LAt(l) == {t \in LockThreads : lpc[t] = l}
LCall(t, l) == lpc[t] = "out" /\ LGoto(t, l) /\ UNCHANGED <<spin, rw, readers>>

ztl_spinlock(t) == lpc[t] = "wait_spin" /\ spin = 0 /\ spin' = 1 /\ LGoto(t, "spin") /\ UNCHANGED <<rw, readers>>
ztl_trylock(t) == lpc[t] = "out" /\ spin = 0 /\ spin' = 1 /\ LGoto(t, "spin") /\ UNCHANGED <<rw, readers>>
ztl_unlock(t) == lpc[t] = "spin" /\ spin' = 0 /\ LGoto(t, "out") /\ UNCHANGED <<rw, readers>>

ztl_rwlock_wlock(t) ==
  /\ lpc[t] = "wait_write" /\ rw = 0
  /\ rw' = ZTL_RWLOCK_WLOCK
  /\ LGoto(t, "write") /\ UNCHANGED <<spin, readers>>

\* readers = *lock; a writer's value is read again.
RLockRead(t) ==
  /\ lpc[t] = "read_lock" /\ rw # ZTL_RWLOCK_WLOCK
  /\ readers' = [readers EXCEPT ![t] = rw]
  /\ LGoto(t, "cas_lock") /\ UNCHANGED <<spin, rw>>

\* A broken variant: the count is stored without comparing.
RLockCas_Store(t) ==
  /\ lpc[t] = "cas_lock"
  /\ rw' = readers[t] + 1 /\ LGoto(t, "read")
  /\ UNCHANGED <<spin, readers>>

RLockCas(t) ==
  /\ lpc[t] = "cas_lock"
  /\ IF rw = readers[t] THEN rw' = rw + 1 /\ LGoto(t, "read")
                        ELSE rw' = rw /\ LGoto(t, "read_lock")
  /\ UNCHANGED <<spin, readers>>

UnlockRead(t) ==
  /\ lpc[t] = "read_unlock"
  /\ readers' = [readers EXCEPT ![t] = rw]
  /\ IF rw = ZTL_RWLOCK_WLOCK THEN rw' = 0 /\ LGoto(t, "out")
                              ELSE rw' = rw /\ LGoto(t, "cas_unlock")
  /\ UNCHANGED spin

\* A failed CAS reads the word again, without looking for a writer.
UnlockCas(t) ==
  /\ lpc[t] = "cas_unlock"
  /\ IF rw = readers[t]
     THEN rw' = rw - 1 /\ LGoto(t, "out") /\ UNCHANGED readers
     ELSE readers' = [readers EXCEPT ![t] = rw] /\ UNCHANGED <<rw, lpc>>
  /\ UNCHANGED spin

\* The critical section ends with the call of ztl_rwlock_unlock.
RwUnlock(t) == lpc[t] \in {"write", "read"} /\ LGoto(t, "read_unlock") /\ UNCHANGED <<spin, rw, readers>>

LockNext == \E t \in LockThreads :
  \/ \E l \in {"wait_spin", "wait_write", "read_lock"} : LCall(t, l)
  \/ ztl_spinlock(t) \/ ztl_trylock(t) \/ ztl_unlock(t)
  \/ ztl_rwlock_wlock(t) \/ RLockRead(t) \/ RLockCas(t)
  \/ RwUnlock(t) \/ UnlockRead(t) \/ UnlockCas(t)

LockSpec == LockInit /\ [][LockNext]_lockVars

(* One thread at most has the spin lock; a writer is alone, however its    *)
(* lock and unlock interleave with the CAS loops of readers; and when      *)
(* nobody has the lock its word is 0 again, so that no unlock is lost.     *)
LockExclusion ==
  /\ Cardinality(LAt("spin")) = spin
  /\ LAt("write") # {} => Cardinality(LAt("write")) = 1 /\ LAt("read") = {}
  /\ lpc \in [LockThreads -> {"out", "wait_spin", "wait_write", "read_lock", "cas_lock", "spin"}] => rw = 0
=============================================================================
