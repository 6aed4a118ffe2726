------------------------------- MODULE LFQueue -------------------------------
(***************************************************************************)
(* lockfreequeue.c: a bounded queue in a circular array, shared by any     *)
(* number of producers and consumers that synchronise only by compare-and- *)
(* swap on three indices (wtindex, maxreadindex, rdindex).                 *)
(*                                                                         *)
(* One step is one access to shared memory.  An element copy is two steps  *)
(* on the writing side (Torn, then the value), so that a reader that races *)
(* with it is seen to.  The indices live in memory that may be shared by   *)
(* processes (lfqueue_create_at_mem), so a thread may Crash at any point   *)
(* and come back to the same indices.                                      *)
(*                                                                         *)
(* enq, deq, commits, gw, gr, lapW and lapR are history variables: what    *)
(* was reserved, delivered and committed so far, what those counts were    *)
(* when a thread read an index, and whether a CAS ever succeeded on an     *)
(* index that had gone once around the array since it was read.            *)
(***************************************************************************)
EXTENDS Integers, Sequences

CONSTANTS Producers,  \* threads that call lfqueue_push
          Consumers,  \* threads that call lfqueue_pop, lfqueue_head, lfqueue_size
          Size,       \* quesize
          MaxPush,    \* bound: calls of lfqueue_push
          MaxCrash    \* bound: threads that die inside an operation

ASSUME SizeAssumption == Size \in Nat \ {0}
ASSUME ThreadsAssumption == Producers \cap Consumers = {}
ASSUME BoundsAssumption == MaxPush \in Nat /\ MaxCrash \in Nat

VARIABLES rdindex, wtindex, maxreadindex, arrdata,
          pc,       \* where each thread is
          cw, cr,   \* curWriteIndex, curReadIndex of each thread
          data,     \* *pdata of each thread
          gw, gr,   \* Len(enq), Len(deq) when cw, cr were read
          calls, crashes,
          enq, deq, commits, lapW, lapR

shared == <<rdindex, wtindex, maxreadindex, arrdata>>
locals == <<cw, cr, data, gw, gr>>
bounds == <<calls, crashes>>
history == <<enq, deq, commits, lapW, lapR>>
vars   == <<rdindex, wtindex, maxreadindex, arrdata, pc, cw, cr, data, gw, gr,
            calls, crashes, enq, deq, commits, lapW, lapR>>

Threads == Producers \cup Consumers
Slots   == 0 .. Size - 1
Unset   == 0     \* memory nobody wrote yet
Torn    == -1    \* a half-copied element
Item    == 1 .. MaxPush   \* an item is the number of the call that pushed it

ProducerLabel == {"idle", "push_w", "push_r", "push_cas",
                  "push_copy", "push_copied", "push_commit"}
ConsumerLabel == {"idle", "pop_r", "pop_max", "pop_copy", "pop_cas",
                  "head_max", "head_copy", "size_r"}

-----------------------------------------------------------------------------
(* Index arithmetic *)

\* Variant: the wrap-around comparison is off by one.
TO_INDEX_OffByOne(idx) == IF idx <= Size THEN idx ELSE idx - Size

TO_INDEX(idx) == IF idx < Size THEN idx ELSE idx - Size

lfqueue_size(w, r) == IF w >= r THEN w - r ELSE Size + w - r

\* The slot of the i-th item from the head of the queue, the head being 0.
SlotFromHead(i) == TO_INDEX(rdindex + i)

-----------------------------------------------------------------------------
Init ==
    /\ rdindex = 0
    /\ wtindex = 0
    /\ maxreadindex = 0
    /\ arrdata = [s \in Slots |-> Unset]
    /\ pc = [t \in Threads |-> "idle"]
    /\ cw = [t \in Threads |-> 0]
    /\ cr = [t \in Threads |-> 0]
    /\ data = [t \in Threads |-> Unset]
    /\ calls = 0
    /\ crashes = 0
    /\ enq = <<>>
    /\ deq = <<>>
    /\ commits = 0
    /\ gw = [t \in Threads |-> 0]
    /\ gr = [t \in Threads |-> 0]
    /\ lapW = FALSE
    /\ lapR = FALSE

Goto(t, label) == pc' = [pc EXCEPT ![t] = label]

\* The operation is over, and its locals with it ...
Leave(t) ==
    /\ Goto(t, "idle")
    /\ cw' = [cw EXCEPT ![t] = 0]
    /\ cr' = [cr EXCEPT ![t] = 0]
    /\ gw' = [gw EXCEPT ![t] = 0]
    /\ gr' = [gr EXCEPT ![t] = 0]

\* ... and what *pdata holds has gone where it belongs.
Return(t) ==
    /\ Leave(t)
    /\ data' = [data EXCEPT ![t] = Unset]

(* lfqueue_push *)

ReadWt(t) ==
    /\ cw' = [cw EXCEPT ![t] = wtindex]
    /\ gw' = [gw EXCEPT ![t] = Len(enq)]
    /\ UNCHANGED <<shared, cr, crashes, history, gr>>

\* Variant: wtindex is not read afresh for a new call.
PushCall_StaleIndex(p) ==
    /\ pc[p] = "idle"
    /\ calls < MaxPush
    /\ calls' = calls + 1
    /\ data' = [data EXCEPT ![p] = calls + 1]
    /\ Goto(p, "push_r")
    /\ UNCHANGED <<shared, cw, cr, gw, gr, crashes, history>>

PushCall(p) ==
    /\ pc[p] = "idle"
    /\ calls < MaxPush
    /\ calls' = calls + 1
    /\ data' = [data EXCEPT ![p] = calls + 1]
    /\ ReadWt(p)
    /\ Goto(p, "push_r")

PushRetry(p) ==
    /\ pc[p] = "push_w"
    /\ ReadWt(p)
    /\ Goto(p, "push_r")
    /\ UNCHANGED <<data, calls>>

\* The full check returns -1.
PushFull(p) ==
    /\ pc[p] = "push_r"
    /\ TO_INDEX(cw[p] + 1) = rdindex
    /\ Return(p)
    /\ UNCHANGED <<shared, bounds, history>>

\* Variant: without the full check.
PushReadRd_NoFullCheck(p) ==
    /\ pc[p] = "push_r"
    /\ cr' = [cr EXCEPT ![p] = rdindex]
    /\ gr' = [gr EXCEPT ![p] = Len(deq)]
    /\ Goto(p, "push_cas")
    /\ UNCHANGED <<shared, cw, data, gw, bounds, history>>

PushReadRd(p) ==
    /\ pc[p] = "push_r"
    /\ TO_INDEX(cw[p] + 1) # rdindex
    /\ cr' = [cr EXCEPT ![p] = rdindex]
    /\ gr' = [gr EXCEPT ![p] = Len(deq)]
    /\ Goto(p, "push_cas")
    /\ UNCHANGED <<shared, cw, data, gw, bounds, history>>

PushCasOk(p) ==
    /\ pc[p] = "push_cas"
    /\ wtindex = cw[p]
    /\ wtindex' = TO_INDEX(cw[p] + 1)
    /\ enq' = Append(enq, data[p])
    /\ lapW' = (lapW \/ gw[p] # Len(enq))
    /\ Goto(p, "push_copy")
    /\ UNCHANGED <<rdindex, maxreadindex, arrdata, locals, bounds,
                   deq, commits, lapR>>

PushCasFail(p) ==
    /\ pc[p] = "push_cas"
    /\ wtindex # cw[p]
    /\ Goto(p, "push_w")
    /\ UNCHANGED <<shared, locals, bounds, history>>

\* Variant: the place is committed before the copy is complete.
PushCopyBegin_Early(p) ==
    /\ pc[p] = "push_copy"
    /\ arrdata' = [arrdata EXCEPT ![cw[p]] = Torn]
    /\ Goto(p, "push_commit")
    /\ UNCHANGED <<rdindex, wtindex, maxreadindex, locals, bounds, history>>

PushCopyBegin(p) ==
    /\ pc[p] = "push_copy"
    /\ arrdata' = [arrdata EXCEPT ![cw[p]] = Torn]
    /\ Goto(p, "push_copied")
    /\ UNCHANGED <<rdindex, wtindex, maxreadindex, locals, bounds, history>>

PushCopyEnd(p) ==
    /\ pc[p] = "push_copied"
    /\ arrdata' = [arrdata EXCEPT ![cw[p]] = data[p]]
    /\ Goto(p, "push_commit")
    /\ UNCHANGED <<rdindex, wtindex, maxreadindex, locals, bounds, history>>

\* Variant: maxreadindex is stored, not compared and swapped.
PushCommit_Unordered(p) ==
    /\ pc[p] = "push_commit"
    /\ maxreadindex' = TO_INDEX(cw[p] + 1)
    /\ commits' = commits + 1
    /\ Return(p)
    /\ UNCHANGED <<rdindex, wtindex, arrdata, bounds, enq, deq, lapW, lapR>>

\* Variant: the CAS is tried once and its failure ignored.
PushCommit_Once(p) ==
    /\ pc[p] = "push_commit"
    /\ Return(p)
    /\ UNCHANGED <<shared, bounds, history>>

\* A failing CAS here changes nothing: the thread yields and tries again.
PushCommit(p) ==
    /\ pc[p] = "push_commit"
    /\ maxreadindex = cw[p]
    /\ maxreadindex' = TO_INDEX(cw[p] + 1)
    /\ commits' = commits + 1
    /\ Return(p)
    /\ UNCHANGED <<rdindex, wtindex, arrdata, bounds, enq, deq, lapW, lapR>>

(* lfqueue_pop *)

ReadRd(c) ==
    /\ cr' = [cr EXCEPT ![c] = rdindex]
    /\ gr' = [gr EXCEPT ![c] = Len(deq)]
    /\ UNCHANGED <<shared, cw, gw, bounds, history>>

\* A call comes with a *pdata of its own; a failed CAS leaves the copy in it.
PopReadRd(c) ==
    /\ \/ pc[c] = "idle" /\ data' = [data EXCEPT ![c] = Unset]
       \/ pc[c] = "pop_r" /\ UNCHANGED data
    /\ ReadRd(c)
    /\ Goto(c, "pop_max")

\* The empty check of lfqueue_pop and of lfqueue_head returns -1.  After a lost
\* CAS *pdata is the element that another consumer got, and stays so.
ReadEmpty(c) ==
    /\ pc[c] \in {"pop_max", "head_max"}
    /\ cr[c] = maxreadindex
    /\ Leave(c)
    /\ UNCHANGED <<shared, data, bounds, history>>

\* Variant: without the empty check.
PopReadMax_NoEmptyCheck(c) ==
    /\ pc[c] = "pop_max"
    /\ Goto(c, "pop_copy")
    /\ UNCHANGED <<shared, locals, bounds, history>>

PopReadMax(c) ==
    /\ pc[c] = "pop_max"
    /\ cr[c] # maxreadindex
    /\ Goto(c, "pop_copy")
    /\ UNCHANGED <<shared, locals, bounds, history>>

PopCopy(c) ==
    /\ pc[c] = "pop_copy"
    /\ data' = [data EXCEPT ![c] = arrdata[cr[c]]]
    /\ Goto(c, "pop_cas")
    /\ UNCHANGED <<shared, cw, cr, gw, gr, bounds, history>>

\* Variant: the read index stays where it was.
PopCasOk_NoAdvance(c) ==
    /\ pc[c] = "pop_cas"
    /\ rdindex = cr[c]
    /\ deq' = Append(deq, data[c])
    /\ Return(c)
    /\ UNCHANGED <<shared, bounds, enq, commits, lapW, lapR>>

PopCasOk(c) ==
    /\ pc[c] = "pop_cas"
    /\ rdindex = cr[c]
    /\ rdindex' = TO_INDEX(cr[c] + 1)
    /\ deq' = Append(deq, data[c])
    /\ lapR' = (lapR \/ gr[c] # Len(deq))
    /\ Return(c)
    /\ UNCHANGED <<wtindex, maxreadindex, arrdata, bounds, enq, commits, lapW>>

\* Variant: a lost race is not noticed.
PopCasFail_Delivers(c) ==
    /\ pc[c] = "pop_cas"
    /\ rdindex # cr[c]
    /\ deq' = Append(deq, data[c])
    /\ Return(c)
    /\ UNCHANGED <<shared, bounds, enq, commits, lapW, lapR>>

PopCasFail(c) ==
    /\ pc[c] = "pop_cas"
    /\ rdindex # cr[c]
    /\ Goto(c, "pop_r")
    /\ UNCHANGED <<shared, locals, bounds, history>>

(* lfqueue_head: lfqueue_pop without the CAS *)

HeadReadRd(c) ==
    /\ pc[c] = "idle"
    /\ data' = [data EXCEPT ![c] = Unset]
    /\ ReadRd(c)
    /\ Goto(c, "head_max")

HeadReadMax(c) ==
    /\ pc[c] = "head_max"
    /\ cr[c] # maxreadindex
    /\ Goto(c, "head_copy")
    /\ UNCHANGED <<shared, locals, bounds, history>>

\* The element copied out is arrdata[cr[c]].
HeadCopy(c) ==
    /\ pc[c] = "head_copy"
    /\ Return(c)
    /\ UNCHANGED <<shared, bounds, history>>

(* lfqueue_size: the result is lfqueue_size(cw[c], rdindex) *)

SizeReadWt(c) ==
    /\ pc[c] = "idle"
    /\ ReadWt(c)
    /\ Goto(c, "size_r")
    /\ UNCHANGED <<data, calls>>

SizeReadRd(c) ==
    /\ pc[c] = "size_r"
    /\ Return(c)
    /\ UNCHANGED <<shared, bounds, history>>

(* A process dies inside an operation and attaches to the same memory again:*)
(* lfqueue_create_at_mem keeps the indices it finds there.                  *)

Crash(t) ==
    /\ crashes < MaxCrash
    /\ pc[t] # "idle"
    /\ crashes' = crashes + 1
    /\ Return(t)
    /\ UNCHANGED <<shared, calls, history>>

-----------------------------------------------------------------------------
PushStep(p) ==
    \/ PushCall(p) \/ PushRetry(p) \/ PushFull(p) \/ PushReadRd(p)
    \/ PushCasOk(p) \/ PushCasFail(p)
    \/ PushCopyBegin(p) \/ PushCopyEnd(p) \/ PushCommit(p)

PopStep(c) ==
    \/ PopReadRd(c) \/ ReadEmpty(c) \/ PopReadMax(c) \/ PopCopy(c)
    \/ PopCasOk(c) \/ PopCasFail(c)

PeekStep(c) ==
    \/ HeadReadRd(c) \/ HeadReadMax(c) \/ HeadCopy(c)
    \/ SizeReadWt(c) \/ SizeReadRd(c)

Next ==
    \/ \E p \in Producers : PushStep(p)
    \/ \E c \in Consumers : PopStep(c) \/ PeekStep(c)
    \/ \E t \in Threads : Crash(t)

Spec == Init /\ [][Next]_vars

\* Threads inside an operation keep running, and a consumer pops again and again.
Fairness ==
    /\ \A p \in Producers : WF_vars(PushStep(p) /\ ~PushCall(p))
    /\ \A c \in Consumers : SF_vars(PopStep(c)) /\ WF_vars(PeekStep(c))

FairSpec == Spec /\ Fairness

-----------------------------------------------------------------------------
(* Properties *)

\* Type correctness: every index a thread holds is a slot of the array.
TypeOK ==
    /\ rdindex \in Slots /\ wtindex \in Slots /\ maxreadindex \in Slots
    /\ arrdata \in [Slots -> Item \cup {Unset, Torn}]
    /\ pc \in [Threads -> ProducerLabel \cup ConsumerLabel]
    /\ cw \in [Threads -> Slots]
    /\ cr \in [Threads -> Slots]
    /\ data \in [Threads -> Item \cup {Unset, Torn}]
    /\ calls \in 0 .. MaxPush /\ crashes \in Nat
    /\ enq \in Seq(Item \cup {Unset, Torn})
    /\ deq \in Seq(Item \cup {Unset, Torn})
    /\ commits \in Nat
    /\ gw \in [Threads -> Nat]
    /\ gr \in [Threads -> Nat]
    /\ lapW \in BOOLEAN /\ lapR \in BOOLEAN
    /\ \A p \in Producers : pc[p] \in ProducerLabel /\ data[p] \in Item \cup {Unset}
    /\ \A c \in Consumers : pc[c] \in ConsumerLabel

\* No CAS ever succeeded on an index that lapped the thread that read it.
Clean == ~lapW /\ ~lapR

\* lockfreequeue.h: the queue "supports multiple producers and multiple
\* consumers".  What readers get is what producers put, in order, each item
\* once, none half-copied.
ExactlyOnce ==
    /\ Len(deq) <= Len(enq)
    /\ \A i \in 1 .. Len(deq) : deq[i] = enq[i]

\* The same, as far as the code ensures it: until an index laps a stalled
\* thread.
ExactlyOnceWhileClean == Clean => ExactlyOnce

\* Where a producer that owns a slot is.
Owning == {"push_copy", "push_copied", "push_commit"}

\* Two producers never own one slot, and no producer writes into a slot whose
\* item can still be read.
SlotOwnership ==
    Clean =>
      \A p \in Producers :
        pc[p] \in Owning =>
          /\ \A i \in 0 .. commits - Len(deq) - 1 : SlotFromHead(i) # cw[p]
          /\ \A q \in Producers \ {p} : pc[q] \in Owning => cw[q] # cw[p]

(* The parts of the inductive invariant. *)

\* The indices stand for the counts of reserved, committed and delivered items.
Window ==
    /\ Len(deq) <= commits
    /\ commits <= Len(enq)
    /\ Len(enq) < Len(deq) + Size
    /\ lfqueue_size(wtindex, rdindex) = Len(enq) - Len(deq)
    /\ lfqueue_size(maxreadindex, rdindex) = commits - Len(deq)

\* Delivered items are the first ones reserved, and committed ones are in place.
Contents ==
    /\ \A i \in 1 .. Len(deq) : deq[i] = enq[i]
    /\ \A i \in 0 .. commits - Len(deq) - 1 :
         arrdata[SlotFromHead(i)] = enq[Len(deq) + i + 1]

\* A producer before its CAS: if no other producer moved wtindex since it was
\* read, its slot is the next one and the full check still stands.
BeforeCas(p) ==
    pc[p] \in {"push_r", "push_cas"} =>
      /\ gw[p] <= Len(enq)
      /\ gw[p] = Len(enq) => cw[p] = wtindex
      /\ pc[p] = "push_cas" =>
           /\ gr[p] <= Len(deq)
           /\ gw[p] = Len(enq) => gw[p] - gr[p] < Size - 1

\* A producer after its CAS owns one uncommitted place.
AfterCas(p) ==
    pc[p] \in Owning =>
      /\ commits <= gw[p]
      /\ gw[p] < Len(enq)
      /\ enq[gw[p] + 1] = data[p]
      /\ lfqueue_size(cw[p], rdindex) = gw[p] - Len(deq)
      /\ pc[p] = "push_commit" => arrdata[cw[p]] = data[p]

DistinctPlaces ==
    \A p, q \in Producers :
      pc[p] \in Owning /\ pc[q] \in Owning /\ p # q => gw[p] # gw[q]

\* A consumer: if no other consumer moved rdindex since it was read, what it
\* looks at is the head of the queue.
Reading(c) ==
    pc[c] \in {"pop_max", "pop_copy", "pop_cas", "head_max", "head_copy"} =>
      /\ gr[c] <= Len(deq)
      /\ gr[c] = Len(deq) =>
           /\ cr[c] = rdindex
           /\ pc[c] \in {"pop_copy", "pop_cas", "head_copy"} => Len(deq) < commits
           /\ pc[c] = "pop_cas" => data[c] = enq[Len(deq) + 1]

\* A pushed item is a whole element.
ItemsWhole ==
    /\ \A p \in Producers : pc[p] # "idle" => data[p] \in Item
    /\ \A i \in 1 .. Len(enq) : enq[i] \in Item

Parts ==
    /\ Window
    /\ Contents
    /\ \A p \in Producers : BeforeCas(p) /\ AfterCas(p)
    /\ DistinctPlaces
    /\ \A c \in Consumers : Reading(c)
    /\ ItemsWhole

\* The inductive invariant: as long as no index lapped a thread, the three
\* indices, the array and the threads are in step.
Inv == Clean => Parts

FQ == INSTANCE FifoQueue
        WITH Capacity  <- Size - 1,
             pending   <- SubSeq(enq, commits + 1, Len(enq)),
             ready     <- SubSeq(enq, Len(deq) + 1, commits),
             delivered <- deq

\* Every step until an index laps a stalled thread is a step of the abstract
\* queue: lfqueue_push reserves and commits, lfqueue_pop takes, all else is
\* invisible.
FifoWhileClean == [][Clean' => FQ!FifoNext \/ UNCHANGED FQ!fifoVars]_vars

(* With one thread on a side, nothing is conditional. *)

Single(S) == \A s, t \in S : s = t

\* With one producer the write index cannot lap its only writer, with one
\* consumer the read index cannot lap its only reader.
SingleNeverLapped ==
    /\ Single(Producers) => ~lapW
    /\ Single(Consumers) => ~lapR

\* lockfreequeue.h: lfqueue_push returns "other if the queue was full" and
\* lfqueue_pop "other if the queue was empty".  With one producer (consumer)
\* the early return is taken only on a queue that is full (has nothing
\* committed) at that moment.
TruthfulReturns ==
    Clean =>
      /\ Single(Producers) =>
           \A p \in Producers :
             pc[p] = "push_r" /\ TO_INDEX(cw[p] + 1) = rdindex =>
               Len(enq) = Len(deq) + Size - 1
      /\ Single(Consumers) =>
           \A c \in Consumers :
             pc[c] \in {"pop_max", "head_max"} /\ cr[c] = maxreadindex =>
               commits = Len(deq)

\* Called by the only consumer, lfqueue_head copies the next item to be popped
\* and lfqueue_size counts the items reserved when it read wtindex.
PeekExact ==
    Clean /\ Single(Consumers) =>
      \A c \in Consumers :
        /\ pc[c] = "head_copy" => arrdata[cr[c]] = enq[Len(deq) + 1]
        /\ pc[c] = "size_r" => lfqueue_size(cw[c], rdindex) = gw[c] - Len(deq)

\* With one producer and one consumer the queue is the abstract queue.
RefinesFifo == FQ!FifoSpec

\* Every item whose place was reserved is delivered, as long as the producer
\* runs on and the consumer keeps popping.
Delivered == \A n \in 1 .. MaxPush : Len(enq) >= n ~> Len(deq) >= n
=============================================================================
