---------------------------- MODULE LFQueueProofs ----------------------------
(***************************************************************************)
(* Proofs about LFQueue, for every array size, any sets of producers and   *)
(* consumers and any number of pushes and crashes; last, that it           *)
(* implements FifoQueue.                                                   *)
(***************************************************************************)
EXTENDS LFQueue, SequenceTheorems, TLAPS

\* Stepping an index forward stays in the array.
LEMMA NextSlot ==
    ASSUME NEW i \in Slots
    PROVE  TO_INDEX(i + 1) \in Slots
  BY SizeAssumption DEF Slots, TO_INDEX

-----------------------------------------------------------------------------
\* One step of any thread keeps the types.
LEMMA TypeStep == TypeOK /\ [Next]_vars => TypeOK'
<1> SUFFICES ASSUME TypeOK, [Next]_vars PROVE TypeOK'
  OBVIOUS
<1> USE SizeAssumption, ThreadsAssumption, BoundsAssumption
    DEF TypeOK, Threads, ProducerLabel, ConsumerLabel
<1> DEFINE Val == Item \cup {Unset, Torn}
<1>0. 0 \in Slots
  BY DEF Slots
<1>1. ASSUME NEW p \in Producers, PushStep(p) PROVE TypeOK'
  <2>1. CASE PushCall(p)
    <3>1. calls + 1 \in Item /\ calls' \in 0 .. MaxPush
      BY <2>1 DEF PushCall, Item
    <3> QED BY <2>1, <3>1 DEF PushCall, ReadWt, Goto, shared, history
  <2>2. CASE PushRetry(p)
    BY <2>2 DEF PushRetry, ReadWt, Goto, shared, history
  <2>3. CASE PushFull(p)
    BY <1>0, <2>3 DEF PushFull, Return, Leave, Goto, shared, bounds, history
  <2>4. CASE PushReadRd(p)
    BY <2>4 DEF PushReadRd, Goto, shared, bounds, history
  <2>5. CASE PushCasOk(p)
    <3>1. wtindex' \in Slots
      BY <2>5, NextSlot DEF PushCasOk
    <3>2. enq' \in Seq(Val)
      BY <2>5 DEF PushCasOk
    <3> QED BY <2>5, <3>1, <3>2 DEF PushCasOk, Goto, locals, bounds
  <2>6. CASE PushCasFail(p)
    BY <2>6 DEF PushCasFail, Goto, shared, locals, bounds, history
  <2>7. CASE PushCopyBegin(p)
    BY <2>7 DEF PushCopyBegin, Goto, locals, bounds, history
  <2>8. CASE PushCopyEnd(p)
    BY <2>8 DEF PushCopyEnd, Goto, locals, bounds, history
  <2>9. CASE PushCommit(p)
    <3>1. maxreadindex' \in Slots
      BY <2>9, NextSlot DEF PushCommit
    <3> QED BY <1>0, <2>9, <3>1 DEF PushCommit, Return, Leave, Goto, bounds
  <2> QED BY <1>1, <2>1, <2>2, <2>3, <2>4, <2>5, <2>6, <2>7, <2>8, <2>9 DEF PushStep
<1>2. ASSUME NEW c \in Consumers, PopStep(c) PROVE TypeOK'
  <2>1. CASE PopReadRd(c)
    BY <2>1 DEF PopReadRd, ReadRd, Goto, shared, bounds, history
  <2>2. CASE ReadEmpty(c)
    BY <1>0, <2>2 DEF ReadEmpty, Return, Leave, Goto, shared, bounds, history
  <2>3. CASE PopReadMax(c)
    BY <2>3 DEF PopReadMax, Goto, shared, locals, bounds, history
  <2>4. CASE PopCopy(c)
    BY <2>4 DEF PopCopy, Goto, shared, bounds, history
  <2>5. CASE PopCasOk(c)
    <3>1. rdindex' \in Slots
      BY <2>5, NextSlot DEF PopCasOk
    <3>2. deq' \in Seq(Val)
      BY <2>5 DEF PopCasOk
    <3> QED BY <1>0, <2>5, <3>1, <3>2 DEF PopCasOk, Return, Leave, Goto, bounds
  <2>6. CASE PopCasFail(c)
    BY <2>6 DEF PopCasFail, Goto, shared, locals, bounds, history
  <2> QED BY <1>2, <2>1, <2>2, <2>3, <2>4, <2>5, <2>6 DEF PopStep
<1>3. ASSUME NEW c \in Consumers, PeekStep(c) PROVE TypeOK'
  <2>1. CASE HeadReadRd(c)
    BY <2>1 DEF HeadReadRd, ReadRd, Goto, shared, bounds, history
  <2>2. CASE HeadReadMax(c)
    BY <2>2 DEF HeadReadMax, Goto, shared, locals, bounds, history
  <2>3. CASE HeadCopy(c)
    BY <1>0, <2>3 DEF HeadCopy, Return, Leave, Goto, shared, bounds, history
  <2>4. CASE SizeReadWt(c)
    BY <2>4 DEF SizeReadWt, ReadWt, Goto, shared, history
  <2>5. CASE SizeReadRd(c)
    BY <1>0, <2>5 DEF SizeReadRd, Return, Leave, Goto, shared, bounds, history
  <2> QED BY <1>3, <2>1, <2>2, <2>3, <2>4, <2>5 DEF PeekStep
<1>4. ASSUME NEW t \in Threads, Crash(t) PROVE TypeOK'
  BY <1>0, <1>4 DEF Crash, Return, Leave, Goto, shared, history
<1>5. CASE UNCHANGED vars
  BY <1>5 DEF vars
<1> QED BY <1>1, <1>2, <1>3, <1>4, <1>5 DEF Next

\* Every index a thread holds is a slot of the array, whatever the interleaving
\* of pushes, pops and crashes.
THEOREM TypeCorrect == Spec => []TypeOK
<1>1. Init => TypeOK
  BY SizeAssumption, BoundsAssumption
  DEF Init, TypeOK, Slots, Threads, ProducerLabel, ConsumerLabel
<1> QED BY <1>1, TypeStep, PTL DEF Spec

-----------------------------------------------------------------------------
(* Arithmetic of the circular array: positions relative to the head. *)

\* Two positions in one window over the array share a slot only if they are
\* the same position.
LEMMA SameSlotSamePlace ==
    ASSUME NEW r \in Slots, NEW a \in Slots, NEW b \in Slots
    PROVE  /\ lfqueue_size(a, r) \in Slots
           /\ lfqueue_size(a, r) = lfqueue_size(b, r) => a = b
           /\ TO_INDEX(r + lfqueue_size(a, r)) = a
  BY SizeAssumption DEF Slots, lfqueue_size, TO_INDEX

\* Moving an index that is not just behind the head adds one to its distance.
LEMMA Advance ==
    ASSUME NEW r \in Slots, NEW a \in Slots
    PROVE  /\ lfqueue_size(a, r) < Size - 1 =>
                lfqueue_size(TO_INDEX(a + 1), r) = lfqueue_size(a, r) + 1
           /\ lfqueue_size(a, r) = Size - 1 => TO_INDEX(a + 1) = r
  BY SizeAssumption DEF Slots, lfqueue_size, TO_INDEX

\* The full check: an index that is not just behind the head leaves a free slot.
LEMMA NotFull ==
    ASSUME NEW r \in Slots, NEW a \in Slots, TO_INDEX(a + 1) # r
    PROVE  lfqueue_size(a, r) \in 0 .. Size - 2
  BY SizeAssumption DEF Slots, lfqueue_size, TO_INDEX

\* Moving the head past an item takes one off every other distance.
LEMMA Retreat ==
    ASSUME NEW r \in Slots, NEW a \in Slots, a # r
    PROVE  lfqueue_size(a, TO_INDEX(r + 1)) = lfqueue_size(a, r) - 1
  BY SizeAssumption DEF Slots, lfqueue_size, TO_INDEX

\* Slots counted from the head.
LEMMA HeadSlots ==
    ASSUME NEW r \in Slots, NEW i \in Slots
    PROVE  /\ TO_INDEX(r + i) \in Slots
           /\ lfqueue_size(TO_INDEX(r + i), r) = i
           /\ i < Size - 1 => TO_INDEX(TO_INDEX(r + 1) + i) = TO_INDEX(r + (i + 1))
  BY SizeAssumption DEF Slots, lfqueue_size, TO_INDEX

-----------------------------------------------------------------------------
\* Once an index has lapped a thread, it stays so.
LEMMA CleanBack == TypeOK /\ [Next]_vars /\ Clean' => Clean
<1> SUFFICES ASSUME TypeOK, [Next]_vars, Clean' PROVE Clean
  OBVIOUS
<1> USE DEF TypeOK, Clean
<1>1. ASSUME NEW p \in Producers, PushStep(p) PROVE Clean
  BY <1>1 DEF PushStep, PushCall, PushRetry, PushFull, PushReadRd, PushCasOk, PushCasFail,
       PushCopyBegin, PushCopyEnd, PushCommit, ReadWt, history
<1>2. ASSUME NEW c \in Consumers, PopStep(c) \/ PeekStep(c) PROVE Clean
  BY <1>2 DEF PopStep, PeekStep, PopReadRd, ReadEmpty, PopReadMax, PopCopy, PopCasOk,
       PopCasFail, HeadReadRd, HeadReadMax, HeadCopy, SizeReadWt, SizeReadRd,
       ReadRd, ReadWt, history
<1>3. ASSUME NEW t \in Threads, Crash(t) PROVE Clean
  BY <1>3 DEF Crash, history
<1>4. CASE UNCHANGED vars
  BY <1>4 DEF vars
<1> QED BY <1>1, <1>2, <1>3, <1>4 DEF Next

\* A step that moves no index, writes no slot and changes no history keeps the
\* parts that speak of those alone.
LEMMA QuietStep ==
    ASSUME Parts, UNCHANGED <<shared, history>>
    PROVE  Window' /\ Contents'
  BY DEF Parts, Window, Contents, SlotFromHead, shared, history

\* A producer's step before it owns a slot.
LEMMA PushBeforeCas ==
    ASSUME TypeOK, Parts, NEW p \in Producers,
           PushCall(p) \/ PushRetry(p) \/ PushFull(p) \/ PushReadRd(p) \/ PushCasFail(p)
    PROVE  Parts'
<1> USE SizeAssumption, ThreadsAssumption DEF TypeOK, Threads
<1>1. UNCHANGED <<shared, history>>
  BY DEF PushCall, PushRetry, PushFull, PushReadRd, PushCasFail, ReadWt, shared, history
<1>2. /\ pc' = [pc EXCEPT ![p] = pc'[p]]
      /\ cw' = [cw EXCEPT ![p] = cw'[p]]
      /\ cr' = [cr EXCEPT ![p] = cr'[p]]
      /\ gw' = [gw EXCEPT ![p] = gw'[p]]
      /\ gr' = [gr EXCEPT ![p] = gr'[p]]
      /\ data' = [data EXCEPT ![p] = data'[p]]
      /\ pc[p] \notin Owning /\ pc'[p] \notin Owning
  BY DEF PushCall, PushRetry, PushFull, PushReadRd, PushCasFail, ReadWt, Return, Leave, Goto,
         locals, Owning
<1>3. Window' /\ Contents'
  BY <1>1, QuietStep
<1>4. BeforeCas(p)'
  <2>1. CASE PushReadRd(p)
    <3>1. gw[p] = Len(enq) => gw[p] - Len(deq) < Size - 1
      <4>1. lfqueue_size(cw[p], rdindex) \in 0 .. Size - 2
        <5>1. cw[p] \in Slots /\ rdindex \in Slots /\ TO_INDEX(cw[p] + 1) # rdindex
          BY <2>1 DEF PushReadRd
        <5> HIDE DEF TypeOK
        <5> QED BY <5>1, NotFull
      <4>2. gw[p] = Len(enq) => cw[p] = wtindex
        BY <2>1 DEF PushReadRd, Parts, BeforeCas
      <4>3. lfqueue_size(wtindex, rdindex) = Len(enq) - Len(deq)
        BY DEF Parts, Window
      <4> QED BY <4>1, <4>2, <4>3
    <3> QED BY <2>1, <3>1 DEF PushReadRd, Goto, Parts, BeforeCas, shared, history
  <2>2. CASE ~PushReadRd(p)
    BY <2>2 DEF PushCall, PushRetry, PushFull, PushCasFail, ReadWt, Return, Leave, Goto, BeforeCas,
                shared, history
  <2> QED BY <2>1, <2>2
<1>5. ASSUME NEW q \in Producers PROVE BeforeCas(q)' /\ AfterCas(q)'
  BY <1>1, <1>2, <1>4 DEF Parts, BeforeCas, AfterCas, shared, history
<1>6. DistinctPlaces'
  BY <1>2 DEF Parts, DistinctPlaces
<1>7. ASSUME NEW c \in Consumers PROVE Reading(c)'
  BY <1>1, <1>2 DEF Parts, Reading, shared, history
<1>8. ItemsWhole'
  <2>1. pc'[p] # "idle" => data'[p] \in Item
    <3>1. CASE PushCall(p)
      BY <3>1, BoundsAssumption DEF PushCall, Item
    <3>2. CASE ~PushCall(p)
      BY <3>2 DEF Parts, ItemsWhole, PushRetry, PushFull, PushReadRd, PushCasFail,
                  Return, Leave, Goto, locals
    <3> QED BY <3>1, <3>2
  <2> QED BY <1>1, <1>2, <2>1 DEF Parts, ItemsWhole, history
<1> QED BY <1>3, <1>5, <1>6, <1>7, <1>8 DEF Parts

\* What a producer owns is neither readable nor owned by another producer.
LEMMA OwnedSlots ==
    ASSUME TypeOK, Parts, NEW p \in Producers, pc[p] \in Owning
    PROVE  /\ \A i \in 0 .. commits - Len(deq) - 1 :
                SlotFromHead(i) \in Slots /\ SlotFromHead(i) # cw[p]
           /\ \A q \in Producers \ {p} : pc[q] \in Owning => cw[q] # cw[p]
<1> USE SizeAssumption DEF TypeOK, Threads
<1>1. /\ commits \in Nat /\ Len(deq) \in Nat /\ Len(enq) \in Nat
      /\ Len(deq) <= commits /\ commits <= Len(enq) /\ Len(enq) < Len(deq) + Size
  BY DEF Parts, Window
<1>2. /\ gw[p] \in Nat /\ commits <= gw[p]
      /\ lfqueue_size(cw[p], rdindex) = gw[p] - Len(deq)
  BY DEF Parts, AfterCas
<1>3. ASSUME NEW i \in 0 .. commits - Len(deq) - 1
      PROVE  SlotFromHead(i) \in Slots /\ SlotFromHead(i) # cw[p]
  <2>1. i \in Slots
    BY <1>1 DEF Slots
  <2>2. lfqueue_size(SlotFromHead(i), rdindex) = i /\ SlotFromHead(i) \in Slots
    BY <2>1, HeadSlots DEF SlotFromHead
  <2> QED BY <1>1, <1>2, <2>2
<1>4. ASSUME NEW q \in Producers \ {p}, pc[q] \in Owning PROVE cw[q] # cw[p]
  <2>1. gw[q] # gw[p] /\ lfqueue_size(cw[q], rdindex) = gw[q] - Len(deq) /\ gw[q] \in Nat
    BY <1>4 DEF Parts, DistinctPlaces, AfterCas
  <2> QED BY <1>1, <1>2, <2>1
<1> QED BY <1>3, <1>4

\* The CAS that reserves a place.
LEMMA PushReserves ==
    ASSUME TypeOK, Parts, NEW p \in Producers, PushCasOk(p), gw[p] = Len(enq)
    PROVE  Parts'
<1> USE SizeAssumption, ThreadsAssumption DEF TypeOK, Threads
<1>1. /\ cw[p] = wtindex /\ wtindex' = TO_INDEX(wtindex + 1)
      /\ enq' = Append(enq, data[p]) /\ data[p] \in Item
      /\ pc' = [pc EXCEPT ![p] = "push_copy"] /\ pc[p] = "push_cas"
      /\ UNCHANGED <<rdindex, maxreadindex, arrdata, cw, cr, data, gw, gr, deq, commits>>
  BY DEF PushCasOk, Goto, locals, Parts, ItemsWhole
<1>2. /\ Len(enq) \in Nat /\ Len(deq) \in Nat /\ Len(enq') = Len(enq) + 1
      /\ \A i \in 1 .. Len(enq) : enq'[i] = enq[i]
      /\ enq'[Len(enq) + 1] = data[p]
  BY <1>1
<1>3. /\ Len(deq) <= commits /\ commits <= Len(enq)
      /\ lfqueue_size(wtindex, rdindex) = Len(enq) - Len(deq)
      /\ lfqueue_size(maxreadindex, rdindex) = commits - Len(deq)
      /\ Len(enq) - Len(deq) < Size - 1
  BY <1>1 DEF Parts, Window, BeforeCas
<1>4. lfqueue_size(wtindex', rdindex) = Len(enq) - Len(deq) + 1
  BY <1>1, <1>3, Advance
<1>5. Window'
  BY <1>1, <1>2, <1>3, <1>4 DEF Window, lfqueue_size
<1>6. Contents'
  <2>1. ASSUME NEW i \in 1 .. Len(deq) PROVE deq[i] = enq'[i]
    <3>1. i \in 1 .. Len(enq) /\ deq[i] = enq[i]
      BY <1>2, <1>3 DEF Parts, Contents
    <3> HIDE DEF TypeOK
    <3> QED BY <1>2, <3>1
  <2>2. \A i \in 0 .. commits - Len(deq) - 1 :
          arrdata[SlotFromHead(i)] = enq'[Len(deq) + i + 1]
    BY <1>2, <1>3 DEF Parts, Contents
  <2> QED BY <1>1, <2>1, <2>2 DEF Contents, SlotFromHead
<1>7. ASSUME NEW q \in Producers PROVE BeforeCas(q)'
  BY <1>1, <1>2 DEF Parts, BeforeCas
<1>8. ASSUME NEW q \in Producers PROVE AfterCas(q)'
  <2>1. CASE q = p
    <3>1. /\ cw'[p] = wtindex /\ gw'[p] = Len(enq) /\ data'[p] = data[p]
          /\ pc'[p] = "push_copy" /\ rdindex' = rdindex
      BY <1>1
    <3>2. lfqueue_size(cw[p], rdindex)' = lfqueue_size(wtindex, rdindex)
      BY <3>1 DEF lfqueue_size
    <3>3. commits' <= gw'[p] /\ gw'[p] < Len(enq') /\ Len(deq') = Len(deq)
      BY <1>1, <1>2, <1>3, <3>1
    <3>4. enq'[gw'[p] + 1] = data'[p]
      BY <1>2, <3>1
    <3>5. AfterCas(p)'
      BY <1>3, <3>1, <3>2, <3>3, <3>4 DEF AfterCas
    <3> QED BY <2>1, <3>5
  <2>2. CASE q # p
    BY <1>1, <1>2, <1>3, <2>2 DEF Parts, AfterCas, Owning, lfqueue_size
  <2> QED BY <2>1, <2>2
<1>9. DistinctPlaces'
  BY <1>1 DEF Parts, DistinctPlaces, AfterCas, Owning
<1>10. ASSUME NEW c \in Consumers PROVE Reading(c)'
  <2>1. c # p
    OBVIOUS
  <2> QED BY <1>1, <1>2, <1>3, <2>1 DEF Parts, Reading
<1>11. ItemsWhole'
  BY <1>1, <1>2 DEF Parts, ItemsWhole
<1> QED BY <1>5, <1>6, <1>7, <1>8, <1>9, <1>10, <1>11 DEF Parts

\* Copying the element into the slot that was reserved.
LEMMA PushCopies ==
    ASSUME TypeOK, Parts, NEW p \in Producers, PushCopyBegin(p) \/ PushCopyEnd(p)
    PROVE  Parts'
<1> USE SizeAssumption, ThreadsAssumption DEF TypeOK, Threads
<1>1. /\ UNCHANGED <<rdindex, wtindex, maxreadindex, cw, cr, data, gw, gr, enq, deq, commits>>
      /\ arrdata' = [arrdata EXCEPT ![cw[p]] = arrdata'[cw[p]]]
      /\ pc' = [pc EXCEPT ![p] = pc'[p]]
      /\ pc[p] \in Owning /\ pc'[p] \in {"push_copied", "push_commit"}
      /\ pc'[p] = "push_commit" => arrdata'[cw[p]] = data[p]
  BY DEF PushCopyBegin, PushCopyEnd, Goto, locals, history, Owning
<1>2. Window'
  BY <1>1 DEF Parts, Window, lfqueue_size
<1>3. Contents'
  <2>1. \A i \in 0 .. commits - Len(deq) - 1 : arrdata'[SlotFromHead(i)] = arrdata[SlotFromHead(i)]
    BY <1>1, OwnedSlots
  <2> QED BY <1>1, <2>1 DEF Parts, Contents, SlotFromHead
<1>4. ASSUME NEW q \in Producers PROVE BeforeCas(q)' /\ AfterCas(q)'
  <2>1. CASE q = p
    BY <1>1, <2>1 DEF Parts, BeforeCas, AfterCas, Owning, lfqueue_size
  <2>2. CASE q # p
    <3>1. pc[q] = "push_commit" => arrdata'[cw[q]] = arrdata[cw[q]]
      BY <1>1, <2>2, OwnedSlots DEF Owning
    <3> QED BY <1>1, <2>2, <3>1 DEF Parts, BeforeCas, AfterCas, Owning, lfqueue_size
  <2> QED BY <2>1, <2>2
<1>5. DistinctPlaces'
  BY <1>1 DEF Parts, DistinctPlaces, Owning
<1>6. ASSUME NEW c \in Consumers PROVE Reading(c)'
  <2>1. c # p
    OBVIOUS
  <2> QED BY <1>1, <2>1 DEF Parts, Reading
<1>7. ItemsWhole'
  BY <1>1 DEF Parts, ItemsWhole, Owning
<1> QED BY <1>2, <1>3, <1>4, <1>5, <1>6, <1>7 DEF Parts

\* The CAS that makes a place readable: it is the oldest uncommitted one.
LEMMA PushCommits ==
    ASSUME TypeOK, Parts, NEW p \in Producers, PushCommit(p)
    PROVE  Parts'
<1> USE SizeAssumption, ThreadsAssumption DEF TypeOK, Threads
<1>1. /\ pc[p] = "push_commit" /\ maxreadindex = cw[p]
      /\ maxreadindex' = TO_INDEX(maxreadindex + 1) /\ commits' = commits + 1
      /\ pc' = [pc EXCEPT ![p] = "idle"]
      /\ \A t \in Threads \ {p} : /\ cw'[t] = cw[t] /\ cr'[t] = cr[t] /\ gw'[t] = gw[t]
                                  /\ gr'[t] = gr[t] /\ data'[t] = data[t]
      /\ UNCHANGED <<rdindex, wtindex, arrdata, enq, deq>>
  BY DEF PushCommit, Return, Leave, Goto
<1>2. /\ Len(enq) \in Nat /\ Len(deq) \in Nat /\ commits \in Nat /\ gw[p] \in Nat
      /\ Len(deq) <= commits /\ commits <= Len(enq) /\ Len(enq) < Len(deq) + Size
      /\ lfqueue_size(wtindex, rdindex) = Len(enq) - Len(deq)
      /\ lfqueue_size(maxreadindex, rdindex) = commits - Len(deq)
  BY DEF Parts, Window
<1>3. /\ gw[p] < Len(enq) /\ enq[gw[p] + 1] = data[p] /\ arrdata[cw[p]] = data[p]
      /\ lfqueue_size(cw[p], rdindex) = gw[p] - Len(deq)
  BY <1>1 DEF Parts, AfterCas, Owning
<1>4. gw[p] = commits
  BY <1>1, <1>2, <1>3
<1>5. lfqueue_size(maxreadindex', rdindex) = commits - Len(deq) + 1
  BY <1>1, <1>2, <1>3, <1>4, Advance
<1>6. Window'
  BY <1>1, <1>2, <1>3, <1>4, <1>5 DEF Window, lfqueue_size
<1>7. Contents'
  <2>1. TO_INDEX(rdindex + (commits - Len(deq))) = maxreadindex
    BY <1>2, SameSlotSamePlace
  <2>2. ASSUME NEW i \in 0 .. commits - Len(deq)
        PROVE  arrdata[TO_INDEX(rdindex + i)] = enq[Len(deq) + i + 1]
    <3>1. CASE i = commits - Len(deq)
      BY <1>1, <1>2, <1>3, <1>4, <2>1, <3>1
    <3>2. CASE i \in 0 .. commits - Len(deq) - 1
      BY <3>2 DEF Parts, Contents, SlotFromHead
    <3>3. \A n \in Nat : i \in 0 .. n => i = n \/ i \in 0 .. n - 1
      OBVIOUS
    <3>4. commits - Len(deq) \in Nat
      BY <1>2
    <3> HIDE DEF TypeOK
    <3> QED BY <3>1, <3>2, <3>3, <3>4
  <2>3. commits' - Len(deq) - 1 = commits - Len(deq)
    BY <1>1, <1>2
  <2>4. \A i \in 1 .. Len(deq) : deq[i] = enq[i]
    BY DEF Parts, Contents
  <2>5. \A i \in 0 .. commits' - Len(deq) - 1 :
          arrdata[TO_INDEX(rdindex + i)] = enq[Len(deq) + i + 1]
    BY <2>2, <2>3
  <2> QED BY <1>1, <2>4, <2>5 DEF Contents, SlotFromHead, TO_INDEX
<1>8. ASSUME NEW q \in Producers PROVE BeforeCas(q)' /\ AfterCas(q)'
  <2>1. CASE q = p
    BY <1>1, <2>1 DEF BeforeCas, AfterCas, Owning
  <2>2. CASE q # p
    <3>1. pc[q] \in Owning => gw[q] # commits
      BY <1>1, <1>4, <2>2 DEF Parts, DistinctPlaces, Owning
    <3>2. BeforeCas(q)'
      BY <1>1, <2>2 DEF Parts, BeforeCas
    <3>3. pc[q] \in Owning => commits' <= gw[q]
      BY <1>1, <1>2, <3>1 DEF Parts, AfterCas
    <3>4. AfterCas(q)'
      BY <1>1, <2>2, <3>3 DEF Parts, AfterCas, lfqueue_size
    <3> QED BY <3>2, <3>4
  <2> QED BY <2>1, <2>2
<1>9. DistinctPlaces'
  BY <1>1 DEF Parts, DistinctPlaces, Owning
<1>10. ASSUME NEW c \in Consumers PROVE Reading(c)'
  <2>1. c # p
    OBVIOUS
  <2>2. /\ pc'[c] = pc[c] /\ gr'[c] = gr[c] /\ cr'[c] = cr[c] /\ data'[c] = data[c]
        /\ rdindex' = rdindex /\ deq' = deq /\ enq' = enq /\ commits' = commits + 1
    BY <1>1, <2>1
  <2>3. Reading(c) /\ Len(deq) \in Nat /\ commits \in Nat
    BY <1>2 DEF Parts
  <2> HIDE DEF TypeOK
  <2> QED BY <2>2, <2>3 DEF Reading
<1>11. ItemsWhole'
  BY <1>1 DEF Parts, ItemsWhole
<1> QED BY <1>6, <1>7, <1>8, <1>9, <1>10, <1>11 DEF Parts

\* The CAS that takes the head item.
LEMMA PopTakes ==
    ASSUME TypeOK, Parts, NEW c \in Consumers, PopCasOk(c), gr[c] = Len(deq)
    PROVE  Parts'
<1> USE SizeAssumption, ThreadsAssumption DEF TypeOK, Threads
<1>1. /\ pc[c] = "pop_cas" /\ rdindex' = TO_INDEX(rdindex + 1)
      /\ deq' = Append(deq, data[c])
      /\ pc' = [pc EXCEPT ![c] = "idle"]
      /\ \A t \in Threads \ {c} : /\ cw'[t] = cw[t] /\ cr'[t] = cr[t] /\ gw'[t] = gw[t]
                                  /\ gr'[t] = gr[t] /\ data'[t] = data[t]
      /\ UNCHANGED <<wtindex, maxreadindex, arrdata, enq, commits>>
  BY DEF PopCasOk, Return, Leave, Goto
<1>2. /\ Len(enq) \in Nat /\ Len(deq) \in Nat /\ commits \in Nat
      /\ Len(deq) < commits /\ commits <= Len(enq) /\ Len(enq) < Len(deq) + Size
      /\ lfqueue_size(wtindex, rdindex) = Len(enq) - Len(deq)
      /\ lfqueue_size(maxreadindex, rdindex) = commits - Len(deq)
      /\ data[c] = enq[Len(deq) + 1]
  BY <1>1 DEF Parts, Window, Reading
<1>3. /\ Len(deq') = Len(deq) + 1
      /\ \A i \in 1 .. Len(deq) : deq'[i] = deq[i]
      /\ deq'[Len(deq) + 1] = data[c]
  BY <1>1
<1>4. \A a \in Slots : lfqueue_size(a, rdindex) > 0 =>
         lfqueue_size(a, rdindex') = lfqueue_size(a, rdindex) - 1
  <2>1. ASSUME NEW a \in Slots, lfqueue_size(a, rdindex) > 0 PROVE a # rdindex
    BY <2>1 DEF lfqueue_size, Slots
  <2> QED BY <1>1, <2>1, Retreat
<1>5. Window'
  <2>1. /\ lfqueue_size(wtindex, rdindex') = Len(enq) - Len(deq')
        /\ lfqueue_size(maxreadindex, rdindex') = commits - Len(deq')
    <3>1. lfqueue_size(wtindex, rdindex) > 0 /\ lfqueue_size(maxreadindex, rdindex) > 0
      BY <1>2
    <3>2. /\ lfqueue_size(wtindex, rdindex') = lfqueue_size(wtindex, rdindex) - 1
          /\ lfqueue_size(maxreadindex, rdindex') = lfqueue_size(maxreadindex, rdindex) - 1
      BY <1>4, <3>1
    <3> QED BY <1>2, <1>3, <3>2
  <2> QED BY <1>1, <1>2, <1>3, <2>1 DEF Window, lfqueue_size
<1>6. Contents'
  <2>1. ASSUME NEW i \in 1 .. Len(deq') PROVE deq'[i] = enq[i]
    <3>1. CASE i = Len(deq) + 1
      BY <1>2, <1>3, <3>1
    <3>2. CASE i \in 1 .. Len(deq)
      BY <1>3, <3>2 DEF Parts, Contents
    <3> QED BY <1>2, <1>3, <3>1, <3>2
  <2>2. ASSUME NEW i \in 0 .. commits - Len(deq') - 1
        PROVE  arrdata[TO_INDEX(rdindex' + i)] = enq[Len(deq') + i + 1]
    <3>1. i \in Slots /\ i < Size - 1 /\ i + 1 \in 0 .. commits - Len(deq) - 1
      BY <1>2, <1>3 DEF Slots
    <3>2. TO_INDEX(rdindex' + i) = TO_INDEX(rdindex + (i + 1))
      BY <1>1, <3>1, HeadSlots
    <3>3. arrdata[TO_INDEX(rdindex + (i + 1))] = enq[Len(deq) + (i + 1) + 1]
      BY <3>1 DEF Parts, Contents, SlotFromHead
    <3>4. Len(deq) + (i + 1) + 1 = Len(deq') + i + 1
      BY <1>2, <1>3
    <3> QED BY <3>2, <3>3, <3>4
  <2> QED BY <1>1, <2>1, <2>2 DEF Contents, SlotFromHead, TO_INDEX
<1>7. ASSUME NEW q \in Producers PROVE BeforeCas(q)' /\ AfterCas(q)'
  <2>1. q # c
    OBVIOUS
  <2>2. BeforeCas(q)'
    BY <1>1, <1>2, <1>3, <2>1 DEF Parts, BeforeCas
  <2>3. AfterCas(q)'
    <3>1. pc[q] \in Owning => lfqueue_size(cw[q], rdindex') = gw[q] - Len(deq')
      <4> SUFFICES ASSUME pc[q] \in Owning
                   PROVE  lfqueue_size(cw[q], rdindex') = gw[q] - Len(deq')
        OBVIOUS
      <4>1. /\ lfqueue_size(cw[q], rdindex) = gw[q] - Len(deq)
            /\ commits <= gw[q] /\ gw[q] \in Nat /\ cw[q] \in Slots
        BY DEF Parts, AfterCas
      <4>2. lfqueue_size(cw[q], rdindex) > 0
        BY <1>2, <4>1
      <4>3. lfqueue_size(cw[q], rdindex') = lfqueue_size(cw[q], rdindex) - 1
        BY <1>4, <4>1, <4>2
      <4> QED BY <1>2, <1>3, <4>1, <4>3
    <3> QED BY <1>1, <2>1, <3>1 DEF Parts, AfterCas, lfqueue_size
  <2> QED BY <2>2, <2>3
<1>8. DistinctPlaces'
  BY <1>1 DEF Parts, DistinctPlaces
<1>9. ASSUME NEW d \in Consumers PROVE Reading(d)'
  <2>1. CASE d = c
    BY <1>1, <2>1 DEF Reading
  <2>2. CASE d # c
    BY <1>1, <1>2, <1>3, <2>2 DEF Parts, Reading
  <2> QED BY <2>1, <2>2
<1>10. ItemsWhole'
  BY <1>1 DEF Parts, ItemsWhole
<1> QED BY <1>5, <1>6, <1>7, <1>8, <1>9, <1>10 DEF Parts

\* Everything else a consumer does moves no index.
LEMMA ConsumerLooks ==
    ASSUME TypeOK, Parts, NEW c \in Consumers,
           \/ PopReadRd(c) \/ ReadEmpty(c) \/ PopReadMax(c) \/ PopCopy(c) \/ PopCasFail(c)
           \/ PeekStep(c)
    PROVE  Parts'
<1> USE SizeAssumption, ThreadsAssumption DEF TypeOK, Threads
<1>1. UNCHANGED <<shared, history>>
  BY DEF PopReadRd, ReadEmpty, PopReadMax, PopCopy, PopCasFail, PeekStep, HeadReadRd,
         HeadReadMax, HeadCopy, SizeReadWt, SizeReadRd, ReadRd, ReadWt, shared, history
<1>2. \A t \in Threads \ {c} : /\ pc'[t] = pc[t] /\ cw'[t] = cw[t] /\ cr'[t] = cr[t]
                              /\ gw'[t] = gw[t] /\ gr'[t] = gr[t] /\ data'[t] = data[t]
  BY DEF PopReadRd, ReadEmpty, PopReadMax, PopCopy, PopCasFail, PeekStep, HeadReadRd,
         HeadReadMax, HeadCopy, SizeReadWt, SizeReadRd, ReadRd, ReadWt, Return, Leave, Goto, locals
<1>3. Window' /\ Contents'
  BY <1>1, QuietStep
<1>4. ASSUME NEW q \in Producers PROVE BeforeCas(q)' /\ AfterCas(q)'
  <2>1. q # c
    OBVIOUS
  <2> QED BY <1>1, <1>2, <2>1 DEF Parts, BeforeCas, AfterCas, shared, history, lfqueue_size
<1>5. DistinctPlaces'
  BY <1>2 DEF Parts, DistinctPlaces
<1>6. ItemsWhole'
  BY <1>1, <1>2 DEF Parts, ItemsWhole, history
<1>7. Reading(c)'
  <2>1. CASE PopReadRd(c) \/ HeadReadRd(c)
    BY <2>1 DEF PopReadRd, HeadReadRd, ReadRd, Goto, Reading, shared, history
  <2>2. CASE ReadEmpty(c) \/ HeadCopy(c) \/ SizeReadWt(c) \/ SizeReadRd(c) \/ PopCasFail(c)
    BY <2>2 DEF ReadEmpty, HeadCopy, SizeReadWt, SizeReadRd, PopCasFail, Return, Leave, Goto, Reading
  <2>3. CASE PopReadMax(c) \/ HeadReadMax(c)
    <3>1. gr[c] = Len(deq) => Len(deq) < commits
      <4>1. cr[c] # maxreadindex /\ (gr[c] = Len(deq) => cr[c] = rdindex)
        BY <2>3 DEF PopReadMax, HeadReadMax, Parts, Reading
      <4>2. maxreadindex # rdindex => lfqueue_size(maxreadindex, rdindex) # 0
        BY DEF lfqueue_size, Slots
      <4> QED BY <4>1, <4>2 DEF Parts, Window
    <3> QED BY <2>3, <3>1 DEF PopReadMax, HeadReadMax, Goto, Parts, Reading,
                              shared, locals, history
  <2>4. CASE PopCopy(c)
    <3>1. gr[c] <= Len(deq) /\ (gr[c] = Len(deq) => cr[c] = rdindex /\ Len(deq) < commits)
      BY <2>4 DEF PopCopy, Parts, Reading
    <3>2. Len(deq) < commits => arrdata[rdindex] = enq[Len(deq) + 1]
      <4>1. TO_INDEX(rdindex + 0) = rdindex /\ Len(deq) + 0 + 1 = Len(deq) + 1
        BY DEF TO_INDEX, Slots
      <4>2. Len(deq) < commits => 0 \in 0 .. commits - Len(deq) - 1
        OBVIOUS
      <4> QED BY <4>1, <4>2 DEF Parts, Contents, SlotFromHead
    <3> QED BY <2>4, <3>1, <3>2 DEF PopCopy, Goto, Reading, shared, history
  <2> QED BY <2>1, <2>2, <2>3, <2>4 DEF PeekStep
<1>8. ASSUME NEW d \in Consumers PROVE Reading(d)'
  <2>1. CASE d # c
    BY <1>1, <1>2, <2>1 DEF Parts, Reading, shared, history
  <2> QED BY <1>7, <2>1
<1> QED BY <1>3, <1>4, <1>5, <1>6, <1>8 DEF Parts

\* A thread that dies gives up its place; a reserved one stays reserved.
LEMMA CrashForgets ==
    ASSUME TypeOK, Parts, NEW t \in Threads, Crash(t)
    PROVE  Parts'
<1> USE SizeAssumption, ThreadsAssumption DEF TypeOK, Threads
<1>1. UNCHANGED <<shared, history>> /\ pc' = [pc EXCEPT ![t] = "idle"]
  BY DEF Crash, Return, Leave, Goto
<1>2. \A u \in Threads \ {t} : /\ pc'[u] = pc[u] /\ cw'[u] = cw[u] /\ cr'[u] = cr[u]
                              /\ gw'[u] = gw[u] /\ gr'[u] = gr[u] /\ data'[u] = data[u]
  BY DEF Crash, Return, Leave, Goto
<1>3. Window' /\ Contents'
  BY <1>1, QuietStep
<1>4. ASSUME NEW q \in Producers PROVE BeforeCas(q)' /\ AfterCas(q)'
  <2>1. CASE q = t
    BY <1>1, <2>1 DEF BeforeCas, AfterCas, Owning
  <2>2. CASE q # t
    BY <1>1, <1>2, <2>2 DEF Parts, BeforeCas, AfterCas, shared, history, lfqueue_size
  <2> QED BY <2>1, <2>2
<1>5. DistinctPlaces'
  BY <1>1, <1>2 DEF Parts, DistinctPlaces, Owning
<1>6. ASSUME NEW c \in Consumers PROVE Reading(c)'
  <2>1. CASE c = t
    BY <1>1, <2>1 DEF Reading
  <2>2. CASE c # t
    BY <1>1, <1>2, <2>2 DEF Parts, Reading, shared, history
  <2> QED BY <2>1, <2>2
<1>7. ItemsWhole'
  BY <1>1, <1>2 DEF Parts, ItemsWhole, history
<1> QED BY <1>3, <1>4, <1>5, <1>6, <1>7 DEF Parts

-----------------------------------------------------------------------------
\* A CAS that leaves the queue clean was made on an index nobody had moved.
LEMMA CleanCas ==
    ASSUME TypeOK, Clean'
    PROVE  /\ \A p \in Producers : PushCasOk(p) => gw[p] = Len(enq)
           /\ \A c \in Consumers : PopCasOk(c) => gr[c] = Len(deq)
  BY DEF TypeOK, Clean, PushCasOk, PopCasOk

\* One step of any thread keeps the inductive invariant.
LEMMA InvStep == TypeOK /\ Inv /\ [Next]_vars => Inv'
<1> SUFFICES ASSUME TypeOK, Inv, [Next]_vars, Clean' PROVE Parts'
  BY DEF Inv
<1>1. Parts
  BY CleanBack DEF Inv
<1>2. ASSUME NEW p \in Producers, PushStep(p) PROVE Parts'
  BY <1>1, <1>2, CleanCas, PushBeforeCas, PushReserves, PushCopies, PushCommits DEF PushStep
<1>3. ASSUME NEW c \in Consumers, PopStep(c) \/ PeekStep(c) PROVE Parts'
  BY <1>1, <1>3, CleanCas, ConsumerLooks, PopTakes DEF PopStep
<1>4. ASSUME NEW t \in Threads, Crash(t) PROVE Parts'
  BY <1>1, <1>4, CrashForgets
<1>5. CASE UNCHANGED vars
  BY <1>1, <1>5 DEF vars, Parts, Window, Contents, BeforeCas, AfterCas, DistinctPlaces, Reading,
                    ItemsWhole, SlotFromHead, lfqueue_size
<1> QED BY <1>2, <1>3, <1>4, <1>5 DEF Next

\* Until an index laps a stalled thread, the indices, the array and the threads
\* are in step: the argument behind every other theorem here.
THEOREM Invariance == Spec => []Inv
<1>1. Init => Inv
  <2> SUFFICES ASSUME Init PROVE Parts
    BY DEF Inv
  <2>1. Len(enq) = 0 /\ Len(deq) = 0 /\ commits = 0 /\ \A t \in Threads : pc[t] = "idle"
    BY DEF Init
  <2>2. Window
    <3>1. rdindex = 0 /\ wtindex = 0 /\ maxreadindex = 0
      BY DEF Init
    <3> QED BY <2>1, <3>1, SizeAssumption DEF Window, lfqueue_size
  <2>3. Contents
    BY <2>1 DEF Contents
  <2>4. /\ \A p \in Producers : BeforeCas(p) /\ AfterCas(p)
        /\ \A c \in Consumers : Reading(c)
        /\ DistinctPlaces /\ ItemsWhole
    BY <2>1 DEF Threads, BeforeCas, AfterCas, Reading, DistinctPlaces, ItemsWhole, Owning
  <2> QED BY <2>2, <2>3, <2>4 DEF Parts
<1> QED BY <1>1, InvStep, TypeCorrect, PTL DEF Spec

\* lfqueue_pop hands out what lfqueue_push put in, in order, each item once and
\* whole, until an index laps a stalled thread.
THEOREM FifoDelivery == Spec => []ExactlyOnceWhileClean
<1>1. TypeOK /\ Inv => ExactlyOnceWhileClean
  BY DEF TypeOK, Inv, Parts, Window, Contents, ExactlyOnceWhileClean, ExactlyOnce
<1> QED BY <1>1, Invariance, TypeCorrect, PTL

\* Until then a producer copies only into a slot that nobody else reads or writes.
THEOREM NoSharedSlot == Spec => []SlotOwnership
<1>1. TypeOK /\ Inv => SlotOwnership
  BY OwnedSlots DEF Inv, SlotOwnership
<1> QED BY <1>1, Invariance, TypeCorrect, PTL

-----------------------------------------------------------------------------
(* One producer, one consumer. *)

\* A thread that is alone on its side is the only one to move its index.
Alone ==
    /\ Single(Producers) =>
         ~lapW /\ \A p \in Producers : pc[p] \in {"push_r", "push_cas"} => gw[p] = Len(enq)
    /\ Single(Consumers) =>
         ~lapR /\ \A c \in Consumers :
                    pc[c] \in {"pop_max", "pop_copy", "pop_cas", "head_max", "head_copy"}
                      => gr[c] = Len(deq)

\* One step keeps what a lone producer or consumer knows of its index.
LEMMA AloneStep == TypeOK /\ Alone /\ [Next]_vars => Alone'
<1> SUFFICES ASSUME TypeOK, Alone, [Next]_vars PROVE Alone'
  OBVIOUS
<1> USE ThreadsAssumption DEF TypeOK, Threads, Alone, Single
<1>1. ASSUME NEW p \in Producers, PushStep(p) PROVE Alone'
  <2>1. CASE PushCall(p) \/ PushRetry(p)
    <3>1. /\ pc' = [pc EXCEPT ![p] = "push_r"] /\ UNCHANGED <<history, gr>>
          /\ gw' = [gw EXCEPT ![p] = Len(enq)]
      BY <2>1 DEF PushCall, PushRetry, ReadWt, Goto
    <3> QED BY <3>1 DEF history
  <2>2. CASE PushFull(p) \/ PushReadRd(p) \/ PushCasFail(p)
    <3>1. CASE PushFull(p)
      BY <3>1 DEF PushFull, Return, Leave, Goto, history
    <3>2. CASE PushReadRd(p)
      BY <3>2 DEF PushReadRd, Goto, history
    <3>3. CASE PushCasFail(p)
      BY <3>3 DEF PushCasFail, Goto, locals, history
    <3> QED BY <2>2, <3>1, <3>2, <3>3
  <2>3. CASE PushCasOk(p)
    BY <2>3 DEF PushCasOk, Goto, locals
  <2>4. CASE PushCopyBegin(p) \/ PushCopyEnd(p) \/ PushCommit(p)
    <3>1. /\ UNCHANGED <<enq, deq, lapW, lapR>>
          /\ \A t \in Threads : t # p => pc'[t] = pc[t] /\ gw'[t] = gw[t] /\ gr'[t] = gr[t]
          /\ pc'[p] \in {"push_copied", "push_commit", "idle"}
      BY <2>4 DEF PushCopyBegin, PushCopyEnd, PushCommit, Return, Leave, Goto, locals, history
    <3> QED BY <3>1
  <2> QED BY <1>1, <2>1, <2>2, <2>3, <2>4 DEF PushStep
<1>2. ASSUME NEW c \in Consumers, PopStep(c) \/ PeekStep(c) PROVE Alone'
  <2>1. CASE PopReadRd(c) \/ HeadReadRd(c)
    <3>1. /\ UNCHANGED <<enq, deq, lapW, lapR, gw>> /\ gr' = [gr EXCEPT ![c] = Len(deq)]
          /\ \/ pc' = [pc EXCEPT ![c] = "pop_max"]
             \/ pc' = [pc EXCEPT ![c] = "head_max"]
      BY <2>1 DEF PopReadRd, HeadReadRd, ReadRd, Goto, history
    <3> QED BY <3>1
  <2>2. CASE ReadEmpty(c) \/ HeadCopy(c) \/ SizeReadRd(c)
    <3>1. /\ pc' = [pc EXCEPT ![c] = "idle"] /\ UNCHANGED history
          /\ gr' = [gr EXCEPT ![c] = 0] /\ gw' = [gw EXCEPT ![c] = 0]
      BY <2>2 DEF ReadEmpty, HeadCopy, SizeReadRd, Return, Leave, Goto
    <3> QED BY <3>1 DEF history
  <2>3. CASE PopReadMax(c) \/ HeadReadMax(c) \/ PopCopy(c) \/ PopCasFail(c)
    <3>1. /\ UNCHANGED <<history, gw, gr>>
          /\ \/ pc[c] = "pop_max" /\ pc' = [pc EXCEPT ![c] = "pop_copy"]
             \/ pc[c] = "head_max" /\ pc' = [pc EXCEPT ![c] = "head_copy"]
             \/ pc[c] = "pop_copy" /\ pc' = [pc EXCEPT ![c] = "pop_cas"]
             \/ pc' = [pc EXCEPT ![c] = "pop_r"]
      BY <2>3 DEF PopReadMax, HeadReadMax, PopCopy, PopCasFail, Goto, locals
    <3> QED BY <3>1 DEF history
  <2>4. CASE PopCasOk(c)
    BY <2>4 DEF PopCasOk, Return, Leave, Goto
  <2>5. CASE SizeReadWt(c)
    BY <2>5 DEF SizeReadWt, ReadWt, Goto, history
  <2> QED BY <1>2, <2>1, <2>2, <2>3, <2>4, <2>5 DEF PopStep, PeekStep
<1>3. ASSUME NEW t \in Threads, Crash(t) PROVE Alone'
  BY <1>3 DEF Crash, Return, Leave, Goto, history
<1>4. CASE UNCHANGED vars
  BY <1>4 DEF vars
<1> QED BY <1>1, <1>2, <1>3, <1>4 DEF Next

\* A lone producer or consumer is never lapped.
LEMMA AloneInvariant == Spec => []Alone
<1>1. Init => Alone
  BY DEF Init, Alone, Threads
<1> QED BY <1>1, AloneStep, TypeCorrect, PTL DEF Spec

\* A single producer never has its reservation lapped, a single consumer never
\* its read.
THEOREM NeverLapped == Spec => []SingleNeverLapped
<1>1. Alone => SingleNeverLapped
  BY DEF Alone, SingleNeverLapped
<1> QED BY <1>1, AloneInvariant, PTL

\* With one producer and one consumer, delivery in order and exactly once is
\* unconditional, for every array size and every number of pushes and crashes.
THEOREM SingleDelivery ==
    ASSUME Single(Producers), Single(Consumers)
    PROVE  Spec => []ExactlyOnce
<1>1. SingleNeverLapped /\ ExactlyOnceWhileClean => ExactlyOnce
  BY DEF SingleNeverLapped, ExactlyOnceWhileClean, Clean
<1> QED BY <1>1, NeverLapped, FifoDelivery, PTL

\* The full check of a lone producer and the empty check of a lone consumer
\* speak of the queue as it is: nobody else moves the index it compares.
THEOREM ReturnsAreTruthful == Spec => []TruthfulReturns
<1>1. TypeOK /\ Inv /\ Alone => TruthfulReturns
  <2> SUFFICES ASSUME TypeOK, Parts, Alone
               PROVE  /\ Single(Producers) =>
                           \A p \in Producers : pc[p] = "push_r" /\ TO_INDEX(cw[p] + 1) = rdindex
                                                  => Len(enq) = Len(deq) + Size - 1
                      /\ Single(Consumers) =>
                           \A c \in Consumers : pc[c] \in {"pop_max", "head_max"} /\ cr[c] = maxreadindex
                                                  => commits = Len(deq)
    BY DEF Inv, TruthfulReturns
  <2>0. /\ rdindex \in Slots /\ wtindex \in Slots /\ maxreadindex \in Slots
        /\ Len(enq) \in Nat /\ Len(deq) \in Nat /\ commits \in Nat
    BY DEF TypeOK
  <2>1. ASSUME Single(Producers), NEW p \in Producers, pc[p] = "push_r", TO_INDEX(cw[p] + 1) = rdindex
        PROVE  Len(enq) = Len(deq) + Size - 1
    <3>1. cw[p] = wtindex
      BY <2>1 DEF Alone, Parts, BeforeCas
    <3>2. lfqueue_size(wtindex, rdindex) = Size - 1
      BY <2>0, <2>1, <3>1, SizeAssumption DEF lfqueue_size, TO_INDEX, Slots
    <3> QED BY <2>0, <3>2, SizeAssumption DEF Parts, Window
  <2>2. ASSUME Single(Consumers), NEW c \in Consumers, pc[c] \in {"pop_max", "head_max"}, cr[c] = maxreadindex
        PROVE  commits = Len(deq)
    <3>1. cr[c] = rdindex
      BY <2>2 DEF Alone, Parts, Reading
    <3>2. lfqueue_size(maxreadindex, rdindex) = 0
      BY <2>0, <2>2, <3>1 DEF lfqueue_size, Slots
    <3> QED BY <2>0, <3>2 DEF Parts, Window
  <2> QED BY <2>1, <2>2
<1> QED BY <1>1, Invariance, TypeCorrect, AloneInvariant, PTL

\* A lone consumer inside lfqueue_size: the head stays while it counts.
Counting ==
    Clean /\ Single(Consumers) =>
      \A c \in Consumers : pc[c] = "size_r" => lfqueue_size(cw[c], rdindex) = gw[c] - Len(deq)

\* No step of another thread disturbs the count.
LEMMA CountingStep == TypeOK /\ Inv /\ Counting /\ [Next]_vars => Counting'
<1> SUFFICES ASSUME TypeOK, Inv, Counting, [Next]_vars, Clean', Single(Consumers),
                    NEW c \in Consumers, pc'[c] = "size_r"
             PROVE  lfqueue_size(cw'[c], rdindex') = gw'[c] - Len(deq')
  BY DEF Counting, lfqueue_size, Single
<1>0. Clean
  BY CleanBack
<1>1. Window
  BY <1>0 DEF Inv, Parts
<1> USE ThreadsAssumption DEF TypeOK, Threads
<1>2. ASSUME UNCHANGED <<rdindex, deq>>, pc[c] = "size_r", cw'[c] = cw[c], gw'[c] = gw[c]
      PROVE  lfqueue_size(cw'[c], rdindex') = gw'[c] - Len(deq')
  BY <1>0, <1>2 DEF Counting, lfqueue_size
<1>3. ASSUME NEW p \in Producers, PushStep(p)
      PROVE  lfqueue_size(cw'[c], rdindex') = gw'[c] - Len(deq')
  <2>1. UNCHANGED <<rdindex, deq>> /\ pc'[c] = pc[c] /\ cw'[c] = cw[c] /\ gw'[c] = gw[c]
    <3>1. c # p
      OBVIOUS
    <3>2. UNCHANGED <<rdindex, deq>>
      BY <1>3 DEF PushStep, PushCall, PushRetry, PushFull, PushReadRd, PushCasOk, PushCasFail,
                  PushCopyBegin, PushCopyEnd, PushCommit, ReadWt, Return, Leave, Goto, shared, history
    <3> QED BY <1>3, <3>1, <3>2 DEF PushStep, PushCall, PushRetry, PushFull, PushReadRd, PushCasOk,
                  PushCasFail, PushCopyBegin, PushCopyEnd, PushCommit, ReadWt, Return, Leave, Goto, locals
  <2> QED BY <1>2, <2>1
<1>4. ASSUME NEW d \in Consumers, PopStep(d) \/ PeekStep(d)
      PROVE  lfqueue_size(cw'[c], rdindex') = gw'[c] - Len(deq')
  <2>1. d = c
    BY DEF Single
  <2>2. CASE SizeReadWt(c)
    BY <1>1, <2>2 DEF SizeReadWt, ReadWt, shared, history, Window
  <2>3. ~SizeReadWt(c) => pc'[c] # "size_r"
    BY <1>4, <2>1 DEF PopStep, PeekStep, PopReadRd, ReadEmpty, PopReadMax, PopCopy, PopCasOk, PopCasFail,
                      HeadReadRd, HeadReadMax, HeadCopy, SizeReadRd, Return, Leave, Goto
  <2> QED BY <2>2, <2>3
<1>5. ASSUME NEW t \in Threads, Crash(t)
      PROVE  lfqueue_size(cw'[c], rdindex') = gw'[c] - Len(deq')
  <2>1. c # t
    BY <1>5 DEF Crash, Return, Leave, Goto
  <2> QED BY <1>2, <1>5, <2>1 DEF Crash, Return, Leave, Goto, shared, history
<1>6. CASE UNCHANGED vars
  BY <1>2, <1>6 DEF vars
<1> QED BY <1>3, <1>4, <1>5, <1>6 DEF Next

\* Called by the only consumer, lfqueue_head copies the next item to be popped
\* and lfqueue_size counts what was reserved when it read wtindex.
THEOREM PeeksAreExact == Spec => []PeekExact
<1>1. Init => Counting
  BY DEF Init, Counting, Threads
<1>2. Spec => []Counting
  BY <1>1, CountingStep, TypeCorrect, Invariance, PTL DEF Spec
<1>3. TypeOK /\ Inv /\ Alone /\ Counting => PeekExact
  <2> SUFFICES ASSUME TypeOK, Parts, Alone, Single(Consumers), NEW c \in Consumers, pc[c] = "head_copy"
               PROVE  arrdata[cr[c]] = enq[Len(deq) + 1]
    BY DEF Inv, Counting, PeekExact
  <2>1. cr[c] = rdindex /\ Len(deq) < commits
    BY DEF Alone, Parts, Reading
  <2>2. TO_INDEX(rdindex + 0) = rdindex /\ Len(deq) + 0 + 1 = Len(deq) + 1
    BY SizeAssumption DEF TypeOK, TO_INDEX, Slots
  <2>3. 0 \in 0 .. commits - Len(deq) - 1
    BY <2>1 DEF TypeOK
  <2> QED BY <2>1, <2>2, <2>3 DEF Parts, Contents, SlotFromHead
<1> QED BY <1>2, <1>3, TypeCorrect, Invariance, AloneInvariant, PTL

(***************************************************************************)
(* The lock-free queue implements the abstract FifoQueue: step by step     *)
(* until an index laps a stalled thread, hence always when there is one    *)
(* producer and one consumer.                                              *)
(***************************************************************************)

Elem == Item \cup {Unset, Torn}

\* How long a slice is.
LEMMA SliceLen ==
    ASSUME NEW S, NEW s \in Seq(S), NEW m \in Nat, NEW n \in Nat, m <= n, n <= Len(s)
    PROVE  /\ Len(SubSeq(s, m + 1, n)) = n - m
           /\ m < n => SubSeq(s, m + 1, n) # <<>>
<1>1. \A i \in m + 1 .. n : s[i] \in S
  OBVIOUS
<1>2. Len(SubSeq(s, m + 1, n)) = IF m + 1 <= n THEN n - (m + 1) + 1 ELSE 0
  BY <1>1, SubSeqProperties
<1> QED BY <1>2

\* Taking one more element at the end of a slice.
LEMMA SliceGrows ==
    ASSUME NEW S, NEW s \in Seq(S), NEW m \in 1 .. Len(s), NEW n \in m - 1 .. Len(s) - 1
    PROVE  SubSeq(s, m, n + 1) = Append(SubSeq(s, m, n), s[n + 1])
<1>1. m \in Nat /\ n \in Nat /\ Len(s) \in Nat /\ n < Len(s) /\ m <= n + 1 /\ 1 <= m
  OBVIOUS
<1>2. /\ SubSeq(s, m, n + 1) \in Seq(S)
      /\ Len(SubSeq(s, m, n + 1)) = n + 2 - m
      /\ \A i \in 1 .. n + 2 - m : SubSeq(s, m, n + 1)[i] = s[m + i - 1]
  <2>1. \A i \in m .. n + 1 : s[i] \in S
    BY <1>1
  <2> QED BY <1>1, <2>1, SubSeqProperties
<1>3. /\ SubSeq(s, m, n) \in Seq(S)
      /\ Len(SubSeq(s, m, n)) = n + 1 - m
      /\ \A i \in 1 .. n + 1 - m : SubSeq(s, m, n)[i] = s[m + i - 1]
  <2>1. \A i \in m .. n : s[i] \in S
    BY <1>1
  <2> QED BY <1>1, <2>1, SubSeqProperties
<1>4. s[n + 1] \in S
  BY <1>1
<1>5. /\ Append(SubSeq(s, m, n), s[n + 1]) \in Seq(S)
      /\ Len(Append(SubSeq(s, m, n), s[n + 1])) = n + 2 - m
      /\ \A i \in 1 .. n + 1 - m : Append(SubSeq(s, m, n), s[n + 1])[i] = s[m + i - 1]
      /\ Append(SubSeq(s, m, n), s[n + 1])[n + 2 - m] = s[n + 1]
  BY <1>1, <1>3, <1>4, AppendProperties
<1>6. ASSUME NEW i \in 1 .. n + 2 - m
      PROVE  SubSeq(s, m, n + 1)[i] = Append(SubSeq(s, m, n), s[n + 1])[i]
  <2>1. CASE i = n + 2 - m
    <3>1. m + i - 1 = n + 1
      BY <1>1, <2>1
    <3> QED BY <1>2, <1>5, <2>1, <3>1
  <2>2. CASE i \in 1 .. n + 1 - m
    BY <1>2, <1>5, <2>2
  <2>3. i = n + 2 - m \/ i \in 1 .. n + 1 - m
    BY <1>1
  <2> QED BY <2>1, <2>2, <2>3
<1> QED BY <1>2, <1>5, <1>6, SeqEqual

\* A slice of a sequence does not see what is appended behind it.
LEMMA SliceOfAppend ==
    ASSUME NEW S, NEW s \in Seq(S), NEW x \in S,
           NEW m \in 1 .. Len(s) + 1, NEW n \in m - 1 .. Len(s)
    PROVE  SubSeq(Append(s, x), m, n) = SubSeq(s, m, n)
<1>1. m \in Nat /\ n \in Nat /\ Len(s) \in Nat /\ n <= Len(s) /\ m <= n + 1 /\ 1 <= m
  OBVIOUS
<1>2. \A i \in m .. n : s[i] \in S /\ Append(s, x)[i] = s[i]
  BY <1>1, AppendProperties
<1>3. /\ SubSeq(s, m, n) \in Seq(S)
      /\ Len(SubSeq(s, m, n)) = n + 1 - m
      /\ \A i \in 1 .. n + 1 - m : SubSeq(s, m, n)[i] = s[m + i - 1]
  BY <1>1, <1>2, SubSeqProperties
<1>4. /\ SubSeq(Append(s, x), m, n) \in Seq(S)
      /\ Len(SubSeq(Append(s, x), m, n)) = n + 1 - m
      /\ \A i \in 1 .. n + 1 - m : SubSeq(Append(s, x), m, n)[i] = Append(s, x)[m + i - 1]
  <2>1. \A i \in m .. n : Append(s, x)[i] \in S
    BY <1>2
  <2> QED BY <1>1, <2>1, SubSeqProperties
<1>5. ASSUME NEW i \in 1 .. n + 1 - m
      PROVE  SubSeq(Append(s, x), m, n)[i] = SubSeq(s, m, n)[i]
  <2>1. m + i - 1 \in m .. n
    BY <1>1
  <2> QED BY <1>2, <1>3, <1>4, <2>1
<1> QED BY <1>3, <1>4, <1>5, SeqEqual

-----------------------------------------------------------------------------
FifoStep == FQ!FifoNext \/ UNCHANGED FQ!fifoVars

\* The CAS on wtindex is the abstract reservation.
LEMMA CasReserves ==
    ASSUME TypeOK, Parts, NEW p \in Producers, PushCasOk(p), gw[p] = Len(enq)
    PROVE  FQ!Reserve
<1> USE SizeAssumption DEF TypeOK, Threads
<1>1. /\ enq' = Append(enq, data[p]) /\ data[p] \in Item
      /\ UNCHANGED <<deq, commits>>
  BY DEF PushCasOk, Parts, ItemsWhole
<1>2. /\ Len(enq) \in Nat /\ Len(deq) \in Nat /\ commits \in Nat
      /\ Len(deq) <= commits /\ commits <= Len(enq) /\ Len(enq) - Len(deq) < Size - 1
  BY DEF PushCasOk, Parts, Window, BeforeCas
<1>3. /\ enq' \in Seq(Elem) /\ enq \in Seq(Elem)
      /\ Len(enq') = Len(enq) + 1 /\ enq'[Len(enq) + 1] = data[p]
  BY <1>1 DEF Elem
<1>4. SubSeq(enq', commits + 1, Len(enq')) = Append(SubSeq(enq, commits + 1, Len(enq)), data[p])
  <2>1. SubSeq(enq', commits + 1, Len(enq) + 1)
          = Append(SubSeq(enq', commits + 1, Len(enq)), enq'[Len(enq) + 1])
    <3>1. commits + 1 \in 1 .. Len(enq') /\ Len(enq) \in (commits + 1) - 1 .. Len(enq') - 1
      BY <1>2, <1>3
    <3> HIDE DEF TypeOK
    <3> QED BY <1>3, <3>1, SliceGrows
  <2>2. SubSeq(enq', commits + 1, Len(enq)) = SubSeq(enq, commits + 1, Len(enq))
    <3>1. data[p] \in Elem
      BY <1>1 DEF Elem
    <3> QED BY <1>1, <1>2, <1>3, <3>1, SliceOfAppend
  <2> QED BY <1>3, <2>1, <2>2
<1>5. SubSeq(enq', Len(deq) + 1, commits) = SubSeq(enq, Len(deq) + 1, commits)
  <2>1. data[p] \in Elem
    BY <1>1 DEF Elem
  <2> QED BY <1>1, <1>2, <1>3, <2>1, SliceOfAppend
<1>6. /\ Len(SubSeq(enq, commits + 1, Len(enq))) = Len(enq) - commits
      /\ Len(SubSeq(enq, Len(deq) + 1, commits)) = commits - Len(deq)
  BY <1>2, <1>3, SliceLen
<1>7. Len(SubSeq(enq, commits + 1, Len(enq))) + Len(SubSeq(enq, Len(deq) + 1, commits)) < Size - 1
  <2>1. (Len(enq) - commits) + (commits - Len(deq)) < Size - 1
    BY <1>2
  <2> HIDE DEF TypeOK
  <2> QED BY <1>6, <2>1, Zenon
<1> HIDE DEF TypeOK
<1>8. SubSeq(enq', commits' + 1, Len(enq')) = Append(SubSeq(enq, commits + 1, Len(enq)), data[p])
  BY <1>1, <1>4
<1>9. SubSeq(enq', Len(deq') + 1, commits') = SubSeq(enq, Len(deq) + 1, commits)
  BY <1>1, <1>5
<1>10. FQ!HasRoom
  BY <1>7 DEF FQ!HasRoom
<1>11. FQ!ReserveFor(data[p])
  BY <1>1, <1>8, <1>9, <1>10 DEF FQ!ReserveFor
<1> QED BY <1>1, <1>11 DEF FQ!Reserve

\* The CAS on maxreadindex is the abstract commit.
LEMMA CasCommits ==
    ASSUME TypeOK, Parts, NEW p \in Producers, PushCommit(p)
    PROVE  FQ!Commit
<1> USE SizeAssumption DEF TypeOK, Threads
<1>1. commits' = commits + 1 /\ UNCHANGED <<enq, deq>>
  BY DEF PushCommit
<1>2. /\ Len(enq) \in Nat /\ Len(deq) \in Nat /\ commits \in Nat
      /\ Len(deq) <= commits /\ commits < Len(enq)
  BY DEF PushCommit, Parts, Window, AfterCas, Owning
<1>3. enq \in Seq(Elem) /\ commits + 1 \in 1 .. Len(enq) /\ Len(deq) + 1 \in 1 .. Len(enq)
  BY <1>2 DEF Elem
<1>4. /\ Head(SubSeq(enq, commits + 1, Len(enq))) = enq[commits + 1]
      /\ Tail(SubSeq(enq, commits + 1, Len(enq))) = SubSeq(enq, (commits + 1) + 1, Len(enq))
  BY <1>2, <1>3, HeadTailOfSubSeq
<1>5. SubSeq(enq, Len(deq) + 1, commits + 1)
        = Append(SubSeq(enq, Len(deq) + 1, commits), enq[commits + 1])
  <2>1. commits \in (Len(deq) + 1) - 1 .. Len(enq) - 1
    BY <1>2
  <2> HIDE DEF TypeOK
  <2> QED BY <1>3, <2>1, SliceGrows
<1>6. SubSeq(enq, commits + 1, Len(enq)) # <<>>
  <2>1. commits <= Len(enq) /\ Len(enq) <= Len(enq)
    BY <1>2
  <2> HIDE DEF TypeOK
  <2> QED BY <1>2, <1>3, <2>1, SliceLen
<1> QED BY <1>1, <1>4, <1>5, <1>6 DEF FQ!Commit

\* The CAS on rdindex is the abstract take.
LEMMA CasTakes ==
    ASSUME TypeOK, Parts, NEW c \in Consumers, PopCasOk(c), gr[c] = Len(deq)
    PROVE  FQ!Take
<1> USE SizeAssumption DEF TypeOK, Threads
<1>1. deq' = Append(deq, data[c]) /\ UNCHANGED <<enq, commits>>
  BY DEF PopCasOk
<1>2. /\ Len(enq) \in Nat /\ Len(deq) \in Nat /\ commits \in Nat
      /\ Len(deq) < commits /\ commits <= Len(enq) /\ data[c] = enq[Len(deq) + 1]
  BY DEF PopCasOk, Parts, Window, Reading
<1>3. enq \in Seq(Elem) /\ Len(deq) + 1 \in 1 .. Len(enq) /\ commits \in Len(deq) + 1 .. Len(enq)
  BY <1>2 DEF Elem
<1>4. /\ Head(SubSeq(enq, Len(deq) + 1, commits)) = enq[Len(deq) + 1]
      /\ Tail(SubSeq(enq, Len(deq) + 1, commits)) = SubSeq(enq, (Len(deq) + 1) + 1, commits)
  BY <1>3, HeadTailOfSubSeq
<1>5. SubSeq(enq, Len(deq) + 1, commits) # <<>>
  <2>1. Len(deq) <= commits
    BY <1>2
  <2> HIDE DEF TypeOK
  <2> QED BY <1>2, <1>3, <2>1, SliceLen
<1>6. Len(deq') = Len(deq) + 1
  BY <1>1
<1> QED BY <1>1, <1>2, <1>4, <1>5, <1>6 DEF FQ!Take

\* All other steps are invisible.
LEMMA OtherSteps ==
    ASSUME UNCHANGED <<enq, deq, commits>>
    PROVE  UNCHANGED FQ!fifoVars
  BY DEF FQ!fifoVars

\* Every step that leaves the queue clean is a step of the abstract queue or none.
LEMMA StepSimulates ==
    ASSUME TypeOK, Inv, Next, Clean'
    PROVE  FifoStep
<1>1. Parts
  BY CleanBack DEF Inv
<1>2. ASSUME NEW p \in Producers, PushStep(p) PROVE FifoStep
  <2>1. CASE PushCasOk(p)
    BY <1>1, <2>1, CleanCas, CasReserves DEF FifoStep, FQ!FifoNext
  <2>2. CASE PushCommit(p)
    BY <1>1, <2>2, CasCommits DEF FifoStep, FQ!FifoNext
  <2>3. CASE ~PushCasOk(p) /\ ~PushCommit(p)
    <3>1. UNCHANGED <<enq, deq, commits>>
      BY <1>2, <2>3 DEF PushStep, PushCall, PushRetry, PushFull, PushReadRd, PushCasFail,
                        PushCopyBegin, PushCopyEnd, ReadWt, history
    <3> QED BY <3>1, OtherSteps DEF FifoStep
  <2> QED BY <2>1, <2>2, <2>3
<1>3. ASSUME NEW c \in Consumers, PopStep(c) \/ PeekStep(c) PROVE FifoStep
  <2>1. CASE PopCasOk(c)
    BY <1>1, <2>1, CleanCas, CasTakes DEF FifoStep, FQ!FifoNext
  <2>2. CASE ~PopCasOk(c)
    <3>1. UNCHANGED <<enq, deq, commits>>
      BY <1>3, <2>2 DEF PopStep, PeekStep, PopReadRd, ReadEmpty, PopReadMax, PopCopy, PopCasFail,
                        HeadReadRd, HeadReadMax, HeadCopy, SizeReadWt, SizeReadRd,
                        ReadRd, ReadWt, history
    <3> QED BY <3>1, OtherSteps DEF FifoStep
  <2> QED BY <2>1, <2>2
<1>4. ASSUME NEW t \in Threads, Crash(t) PROVE FifoStep
  BY <1>4, OtherSteps DEF Crash, history, FifoStep
<1> QED BY <1>2, <1>3, <1>4 DEF Next

\* Until an index laps a stalled thread, every step of the code is a step of
\* the abstract queue or invisible to it.
THEOREM Simulation == Spec => FifoWhileClean
<1>1. TypeOK /\ Inv /\ [Next]_vars => [Clean' => FQ!FifoNext \/ UNCHANGED FQ!fifoVars]_vars
  BY StepSimulates DEF FifoStep
<1> QED BY <1>1, Invariance, TypeCorrect, PTL DEF Spec, FifoWhileClean

\* With one producer and one consumer the code implements the abstract queue:
\* bounded by quesize - 1, first in first out, exactly once.
THEOREM SingleRefinement ==
    ASSUME Single(Producers), Single(Consumers)
    PROVE  Spec => RefinesFifo
<1>1. Init => FQ!FifoInit
  BY DEF Init, FQ!FifoInit
<1>2. TypeOK /\ Inv /\ SingleNeverLapped' /\ [Next]_vars => [FQ!FifoNext]_(FQ!fifoVars)
  <2> SUFFICES ASSUME TypeOK, Inv, SingleNeverLapped', [Next]_vars
               PROVE  FifoStep
    BY DEF FifoStep
  <2>1. Clean'
    BY DEF SingleNeverLapped, Single, Clean
  <2>2. CASE UNCHANGED vars
    BY <2>2, OtherSteps DEF vars, FifoStep
  <2> QED BY <2>1, <2>2, StepSimulates
<1> QED BY <1>1, <1>2, Invariance, TypeCorrect, NeverLapped, PTL
        DEF Spec, RefinesFifo, FQ!FifoSpec
=============================================================================
