------------------------ MODULE ProducerConsumerProofs ------------------------
(***************************************************************************)
(* Proofs about ProducerConsumer, for any number of posters, posts and     *)
(* starts and any queue size: the counter is exact, and ztl_pc_stop        *)
(* returns only after the posts accepted before it were handled.           *)
(***************************************************************************)
EXTENDS ProducerConsumer, FiniteSetTheorems, TLAPS

-----------------------------------------------------------------------------
(* The inductive invariant *)

\* The posts that are committed and not yet counted.
Adding == {t \in Callers : pc[t] = "add"}
Popped == IF wpc = "dec" THEN 1 ELSE 0

\* CountExact, solved for count.
Counted == count = (Len(ready) + Popped - Cardinality(Adding)) % Wrap

\* ztl_pc_stop is called on a started object, and clears started before it joins.
Stopping ==
    /\ pc[Control] \in {"push", "push_full", "push_cas", "commit", "add", "signal", "clear"} => started
    /\ pc[Control] = "join" => ~started
    /\ ~started /\ pc[Control] = "idle" => wpc \in {"none", "exited"}
    /\ \A t \in Posters : pc[t] \notin {"clear", "join"}

\* Only ztl_pc_stop posts the sentinel.
OwnItems ==
    /\ item[Control] = Sentinel
    /\ \A t \in Posters : pc[t] \in {"push", "push_full", "push_cas"} => item[t].kind # "stop"

\* The places where a sentinel can be.
InPending == \E i \in DOMAIN pending : pending[i].kind = "stop"
InReady == \E i \in DOMAIN ready : ready[i].kind = "stop"
InHand == wpc \in {"dec", "handle"} /\ witem.kind = "stop"

\* Before ztl_pc_stop has pushed its sentinel there is none, and the worker of a
\* started object lives ...
NoSentinelYet ==
    /\ pc[Control] \in {"idle", "push", "push_full", "push_cas"} =>
         /\ ~InPending /\ ~InReady /\ ~InHand
         /\ started => wpc \notin {"none", "exited"}
    /\ pc[Control] # "idle" => wpc # "none"

\* ... and there is at most one, which the worker has taken when it has exited.
OneSentinel ==
    /\ \A i, j \in DOMAIN pending : pending[i].kind = "stop" /\ pending[j].kind = "stop" => i = j
    /\ \A i, j \in DOMAIN ready : ready[i].kind = "stop" /\ ready[j].kind = "stop" => i = j
    /\ InPending => ~InReady /\ ~InHand /\ wpc # "exited"
    /\ InReady => ~InHand /\ wpc # "exited"

\* What was accepted before ztl_pc_stop was called is in the queue before its sentinel.
InFront ==
    /\ mustRun \subseteq Ids(delivered) \cup Ids(ready) \cup Ids(pending)
    /\ \A i \in DOMAIN pending : pending[i].kind = "stop" =>
         \A m \in mustRun : \/ m \in Ids(delivered) \cup Ids(ready)
                            \/ \E j \in DOMAIN pending : j < i /\ pending[j].id = m
    /\ \A i \in DOMAIN ready : ready[i].kind = "stop" =>
         \A m \in mustRun : \/ m \in Ids(delivered)
                            \/ \E j \in DOMAIN ready : j < i /\ ready[j].id = m
    /\ InHand => mustRun \subseteq Ids(delivered)
    /\ wpc = "exited" /\ pc[Control] # "idle" => mustRun \subseteq Ids(delivered)

\* A worker that has exited has nothing in hand.
HandEmpty == wpc \notin {"dec", "handle"} => witem = Sentinel

Sentinels == NoSentinelYet /\ OneSentinel /\ InFront

PCInv ==
    /\ TypeOK /\ Counted /\ Stopping /\ OwnItems /\ HandEmpty
    /\ ~astray => Sentinels

-----------------------------------------------------------------------------
(* Remainders, sequences, sets *)

\* A quotient and a remainder in range are the quotient and the remainder.
LEMMA ModUnique ==
    ASSUME NEW w \in Nat \ {0}, NEW a \in Int, NEW q \in Int, NEW r \in 0 .. w - 1, a = w * q + r
    PROVE  a % w = r
  OBVIOUS

\* A quotient and a remainder exist.
LEMMA ModParts ==
    ASSUME NEW w \in Nat \ {0}
    PROVE  \A a \in Int : a % w \in 0 .. w - 1 /\ a \div w \in Int /\ a = w * (a \div w) + (a % w)
  OBVIOUS

\* Adding to a remainder is adding to the number.
LEMMA ModAdd ==
    ASSUME NEW w \in Nat \ {0}, NEW a \in Int, NEW k \in Int
    PROVE  ((a % w) + k) % w = (a + k) % w
<1>1. PICK q \in Int, r \in 0 .. w - 1 : a = w * q + r /\ a % w = r
  BY ModParts
<1>2. r + k \in Int
  OBVIOUS
<1>3. PICK p \in Int, s \in 0 .. w - 1 : r + k = w * p + s /\ (r + k) % w = s
  BY <1>2, ModParts
<1>4. a + k = w * (q + p) + s /\ q + p \in Int /\ a + k \in Int
  BY <1>1, <1>3
<1>5. (a + k) % w = s
  BY <1>4, ModUnique
<1> QED BY <1>1, <1>3, <1>5

\* Taking the head of a sequence shifts the others; appending leaves them.
LEMMA SeqMoves ==
    ASSUME NEW S, NEW s \in Seq(S)
    PROVE  /\ Len(s) \in Nat /\ DOMAIN s = 1 .. Len(s)
           /\ s # <<>> => /\ Len(s) >= 1 /\ Head(s) = s[1] /\ Head(s) \in S
                          /\ Tail(s) \in Seq(S) /\ Len(Tail(s)) = Len(s) - 1
                          /\ DOMAIN Tail(s) = 1 .. Len(s) - 1
                          /\ \A i \in 1 .. Len(s) - 1 : Tail(s)[i] = s[i + 1]
           /\ \A x \in S : /\ Append(s, x) \in Seq(S) /\ Len(Append(s, x)) = Len(s) + 1
                          /\ DOMAIN Append(s, x) = 1 .. Len(s) + 1
                          /\ Append(s, x)[Len(s) + 1] = x
                          /\ \A i \in 1 .. Len(s) : Append(s, x)[i] = s[i]
  OBVIOUS

\* Ids of a longer, and of a shorter, sequence.
LEMMA IdsMoves ==
    ASSUME NEW s \in Seq(Item)
    PROVE  /\ \A x \in Item : Ids(Append(s, x)) = Ids(s) \cup ({x.id} \ {0})
           /\ s # <<>> => Ids(s) = Ids(Tail(s)) \cup ({Head(s).id} \ {0})
<1>1. ASSUME NEW x \in Item PROVE Ids(Append(s, x)) = Ids(s) \cup ({x.id} \ {0})
  <2>1. /\ DOMAIN s = 1 .. Len(s) /\ Len(s) \in Nat /\ DOMAIN Append(s, x) = 1 .. Len(s) + 1
        /\ Append(s, x)[Len(s) + 1] = x /\ \A i \in 1 .. Len(s) : Append(s, x)[i] = s[i]
    BY SeqMoves
  <2> QED BY <2>1 DEF Ids
<1>2. ASSUME s # <<>> PROVE Ids(s) = Ids(Tail(s)) \cup ({Head(s).id} \ {0})
  <2>1. /\ DOMAIN s = 1 .. Len(s) /\ Len(s) \in Nat /\ Len(s) >= 1 /\ Head(s) = s[1]
        /\ DOMAIN Tail(s) = 1 .. Len(s) - 1 /\ \A i \in 1 .. Len(s) - 1 : Tail(s)[i] = s[i + 1]
    BY <1>2, SeqMoves
  <2>2. \A i \in 1 .. Len(s) : i = 1 \/ (i - 1 \in DOMAIN Tail(s) /\ Tail(s)[i - 1] = s[i])
    BY <2>1
  <2>3. \A i \in DOMAIN Tail(s) : i + 1 \in DOMAIN s /\ s[i + 1] = Tail(s)[i]
    BY <2>1
  <2>4. 1 \in DOMAIN s
    BY <2>1
  <2>5. ASSUME NEW m \in Ids(s) PROVE m \in Ids(Tail(s)) \cup ({Head(s).id} \ {0})
    <3>1. PICK i \in DOMAIN s : m = s[i].id /\ m # 0
      BY DEF Ids
    <3> QED BY <2>1, <2>2, <3>1 DEF Ids
  <2>6. ASSUME NEW m \in Ids(Tail(s)) \cup ({Head(s).id} \ {0}) PROVE m \in Ids(s)
    <3>1. CASE m \in Ids(Tail(s))
      BY <2>3, <3>1 DEF Ids
    <3>2. CASE m = Head(s).id /\ m # 0
      BY <2>1, <2>4, <3>2 DEF Ids
    <3> QED BY <2>6, <3>1, <3>2
  <2> QED BY <2>5, <2>6
<1> QED BY <1>1, <1>2

\* The callers are finitely many.
LEMMA AddingFinite == IsFiniteSet(Adding) /\ Cardinality(Adding) \in Nat
<1>1. IsFiniteSet(Callers)
  BY PostersAssumption, FS_AddElement DEF Callers
<1>2. Adding \in SUBSET Callers
  BY DEF Adding
<1>3. IsFiniteSet(Adding)
  BY <1>1, <1>2, FS_Subset
<1> QED BY <1>3, FS_CardinalityType

-----------------------------------------------------------------------------
(* The steps *)

\* Every step keeps the types.
LEMMA TypeStep ==
    ASSUME TypeOK, [Next]_vars
    PROVE  TypeOK'
<1> USE DEF TypeOK, CallerLabel, WorkerLabel, Goto, PostReturn, queue, caller, worker, bounds, history
<1>s. Sentinel \in Item
  BY BoundsAssumption DEF Sentinel, Item, Kind
<1>c. Control \in Callers /\ \A t \in Posters : t \in Callers
  BY DEF Callers
<1>1. CASE UNCHANGED vars
  BY <1>1 DEF vars
<1>2. ASSUME NEW t \in Posters, PostCall(t) PROVE TypeOK'
  BY <1>2, <1>c, BoundsAssumption DEF PostCall, Item, Kind
<1>16. ASSUME NEW t \in Callers, PostRoom(t) \/ PostRetry(t) \/ PostOverrun(t) PROVE TypeOK'
  BY <1>16 DEF PostRoom, PostRetry, PostOverrun
<1>3. ASSUME NEW t \in Callers, PostRead(t) PROVE TypeOK'
  <2>1. Reserved \in Nat
    BY SeqMoves DEF Reserved
  <2> QED BY <1>3, <2>1 DEF PostRead
<1>4. ASSUME NEW t \in Callers, PostFull(t) PROVE TypeOK'
  BY <1>4, <1>s DEF PostFull
<1>5. ASSUME NEW t \in Callers, PostReserve(t) PROVE TypeOK'
  BY <1>5, QueSizeAssumption DEF PostReserve, Q!ReserveFor, Q!HasRoom
<1>6. ASSUME NEW t \in Callers, PostCommit(t) PROVE TypeOK'
  BY <1>6, SeqMoves DEF PostCommit, Q!Commit
<1>7. ASSUME NEW t \in Callers, PostCount(t) PROVE TypeOK'
  <2>1. count' \in 0 .. Wrap - 1
    BY <1>7, WrapAssumption DEF PostCount
  <2>2. CASE count \in {0, Wrap - 1}
    <3>1. pc' = [pc EXCEPT ![t] = "signal"] /\ UNCHANGED <<item, seen>>
      BY <1>7, <2>2 DEF PostCount
    <3> QED BY <1>7, <2>1, <3>1 DEF PostCount
  <2>3. CASE count \notin {0, Wrap - 1}
    <3>1. PostReturn(t)
      BY <1>7, <2>3 DEF PostCount
    <3> QED BY <1>7, <1>s, <2>1, <3>1 DEF PostCount
  <2> QED BY <2>2, <2>3
<1>8. ASSUME NEW t \in Callers, PostSignal(t) PROVE TypeOK'
  BY <1>8, <1>s DEF PostSignal
<1>9. CASE WorkerPop
  <2>1. /\ ready # <<>> /\ ready' = Tail(ready) /\ delivered' = Append(delivered, Head(ready))
        /\ witem' = Head(ready) /\ pending' = pending
    BY <1>9 DEF WorkerPop, Q!Take
  <2>2. /\ ready' \in Seq(Item) /\ delivered' \in Seq(Item) /\ witem' \in Item
        /\ Len(ready') = Len(ready) - 1
    BY <2>1, SeqMoves
  <2>3. Len(pending') + Len(ready') <= QueSize - 1
    BY <2>1, <2>2, SeqMoves, QueSizeAssumption
  <2> QED BY <1>9, <2>1, <2>2, <2>3 DEF WorkerPop
<1>10. CASE WorkerPopEmpty \/ WorkerSleep \/ WorkerTimeout
  BY <1>10 DEF WorkerPopEmpty, WorkerSleep, WorkerTimeout
<1>11. CASE WorkerCount
  BY <1>11, WrapAssumption DEF WorkerCount
<1>12. CASE WorkerHandle
  BY <1>12, <1>s DEF WorkerHandle
<1>13. CASE Start
  <2>1. astray' \in BOOLEAN /\ wpc' \in WorkerLabel /\ starts' \in 0 .. MaxStart
    <3>1. CASE wpc' = "pop" /\ UNCHANGED astray
      BY <1>13, <3>1, BoundsAssumption DEF Start
    <3>2. CASE wpc' = "none" /\ astray' = TRUE
      BY <1>13, <3>2, BoundsAssumption DEF Start
    <3> QED BY <1>13, <3>1, <3>2 DEF Start
  <2> QED BY <1>13, <2>1 DEF Start
<1>14. CASE StopCall
  <2>1. ASSUME NEW q \in Seq(Item) PROVE Ids(q) \subseteq 1 .. MaxPost
    <3>0. \A i \in DOMAIN q : q[i] \in Item
      OBVIOUS
    <3>1. \A i \in DOMAIN q : q[i].id \in 0 .. MaxPost
      BY <3>0 DEF Item
    <3> QED BY <3>1, BoundsAssumption DEF Ids
  <2> QED BY <1>14, <1>s, <1>c, <2>1 DEF StopCall
<1>15. CASE StopClear \/ StopJoin \/ Release
  BY <1>15, <1>c DEF StopClear, StopJoin, Release
<1> QED
  BY <1>1, <1>2, <1>3, <1>4, <1>5, <1>6, <1>7, <1>8, <1>9, <1>10, <1>11, <1>12, <1>13, <1>14, <1>15, <1>16
  DEF Next, PostStep, WorkerStep, StopStep

\* The counter stays exact modulo its width: what a commit, an addition, a pop and a
\* subtraction do to it cancel out.
LEMMA CountedStep ==
    ASSUME TypeOK, Counted, Stopping, [Next]_vars
    PROVE  Counted'
<1> DEFINE n == Len(ready) + Popped - Cardinality(Adding)
<1>t. /\ pc \in [Callers -> CallerLabel] /\ ready \in Seq(Item) /\ pending \in Seq(Item)
      /\ wpc \in WorkerLabel
  BY DEF TypeOK
<1>c. Control \in Callers /\ \A t \in Posters : t \in Callers
  BY DEF Callers
<1>l. Len(ready) \in Nat /\ Cardinality(Adding) \in Nat /\ Popped \in {0, 1} /\ n \in Int
  BY <1>t, AddingFinite, SeqMoves DEF Popped
<1>n. count = n % Wrap
  BY DEF Counted
<1>m. /\ ((n % Wrap) + 1) % Wrap = (n + 1) % Wrap
      /\ ((n % Wrap) + (-1)) % Wrap = (n + (-1)) % Wrap
  <2>1. \A a, k \in Int : ((a % Wrap) + k) % Wrap = (a + k) % Wrap
    BY WrapAssumption, ModAdd
  <2>2. 1 \in Int /\ -1 \in Int
    OBVIOUS
  <2> HIDE DEF n
  <2> QED BY <1>l, <2>1, <2>2, Zenon
<1>k. ASSUME count' = count, ready' = ready, Popped' = Popped, Adding' = Adding PROVE Counted'
  BY <1>k DEF Counted
<1> USE DEF Goto, PostReturn, queue, caller, worker, bounds, history
<1>1. CASE UNCHANGED vars
  BY <1>1, <1>k DEF vars, Popped, Adding
<1>2. ASSUME NEW t \in Posters, PostCall(t) PROVE Counted'
  BY <1>2, <1>t, <1>c, <1>k DEF PostCall, Popped, Adding
<1>15. ASSUME NEW t \in Callers, PostRoom(t) \/ PostRetry(t) \/ PostOverrun(t) PROVE Counted'
  BY <1>15, <1>t, <1>k DEF PostRoom, PostRetry, PostOverrun, Popped, Adding
<1>3. ASSUME NEW t \in Callers, PostRead(t) PROVE Counted'
  BY <1>3, <1>t, <1>k DEF PostRead, Popped, Adding
<1>4. ASSUME NEW t \in Callers, PostFull(t) PROVE Counted'
  BY <1>4, <1>t, <1>k DEF PostFull, Popped, Adding
<1>5. ASSUME NEW t \in Callers, PostReserve(t) PROVE Counted'
  BY <1>5, <1>t, <1>k DEF PostReserve, Q!ReserveFor, Popped, Adding
<1>6. ASSUME NEW t \in Callers, PostCommit(t) PROVE Counted'
  <2>1. Adding' = Adding \cup {t} /\ t \notin Adding
    BY <1>6, <1>t DEF PostCommit, Adding
  <2>2. Cardinality(Adding') = Cardinality(Adding) + 1
    BY <2>1, AddingFinite, FS_AddElement
  <2>3. Len(ready') = Len(ready) + 1
    BY <1>6, <1>t, SeqMoves DEF PostCommit, Q!Commit
  <2>4. Popped' = Popped /\ count' = count
    BY <1>6 DEF PostCommit, Popped
  <2>5. Len(ready') + Popped' - Cardinality(Adding') = n
    BY <1>l, <2>2, <2>3, <2>4
  <2> QED BY <1>n, <2>4, <2>5 DEF Counted
<1>7. ASSUME NEW t \in Callers, PostCount(t) PROVE Counted'
  <2>1. Adding' = Adding \ {t} /\ t \in Adding
    BY <1>7, <1>t DEF PostCount, Adding
  <2>2. Cardinality(Adding') = Cardinality(Adding) - 1
    BY <2>1, AddingFinite, FS_RemoveElement
  <2>3. Popped' = Popped /\ ready' = ready /\ count' = (count + 1) % Wrap
    BY <1>7 DEF PostCount, Popped
  <2>4. Len(ready') + Popped' - Cardinality(Adding') = n + 1
    BY <1>l, <2>2, <2>3
  <2> QED BY <1>n, <1>m, <2>3, <2>4 DEF Counted
<1>8. ASSUME NEW t \in Callers, PostSignal(t) PROVE Counted'
  BY <1>8, <1>t, <1>k DEF PostSignal, Popped, Adding
<1>9. CASE WorkerPop
  <2>1. Len(ready') = Len(ready) - 1 /\ Popped' = 1 /\ Popped = 0
    BY <1>9, <1>t, SeqMoves DEF WorkerPop, Q!Take, Popped
  <2>2. Adding' = Adding /\ count' = count
    BY <1>9 DEF WorkerPop, Adding
  <2>3. Len(ready') + Popped' - Cardinality(Adding') = n
    BY <1>l, <2>1, <2>2
  <2> QED BY <1>n, <2>2, <2>3 DEF Counted
<1>10. CASE WorkerPopEmpty \/ WorkerSleep \/ WorkerTimeout \/ WorkerHandle
  BY <1>10, <1>k DEF WorkerPopEmpty, WorkerSleep, WorkerTimeout, WorkerHandle, Popped, Adding
<1>11. CASE WorkerCount
  <2>1. Popped' = 0 /\ Popped = 1 /\ Adding' = Adding /\ ready' = ready /\ count' = (count - 1) % Wrap
    BY <1>11 DEF WorkerCount, Popped, Adding
  <2>2. Len(ready') + Popped' - Cardinality(Adding') = n + (-1) /\ count' = (count + (-1)) % Wrap
    <3>1. count \in Int
      BY WrapAssumption DEF TypeOK
    <3>2. count - 1 = count + (-1)
      BY <3>1
    <3> QED BY <1>l, <2>1, <3>2
  <2> QED BY <1>n, <1>m, <2>2 DEF Counted
<1>12. CASE Start
  BY <1>12, <1>k DEF Start, Stopping, Popped, Adding
<1>13. CASE StopCall
  BY <1>13, <1>t, <1>c, <1>k DEF StopCall, Popped, Adding
<1>14. CASE StopClear \/ StopJoin \/ Release
  BY <1>14, <1>t, <1>c, <1>k DEF StopClear, StopJoin, Release, Popped, Adding
<1> QED
  BY <1>1, <1>2, <1>3, <1>4, <1>5, <1>6, <1>7, <1>8, <1>9, <1>10, <1>11, <1>12, <1>13, <1>14, <1>15
  DEF Next, PostStep, WorkerStep, StopStep

\* Where the thread that stops is, what callers push, what the worker has in hand.
LEMMA ControlStep ==
    ASSUME TypeOK, Stopping, OwnItems, HandEmpty, [Next]_vars
    PROVE  Stopping' /\ OwnItems' /\ HandEmpty'
<1>t. /\ pc \in [Callers -> CallerLabel] /\ item \in [Callers -> Item] /\ wpc \in WorkerLabel
  BY DEF TypeOK
<1>c. Control \in Callers /\ \A t \in Posters : t \in Callers /\ t # Control
  BY ControlAssumption DEF Callers
<1> USE DEF Goto, PostReturn, queue, caller, worker, bounds, history, Stopping, OwnItems, HandEmpty
<1>1. CASE UNCHANGED vars
  BY <1>1 DEF vars
<1>2. ASSUME NEW t \in Posters, PostCall(t) PROVE Stopping' /\ OwnItems' /\ HandEmpty'
  BY <1>2, <1>t, <1>c DEF PostCall
<1>12. ASSUME NEW t \in Callers, PostRoom(t) \/ PostRetry(t) \/ PostOverrun(t)
       PROVE  Stopping' /\ OwnItems' /\ HandEmpty'
  BY <1>12, <1>t, <1>c DEF PostRoom, PostRetry, PostOverrun
<1>3. ASSUME NEW t \in Callers, PostRead(t) PROVE Stopping' /\ OwnItems' /\ HandEmpty'
  BY <1>3, <1>t, <1>c DEF PostRead
<1>4. ASSUME NEW t \in Callers, PostFull(t) PROVE Stopping' /\ OwnItems' /\ HandEmpty'
  BY <1>4, <1>t, <1>c DEF PostFull
<1>5. ASSUME NEW t \in Callers, PostReserve(t) \/ PostCommit(t) PROVE Stopping' /\ OwnItems' /\ HandEmpty'
  BY <1>5, <1>t, <1>c DEF PostReserve, PostCommit
<1>6. ASSUME NEW t \in Callers, PostCount(t) PROVE Stopping' /\ OwnItems' /\ HandEmpty'
  BY <1>6, <1>t, <1>c DEF PostCount
<1>7. ASSUME NEW t \in Callers, PostSignal(t) PROVE Stopping' /\ OwnItems' /\ HandEmpty'
  BY <1>7, <1>t, <1>c DEF PostSignal
<1>8. CASE WorkerPop \/ WorkerPopEmpty \/ WorkerSleep \/ WorkerTimeout
  BY <1>8, <1>t, <1>c DEF WorkerPop, WorkerPopEmpty, WorkerSleep, WorkerTimeout
<1>9. CASE WorkerCount \/ WorkerHandle
  BY <1>9, <1>t, <1>c DEF WorkerCount, WorkerHandle
<1>10. CASE Start \/ StopCall
  BY <1>10, <1>t, <1>c DEF Start, StopCall
<1>11. CASE StopClear \/ StopJoin \/ Release
  BY <1>11, <1>t, <1>c DEF StopClear, StopJoin, Release
<1> QED
  BY <1>1, <1>2, <1>3, <1>4, <1>5, <1>6, <1>7, <1>8, <1>9, <1>10, <1>11, <1>12
  DEF Next, PostStep, WorkerStep, StopStep

\* Steps that leave the queue, the item in hand and mustRun as they are, do not end
\* the worker and do not take ztl_pc_stop back before its push.
LEMMA SentinelsKept ==
    ASSUME Sentinels, UNCHANGED <<pending, ready, delivered, mustRun>>,
           InHand' = InHand, wpc' = "exited" => wpc = "exited",
           pc'[Control] # "idle" => pc[Control] # "idle",
           NoSentinelYet'
    PROVE  Sentinels'
<1>1. InPending' = InPending /\ InReady' = InReady
  BY DEF InPending, InReady
<1>2. OneSentinel'
  BY <1>1 DEF Sentinels, OneSentinel
<1>3. InFront'
  BY DEF Sentinels, InFront, Ids
<1> QED BY <1>2, <1>3 DEF Sentinels

\* A pushed item goes to the end of the queue.  The sentinel is pushed while no other
\* one is there and the worker lives, behind everything accepted before.
LEMMA SentinelsReserve ==
    ASSUME TypeOK, Stopping, OwnItems, Sentinels, NEW t \in Callers, PostReserve(t)
    PROVE  Sentinels'
<1>c. Control \in Callers /\ Control \notin Posters /\ (t \in Posters \/ t = Control)
  BY ControlAssumption DEF Callers
<1>t. /\ pc \in [Callers -> CallerLabel] /\ item[t] \in Item
      /\ pending \in Seq(Item) /\ ready \in Seq(Item) /\ delivered \in Seq(Item)
  BY DEF TypeOK
<1>1. /\ pc[t] = "push_cas" /\ pc' = [pc EXCEPT ![t] = "commit"] /\ pending' = Append(pending, item[t])
      /\ UNCHANGED <<ready, delivered, mustRun, wpc, witem, started>>
  BY DEF PostReserve, Q!ReserveFor, Goto, worker, history
<1>2. /\ DOMAIN pending = 1 .. Len(pending) /\ Len(pending) \in Nat
      /\ DOMAIN pending' = 1 .. Len(pending) + 1 /\ pending'[Len(pending) + 1] = item[t]
      /\ \A i \in 1 .. Len(pending) : pending'[i] = pending[i]
  BY <1>t, <1>1, SeqMoves
<1>3. Ids(pending) \subseteq Ids(pending') /\ Ids(ready') = Ids(ready) /\ Ids(delivered') = Ids(delivered)
  BY <1>t, <1>1, IdsMoves
<1>4. InReady' = InReady /\ InHand' = InHand
  BY <1>1 DEF InReady, InHand
<1>5. ASSUME NEW m \in Ids(pending) PROVE \E j \in DOMAIN pending : pending[j].id = m
  BY DEF Ids
<1>6. CASE t = Control
  <2>1. ~InPending /\ ~InReady /\ ~InHand /\ wpc # "exited" /\ item[t].kind = "stop"
    BY <1>1, <1>6 DEF Sentinels, NoSentinelYet, Stopping, OwnItems, Sentinel
  <2>2. \A i \in DOMAIN pending' : pending'[i].kind = "stop" => i = Len(pending) + 1
    BY <1>2, <2>1 DEF InPending
  <2>3. OneSentinel'
    BY <1>1, <1>4, <2>1, <2>2 DEF OneSentinel, InReady, InPending
  <2>4. InFront'
    <3>1. mustRun' \subseteq Ids(delivered)' \cup Ids(ready)' \cup Ids(pending)'
      BY <1>1, <1>3 DEF Sentinels, InFront, Ids
    <3>2. ASSUME NEW i \in DOMAIN pending', pending'[i].kind = "stop", NEW m \in mustRun'
          PROVE  \/ m \in Ids(delivered') \cup Ids(ready')
                 \/ \E j \in DOMAIN pending' : j < i /\ pending'[j].id = m
      <4>1. i = Len(pending) + 1
        BY <2>2, <3>2
      <4>2. m \in Ids(delivered) \cup Ids(ready) \cup Ids(pending)
        BY <1>1, <3>2 DEF Sentinels, InFront
      <4>3. CASE m \in Ids(pending)
        <5>1. PICK j \in DOMAIN pending : pending[j].id = m
          BY <1>5, <4>3
        <5>2. j \in DOMAIN pending' /\ j < i /\ pending'[j].id = m
          BY <1>2, <4>1, <5>1
        <5> QED BY <5>2
      <4> QED BY <1>3, <4>2, <4>3
    <3> QED BY <1>1, <1>4, <2>1, <3>1, <3>2 DEF InFront, InReady, Ids
  <2>5. NoSentinelYet'
    BY <1>1, <1>6, <1>c, <1>t DEF NoSentinelYet, Sentinels
  <2> QED BY <2>3, <2>4, <2>5 DEF Sentinels
<1>7. CASE t # Control
  <2>1. item[t].kind # "stop" /\ pc'[Control] = pc[Control]
    BY <1>1, <1>7, <1>c, <1>t DEF OwnItems
  <2>2. \A i \in DOMAIN pending' : pending'[i].kind = "stop" =>
          i \in DOMAIN pending /\ pending[i].kind = "stop"
    BY <1>2, <2>1
  <2>3. InPending' => InPending
    BY <2>2 DEF InPending
  <2>4. OneSentinel'
    BY <1>1, <1>4, <2>2, <2>3 DEF Sentinels, OneSentinel
  <2>5. NoSentinelYet'
    BY <1>1, <1>4, <2>1, <2>3 DEF Sentinels, NoSentinelYet
  <2>6. InFront'
    <3>1. mustRun' \subseteq Ids(delivered)' \cup Ids(ready)' \cup Ids(pending)'
      BY <1>1, <1>3 DEF Sentinels, InFront, Ids
    <3>2. ASSUME NEW i \in DOMAIN pending', pending'[i].kind = "stop", NEW m \in mustRun'
          PROVE  \/ m \in Ids(delivered') \cup Ids(ready')
                 \/ \E j \in DOMAIN pending' : j < i /\ pending'[j].id = m
      <4>1. i \in DOMAIN pending /\ pending[i].kind = "stop" /\ m \in mustRun
        BY <1>1, <2>2, <3>2
      <4>2. \/ m \in Ids(delivered) \cup Ids(ready)
            \/ \E j \in DOMAIN pending : j < i /\ pending[j].id = m
        BY <4>1 DEF Sentinels, InFront
      <4> QED BY <1>2, <1>3, <4>2
    <3> QED BY <1>1, <1>4, <2>1, <3>1, <3>2 DEF Sentinels, InFront, Ids
  <2> QED BY <2>4, <2>5, <2>6 DEF Sentinels
<1> QED BY <1>6, <1>7

\* The oldest reservation moves from the head of pending to the end of ready.
LEMMA SentinelsCommit ==
    ASSUME TypeOK, Sentinels, NEW t \in Callers, PostCommit(t)
    PROVE  Sentinels'
<1>t. /\ pc \in [Callers -> CallerLabel] /\ \A m \in mustRun : m # 0
      /\ pending \in Seq(Item) /\ ready \in Seq(Item) /\ delivered \in Seq(Item)
  BY BoundsAssumption DEF TypeOK
<1>1. /\ pending # <<>> /\ pending' = Tail(pending) /\ ready' = Append(ready, Head(pending))
      /\ pc[t] = "commit" /\ pc' = [pc EXCEPT ![t] = "add"]
      /\ UNCHANGED <<delivered, mustRun, wpc, witem, started>>
  BY DEF PostCommit, Q!Commit, Goto, worker, history
<1>2. /\ Len(pending) \in Nat /\ Len(pending) >= 1 /\ DOMAIN pending = 1 .. Len(pending)
      /\ Head(pending) = pending[1] /\ Head(pending) \in Item
      /\ DOMAIN pending' = 1 .. Len(pending) - 1
      /\ \A i \in 1 .. Len(pending) - 1 : pending'[i] = pending[i + 1]
  BY <1>t, <1>1, SeqMoves
<1>3. /\ Len(ready) \in Nat /\ DOMAIN ready = 1 .. Len(ready) /\ DOMAIN ready' = 1 .. Len(ready) + 1
      /\ ready'[Len(ready) + 1] = pending[1] /\ \A i \in 1 .. Len(ready) : ready'[i] = ready[i]
  BY <1>t, <1>1, <1>2, SeqMoves
<1>4. /\ Ids(ready') = Ids(ready) \cup ({pending[1].id} \ {0})
      /\ Ids(pending) = Ids(pending') \cup ({pending[1].id} \ {0})
      /\ Ids(delivered') = Ids(delivered)
  <2>1. Ids(Append(ready, Head(pending))) = Ids(ready) \cup ({Head(pending).id} \ {0})
    BY <1>t, <1>2, IdsMoves
  <2>2. Ids(pending) = Ids(Tail(pending)) \cup ({Head(pending).id} \ {0})
    BY <1>t, <1>1, IdsMoves
  <2> QED BY <1>1, <1>2, <2>1, <2>2
<1>5. /\ \A i \in DOMAIN pending' : i + 1 \in DOMAIN pending /\ pending'[i] = pending[i + 1]
      /\ 1 \in DOMAIN pending
  BY <1>2
<1>6. InHand' = InHand /\ pc'[Control] \in {"idle", "push", "push_full", "push_cas"} => pc[Control] \in {"idle", "push", "push_full", "push_cas"}
  BY <1>t, <1>1 DEF InHand
<1>7. (InPending' => InPending) /\ (InReady' => InReady \/ InPending)
  BY <1>3, <1>5 DEF InPending, InReady
<1>8. NoSentinelYet'
  BY <1>1, <1>t, <1>7 DEF Sentinels, NoSentinelYet, InHand
<1>9. OneSentinel'
  <2>1. \A i, j \in DOMAIN pending' : pending'[i].kind = "stop" /\ pending'[j].kind = "stop" => i = j
    BY <1>2, <1>5 DEF Sentinels, OneSentinel
  <2>2. \A i, j \in DOMAIN ready' : ready'[i].kind = "stop" /\ ready'[j].kind = "stop" => i = j
    BY <1>3, <1>5 DEF Sentinels, OneSentinel, InPending, InReady
  <2>3. InPending' => pending[1].kind # "stop"
    BY <1>2, <1>5 DEF Sentinels, OneSentinel, InPending
  <2>4. InReady' => InReady \/ pending[1].kind = "stop"
    BY <1>3 DEF InReady
  <2> QED BY <1>1, <1>5, <1>6, <1>7, <2>1, <2>2, <2>3, <2>4 DEF Sentinels, OneSentinel, InHand, InPending
<1>10. InFront'
  <2>1. mustRun' \subseteq Ids(delivered') \cup Ids(ready') \cup Ids(pending')
    BY <1>1, <1>4 DEF Sentinels, InFront
  <2>2. ASSUME NEW i \in DOMAIN pending', pending'[i].kind = "stop", NEW m \in mustRun'
        PROVE  \/ m \in Ids(delivered') \cup Ids(ready')
               \/ \E j \in DOMAIN pending' : j < i /\ pending'[j].id = m
    <3>1. \/ m \in Ids(delivered) \cup Ids(ready)
          \/ \E j \in DOMAIN pending : j < i + 1 /\ pending[j].id = m
      BY <1>1, <1>5, <2>2 DEF Sentinels, InFront
    <3>2. ASSUME NEW j \in DOMAIN pending, j < i + 1, pending[j].id = m, j # 1
          PROVE  j - 1 \in DOMAIN pending' /\ j - 1 < i /\ pending'[j - 1].id = m
      BY <1>2, <3>2
    <3>3. m # 0
      BY <1>1, <1>t, <2>2
    <3> QED BY <1>4, <3>1, <3>2, <3>3
  <2>3. ASSUME NEW i \in DOMAIN ready', ready'[i].kind = "stop", NEW m \in mustRun'
        PROVE  m \in Ids(delivered') \/ \E j \in DOMAIN ready' : j < i /\ ready'[j].id = m
    <3>1. CASE i \in DOMAIN ready
      BY <1>1, <1>3, <1>4, <2>3, <3>1 DEF Sentinels, InFront
    <3>2. CASE i \notin DOMAIN ready
      <4>1. i = Len(ready) + 1 /\ pending[1].kind = "stop"
        BY <1>3, <2>3, <3>2
      <4>2. m \in Ids(delivered) \cup Ids(ready)
        BY <1>1, <1>2, <1>5, <2>3, <4>1 DEF Sentinels, InFront
      <4>3. ASSUME m \in Ids(ready) PROVE \E j \in DOMAIN ready' : j < i /\ ready'[j].id = m
        <5>1. PICK j \in DOMAIN ready : ready[j].id = m
          BY <4>3 DEF Ids
        <5>2. j \in DOMAIN ready' /\ j < i /\ ready'[j].id = m
          BY <1>3, <4>1, <5>1
        <5> QED BY <5>2
      <4> QED BY <1>4, <4>2, <4>3
    <3> QED BY <3>1, <3>2
  <2>4. /\ InHand' => mustRun' \subseteq Ids(delivered')
        /\ wpc' = "exited" /\ pc'[Control] # "idle" => mustRun' \subseteq Ids(delivered')
    BY <1>1, <1>t, <1>4, <1>6 DEF Sentinels, InFront, InHand
  <2> QED BY <2>1, <2>2, <2>3, <2>4 DEF InFront, Ids
<1> QED BY <1>8, <1>9, <1>10 DEF Sentinels

\* The oldest readable item moves into the worker's hand; with a sentinel in hand
\* everything before it is delivered.
LEMMA SentinelsPop ==
    ASSUME TypeOK, Sentinels, WorkerPop
    PROVE  Sentinels'
<1>t. /\ \A m \in mustRun : m # 0
      /\ pending \in Seq(Item) /\ ready \in Seq(Item) /\ delivered \in Seq(Item)
  BY BoundsAssumption DEF TypeOK
<1>1. /\ ready # <<>> /\ ready' = Tail(ready) /\ delivered' = Append(delivered, Head(ready))
      /\ witem' = Head(ready) /\ wpc = "pop" /\ wpc' = "dec"
      /\ UNCHANGED <<pending, mustRun, pc, started>>
  BY DEF WorkerPop, Q!Take, caller, history
<1>2. /\ Len(ready) \in Nat /\ Len(ready) >= 1 /\ DOMAIN ready = 1 .. Len(ready)
      /\ Head(ready) = ready[1] /\ Head(ready) \in Item
      /\ DOMAIN ready' = 1 .. Len(ready) - 1
      /\ \A i \in 1 .. Len(ready) - 1 : ready'[i] = ready[i + 1]
  BY <1>t, <1>1, SeqMoves
<1>3. /\ Ids(delivered') = Ids(delivered) \cup ({ready[1].id} \ {0})
      /\ Ids(ready) = Ids(ready') \cup ({ready[1].id} \ {0})
      /\ Ids(pending') = Ids(pending)
  <2>1. Ids(Append(delivered, Head(ready))) = Ids(delivered) \cup ({Head(ready).id} \ {0})
    BY <1>t, <1>2, IdsMoves
  <2>2. Ids(ready) = Ids(Tail(ready)) \cup ({Head(ready).id} \ {0})
    BY <1>t, <1>1, IdsMoves
  <2> QED BY <1>1, <1>2, <2>1, <2>2
<1>4. /\ \A i \in DOMAIN ready' : i + 1 \in DOMAIN ready /\ ready'[i] = ready[i + 1]
      /\ 1 \in DOMAIN ready
  BY <1>2
<1>5. /\ (InReady' => InReady) /\ InPending' = InPending /\ ~InHand
      /\ InHand' = (ready[1].kind = "stop") /\ (InHand' => InReady)
  BY <1>1, <1>2, <1>4 DEF InReady, InPending, InHand
<1>6. NoSentinelYet'
  BY <1>1, <1>5 DEF Sentinels, NoSentinelYet
<1>7. OneSentinel'
  <2>1. \A i, j \in DOMAIN ready' : ready'[i].kind = "stop" /\ ready'[j].kind = "stop" => i = j
    BY <1>2, <1>4 DEF Sentinels, OneSentinel
  <2>2. InReady' => ~InHand'
    <3> SUFFICES ASSUME NEW i \in DOMAIN ready', ready'[i].kind = "stop", ready[1].kind = "stop"
                 PROVE  FALSE
      BY <1>5 DEF InReady
    <3>1. i + 1 \in DOMAIN ready /\ ready[i + 1].kind = "stop" /\ i + 1 # 1
      BY <1>2, <1>4
    <3> QED BY <1>4, <3>1 DEF Sentinels, OneSentinel
  <2> QED BY <1>1, <1>5, <2>1, <2>2 DEF Sentinels, OneSentinel
<1>8. InFront'
  <2>1. mustRun' \subseteq Ids(delivered') \cup Ids(ready') \cup Ids(pending')
    BY <1>1, <1>3 DEF Sentinels, InFront
  <2>2. ASSUME NEW i \in DOMAIN pending', pending'[i].kind = "stop", NEW m \in mustRun'
        PROVE  \/ m \in Ids(delivered') \cup Ids(ready')
               \/ \E j \in DOMAIN pending' : j < i /\ pending'[j].id = m
    BY <1>1, <1>3, <2>2 DEF Sentinels, InFront
  <2>3. ASSUME NEW i \in DOMAIN ready', ready'[i].kind = "stop", NEW m \in mustRun'
        PROVE  m \in Ids(delivered') \/ \E j \in DOMAIN ready' : j < i /\ ready'[j].id = m
    <3>1. m \in Ids(delivered) \/ \E j \in DOMAIN ready : j < i + 1 /\ ready[j].id = m
      BY <1>1, <1>4, <2>3 DEF Sentinels, InFront
    <3>2. ASSUME NEW j \in DOMAIN ready, j < i + 1, ready[j].id = m, j # 1
          PROVE  j - 1 \in DOMAIN ready' /\ j - 1 < i /\ ready'[j - 1].id = m
      BY <1>2, <3>2
    <3>3. m # 0
      BY <1>1, <1>t, <2>3
    <3> QED BY <1>3, <3>1, <3>2, <3>3
  <2>4. InHand' => mustRun' \subseteq Ids(delivered')
    <3> SUFFICES ASSUME ready[1].kind = "stop", NEW m \in mustRun PROVE m \in Ids(delivered')
      BY <1>1, <1>5
    <3>1. m \in Ids(delivered) \/ \E j \in DOMAIN ready : j < 1 /\ ready[j].id = m
      BY <1>4 DEF Sentinels, InFront
    <3> QED BY <1>2, <1>3, <3>1
  <2> QED BY <1>1, <2>1, <2>2, <2>3, <2>4 DEF InFront, Ids
<1> QED BY <1>6, <1>7, <1>8 DEF Sentinels

\* The worker exits with the sentinel in hand, or goes on.
LEMMA SentinelsHandle ==
    ASSUME TypeOK, Sentinels, WorkerHandle, ~astray'
    PROVE  Sentinels'
<1>1. /\ wpc = "handle" /\ witem.kind # "quit" /\ wpc' = IF witem.kind = "go" THEN "pop" ELSE "exited"
      /\ UNCHANGED <<pending, ready, delivered, mustRun, pc, started>>
  BY DEF WorkerHandle, queue, caller
<1>2. witem.kind \in {"go", "stop"}
  BY <1>1 DEF TypeOK, Item, Kind
<1>3. InPending' = InPending /\ InReady' = InReady /\ ~InHand' /\ (InHand <=> wpc' = "exited")
  BY <1>1, <1>2 DEF InPending, InReady, InHand
<1>4. NoSentinelYet'
  BY <1>1, <1>2, <1>3 DEF Sentinels, NoSentinelYet
<1>5. OneSentinel'
  BY <1>1, <1>3 DEF Sentinels, OneSentinel
<1>6. InFront'
  BY <1>1, <1>3 DEF Sentinels, InFront, Ids
<1> QED BY <1>4, <1>5, <1>6 DEF Sentinels

\* Until a handler makes the worker quit, every step keeps the sentinel behind what
\* must be handled.
LEMMA SentinelStep ==
    ASSUME PCInv, [Next]_vars, ~astray'
    PROVE  Sentinels'
<1>i. TypeOK /\ Stopping /\ OwnItems /\ HandEmpty
  BY DEF PCInv
<1>t. pc \in [Callers -> CallerLabel] /\ wpc \in WorkerLabel
  BY <1>i DEF TypeOK
<1>c. Control \in Callers /\ \A t \in Posters : t \in Callers /\ t # Control
  BY ControlAssumption DEF Callers
<1> USE DEF Goto, PostReturn, queue, caller, worker, bounds, history
<1>q. ~astray
  BY DEF Next, vars, PostStep, WorkerStep, StopStep, PostCall, PostRead, PostFull, PostRoom,
         PostRetry, PostOverrun, PostReserve, PostCommit, PostCount, PostSignal, WorkerPop, WorkerPopEmpty, WorkerSleep, WorkerTimeout,
         WorkerCount, WorkerHandle, Start, StopCall, StopClear, StopJoin, Release
<1>s. Sentinels /\ NoSentinelYet /\ OneSentinel
  BY <1>q DEF PCInv, Sentinels
<1>k. ASSUME UNCHANGED <<pending, ready, delivered, mustRun, witem, started>>,
             \/ wpc' = wpc
             \/ wpc \in {"dec", "handle"} /\ wpc' \in {"dec", "handle"}
             \/ wpc \notin {"dec", "handle"} /\ wpc' \in {"pop", "wait", "asleep"},
             \/ pc'[Control] = pc[Control]
             \/ /\ pc'[Control] \in {"push", "push_full", "push_cas"}
                /\ pc[Control] \in {"push", "push_full", "push_cas"}
             \/ pc'[Control] \in {"clear", "signal"} /\ pc[Control] # "idle"
      PROVE  Sentinels'
  <2>1. InPending' = InPending /\ InReady' = InReady /\ InHand' = InHand
    BY <1>k DEF InPending, InReady, InHand
  <2>2. NoSentinelYet'
    BY <1>k, <1>s, <2>1 DEF NoSentinelYet
  <2> QED BY <1>k, <1>s, <2>1, <2>2, SentinelsKept
<1>1. CASE UNCHANGED vars
  BY <1>1, <1>k DEF vars
<1>2. ASSUME NEW t \in Posters, PostCall(t) PROVE Sentinels'
  BY <1>2, <1>t, <1>c, <1>k DEF PostCall
<1>17. ASSUME NEW t \in Callers, PostRoom(t) \/ PostRetry(t) \/ PostOverrun(t) PROVE Sentinels'
  BY <1>17, <1>t, <1>c, <1>k DEF PostRoom, PostRetry, PostOverrun
<1>3. ASSUME NEW t \in Callers, PostRead(t) PROVE Sentinels'
  BY <1>3, <1>t, <1>c, <1>k DEF PostRead
<1>4. ASSUME NEW t \in Callers, PostFull(t) PROVE Sentinels'
  BY <1>4, <1>t, <1>c, <1>k DEF PostFull
<1>5. ASSUME NEW t \in Callers, PostReserve(t) PROVE Sentinels'
  BY <1>5, <1>i, <1>s, SentinelsReserve
<1>6. ASSUME NEW t \in Callers, PostCommit(t) PROVE Sentinels'
  BY <1>6, <1>i, <1>s, SentinelsCommit
<1>7. ASSUME NEW t \in Callers, PostCount(t) PROVE Sentinels'
  BY <1>7, <1>t, <1>c, <1>k DEF PostCount
<1>8. ASSUME NEW t \in Callers, PostSignal(t) PROVE Sentinels'
  BY <1>8, <1>t, <1>c, <1>k DEF PostSignal
<1>9. CASE WorkerPop
  BY <1>9, <1>i, <1>s, SentinelsPop
<1>10. CASE WorkerPopEmpty \/ WorkerSleep \/ WorkerTimeout \/ WorkerCount
  BY <1>10, <1>k DEF WorkerPopEmpty, WorkerSleep, WorkerTimeout, WorkerCount
<1>11. CASE WorkerHandle
  BY <1>11, <1>i, <1>s, SentinelsHandle
<1>12. CASE Start
  <2>1. /\ pc[Control] = "idle" /\ pc' = pc /\ wpc' = "pop" /\ wpc \in {"none", "exited"}
        /\ UNCHANGED <<pending, ready, delivered, mustRun>>
    BY <1>12, <1>i DEF Start, Stopping
  <2>2. InHand' = InHand /\ InPending' = InPending /\ InReady' = InReady
    BY <2>1 DEF InHand, InPending, InReady
  <2>3. NoSentinelYet'
    BY <1>s, <2>1, <2>2 DEF NoSentinelYet
  <2> QED BY <1>s, <2>1, <2>2, <2>3, SentinelsKept
<1>13. CASE StopCall
  <2>1. /\ pc[Control] = "idle" /\ pc'[Control] = "push" /\ started
        /\ mustRun' = Ids(delivered) \cup Ids(ready) \cup Ids(pending)
        /\ UNCHANGED <<pending, ready, delivered, started, wpc, witem>>
    BY <1>13, <1>t, <1>c DEF StopCall
  <2>2. InHand' = InHand /\ InPending' = InPending /\ InReady' = InReady
    BY <2>1 DEF InHand, InPending, InReady
  <2>3. ~InHand /\ ~InPending /\ ~InReady /\ wpc # "exited" /\ wpc # "none"
    BY <1>s, <2>1 DEF NoSentinelYet
  <2>4. NoSentinelYet' /\ OneSentinel'
    BY <1>s, <2>1, <2>2, <2>3 DEF NoSentinelYet, OneSentinel
  <2>5. InFront'
    BY <2>1, <2>2, <2>3 DEF InFront, InPending, InReady, Ids
  <2> QED BY <2>4, <2>5 DEF Sentinels
<1>14. CASE StopClear
  BY <1>14, <1>t, <1>c, <1>s, SentinelsKept DEF StopClear, InHand, NoSentinelYet
<1>15. CASE StopJoin
  <2>1. /\ pc'[Control] = "idle" /\ pc[Control] = "join" /\ wpc \in {"none", "exited"} /\ ~started
        /\ UNCHANGED <<pending, ready, delivered, mustRun, wpc, witem, started>>
    BY <1>15, <1>t, <1>c, <1>i DEF StopJoin, Stopping
  <2>2. InHand' = InHand /\ InPending' = InPending /\ InReady' = InReady
    BY <2>1 DEF InHand, InPending, InReady
  <2>3. NoSentinelYet'
    BY <1>s, <2>1, <2>2 DEF NoSentinelYet, OneSentinel, InHand
  <2> QED BY <1>s, <2>1, <2>2, <2>3, SentinelsKept
<1>16. CASE Release
  BY <1>16, <1>k DEF Release
<1> QED
  BY <1>1, <1>2, <1>3, <1>4, <1>5, <1>6, <1>7, <1>8, <1>9, <1>10, <1>11, <1>12, <1>13, <1>14, <1>15, <1>16, <1>17
  DEF Next, PostStep, WorkerStep, StopStep

-----------------------------------------------------------------------------
(* The theorems *)

\* PCInv is an inductive invariant of the producer-consumer.
THEOREM PCInvariant == Spec => []PCInv
<1>1. Init => PCInv
  <2> SUFFICES ASSUME Init PROVE PCInv
    OBVIOUS
  <2>s. Sentinel \in Item /\ Control \in Callers
    BY BoundsAssumption DEF Sentinel, Item, Kind, Callers
  <2>1. TypeOK
    <3>1. /\ pending = <<>> /\ ready = <<>> /\ delivered = <<>>
          /\ <<>> \in Seq(Item) /\ Len(<<>>) + Len(<<>>) <= QueSize - 1
      BY QueSizeAssumption DEF Init, Q!FifoInit
    <3>2. count \in 0 .. Wrap - 1 /\ posts \in 0 .. MaxPost /\ starts \in 0 .. MaxStart
      BY WrapAssumption, BoundsAssumption DEF Init
    <3> QED BY <2>s, <3>1, <3>2 DEF Init, TypeOK, CallerLabel, WorkerLabel
  <2>2. Counted
    <3>1. Adding = {} /\ Popped = 0 /\ Len(ready) = 0 /\ count = 0
      BY DEF Init, Q!FifoInit, Adding, Popped
    <3>2. 0 % Wrap = 0
      BY WrapAssumption
    <3> QED BY <3>1, <3>2, FS_EmptySet DEF Counted
  <2>3. Stopping /\ OwnItems /\ HandEmpty
    BY <2>s DEF Init, Stopping, OwnItems, HandEmpty, Callers
  <2>4. Sentinels
    BY <2>s DEF Init, Q!FifoInit, Sentinels, NoSentinelYet, OneSentinel, InFront, InPending, InReady, InHand, Ids
  <2> QED BY <2>1, <2>2, <2>3, <2>4 DEF PCInv
<1>2. PCInv /\ [Next]_vars => PCInv'
  <2> SUFFICES ASSUME PCInv, [Next]_vars PROVE PCInv'
    OBVIOUS
  <2>1. TypeOK /\ Counted /\ Stopping /\ OwnItems /\ HandEmpty
    BY DEF PCInv
  <2>2. TypeOK'
    BY <2>1, TypeStep
  <2>3. Counted'
    BY <2>1, CountedStep
  <2>4. Stopping' /\ OwnItems' /\ HandEmpty'
    BY <2>1, ControlStep
  <2>5. ~astray' => Sentinels'
    BY SentinelStep
  <2> QED BY <2>2, <2>3, <2>4, <2>5 DEF PCInv
<1> QED BY <1>1, <1>2, PTL DEF Spec

\* However posts, pops and the two counter updates interleave, and whatever the width
\* of the counter: ztl_pc_pending is off only by the updates that are still to come.
THEOREM CountIsExact == Spec => []CountExact
<1>1. PCInv => CountExact
  <2> SUFFICES ASSUME PCInv PROVE CountExact
    OBVIOUS
  <2> DEFINE n == Len(ready) + Popped - Cardinality(Adding)
  <2>1. ready \in Seq(Item) /\ count = n % Wrap
    BY DEF PCInv, TypeOK, Counted
  <2>2. /\ Len(ready) \in Nat /\ Popped \in {0, 1} /\ Cardinality(Adding) \in Nat
        /\ n \in Int /\ n + Cardinality(Adding) = Len(ready) + Popped /\ Cardinality(Adding) \in Int
    BY <2>1, SeqMoves, AddingFinite DEF Popped
  <2>3. ((n % Wrap) + Cardinality(Adding)) % Wrap = (n + Cardinality(Adding)) % Wrap
    <3>1. \A a, k \in Int : ((a % Wrap) + k) % Wrap = (a + k) % Wrap
      BY WrapAssumption, ModAdd
    <3> HIDE DEF n
    <3> QED BY <2>2, <3>1, Zenon
  <2>4. (count + Cardinality(Adding)) % Wrap = (Len(ready) + Popped) % Wrap
    BY <2>1, <2>2, <2>3
  <2> QED BY <2>4 DEF CountExact, Adding, Popped
<1> QED BY <1>1, PCInvariant, PTL

\* Whenever ztl_pc_stop returns, and no handler has made the worker quit, everything
\* accepted before its call has been handled; and no worker is left running.
THEOREM StopDrains == Spec => []DrainedOnStop
<1>1. PCInv => DrainedOnStop
  <2> SUFFICES ASSUME PCInv PROVE DrainedOnStop
    OBVIOUS
  <2>1. Stopping /\ HandEmpty /\ mustRun \subseteq 1 .. MaxPost
    BY DEF PCInv, TypeOK
  <2>2. ASSUME pc[Control] = "join", wpc = "exited", ~astray PROVE mustRun \subseteq Handled
    <3>1. mustRun \subseteq Ids(delivered)
      BY <2>2 DEF PCInv, Sentinels, InFront
    <3>2. witem.id = 0
      BY <2>1, <2>2 DEF HandEmpty, Sentinel
    <3> QED BY <2>1, <3>1, <3>2, BoundsAssumption DEF Handled
  <2> QED BY <2>1, <2>2 DEF DrainedOnStop, Stopping
<1> QED BY <1>1, PCInvariant, PTL
=============================================================================
