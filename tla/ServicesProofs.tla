---------------------------- MODULE ServicesProofs ----------------------------
(***************************************************************************)
(* Proofs about the parts MCServices puts together.  A behaviour exercises *)
(* one part, so that an invariant of a part is one of the composition.     *)
(***************************************************************************)
EXTENDS MCServices, FiniteSetTheorems, SequenceTheorems, WellFoundedInduction, TLAPS

\* A step of another part leaves the dispatcher alone.
LEMMA DispatcherSteps ==
    ASSUME [Next]_vars, part' = "dispatcher"
    PROVE  part = "dispatcher" /\ (Evd!EvdNext \/ UNCHANGED evdVars)
  BY DEF Next, QueuePart, DispatcherPart, LoggerPart, ServerPart, ClientPart,
         NotQueue, NotServer, NotClient, vars

-----------------------------------------------------------------------------
(* The event dispatcher *)

Event == [id : Nat \ {0}, type : 0 .. MAX_EVID - 1]
Handling == [ev : Event, ran : Seq(Handlers), due : Seq(Handlers)]

EvdTypes ==
    /\ evtable \in [0 .. MAX_EVID - 1 -> Seq(Handlers)]
    /\ posted \in Seq(Event) /\ evque \in Seq(Event \cup {Evd!Sentinel})
    /\ cur \in [ev : Event \cup {Evd!Nothing}, i : Nat]
    /\ ran \in Seq(Handlers)
    /\ handled \in Seq(Handling)
    /\ evState \in {"none", "worker", "unmade", "released"}
    /\ evStop \in {"new", "pushed", "cleared", "done"}
    /\ posting \subseteq 0 .. MAX_EVID - 1 /\ promised \in Nat

\* The events that the worker has taken from the queue.
Taken == Len(handled) + (IF cur.ev = Evd!Nothing THEN 0 ELSE 1)

\* Without a sentinel the queue holds the events that are not taken, in order.
Plain ==
    /\ Len(posted) = Taken + Len(evque)
    /\ \A k \in 1 .. Len(evque) : evque[k] = posted[Taken + k]

\* With one, it stands behind the events promised, and the others behind it.
Marked(s) ==
    /\ s \in 1 .. Len(evque) /\ s + Taken = promised + 1
    /\ Len(posted) + 1 = Taken + Len(evque)
    /\ evque[s] = Evd!Sentinel
    /\ \A k \in 1 .. Len(evque) : /\ k < s => evque[k] = posted[Taken + k]
                                  /\ k > s => evque[k] = posted[Taken + k - 1]
    /\ evStop \in {"pushed", "cleared"} \/ (evState = "unmade" /\ evStarted = FALSE)

Queued == Plain \/ \E s \in Nat : Marked(s)

\* A worker that has ended did so at the sentinel, having done what was promised.
Stopping ==
    /\ evState # "worker" => cur.ev = Evd!Nothing
    /\ evState = "none" => Plain
    /\ evStop = "cleared" => evStarted = FALSE
    /\ evState = "none" /\ evStop \in {"new", "done"} => evStarted = FALSE
    /\ evState = "none" /\ evStop # "new" => promised <= Len(handled)
    /\ evState = "worker" /\ evStop = "done" => promised <= Len(handled)
    /\ Taken <= Len(posted)

\* The handlers that ran for the event in hand are the first of its type.
Running ==
    cur.ev # Evd!Nothing =>
      /\ cur.ev = posted[Len(handled) + 1]
      /\ Len(ran) = cur.i - 1 /\ Len(ran) <= Len(evtable[cur.ev.type])
      /\ \A k \in 1 .. Len(ran) : ran[k] = evtable[cur.ev.type][k]

Done == \A i \in 1 .. Len(handled) : handled[i].ev = posted[i] /\ handled[i].ran = handled[i].due

EvdInv == EvdTypes /\ (evState = "released" \/ Queued) /\ Running /\ Done /\ Stopping

\* An event is not the value for none, nor the sentinel.
LEMMA EventFacts ==
    ASSUME NEW e \in Event
    PROVE  e # Evd!Sentinel /\ e # Evd!Nothing /\ e.type \in 0 .. MAX_EVID - 1
  BY DEF Event, Evd!Sentinel, Evd!Nothing

\* Registering a handler adds it behind those of its type.
LEMMA Registering ==
    ASSUME EvdTypes, NEW e \in 0 .. MAX_EVID, NEW h \in Handlers, Evd!Registered(e, h)
    PROVE  /\ evtable' \in [0 .. MAX_EVID - 1 -> Seq(Handlers)]
           /\ \A f \in 0 .. MAX_EVID - 1 :
                /\ Len(evtable[f]) <= Len(evtable'[f])
                /\ \A k \in 1 .. Len(evtable[f]) : evtable'[f][k] = evtable[f][k]
<1>1. /\ e \in 0 .. MAX_EVID - 1 /\ evtable[e] \in Seq(Handlers)
      /\ evtable' = [evtable EXCEPT ![e] = Append(evtable[e], h)]
  BY EvdAssumption DEF Evd!Registered, EvdTypes
<1>2. ASSUME NEW s \in Seq(Handlers)
      PROVE  /\ Append(s, h) \in Seq(Handlers) /\ Len(s) <= Len(Append(s, h))
             /\ \A k \in 1 .. Len(s) : Append(s, h)[k] = s[k]
  OBVIOUS
<1>3. /\ Append(evtable[e], h) \in Seq(Handlers) /\ Len(evtable[e]) <= Len(Append(evtable[e], h))
      /\ \A k \in 1 .. Len(evtable[e]) : Append(evtable[e], h)[k] = evtable[e][k]
  BY <1>1, <1>2, Zenon
<1>4. \A f \in 0 .. MAX_EVID - 1 : Len(evtable[f]) <= Len(evtable[f])
  BY DEF EvdTypes
<1> QED BY <1>1, <1>3, <1>4 DEF EvdTypes

\* Without a sentinel to come the queue is plain.
LEMMA PlainQueue ==
    ASSUME EvdInv, evState # "released", evStop \in {"new", "done"}, evState # "unmade" \/ evStarted # FALSE
    PROVE  Plain
  BY DEF EvdInv, Queued, Marked

\* A pushed event is behind the others.
LEMMA PushKeepsQueued ==
    ASSUME EvdInv, NEW e \in 0 .. MAX_EVID, Evd!PostPush(e), evState # "released"
    PROVE  (Plain => Plain') /\ Queued'
<1>0. EvdTypes /\ Queued
  BY DEF EvdInv
<1>1. UNCHANGED <<evState, evStarted, evStop, cur, handled, promised>>
  BY DEF Evd!PostPush
<1>2. Taken' = Taken /\ Taken \in Nat
  BY <1>0, <1>1 DEF Taken, EvdTypes
<1>3. CASE UNCHANGED <<evque, posted>>
  BY <1>0, <1>1, <1>2, <1>3 DEF Queued, Plain, Marked
<1>4. CASE evque' = Append(evque, [id |-> Len(posted) + 1, type |-> e])
           /\ posted' = Append(posted, [id |-> Len(posted) + 1, type |-> e])
  <2>1. PICK v : v = [id |-> Len(posted) + 1, type |-> e]
    OBVIOUS
  <2>2. /\ Len(posted') = Len(posted) + 1 /\ Len(evque') = Len(evque) + 1
        /\ posted'[Len(posted) + 1] = v /\ evque'[Len(evque) + 1] = v
        /\ \A k \in 1 .. Len(posted) : posted'[k] = posted[k]
        /\ \A k \in 1 .. Len(evque) : evque'[k] = evque[k]
        /\ Len(posted) \in Nat /\ Len(evque) \in Nat
    BY <1>0, <1>4, <2>1 DEF EvdTypes
  <2>3. ASSUME Plain PROVE Plain'
    <3>1. ASSUME NEW k \in 1 .. Len(evque') PROVE evque'[k] = posted'[Taken + k]
      <4>1. CASE k \in 1 .. Len(evque)
        BY <1>2, <2>2, <2>3, <4>1 DEF Plain
      <4>2. CASE k = Len(evque) + 1
        BY <1>2, <2>2, <2>3, <4>2 DEF Plain
      <4> QED BY <2>2, <4>1, <4>2
    <3> QED BY <1>2, <2>2, <2>3, <3>1 DEF Plain
  <2>4. ASSUME NEW s \in Nat, Marked(s) PROVE Marked(s)'
    <3>1. /\ s \in 1 .. Len(evque) /\ s + Taken = promised + 1 /\ Len(posted) + 1 = Taken + Len(evque)
          /\ evque[s] = Evd!Sentinel
          /\ \A k \in 1 .. Len(evque) : /\ k < s => evque[k] = posted[Taken + k]
                                        /\ k > s => evque[k] = posted[Taken + k - 1]
          /\ evStop \in {"pushed", "cleared"} \/ (evState = "unmade" /\ evStarted = FALSE)
      BY <2>4 DEF Marked
    <3>2. ASSUME NEW k \in 1 .. Len(evque')
          PROVE  /\ k < s => evque'[k] = posted'[Taken + k]
                 /\ k > s => evque'[k] = posted'[Taken + k - 1]
      <4>1. CASE k \in 1 .. Len(evque)
        <5>1. k < s => Taken + k \in 1 .. Len(posted)
          BY <1>2, <2>2, <3>1, <4>1
        <5>2. k > s => Taken + k - 1 \in 1 .. Len(posted)
          BY <1>2, <2>2, <3>1, <4>1
        <5> QED BY <2>2, <3>1, <4>1, <5>1, <5>2
      <4>2. CASE k = Len(evque) + 1
        <5>1. Taken + k - 1 = Len(posted) + 1 /\ ~(k < s)
          BY <1>2, <2>2, <3>1, <4>2
        <5> QED BY <2>2, <4>2, <5>1
      <4> QED BY <2>2, <4>1, <4>2
    <3>3. s \in 1 .. Len(evque') /\ evque'[s] = Evd!Sentinel /\ Len(posted') + 1 = Taken + Len(evque')
      BY <1>2, <2>2, <3>1
    <3> QED BY <1>1, <1>2, <3>1, <3>2, <3>3 DEF Marked
  <2> QED BY <1>0, <2>3, <2>4 DEF Queued
<1> QED BY <1>3, <1>4 DEF Evd!PostPush

\* Every step of the dispatcher keeps EvdInv.
LEMMA EvdStep == EvdInv /\ (Evd!EvdNext \/ UNCHANGED evdVars) => EvdInv'
<1> SUFFICES ASSUME EvdInv, Evd!EvdNext \/ UNCHANGED evdVars PROVE EvdInv'
  OBVIOUS
<1> USE EvdAssumption
<1>0. EvdTypes /\ (evState = "released" \/ Queued) /\ Running /\ Done /\ Stopping
  BY DEF EvdInv
<1>1. ASSUME NEW e \in 0 .. MAX_EVID, Evd!PostTest(e) PROVE EvdInv'
  <2>1. /\ e \in 0 .. MAX_EVID - 1 /\ posting' = posting \cup {e}
        /\ UNCHANGED <<evtable, evque, evStarted, evState, evStop, cur, ran, posted, handled, promised>>
    BY <1>1 DEF Evd!PostTest
  <2>2. EvdTypes'
    BY <1>0, <2>1 DEF EvdTypes
  <2>3. Taken' = Taken
    BY <2>1 DEF Taken
  <2>4. (evState' = "released" \/ Queued') /\ (Plain' <=> Plain)
    BY <1>0, <2>1, <2>3 DEF Queued, Plain, Marked
  <2> QED BY <1>0, <2>1, <2>2, <2>3, <2>4 DEF EvdInv, Running, Done, Stopping
<1>2. ASSUME NEW e \in 0 .. MAX_EVID, Evd!PostPush(e) PROVE EvdInv'
  <2> DEFINE v == [id |-> Len(posted) + 1, type |-> e]
  <2>1. /\ e \in posting /\ posting' = posting \ {e}
        /\ (evque' = Append(evque, v) /\ posted' = Append(posted, v)) \/ UNCHANGED <<evque, posted>>
        /\ UNCHANGED <<evtable, evStarted, evState, evStop, cur, ran, handled, promised>>
    BY <1>2 DEF Evd!PostPush
  <2>2. v \in Event
    BY <1>0, <2>1 DEF Event, EvdTypes
  <2> HIDE DEF v
  <2>10. posted \in Seq(Event) /\ evque \in Seq(Event \cup {Evd!Sentinel}) /\ handled \in Seq(Handling)
    BY <1>0 DEF EvdTypes
  <2>11. /\ posted' \in Seq(Event) /\ Len(posted) <= Len(posted')
         /\ \A k \in 1 .. Len(posted) : posted'[k] = posted[k]
    <3>1. CASE posted' = Append(posted, v)
      BY <2>2, <2>10, <3>1
    <3>2. CASE posted' = posted
      BY <2>10, <3>2
    <3> QED BY <2>1, <3>1, <3>2
  <2>12. evque' \in Seq(Event \cup {Evd!Sentinel})
    <3>1. CASE evque' = Append(evque, v)
      BY <2>2, <2>10, <3>1
    <3>2. CASE evque' = evque
      BY <2>10, <3>2
    <3> QED BY <2>1, <3>1, <3>2
  <2>3. EvdTypes'
    BY <1>0, <2>1, <2>11, <2>12 DEF EvdTypes
  <2>4. /\ Len(posted) \in Nat /\ Len(posted') \in Nat /\ Len(posted) <= Len(posted')
        /\ \A k \in 1 .. Len(posted) : posted'[k] = posted[k]
        /\ Len(handled) \in Nat /\ Taken \in Nat /\ Taken' = Taken
    BY <2>1, <2>10, <2>11 DEF Taken
  <2>5. Len(handled) <= Len(posted) /\ (cur.ev # Evd!Nothing => Len(handled) + 1 <= Len(posted))
    BY <1>0, <2>4 DEF Taken, Stopping
  <2>6. Running' /\ Done'
    BY <1>0, <2>1, <2>4, <2>5 DEF Running, Done
  <2>7. (evState' = "released" \/ Queued') /\ (evState' = "none" => Plain')
    <3>1. CASE evState = "released"
      BY <2>1, <3>1
    <3>2. CASE evState # "released"
      BY <1>0, <1>2, <2>1, <3>2, PushKeepsQueued DEF Stopping
    <3> QED BY <3>1, <3>2
  <2>8. Stopping'
    BY <1>0, <2>1, <2>4, <2>7 DEF Stopping
  <2> QED BY <2>3, <2>6, <2>7, <2>8 DEF EvdInv
<1>3. ASSUME NEW e \in 0 .. MAX_EVID, NEW h \in Handlers, Evd!ztl_evd_register(e, h) PROVE EvdInv'
  <2>1. /\ Evd!Registered(e, h) /\ evState = "none"
        /\ UNCHANGED <<evque, evStarted, evState, evStop, posting, cur, ran, posted, handled, promised>>
    BY <1>3 DEF Evd!ztl_evd_register
  <2>2. EvdTypes'
    BY <1>0, <2>1, Registering DEF EvdTypes
  <2>3. Queued' /\ Running' /\ Done' /\ Stopping'
    BY <1>0, <2>1 DEF Queued, Plain, Marked, Taken, Running, Done, Stopping
  <2> QED BY <2>2, <2>3 DEF EvdInv
<1>4. CASE Evd!ztl_evd_start
  <2>1. /\ evState = "none" /\ evStop \in {"new", "done"} /\ evStarted' = TRUE
        /\ evState' = "worker" \/ (evStop = "new" /\ evState' = "unmade")
        /\ UNCHANGED <<evtable, evque, evStop, posting, cur, ran, posted, handled, promised>>
    BY <1>4 DEF Evd!ztl_evd_start
  <2>2. EvdTypes'
    BY <1>0, <2>1 DEF EvdTypes
  <2>3. Taken' = Taken /\ Plain /\ Plain'
    BY <1>0, <2>1 DEF Taken, Plain, Stopping
  <2> QED BY <1>0, <2>1, <2>2, <2>3 DEF EvdInv, Queued, Running, Done, Stopping
<1>5. CASE Evd!EvdPop
  <2>1. /\ evque # <<>> /\ evque' = Tail(evque) /\ ran' = <<>> /\ cur.ev = Evd!Nothing
        /\ UNCHANGED <<evtable, evStarted, evStop, posting, posted, handled, promised>> /\ evState = "worker"
    BY <1>5 DEF Evd!EvdPop
  <2>2. /\ Len(handled) \in Nat /\ Len(posted) \in Nat /\ Len(evque) \in Nat /\ Len(evque) >= 1
        /\ Len(evque') = Len(evque) - 1 /\ Head(evque) = evque[1]
        /\ \A k \in 1 .. Len(evque) - 1 : evque'[k] = evque[k + 1]
        /\ evque' \in Seq(Event \cup {Evd!Sentinel})
    BY <1>0, <2>1 DEF EvdTypes
  <2>3. Taken = Len(handled) /\ Queued
    BY <1>0, <2>1, <2>2 DEF Taken
  <2>4. ASSUME NEW k \in 1 .. Len(posted) PROVE posted[k] # Evd!Sentinel
    BY <1>0, EventFacts DEF EvdTypes
  <2>5. CASE Head(evque) = Evd!Sentinel
    <3>1. evState' = "none" /\ cur' = cur
      BY <1>5, <2>5 DEF Evd!EvdPop
    <3>2. Taken' = Taken
      BY <2>1, <3>1 DEF Taken
    <3>3. ~Plain
      <4>1. Len(posted) = Taken + Len(evque) => Taken + 1 \in 1 .. Len(posted)
        BY <2>2, <2>3
      <4> QED BY <2>2, <2>4, <2>5, <4>1 DEF Plain
    <3>4. PICK s \in Nat : Marked(s)
      BY <2>3, <3>3 DEF Queued
    <3>5. /\ s \in 1 .. Len(evque) /\ s + Taken = promised + 1 /\ Len(posted) + 1 = Taken + Len(evque)
          /\ \A k \in 1 .. Len(evque) : /\ k < s => evque[k] = posted[Taken + k]
                                        /\ k > s => evque[k] = posted[Taken + k - 1]
          /\ evStop \in {"pushed", "cleared"}
      BY <2>1, <3>4 DEF Marked
    <3>6. s = 1
      <4>1. 1 < s => Taken + 1 \in 1 .. Len(posted) /\ evque[1] = posted[Taken + 1]
        <5>1. PICK m \in Nat, n \in Nat : m = Len(evque) /\ n = Len(posted)
          BY <2>2
        <5>2. Taken \in Nat /\ s \in 1 .. m /\ n + 1 = Taken + m
          BY <2>2, <2>3, <3>5, <5>1
        <5>3. 1 < s => evque[1] = posted[Taken + 1]
          BY <3>5, <5>1, <5>2
        <5> QED BY <5>1, <5>2, <5>3
      <4> QED BY <2>2, <2>4, <2>5, <3>5, <4>1
    <3>7. promised = Len(handled)
      BY <1>0, <2>2, <2>3, <3>5, <3>6 DEF EvdTypes
    <3>8. Plain'
      <4>1. ASSUME NEW k \in 1 .. Len(evque') PROVE evque'[k] = posted'[Taken' + k]
        <5>1. k + 1 \in 1 .. Len(evque) /\ k + 1 > s /\ Taken + (k + 1) - 1 = Taken' + k /\ k \in 1 .. Len(evque) - 1
          BY <2>2, <2>3, <3>2, <3>6
        <5> QED BY <2>1, <2>2, <3>5, <5>1
      <4> QED BY <2>1, <2>2, <2>3, <3>2, <3>5, <4>1 DEF Plain
    <3>9. EvdTypes'
      BY <1>0, <2>1, <2>2, <3>1 DEF EvdTypes
    <3>10. Running' /\ Done'
      BY <1>0, <2>1, <3>1 DEF Running, Done
    <3>11. Stopping'
      BY <1>0, <2>1, <2>2, <3>1, <3>2, <3>5, <3>7, <3>8 DEF Stopping
    <3> QED BY <3>8, <3>9, <3>10, <3>11 DEF EvdInv, Queued
  <2>6. CASE Head(evque) # Evd!Sentinel
    <3> DEFINE v == Head(evque)
    <3>1. cur' = [ev |-> v, i |-> 1] /\ evState' = evState
      BY <1>5, <2>6 DEF Evd!EvdPop
    <3>2. v \in Event /\ v # Evd!Nothing /\ v.type \in 0 .. MAX_EVID - 1
      BY <1>0, <2>1, <2>2, <2>6, EventFacts DEF EvdTypes
    <3>3. v = posted[Len(handled) + 1] /\ Taken + 1 <= Len(posted)
      <4>1. ASSUME Plain PROVE v = posted[Len(handled) + 1] /\ Taken + 1 <= Len(posted)
        BY <2>2, <2>3, <4>1 DEF Plain
      <4>2. ASSUME NEW s \in Nat, Marked(s) PROVE v = posted[Len(handled) + 1] /\ Taken + 1 <= Len(posted)
        <5>1. s # 1 /\ s \in 1 .. Len(evque) /\ Len(posted) + 1 = Taken + Len(evque)
              /\ \A k \in 1 .. Len(evque) : k < s => evque[k] = posted[Taken + k]
          BY <2>2, <2>6, <4>2 DEF Marked
        <5> QED BY <2>2, <2>3, <5>1
      <4> QED BY <2>3, <4>1, <4>2 DEF Queued
    <3> HIDE DEF v
    <3>4. Taken' = Taken + 1 /\ cur'.ev = v /\ cur'.i = 1
      BY <2>1, <2>2, <2>3, <3>1, <3>2 DEF Taken
    <3>5. EvdTypes'
      BY <1>0, <2>1, <2>2, <3>1, <3>2 DEF EvdTypes
    <3>6. Queued'
      <4>1. ASSUME Plain PROVE Plain'
        <5>1. ASSUME NEW k \in 1 .. Len(evque') PROVE evque'[k] = posted[Taken' + k]
          <6>1. k + 1 \in 1 .. Len(evque) /\ k \in 1 .. Len(evque) - 1 /\ Taken + (k + 1) = Taken' + k
            BY <2>2, <2>3, <3>4
          <6> QED BY <2>2, <4>1, <6>1 DEF Plain
        <5> QED BY <2>1, <2>2, <2>3, <3>4, <4>1, <5>1 DEF Plain
      <4>2. ASSUME NEW s \in Nat, Marked(s) PROVE \E u \in Nat : Marked(u)'
        <5>1. /\ s \in 1 .. Len(evque) /\ s + Taken = promised + 1 /\ Len(posted) + 1 = Taken + Len(evque)
              /\ evque[s] = Evd!Sentinel
              /\ \A k \in 1 .. Len(evque) : /\ k < s => evque[k] = posted[Taken + k]
                                            /\ k > s => evque[k] = posted[Taken + k - 1]
              /\ evStop \in {"pushed", "cleared"} \/ (evState = "unmade" /\ evStarted = FALSE)
          BY <4>2 DEF Marked
        <5>2. s # 1
          BY <2>2, <2>6, <5>1
        <5>3. PICK u \in Nat : u = s - 1
          BY <2>2, <5>1, <5>2
        <5>8. PICK m \in Nat, n \in Nat, q \in Nat : m = Len(handled) /\ n = Len(evque) /\ q = Len(posted)
          BY <2>2
        <5>9. promised \in Nat /\ promised' = promised /\ Len(posted') = q
          BY <1>0, <2>1, <5>8 DEF EvdTypes
        <5>10. Taken = m /\ Taken' = m + 1 /\ Len(evque') = n - 1
          BY <2>2, <2>3, <3>4, <5>8
        <5>11. s \in 1 .. n /\ s + m = promised + 1 /\ q + 1 = m + n
          BY <5>1, <5>8, <5>10
        <5>4. /\ u \in 1 .. n - 1 /\ u + (m + 1) = promised + 1 /\ q + 1 = (m + 1) + (n - 1)
              /\ u + 1 = s
          BY <5>2, <5>3, <5>9, <5>11
        <5>5. evque'[u] = Evd!Sentinel
          BY <2>2, <5>1, <5>4, <5>8
        <5>6. ASSUME NEW k \in 1 .. n - 1
              PROVE  /\ k < u => evque'[k] = posted'[(m + 1) + k]
                     /\ k > u => evque'[k] = posted'[(m + 1) + k - 1]
          <6>1. /\ k + 1 \in 1 .. n
                /\ m + (k + 1) = (m + 1) + k /\ m + (k + 1) - 1 = (m + 1) + k - 1
                /\ (k < u => k + 1 < s) /\ (k > u => k + 1 > s)
            BY <5>4
          <6>2. evque'[k] = evque[k + 1]
            BY <2>2, <5>8
          <6>3. /\ k + 1 < s => evque[k + 1] = posted[m + (k + 1)]
                /\ k + 1 > s => evque[k + 1] = posted[m + (k + 1) - 1]
            BY <5>1, <5>8, <5>10, <6>1
          <6> QED BY <2>1, <6>1, <6>2, <6>3
        <5>7. evStop' \in {"pushed", "cleared"} \/ (evState' = "unmade" /\ evStarted' = FALSE)
          BY <2>1, <3>1, <5>1
        <5> QED BY <5>4, <5>5, <5>6, <5>7, <5>8, <5>9, <5>10 DEF Marked
      <4> QED BY <2>3, <4>1, <4>2 DEF Queued
    <3>7. Running'
      BY <1>0, <2>1, <2>2, <3>2, <3>3, <3>4 DEF Running, EvdTypes
    <3>8. Done'
      BY <1>0, <2>1 DEF Done
    <3>9. Stopping'
      BY <1>0, <2>1, <2>2, <2>3, <3>1, <3>3, <3>4 DEF Stopping
    <3> QED BY <3>5, <3>6, <3>7, <3>8, <3>9 DEF EvdInv
  <2> QED BY <2>5, <2>6
<1>6. CASE Evd!EvdCallback
  <2> DEFINE s == evtable[cur.ev.type]
  <2>1. /\ cur.ev # Evd!Nothing /\ cur.i <= Len(s) /\ ran' = Append(ran, s[cur.i])
        /\ cur' = [cur EXCEPT !.i = @ + 1]
        /\ UNCHANGED evtable \/ \E e \in 0 .. MAX_EVID, h \in Handlers : Evd!Registered(e, h)
        /\ UNCHANGED <<evque, evStarted, evState, evStop, posting, posted, handled, promised>>
    BY <1>6 DEF Evd!EvdCallback
  <2>2. /\ cur.ev \in Event /\ cur.ev.type \in 0 .. MAX_EVID - 1 /\ cur.i \in Nat
        /\ cur'.ev = cur.ev /\ cur'.i = cur.i + 1 /\ cur' \in [ev : Event \cup {Evd!Nothing}, i : Nat]
    <3>1. cur \in [ev : Event \cup {Evd!Nothing}, i : Nat]
      BY <1>0 DEF EvdTypes
    <3>2. cur.ev \in Event /\ cur.i \in Nat
      BY <2>1, <3>1
    <3>3. cur.ev.type \in 0 .. MAX_EVID - 1
      BY <3>2, EventFacts
    <3>4. cur'.ev = cur.ev /\ cur'.i = cur.i + 1 /\ cur' \in [ev : Event \cup {Evd!Nothing}, i : Nat]
      BY <2>1, <3>1
    <3> QED BY <3>2, <3>3, <3>4
  <2>3. /\ s \in Seq(Handlers) /\ Len(s) \in Nat /\ Len(ran) = cur.i - 1 /\ ran \in Seq(Handlers)
        /\ \A k \in 1 .. Len(ran) : ran[k] = s[k]
    BY <1>0, <2>1, <2>2 DEF Running, EvdTypes
  <2>4. /\ evtable' \in [0 .. MAX_EVID - 1 -> Seq(Handlers)]
        /\ Len(s) <= Len(evtable'[cur.ev.type])
        /\ \A k \in 1 .. Len(s) : evtable'[cur.ev.type][k] = s[k]
    <3>1. CASE UNCHANGED evtable
      BY <1>0, <2>3, <3>1 DEF EvdTypes
    <3>2. CASE \E e \in 0 .. MAX_EVID, h \in Handlers : Evd!Registered(e, h)
      BY <1>0, <2>2, <3>2, Registering
    <3> QED BY <2>1, <3>1, <3>2
  <2> HIDE DEF s
  <2>5. s[cur.i] \in Handlers /\ cur.i \in 1 .. Len(s)
    BY <2>1, <2>2, <2>3
  <2>6. /\ ran' \in Seq(Handlers) /\ Len(ran') = Len(ran) + 1
        /\ \A k \in 1 .. Len(ran') : ran'[k] = s[k]
    BY <2>1, <2>2, <2>3, <2>5
  <2>7. Running'
    <3>1. cur'.ev = posted[Len(handled) + 1]
      BY <1>0, <2>1, <2>2 DEF Running
    <3>2. Len(ran') = cur'.i - 1 /\ Len(ran') <= Len(evtable'[cur'.ev.type])
      <4>1. Len(ran') = cur'.i - 1
        BY <2>2, <2>3, <2>6
      <4>2. cur'.i - 1 = cur.i /\ cur.i <= Len(s)
        BY <2>2, <2>3, <2>5
      <4>3. Len(evtable'[cur'.ev.type]) = Len(evtable'[cur.ev.type]) /\ Len(evtable'[cur.ev.type]) \in Nat
        <5>1. evtable'[cur.ev.type] \in Seq(Handlers)
          BY <2>2, <2>4
        <5> QED BY <2>2, <5>1, LenProperties
      <4> QED BY <2>2, <2>3, <2>4, <4>1, <4>2, <4>3
    <3>3. \A k \in 1 .. Len(ran') : ran'[k] = evtable'[cur'.ev.type][k]
      <4>1. Len(ran') <= Len(s)
        BY <2>2, <2>3, <2>5, <2>6
      <4> QED BY <2>2, <2>3, <2>4, <2>6, <4>1
    <3> QED BY <2>1, <3>1, <3>2, <3>3 DEF Running
  <2>8. EvdTypes'
    BY <1>0, <2>1, <2>2, <2>4, <2>6 DEF EvdTypes
  <2>9. Taken' = Taken
    BY <2>1, <2>2 DEF Taken
  <2>10. (evState' = "released" \/ Queued') /\ Done' /\ (Plain' <=> Plain)
    BY <1>0, <2>1, <2>9 DEF Queued, Plain, Marked, Done
  <2>11. Stopping'
    BY <1>0, <2>1, <2>2, <2>9, <2>10 DEF Stopping
  <2> QED BY <2>7, <2>8, <2>10, <2>11 DEF EvdInv
<1>7. CASE Evd!EvdCallbackDone
  <2> DEFINE s == evtable[cur.ev.type]
             r == [ev |-> cur.ev, ran |-> ran, due |-> s]
  <2>1. /\ cur.ev # Evd!Nothing /\ cur.i > Len(s) /\ handled' = Append(handled, r)
        /\ cur' = [ev |-> Evd!Nothing, i |-> 0] /\ ran' = <<>>
        /\ UNCHANGED <<evtable, evque, evStarted, evState, evStop, posting, posted, promised>>
    BY <1>7 DEF Evd!EvdCallbackDone
  <2>2. /\ cur.ev \in Event /\ cur.i \in Nat /\ cur.ev = posted[Len(handled) + 1]
        /\ s \in Seq(Handlers) /\ ran \in Seq(Handlers) /\ Len(ran) = cur.i - 1 /\ Len(ran) <= Len(s)
        /\ \A k \in 1 .. Len(ran) : ran[k] = s[k]
    BY <1>0, <2>1, EventFacts DEF Running, EvdTypes
  <2>3. ran = s
    <3> HIDE DEF s
    <3>1. Len(ran) = Len(s)
      BY <2>1, <2>2
    <3> QED BY <2>2, <3>1, SeqEqual
  <2>4. r \in Handling /\ r.ev = cur.ev /\ r.ran = r.due
    BY <2>2, <2>3 DEF Handling
  <2> HIDE DEF r, s
  <2>5. /\ Len(handled) \in Nat /\ Len(handled') = Len(handled) + 1
        /\ handled' \in Seq(Handling)
        /\ handled'[Len(handled) + 1] = r /\ \A k \in 1 .. Len(handled) : handled'[k] = handled[k]
    BY <1>0, <2>1, <2>4 DEF EvdTypes
  <2>6. EvdTypes'
    BY <1>0, <2>1, <2>5 DEF EvdTypes
  <2>7. Taken' = Taken
    BY <2>1, <2>5 DEF Taken
  <2>8. (evState' = "released" \/ Queued') /\ (Plain' <=> Plain)
    BY <1>0, <2>1, <2>7 DEF Queued, Plain, Marked
  <2>9. Done'
    BY <1>0, <2>1, <2>2, <2>4, <2>5 DEF Done
  <2>10. Running' /\ cur'.ev = Evd!Nothing
    BY <2>1 DEF Running
  <2>11. Stopping'
    BY <1>0, <2>1, <2>5, <2>7, <2>8 DEF Stopping, EvdTypes
  <2> QED BY <2>6, <2>8, <2>9, <2>10, <2>11 DEF EvdInv
<1>8. CASE Evd!StopPush
  <2>1. /\ evStarted = TRUE /\ evStop \in {"new", "done"} /\ evStop' = "pushed"
        /\ evque' = Append(evque, Evd!Sentinel) \/ evque' = evque
        /\ promised' = Len(posted)
        /\ UNCHANGED <<evtable, evStarted, evState, posting, cur, ran, posted, handled>>
    <3>1. evStarted
      BY <1>8 DEF Evd!StopPush
    <3>2. evStarted = TRUE
      BY <1>0, <3>1 DEF EvdTypes
    <3> QED BY <1>8, <3>2 DEF Evd!StopPush
  <2>2. EvdTypes'
    <3>1. evque' \in Seq(Event \cup {Evd!Sentinel})
      <4>1. evque \in Seq(Event \cup {Evd!Sentinel}) /\ Evd!Sentinel \in Event \cup {Evd!Sentinel}
        BY <1>0 DEF EvdTypes
      <4>2. Append(evque, Evd!Sentinel) \in Seq(Event \cup {Evd!Sentinel})
        BY <4>1, AppendProperties, Zenon
      <4> QED BY <2>1, <4>1, <4>2, Zenon
    <3>2. Len(posted) \in Nat
      BY <1>0 DEF EvdTypes
    <3> QED BY <1>0, <2>1, <3>1, <3>2 DEF EvdTypes
  <2>3. Taken' = Taken /\ Taken \in Nat /\ evState # "none"
    BY <1>0, <2>1 DEF Taken, Stopping, EvdTypes
  <2>4. evState = "released" \/ Queued'
    <3>1. CASE evState = "released"
      BY <3>1
    <3>2. CASE evState # "released"
      <4>1. Plain
        BY <2>1, <3>2, PlainQueue
      <4>2. CASE evque' = evque
        BY <2>1, <2>3, <4>1, <4>2 DEF Queued, Plain
      <4>3. CASE evque' = Append(evque, Evd!Sentinel)
        <5>1. /\ Len(evque) \in Nat /\ Len(evque') = Len(evque) + 1 /\ evque'[Len(evque) + 1] = Evd!Sentinel
              /\ \A k \in 1 .. Len(evque) : evque'[k] = evque[k]
          BY <1>0, <4>3 DEF EvdTypes
        <5>2. PICK s \in Nat : s = Len(evque) + 1
          BY <5>1
        <5>3. ASSUME NEW k \in 1 .. Len(evque')
              PROVE  /\ k < s => evque'[k] = posted'[Taken' + k]
                     /\ k > s => evque'[k] = posted'[Taken' + k - 1]
          BY <2>1, <2>3, <4>1, <5>1, <5>2 DEF Plain
        <5>5. s \in 1 .. Len(evque') /\ s + Taken' = promised' + 1 /\ Len(posted') + 1 = Taken' + Len(evque')
          BY <2>1, <2>3, <4>1, <5>1, <5>2 DEF Plain
        <5>4. Marked(s)'
          BY <2>1, <5>1, <5>2, <5>3, <5>5 DEF Marked
        <5> QED BY <5>4 DEF Queued
      <4> QED BY <2>1, <4>2, <4>3
    <3> QED BY <3>1, <3>2
  <2>5. Running' /\ Done'
    BY <1>0, <2>1 DEF Running, Done
  <2>6. Stopping'
    BY <1>0, <2>1, <2>3 DEF Stopping
  <2> QED BY <2>1, <2>2, <2>4, <2>5, <2>6 DEF EvdInv
<1>9. CASE Evd!StopClear
  <2>1. /\ evStop = "pushed" /\ evStop' = "cleared" /\ evStarted' = FALSE
        /\ UNCHANGED <<evtable, evque, evState, posting, cur, ran, posted, handled, promised>>
    BY <1>9 DEF Evd!StopClear
  <2>2. EvdTypes'
    BY <1>0, <2>1 DEF EvdTypes
  <2>3. Taken' = Taken
    BY <2>1 DEF Taken
  <2>4. (evState' = "released" \/ Queued') /\ (Plain' <=> Plain)
    BY <1>0, <2>1, <2>3 DEF Queued, Plain, Marked
  <2> QED BY <1>0, <2>1, <2>2, <2>3, <2>4 DEF EvdInv, Running, Done, Stopping
<1>10. CASE Evd!StopJoin
  <2>1. /\ evStop = "cleared" /\ evStop' = "done" /\ evState # "worker"
        /\ UNCHANGED <<evtable, evque, evStarted, evState, posting, cur, ran, posted, handled, promised>>
    BY <1>10 DEF Evd!StopJoin
  <2>2. EvdTypes'
    BY <1>0, <2>1 DEF EvdTypes
  <2>3. Taken' = Taken
    BY <2>1 DEF Taken
  <2>4. Plain' <=> Plain
    BY <2>1, <2>3 DEF Plain
  <2>5. evState' = "released" \/ Queued'
    <3>1. CASE evState = "unmade"
      <4>1. evStarted = FALSE /\ Queued
        BY <1>0, <2>1, <3>1 DEF Stopping
      <4> QED BY <2>1, <2>3, <2>4, <3>1, <4>1 DEF Queued, Marked
    <3>2. CASE evState = "none"
      BY <1>0, <2>4, <3>2 DEF Stopping, Queued
    <3>3. CASE evState = "released"
      BY <2>1, <3>3
    <3> QED BY <1>0, <2>1, <3>1, <3>2, <3>3 DEF EvdTypes
  <2> QED BY <1>0, <2>1, <2>2, <2>3, <2>4, <2>5 DEF EvdInv, Running, Done, Stopping
<1>11. CASE Evd!ztl_evd_release
  <2>1. /\ evState \in {"none", "unmade"} /\ evState' = "released" /\ evque' = <<>>
        /\ evtable' = [e \in DOMAIN evtable |-> <<>>]
        /\ UNCHANGED <<evStarted, evStop, posting, cur, ran, posted, handled, promised>> /\ cur.ev = Evd!Nothing
    BY <1>0, <1>11 DEF Evd!ztl_evd_release, Stopping
  <2>2. EvdTypes'
    <3>1. evtable' \in [0 .. MAX_EVID - 1 -> Seq(Handlers)]
      <4>1. DOMAIN evtable = 0 .. MAX_EVID - 1 /\ <<>> \in Seq(Handlers)
        BY <1>0 DEF EvdTypes
      <4> QED BY <2>1, <4>1, Zenon
    <3>2. evque' \in Seq(Event \cup {Evd!Sentinel})
      BY <2>1
    <3> QED BY <1>0, <2>1, <3>1, <3>2 DEF EvdTypes
  <2>3. Taken' = Taken
    BY <2>1 DEF Taken
  <2> QED BY <1>0, <2>1, <2>2, <2>3 DEF EvdInv, Running, Done, Stopping
<1>12. CASE UNCHANGED evdVars
  BY <1>0, <1>12 DEF evdVars, EvdInv, EvdTypes, Queued, Plain, Marked, Taken, Running, Done, Stopping
<1> QED BY <1>1, <1>2, <1>3, <1>4, <1>5, <1>6, <1>7, <1>8, <1>9, <1>10, <1>11, <1>12 DEF Evd!EvdNext

\* A function on an initial interval of the numbers is a sequence.
LEMMA FunctionIsSeq ==
    ASSUME NEW S, NEW n \in Nat, NEW f \in [1 .. n -> S]
    PROVE  f \in Seq(S)
<1>1. f \in UNION {[1 .. m -> S] : m \in Nat}
  OBVIOUS
<1> QED BY <1>1, SeqDef, Zenon

\* A sequence that agrees with another as far as it goes is a prefix of it.
LEMMA PrefixByElements ==
    ASSUME NEW S, NEW s \in Seq(S), NEW t \in Seq(S), Len(s) <= Len(t),
           \A i \in 1 .. Len(s) : s[i] = t[i]
    PROVE  SubSeq(s, 1, Len(s)) = SubSeq(t, 1, Len(s))
<1>1. Len(s) \in Nat /\ Len(t) \in Nat
  OBVIOUS
<1>2. (\A i \in 1 .. Len(s) : s[i] \in S) /\ (\A i \in 1 .. Len(s) : t[i] \in S)
  BY <1>1
<1> DEFINE n == Len(s)
<1>3. 1 \in Int /\ n \in Int
  BY <1>1
<1> HIDE DEF n
<1>4. /\ SubSeq(s, 1, n) \in Seq(S) /\ Len(SubSeq(s, 1, n)) = (IF 1 <= n THEN n - 1 + 1 ELSE 0)
      /\ \A i \in 1 .. n - 1 + 1 : SubSeq(s, 1, n)[i] = s[1 + i - 1]
  BY <1>2, <1>3, SubSeqProperties DEF n
<1>5. /\ SubSeq(t, 1, n) \in Seq(S) /\ Len(SubSeq(t, 1, n)) = (IF 1 <= n THEN n - 1 + 1 ELSE 0)
      /\ \A i \in 1 .. n - 1 + 1 : SubSeq(t, 1, n)[i] = t[1 + i - 1]
  BY <1>2, <1>3, SubSeqProperties DEF n
<1> DEFINE a == SubSeq(s, 1, n)
           b == SubSeq(t, 1, n)
<1>6. a \in Seq(S) /\ b \in Seq(S) /\ Len(a) = Len(b) /\ Len(a) = n
  BY <1>1, <1>4, <1>5 DEF n
<1>7. \A i \in 1 .. n : a[i] = b[i]
  BY <1>1, <1>4, <1>5 DEF n
<1> HIDE DEF a, b
<1>8. a = b
  BY <1>6, <1>7, SeqEqual
<1> QED BY <1>8 DEF a, b, n

\* Events are dispatched in the order of the posts, each once, to the handlers of
\* its type in the order of their registration, those registered by a handler of
\* the event included, and a stop that has joined the worker leaves none behind
\* that was accepted before its sentinel.
THEOREM EventsInOrder == Spec => []EvdInOrder
<1> DEFINE I == part = "dispatcher" => EvdInv
<1>1. Init => I
  <2> SUFFICES ASSUME Init, part = "dispatcher" PROVE EvdInv
    OBVIOUS
  <2>1. Evd!EvdInit
    BY DEF Init
  <2>2. EvdTypes
    BY <2>1 DEF Evd!EvdInit, EvdTypes
  <2>3. Queued /\ Running /\ Done /\ Stopping
    BY <2>1 DEF Evd!EvdInit, Queued, Plain, Taken, Running, Done, Stopping
  <2> QED BY <2>2, <2>3 DEF EvdInv
<1>2. I /\ [Next]_vars => I'
  BY DispatcherSteps, EvdStep
<1>3. I => EvdInOrder
  <2> SUFFICES ASSUME EvdInv PROVE Evd!EvdInOrder
    BY DEF EvdInOrder
  <2> DEFINE s == [i \in DOMAIN handled |-> handled[i].ev]
  <2>1. /\ handled \in Seq(Handling)
        /\ posted \in Seq(Event) /\ Len(handled) \in Nat /\ DOMAIN handled = 1 .. Len(handled)
    BY DEF EvdInv, EvdTypes
  <2>2. s \in Seq(Event) /\ Len(s) = Len(handled) /\ \A i \in 1 .. Len(s) : s[i] = handled[i].ev
    <3>1. s \in [1 .. Len(handled) -> Event]
      <4>1. \A i \in 1 .. Len(handled) : handled[i] \in Handling
        BY <2>1
      <4>2. \A i \in 1 .. Len(handled) : handled[i].ev \in Event
        BY <4>1 DEF Handling
      <4> QED BY <2>1, <4>2, Zenon
    <3>2. s \in Seq(Event)
      BY <2>1, <3>1, FunctionIsSeq
    <3>3. DOMAIN s = 1 .. Len(handled)
      BY <2>1
    <3>4. \A i \in 1 .. Len(handled) : s[i] = handled[i].ev
      BY <2>1
    <3> HIDE DEF s
    <3>5. Len(s) = Len(handled)
      BY <2>1, <3>2, <3>3
    <3> QED BY <3>2, <3>4, <3>5
  <2>3. /\ Len(handled) <= Len(posted)
        /\ evStop = "done" /\ evState \in {"none", "worker"} => Len(handled) >= promised
    BY <2>1 DEF EvdInv, Stopping, Taken, EvdTypes
  <2>4. \A i \in 1 .. Len(handled) : handled[i].ev = posted[i] /\ handled[i].ran = handled[i].due
    BY DEF EvdInv, Done
  <2> HIDE DEF s
  <2>5. Len(s) <= Len(posted) /\ SubSeq(s, 1, Len(s)) = SubSeq(posted, 1, Len(s))
    BY <2>1, <2>2, <2>3, <2>4, PrefixByElements
  <2>6. Evd!IsPrefix(s, posted)
    BY <2>5 DEF Evd!IsPrefix
  <2> QED BY <2>1, <2>3, <2>4, <2>6 DEF Evd!EvdInOrder, s
<1> QED BY <1>1, <1>2, <1>3, PTL DEF Spec

-----------------------------------------------------------------------------
(* The logger *)

\* Lines are numbers.
Line == Nat

\* The lines written, in the writer's hands and queued.
Lines(f, w, q) == f \o w \o q

\* The line at the head of the queue passes to the writer.
LEMMA PopJoins ==
    ASSUME NEW f \in Seq(Line), NEW q \in Seq(Line), q # <<>>
    PROVE  Lines(f, <<>>, q) = Lines(f, <<Head(q)>>, Tail(q))
  BY SMTT(60) DEF Lines

\* The line the writer has passes to the file.
LEMMA WriteJoins ==
    ASSUME NEW f \in Seq(Line), NEW q \in Seq(Line), NEW x \in Line
    PROVE  Lines(Append(f, x), <<>>, q) = Lines(f, <<x>>, q)
  BY DEF Lines

\* A line is pushed.
LEMMA PushJoins ==
    ASSUME NEW f \in Seq(Line), NEW w \in Seq(Line), NEW q \in Seq(Line), NEW x \in Line
    PROVE  Append(Lines(f, w, q), x) = Lines(f, w, Append(q, x))
  BY SMTT(60) DEF Lines

\* What is left when the queue is dropped is a prefix.
LEMMA DropLeavesPrefix ==
    ASSUME NEW f \in Seq(Line), NEW q \in Seq(Line)
    PROVE  Lg!IsPrefix(f, Lines(f, <<>>, q))
<1>1. f \o <<>> = f
  BY ConcatEmptySeq, Zenon
<1> DEFINE t == f \o q
<1>2. t \in Seq(Line) /\ Len(t) = Len(f) + Len(q)
      /\ \A i \in 1 .. Len(f) + Len(q) : t[i] = IF i <= Len(f) THEN f[i] ELSE q[i - Len(f)]
  BY ConcatProperties, Zenon
<1>3. Len(f) \in Nat /\ Len(q) \in Nat
  OBVIOUS
<1> HIDE DEF t
<1>4. Len(f) <= Len(t) /\ \A i \in 1 .. Len(f) : f[i] = t[i]
  BY <1>2, <1>3
<1>5. SubSeq(f, 1, Len(f)) = SubSeq(t, 1, Len(f))
  BY <1>2, <1>4, PrefixByElements
<1> QED BY <1>1, <1>4, <1>5 DEF t, Lg!IsPrefix, Lines

WriterAt == {"gone", "loop", "pop", "wait", "asleep", "woken", "dec", "write"}

LogTypes ==
    /\ log \in [mode : {"none", "sync", "async", "udp"}, running : BOOLEAN, level : Int, itemCount : Int,
                sequence : Nat, queue : Seq(Line), file : Seq(Line)]
    /\ gpc \in [LogCallers -> {"idle", "push", "count", "signal"}] /\ line \in [LogCallers -> Line]
    /\ writer \in [at : WriterAt, line : Line]
    /\ closer \in {"no", "signal", "join", "closed"}
    /\ accepted \in Seq(Line)
    /\ rcv \in [running : BOOLEAN, lSequence : Nat, file : Seq(Line)]

\* The line the writer has taken from the queue.
InHand == IF writer.at \in {"dec", "write"} THEN <<writer.line>> ELSE <<>>

\* Who is where in which mode.
LogPhases ==
    /\ log.mode # "async" => writer.at = "gone" /\ \A t \in LogCallers : gpc[t] = "idle"
    /\ log.mode = "none" =>
         /\ log.running = FALSE /\ log.sequence = 0 /\ closer = "no"
         /\ log.queue = <<>> /\ log.file = <<>> /\ accepted = <<>>
    /\ closer # "no" => log.running = FALSE /\ \A t \in LogCallers : gpc[t] = "idle"
    /\ closer = "closed" => writer.at = "gone"

LogFiles ==
    /\ log.mode = "async" /\ closer # "closed" => accepted = Lines(log.file, InHand, log.queue)
    /\ log.mode = "async" /\ closer = "closed" => Lg!IsPrefix(log.file, accepted)
    /\ log.mode = "sync" => Len(log.file) = log.sequence /\ \A i \in 1 .. log.sequence : log.file[i] = i
    /\ net \subseteq 1 .. log.sequence
    /\ \A i \in 1 .. Len(rcv.file) : rcv.file[i] \in 1 .. log.sequence

LogInv == LogTypes /\ LogPhases /\ LogFiles

\* A step that touches neither files nor queue.
LEMMA FilesKept ==
    ASSUME LogFiles, log'.mode = log.mode, log'.file = log.file, log'.queue = log.queue,
           log'.sequence = log.sequence, InHand' = InHand, UNCHANGED accepted,
           net' \subseteq net, rcv'.file = rcv.file,
           (closer = "closed" /\ closer' = "closed") \/ (closer # "closed" /\ closer' # "closed")
    PROVE  LogFiles'
  BY DEF LogFiles

\* Steps of a thread that logs.
LEMMA LogCallerStep ==
    ASSUME LogInv, NEW t \in LogCallers,
           Lg!CallerStep(t) \/ \E l \in {Lg!Levels.DEBUG, Lg!Levels.ERROR} : Lg!LogLine(t, l)
    PROVE  LogInv'
<1>0. LogTypes /\ LogPhases /\ LogFiles
  BY DEF LogInv
<1>1. CASE Lg!LogPush(t)
  <2>1. /\ gpc[t] = "push" /\ gpc' = [gpc EXCEPT ![t] = "count"]
        /\ UNCHANGED <<line, writer, closer, net, rcv>>
        /\ \/ log' = [log EXCEPT !.queue = Append(@, line[t])] /\ accepted' = Append(accepted, line[t])
           \/ UNCHANGED <<log, accepted>>
    BY <1>1 DEF Lg!LogPush
  <2>2. line[t] \in Line /\ log.queue \in Seq(Line) /\ log.file \in Seq(Line) /\ InHand \in Seq(Line)
        /\ log.mode = "async" /\ closer = "no" /\ accepted = Lines(log.file, InHand, log.queue) /\ InHand' = InHand
    <3>1. line[t] \in Line /\ log.queue \in Seq(Line) /\ log.file \in Seq(Line)
      BY <1>0 DEF LogTypes
    <3>2. InHand \in Seq(Line) /\ InHand' = InHand
      <4>1. writer.line \in Line
        BY <1>0 DEF LogTypes
      <4> QED BY <2>1, <4>1 DEF InHand
    <3>3. log.mode = "async" /\ closer = "no"
      BY <1>0, <2>1 DEF LogTypes, LogPhases
    <3>4. accepted = Lines(log.file, InHand, log.queue)
      BY <1>0, <3>3 DEF LogFiles
    <3> QED BY <3>1, <3>2, <3>3, <3>4
  <2>3. CASE log' = [log EXCEPT !.queue = Append(@, line[t])] /\ accepted' = Append(accepted, line[t])
    <3> DEFINE x == line[t]
               q == log.queue
               f == log.file
    <3>1. Append(q, x) \in Seq(Line) /\ Append(accepted, x) \in Seq(Line)
      BY <1>0, <2>2 DEF LogTypes
    <3>2. Append(Lines(f, InHand, q), x) = Lines(f, InHand, Append(q, x))
      <4>1. f \in Seq(Line) /\ InHand \in Seq(Line) /\ q \in Seq(Line) /\ x \in Line
        BY <2>2
      <4> DEFINE w == InHand
      <4> HIDE DEF f, q, x, w
      <4>2. Append(Lines(f, w, q), x) = Lines(f, w, Append(q, x))
        BY <4>1, PushJoins DEF w
      <4> QED BY <4>2 DEF w
    <3>3. log' = [log EXCEPT !.queue = Append(q, x)] /\ accepted' = Append(accepted, x)
      BY <2>3
    <3>4. accepted = Lines(f, InHand, q)
      BY <2>2
    <3> DEFINE qx == Append(q, x)
    <3>5. accepted' = Lines(f, InHand, qx)
      BY <3>2, <3>3, <3>4
    <3>6. qx \in Seq(Line) /\ accepted' \in Seq(Line) /\ log' = [log EXCEPT !.queue = qx]
      BY <3>1, <3>3
    <3> HIDE DEF qx
    <3>7. /\ log'.queue = qx /\ log'.file = log.file /\ log'.mode = log.mode
          /\ log'.running = log.running /\ log'.sequence = log.sequence
      BY <1>0, <3>6 DEF LogTypes
    <3>8. LogTypes'
      BY <1>0, <2>1, <3>6 DEF LogTypes
    <3>9. LogPhases'
      BY <1>0, <2>1, <2>2, <3>7 DEF LogPhases, LogTypes
    <3>10. LogFiles'
      BY <1>0, <2>1, <2>2, <3>5, <3>7 DEF LogFiles
    <3> QED BY <3>8, <3>9, <3>10 DEF LogInv
  <2>4. CASE UNCHANGED <<log, accepted>>
    <3>1. LogTypes' /\ LogPhases'
      BY <1>0, <2>1, <2>2, <2>4 DEF LogTypes, LogPhases
    <3>2. LogFiles'
      BY <1>0, <2>1, <2>2, <2>4, FilesKept
    <3> QED BY <3>1, <3>2 DEF LogInv
  <2> QED BY <2>1, <2>3, <2>4
<1>2. CASE Lg!LogCount(t)
  <2>1. /\ gpc[t] = "count" /\ log' = [log EXCEPT !.itemCount = (@ + 1) % LogWord]
        /\ gpc' = [gpc EXCEPT ![t] = "signal"] \/ gpc' = [gpc EXCEPT ![t] = "idle"]
        /\ UNCHANGED <<line, writer, closer, accepted, net, rcv>>
    BY <1>2 DEF Lg!LogCount
  <2>2. LogTypes'
    <3>1. (log.itemCount + 1) % LogWord \in Int
      BY <1>0, LogAssumption DEF LogTypes
    <3> QED BY <1>0, <2>1, <3>1 DEF LogTypes
  <2>3. /\ log'.queue = log.queue /\ log'.file = log.file /\ log'.mode = log.mode
        /\ log'.running = log.running /\ log'.sequence = log.sequence /\ InHand' = InHand
    BY <1>0, <2>1 DEF LogTypes, InHand
  <2>4. log.mode = "async" /\ closer = "no"
    BY <1>0, <2>1 DEF LogPhases, LogTypes
  <2>5. LogPhases'
    BY <1>0, <2>1, <2>3, <2>4 DEF LogPhases
  <2>6. LogFiles'
    BY <1>0, <2>1, <2>3, <2>4, FilesKept
  <2> QED BY <2>2, <2>5, <2>6 DEF LogInv
<1>3. CASE Lg!LogSignal(t)
  <2>1. /\ gpc[t] = "signal" /\ gpc' = [gpc EXCEPT ![t] = "idle"]
        /\ (writer.at = "asleep" /\ writer' = [writer EXCEPT !.at = "woken"]) \/ writer' = writer
        /\ UNCHANGED <<log, line, closer, accepted, net, rcv>>
    BY <1>3 DEF Lg!LogSignal, Lg!Wake
  <2>2. log.mode = "async" /\ closer = "no"
    BY <1>0, <2>1 DEF LogPhases, LogTypes
  <2>3. LogTypes'
    BY <1>0, <2>1 DEF LogTypes, WriterAt
  <2>4. InHand' = InHand
    BY <1>0, <2>1 DEF LogTypes, InHand
  <2>5. LogPhases'
    BY <1>0, <2>1, <2>2 DEF LogPhases
  <2>6. LogFiles'
    BY <1>0, <2>1, <2>2, <2>4, FilesKept
  <2> QED BY <2>3, <2>5, <2>6 DEF LogInv
<1>4. ASSUME NEW l, Lg!LogLine(t, l) PROVE LogInv'
  <2> DEFINE n == log.sequence + 1
  <2>1. /\ log.running /\ gpc[t] = "idle" /\ line' = [line EXCEPT ![t] = n]
        /\ UNCHANGED <<writer, closer, accepted, rcv>>
    BY <1>4 DEF Lg!LogLine
  <2>2. n \in Nat /\ n \in Line /\ closer = "no" /\ log.mode # "none" /\ InHand' = InHand /\ line' \in [LogCallers -> Line]
    BY <1>0, <2>1 DEF LogTypes, LogPhases, InHand, Line
  <2>3. CASE log.mode = "async"
    <3>1. /\ gpc' = [gpc EXCEPT ![t] = "push"] /\ log' = [log EXCEPT !.sequence = n] /\ net' = net
      BY <1>4, <2>3 DEF Lg!LogLine
    <3> HIDE DEF n
    <3>2. LogTypes'
      BY <1>0, <2>1, <2>2, <3>1 DEF LogTypes
    <3>3. /\ log'.queue = log.queue /\ log'.file = log.file /\ log'.mode = log.mode
          /\ log'.running = log.running /\ log'.sequence = n
      BY <1>0, <3>1 DEF LogTypes
    <3>4. LogPhases'
      BY <1>0, <2>1, <2>2, <2>3, <3>3 DEF LogPhases
    <3>5. \A i \in 1 .. log.sequence : i \in 1 .. n
      BY <1>0 DEF LogTypes, n
    <3>6. LogFiles'
      BY <1>0, <2>1, <2>2, <2>3, <3>1, <3>3, <3>5 DEF LogFiles
    <3> QED BY <3>2, <3>4, <3>6 DEF LogInv
  <2>4. CASE log.mode = "udp"
    <3>1. /\ gpc' = gpc /\ log' = [log EXCEPT !.sequence = n] /\ net' = net \cup {n}
      BY <1>4, <2>4 DEF Lg!LogLine
    <3> HIDE DEF n
    <3>2. LogTypes'
      BY <1>0, <2>1, <2>2, <3>1 DEF LogTypes
    <3>3. /\ log'.queue = log.queue /\ log'.file = log.file /\ log'.mode = log.mode
          /\ log'.running = log.running /\ log'.sequence = n
      BY <1>0, <3>1 DEF LogTypes
    <3>4. LogPhases'
      BY <1>0, <2>1, <2>2, <2>4, <3>1, <3>3 DEF LogPhases
    <3>5. n \in 1 .. n /\ \A i \in 1 .. log.sequence : i \in 1 .. n
      BY <1>0 DEF LogTypes, n
    <3>6. LogFiles'
      BY <1>0, <2>1, <2>2, <2>4, <3>1, <3>3, <3>5 DEF LogFiles
    <3> QED BY <3>2, <3>4, <3>6 DEF LogInv
  <2>5. CASE log.mode = "sync"
    <3> DEFINE f == log.file
               g == Append(f, n)
    <3>1. /\ gpc' = gpc /\ log' = [log EXCEPT !.sequence = n, !.file = g] /\ net' = net
      BY <1>4, <2>5 DEF Lg!LogLine
    <3>2. f \in Seq(Line) /\ Len(f) = log.sequence /\ \A i \in 1 .. log.sequence : f[i] = i
      BY <1>0, <2>5 DEF LogTypes, LogFiles
    <3> HIDE DEF f
    <3>3. g \in Seq(Line) /\ Len(g) = n /\ \A i \in 1 .. n : g[i] = i
      BY <2>2, <3>2
    <3> HIDE DEF g
    <3>4. LogTypes'
      BY <1>0, <2>1, <2>2, <3>1, <3>3 DEF LogTypes
    <3>5. /\ log'.queue = log.queue /\ log'.file = g /\ log'.mode = log.mode
          /\ log'.running = log.running /\ log'.sequence = n
      BY <1>0, <3>1 DEF LogTypes
    <3>6. LogPhases'
      BY <1>0, <2>1, <2>2, <2>5, <3>1, <3>5 DEF LogPhases
    <3>7. \A i \in 1 .. log.sequence : i \in 1 .. n
      BY <1>0 DEF LogTypes
    <3> HIDE DEF n
    <3>8. LogFiles'
      BY <1>0, <2>1, <2>2, <2>5, <3>1, <3>3, <3>5, <3>7 DEF LogFiles
    <3> QED BY <3>4, <3>6, <3>8 DEF LogInv
  <2> QED BY <1>0, <2>2, <2>3, <2>4, <2>5 DEF LogTypes
<1> QED BY <1>1, <1>2, <1>3, <1>4 DEF Lg!CallerStep

\* Steps of the writer.
LEMMA LogWriterStep ==
    ASSUME LogInv, Lg!WriterStep \/ Lg!WriterSpurious
    PROVE  LogInv'
<1>0. LogTypes /\ LogPhases /\ LogFiles
  BY DEF LogInv
<1>1. ASSUME NEW a \in WriterAt \ {"gone", "dec", "write"}, NEW b \in WriterAt \ {"dec", "write"}, Lg!WriterGoes(a, b)
      PROVE  LogInv'
  <2>1. /\ writer.at = a /\ writer' = [writer EXCEPT !.at = b]
        /\ UNCHANGED <<log, gpc, line, closer, accepted, net, rcv>>
    BY <1>1 DEF Lg!WriterGoes
  <2>2. LogTypes' /\ writer'.at = b
    BY <1>0, <2>1 DEF LogTypes
  <2>3. log.mode = "async" /\ closer # "closed"
    BY <1>0, <2>1 DEF LogPhases
  <2>4. InHand' = InHand
    BY <2>1, <2>2 DEF InHand
  <2>5. LogPhases'
    BY <1>0, <2>1, <2>3 DEF LogPhases
  <2>6. LogFiles'
    BY <1>0, <2>1, <2>3, <2>4, FilesKept
  <2> QED BY <2>2, <2>5, <2>6 DEF LogInv
<1>2. CASE Lg!WriterLoop \/ Lg!WriterPopEmpty \/ Lg!WriterSleep \/ Lg!WriterSpurious \/ Lg!WriterWoken
  BY <1>1, <1>2 DEF Lg!WriterLoop, Lg!WriterPopEmpty, Lg!WriterSleep, Lg!WriterSpurious, Lg!WriterWoken, WriterAt
<1>3. CASE Lg!WriterPop
  <2> DEFINE f == log.file
             q == log.queue
             h == Head(q)
             r == Tail(q)
  <2>1. /\ writer.at = "pop" /\ q # <<>> /\ writer' = [at |-> "dec", line |-> h]
        /\ log' = [log EXCEPT !.queue = r] /\ UNCHANGED <<gpc, line, closer, accepted, net, rcv>>
    BY <1>3 DEF Lg!WriterPop
  <2>2. f \in Seq(Line) /\ q \in Seq(Line)
    BY <1>0 DEF LogTypes
  <2>3. log.mode = "async" /\ closer # "closed" /\ InHand = <<>>
    BY <1>0, <2>1 DEF LogPhases, InHand
  <2>4. accepted = Lines(f, <<>>, q)
    BY <1>0, <2>3 DEF LogFiles
  <2> HIDE DEF f, q
  <2>5. Lines(f, <<>>, q) = Lines(f, <<h>>, r) /\ h \in Line /\ r \in Seq(Line)
    BY <2>1, <2>2, PopJoins
  <2> HIDE DEF h, r
  <2>6. InHand' = <<h>>
    BY <2>1 DEF InHand
  <2>7. LogTypes'
    BY <1>0, <2>1, <2>5 DEF LogTypes, WriterAt
  <2>8. /\ log'.queue = r /\ log'.file = f /\ log'.mode = log.mode
        /\ log'.running = log.running /\ log'.sequence = log.sequence
    BY <1>0, <2>1 DEF LogTypes, f
  <2>9. LogPhases'
    BY <1>0, <2>1, <2>3, <2>8 DEF LogPhases
  <2>10. LogFiles'
    BY <1>0, <2>1, <2>3, <2>4, <2>5, <2>6, <2>8 DEF LogFiles
  <2> QED BY <2>7, <2>9, <2>10 DEF LogInv
<1>4. CASE Lg!WriterDec
  <2>1. /\ writer.at = "dec" /\ writer' = [writer EXCEPT !.at = "write"]
        /\ log' = [log EXCEPT !.itemCount = (@ + LogWord - 1) % LogWord]
        /\ UNCHANGED <<gpc, line, closer, accepted, net, rcv>>
    BY <1>4 DEF Lg!WriterDec
  <2>2. (log.itemCount + LogWord - 1) % LogWord \in Int
    BY <1>0, LogAssumption DEF LogTypes
  <2>3. LogTypes'
    BY <1>0, <2>1, <2>2 DEF LogTypes, WriterAt
  <2>4. /\ log'.queue = log.queue /\ log'.file = log.file /\ log'.mode = log.mode
        /\ log'.running = log.running /\ log'.sequence = log.sequence
        /\ writer'.at = "write" /\ writer'.line = writer.line
    BY <1>0, <2>1 DEF LogTypes
  <2>5. log.mode = "async" /\ closer # "closed" /\ InHand' = InHand
    BY <1>0, <2>1, <2>4 DEF LogPhases, InHand
  <2>6. LogPhases'
    BY <1>0, <2>1, <2>4, <2>5 DEF LogPhases
  <2>7. LogFiles'
    BY <1>0, <2>1, <2>4, <2>5, FilesKept
  <2> QED BY <2>3, <2>6, <2>7 DEF LogInv
<1>5. CASE Lg!WriterWrite
  <2> DEFINE f == log.file
             q == log.queue
             x == writer.line
             g == Append(f, x)
  <2>1. /\ writer.at = "write" /\ writer' = [at |-> "loop", line |-> 0]
        /\ log' = [log EXCEPT !.file = g] /\ UNCHANGED <<gpc, line, closer, accepted, net, rcv>>
    BY <1>5 DEF Lg!WriterWrite
  <2>2. f \in Seq(Line) /\ q \in Seq(Line) /\ x \in Line
    BY <1>0 DEF LogTypes
  <2>3. log.mode = "async" /\ closer # "closed" /\ InHand = <<x>>
    BY <1>0, <2>1 DEF LogPhases, InHand
  <2>4. accepted = Lines(f, <<x>>, q)
    BY <1>0, <2>3 DEF LogFiles
  <2> HIDE DEF f, q, x
  <2>5. Lines(g, <<>>, q) = Lines(f, <<x>>, q)
    BY <2>2, WriteJoins, Zenon
  <2>6. g \in Seq(Line) /\ 0 \in Line
    BY <2>2 DEF Line
  <2> HIDE DEF g
  <2>7. InHand' = <<>>
    BY <2>1 DEF InHand
  <2>8. LogTypes'
    BY <1>0, <2>1, <2>6 DEF LogTypes, WriterAt
  <2>9. /\ log'.queue = q /\ log'.file = g /\ log'.mode = log.mode
        /\ log'.running = log.running /\ log'.sequence = log.sequence
    BY <1>0, <2>1 DEF LogTypes, q
  <2>10. LogPhases'
    BY <1>0, <2>1, <2>3, <2>9 DEF LogPhases
  <2>11. LogFiles'
    BY <1>0, <2>1, <2>3, <2>4, <2>5, <2>7, <2>9 DEF LogFiles
  <2> QED BY <2>8, <2>10, <2>11 DEF LogInv
<1> QED BY <1>2, <1>3, <1>4, <1>5 DEF Lg!WriterStep

\* Creating and closing, the level and the network.
LEMMA LogOtherStep ==
    ASSUME LogInv,
           \/ \E m \in {"sync", "async", "udp"} : Lg!LogCreate(m)
           \/ \E l \in {Lg!Levels.NONE, Lg!Levels.ERROR} : Lg!ztl_log_set_level(l)
           \/ \E n \in 1 .. MaxLog : Lg!RcvMessage(n) \/ Lg!NetLoss(n)
           \/ Lg!CloseCall \/ Lg!CloseSignal \/ Lg!CloseJoin
    PROVE  LogInv'
<1>0. LogTypes /\ LogPhases /\ LogFiles
  BY DEF LogInv
<1>1. ASSUME NEW m \in {"sync", "async", "udp"}, Lg!LogCreate(m) PROVE LogInv'
  <2>1. /\ log.mode = "none" /\ log' = [log EXCEPT !.mode = m, !.running = TRUE]
        /\ (m = "async" /\ writer' = [writer EXCEPT !.at = "loop"]) \/ (m # "async" /\ writer' = writer)
        /\ rcv' = [rcv EXCEPT !.running = (m = "udp")]
        /\ UNCHANGED <<gpc, line, closer, accepted, net>>
    BY <1>1 DEF Lg!LogCreate
  <2>2. LogTypes'
    BY <1>0, <2>1 DEF LogTypes, WriterAt
  <2>3. /\ log'.queue = log.queue /\ log'.file = log.file /\ log'.mode = m
        /\ log'.running = TRUE /\ log'.sequence = log.sequence /\ rcv'.file = rcv.file
    BY <1>0, <2>1 DEF LogTypes
  <2>4. /\ log.queue = <<>> /\ log.file = <<>> /\ accepted = <<>> /\ log.sequence = 0 /\ closer = "no"
        /\ writer.at = "gone" /\ \A t \in LogCallers : gpc[t] = "idle"
    BY <1>0, <2>1 DEF LogPhases
  <2>5. LogPhases'
    BY <1>0, <2>1, <2>3, <2>4 DEF LogPhases
  <2>6. InHand' = <<>> /\ Lines(<<>>, <<>>, <<>>) = <<>>
    <3>1. writer'.at \in {"gone", "loop"}
      BY <1>0, <2>1, <2>4 DEF LogTypes
    <3> QED BY <3>1 DEF InHand, Lines
  <2>7. LogFiles'
    BY <1>0, <2>1, <2>3, <2>4, <2>6 DEF LogFiles
  <2> QED BY <2>2, <2>5, <2>7 DEF LogInv
<1>2. ASSUME NEW l \in Int, Lg!ztl_log_set_level(l) PROVE LogInv'
  <2>1. log' = [log EXCEPT !.level = l] /\ UNCHANGED <<gpc, line, writer, closer, accepted, net, rcv>>
    BY <1>2 DEF Lg!ztl_log_set_level
  <2>2. LogTypes'
    BY <1>0, <1>2, <2>1 DEF LogTypes
  <2>3. /\ log'.queue = log.queue /\ log'.file = log.file /\ log'.mode = log.mode
        /\ log'.running = log.running /\ log'.sequence = log.sequence /\ InHand' = InHand
    BY <1>0, <2>1 DEF LogTypes, InHand
  <2>4. LogPhases'
    BY <1>0, <2>1, <2>3 DEF LogPhases
  <2>5. LogFiles'
    BY <1>0, <2>1, <2>3, FilesKept
  <2> QED BY <2>2, <2>4, <2>5 DEF LogInv
<1>3. ASSUME NEW n, Lg!RcvMessage(n) PROVE LogInv'
  <2>1. /\ n \in net /\ net' \subseteq net /\ UNCHANGED <<log, gpc, line, writer, closer, accepted>>
        /\ rcv' = rcv \/ rcv' = [rcv EXCEPT !.file = Append(@, n)]
    BY <1>3 DEF Lg!RcvMessage
  <2>2. InHand' = InHand
    BY <2>1 DEF InHand
  <2>3. CASE rcv' = rcv
    <3>1. LogTypes' /\ LogPhases'
      BY <1>0, <2>1, <2>3 DEF LogTypes, LogPhases
    <3>2. LogFiles'
      BY <1>0, <2>1, <2>2, <2>3, FilesKept
    <3> QED BY <3>1, <3>2 DEF LogInv
  <2>4. CASE rcv' = [rcv EXCEPT !.file = Append(@, n)]
    <3> DEFINE f == rcv.file
               g == Append(f, n)
    <3>1. n \in 1 .. log.sequence /\ n \in Line
      BY <1>0, <2>1 DEF LogFiles, LogTypes, Line
    <3>2. f \in Seq(Line) /\ \A i \in 1 .. Len(f) : f[i] \in 1 .. log.sequence
      BY <1>0 DEF LogTypes, LogFiles
    <3>3. rcv' = [rcv EXCEPT !.file = g]
      BY <2>4
    <3> HIDE DEF f
    <3>4. g \in Seq(Line) /\ \A i \in 1 .. Len(g) : g[i] \in 1 .. log.sequence
      <4>1. /\ Len(f) \in Nat /\ g \in Seq(Line) /\ Len(g) = Len(f) + 1 /\ g[Len(f) + 1] = n
            /\ \A i \in 1 .. Len(f) : g[i] = f[i]
        BY <3>1, <3>2
      <4> HIDE DEF g
      <4> QED BY <3>1, <3>2, <4>1
    <3> HIDE DEF g
    <3>5. LogTypes' /\ rcv'.file = g
      BY <1>0, <2>1, <3>3, <3>4 DEF LogTypes
    <3>6. LogPhases'
      BY <1>0, <2>1 DEF LogPhases
    <3>7. LogFiles'
      BY <1>0, <2>1, <2>2, <3>4, <3>5 DEF LogFiles
    <3> QED BY <3>5, <3>6, <3>7 DEF LogInv
  <2> QED BY <2>1, <2>3, <2>4
<1>4. ASSUME NEW n, Lg!NetLoss(n) PROVE LogInv'
  <2>1. net' \subseteq net /\ UNCHANGED <<log, gpc, line, writer, closer, accepted, rcv>>
    BY <1>4 DEF Lg!NetLoss
  <2>2. LogTypes' /\ LogPhases' /\ InHand' = InHand
    BY <1>0, <2>1 DEF LogTypes, LogPhases, InHand
  <2>3. LogFiles'
    BY <1>0, <2>1, <2>2, FilesKept
  <2> QED BY <2>2, <2>3 DEF LogInv
<1>5. CASE Lg!CloseCall
  <2>1. /\ log.mode # "none" /\ closer = "no" /\ \A t \in LogCallers : gpc[t] = "idle"
        /\ log' = [log EXCEPT !.running = FALSE] /\ rcv' = [rcv EXCEPT !.running = FALSE]
        /\ (log.mode = "async" /\ closer' = "signal") \/ (log.mode # "async" /\ closer' = "closed")
        /\ UNCHANGED <<gpc, line, writer, accepted, net>>
    BY <1>5 DEF Lg!CloseCall
  <2>2. LogTypes'
    BY <1>0, <2>1 DEF LogTypes
  <2>3. /\ log'.queue = log.queue /\ log'.file = log.file /\ log'.mode = log.mode
        /\ log'.running = FALSE /\ log'.sequence = log.sequence /\ InHand' = InHand /\ rcv'.file = rcv.file
    BY <1>0, <2>1 DEF LogTypes, InHand
  <2>4. LogPhases'
    BY <1>0, <2>1, <2>3 DEF LogPhases
  <2>5. LogFiles'
    BY <1>0, <2>1, <2>3 DEF LogFiles
  <2> QED BY <2>2, <2>4, <2>5 DEF LogInv
<1>6. CASE Lg!CloseSignal
  <2>1. /\ closer = "signal" /\ closer' = "join" /\ UNCHANGED <<log, gpc, line, accepted, net, rcv>>
        /\ (writer.at = "asleep" /\ writer' = [writer EXCEPT !.at = "woken"]) \/ writer' = writer
    BY <1>6 DEF Lg!CloseSignal, Lg!Wake
  <2>2. LogTypes'
    BY <1>0, <2>1 DEF LogTypes, WriterAt
  <2>3. InHand' = InHand
    BY <1>0, <2>1 DEF LogTypes, InHand
  <2>4. LogPhases'
    BY <1>0, <2>1 DEF LogPhases
  <2>5. LogFiles'
    BY <1>0, <2>1, <2>3, FilesKept
  <2> QED BY <2>2, <2>4, <2>5 DEF LogInv
<1>7. CASE Lg!CloseJoin
  <2>1. /\ closer = "join" /\ writer.at = "gone" /\ closer' = "closed" /\ log' = [log EXCEPT !.queue = <<>>]
        /\ UNCHANGED <<gpc, line, writer, accepted, net, rcv>>
    BY <1>7 DEF Lg!CloseJoin
  <2>2. LogTypes'
    <3>1. <<>> \in Seq(Line)
      OBVIOUS
    <3> QED BY <1>0, <2>1, <3>1 DEF LogTypes
  <2>3. /\ log'.queue = <<>> /\ log'.file = log.file /\ log'.mode = log.mode
        /\ log'.running = log.running /\ log'.sequence = log.sequence
    BY <1>0, <2>1 DEF LogTypes
  <2>4. LogPhases'
    BY <1>0, <2>1, <2>3 DEF LogPhases
  <2>5. log.mode = "async" => Lg!IsPrefix(log.file, accepted)
    <3> DEFINE f == log.file
               q == log.queue
    <3>1. f \in Seq(Line) /\ q \in Seq(Line) /\ InHand = <<>>
      BY <1>0, <2>1 DEF LogTypes, InHand
    <3>2. log.mode = "async" => accepted = Lines(f, <<>>, q)
      BY <1>0, <2>1, <3>1 DEF LogFiles
    <3> HIDE DEF f, q
    <3>3. Lg!IsPrefix(f, Lines(f, <<>>, q))
      BY <3>1, DropLeavesPrefix
    <3> QED BY <3>2, <3>3 DEF f
  <2>6. LogFiles'
    BY <1>0, <2>1, <2>3, <2>5 DEF LogFiles
  <2> QED BY <2>2, <2>4, <2>6 DEF LogInv
<1>8. Lg!Levels.NONE \in Int /\ Lg!Levels.ERROR \in Int
  BY DEF Lg!Levels
<1> QED BY <1>1, <1>2, <1>3, <1>4, <1>5, <1>6, <1>7, <1>8

\* A step of another part leaves the logger alone.
LEMMA LoggerSteps ==
    ASSUME [Next]_vars, part' = "logger"
    PROVE  part = "logger" /\ (Lg!LogNext \/ UNCHANGED logVars)
  BY DEF Next, QueuePart, DispatcherPart, LoggerPart, ServerPart, ClientPart,
         NotQueue, NotServer, NotClient, vars

\* Every step of the logger keeps LogInv.
LEMMA LogStep == LogInv /\ (Lg!LogNext \/ UNCHANGED logVars) => LogInv'
<1> SUFFICES ASSUME LogInv, Lg!LogNext \/ UNCHANGED logVars PROVE LogInv'
  OBVIOUS
<1>1. CASE UNCHANGED logVars
  BY <1>1 DEF logVars, LogInv, LogTypes, LogPhases, LogFiles, InHand
<1>2. CASE Lg!LogNext
  BY <1>2, LogCallerStep, LogWriterStep, LogOtherStep DEF Lg!LogNext
<1> QED BY <1>1, <1>2

\* The file of an asynchronous logger holds the lines that were pushed, in that
\* order and none twice, up to those the writer has yet to write; a close loses
\* queued lines only.  A synchronous logger writes every line, a receiver only
\* what was sent.
THEOREM LinesInOrder == Spec => []LogInOrder
<1> DEFINE I == part = "logger" => LogInv
<1>1. Init => I
  <2> SUFFICES ASSUME Init, part = "logger" PROVE LogInv
    OBVIOUS
  <2>1. Lg!LogInit
    BY DEF Init
  <2>2. <<>> \in Seq(Line) /\ 0 \in Line
    BY DEF Line
  <2>3. LogTypes
    BY <2>1, <2>2 DEF Lg!LogInit, Lg!Levels, LogTypes, WriterAt
  <2>4. LogPhases /\ LogFiles
    BY <2>1 DEF Lg!LogInit, LogPhases, LogFiles
  <2> QED BY <2>3, <2>4 DEF LogInv
<1>2. I /\ [Next]_vars => I'
  BY LoggerSteps, LogStep
<1>3. I => LogInOrder
  <2> SUFFICES ASSUME LogInv PROVE Lg!LogInOrder
    BY DEF LogInOrder
  <2>0. LogTypes /\ LogPhases /\ LogFiles
    BY DEF LogInv
  <2> DEFINE taken == IF writer.at \in {"dec", "write"} THEN <<writer.line>> ELSE <<>>
  <2>1. log.mode = "async" =>
          IF closer = "closed" THEN Lg!IsPrefix(log.file, accepted)
          ELSE accepted = log.file \o taken \o log.queue
    <3>1. InHand = taken
      BY DEF InHand
    <3> HIDE DEF taken
    <3>2. log.mode = "async" /\ closer # "closed" => accepted = log.file \o taken \o log.queue
      BY <2>0, <3>1 DEF LogFiles, Lines
    <3> QED BY <2>0, <3>2 DEF LogFiles
  <2>2. writer.at = "gone" => taken = <<>>
    OBVIOUS
  <2>3. log.mode = "sync" => Cardinality(Lg!ToSet(log.file)) = log.sequence
    <3> DEFINE f == log.file
               n == log.sequence
    <3> SUFFICES ASSUME log.mode = "sync" PROVE Cardinality(Lg!ToSet(f)) = n
      OBVIOUS
    <3>1. f \in Seq(Line) /\ n \in Nat /\ Len(f) = n /\ \A i \in 1 .. n : f[i] = i
      BY <2>0 DEF LogTypes, LogFiles
    <3> HIDE DEF f, n
    <3>2. Lg!ToSet(f) = 1 .. n
      BY <3>1 DEF Lg!ToSet
    <3>3. Cardinality(1 .. n) = IF 1 > n THEN 0 ELSE n - 1 + 1
      BY <3>1, FS_Interval
    <3> QED BY <3>1, <3>2, <3>3
  <2>4. Lg!ToSet(rcv.file) \subseteq 1 .. log.sequence
    <3> DEFINE f == rcv.file
               n == log.sequence
    <3>1. f \in Seq(Line) /\ \A i \in 1 .. Len(f) : f[i] \in 1 .. n
      BY <2>0 DEF LogTypes, LogFiles
    <3> HIDE DEF f, n
    <3>2. Lg!ToSet(f) \subseteq 1 .. n
      BY <3>1 DEF Lg!ToSet
    <3> QED BY <3>2 DEF f, n
  <2>5. \A S : Lg!Cardinality(S) = Cardinality(S)
    BY DEF Lg!Cardinality, Cardinality
  <2> QED BY <2>1, <2>2, <2>3, <2>4, <2>5 DEF Lg!LogInOrder
<1> QED BY <1>1, <1>2, <1>3, PTL DEF Spec

-----------------------------------------------------------------------------
(* The TCP client, until ztl_tcp_client_stop is called *)

NoSock == Cl!INVALID_SOCKET
Status == {"DisConnected", "Connecting", "Connected"}
SockState == {"closed", "new", "up", "down"}
IoAt == {"none", "test", "close", "forget", "socket", "connect", "add", "after", "poll", "read", "user", "done"}

CliTypes ==
    /\ cli \in [fd : Socks \cup {NoSock}, connect_status : Status,
                added : BOOLEAN, running : BOOLEAN, reconnect : BOOLEAN]
    /\ peer \in [Socks -> SockState] /\ watch \subseteq Socks
    /\ cio \in IoAt /\ iofd \in Socks \cup {NoSock}

\* The sockets: the client's own, and the one do_connect is working on.
CliSockets ==
    /\ \A s \in Socks : peer[s] # "closed" => s = cli.fd \/ s = iofd
    /\ cio \notin {"connect", "add"} => iofd = NoSock
    /\ cio \in {"connect", "add"} => iofd \in Socks /\ peer[iofd] # "closed"
    /\ cio \in {"none", "socket", "connect"} => cli.fd = NoSock
    /\ cio = "add" => cli.fd = iofd /\ watch = {}
    /\ cio = "forget" => (\A s \in Socks : peer[s] = "closed") /\ watch = {}

\* The poll set and the flag that mirrors it.
CliPollSet ==
    /\ (cli.added = TRUE /\ cli.fd \in watch) \/ (cli.added = FALSE /\ cli.fd \notin watch)
    /\ \A s \in watch : s = cli.fd

\* A connection is polled, and was announced.
CliStatus ==
    /\ cio \in {"test", "after", "poll", "read", "user"} /\ cli.connect_status = "Connected" => cli.fd \in watch
    /\ ~sync /\ cio \in {"poll", "read"} => cli.fd # NoSock /\ unannounced = FALSE
    /\ ~sync /\ cio = "test" /\ cli.connect_status = "Connected" => unannounced = FALSE
    /\ cio \in {"none", "connect"} => cli.connect_status # "Connected"

CliInv == user \in {"idle", "failed"} => CliTypes /\ CliSockets /\ CliPollSet /\ CliStatus

\* A set of descriptors that is not empty has a lowest one.
LEMMA Lowest ==
    ASSUME NEW T, T \subseteq Nat, T # {}
    PROVE  \E x \in T : \A y \in T : ~(y < x)
<1> DEFINE R == {ss \in Nat \X Nat : ss[1] < ss[2]}
<1>1. IsWellFoundedOn(R, Nat)
  BY NatLessThanWellFounded, Zenon DEF OpToRel
<1> HIDE DEF R
<1>2. PICK x \in T : \A y \in T : ~(<<y, x>> \in R)
  BY <1>1, WFMin
<1>3. ASSUME NEW y \in T, y < x PROVE FALSE
  <2>1. y \in Nat /\ x \in Nat
    BY <1>2
  <2>2. <<y, x>> \in R
    BY <1>3, <2>1 DEF R
  <2> QED BY <1>2, <2>2
<1> QED BY <1>2, <1>3

\* INVALID_SOCKET is no descriptor.
LEMMA NoSockIsNone == NoSock \notin Socks
  BY CliAssumption DEF NoSock, Cl!INVALID_SOCKET

\* The descriptor a new socket gets is one that is closed.
LEMMA LowestFreeIsFree ==
    ASSUME NEW s0 \in Socks, peer[s0] = "closed"
    PROVE  Cl!LowestFree \in Socks /\ peer[Cl!LowestFree] = "closed"
<1> DEFINE T == {s \in Socks : peer[s] = "closed"}
<1>1. T \subseteq Nat /\ T # {}
  BY CliAssumption
<1>2. PICK x \in T : \A y \in T : ~(y < x)
  BY <1>1, Lowest
<1>3. \E s \in Socks : peer[s] = "closed" /\ \A t \in Socks : t < s => peer[t] # "closed"
  BY <1>2
<1> QED BY <1>3 DEF Cl!LowestFree

\* The I/O thread connects.
LEMMA ConnectKeeps ==
    ASSUME user \in {"idle", "failed"}, user' = user, sync' = sync,
           CliTypes, CliSockets, CliPollSet, CliStatus,
           \/ Cl!ConnectClose \/ Cl!ConnectForget \/ Cl!ConnectSocket
           \/ Cl!ConnectRefused \/ Cl!ConnectPending \/ Cl!ConnectDone \/ Cl!ConnectAdd
    PROVE  CliTypes' /\ CliSockets' /\ CliPollSet' /\ CliStatus'
<1> USE NoSockIsNone DEF Status, SockState, IoAt
<1>1. CASE Cl!ConnectClose
  <2>1. cio = "close" /\ iofd' = iofd /\ unannounced' = unannounced /\ iofd = NoSock
    BY <1>1 DEF Cl!ConnectClose, CliSockets
  <2>2. CASE cli.fd = NoSock
    <3>1. cio' = "socket" /\ cli' = cli /\ peer' = peer /\ watch' = watch
      BY <1>1, <2>2 DEF Cl!ConnectClose, Cl!Closing, Cl!kernel, NoSock
    <3>2. CliTypes' /\ CliSockets' /\ CliPollSet' /\ CliStatus'
      BY <2>1, <2>2, <3>1 DEF CliTypes, CliSockets, CliPollSet, CliStatus
    <3> QED BY <3>2
  <2>3. CASE cli.fd # NoSock
    <3>1. /\ cio' = "forget" /\ cli' = [cli EXCEPT !.added = FALSE]
          /\ peer' = [peer EXCEPT ![cli.fd] = "closed"] /\ watch' = watch \ {cli.fd}
      BY <1>1, <2>3 DEF Cl!ConnectClose, Cl!Closing, NoSock
    <3>2. cli'.fd = cli.fd /\ cli'.added = FALSE /\ cli'.connect_status = cli.connect_status
      BY <3>1 DEF CliTypes
    <3>3. CliTypes'
      BY <2>1, <3>1 DEF CliTypes
    <3>4. CliSockets'
      BY <2>1, <2>3, <3>1, <3>2 DEF CliSockets, CliPollSet, CliTypes
    <3>5. CliPollSet' /\ CliStatus'
      BY <2>1, <3>1, <3>2 DEF CliPollSet, CliStatus
    <3> QED BY <3>3, <3>4, <3>5
  <2> QED BY <2>2, <2>3
<1>2. CASE Cl!ConnectForget
  <2>1. /\ cio = "forget" /\ cio' = "socket" /\ cli' = [cli EXCEPT !.fd = NoSock]
        /\ UNCHANGED <<peer, watch, iofd, unannounced>>
    BY <1>2 DEF Cl!ConnectForget, Cl!Forget, Cl!kernel, NoSock
  <2>2. cli'.fd = NoSock /\ cli'.added = cli.added /\ cli'.connect_status = cli.connect_status
    BY <2>1 DEF CliTypes
  <2>3. CliTypes'
    BY <2>1 DEF CliTypes
  <2>4. CliSockets'
    BY <2>1, <2>2 DEF CliSockets
  <2>5. CliPollSet' /\ CliStatus'
    BY <2>1, <2>2 DEF CliPollSet, CliStatus, CliSockets
  <2> QED BY <2>3, <2>4, <2>5
<1>3. CASE Cl!ConnectSocket
  <2> DEFINE s == Cl!LowestFree
  <2>1. /\ cio = "socket" /\ cio' = "connect" /\ iofd' = s /\ peer' = [peer EXCEPT ![s] = "new"]
        /\ cli' = [cli EXCEPT !.connect_status = "Connecting"] /\ UNCHANGED <<watch, unannounced>>
    BY <1>3 DEF Cl!ConnectSocket
  <2>2. s \in Socks
    BY <1>3, LowestFreeIsFree DEF Cl!ConnectSocket
  <2> HIDE DEF s
  <2>3. cli'.fd = cli.fd /\ cli'.added = cli.added /\ cli'.connect_status = "Connecting"
    BY <2>1 DEF CliTypes
  <2>4. CliTypes'
    BY <2>1, <2>2 DEF CliTypes
  <2>5. CliSockets'
    BY <2>1, <2>2, <2>3 DEF CliSockets, CliTypes
  <2>6. CliPollSet' /\ CliStatus'
    BY <2>1, <2>3 DEF CliPollSet, CliStatus
  <2> QED BY <2>4, <2>5, <2>6
<1>4. CASE Cl!ConnectRefused
  <2>1. /\ cio = "connect" /\ cio' = "after" /\ peer' = [peer EXCEPT ![iofd] = "closed"] /\ iofd' = NoSock
        /\ cli' = [cli EXCEPT !.connect_status = "DisConnected"] /\ UNCHANGED <<watch, unannounced>>
    BY <1>4 DEF Cl!ConnectRefused, NoSock
  <2>2. cli'.fd = cli.fd /\ cli'.added = cli.added /\ cli'.connect_status = "DisConnected"
    BY <2>1 DEF CliTypes
  <2>3. CliTypes'
    BY <2>1 DEF CliTypes
  <2>4. CliSockets'
    BY <2>1, <2>2 DEF CliSockets, CliTypes
  <2>5. CliPollSet' /\ CliStatus'
    BY <2>1, <2>2 DEF CliPollSet, CliStatus
  <2> QED BY <2>3, <2>4, <2>5
<1>5. CASE Cl!ConnectPending \/ Cl!ConnectDone
  <2>1. /\ cio = "connect" /\ cio' = "add" /\ UNCHANGED <<watch, iofd>>
        /\ \/ cli' = [cli EXCEPT !.fd = iofd]
           \/ cli' = [cli EXCEPT !.connect_status = "Connected", !.fd = iofd]
        /\ peer' = peer \/ peer' = [peer EXCEPT ![iofd] = "up"]
    BY <1>5 DEF Cl!ConnectPending, Cl!ConnectDone, Cl!kernel
  <2>2. iofd \in Socks /\ peer[iofd] # "closed" /\ cli.fd = NoSock
    BY <2>1 DEF CliSockets
  <2>3. cli'.fd = iofd /\ cli'.added = cli.added
    BY <2>1 DEF CliTypes
  <2>4. CliTypes'
    <3>1. cli' \in [fd : Socks \cup {NoSock}, connect_status : Status,
                    added : BOOLEAN, running : BOOLEAN, reconnect : BOOLEAN]
      BY <2>1, <2>2 DEF CliTypes, Status
    <3>2. peer' \in [Socks -> SockState]
      BY <2>1, <2>2 DEF CliTypes, SockState
    <3>3. watch' \subseteq Socks /\ cio' \in IoAt /\ iofd' \in Socks \cup {NoSock}
      BY <2>1 DEF CliTypes, IoAt
    <3> QED BY <3>1, <3>2, <3>3 DEF CliTypes
  <2>5. watch = {}
    BY <2>2 DEF CliPollSet, CliTypes
  <2>6. CliSockets'
    BY <2>1, <2>2, <2>3, <2>5 DEF CliSockets, CliTypes
  <2>7. CliPollSet' /\ CliStatus'
    BY <2>1, <2>2, <2>3, <2>5 DEF CliPollSet, CliStatus
  <2> QED BY <2>4, <2>6, <2>7
<1>6. CASE Cl!ConnectAdd
  <2>1. /\ cio = "add" /\ iofd = cli.fd /\ iofd \in Socks /\ peer[iofd] # "closed" /\ watch = {} /\ cli.added = FALSE
    BY <1>6 DEF Cl!ConnectAdd, CliSockets, CliPollSet
  <2>2. /\ cio' = "after" /\ iofd' = NoSock /\ UNCHANGED <<peer, unannounced>>
    BY <1>6 DEF Cl!ConnectAdd, NoSock
  <2>3. cli' = [cli EXCEPT !.added = TRUE]
    BY <1>6, <2>1 DEF Cl!ConnectAdd
  <2>4. watch' = {cli.fd}
    BY <1>6, <2>1 DEF Cl!ConnectAdd
  <2>5. cli'.fd = cli.fd /\ cli'.added = TRUE /\ cli'.connect_status = cli.connect_status
    BY <2>3 DEF CliTypes
  <2>6. CliTypes'
    BY <2>1, <2>2, <2>3, <2>4 DEF CliTypes
  <2>7. CliSockets'
    BY <2>1, <2>2, <2>5 DEF CliSockets
  <2>8. CliPollSet' /\ CliStatus'
    BY <2>1, <2>2, <2>4, <2>5 DEF CliPollSet, CliStatus
  <2> QED BY <2>6, <2>7, <2>8
<1> QED BY <1>1, <1>2, <1>3, <1>4, <1>5, <1>6

\* The I/O thread loops, polls and reads, or the user sends: the sockets stay.
LEMMA LoopKeeps ==
    ASSUME user \in {"idle", "failed"}, user' \in {"idle", "failed"},
           CliTypes, CliSockets, CliPollSet, CliStatus,
           \/ Cl!ztl_tcp_client_init \/ Cl!IoTest \/ Cl!Announce \/ Cl!SyncReturn
           \/ Cl!PollTimeout \/ Cl!SyncPoll \/ Cl!SendFails \/ Cl!SendMark \/ Cl!Finished
           \/ \E s \in Socks : Cl!PollRead(s)
    PROVE  CliTypes' /\ CliSockets' /\ CliPollSet' /\ CliStatus'
<1> USE NoSockIsNone DEF Status, SockState, IoAt
<1>1. CASE Cl!ztl_tcp_client_init
  <2>1. /\ cio = "none" /\ cio' \in {"close", "test"} /\ cli' = [cli EXCEPT !.running = TRUE]
        /\ UNCHANGED <<peer, watch, iofd, sync, unannounced>>
    BY <1>1 DEF Cl!ztl_tcp_client_init
  <2>2. cli'.fd = cli.fd /\ cli'.added = cli.added /\ cli'.connect_status = cli.connect_status
    BY <2>1 DEF CliTypes
  <2>3. CliTypes'
    BY <2>1 DEF CliTypes
  <2>4. CliSockets' /\ CliPollSet'
    BY <2>1, <2>2 DEF CliSockets, CliPollSet
  <2>5. CliStatus'
    BY <2>1, <2>2 DEF CliStatus
  <2> QED BY <2>3, <2>4, <2>5
<1>2. CASE Cl!IoTest
  <2>1. /\ cio = "test" /\ cio' \in {"done", "poll", "close"}
        /\ cio' = "poll" => cli.connect_status = "Connected"
        /\ UNCHANGED <<cli, peer, watch, iofd, sync, unannounced>>
    BY <1>2 DEF Cl!IoTest, Cl!connected, CliTypes
  <2>2. CliTypes' /\ CliPollSet'
    BY <2>1 DEF CliTypes, CliPollSet
  <2>3. CliSockets'
    BY <2>1 DEF CliSockets
  <2>4. cio' = "poll" => cli.fd \in watch /\ cli.fd # NoSock
    BY <2>1 DEF CliStatus, CliTypes
  <2>5. CliStatus'
    BY <2>1, <2>4 DEF CliStatus
  <2> QED BY <2>2, <2>3, <2>5
<1>3. CASE Cl!Announce
  <2>1. /\ cio = "after" /\ ~sync /\ UNCHANGED <<cli, peer, watch, iofd, sync>>
        /\ \/ cio' = "poll" /\ cli.connect_status = "Connected" /\ unannounced' = FALSE
           \/ cio' = "test" /\ cli.connect_status # "Connected"
    BY <1>3 DEF Cl!Announce, Cl!connected, Cl!kernel
  <2>2. CliTypes' /\ CliPollSet'
    BY <2>1 DEF CliTypes, CliPollSet
  <2>3. CliSockets'
    BY <2>1 DEF CliSockets
  <2>4. cio' = "poll" => cli.fd \in watch /\ cli.fd # NoSock
    BY <2>1 DEF CliStatus, CliTypes
  <2>5. CliStatus'
    BY <2>1, <2>4 DEF CliStatus
  <2> QED BY <2>2, <2>3, <2>5
<1>4. CASE Cl!SyncReturn \/ Cl!PollTimeout \/ Cl!SyncPoll
  <2>1. /\ UNCHANGED <<cli, peer, watch, iofd, sync, unannounced>>
        /\ \/ cio = "after" /\ cio' = "user"
           \/ cio = "poll" /\ cio' = "user"
           \/ cio = "poll" /\ cio' = "test"
           \/ cio = "user" /\ sync /\ cio' \in {"poll", "close"}
    BY <1>4 DEF Cl!SyncReturn, Cl!PollTimeout, Cl!PollEnd, Cl!SyncPoll, Cl!kernel
  <2>2. CliTypes' /\ CliPollSet'
    BY <2>1 DEF CliTypes, CliPollSet
  <2>3. CliSockets'
    BY <2>1 DEF CliSockets
  <2>4. CliStatus'
    BY <2>1 DEF CliStatus
  <2> QED BY <2>2, <2>3, <2>4
<1>5. CASE \E s \in Socks : Cl!PollRead(s)
  <2>1. cio = "poll" /\ cio' = "read" /\ UNCHANGED <<cli, peer, watch, iofd, sync, unannounced>>
    BY <1>5 DEF Cl!PollRead, Cl!kernel
  <2>2. CliTypes' /\ CliPollSet'
    BY <2>1 DEF CliTypes, CliPollSet
  <2>3. CliSockets'
    BY <2>1 DEF CliSockets
  <2>4. CliStatus'
    BY <2>1 DEF CliStatus
  <2> QED BY <2>2, <2>3, <2>4
<1>6. CASE Cl!SendFails \/ Cl!Finished
  <2>1. UNCHANGED <<cli, peer, watch, cio, iofd, sync, unannounced>>
    BY <1>6 DEF Cl!SendFails, Cl!Finished, Cl!cliVars, Cl!kernel
  <2> QED BY <2>1 DEF CliTypes, CliSockets, CliPollSet, CliStatus
<1>7. CASE Cl!SendMark
  <2>1. /\ cli' = [cli EXCEPT !.connect_status = "DisConnected"]
        /\ UNCHANGED <<peer, watch, cio, iofd, sync, unannounced>>
    BY <1>7 DEF Cl!SendMark, Cl!kernel
  <2>2. cli'.fd = cli.fd /\ cli'.added = cli.added /\ cli'.connect_status = "DisConnected"
    BY <2>1 DEF CliTypes
  <2>3. CliTypes'
    BY <2>1 DEF CliTypes
  <2>4. CliSockets' /\ CliPollSet'
    BY <2>1, <2>2 DEF CliSockets, CliPollSet
  <2>5. CliStatus'
    BY <2>1, <2>2 DEF CliStatus
  <2> QED BY <2>3, <2>4, <2>5
<1> QED BY <1>1, <1>2, <1>3, <1>4, <1>5, <1>6, <1>7

\* A read, and the server's steps.
LEMMA TrafficKeeps ==
    ASSUME user \in {"idle", "failed"},
           CliTypes, CliSockets, CliPollSet, CliStatus,
           Cl!Recv \/ \E s \in Socks : Cl!ServerData(s) \/ Cl!ServerGone(s)
    PROVE  CliTypes' /\ CliSockets' /\ CliPollSet' /\ CliStatus'
<1> USE NoSockIsNone DEF Status, SockState, IoAt
<1>1. CASE Cl!Recv
  <2>1. cio = "read" /\ cio' \in {"user", "test"} /\ UNCHANGED <<peer, iofd, sync, unannounced>>
    BY <1>1 DEF Cl!Recv, Cl!PollEnd
  <2>2. CASE UNCHANGED <<cli, watch>>
    <3>1. CliTypes' /\ CliPollSet'
      BY <2>1, <2>2 DEF CliTypes, CliPollSet
    <3>2. CliSockets'
      BY <2>1, <2>2 DEF CliSockets
    <3>3. CliStatus'
      BY <2>1, <2>2 DEF CliStatus
    <3> QED BY <3>1, <3>2, <3>3
  <2>3. CASE cli' = [cli EXCEPT !.connect_status = "DisConnected", !.added = FALSE] /\ watch' = watch \ {cli.fd}
    <3>1. cli'.fd = cli.fd /\ cli'.added = FALSE /\ cli'.connect_status = "DisConnected"
      BY <2>3 DEF CliTypes
    <3>2. CliTypes'
      BY <2>1, <2>3 DEF CliTypes
    <3>3. CliSockets' /\ CliPollSet'
      BY <2>1, <2>3, <3>1 DEF CliSockets, CliPollSet
    <3>4. CliStatus'
      BY <2>1, <3>1 DEF CliStatus
    <3> QED BY <3>2, <3>3, <3>4
  <2> QED BY <1>1, <2>2, <2>3 DEF Cl!Recv
<1>2. CASE \E s \in Socks : Cl!ServerData(s)
  <2>1. UNCHANGED <<cli, peer, watch, cio, iofd, sync, unannounced>>
    BY <1>2 DEF Cl!ServerData
  <2> QED BY <2>1 DEF CliTypes, CliSockets, CliPollSet, CliStatus
<1>3. CASE \E s \in Socks : Cl!ServerGone(s)
  <2>1. PICK s \in Socks : peer[s] = "up" /\ peer' = [peer EXCEPT ![s] = "down"]
    BY <1>3 DEF Cl!ServerGone
  <2>2. UNCHANGED <<cli, watch, cio, iofd, sync, unannounced>>
    BY <1>3 DEF Cl!ServerGone
  <2>3. CliTypes'
    BY <2>1, <2>2 DEF CliTypes
  <2>4. \A r \in Socks : peer'[r] # "closed" <=> peer[r] # "closed"
    BY <2>1 DEF CliTypes
  <2>5. CliSockets'
    BY <2>1, <2>2, <2>4 DEF CliSockets
  <2>6. CliPollSet' /\ CliStatus'
    BY <2>2 DEF CliPollSet, CliStatus
  <2> QED BY <2>3, <2>5, <2>6
<1> QED BY <1>1, <1>2, <1>3

\* A step of another part leaves the client alone.
LEMMA ClientSteps ==
    ASSUME [Next]_vars, part' = "client"
    PROVE  part = "client" /\ (Cl!Next \/ UNCHANGED cliVars)
  BY DEF Next, QueuePart, DispatcherPart, LoggerPart, ServerPart, ClientPart,
         NotQueue, NotServer, NotClient, vars

\* Every step of the client keeps CliInv; a stop leaves its scope for good.
LEMMA CliStep == CliInv /\ (Cl!Next \/ UNCHANGED cliVars) => CliInv'
<1> SUFFICES ASSUME CliInv, Cl!Next \/ UNCHANGED cliVars, user' \in {"idle", "failed"}
             PROVE  CliTypes' /\ CliSockets' /\ CliPollSet' /\ CliStatus'
  BY DEF CliInv
<1>1. CASE UNCHANGED cliVars
  BY <1>1 DEF cliVars, CliInv, CliTypes, CliSockets, CliPollSet, CliStatus
<1>2. CASE Cl!Next
  <2>1. ~Cl!Stop /\ ~Cl!StopStep
    BY DEF Cl!Stop, Cl!StopStep, Cl!StopClose, Cl!StopForget, Cl!StopJoin, Cl!Closing
  <2>2. CASE Cl!ConnectClose \/ Cl!ConnectForget \/ Cl!ConnectSocket \/ Cl!ConnectRefused
             \/ Cl!ConnectPending \/ Cl!ConnectDone \/ Cl!ConnectAdd
    <3>1. user' = user /\ sync' = sync
      BY <2>2 DEF Cl!ConnectClose, Cl!ConnectForget, Cl!ConnectSocket, Cl!ConnectRefused,
                  Cl!ConnectPending, Cl!ConnectDone, Cl!ConnectAdd
    <3> QED BY <2>2, <3>1, ConnectKeeps DEF CliInv
  <2>3. CASE Cl!Recv \/ \E s \in Socks : Cl!ServerData(s) \/ Cl!ServerGone(s)
    <3>1. user' = user
      BY <2>3 DEF Cl!Recv, Cl!ServerData, Cl!ServerGone
    <3> QED BY <2>3, <3>1, TrafficKeeps DEF CliInv
  <2>4. CASE \/ Cl!ztl_tcp_client_init \/ Cl!IoTest \/ Cl!Announce \/ Cl!SyncReturn
             \/ Cl!PollTimeout \/ Cl!SyncPoll \/ Cl!SendFails \/ Cl!SendMark \/ Cl!Finished
             \/ \E s \in Socks : Cl!PollRead(s)
    <3>1. user \in {"idle", "failed"}
      BY <2>4 DEF Cl!ztl_tcp_client_init, Cl!IoTest, Cl!Announce, Cl!SyncReturn, Cl!PollTimeout,
                  Cl!SyncPoll, Cl!SendFails, Cl!UserFree, Cl!SendMark, Cl!Finished, Cl!cliVars, Cl!PollRead
    <3> QED BY <2>4, <3>1, LoopKeeps DEF CliInv
  <2> QED BY <1>2, <2>1, <2>2, <2>3, <2>4 DEF Cl!Next, Cl!IoStep
<1> QED BY <1>1, <1>2

\* Until ztl_tcp_client_stop the client loses no socket over reconnects and
\* failed sends, its flag says whether the socket is in the poll set, and its
\* thread polls a socket it has, announced before.
THEOREM ClientIsSound == Spec => []ClientSound
<1> DEFINE I == part = "client" => CliInv
<1>1. Init => I
  <2> SUFFICES ASSUME Init, part = "client" PROVE CliInv
    OBVIOUS
  <2>1. Cl!Init
    BY DEF Init
  <2>2. CliTypes
    BY <2>1, NoSockIsNone DEF Cl!Init, CliTypes, Status, SockState, IoAt, NoSock
  <2>3. CliSockets /\ CliPollSet /\ CliStatus
    BY <2>1 DEF Cl!Init, CliSockets, CliPollSet, CliStatus, NoSock
  <2> QED BY <2>2, <2>3 DEF CliInv
<1>2. I /\ [Next]_vars => I'
  BY ClientSteps, CliStep
<1>3. I => ClientSound
  <2> SUFFICES ASSUME CliInv, user \in {"idle", "failed"} PROVE Cl!ClientSound
    BY DEF ClientSound, Cl!ClientSound
  <2>0. CliTypes /\ CliSockets /\ CliPollSet /\ CliStatus
    BY DEF CliInv
  <2>1. {s \in Socks : peer[s] # "closed"} \subseteq {cli.fd, iofd}
    BY <2>0 DEF CliSockets
  <2>2. (cli.added <=> cli.fd \in watch) /\ watch \subseteq {cli.fd}
    BY <2>0 DEF CliPollSet
  <2>3. cio = "poll" /\ ~sync => cli.fd # Cl!INVALID_SOCKET /\ ~unannounced
    BY <2>0 DEF CliStatus, NoSock
  <2>4. cio = "poll" /\ cli.connect_status = "Connected" => cli.fd \in watch
    BY <2>0 DEF CliStatus
  <2> QED BY <2>1, <2>2, <2>3, <2>4 DEF Cl!ClientSound, Cl!connected
<1> QED BY <1>1, <1>2, <1>3, PTL DEF Spec

-----------------------------------------------------------------------------
(* The TCP server *)

NoConn == Svr!NoConn
LoopConn(h) == [events |-> {"in"}, read_handler |-> h, write_handler |-> "none", refcount |-> 1]
HandlerOf(fd) == IF fd = ListenFd THEN "accept" ELSE "read"
Loops == [running : BOOLEAN, event_size : {EventSize},
          conns : [Fd -> {NoConn, LoopConn("accept"), LoopConn("read")}],
          watch : [Fd -> SUBSET {"reg", "in"}]]
SockRec == [open : BOOLEAN, data : Nat, eof : BOOLEAN]
OpenClients == {fd \in Fd \ {ListenFd} : sock[fd].open = TRUE}

SvrTypes ==
    /\ ev \in Loops
    /\ sock \in [Fd -> SockRec]
    /\ io \in {"none", "test", "expire", "poll", "dispatch", "accept", "gone", "released"}
    /\ backlog \in Nat /\ fired \subseteq Fd
    /\ sent \in [Fd -> Nat] /\ echoed \in [Fd -> Nat] /\ lost \in [Fd -> Nat]

\* A connection is watched for what it reads, and its socket is open.
SvrTable ==
    \A fd \in Fd : \/ ev.conns[fd] = NoConn /\ ev.watch[fd] = {}
                   \/ ev.conns[fd] = LoopConn(HandlerOf(fd)) /\ ev.watch[fd] = {"reg", "in"} /\ sock[fd].open = TRUE

\* What is still to be dispatched has its connection, and something to read.
SvrFired ==
    /\ nullConn = FALSE
    /\ io \notin {"dispatch", "accept"} => fired = {}
    /\ \A fd \in fired : /\ ev.conns[fd] # NoConn
                         /\ fd # ListenFd => sock[fd].data > 0 \/ sock[fd].eof = TRUE

\* The sockets, and who waits for one.
SvrSockets ==
    /\ io # "released" => \A fd \in Fd : echoed[fd] + lost[fd] + sock[fd].data = sent[fd]
    /\ io # "released" => backlog + Cardinality(OpenClients) <= Cardinality(Fd \ {ListenFd})
    /\ io # "released" => sock[ListenFd].open = TRUE
    /\ io = "none" => /\ \A fd \in Fd : ev.conns[fd] = NoConn
                      /\ OpenClients = {}
    /\ io \notin {"none", "released"} =>
         \A fd \in Fd : sock[fd].open = TRUE /\ ev.conns[fd] = NoConn => fd > EventSize \/ sock[fd].eof = TRUE

SvrInv == SvrTypes /\ SvrTable /\ SvrFired /\ SvrSockets

\* What ztl_evloop_add makes of a descriptor without a connection: refused
\* beyond event_size, else connected and watched.
Added(e, fd, h, a) ==
    /\ a \in Loops /\ a.running = e.running
    /\ fd > EventSize => a = e
    /\ ~(fd > EventSize) => /\ a.conns = [e.conns EXCEPT ![fd] = LoopConn(h)]
                            /\ a.watch = [e.watch EXCEPT ![fd] = {"reg", "in"}]

\* ztl_evloop_add of a descriptor that is neither connected nor watched.
LEMMA AddConnects ==
    ASSUME NEW e \in Loops, NEW fd \in Fd, NEW h \in {"accept", "read"}, NEW a,
           e.conns[fd] = NoConn, e.watch[fd] = {}, a = Svr!ztl_evloop_add(e, fd, {"in"}, h)
    PROVE  Added(e, fd, h, a)
<1> DEFINE old == Svr!ztl_connection_new
           conn == [old EXCEPT !.read_handler = IF "in" \in {"in"} THEN h ELSE @,
                               !.write_handler = IF "out" \in {"in"} THEN h ELSE @]
           r == Svr!epoll_add(e, fd, {"in"}, conn.events)
           full == [conn EXCEPT !.events = @ \cup {"in"}]
<1>1. e.event_size = EventSize /\ fd \in Nat /\ EventSize \in Nat
  BY SvrAssumption DEF Loops
<1>2. old \in [events : {{}}, read_handler : {"none"}, write_handler : {"none"}, refcount : {1}]
  BY DEF Svr!ztl_connection_new, Svr!NoConn
<1>3. conn \in [events : {{}}, read_handler : {h}, write_handler : {"none"}, refcount : {1}]
  <2> HIDE DEF old
  <2> QED BY <1>2
<1>4. conn.events = {}
  BY <1>3
<1>5. full = LoopConn(h)
  <2> HIDE DEF conn
  <2>1. full \in [events : {{"in"}}, read_handler : {h}, write_handler : {"none"}, refcount : {1}]
    BY <1>3
  <2> HIDE DEF full
  <2> QED BY <2>1 DEF LoopConn
<1>6. r = [ok |-> e.watch[fd] = {}, watch |-> {"reg"} \cup ({"in"} \cup {})]
  BY <1>4 DEF Svr!epoll_add, Svr!epoll_ctl
<1>7. r.ok /\ r.watch = {"reg", "in"}
  <2> HIDE DEF r
  <2>1. r.ok
    BY <1>6, Zenon
  <2>2. r.watch = {"reg"} \cup ({"in"} \cup {})
    BY <1>6, Zenon
  <2>3. r.watch = {"reg", "in"}
    BY <2>2
  <2> QED BY <2>1, <2>3, Zenon
<1>8. CASE fd > EventSize
  BY <1>1, <1>8 DEF Svr!ztl_evloop_add, Added
<1>9. CASE ~(fd > EventSize)
  <2>1. fd <= e.event_size /\ ~(fd > e.event_size)
    BY <1>1, <1>9
  <2>2. a = [Svr!ztl_connection_save(e, fd, full) EXCEPT !.watch[fd] = r.watch]
    BY <1>7, <2>1 DEF Svr!ztl_evloop_add, NoConn
  <2>3. a = [[e EXCEPT !.conns[fd] = LoopConn(h)] EXCEPT !.watch[fd] = {"reg", "in"}]
    BY <1>5, <1>7, <2>2 DEF Svr!ztl_connection_save
  <2> HIDE DEF old, conn, r, full
  <2>4. /\ a.conns = [e.conns EXCEPT ![fd] = LoopConn(h)] /\ a.watch = [e.watch EXCEPT ![fd] = {"reg", "in"}]
        /\ a.running = e.running /\ a.event_size = e.event_size
    BY <2>3 DEF Loops
  <2>5. [e EXCEPT !.conns[fd] = LoopConn(h)] \in Loops
    BY DEF Loops
  <2>6. \A m \in Loops : [m EXCEPT !.watch[fd] = {"reg", "in"}] \in Loops
    BY DEF Loops
  <2>7. a \in Loops
    BY <2>3, <2>5, <2>6, Zenon
  <2> QED BY <1>9, <2>4, <2>7 DEF Added
<1> QED BY <1>8, <1>9

\* ztl_evloop_del of both events and ztl_connection_free: nothing is left.
LEMMA DropRemoves ==
    ASSUME NEW e \in Loops, NEW fd \in Fd, NEW h \in {"accept", "read"}, NEW d,
           e.conns[fd] = LoopConn(h), e.watch[fd] = {"reg", "in"},
           d = Svr!ztl_connection_free(Svr!ztl_evloop_del(e, fd, {"in", "out"}), fd)
    PROVE  /\ d \in Loops /\ d.running = e.running
           /\ d.conns = [e.conns EXCEPT ![fd] = NoConn] /\ d.watch = [e.watch EXCEPT ![fd] = {}]
<1> DEFINE m == Svr!ztl_evloop_del(e, fd, {"in", "out"})
           r == Svr!epoll_del(e, fd, {"in", "out"}, Svr!ztl_connection_find(e, fd).events)
<1>1. Svr!ztl_connection_find(e, fd).events = {"in"}
  BY DEF Svr!ztl_connection_find, LoopConn
<1>2. r = [ok |-> e.watch[fd] # {}, watch |-> {}]
  BY <1>1 DEF Svr!epoll_del, Svr!epoll_ctl
<1>3. m = [e EXCEPT !.watch[fd] = {}]
  <2>1. e.watch[fd] # {}
    OBVIOUS
  <2> HIDE DEF r
  <2>2. r.ok /\ r.watch = {}
    BY <1>2, <2>1, Zenon
  <2> QED BY <2>2, Zenon DEF r, Svr!ztl_evloop_del
<1> HIDE DEF m, r
<1>4. m.conns = e.conns /\ m.running = e.running /\ m.event_size = e.event_size
  BY <1>3 DEF Loops
<1>5. m.watch = [e.watch EXCEPT ![fd] = {}]
  BY <1>3 DEF Loops
<1>6. m.conns[fd].refcount = 1
  BY <1>4 DEF LoopConn
<1>7. d = [m EXCEPT !.conns[fd] = NoConn]
  BY <1>6 DEF m, Svr!ztl_connection_free, Svr!ztl_connection_remove, NoConn
<1>8. m \in Loops
  BY <1>3 DEF Loops
<1>9. d \in Loops
  BY <1>7, <1>8 DEF Loops
<1>10. d.conns = [m.conns EXCEPT ![fd] = NoConn] /\ d.watch = m.watch /\ d.running = m.running
  BY <1>7, <1>8 DEF Loops
<1> QED BY <1>4, <1>5, <1>9, <1>10

\* The open clients are counted among the descriptors.
LEMMA ClientsCounted ==
    ASSUME SvrTypes
    PROVE  /\ IsFiniteSet(OpenClients) /\ Cardinality(OpenClients) \in Nat
           /\ Cardinality(Fd \ {ListenFd}) \in Nat
           /\ Cardinality(OpenClients) <= Cardinality(Fd \ {ListenFd})
           /\ (Cardinality(OpenClients) < Cardinality(Fd \ {ListenFd}) => OpenClients # Fd \ {ListenFd})
<1>1. IsFiniteSet(Fd \ {ListenFd}) /\ OpenClients \subseteq Fd \ {ListenFd}
  BY FS_Difference, SvrAssumption DEF OpenClients
<1>2. IsFiniteSet(OpenClients) /\ Cardinality(OpenClients) <= Cardinality(Fd \ {ListenFd})
  BY <1>1, FS_Subset
<1>3. Cardinality(OpenClients) \in Nat /\ Cardinality(Fd \ {ListenFd}) \in Nat
  BY <1>1, <1>2, FS_CardinalityType
<1> QED BY <1>2, <1>3

\* The loop's own steps, and a client that connects: table and sockets stay.
LEMMA ServerLoopKeeps ==
    ASSUME SvrInv,
           Svr!LoopTest \/ Svr!Poll \/ Svr!DispatchAccept \/ Svr!AcceptEnd \/ Svr!Connect
    PROVE  SvrInv'
<1>0. SvrTypes /\ SvrTable /\ SvrFired /\ SvrSockets
  BY DEF SvrInv
<1>1. UNCHANGED <<ev, sock, sent, echoed, nullConn, lost>>
  BY DEF Svr!LoopTest, Svr!Poll, Svr!DispatchAccept, Svr!AcceptEnd, Svr!Connect, Svr!Indoors, Svr!ends
<1>2. SvrTable'
  BY <1>0, <1>1 DEF SvrTable
<1>3. OpenClients' = OpenClients
  BY <1>1 DEF OpenClients
<1>4. io \notin {"none", "released"} /\ io' \notin {"none", "released"}
  BY DEF Svr!LoopTest, Svr!Poll, Svr!DispatchAccept, Svr!AcceptEnd, Svr!Finish, Svr!Connect, Svr!Indoors, Svr!ends
<1>5. CASE Svr!LoopTest \/ Svr!DispatchAccept
  <2>1. UNCHANGED <<fired, backlog>> /\ io' \in {"expire", "gone", "accept"}
        /\ (io = "test" \/ io' = "accept")
    BY <1>5 DEF Svr!LoopTest, Svr!DispatchAccept
  <2>2. SvrTypes' /\ SvrSockets'
    BY <1>0, <1>1, <1>3, <1>4, <2>1 DEF SvrTypes, SvrSockets
  <2>3. SvrFired'
    BY <1>0, <1>1, <2>1 DEF SvrFired
  <2> QED BY <1>2, <2>2, <2>3 DEF SvrInv
<1>6. CASE Svr!Poll
  <2>1. backlog' = backlog /\ fired' = Svr!Ready /\ io' \in {"test", "dispatch"}
        /\ (Svr!Ready = {} => io' = "test") /\ (Svr!Ready # {} => io' = "dispatch")
    BY <1>6 DEF Svr!Poll
  <2>2. \A fd \in Svr!Ready : /\ fd \in Fd /\ ev.watch[fd] # {}
                              /\ fd # ListenFd => sock[fd].data > 0 \/ sock[fd].eof
    BY DEF Svr!Ready
  <2>3. \A fd \in Svr!Ready : ev.conns[fd] # NoConn
    <3>1. NoConn # LoopConn("accept") /\ NoConn # LoopConn("read")
      BY DEF NoConn, Svr!NoConn, LoopConn
    <3> QED BY <1>0, <2>2, <3>1 DEF SvrTable, HandlerOf
  <2>4. \A fd \in Svr!Ready : sock[fd].eof => sock[fd].eof = TRUE
    BY <1>0, <2>2 DEF SvrTypes
  <2>5. SvrTypes' /\ SvrSockets'
    BY <1>0, <1>1, <1>3, <1>4, <2>1, <2>2 DEF SvrTypes, SvrSockets
  <2>6. SvrFired'
    BY <1>0, <1>1, <2>1, <2>2, <2>3, <2>4 DEF SvrFired
  <2> QED BY <1>2, <2>5, <2>6 DEF SvrInv
<1>7. CASE Svr!AcceptEnd
  <2>1. backlog' = backlog /\ fired' = fired \ {ListenFd} /\ io' \in {"test", "dispatch"}
        /\ (fired = {ListenFd} => io' = "test") /\ (fired # {ListenFd} => io' = "dispatch")
    BY <1>7 DEF Svr!AcceptEnd, Svr!Finish
  <2>2. SvrTypes' /\ SvrSockets'
    BY <1>0, <1>1, <1>3, <1>4, <2>1 DEF SvrTypes, SvrSockets
  <2>3. SvrFired'
    BY <1>0, <1>1, <2>1 DEF SvrFired
  <2> QED BY <1>2, <2>2, <2>3 DEF SvrInv
<1>8. CASE Svr!Connect
  <2>1. UNCHANGED <<fired, io>> /\ backlog' = backlog + 1
        /\ backlog + Svr!Cardinality({fd \in Svr!Clients : sock[fd].open}) < Svr!Cardinality(Svr!Clients)
    BY <1>8 DEF Svr!Connect, Svr!Indoors, Svr!ends
  <2>2. {fd \in Svr!Clients : sock[fd].open} = OpenClients
    BY <1>0 DEF SvrTypes, OpenClients, Svr!Clients
  <2>3. \A S : Svr!Cardinality(S) = Cardinality(S)
    BY DEF Svr!Cardinality, Cardinality
  <2>4. backlog + Cardinality(OpenClients) < Cardinality(Fd \ {ListenFd})
    BY <2>1, <2>2, <2>3 DEF Svr!Clients
  <2>5. backlog' + Cardinality(OpenClients) <= Cardinality(Fd \ {ListenFd})
    BY <1>0, <2>1, <2>4, ClientsCounted DEF SvrTypes
  <2>6. SvrTypes'
    BY <1>0, <1>1, <2>1 DEF SvrTypes
  <2>7. SvrSockets'
    BY <1>0, <1>1, <1>3, <1>4, <2>1, <2>5 DEF SvrSockets
  <2>8. SvrFired'
    BY <1>0, <1>1, <2>1 DEF SvrFired
  <2> QED BY <1>2, <2>6, <2>7, <2>8 DEF SvrInv
<1> QED BY <1>5, <1>6, <1>7, <1>8

\* A connection is not NoConn, whatever its handler.
LEMMA ConnIsOne == \A h : LoopConn(h) # NoConn
<1>1. \A h : LoopConn(h).refcount = 1
  BY DEF LoopConn
<1>2. NoConn.refcount = 0
  BY DEF NoConn, Svr!NoConn
<1> QED BY <1>1, <1>2

\* The server is started, stopped and released.
LEMMA ServerLifeKeeps ==
    ASSUME SvrInv,
           Svr!ztl_tcp_server_start \/ Svr!ztl_tcp_server_stop \/ Svr!ztl_tcp_server_release
    PROVE  SvrInv'
<1>0. SvrTypes /\ SvrTable /\ SvrFired /\ SvrSockets
  BY DEF SvrInv
<1>1. CASE Svr!ztl_tcp_server_start
  <2> DEFINE a == Svr!ztl_evloop_add(ev, ListenFd, {"in"}, "accept")
  <2>1. /\ io = "none" /\ io' = "test" /\ ev' = [a EXCEPT !.running = TRUE]
        /\ UNCHANGED <<fired, backlog, sock, sent, echoed, nullConn, lost>>
    BY <1>1 DEF Svr!ztl_tcp_server_start, Svr!ztl_evloop_start, Svr!ends
  <2>2. ListenFd \in Fd /\ \A fd \in Fd : ev.conns[fd] = NoConn /\ ev.watch[fd] = {}
    BY <1>0, <2>1, SvrAssumption, ConnIsOne DEF SvrTable, SvrSockets
  <2>3. /\ a \in Loops /\ a.running = ev.running
        /\ ListenFd > EventSize => a = ev
        /\ ~(ListenFd > EventSize) => /\ a.conns = [ev.conns EXCEPT ![ListenFd] = LoopConn("accept")]
                                      /\ a.watch = [ev.watch EXCEPT ![ListenFd] = {"reg", "in"}]
    <3> HIDE DEF a
    <3>1. a = Svr!ztl_evloop_add(ev, ListenFd, {"in"}, "accept")
      BY DEF a
    <3>2. ev \in Loops /\ "accept" \in {"accept", "read"}
      BY <1>0 DEF SvrTypes
    <3>3. ev.conns[ListenFd] = NoConn /\ ev.watch[ListenFd] = {} /\ ListenFd \in Fd
      BY <2>2
    <3>4. Added(ev, ListenFd, "accept", a)
      BY <3>1, <3>2, <3>3, AddConnects, Zenon
    <3> QED BY <3>4 DEF Added
  <2> HIDE DEF a
  <2>4. ev' \in Loops /\ ev'.conns = a.conns /\ ev'.watch = a.watch
    BY <2>1, <2>3 DEF Loops
  <2>5. SvrTypes'
    BY <1>0, <2>1, <2>4 DEF SvrTypes
  <2>6. \A fd \in Fd : fd # ListenFd => ev'.conns[fd] = NoConn /\ ev'.watch[fd] = {}
    BY <1>0, <2>2, <2>3, <2>4 DEF SvrTypes, Loops
  <2>7. \/ ListenFd > EventSize /\ ev'.conns[ListenFd] = NoConn /\ ev'.watch[ListenFd] = {}
        \/ ev'.conns[ListenFd] = LoopConn("accept") /\ ev'.watch[ListenFd] = {"reg", "in"}
    BY <1>0, <2>2, <2>3, <2>4 DEF SvrTypes, Loops
  <2>8. sock'[ListenFd].open = TRUE /\ \A fd \in Fd : fd # ListenFd => sock'[fd].open # TRUE
    BY <1>0, <2>1 DEF SvrSockets, OpenClients
  <2>9. SvrTable'
    BY <2>6, <2>7, <2>8 DEF SvrTable, HandlerOf
  <2>10. SvrFired'
    BY <1>0, <2>1 DEF SvrFired
  <2>11. \A fd \in Fd : sock'[fd].open = TRUE /\ ev'.conns[fd] = NoConn => fd > EventSize
    BY <2>7, <2>8, ConnIsOne
  <2>12. SvrSockets'
    BY <1>0, <2>1, <2>8, <2>11 DEF SvrSockets, OpenClients
  <2> QED BY <2>5, <2>9, <2>10, <2>12 DEF SvrInv
<1>2. CASE Svr!ztl_tcp_server_stop
  <2>1. /\ ev' = [ev EXCEPT !.running = FALSE]
        /\ UNCHANGED <<io, fired, backlog, sock, sent, echoed, nullConn, lost>>
    BY <1>2 DEF Svr!ztl_tcp_server_stop, Svr!ztl_evloop_stop, Svr!ends
  <2>2. ev' \in Loops /\ ev'.conns = ev.conns /\ ev'.watch = ev.watch
    BY <1>0, <2>1 DEF SvrTypes, Loops
  <2>3. SvrTypes'
    BY <1>0, <2>1, <2>2 DEF SvrTypes
  <2>4. SvrTable' /\ SvrFired'
    BY <1>0, <2>1, <2>2 DEF SvrTable, SvrFired
  <2>5. SvrSockets'
    BY <1>0, <2>1, <2>2 DEF SvrSockets, OpenClients
  <2> QED BY <2>3, <2>4, <2>5 DEF SvrInv
<1>3. CASE Svr!ztl_tcp_server_release
  <2>1. /\ io = "gone" /\ io' = "released" /\ UNCHANGED <<fired, backlog, sent, echoed, nullConn, lost>>
        /\ ev' = [running |-> FALSE, event_size |-> ev.event_size,
                  conns |-> [fd \in Fd |-> NoConn], watch |-> [fd \in Fd |-> {}]]
        /\ sock' = [fd \in Fd |-> IF ev.conns[fd] # NoConn THEN [open |-> FALSE, data |-> 0, eof |-> FALSE]
                                  ELSE sock[fd]]
    BY <1>3 DEF Svr!ztl_tcp_server_release, Svr!ztl_evloop_release, Svr!ztl_evloop_create, Svr!Closed, Svr!ends, NoConn
  <2>2. ev' \in Loops /\ \A fd \in Fd : ev'.conns[fd] = NoConn /\ ev'.watch[fd] = {}
    BY <1>0, <2>1 DEF SvrTypes, Loops
  <2>3. SvrTypes'
    BY <1>0, <2>1, <2>2 DEF SvrTypes, SockRec
  <2>4. SvrTable' /\ SvrFired'
    BY <1>0, <2>1, <2>2 DEF SvrTable, SvrFired
  <2>5. SvrSockets'
    BY <2>1 DEF SvrSockets
  <2> QED BY <2>3, <2>4, <2>5 DEF SvrInv
<1> QED BY <1>1, <1>2, <1>3

\* The kernel adds or takes data of a socket, and changes nothing else of it.
LEMMA SocketData ==
    ASSUME NEW r \in SockRec, NEW d \in Nat, NEW q, q = [r EXCEPT !.data = d]
    PROVE  q \in SockRec /\ q.data = d /\ q.open = r.open /\ q.eof = r.eof
  BY DEF SockRec

\* A peer that leaves, or a timer, ends the data of a socket, and no more.
LEMMA SocketEnd ==
    ASSUME NEW r \in SockRec, NEW q, q = [r EXCEPT !.eof = TRUE]
    PROVE  q \in SockRec /\ q.data = r.data /\ q.open = r.open /\ q.eof = TRUE
  BY DEF SockRec

\* Clients send and leave, and the timers shut sockets down: no socket opens
\* or closes, and no data is lost.
LEMMA ServerClientsKeep ==
    ASSUME SvrInv,
           \/ \E fd \in Svr!Clients : Svr!Send(fd) \/ Svr!Leave(fd)
           \/ \E due \in SUBSET armed : Svr!Expire(due)
    PROVE  SvrInv'
<1>0. SvrTypes /\ SvrTable /\ SvrFired /\ SvrSockets
  BY DEF SvrInv
<1>1. UNCHANGED <<ev, fired, backlog, echoed, nullConn, lost>>
  BY DEF Svr!Send, Svr!Leave, Svr!Expire, Svr!Indoors, Svr!ends
<1>2. io' = io \/ (io = "expire" /\ io' = "poll")
  BY DEF Svr!Send, Svr!Leave, Svr!Expire, Svr!Indoors, Svr!ends
<1>3. /\ sock' \in [Fd -> SockRec] /\ sent' \in [Fd -> Nat]
      /\ \A f \in Fd : /\ sock'[f].open = sock[f].open
                       /\ sock[f].eof = TRUE => sock'[f].eof = TRUE
                       /\ sock'[f].data >= sock[f].data
                       /\ sent'[f] - sock'[f].data = sent[f] - sock[f].data
  <2>1. CASE \E fd \in Svr!Clients : Svr!Send(fd)
    <3>1. PICK fd \in Fd : sock' = [sock EXCEPT ![fd].data = @ + 1] /\ sent' = [sent EXCEPT ![fd] = @ + 1]
      BY <2>1 DEF Svr!Clients, Svr!Send
    <3>2. sock \in [Fd -> SockRec] /\ sent \in [Fd -> Nat]
      BY <1>0 DEF SvrTypes
    <3>3. sock'[fd] = [sock[fd] EXCEPT !.data = sock[fd].data + 1] /\ \A f \in Fd : f # fd => sock'[f] = sock[f]
      BY <3>1, <3>2
    <3>4. sock[fd].data \in Nat /\ sock[fd].data + 1 \in Nat
      BY <3>2 DEF SockRec
    <3>5. /\ sock'[fd] \in SockRec /\ sock'[fd].data = sock[fd].data + 1
          /\ sock'[fd].open = sock[fd].open /\ sock'[fd].eof = sock[fd].eof
      BY <3>2, <3>3, <3>4, SocketData
    <3>6. sock' \in [Fd -> SockRec] /\ sent' \in [Fd -> Nat]
      BY <3>1, <3>2, <3>3, <3>5
    <3>7. \A f \in Fd : sock[f].data \in Nat
      BY <3>2 DEF SockRec
    <3> QED BY <3>1, <3>2, <3>3, <3>5, <3>6, <3>7
  <2>2. CASE \E fd \in Svr!Clients : Svr!Leave(fd)
    <3>1. PICK fd \in Fd : sock' = [sock EXCEPT ![fd].eof = TRUE] /\ sent' = sent
      BY <2>2 DEF Svr!Clients, Svr!Leave
    <3>2. sock \in [Fd -> SockRec] /\ sent \in [Fd -> Nat]
      BY <1>0 DEF SvrTypes
    <3>3. sock'[fd] = [sock[fd] EXCEPT !.eof = TRUE] /\ \A f \in Fd : f # fd => sock'[f] = sock[f]
      BY <3>1, <3>2
    <3>4. /\ sock'[fd] \in SockRec /\ sock'[fd].data = sock[fd].data
          /\ sock'[fd].open = sock[fd].open /\ sock'[fd].eof = TRUE
      BY <3>2, <3>3, SocketEnd
    <3>5. sock' \in [Fd -> SockRec]
      BY <3>1, <3>2, <3>3, <3>4
    <3>6. \A f \in Fd : sock[f].data \in Nat
      BY <3>2 DEF SockRec
    <3> QED BY <3>1, <3>2, <3>3, <3>4, <3>5, <3>6
  <2>3. CASE \E due \in SUBSET armed : Svr!Expire(due)
    <3>1. PICK due : sock' = [fd \in Fd |-> IF fd \in due THEN [sock[fd] EXCEPT !.eof = TRUE] ELSE sock[fd]]
                     /\ sent' = sent
      BY <2>3 DEF Svr!Expire
    <3>2. sock \in [Fd -> SockRec] /\ sent \in [Fd -> Nat]
      BY <1>0 DEF SvrTypes
    <3>3. \A f \in Fd : sock'[f] = sock[f] \/ sock'[f] = [sock[f] EXCEPT !.eof = TRUE]
      BY <3>1
    <3>4. \A f \in Fd : /\ sock'[f] \in SockRec /\ sock'[f].data = sock[f].data
                         /\ sock'[f].open = sock[f].open /\ (sock[f].eof = TRUE => sock'[f].eof = TRUE)
      BY <3>2, <3>3, SocketEnd
    <3>5. sock' \in [Fd -> SockRec]
      BY <3>1, <3>4
    <3>6. \A f \in Fd : sock[f].data \in Nat
      BY <3>2 DEF SockRec
    <3> QED BY <3>1, <3>2, <3>4, <3>5, <3>6
  <2> QED BY <2>1, <2>2, <2>3
<1>4. OpenClients' = OpenClients
  BY <1>3 DEF OpenClients
<1>5. SvrTypes'
  BY <1>0, <1>1, <1>2, <1>3 DEF SvrTypes
<1>6. SvrTable'
  BY <1>0, <1>1, <1>3 DEF SvrTable
<1>7. SvrFired'
  BY <1>0, <1>1, <1>2, <1>3 DEF SvrFired, SvrTypes, SockRec
<1>8. io # "released" => \A f \in Fd : echoed[f] + lost[f] + sock'[f].data = sent'[f]
  BY <1>0, <1>3 DEF SvrSockets, SvrTypes, SockRec
<1>9. SvrSockets'
  BY <1>0, <1>1, <1>2, <1>3, <1>4, <1>8, SvrAssumption DEF SvrSockets
<1> QED BY <1>5, <1>6, <1>7, <1>9 DEF SvrInv

\* _read_handler: a message is echoed or lost, the connection is dropped at its
\* end, or the recv fails.
LEMMA ServerReadKeeps ==
    ASSUME SvrInv, NEW fd \in Fd, Svr!DispatchRead(fd)
    PROVE  SvrInv'
<1>0. SvrTypes /\ SvrTable /\ SvrFired /\ SvrSockets
  BY DEF SvrInv
<1>1. /\ io = "dispatch" /\ fd \in fired /\ fd # ListenFd
      /\ fired' = fired \ {fd} /\ io' \in {"test", "dispatch"} /\ (io' = "test" <=> fired = {fd})
      /\ UNCHANGED <<backlog, sent>>
  BY DEF Svr!DispatchRead, Svr!Finish
<1>2. /\ ev.conns[fd] = LoopConn("read") /\ ev.watch[fd] = {"reg", "in"} /\ sock[fd].open = TRUE
      /\ ev.conns[fd] # NoConn
      /\ sock[fd].data > 0 \/ sock[fd].eof = TRUE
  BY <1>0, <1>1 DEF SvrFired, SvrTable, HandlerOf
<1>3. nullConn' = FALSE
  <2>1. nullConn' = (nullConn \/ ev.conns[fd] = Svr!NoConn)
    BY DEF Svr!DispatchRead
  <2>2. nullConn = FALSE /\ ev.conns[fd] # Svr!NoConn
    BY <1>0, <1>2 DEF SvrFired, NoConn
  <2> QED BY <2>1, <2>2, Zenon
<1>4. CASE sock[fd].data > 0 /\ Svr!Echo(fd)
  <2>1. /\ sock' = [sock EXCEPT ![fd].data = @ - 1] /\ ev' = ev
        /\ \/ echoed' = [echoed EXCEPT ![fd] = @ + 1] /\ lost' = lost
           \/ lost' = [lost EXCEPT ![fd] = @ + 1] /\ echoed' = echoed
    BY <1>4 DEF Svr!Echo
  <2>2. /\ sock' \in [Fd -> SockRec] /\ echoed' \in [Fd -> Nat] /\ lost' \in [Fd -> Nat]
        /\ \A f \in Fd : /\ sock'[f].open = sock[f].open /\ sock'[f].eof = sock[f].eof
                         /\ f # fd => sock'[f].data = sock[f].data
                         /\ echoed'[f] + lost'[f] + sock'[f].data = echoed[f] + lost[f] + sock[f].data
    <3>1. sock \in [Fd -> SockRec] /\ echoed \in [Fd -> Nat] /\ lost \in [Fd -> Nat]
      BY <1>0 DEF SvrTypes
    <3>2. sock'[fd] = [sock[fd] EXCEPT !.data = sock[fd].data - 1] /\ \A f \in Fd : f # fd => sock'[f] = sock[f]
      BY <2>1, <3>1
    <3>3. sock[fd].data \in Nat /\ sock[fd].data - 1 \in Nat
      BY <1>4, <3>1 DEF SockRec
    <3>4. /\ sock'[fd] \in SockRec /\ sock'[fd].data = sock[fd].data - 1
          /\ sock'[fd].open = sock[fd].open /\ sock'[fd].eof = sock[fd].eof
      BY <3>1, <3>2, <3>3, SocketData
    <3>5. sock' \in [Fd -> SockRec] /\ echoed' \in [Fd -> Nat] /\ lost' \in [Fd -> Nat]
      BY <2>1, <3>1, <3>2, <3>4
    <3>6. \A f \in Fd : sock[f].data \in Nat
      BY <3>1 DEF SockRec
    <3>7. \A f \in Fd : echoed'[f] + lost'[f] + sock'[f].data = echoed[f] + lost[f] + sock[f].data
      <4>1. CASE echoed' = [echoed EXCEPT ![fd] = @ + 1] /\ lost' = lost
        <5>1. ASSUME NEW f \in Fd PROVE echoed'[f] + lost'[f] + sock'[f].data = echoed[f] + lost[f] + sock[f].data
          <6>1. CASE f = fd
            BY <3>1, <3>3, <3>4, <4>1, <6>1
          <6>2. CASE f # fd
            BY <3>1, <3>2, <4>1, <6>2
          <6> QED BY <6>1, <6>2
        <5> QED BY <5>1
      <4>2. CASE lost' = [lost EXCEPT ![fd] = @ + 1] /\ echoed' = echoed
        <5>1. ASSUME NEW f \in Fd PROVE echoed'[f] + lost'[f] + sock'[f].data = echoed[f] + lost[f] + sock[f].data
          <6>1. CASE f = fd
            BY <3>1, <3>3, <3>4, <4>2, <6>1
          <6>2. CASE f # fd
            BY <3>1, <3>2, <4>2, <6>2
          <6> QED BY <6>1, <6>2
        <5> QED BY <5>1
      <4> QED BY <2>1, <4>1, <4>2
    <3> QED BY <3>2, <3>4, <3>5, <3>7
  <2>3. OpenClients' = OpenClients
    BY <2>2 DEF OpenClients
  <2>4. SvrTypes'
    BY <1>0, <1>1, <2>1, <2>2 DEF SvrTypes
  <2>5. SvrTable'
    BY <1>0, <2>1, <2>2 DEF SvrTable
  <2>6. SvrFired'
    BY <1>0, <1>1, <1>3, <2>1, <2>2 DEF SvrFired, SvrTypes
  <2>7. SvrSockets'
    BY <1>0, <1>1, <2>1, <2>2, <2>3, SvrAssumption DEF SvrSockets
  <2> QED BY <2>4, <2>5, <2>6, <2>7 DEF SvrInv
<1>5. CASE sock[fd].data = 0 /\ Svr!Drop(fd)
  <2>1. /\ ev' = Svr!ztl_connection_free(Svr!ztl_evloop_del(ev, fd, {"in", "out"}), fd)
        /\ UNCHANGED <<sock, echoed, lost>> /\ sock[fd].eof = TRUE
    BY <1>2, <1>5 DEF Svr!Drop
  <2>2. ev \in Loops /\ "read" \in {"accept", "read"}
    BY <1>0 DEF SvrTypes
  <2>3. ev' \in Loops /\ ev'.conns = [ev.conns EXCEPT ![fd] = NoConn] /\ ev'.watch = [ev.watch EXCEPT ![fd] = {}]
    <3> DEFINE h == "read"  d == Svr!ztl_connection_free(Svr!ztl_evloop_del(ev, fd, {"in", "out"}), fd)
    <3>1. h \in {"accept", "read"} /\ ev.conns[fd] = LoopConn(h) /\ ev.watch[fd] = {"reg", "in"}
      BY <1>2, <2>2
    <3> HIDE DEF h
    <3>2. d \in Loops /\ d.conns = [ev.conns EXCEPT ![fd] = NoConn] /\ d.watch = [ev.watch EXCEPT ![fd] = {}]
      BY <2>2, <3>1, DropRemoves
    <3> HIDE DEF d
    <3>3. ev' = d
      BY <2>1 DEF d
    <3> QED BY <3>2, <3>3
  <2>4. /\ ev'.conns[fd] = NoConn /\ ev'.watch[fd] = {}
        /\ \A f \in Fd : f # fd => ev'.conns[f] = ev.conns[f] /\ ev'.watch[f] = ev.watch[f]
    BY <2>2, <2>3 DEF Loops
  <2>5. OpenClients' = OpenClients
    BY <2>1 DEF OpenClients
  <2>6. SvrTypes'
    BY <1>0, <1>1, <2>1, <2>3 DEF SvrTypes
  <2>7. SvrTable'
    BY <1>0, <2>1, <2>4 DEF SvrTable
  <2>8. SvrFired'
    BY <1>0, <1>1, <1>3, <2>1, <2>4 DEF SvrFired, SvrTypes
  <2>9. SvrSockets'
    BY <1>0, <1>1, <2>1, <2>4, <2>5 DEF SvrSockets
  <2> QED BY <2>6, <2>7, <2>8, <2>9 DEF SvrInv
<1>6. CASE Svr!RecvFails
  <2>1. UNCHANGED <<ev, sock, echoed, lost>>
    BY <1>6 DEF Svr!RecvFails
  <2>2. OpenClients' = OpenClients
    BY <2>1 DEF OpenClients
  <2>3. SvrTypes' /\ SvrTable'
    BY <1>0, <1>1, <2>1 DEF SvrTypes, SvrTable
  <2>4. SvrFired'
    BY <1>0, <1>1, <1>3, <2>1 DEF SvrFired, SvrTypes
  <2>5. SvrSockets'
    BY <1>0, <1>1, <2>1, <2>2 DEF SvrSockets
  <2> QED BY <2>3, <2>4, <2>5 DEF SvrInv
<1> QED BY <1>4, <1>5, <1>6 DEF Svr!DispatchRead

\* One round of _accept_handler: whoever waits finds a free descriptor, and
\* the connection of it is new.
LEMMA ServerAcceptKeeps ==
    ASSUME SvrInv, Svr!AcceptOne
    PROVE  SvrInv'
<1>0. SvrTypes /\ SvrTable /\ SvrFired /\ SvrSockets
  BY DEF SvrInv
<1> DEFINE fd == CHOOSE f \in Svr!Clients : ~sock[f].open /\ \A g \in Svr!Clients : g < f => sock[g].open
<1>1. /\ io = "accept" /\ backlog > 0 /\ backlog' = backlog - 1
      /\ sock' = [sock EXCEPT ![fd].open = TRUE]
      /\ ev' = Svr!ztl_evloop_add(ev, fd, {"in"}, "read")
      /\ UNCHANGED <<io, fired, sent, echoed, nullConn, lost>>
  BY DEF Svr!AcceptOne, Svr!ends
<1>2. backlog \in Nat /\ backlog' \in Nat
  BY <1>0, <1>1 DEF SvrTypes
<1>3. fd \in Fd /\ fd # ListenFd /\ sock[fd].open = FALSE
  <2> DEFINE T == (Fd \ {ListenFd}) \ OpenClients
  <2>1. Cardinality(OpenClients) < Cardinality(Fd \ {ListenFd})
    BY <1>0, <1>1, <1>2, ClientsCounted DEF SvrSockets
  <2>2. T \subseteq Nat /\ T # {}
    BY <1>0, <2>1, ClientsCounted, SvrAssumption DEF OpenClients
  <2>3. PICK x \in T : \A y \in T : ~(y < x)
    BY <2>2, Lowest
  <2>4. \A f \in Svr!Clients : f \in T <=> ~sock[f].open
    BY <1>0 DEF Svr!Clients, OpenClients, SvrTypes, SockRec
  <2>5. x \in Svr!Clients /\ ~sock[x].open /\ \A g \in Svr!Clients : g < x => sock[g].open
    BY <2>3, <2>4 DEF Svr!Clients
  <2>6. fd \in Svr!Clients /\ ~sock[fd].open
    BY <2>5
  <2> QED BY <1>0, <2>6 DEF Svr!Clients, SvrTypes, SockRec
<1> HIDE DEF fd
<1>4. ev.conns[fd] = NoConn /\ ev.watch[fd] = {}
  BY <1>0, <1>3 DEF SvrTable
<1>5. ev \in Loops /\ "read" \in {"accept", "read"}
  BY <1>0 DEF SvrTypes
<1>6. Added(ev, fd, "read", ev')
  BY <1>1, <1>3, <1>4, <1>5, AddConnects, Zenon
<1>7. /\ ev' \in Loops
      /\ \A f \in Fd : f # fd => ev'.conns[f] = ev.conns[f] /\ ev'.watch[f] = ev.watch[f]
      /\ \/ fd > EventSize /\ ev'.conns[fd] = NoConn /\ ev'.watch[fd] = {}
         \/ ev'.conns[fd] = LoopConn("read") /\ ev'.watch[fd] = {"reg", "in"}
  BY <1>3, <1>4, <1>5, <1>6 DEF Added, Loops
<1>8. sock \in [Fd -> SockRec]
  BY <1>0 DEF SvrTypes
<1>9. sock'[fd] = [sock[fd] EXCEPT !.open = TRUE] /\ \A f \in Fd : f # fd => sock'[f] = sock[f]
  BY <1>1, <1>3, <1>8
<1>10. ASSUME NEW r \in SockRec, NEW q, q = [r EXCEPT !.open = TRUE]
       PROVE  q \in SockRec /\ q.data = r.data /\ q.open = TRUE /\ q.eof = r.eof
  BY <1>10 DEF SockRec
<1>11. sock[fd] \in SockRec
  BY <1>3, <1>8
<1>12. sock'[fd] \in SockRec /\ sock'[fd].data = sock[fd].data /\ sock'[fd].open = TRUE /\ sock'[fd].eof = sock[fd].eof
  BY <1>9, <1>10, <1>11
<1>13. sock' \in [Fd -> SockRec]
  BY <1>1, <1>8, <1>9, <1>12
<1>14. OpenClients' = OpenClients \cup {fd} /\ fd \notin OpenClients
  BY <1>3, <1>9, <1>12 DEF OpenClients
<1>15. Cardinality(OpenClients \cup {fd}) = Cardinality(OpenClients) + 1
  BY <1>0, <1>14, ClientsCounted, FS_AddElement
<1>16. backlog' + Cardinality(OpenClients') <= Cardinality(Fd \ {ListenFd})
  <2>1. backlog + Cardinality(OpenClients) <= Cardinality(Fd \ {ListenFd})
    BY <1>0, <1>1 DEF SvrSockets
  <2>2. Cardinality(OpenClients') = Cardinality(OpenClients) + 1
    BY <1>14, <1>15
  <2>3. Cardinality(OpenClients) \in Nat /\ Cardinality(Fd \ {ListenFd}) \in Nat
    BY <1>0, ClientsCounted
  <2> QED BY <1>1, <1>2, <2>1, <2>2, <2>3
<1>17. SvrTypes'
  BY <1>0, <1>1, <1>2, <1>7, <1>13 DEF SvrTypes
<1>18. SvrTable'
  <2>1. ASSUME NEW f \in Fd, f # fd
        PROVE  \/ ev'.conns[f] = NoConn /\ ev'.watch[f] = {}
               \/ ev'.conns[f] = LoopConn(HandlerOf(f)) /\ ev'.watch[f] = {"reg", "in"} /\ sock'[f].open = TRUE
    BY <1>0, <1>7, <1>9, <2>1 DEF SvrTable
  <2>2. HandlerOf(fd) = "read"
    BY <1>3 DEF HandlerOf
  <2>3. \/ ev'.conns[fd] = NoConn /\ ev'.watch[fd] = {}
        \/ ev'.conns[fd] = LoopConn(HandlerOf(fd)) /\ ev'.watch[fd] = {"reg", "in"} /\ sock'[fd].open = TRUE
    BY <1>7, <1>12, <2>2
  <2> QED BY <2>1, <2>3 DEF SvrTable
<1>19. fd \notin fired
  BY <1>0, <1>4 DEF SvrFired
<1>20. SvrFired'
  BY <1>0, <1>1, <1>7, <1>9, <1>19 DEF SvrFired, SvrTypes
<1>21. \A f \in Fd : sock'[f].data = sock[f].data
  BY <1>9, <1>12
<1>22. \A f \in Fd : sock'[f].open = TRUE /\ ev'.conns[f] = NoConn => f > EventSize \/ sock'[f].eof = TRUE
  BY <1>0, <1>1, <1>7, <1>9, ConnIsOne DEF SvrSockets
<1>23. sock'[ListenFd].open = TRUE
  BY <1>0, <1>1, <1>3, <1>9, SvrAssumption DEF SvrSockets
<1>24. SvrSockets'
  BY <1>0, <1>1, <1>16, <1>21, <1>22, <1>23 DEF SvrSockets
<1> QED BY <1>17, <1>18, <1>20, <1>24 DEF SvrInv

\* A step of another part leaves the server alone.
LEMMA ServerSteps ==
    ASSUME [Next]_vars, part' = "server"
    PROVE  part = "server" /\ (Svr!Next \/ UNCHANGED svrVars)
  BY DEF Next, QueuePart, DispatcherPart, LoggerPart, ServerPart, ClientPart,
         NotQueue, NotServer, NotClient, vars

\* Every step of the server keeps SvrInv.
LEMMA SvrStep == SvrInv /\ (Svr!Next \/ UNCHANGED svrVars) => SvrInv'
<1> SUFFICES ASSUME SvrInv, Svr!Next \/ UNCHANGED svrVars PROVE SvrInv'
  OBVIOUS
<1>1. CASE UNCHANGED svrVars
  BY <1>1 DEF svrVars, Svr!ends, SvrInv, SvrTypes, SvrTable, SvrFired, SvrSockets, OpenClients
<1>2. CASE Svr!Next
  <2>1. CASE Svr!ztl_tcp_server_start \/ Svr!ztl_tcp_server_stop \/ Svr!ztl_tcp_server_release
    BY <2>1, ServerLifeKeeps
  <2>2. CASE Svr!LoopTest \/ Svr!Poll \/ Svr!DispatchAccept \/ Svr!AcceptEnd \/ Svr!Connect
    BY <2>2, ServerLoopKeeps
  <2>3. CASE \/ \E fd \in Svr!Clients : Svr!Send(fd) \/ Svr!Leave(fd)
             \/ \E due \in SUBSET armed : Svr!Expire(due)
    BY <2>3, ServerClientsKeep
  <2>4. CASE \E fd \in Fd : Svr!DispatchRead(fd)
    BY <2>4, ServerReadKeeps
  <2>5. CASE Svr!AcceptOne
    BY <2>5, ServerAcceptKeeps
  <2> QED BY <1>2, <2>1, <2>2, <2>3, <2>4, <2>5 DEF Svr!Next, Svr!IoStep, Svr!Outside
<1> QED BY <1>1, <1>2

\* The server's table and poll set agree, no event of a batch meets a
\* connection that an earlier handler took away, a message is echoed once or lost
\* in the send, and only a refused descriptor or one at its end has no connection.
THEOREM ServerIsSound == Spec => []ServerSound
<1> DEFINE I == part = "server" => SvrInv
<1>1. Init => I
  <2> SUFFICES ASSUME Init, part = "server" PROVE SvrInv
    OBVIOUS
  <2>1. Svr!Init
    BY DEF Init
  <2>2. ev = [running |-> FALSE, event_size |-> EventSize,
              conns |-> [fd \in Fd |-> NoConn], watch |-> [fd \in Fd |-> {}]]
    BY <2>1 DEF Svr!Init, Svr!ztl_evloop_create, NoConn
  <2>3. ev \in Loops /\ \A fd \in Fd : ev.conns[fd] = NoConn /\ ev.watch[fd] = {}
    BY <2>2 DEF Loops
  <2>4. sock = [fd \in Fd |-> IF fd = ListenFd THEN [open |-> TRUE, data |-> 0, eof |-> FALSE]
                              ELSE [open |-> FALSE, data |-> 0, eof |-> FALSE]]
    <3>1. [Svr!Closed EXCEPT !.open = TRUE] = [open |-> TRUE, data |-> 0, eof |-> FALSE]
      <4> DEFINE q == [Svr!Closed EXCEPT !.open = TRUE]
      <4>1. q \in [open : {TRUE}, data : {0}, eof : {FALSE}]
        BY DEF Svr!Closed
      <4> HIDE DEF q
      <4>2. q = [open |-> TRUE, data |-> 0, eof |-> FALSE]
        BY <4>1
      <4> QED BY <4>2 DEF q
    <3> QED BY <2>1, <3>1 DEF Svr!Init, Svr!Closed
  <2>5. sock \in [Fd -> SockRec] /\ sock[ListenFd].open = TRUE /\ \A fd \in Fd : sock[fd].data = 0
    BY <2>4, SvrAssumption DEF SockRec
  <2>6. OpenClients = {}
    BY <2>4 DEF OpenClients
  <2>7. /\ io = "none" /\ fired = {} /\ backlog = 0 /\ nullConn = FALSE
        /\ sent = [fd \in Fd |-> 0] /\ echoed = [fd \in Fd |-> 0] /\ lost = [fd \in Fd |-> 0]
    BY <2>1 DEF Svr!Init
  <2>8. SvrTypes
    BY <2>3, <2>5, <2>7 DEF SvrTypes
  <2>9. SvrTable /\ SvrFired
    BY <2>3, <2>7 DEF SvrTable, SvrFired
  <2>10. backlog + Cardinality(OpenClients) <= Cardinality(Fd \ {ListenFd})
    BY <2>7, <2>8, ClientsCounted
  <2>11. SvrSockets
    BY <2>3, <2>5, <2>6, <2>7, <2>10 DEF SvrSockets
  <2> QED BY <2>8, <2>9, <2>11 DEF SvrInv
<1>2. I /\ [Next]_vars => I'
  BY ServerSteps, SvrStep
<1>3. I => ServerSound
  <2> SUFFICES ASSUME SvrInv PROVE Svr!ServerSound
    BY DEF ServerSound
  <2>0. SvrTypes /\ SvrTable /\ SvrFired /\ SvrSockets
    BY DEF SvrInv
  <2>1. ~nullConn
    BY <2>0 DEF SvrFired
  <2>2. ASSUME NEW fd \in Fd
        PROVE  /\ ev.watch[fd] = IF ev.conns[fd] = NoConn THEN {} ELSE {"reg"} \cup ev.conns[fd].events
               /\ ev.conns[fd] # NoConn => sock[fd].open
               /\ echoed[fd] + lost[fd] + sock[fd].data = sent[fd] \/ io = "released"
    <3>1. CASE ev.conns[fd] = NoConn /\ ev.watch[fd] = {}
      BY <2>0, <3>1 DEF SvrSockets
    <3>2. CASE ev.conns[fd] = LoopConn(HandlerOf(fd)) /\ ev.watch[fd] = {"reg", "in"} /\ sock[fd].open = TRUE
      <4>1. ev.conns[fd] # NoConn
        BY <3>2, ConnIsOne
      <4>2. ev.conns[fd].events = {"in"}
        BY <3>2 DEF LoopConn
      <4> QED BY <2>0, <3>2, <4>1, <4>2 DEF SvrSockets
    <3> QED BY <2>0, <3>1, <3>2 DEF SvrTable
  <2>3. io \notin {"none", "released"} =>
          \A fd \in Fd : sock[fd].open /\ ev.conns[fd] = NoConn => fd > EventSize \/ sock[fd].eof
    BY <2>0 DEF SvrSockets, SvrTypes, SockRec
  <2> QED BY <2>1, <2>2, <2>3 DEF Svr!ServerSound, NoConn
<1> QED BY <1>1, <1>2, <1>3, PTL DEF Spec
=============================================================================
