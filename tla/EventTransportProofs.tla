------------------------ MODULE EventTransportProofs ------------------------
(***************************************************************************)
(* Proofs about EventTransport, for every number of ring slots, channel    *)
(* slots and events, with and without the XDP ring.                        *)
(***************************************************************************)
EXTENDS EventTransport, TLAPS

(* The main ring always exists. *)
LEMMA RingsNonempty == MainRing \in Rings
  BY DEF Rings, MainRing, XdpRing

(* The metric is exact up to what the kernel counted since the last lookup, *)
(* and the value a lookup returned stays between the two.                   *)
LossInv ==
  /\ LossMetricNeverOverstates
  /\ tickPc = "add" => lastDrops <= observed /\ observed <= drops

(* Only Reserve, ReserveFails and the metrics goroutine touch LossInv.      *)
LEMMA LossInductive == TypeOK /\ LossInv /\ [Next]_vars => LossInv'
<1> SUFFICES ASSUME TypeOK, LossInv, [Next]_vars PROVE LossInv'
  OBVIOUS
<1> USE RingsNonempty DEF LossInv, LossMetricNeverOverstates, TypeOK
<1>1. ASSUME NEW r \in Rings, ReserveFails(r) PROVE LossInv'
  <2>1. CASE r = MainRing
    BY <1>1, <2>1 DEF ReserveFails, CountedDrop, metricVars
  <2>2. CASE r # MainRing
    BY <1>1, <2>2 DEF ReserveFails, CountedDrop, metricVars
  <2>3. QED
    BY <2>1, <2>2
<1>2. ASSUME NEW r \in Rings, Reserve(r) \/ Submitting(r) \/ Reading(r) \/ Sending(r) PROVE LossInv'
  BY <1>2 DEF Reserve, Submitting, Submit, Reading, ReaderRead, ReaderClosed, Sending, ReaderSend,
              ReaderDone, kernelVars, metricVars
<1>3. CASE TickLookup
  BY <1>3 DEF TickLookup, kernelVars
<1>4. CASE TickAdd
  BY <1>4 DEF TickAdd, kernelVars
<1>5. CASE MainRead \/ MainHandle \/ Signal \/ Closing
  BY <1>5 DEF MainRead, MainHandle, Signal, Closing, CloseReader, CloseLinks, CloseCollections, Exit,
              kernelVars, metricVars
<1>6. CASE UNCHANGED vars
  BY <1>6 DEF vars, kernelVars, metricVars
<1>7. QED
  BY <1>1, <1>2, <1>3, <1>4, <1>5, <1>6 DEF Next, Observing, Terminated

(* Every action keeps the variables in their types and the queues within    *)
(* their capacities; LossInv makes the metric's increment a natural number. *)
LEMMA TypeInductive == TypeOK /\ LossInv /\ [Next]_vars => TypeOK'
<1> SUFFICES ASSUME TypeOK, LossInv, [Next]_vars PROVE TypeOK'
  OBVIOUS
<1> USE TransportAssumption
<1>1. ASSUME NEW r \in Rings, Reserve(r) PROVE TypeOK'
  <2>1. /\ ring[r] \in Seq(Nat) /\ Len(ring[r]) < RingCap /\ reserved[r] + 1 \in Nat
        /\ ring' = [ring EXCEPT ![r] = Append(ring[r], reserved[r] + 1)]
    BY <1>1 DEF TypeOK, Reserve
  <2>2. /\ Append(ring[r], reserved[r] + 1) \in Seq(Nat)
        /\ Len(Append(ring[r], reserved[r] + 1)) <= RingCap
    BY <2>1
  <2>3. ring' \in [Rings -> Seq(Nat)] /\ \A q \in Rings : Len(ring'[q]) <= RingCap
    BY <2>1, <2>2 DEF TypeOK
  <2>4. reserved' \in [Rings -> Nat] /\ writing' \in [Rings -> SUBSET Nat]
    BY <1>1, <2>1 DEF TypeOK, Reserve
  <2>5. UNCHANGED <<lost, drops, metricVars, readerVars, events, mainVars, closeVars>>
    BY <1>1 DEF Reserve
  <2>6. QED
    BY <2>3, <2>4, <2>5 DEF TypeOK, metricVars, readerVars, mainVars, closeVars
<1>2. ASSUME NEW r \in Rings, ReserveFails(r) PROVE TypeOK'
  BY <1>2 DEF TypeOK, ReserveFails, HookMayRun, CountedDrop, metricVars, readerVars, mainVars, closeVars
<1>3. ASSUME NEW r \in Rings, Submitting(r) PROVE TypeOK'
  BY <1>3 DEF TypeOK, Submitting, Submit, metricVars, readerVars, mainVars, closeVars
<1>4. ASSUME NEW r \in Rings, ReaderRead(r) PROVE TypeOK'
  <2>1. /\ ring[r] \in Seq(Nat) /\ ring[r] # <<>> /\ Len(ring[r]) <= RingCap
        /\ ring' = [ring EXCEPT ![r] = Tail(ring[r])]
    BY <1>4 DEF TypeOK, ReaderRead, Readable
  <2>2. /\ Head(ring[r]) \in Nat /\ Tail(ring[r]) \in Seq(Nat)
        /\ Len(Tail(ring[r])) <= RingCap
    BY <2>1
  <2>3. ring' \in [Rings -> Seq(Nat)] /\ \A q \in Rings : Len(ring'[q]) <= RingCap
    BY <2>1, <2>2 DEF TypeOK
  <2>4. readerPc' \in [Rings -> {"read", "send", "stopped"}] /\ readerEv' \in [Rings -> Nat]
    BY <1>4, <2>2 DEF TypeOK, ReaderRead
  <2>5. UNCHANGED <<writing, reserved, lost, drops, metricVars, events, mainVars, closeVars>>
    BY <1>4 DEF ReaderRead
  <2>6. QED
    BY <2>3, <2>4, <2>5 DEF TypeOK, metricVars, mainVars, closeVars
<1>5. ASSUME NEW r \in Rings, ReaderClosed(r) \/ ReaderDone(r) PROVE TypeOK'
  BY <1>5 DEF TypeOK, ReaderClosed, ReaderDone, kernelVars, metricVars, mainVars, closeVars
<1>6. ASSUME NEW r \in Rings, ReaderSend(r) PROVE TypeOK'
  <2>1. [ring |-> r, n |-> readerEv[r]] \in Events /\ events \in Seq(Events)
    BY DEF TypeOK, Events
  <2>2. /\ events' = Append(events, [ring |-> r, n |-> readerEv[r]])
        /\ Len(events) < ChanCap
    BY <1>6 DEF ReaderSend
  <2>3. events' \in Seq(Events) /\ Len(events') <= ChanCap
    BY <2>1, <2>2
  <2>4. readerPc' \in [Rings -> {"read", "send", "stopped"}]
    BY <1>6 DEF TypeOK, ReaderSend
  <2>5. UNCHANGED <<kernelVars, metricVars, readerEv, mainVars, closeVars>>
    BY <1>6 DEF ReaderSend
  <2>6. QED
    BY <2>3, <2>4, <2>5 DEF TypeOK, kernelVars, metricVars, mainVars, closeVars
<1>7. CASE MainRead
  <2>1. events \in Seq(Events) /\ events # <<>> /\ Len(events) <= ChanCap
    BY <1>7 DEF TypeOK, MainRead
  <2>2. Head(events) \in Events /\ Tail(events) \in Seq(Events) /\ Len(Tail(events)) <= ChanCap
    BY <2>1
  <2>3. mainEv' = Head(events) /\ events' = Tail(events) /\ mainPc' = "handle"
    BY <1>7 DEF MainRead
  <2>4. UNCHANGED <<kernelVars, metricVars, readerVars, handled, closeVars>>
    BY <1>7 DEF MainRead
  <2>5. QED
    BY <2>2, <2>3, <2>4 DEF TypeOK, kernelVars, metricVars, readerVars, closeVars
<1>8. CASE MainHandle
  <2>1. mainEv.ring \in Rings /\ mainEv.n \in Nat
    BY DEF TypeOK, Events
  <2>2. handled' = [handled EXCEPT ![mainEv.ring] = Append(handled[mainEv.ring], mainEv.n)]
    BY <1>8 DEF MainHandle
  <2>3. Append(handled[mainEv.ring], mainEv.n) \in Seq(Nat)
    BY <2>1 DEF TypeOK
  <2>4. handled' \in [Rings -> Seq(Nat)]
    BY <2>1, <2>2, <2>3 DEF TypeOK
  <2>5. mainPc' = "read"
        /\ UNCHANGED <<kernelVars, metricVars, readerVars, events, mainEv, closeVars>>
    BY <1>8 DEF MainHandle
  <2>6. QED
    BY <2>4, <2>5 DEF TypeOK, kernelVars, metricVars, readerVars, closeVars
<1>9. CASE Observing
  BY <1>9 DEF TypeOK, LossInv, LossMetricNeverOverstates, Observing, TickLookup, TickAdd, kernelVars, readerVars, mainVars, closeVars
<1>10. CASE Signal \/ Closing
  BY <1>10 DEF TypeOK, Signal, Closing, CloseReader, CloseLinks, CloseCollections, Exit,
               kernelVars, metricVars, readerVars, mainVars
<1>11. CASE UNCHANGED vars
  BY <1>11 DEF TypeOK, vars, kernelVars, metricVars, readerVars, mainVars, closeVars
<1>12. QED
  BY <1>1, <1>2, <1>3, <1>4, <1>5, <1>6, <1>7, <1>8, <1>9, <1>10, <1>11
     DEF Next, Reading, Sending, Terminated

(* Nothing is queued, lost or reported at the start.                        *)
LEMMA TypeLossInitial == Init => TypeOK /\ LossInv
  BY RingsNonempty, TransportAssumption DEF Init, TypeOK, Events, LossInv, LossMetricNeverOverstates

(* The types and capacities, and what the drop counter and the metric say   *)
(* of each other, hold in every reachable state.                            *)
THEOREM TypeAndLossInvariant == Spec => [](TypeOK /\ LossInv)
  BY TypeLossInitial, TypeInductive, LossInductive, PTL DEF Spec

(* edr_ringbuf_lost_total counts each loss at most once and never runs      *)
(* ahead, whatever happens between ObserveRingbufDrops' Lookup and Add.     *)
THEOREM LossMetricCorrect == Spec => []LossMetricNeverOverstates
<1>1. TypeOK /\ LossInv => LossMetricNeverOverstates
  BY DEF LossInv
<1>2. QED
  BY <1>1, TypeAndLossInvariant, PTL

-----------------------------------------------------------------------------
(* Lemmas about queues of events *)

(* Appending an event adds its number to its own ring's.                    *)
LEMMA OfRingAppend ==
  ASSUME NEW q \in Seq(Events), NEW e \in Events, NEW r
  PROVE  OfRing(Append(q, e), r) = OfRing(q, r) \union (IF e.ring = r THEN {e.n} ELSE {})
<1> DEFINE p == Append(q, e)
<1>1. /\ DOMAIN q = 1..Len(q) /\ DOMAIN p = 1..(Len(q) + 1) /\ Len(q) \in Nat
      /\ \A i \in 1..Len(q) : p[i] = q[i]
      /\ p[Len(q) + 1] = e
  OBVIOUS
<1>2. \A i \in DOMAIN p : i \in DOMAIN q \/ i = Len(q) + 1
  BY <1>1
<1> HIDE DEF p
<1>3. OfRing(p, r) = OfRing(q, r) \union (IF e.ring = r THEN {e.n} ELSE {})
  BY <1>1, <1>2 DEF OfRing
<1>4. QED
  BY <1>3 DEF p

(* Taking the head removes its number, and only that one.                   *)
LEMMA OfRingTail ==
  ASSUME NEW q \in Seq(Events), q # <<>>, NEW r
  PROVE  OfRing(q, r) = OfRing(Tail(q), r)
                          \union (IF Head(q).ring = r THEN {Head(q).n} ELSE {})
<1> DEFINE p == Tail(q)
<1>1. /\ DOMAIN q = 1..Len(q) /\ DOMAIN p = 1..(Len(q) - 1) /\ Len(q) \in Nat \ {0}
      /\ \A i \in 1..(Len(q) - 1) : p[i] = q[i + 1]
      /\ Head(q) = q[1]
  OBVIOUS
<1>2. \A i \in DOMAIN q : i = 1 \/ (i - 1 \in DOMAIN p /\ p[i - 1] = q[i])
  BY <1>1
<1>3. \A i \in DOMAIN p : i + 1 \in DOMAIN q /\ p[i] = q[i + 1]
  BY <1>1
<1>4. 1 \in DOMAIN q
  BY <1>1
<1> HIDE DEF p
<1>5. OfRing(q, r) = OfRing(p, r) \union (IF Head(q).ring = r THEN {Head(q).n} ELSE {})
  <2>1. ASSUME NEW x \in OfRing(q, r)
        PROVE  x \in OfRing(p, r) \union (IF Head(q).ring = r THEN {Head(q).n} ELSE {})
    <3>1. PICK i \in DOMAIN q : q[i].ring = r /\ x = q[i].n
      BY DEF OfRing
    <3>2. CASE i = 1
      BY <3>1, <3>2, <1>1
    <3>3. CASE i - 1 \in DOMAIN p /\ p[i - 1] = q[i]
      BY <3>1, <3>3 DEF OfRing
    <3>4. QED
      BY <3>2, <3>3, <1>2
  <2>2. ASSUME NEW x \in OfRing(p, r) PROVE x \in OfRing(q, r)
    <3>1. PICK i \in DOMAIN p : p[i].ring = r /\ x = p[i].n
      BY DEF OfRing
    <3>2. QED
      BY <3>1, <1>3 DEF OfRing
  <2>3. ASSUME Head(q).ring = r PROVE Head(q).n \in OfRing(q, r)
    BY <2>3, <1>1, <1>4 DEF OfRing
  <2>4. QED
    BY <2>1, <2>2, <2>3
<1>6. QED
  BY <1>5 DEF p

(* Order by number survives an append above all of the same ring ...        *)
LEMMA IncreasingAppend ==
  ASSUME NEW q \in Seq(Events), NEW e \in Events, Increasing(q),
         \A n \in OfRing(q, e.ring) : n < e.n
  PROVE  Increasing(Append(q, e))
<1> DEFINE p == Append(q, e)
<1>1. /\ DOMAIN q = 1..Len(q) /\ DOMAIN p = 1..(Len(q) + 1) /\ Len(q) \in Nat
      /\ \A i \in 1..Len(q) : p[i] = q[i]
      /\ p[Len(q) + 1] = e
  OBVIOUS
<1> HIDE DEF p
<1>2. SUFFICES ASSUME NEW i \in DOMAIN p, NEW j \in DOMAIN p, i < j, p[i].ring = p[j].ring
               PROVE  p[i].n < p[j].n
  BY DEF Increasing, p
<1>3. i \in DOMAIN q /\ p[i] = q[i]
  BY <1>1, <1>2
<1>4. CASE j \in DOMAIN q
  BY <1>1, <1>2, <1>3, <1>4 DEF Increasing
<1>5. CASE j = Len(q) + 1
  <2>1. q[i].n \in OfRing(q, e.ring)
    BY <1>1, <1>2, <1>3, <1>5 DEF OfRing
  <2>2. QED
    BY <2>1, <1>1, <1>3, <1>5
<1>6. QED
  BY <1>1, <1>4, <1>5

(* ... and taking the head, which is below the rest of its ring.            *)
LEMMA IncreasingTail ==
  ASSUME NEW q \in Seq(Events), q # <<>>, Increasing(q)
  PROVE  /\ Increasing(Tail(q))
         /\ \A n \in OfRing(Tail(q), Head(q).ring) : Head(q).n < n
<1> DEFINE p == Tail(q)
<1>1. /\ DOMAIN q = 1..Len(q) /\ DOMAIN p = 1..(Len(q) - 1) /\ Len(q) \in Nat \ {0}
      /\ \A i \in 1..(Len(q) - 1) : p[i] = q[i + 1]
      /\ Head(q) = q[1]
  OBVIOUS
<1> HIDE DEF p
<1>2. \A i \in DOMAIN p : i + 1 \in DOMAIN q /\ p[i] = q[i + 1] /\ 1 < i + 1 /\ i \in Nat
  BY <1>1
<1>3. Increasing(p)
  BY <1>2 DEF Increasing
<1>4. ASSUME NEW n \in OfRing(p, Head(q).ring) PROVE Head(q).n < n
  <2>1. PICK i \in DOMAIN p : p[i].ring = Head(q).ring /\ n = p[i].n
    BY DEF OfRing
  <2>2. 1 \in DOMAIN q
    BY <1>1
  <2>3. QED
    BY <2>1, <2>2, <1>1, <1>2 DEF Increasing
<1>5. QED
  BY <1>3, <1>4 DEF p

-----------------------------------------------------------------------------
(* The pipeline invariant.  One lemma per action that moves a record.       *)

RingInv(r) ==
  /\ RingIsSuffix(r) /\ StagesOrdered(r) /\ NoGap(r)
  /\ \A i \in DOMAIN handled[r] : handled[r][i] = i

(* PipelineInv, ring by ring.                                               *)
LEMMA PipelineIsRingInv ==
  PipelineInv <=> /\ Increasing(events)
                  /\ closed # {} => Done
                  /\ \A r \in Rings : RingInv(r)
  BY DEF PipelineInv, RingInv

(* What is past the reader are numbers of records.                          *)
LEMMA PastNumbers ==
  ASSUME TypeOK, NEW r \in Rings
  PROVE  /\ Past(r) \subseteq Nat /\ SeqSet(handled[r]) \subseteq Nat
         /\ InMain(r) \subseteq Nat /\ InChannel(r) \subseteq Nat
<1>1. SeqSet(handled[r]) \subseteq Nat
  <2>1. handled[r] \in Seq(Nat)
    BY DEF TypeOK
  <2>2. \A i \in DOMAIN handled[r] : handled[r][i] \in Nat
    BY <2>1
  <2>3. QED
    BY <2>2 DEF SeqSet
<1>2. InMain(r) \subseteq Nat
  BY DEF TypeOK, InMain, Events
<1>3. InChannel(r) \subseteq Nat
  <2>1. \A i \in DOMAIN events : events[i] \in Events
    BY DEF TypeOK
  <2>2. QED
    BY <2>1 DEF InChannel, OfRing, Events
<1>4. QED
  BY <1>1, <1>2, <1>3 DEF Past

(* The variables the invariant reads. *)
pipeVars == <<ring, writing, reserved, readerVars, events, mainVars, closeVars>>

(* No record is anywhere at the start.                                      *)
LEMMA PipelineInitial == Init => PipelineInv
  BY DEF Init, PipelineInv, Increasing, Done, RingIsSuffix, StagesOrdered, NoGap, Taken, Past,
         SeqSet, InMain, InChannel, OfRing

(* Steps of the metrics goroutine and failed reservations move no record.   *)
LEMMA PipelineSame ==
  ASSUME PipelineInv, UNCHANGED pipeVars
  PROVE  PipelineInv'
<1> USE DEF pipeVars, readerVars, mainVars, closeVars
<1>1. \A q \in Rings : /\ Taken(q)' = Taken(q) /\ Past(q)' = Past(q)
                       /\ InMain(q)' = InMain(q) /\ InChannel(q)' = InChannel(q)
                       /\ InReader(q)' = InReader(q)
  BY DEF Taken, Past, InMain, InChannel, InReader
<1>2. \A q \in Rings : RingIsSuffix(q)' /\ StagesOrdered(q)' /\ NoGap(q)'
  BY <1>1 DEF PipelineInv, RingIsSuffix, StagesOrdered, NoGap, Done
<1>3. QED
  BY <1>2 DEF PipelineInv, Increasing, Done

(* A reservation appends a younger number; nothing moves downstream.        *)
LEMMA PipelineReserve ==
  ASSUME TypeOK, PipelineInv, NEW r \in Rings, Reserve(r)
  PROVE  PipelineInv'
<1>1. \A q \in Rings : Taken(q)' = Taken(q)
  BY DEF Taken, TypeOK, Reserve
<1>2. \A q \in Rings : /\ Past(q)' = Past(q) /\ InMain(q)' = InMain(q)
                       /\ InChannel(q)' = InChannel(q) /\ InReader(q)' = InReader(q)
  BY DEF Past, InMain, InChannel, InReader, readerVars, mainVars, TypeOK, Reserve
<1>3. \A q \in Rings : StagesOrdered(q)' /\ NoGap(q)'
  BY <1>1, <1>2 DEF PipelineInv, StagesOrdered, NoGap, readerVars, mainVars, closeVars, Done, TypeOK, Reserve
<1>4. ASSUME NEW q \in Rings PROVE RingIsSuffix(q)'
  <2>1. CASE q # r
    BY <2>1, <1>1 DEF PipelineInv, RingIsSuffix, TypeOK, Reserve
  <2>2. CASE q = r
    <3> DEFINE s == ring[r]
               t == Append(s, reserved[r] + 1)
    <3>1. /\ s \in Seq(Nat) /\ Len(s) \in Nat /\ Len(t) = Len(s) + 1
          /\ DOMAIN t = 1..(Len(s) + 1) /\ DOMAIN s = 1..Len(s)
          /\ \A i \in 1..Len(s) : t[i] = s[i]
          /\ t[Len(s) + 1] = reserved[r] + 1
      BY DEF TypeOK
    <3>2. ring'[r] = t /\ reserved'[r] = reserved[r] + 1 /\ reserved[r] \in Nat
          /\ writing'[r] = writing[r] \union {reserved[r] + 1}
      BY DEF TypeOK, Reserve
    <3>3. Len(s) <= reserved[r] /\ writing[r] \subseteq SeqSet(s)
          /\ \A i \in DOMAIN s : s[i] = Taken(r) + i
      BY DEF PipelineInv, RingIsSuffix
    <3>4. Taken(r) = reserved[r] - Len(s)
      BY DEF Taken
    <3> HIDE DEF s, t
    <3>5. ASSUME NEW i \in DOMAIN t PROVE t[i] = Taken(r) + i
      <4>1. CASE i \in DOMAIN s
        BY <4>1, <3>1, <3>3
      <4>2. CASE i = Len(s) + 1
        BY <4>2, <3>1, <3>2, <3>4
      <4>3. QED
        BY <4>1, <4>2, <3>1
    <3>6. writing'[r] \subseteq SeqSet(t)
      <4>1. SeqSet(s) \subseteq SeqSet(t)
        BY <3>1 DEF SeqSet
      <4>2. reserved[r] + 1 \in SeqSet(t)
        <5>1. Len(s) + 1 \in DOMAIN t
          BY <3>1
        <5>2. QED
          BY <5>1, <3>1 DEF SeqSet
      <4>3. QED
        BY <4>1, <4>2, <3>2, <3>3
    <3>7. Len(t) <= reserved'[r]
      BY <3>1, <3>2, <3>3
    <3>8. QED
      BY <2>2, <1>1, <3>2, <3>5, <3>6, <3>7 DEF RingIsSuffix
  <2>3. QED
    BY <2>1, <2>2
<1>5. QED
  BY <1>3, <1>4 DEF PipelineInv, readerVars, mainVars, closeVars, Done, Increasing, Reserve

(* A submission only shortens the set of unfinished records.                *)
LEMMA PipelineSubmit ==
  ASSUME TypeOK, PipelineInv, NEW r \in Rings, Submitting(r)
  PROVE  PipelineInv'
<1> USE DEF TypeOK, Submitting, Submit
<1>1. \A q \in Rings : Taken(q)' = Taken(q)
  BY DEF Taken
<1>2. \A q \in Rings : /\ Past(q)' = Past(q) /\ InMain(q)' = InMain(q)
                       /\ InChannel(q)' = InChannel(q) /\ InReader(q)' = InReader(q)
  BY DEF Past, InMain, InChannel, InReader, readerVars, mainVars
<1>3. \A q \in Rings : StagesOrdered(q)' /\ NoGap(q)'
  BY <1>1, <1>2 DEF PipelineInv, StagesOrdered, NoGap, readerVars, mainVars, closeVars, Done
<1>4. \A q \in Rings : writing'[q] \subseteq writing[q]
  OBVIOUS
<1>5. \A q \in Rings : RingIsSuffix(q)'
  BY <1>1, <1>4 DEF PipelineInv, RingIsSuffix
<1>6. QED
  BY <1>3, <1>5 DEF PipelineInv, readerVars, mainVars, closeVars, Done, Increasing

(* The reader takes the oldest record of its ring.                          *)
LEMMA PipelineReaderRead ==
  ASSUME TypeOK, PipelineInv, NEW r \in Rings, ReaderRead(r)
  PROVE  PipelineInv'
<1> DEFINE s == ring[r]
           t == Tail(s)
<1>1. /\ s \in Seq(Nat) /\ Len(s) \in Nat \ {0} /\ Len(t) = Len(s) - 1
      /\ DOMAIN t = 1..(Len(s) - 1) /\ DOMAIN s = 1..Len(s)
      /\ \A i \in 1..(Len(s) - 1) : t[i] = s[i + 1]
      /\ Head(s) = s[1]
  BY DEF TypeOK, ReaderRead, Readable
<1>2. /\ ring' = [ring EXCEPT ![r] = t] /\ reserved' = reserved /\ writing' = writing
      /\ readerPc' = [readerPc EXCEPT ![r] = "send"] /\ readerPc[r] = "read"
      /\ readerEv' = [readerEv EXCEPT ![r] = Head(s)]
      /\ Head(s) \notin writing[r]
      /\ events' = events /\ UNCHANGED mainVars /\ UNCHANGED closeVars
  BY DEF ReaderRead, Readable
<1>3. RingInv(r) /\ \A q \in Rings : RingInv(q)
  BY PipelineIsRingInv
<1>4. reserved[r] \in Nat /\ Taken(r) = reserved[r] - Len(s) /\ Taken(r) \in Int
  BY <1>1 DEF Taken, TypeOK
<1> HIDE DEF s, t
<1>5. Taken(r)' = Taken(r) + 1 /\ Head(s) = Taken(r) + 1 /\ Taken(r) \in Nat
  <2>1. Taken(r)' = reserved[r] - Len(t)
    BY <1>2 DEF Taken, TypeOK
  <2>2. 1 \in DOMAIN s
    BY <1>1
  <2>3. Head(s) = Taken(r) + 1 /\ Len(s) <= reserved[r]
    BY <2>2, <1>1, <1>3 DEF RingInv, RingIsSuffix, s
  <2>4. QED
    BY <2>1, <2>3, <1>1, <1>4
<1>6. \A q \in Rings : q # r => Taken(q)' = Taken(q) /\ InReader(q)' = InReader(q)
  BY <1>2 DEF Taken, TypeOK, InReader
<1>7. InReader(r)' = {Taken(r) + 1} /\ readerPc'[r] = "send" /\ readerEv'[r] = Taken(r) + 1
  BY <1>2, <1>5 DEF InReader, TypeOK
<1>8. \A q \in Rings : /\ Past(q)' = Past(q) /\ InMain(q)' = InMain(q)
                       /\ InChannel(q)' = InChannel(q) /\ handled'[q] = handled[q]
  BY <1>2 DEF Past, InMain, InChannel, mainVars
<1>9. ASSUME NEW q \in Rings, q # r PROVE RingInv(q)'
  BY <1>2, <1>3, <1>6, <1>8, <1>9
     DEF RingInv, RingIsSuffix, StagesOrdered, NoGap, TypeOK, closeVars, Done
<1>10. RingIsSuffix(r)'
  <2>1. Len(t) <= reserved[r]
    BY <1>1, <1>3, <1>4 DEF RingInv, RingIsSuffix, s
  <2>2. ASSUME NEW i \in DOMAIN t PROVE t[i] = Taken(r)' + i
    <3>1. t[i] = s[i + 1] /\ i + 1 \in DOMAIN s /\ i \in Int
      BY <1>1
    <3>2. s[i + 1] = Taken(r) + (i + 1)
      BY <3>1, <1>3 DEF RingInv, RingIsSuffix, s
    <3>3. QED
      BY <3>1, <3>2, <1>5
  <2>3. ASSUME NEW n \in writing[r] PROVE n \in SeqSet(t)
    <3>1. PICK i \in DOMAIN s : n = s[i]
      BY <1>3 DEF RingInv, RingIsSuffix, SeqSet, s
    <3>2. i # 1
      BY <3>1, <1>1, <1>2
    <3>3. i - 1 \in DOMAIN t /\ t[i - 1] = s[i]
      BY <3>1, <3>2, <1>1
    <3>4. QED
      BY <3>1, <3>3 DEF SeqSet
  <2>4. ring'[r] = t
    BY <1>2 DEF TypeOK
  <2>5. QED
    BY <2>1, <2>2, <2>3, <2>4, <1>2 DEF RingIsSuffix
<1>11. \A n \in Past(r) : 1 <= n /\ n <= Taken(r) /\ n \in Int
  <2>1. Past(r) \subseteq Int
    BY PastNumbers
  <2>2. QED
    BY <2>1, <1>3 DEF RingInv, StagesOrdered
<1>12. StagesOrdered(r)'
  BY <1>3, <1>5, <1>7, <1>8, <1>11 DEF RingInv, StagesOrdered
<1>13. NoGap(r)'
  <2>1. \A m \in 1..Taken(r) : m \in Past(r)
    BY <1>2, <1>3 DEF RingInv, NoGap, InReader
  <2>2. ASSUME NEW m \in 1..(Taken(r) + 1) PROVE m \in Past(r)' \union InReader(r)'
    <3>1. CASE m = Taken(r) + 1
      BY <3>1, <1>7
    <3>2. CASE m \in 1..Taken(r)
      BY <3>2, <2>1, <1>8
    <3>3. QED
      BY <3>1, <3>2, <1>5
  <2>3. \A n \in Past(r)' : \A m \in 1..n : m \in Past(r)'
    BY <1>3, <1>8 DEF RingInv, NoGap
  <2>4. QED
    BY <2>2, <2>3, <1>5, <1>7 DEF NoGap
<1>14. RingInv(r)'
  BY <1>10, <1>12, <1>13, <1>8, <1>3 DEF RingInv
<1>15. Increasing(events)' /\ (closed # {} => Done)'
  BY <1>2 DEF PipelineInv, Increasing, closeVars, Done
<1>16. QED
  BY <1>9, <1>14, <1>15 DEF PipelineInv, RingInv

(* The send moves the record from the reader to the end of the channel.     *)
LEMMA PipelineReaderSend ==
  ASSUME TypeOK, PipelineInv, NEW r \in Rings, ReaderSend(r)
  PROVE  PipelineInv'
<1> DEFINE e == [ring |-> r, n |-> readerEv[r]]
<1>1. /\ readerPc[r] = "send" /\ events' = Append(events, e)
      /\ readerPc' = [readerPc EXCEPT ![r] = "read"]
      /\ ring' = ring /\ reserved' = reserved /\ writing' = writing /\ readerEv' = readerEv
      /\ UNCHANGED mainVars /\ UNCHANGED closeVars
  BY DEF ReaderSend, kernelVars
<1>2. e \in Events /\ e.ring = r /\ e.n = readerEv[r] /\ events \in Seq(Events)
  BY DEF TypeOK, Events
<1>3. \A q \in Rings : RingInv(q)
  BY PipelineIsRingInv
<1>4. readerEv[r] = Taken(r) /\ 1 <= Taken(r) /\ Taken(r) \in Nat
  BY <1>1, <1>3 DEF RingInv, StagesOrdered, TypeOK
<1> HIDE DEF e
<1>5. /\ InChannel(r)' = InChannel(r) \union {Taken(r)}
      /\ \A q \in Rings : q # r => InChannel(q)' = InChannel(q)
  <2>1. \A q : OfRing(Append(events, e), q)
                  = OfRing(events, q) \union (IF e.ring = q THEN {e.n} ELSE {})
    BY <1>2, OfRingAppend
  <2>2. \A q : InChannel(q)' = OfRing(Append(events, e), q)
    BY <1>1 DEF InChannel
  <2>3. QED
    BY <2>1, <2>2, <1>2, <1>4 DEF InChannel
<1>6. \A q \in Rings : /\ Taken(q)' = Taken(q) /\ InMain(q)' = InMain(q)
                       /\ handled'[q] = handled[q]
                       /\ SeqSet(handled'[q]) = SeqSet(handled[q])
  BY <1>1 DEF Taken, InMain, mainVars
<1>7. Past(r)' = Past(r) \union {Taken(r)}
  BY <1>5, <1>6 DEF Past
<1>8. \A q \in Rings : q # r => Past(q)' = Past(q) /\ InReader(q)' = InReader(q)
  BY <1>1, <1>5, <1>6 DEF Past, InReader, TypeOK
<1>9. readerPc'[r] = "read" /\ InReader(r)' = {} /\ InReader(r) = {Taken(r)}
  BY <1>1, <1>4 DEF InReader, TypeOK
<1>10. ASSUME NEW q \in Rings, q # r PROVE RingInv(q)'
  BY <1>1, <1>3, <1>5, <1>6, <1>8, <1>10
     DEF RingInv, RingIsSuffix, StagesOrdered, NoGap, TypeOK, closeVars, Done
<1>11. \A n \in Past(r) : n < Taken(r) /\ 1 <= n /\ n \in Nat
  BY <1>1, <1>3, PastNumbers DEF RingInv, StagesOrdered
<1>12. RingIsSuffix(r)'
  BY <1>1, <1>3, <1>6 DEF RingInv, RingIsSuffix
<1>13. StagesOrdered(r)'
  <2>1. \A n \in Past(r)' : 1 <= n /\ n <= Taken(r)
    BY <1>4, <1>7, <1>11
  <2>2. \A n \in SeqSet(handled[r]), m \in InMain(r) \union InChannel(r)' : n < m
    BY <1>3, <1>5, <1>11 DEF RingInv, StagesOrdered, Past
  <2>3. \A n \in InMain(r), m \in InChannel(r)' : n < m
    BY <1>3, <1>5, <1>11 DEF RingInv, StagesOrdered, Past
  <2>4. QED
    BY <2>1, <2>2, <2>3, <1>6, <1>9 DEF StagesOrdered
<1>14. NoGap(r)'
  <2>1. \A m \in 1..Taken(r) : m \in Past(r)'
    BY <1>1, <1>3, <1>7, <1>9 DEF RingInv, NoGap
  <2>2. ASSUME NEW n \in Past(r)', NEW m \in 1..n PROVE m \in Past(r)'
    <3>1. n \in Nat /\ n <= Taken(r)
      BY <1>4, <1>7, <1>11
    <3>2. QED
      BY <3>1, <2>1, <1>4
  <2>3. QED
    BY <2>1, <2>2, <1>6, <1>9 DEF NoGap
<1>15. RingInv(r)'
  BY <1>12, <1>13, <1>14, <1>6, <1>3 DEF RingInv
<1>16. Increasing(events)'
  <2>1. \A n \in OfRing(events, e.ring) : n < e.n
    BY <1>2, <1>4, <1>11 DEF Past, InChannel
  <2>2. QED
    BY <2>1, <1>1, <1>2, IncreasingAppend DEF PipelineInv
<1>17. (closed # {} => Done)'
  BY <1>1 DEF PipelineInv, closeVars, Done
<1>18. QED
  BY <1>10, <1>15, <1>16, <1>17 DEF PipelineInv, RingInv

(* The main loop takes the oldest event of the channel.                     *)
LEMMA PipelineMainRead ==
  ASSUME TypeOK, PipelineInv, MainRead
  PROVE  PipelineInv'
<1> DEFINE e == Head(events)
<1>1. /\ mainPc = "read" /\ mainPc' = "handle" /\ events # <<>>
      /\ mainEv' = e /\ events' = Tail(events) /\ handled' = handled
      /\ ring' = ring /\ reserved' = reserved /\ writing' = writing
      /\ UNCHANGED readerVars /\ UNCHANGED closeVars
  BY DEF MainRead, kernelVars
<1>2. events \in Seq(Events) /\ e \in Events
  BY <1>1 DEF TypeOK
<1> HIDE DEF e
<1>3. \A q \in Rings :
        /\ InMain(q) = {} /\ InMain(q)' = (IF e.ring = q THEN {e.n} ELSE {})
        /\ InChannel(q) = InChannel(q)' \union InMain(q)'
  BY <1>1, <1>2, OfRingTail DEF InMain, InChannel, e
<1>4. \A q \in Rings : Past(q)' = Past(q) /\ Taken(q)' = Taken(q) /\ InReader(q)' = InReader(q)
  BY <1>1, <1>3 DEF Past, Taken, InReader, readerVars
<1>5. Increasing(Tail(events)) /\ \A n \in OfRing(Tail(events), e.ring) : e.n < n
  BY <1>1, <1>2, IncreasingTail DEF PipelineInv, e
<1>6. ASSUME NEW q \in Rings PROVE RingInv(q)'
  <2>1. RingInv(q)
    BY PipelineIsRingInv
  <2>2. \A n \in InMain(q)', m \in InChannel(q)' : n < m
    BY <1>1, <1>3, <1>5 DEF InChannel
  <2>3. StagesOrdered(q)'
    BY <2>1, <2>2, <1>1, <1>3, <1>4 DEF RingInv, StagesOrdered, readerVars
  <2>4. RingIsSuffix(q)' /\ NoGap(q)'
    BY <2>1, <1>1, <1>4 DEF RingInv, RingIsSuffix, NoGap, readerVars, closeVars, Done
  <2>5. QED
    BY <2>1, <2>3, <2>4, <1>1 DEF RingInv
<1>7. QED
  BY <1>1, <1>5, <1>6 DEF PipelineInv, RingInv, closeVars, Done

(* The event in main is the successor of the last one handled: its          *)
(* predecessor has left the reader, and only younger ones are behind it.    *)
LEMMA PipelineMainHandle ==
  ASSUME TypeOK, PipelineInv, MainHandle
  PROVE  PipelineInv'
<1>0. PICK r \in Rings, n \in Nat, h \in Seq(Nat) :
        r = mainEv.ring /\ n = mainEv.n /\ h = handled[r]
  BY DEF TypeOK, Events
<1>1. /\ mainPc = "handle" /\ mainPc' = "read" /\ mainEv' = mainEv
      /\ handled' = [handled EXCEPT ![r] = Append(h, n)] /\ events' = events
      /\ ring' = ring /\ reserved' = reserved /\ writing' = writing
      /\ UNCHANGED readerVars /\ UNCHANGED closeVars
  BY <1>0 DEF MainHandle, kernelVars
<1>2. h = handled[r] /\ Len(h) \in Nat /\ DOMAIN h = 1..Len(h)
  BY <1>0
<1>3. /\ DOMAIN Append(h, n) = 1..(Len(h) + 1)
      /\ \A i \in 1..Len(h) : Append(h, n)[i] = h[i]
      /\ Append(h, n)[Len(h) + 1] = n
  BY <1>2
<1>4. RingInv(r) /\ \A q \in Rings : RingInv(q)
  BY <1>2, PipelineIsRingInv
<1>5. InMain(r) = {n} /\ \A q \in Rings : InMain(q)' = {} /\ (q # r => InMain(q) = {})
  BY <1>0, <1>1 DEF InMain
<1>6. handled'[r] = Append(h, n) /\ \A q \in Rings : q # r => handled'[q] = handled[q]
  BY <1>1, <1>2 DEF TypeOK
<1>7. \A i \in 1..Len(h) : h[i] = i
  BY <1>2, <1>4 DEF RingInv
<1>8. SeqSet(handled[r]) = 1..Len(h) /\ SeqSet(handled'[r]) = (1..Len(h)) \union {n}
  <2>1. SeqSet(h) = 1..Len(h)
    BY <1>2, <1>7 DEF SeqSet
  <2>2. SeqSet(Append(h, n)) = SeqSet(h) \union {n}
    <3>1. ASSUME NEW x \in SeqSet(Append(h, n)) PROVE x \in SeqSet(h) \union {n}
      BY <1>2, <1>3 DEF SeqSet
    <3>2. ASSUME NEW x \in SeqSet(h) PROVE x \in SeqSet(Append(h, n))
      BY <1>2, <1>3 DEF SeqSet
    <3>3. n \in SeqSet(Append(h, n))
      <4>1. Len(h) + 1 \in DOMAIN Append(h, n)
        BY <1>2, <1>3
      <4>2. QED
        BY <4>1, <1>3 DEF SeqSet
    <3>4. QED
      BY <3>1, <3>2, <3>3
  <2>3. QED
    BY <2>1, <2>2, <1>2, <1>6
<1>9. n = Len(h) + 1
  <2>1. /\ \A m \in 1..Len(h) : m < n
        /\ \A m \in InChannel(r) : n < m
        /\ \A m \in 1..n : m \in Past(r)
        /\ 1 <= n
    BY <1>4, <1>5, <1>8 DEF RingInv, StagesOrdered, NoGap, Past
  <2>2. Past(r) = (1..Len(h)) \union {n} \union InChannel(r)
    BY <1>5, <1>8 DEF Past
  <2>3. Len(h) + 1 <= n
    <3>1. CASE Len(h) = 0
      BY <3>1, <2>1
    <3>2. CASE Len(h) # 0
      BY <3>2, <2>1, <1>2
    <3>3. QED
      BY <3>1, <3>2
  <2>4. CASE Len(h) + 1 < n
    <3>1. n - 1 \in 1..n /\ n - 1 \notin 1..Len(h) /\ n - 1 # n
      BY <2>4, <1>2
    <3>2. n - 1 \in InChannel(r)
      BY <3>1, <2>1, <2>2
    <3>3. QED
      BY <3>2, <2>1, <1>2
  <2>5. QED
    BY <2>3, <2>4, <1>2
<1>10. \A q \in Rings : InChannel(q)' = InChannel(q) /\ Taken(q)' = Taken(q) /\ InReader(q)' = InReader(q)
  BY <1>1 DEF InChannel, Taken, InReader, readerVars
<1>11. Past(r)' = Past(r)
  BY <1>2, <1>5, <1>8, <1>10 DEF Past
<1>12. ASSUME NEW q \in Rings, q # r PROVE RingInv(q)'
  <2>1. SeqSet(handled'[q]) = SeqSet(handled[q]) /\ InMain(q)' = InMain(q)
    BY <1>5, <1>6, <1>12
  <2>2. Past(q)' = Past(q)
    BY <2>1, <1>10 DEF Past
  <2>3. QED
    BY <2>1, <2>2, <1>1, <1>4, <1>6, <1>10, <1>12
       DEF RingInv, RingIsSuffix, StagesOrdered, NoGap, readerVars, closeVars, Done
<1>13. StagesOrdered(r)'
  <2>1. \A m \in SeqSet(handled'[r]), k \in InChannel(r) : m < k
    BY <1>4, <1>5, <1>8 DEF RingInv, StagesOrdered
  <2>2. QED
    BY <2>1, <1>1, <1>2, <1>4, <1>5, <1>10, <1>11 DEF RingInv, StagesOrdered, readerVars
<1>14. RingIsSuffix(r)' /\ NoGap(r)'
  BY <1>1, <1>2, <1>4, <1>10, <1>11
     DEF RingInv, RingIsSuffix, NoGap, readerVars, closeVars, Done
<1>15. \A i \in DOMAIN handled'[r] : handled'[r][i] = i
  BY <1>2, <1>3, <1>6, <1>7, <1>9
<1>16. RingInv(r)'
  BY <1>13, <1>14, <1>15, <1>2 DEF RingInv
<1>17. QED
  BY <1>1, <1>12, <1>16 DEF PipelineInv, RingInv, closeVars, Done, Increasing

(* The remaining actions: the readers stop and shutdown proceeds.           *)
LEMMA PipelineStop ==
  ASSUME TypeOK, PipelineInv, NEW r \in Rings, ReaderClosed(r) \/ ReaderDone(r)
  PROVE  PipelineInv'
<1>1. /\ readerPc' = [readerPc EXCEPT ![r] = "stopped"] /\ Done
      /\ ring' = ring /\ reserved' = reserved /\ writing' = writing /\ events' = events
      /\ readerEv' = readerEv /\ UNCHANGED mainVars /\ UNCHANGED closeVars
  BY DEF ReaderClosed, ReaderDone, kernelVars, PipelineInv
<1>2. \A q \in Rings : /\ Past(q)' = Past(q) /\ Taken(q)' = Taken(q) /\ InMain(q)' = InMain(q)
                       /\ InChannel(q)' = InChannel(q)
                       /\ (q # r => InReader(q)' = InReader(q))
  BY <1>1 DEF Past, Taken, InMain, InChannel, InReader, mainVars, TypeOK
<1>3. Done'
  BY <1>1 DEF Done, closeVars
<1>4. \A q \in Rings : readerPc'[q] = (IF q = r THEN "stopped" ELSE readerPc[q])
  BY <1>1 DEF TypeOK
<1>5. ASSUME NEW q \in Rings PROVE RingInv(q)'
  BY <1>1, <1>2, <1>3, <1>4, PipelineIsRingInv
     DEF RingInv, RingIsSuffix, StagesOrdered, NoGap, mainVars
<1>6. QED
  BY <1>1, <1>3, <1>5 DEF PipelineInv, RingInv, Increasing

(* Shutdown moves no record; it closes done before any reader.              *)
LEMMA PipelineShutdown ==
  ASSUME TypeOK, PipelineInv, Signal \/ Closing
  PROVE  PipelineInv'
<1>1. /\ UNCHANGED <<ring, writing, reserved, readerVars, events, mainVars>> /\ Done'
  BY DEF Signal, Closing, CloseReader, CloseLinks, CloseCollections, Exit, Done, kernelVars
<1>2. \A q \in Rings : /\ Taken(q)' = Taken(q) /\ Past(q)' = Past(q)
                       /\ InMain(q)' = InMain(q) /\ InChannel(q)' = InChannel(q)
                       /\ InReader(q)' = InReader(q)
  BY <1>1 DEF Taken, Past, InMain, InChannel, InReader, readerVars, mainVars
<1>3. \A q \in Rings : RingIsSuffix(q)' /\ StagesOrdered(q)' /\ NoGap(q)'
  BY <1>1, <1>2 DEF PipelineInv, RingIsSuffix, StagesOrdered, NoGap, readerVars, mainVars
<1>4. QED
  BY <1>1, <1>3 DEF PipelineInv, Increasing, mainVars

(* Every step keeps PipelineInv: one lemma per action that disturbs it.     *)
LEMMA PipelineInductive == TypeOK /\ PipelineInv /\ [Next]_vars => PipelineInv'
<1> SUFFICES ASSUME TypeOK, PipelineInv, [Next]_vars PROVE PipelineInv'
  OBVIOUS
<1>1. ASSUME NEW r \in Rings, ReserveFails(r) PROVE PipelineInv'
  BY <1>1, PipelineSame DEF ReserveFails, pipeVars
<1>2. CASE Observing
  BY <1>2, PipelineSame DEF Observing, TickLookup, TickAdd, pipeVars, kernelVars
<1>3. CASE UNCHANGED vars
  BY <1>3, PipelineSame DEF vars, pipeVars, kernelVars
<1>4. QED
  BY <1>1, <1>2, <1>3, PipelineReserve, PipelineSubmit, PipelineReaderRead, PipelineReaderSend,
     PipelineMainRead, PipelineMainHandle, PipelineStop, PipelineShutdown
     DEF Next, Reading, Sending, Terminated

(* Where the records are, at every moment.                                  *)
THEOREM PipelineInvariant == Spec => []PipelineInv
  BY PipelineInitial, PipelineInductive, TypeAndLossInvariant, PTL DEF Spec

-----------------------------------------------------------------------------
(* What follows from it *)

(* The detector sees each ring's events in kernel order, without a gap.     *)
THEOREM KernelOrder == Spec => []HandledInKernelOrder
<1>1. PipelineInv => HandledInKernelOrder
  BY DEF PipelineInv, HandledInKernelOrder
<1>2. QED
  BY <1>1, PipelineInvariant, PTL

(* Until shutdown no accepted record is given up: the ring holds those      *)
(* after Taken, the others are in the reader or past it.                    *)
THEOREM NoSilentLoss == Spec => []NoAcceptedRecordLost
<1>1. TypeOK /\ PipelineInv => NoAcceptedRecordLost
  <2>1. SUFFICES ASSUME TypeOK, PipelineInv, ~Done, NEW r \in Rings, NEW n \in 1..reserved[r]
                 PROVE  n \in SeqSet(ring[r]) \union InReader(r) \union Past(r)
    BY DEF NoAcceptedRecordLost, Past
  <2>2. RingIsSuffix(r) /\ NoGap(r) /\ readerPc[r] # "stopped"
    BY <2>1 DEF PipelineInv, NoGap
  <2>3. /\ Len(ring[r]) \in Nat /\ DOMAIN ring[r] = 1..Len(ring[r])
        /\ reserved[r] \in Nat /\ Taken(r) = reserved[r] - Len(ring[r])
    BY <2>1 DEF TypeOK, Taken
  <2>4. CASE n <= Taken(r)
    BY <2>1, <2>2, <2>3, <2>4 DEF NoGap
  <2>5. CASE n > Taken(r)
    <3>1. n - Taken(r) \in DOMAIN ring[r]
      BY <2>1, <2>3, <2>5
    <3>2. ring[r][n - Taken(r)] = n
      BY <3>1, <2>1, <2>2, <2>3 DEF RingIsSuffix
    <3>3. QED
      BY <3>1, <3>2 DEF SeqSet
  <2>6. QED
    BY <2>1, <2>3, <2>4, <2>5
<1>2. QED
  BY <1>1, PipelineInvariant, TypeAndLossInvariant, PTL

(* No stage past the ring holds a record that is still being written.       *)
THEOREM NoTornRead == Spec => []NoTornRecord
<1>1. TypeOK /\ PipelineInv => NoTornRecord
  <2>1. SUFFICES ASSUME TypeOK, PipelineInv, NEW r \in Rings, NEW n \in writing[r]
                 PROVE  n \notin InReader(r) \union Past(r)
    BY DEF NoTornRecord, Past
  <2>2. RingIsSuffix(r) /\ StagesOrdered(r)
    BY <2>1 DEF PipelineInv
  <2>3. PICK i \in DOMAIN ring[r] : n = ring[r][i]
    BY <2>1, <2>2 DEF RingIsSuffix, SeqSet
  <2>4. Taken(r) \in Int /\ i \in Nat \ {0} /\ n = Taken(r) + i
    BY <2>1, <2>2, <2>3 DEF TypeOK, Taken, RingIsSuffix
  <2>5. n \notin Past(r)
    BY <2>1, <2>2, <2>4, PastNumbers DEF StagesOrdered
  <2>6. n \notin InReader(r)
    BY <2>2, <2>4 DEF InReader, StagesOrdered
  <2>7. QED
    BY <2>5, <2>6
<1>2. QED
  BY <1>1, PipelineInvariant, TypeAndLossInvariant, PTL

(* The transport implements the lossy FIFO: a reservation accepts, a failed *)
(* one loses, MainHandle delivers the next number, all else stutters.       *)
THEOREM TransportImplementsFifo == Spec => ImplementsLossyFifo
<1>1. Init => Fifo!FifoInit
  BY DEF Init, Fifo!FifoInit
<1>2. TypeOK /\ PipelineInv /\ PipelineInv' /\ [Next]_vars => [Fifo!FifoNext]_(Fifo!fifoVars)
  <2> SUFFICES ASSUME TypeOK, PipelineInv, PipelineInv', [Next]_vars
               PROVE  [Fifo!FifoNext]_(Fifo!fifoVars)
    OBVIOUS
  <2>1. ASSUME NEW r \in Rings, Reserve(r) PROVE Fifo!FifoNext
    BY <2>1 DEF Reserve, mainVars, Fifo!FifoNext, Fifo!Accept
  <2>2. ASSUME NEW r \in Rings, ReserveFails(r) PROVE Fifo!FifoNext
    BY <2>2 DEF ReserveFails, mainVars, Fifo!FifoNext, Fifo!Lose
  <2>3. CASE MainHandle
    <3>1. PICK r \in Rings, n \in Nat, h \in Seq(Nat) :
            r = mainEv.ring /\ n = mainEv.n /\ h = handled[r]
      <4>1. mainEv.ring \in Rings /\ mainEv.n \in Nat
        BY DEF TypeOK, Events
      <4>2. handled[mainEv.ring] \in Seq(Nat)
        BY <4>1 DEF TypeOK
      <4>3. QED
        BY <4>1, <4>2
    <3>2. handled' = [handled EXCEPT ![r] = Append(h, n)] /\ handled'[r] = Append(h, n)
          /\ UNCHANGED <<reserved, lost>> /\ reserved[r] \in Nat /\ Len(ring[r]) \in Nat
      <4>1. handled' = [handled EXCEPT ![r] = Append(h, n)] /\ UNCHANGED <<reserved, lost>>
        BY <2>3, <3>1 DEF MainHandle, kernelVars
      <4>2. r \in DOMAIN handled /\ reserved[r] \in Nat /\ ring[r] \in Seq(Nat)
        BY <3>1 DEF TypeOK
      <4>3. QED
        BY <4>1, <4>2
    <3>3. Len(h) \in Nat /\ DOMAIN Append(h, n) = 1..(Len(h) + 1) /\ Append(h, n)[Len(h) + 1] = n
      BY <3>1
    <3>4. n = Len(h) + 1
      <4>1. \A i \in DOMAIN Append(h, n) : Append(h, n)[i] = i
        BY <3>2 DEF PipelineInv
      <4>2. Len(h) + 1 \in DOMAIN Append(h, n)
        BY <3>3
      <4>3. QED
        BY <4>1, <4>2, <3>3
    <3>5. Len(h) < reserved[r]
      <4>1. n \in InMain(r)
        BY <2>3, <3>1 DEF InMain, MainHandle
      <4>2. n <= Taken(r)
        BY <4>1 DEF PipelineInv, StagesOrdered, Past
      <4>3. QED
        BY <4>2, <3>2, <3>3, <3>4 DEF Taken
    <3>6. QED
      BY <3>1, <3>2, <3>4, <3>5 DEF Fifo!FifoNext, Fifo!Deliver
  <2>4. ASSUME NEW r \in Rings, Submitting(r) \/ Reading(r) \/ Sending(r)
        PROVE  UNCHANGED <<reserved, lost, handled>>
    BY <2>4 DEF Submitting, Submit, Reading, ReaderRead, ReaderClosed, Sending, ReaderSend, ReaderDone,
                kernelVars, mainVars
  <2>5. ASSUME MainRead \/ Observing \/ Signal \/ Closing \/ UNCHANGED vars
        PROVE  UNCHANGED <<reserved, lost, handled>>
    BY <2>5 DEF MainRead, Observing, TickLookup, TickAdd, Signal, Closing, CloseReader, CloseLinks,
                CloseCollections, Exit, vars, kernelVars, mainVars
  <2>6. QED
    BY <2>1, <2>2, <2>3, <2>4, <2>5 DEF Next, Terminated, Fifo!fifoVars
<1>3. QED
  BY <1>1, <1>2, PipelineInvariant, TypeAndLossInvariant, PTL DEF Spec, ImplementsLossyFifo, Fifo!FifoSpec
=============================================================================
