-------------------------- MODULE AlertSinkProofs ---------------------------
(***************************************************************************)
(* The safety properties of AlertSink for any number of alerts and any     *)
(* capacity of history and queue, alone and beneath Console.  Inv says     *)
(* where each alert is by its number: those in the queue come after the    *)
(* one in the worker's hands, which comes after those it has finished      *)
(* with, and the counters tell how many are where.  From it the webhook is *)
(* shown to implement Outbox, step by step.                                *)
(***************************************************************************)
EXTENDS Console, FiniteSetTheorems, SequenceTheorems, TLAPS

(* TypeOK, with counters that are not bounded yet.                          *)
Types ==
  /\ webhook \in BOOLEAN /\ running \in BOOLEAN /\ raised \in 0..MaxAlerts
  /\ main \in {"handling", "publishing"} /\ worker \in {"receive", "post", "await"}
  /\ main = "publishing" => raised > 0
  /\ queue \in Seq(Alerts) /\ Len(queue) <= QueueCap
  /\ posting \in Alerts \union {None} /\ (posting = None <=> worker = "receive")
  /\ adrift \subseteq Alerts /\ received \in Seq([alert : Alerts, late : BOOLEAN])
  /\ webhookDelivered \in Nat /\ webhookFailures \in Nat /\ webhookDropped \in Nat

CountedOnce ==
  /\ \A l \in DOMAIN alertsTotal : alertsTotal[l] \in 0..raised
  /\ ofRule \in [Rules -> 0..raised]

(* A sink that is nil does nothing.                                         *)
NilSinkIsIdle ==
  ~webhook => /\ queue = <<>> /\ worker = "receive"
              /\ webhookDelivered = 0 /\ webhookFailures = 0 /\ webhookDropped = 0

(* The numbers of the queue increase.  The worker is finished with n when n *)
(* comes before all that it and the queue still have.                       *)
QueueInOrder ==
  /\ \A i, j \in 1..Len(queue) : i < j => queue[i] < queue[j]
  /\ \A i \in 1..Len(queue) : queue[i] <= Published

Before(n) == n <= Published /\ \A i \in 1..Len(queue) : n < queue[i]

PostingInOrder == posting # None => Before(posting)

Finished(n) == Before(n) /\ (posting # None => n < posting)

AdriftFinished ==
  \A n \in adrift : Finished(n) /\ \A i \in 1..Len(received) : received[i].alert # n

ReceivedFinished ==
  \A i \in 1..Len(received) :
    \/ Finished(received[i].alert)
    \/ worker = "await" /\ received[i].alert = posting /\ Before(posting)

Order == QueueInOrder /\ PostingInOrder /\ AdriftFinished /\ ReceivedFinished
           /\ EndpointSeesEachOnceInOrder

(* Every request that got through has been counted, or its answer is        *)
(* awaited; those that may yet arrive have been counted as failed.          *)
RequestsCounted ==
  /\ webhookDelivered + (IF worker = "await" THEN 1 ELSE 0) <= Len(received)
  /\ Len(received) + Cardinality(adrift) + (IF worker = "post" THEN 1 ELSE 0)
       <= webhookDelivered + webhookFailures + InFlight

-----------------------------------------------------------------------------
(* What the end of a request changes, however it ends.                      *)
LEMMA RequestEnd ==
  ASSUME Types, PostFails \/ Rejected \/ TimesOut \/ Accepted
  PROVE  /\ posting \in Alerts /\ posting' = None
         /\ worker \in {"post", "await"} /\ worker' = "receive"
         /\ UNCHANGED <<webhook, running, raised, main, queue, received, webhookDropped>>
         /\ \/ /\ webhookFailures' = webhookFailures + 1
               /\ UNCHANGED webhookDelivered
               /\ \/ UNCHANGED adrift
                  \/ worker = "post" /\ adrift' = adrift \union {posting}
            \/ /\ webhookDelivered' = webhookDelivered + 1 /\ worker = "await"
               /\ UNCHANGED <<adrift, webhookFailures>>
         /\ adrift' \subseteq Alerts
         /\ webhookDelivered' \in Nat /\ webhookFailures' \in Nat
BY DEF PostFails, Rejected, TimesOut, Accepted, Fails, Done, mainState, Types

LEMMA TypesInductive ==
  ASSUME Types, [Next]_vars
  PROVE  Types'
<1>. USE SinkAssumption DEF Types, Alerts, None
<1>1. CASE Add
  BY <1>1 DEF Add, counters
<1>2. CASE Publish
  <2>1. CASE Enqueue
    BY <1>2, <2>1, AppendProperties DEF Publish, Enqueue
  <2>2. CASE CountDrop \/ NoSink
    BY <1>2, <2>2 DEF Publish, CountDrop, NoSink
  <2>. QED
    BY <1>2, <2>1, <2>2 DEF Publish
<1>3. CASE Receive
  <2>1. /\ Head(queue) \in Alerts /\ Tail(queue) \in Seq(Alerts)
        /\ Len(Tail(queue)) = Len(queue) - 1
    BY <1>3, HeadTailProperties DEF Receive
  <2>. QED
    BY <1>3, <2>1 DEF Receive, mainState, storeVars, counters
<1>4. CASE Arrive
  BY <1>4, AppendProperties DEF Arrive, mainState, storeVars, counters
<1>5. CASE ArriveLate
  BY <1>5, AppendProperties DEF ArriveLate, mainState, storeVars, counters
<1>6. CASE PostFails \/ Rejected \/ TimesOut \/ Accepted
  <2>1. /\ posting' = None /\ worker' = "receive"
        /\ UNCHANGED <<webhook, running, raised, main, queue, received, webhookDropped>>
    BY <1>6, RequestEnd
  <2>2. adrift' \subseteq Alerts /\ webhookFailures' \in Nat /\ webhookDelivered' \in Nat
    BY <1>6, RequestEnd
  <2>. QED
    BY <2>1, <2>2
<1>7. CASE Exit \/ UNCHANGED vars
  BY <1>7 DEF Exit, vars, storeVars, counters
<1>. QED
  BY <1>1, <1>2, <1>3, <1>4, <1>5, <1>6, <1>7 DEF Next, WorkerStep

LEMMA CountedOnceInductive ==
  ASSUME Types, CountedOnce, [Next]_vars
  PROVE  CountedOnce'
<1>1. CASE Add
  <2>1. raised \in Nat /\ raised' = raised + 1
    BY <1>1, SinkAssumption DEF Add, Types
  <2>2. PICK rule \in Rules :
          /\ alertsTotal' = [alertsTotal EXCEPT ![WithLabelValues(SeverityOf[rule], rule)] = @ + 1]
          /\ ofRule' = [ofRule EXCEPT ![rule] = @ + 1]
    BY <1>1 DEF Add
  <2>3. ofRule' \in [Rules -> 0..raised']
    BY <2>1, <2>2 DEF CountedOnce
  <2>4. ASSUME NEW l \in DOMAIN alertsTotal' PROVE alertsTotal'[l] \in 0..raised'
    BY <2>1, <2>2 DEF CountedOnce
  <2>. QED
    BY <2>3, <2>4 DEF CountedOnce
<1>2. UNCHANGED <<raised, storeVars>> => CountedOnce'
  BY DEF CountedOnce, storeVars
<1>. QED
  BY <1>1, <1>2 DEF Next, WorkerStep, Publish, Receive, Arrive, ArriveLate, PostFails, Rejected,
    TimesOut, Accepted, Fails, Done, Exit, mainState, vars

LEMMA NilSinkInductive ==
  ASSUME Types, NilSinkIsIdle, [Next]_vars
  PROVE  NilSinkIsIdle'
<1>. USE DEF NilSinkIsIdle
<1>1. CASE Add \/ Exit \/ UNCHANGED vars
  BY <1>1 DEF Add, Exit, vars, storeVars, counters
<1>2. CASE Publish
  BY <1>2 DEF Publish, Enqueue, CountDrop, NoSink
<1>3. CASE WorkerStep \/ ArriveLate
  BY <1>3 DEF WorkerStep, Receive, Arrive, ArriveLate, PostFails, Rejected, TimesOut, Accepted,
    Fails, Done, mainState, storeVars, counters
<1>. QED
  BY <1>1, <1>2, <1>3 DEF Next

(* The alerts accounted for, and those there are.                           *)
Accounted == webhookDelivered + webhookFailures + webhookDropped + Len(queue) + InFlight
NoneMissing == webhook => Accounted = Published

LEMMA AccountedTypes ==
  ASSUME Types
  PROVE  /\ Accounted \in Nat /\ Published \in Int /\ InFlight \in Nat /\ Len(queue) \in Nat
         /\ EveryAlertAccounted <=> NoneMissing
BY SinkAssumption DEF Types, Accounted, Published, InFlight, EveryAlertAccounted, NoneMissing

LEMMA AccountedInductive ==
  ASSUME Types, Types', NilSinkIsIdle, EveryAlertAccounted, [Next]_vars
  PROVE  EveryAlertAccounted'
<1>1. Types' => (EveryAlertAccounted' <=> NoneMissing')
  BY AccountedTypes, PTL
<1>2. NoneMissing
  BY AccountedTypes
<1>3. Accounted \in Nat /\ Published \in Int
  BY AccountedTypes
<1>4. CASE Add
  <2>1. UNCHANGED webhook /\ Accounted' = Accounted /\ Published' = Published
    BY <1>4, SinkAssumption DEF Add, counters, Types, Accounted, Published, InFlight
  <2>. QED
    BY <2>1, <1>1, <1>2, <1>3 DEF NoneMissing
<1>5. CASE Enqueue /\ Publish
  <2>1. Len(queue') = Len(queue) + 1
    BY <1>5, AppendProperties, SinkAssumption DEF Enqueue, Publish, Types, Alerts
  <2>2. UNCHANGED webhook /\ Accounted' = Accounted + 1 /\ Published' = Published + 1
    BY <1>5, <2>1, SinkAssumption DEF Enqueue, Publish, Types, Accounted, Published, InFlight
  <2>. QED
    BY <2>2, <1>1, <1>2, <1>3 DEF NoneMissing
<1>6. CASE CountDrop /\ Publish
  <2>1. UNCHANGED webhook /\ Accounted' = Accounted + 1 /\ Published' = Published + 1
    BY <1>6, SinkAssumption DEF CountDrop, Publish, Types, Accounted, Published, InFlight
  <2>. QED
    BY <2>1, <1>1, <1>2, <1>3 DEF NoneMissing
<1>7. CASE NoSink /\ Publish
  BY <1>7 DEF NoSink, Publish, EveryAlertAccounted
<1>8. CASE Receive
  <2>1. Head(queue) \in Alerts /\ Len(queue') = Len(queue) - 1 /\ posting = None
    BY <1>8, HeadTailProperties DEF Receive, Types
  <2>2. UNCHANGED webhook /\ Accounted' = Accounted /\ Published' = Published
    BY <1>8, <2>1 DEF Receive, mainState, storeVars, counters, Types, Alerts, None,
      Accounted, Published, InFlight
  <2>. QED
    BY <2>2, <1>1, <1>2, <1>3 DEF NoneMissing
<1>9. CASE Arrive \/ ArriveLate \/ Exit \/ UNCHANGED vars
  <2>1. UNCHANGED webhook /\ Accounted' = Accounted /\ Published' = Published
    BY <1>9 DEF Arrive, ArriveLate, Exit, vars, mainState, storeVars, counters,
      Accounted, Published, InFlight
  <2>. QED
    BY <2>1, <1>1, <1>2, <1>3 DEF NoneMissing
<1>10. CASE PostFails \/ Rejected \/ TimesOut \/ Accepted
  <2>1. /\ posting # None /\ posting' = None
        /\ UNCHANGED <<webhook, raised, main, queue, webhookDropped>>
        /\ \/ webhookFailures' = webhookFailures + 1 /\ UNCHANGED webhookDelivered
           \/ webhookDelivered' = webhookDelivered + 1 /\ UNCHANGED webhookFailures
    BY <1>10, RequestEnd DEF Alerts, None
  <2>2. Published' = Published /\ Len(queue) \in Nat /\ Len(queue') = Len(queue)
    BY <2>1 DEF Types, Published
  <2>3. webhookDelivered \in Nat /\ webhookFailures \in Nat /\ webhookDropped \in Nat
    BY DEF Types
  <2>4. Accounted' = Accounted
    BY <2>1, <2>2, <2>3 DEF Accounted, InFlight
  <2>. QED
    BY <2>1, <2>2, <2>4, <1>1, <1>2, <1>3 DEF NoneMissing
<1>. QED
  BY <1>4, <1>5, <1>6, <1>7, <1>8, <1>9, <1>10 DEF Next, WorkerStep, Publish

-----------------------------------------------------------------------------
(* The history after one more alert is the newest of one more.              *)
Newest(n) ==
  LET kept == IF n < StoreCap THEN n ELSE StoreCap
  IN  [i \in 1..kept |-> n - kept + i]

LEMMA NewestShifts ==
  ASSUME NEW n \in Nat
  PROVE  Kept(Append(Newest(n), n + 1)) = Newest(n + 1)
<1>. DEFINE a == Append(Newest(n), n + 1)
<1>1. CASE n < StoreCap
  <2>1. Newest(n) \in Seq(Nat) /\ Len(Newest(n)) = n /\ \A i \in 1..n : Newest(n)[i] = i
    BY <1>1, SinkAssumption DEF Newest
  <2>2. /\ a \in Seq(Nat) /\ Len(a) = n + 1
        /\ \A i \in 1..(n + 1) : a[i] = i
    BY <2>1, AppendProperties
  <2>3. Newest(n + 1) \in Seq(Nat) /\ Len(Newest(n + 1)) = n + 1
        /\ \A i \in 1..(n + 1) : Newest(n + 1)[i] = i
    BY <1>1, SinkAssumption DEF Newest
  <2>4. a = Newest(n + 1)
    BY <2>2, <2>3, SeqEqual
  <2>5. ~(Len(a) > StoreCap)
    BY <1>1, <2>2, SinkAssumption
  <2>. QED
    BY <2>4, <2>5 DEF Kept
<1>2. CASE n >= StoreCap
  <2>1. /\ Newest(n) \in Seq(Nat) /\ Len(Newest(n)) = StoreCap
        /\ \A i \in 1..StoreCap : Newest(n)[i] = n - StoreCap + i
    BY <1>2, SinkAssumption DEF Newest
  <2>2. /\ a \in Seq(Nat) /\ Len(a) = StoreCap + 1 /\ a # <<>>
        /\ \A i \in 1..(StoreCap + 1) : a[i] = n - StoreCap + i
    BY <2>1, AppendProperties, SinkAssumption
  <2>3. /\ Tail(a) \in Seq(Nat) /\ Len(Tail(a)) = StoreCap
        /\ \A i \in 1..StoreCap : Tail(a)[i] = n - StoreCap + (i + 1)
    BY <2>2, HeadTailProperties, SinkAssumption
  <2>4. /\ Newest(n + 1) \in Seq(Nat) /\ Len(Newest(n + 1)) = StoreCap
        /\ \A i \in 1..StoreCap : Newest(n + 1)[i] = n + 1 - StoreCap + i
    BY <1>2, SinkAssumption DEF Newest
  <2>5. ASSUME NEW i \in 1..StoreCap PROVE Tail(a)[i] = Newest(n + 1)[i]
    <3>1. n - StoreCap + (i + 1) = n + 1 - StoreCap + i
      BY SinkAssumption
    <3>. QED
      BY <2>3, <2>4, <3>1
  <2>6. Tail(a) = Newest(n + 1)
    BY <2>3, <2>4, <2>5, SeqEqual
  <2>7. Len(a) > StoreCap
    BY <2>2, SinkAssumption
  <2>. QED
    BY <2>6, <2>7 DEF Kept
<1>. QED
  BY <1>1, <1>2, SinkAssumption

LEMMA StoreInductive ==
  ASSUME Types, StoreKeepsNewest, [Next]_vars
  PROVE  StoreKeepsNewest'
<1>1. CASE Add
  <2>1. alerts = Newest(raised) /\ raised \in Nat
    BY SinkAssumption DEF StoreKeepsNewest, Newest, Types
  <2>2. alerts' = Newest(raised') /\ raised' = raised + 1
    BY <1>1, <2>1, NewestShifts DEF Add
  <2>. QED
    BY <2>2 DEF StoreKeepsNewest, Newest
<1>2. UNCHANGED <<raised, storeVars>> => StoreKeepsNewest'
  BY DEF StoreKeepsNewest, storeVars
<1>. QED
  BY <1>1, <1>2 DEF Next, WorkerStep, Publish, Receive, Arrive, ArriveLate, PostFails, Rejected,
    TimesOut, Accepted, Fails, Done, Exit, mainState, vars

-----------------------------------------------------------------------------
LEMMA RequestsInductive ==
  ASSUME Types, RequestsCounted, [Next]_vars
  PROVE  RequestsCounted'
<1>. DEFINE n == Cardinality(adrift)
            l == Len(received)
<1>1. /\ IsFiniteSet(adrift) /\ n \in Nat /\ l \in Nat
      /\ webhookDelivered \in Nat /\ webhookFailures \in Nat
  <2>1. IsFiniteSet(Alerts)
    BY FS_Interval, SinkAssumption DEF Alerts
  <2>. QED
    BY <2>1, FS_Subset, FS_CardinalityType DEF Types
<1>2. CASE Add \/ Publish \/ Exit \/ UNCHANGED vars
  BY <1>2 DEF Add, Publish, Exit, vars, counters, RequestsCounted, InFlight
<1>3. CASE Receive
  <2>1. posting = None /\ posting' # None /\ worker = "receive" /\ worker' = "post"
    <3>1. Head(queue) \in Alerts
      BY <1>3, HeadTailProperties DEF Receive, Types
    <3>. QED
      BY <1>3, <3>1, SinkAssumption DEF Receive, Types, Alerts, None
  <2>. QED
    BY <1>1, <1>3, <2>1 DEF Receive, counters, RequestsCounted, InFlight
<1>4. CASE Arrive
  <2>1. Len(received') = l + 1 /\ posting # None
    BY <1>4, AppendProperties DEF Arrive, Types
  <2>. QED
    BY <1>1, <1>4, <2>1 DEF Arrive, mainState, counters, RequestsCounted, InFlight, Types
<1>5. CASE ArriveLate
  <2>1. PICK m \in adrift : /\ received' = Append(received, [alert |-> m, late |-> TRUE])
                            /\ adrift' = adrift \ {m}
                            /\ UNCHANGED <<mainState, queue, worker, posting, counters>>
    BY <1>5 DEF ArriveLate
  <2>2. Len(received') = l + 1
    BY <2>1, AppendProperties DEF Types
  <2>3. Cardinality(adrift') = n - 1
    BY <1>1, <2>1, FS_RemoveElement
  <2>. QED
    BY <1>1, <2>1, <2>2, <2>3 DEF counters, RequestsCounted, InFlight, Types
<1>6. CASE PostFails \/ Rejected \/ TimesOut \/ Accepted
  <2>1. /\ posting # None /\ posting' = None /\ worker' = "receive"
        /\ worker \in {"post", "await"} /\ received' = received
    BY <1>6, RequestEnd DEF Alerts, None
  <2>2. CASE /\ webhookFailures' = webhookFailures + 1 /\ UNCHANGED webhookDelivered
             /\ UNCHANGED adrift
    BY <1>1, <2>1, <2>2 DEF RequestsCounted, InFlight
  <2>3. CASE /\ webhookFailures' = webhookFailures + 1 /\ UNCHANGED webhookDelivered
             /\ worker = "post" /\ adrift' = adrift \union {posting}
    <3>1. Cardinality(adrift') \in Nat /\ Cardinality(adrift') <= n + 1
      <4>1. Cardinality(adrift \union {posting}) = IF posting \in adrift THEN n ELSE n + 1
        BY <1>1, FS_AddElement
      <4>. QED
        BY <1>1, <2>3, <4>1
    <3>. QED
      BY <1>1, <2>1, <2>3, <3>1 DEF RequestsCounted, InFlight
  <2>4. CASE /\ webhookDelivered' = webhookDelivered + 1 /\ worker = "await"
             /\ UNCHANGED <<adrift, webhookFailures>>
    BY <1>1, <2>1, <2>4 DEF RequestsCounted, InFlight
  <2>. QED
    BY <1>6, <2>2, <2>3, <2>4, RequestEnd
<1>. QED
  BY <1>2, <1>3, <1>4, <1>5, <1>6 DEF Next, WorkerStep

-----------------------------------------------------------------------------
(* Numbers of alerts are integers, wherever they are.                       *)
LEMMA Numbers ==
  ASSUME Types
  PROVE  /\ Published \in Int /\ posting \in Nat /\ Len(queue) \in Nat /\ Len(received) \in Nat
         /\ \A i \in 1..Len(queue) : queue[i] \in Nat
         /\ \A i \in 1..Len(received) : received[i].alert \in Nat
         /\ \A n \in adrift : n \in Nat
<1>1. Alerts \subseteq Nat /\ None \in Nat
  BY SinkAssumption DEF Alerts, None
<1>2. \A i \in 1..Len(queue) : queue[i] \in Alerts
  BY ElementOfSeq DEF Types
<1>3. \A i \in 1..Len(received) : received[i] \in [alert : Alerts, late : BOOLEAN]
  BY ElementOfSeq DEF Types
<1>4. Published \in Int /\ posting \in Nat /\ Len(queue) \in Nat /\ Len(received) \in Nat
  BY <1>1, SinkAssumption DEF Types, Published
<1>. QED
  BY <1>1, <1>2, <1>3, <1>4 DEF Types

(* Publishing and receiving: nothing is received or given up on, and        *)
(* whatever the worker was finished with, it still is.                      *)
LEMMA OrderKept ==
  ASSUME Order, UNCHANGED <<received, adrift>>, worker # "await" \/ UNCHANGED <<worker, posting>>,
         \A n \in Nat : Before(n) /\ Finished(n) => Finished(n)',
         \A n \in Nat : UNCHANGED posting /\ Before(n) => Before(n)',
         QueueInOrder', PostingInOrder', Types
  PROVE  Order'
<1>1. AdriftFinished'
  BY Numbers DEF Order, AdriftFinished, Finished
<1>2. ReceivedFinished'
  BY Numbers DEF Order, ReceivedFinished, Finished
<1>3. EndpointSeesEachOnceInOrder'
  BY DEF Order, EndpointSeesEachOnceInOrder
<1>. QED
  BY <1>1, <1>2, <1>3 DEF Order

LEMMA OrderPublish ==
  ASSUME Types, Types', Order, Publish
  PROVE  Order'
<1>1. /\ Published' = Published + 1 /\ Published' = raised /\ raised \in Nat
      /\ UNCHANGED <<posting, worker, received, adrift>>
  BY SinkAssumption DEF Publish, Published, Types
<1>2. CASE CountDrop \/ NoSink
  <2>1. queue' = queue
    BY <1>2 DEF CountDrop, NoSink
  <2>2. \A n \in Nat : Before(n) => Before(n)'
    BY <1>1, <2>1, Numbers DEF Before
  <2>3. QueueInOrder' /\ PostingInOrder'
    BY <1>1, <2>1, <2>2, Numbers DEF Order, QueueInOrder, PostingInOrder
  <2>. QED
    BY <1>1, <2>2, <2>3, OrderKept DEF Finished
<1>3. CASE Enqueue
  <2>1. /\ Len(queue') = Len(queue) + 1
        /\ \A i \in 1..Len(queue) : queue'[i] = queue[i]
        /\ queue'[Len(queue) + 1] = raised
    BY <1>1, <1>3, AppendProperties DEF Enqueue, Types
  <2>2. \A n \in Nat : Before(n) => Before(n)'
    BY <1>1, <2>1, Numbers DEF Before
  <2>3. QueueInOrder'
    <3>1. /\ \A i, j \in 1..Len(queue) : i < j => queue[i] < queue[j]
          /\ \A i \in 1..Len(queue) : queue[i] <= Published /\ queue[i] < raised
      BY <1>1, Numbers DEF Order, QueueInOrder
    <3>2. \A i \in 1..Len(queue') : queue'[i] <= Published'
      BY <1>1, <2>1, <3>1, Numbers
    <3>3. ASSUME NEW i \in 1..Len(queue'), NEW j \in 1..Len(queue'), i < j
          PROVE  queue'[i] < queue'[j]
      <4>1. i \in 1..Len(queue) /\ (j \in 1..Len(queue) \/ j = Len(queue) + 1)
        BY <2>1, <3>3, Numbers
      <4>. QED
        BY <1>1, <2>1, <3>1, <3>3, <4>1
    <3>. QED
      BY <3>2, <3>3 DEF QueueInOrder
  <2>4. PostingInOrder'
    BY <1>1, <2>2, Numbers DEF Order, PostingInOrder
  <2>. QED
    BY <1>1, <2>2, <2>3, <2>4, OrderKept DEF Finished
<1>. QED
  BY <1>2, <1>3 DEF Publish

LEMMA OrderReceive ==
  ASSUME Types, Types', Order, Receive
  PROVE  Order'
<1>1. /\ posting = None /\ worker = "receive" /\ posting' = queue[1] /\ Len(queue) > 0
      /\ UNCHANGED <<received, adrift>> /\ Published' = Published
  BY DEF Receive, Types, mainState, Published
<1>2. /\ Len(queue') = Len(queue) - 1
      /\ \A i \in 1..Len(queue') : queue'[i] = queue[i + 1]
  BY <1>1, HeadTailProperties DEF Receive, Types
<1>3. \A n \in Nat : Before(n) => Before(n)' /\ n < posting'
  BY <1>1, <1>2, Numbers DEF Before
<1>4. /\ \A i, j \in 1..Len(queue) : i < j => queue[i] < queue[j]
      /\ \A i \in 1..Len(queue) : queue[i] <= Published
      /\ \A i \in 1..Len(queue') : i \in 1..Len(queue) /\ i + 1 \in 1..Len(queue)
  BY <1>1, <1>2, Numbers DEF Order, QueueInOrder
<1>5. QueueInOrder'
  <2>1. \A i \in 1..Len(queue') : queue'[i] <= Published'
    BY <1>1, <1>2, <1>4
  <2>2. ASSUME NEW i \in 1..Len(queue'), NEW j \in 1..Len(queue'), i < j
        PROVE  queue'[i] < queue'[j]
    BY <1>2, <1>4, <2>2
  <2>. QED
    BY <2>1, <2>2 DEF QueueInOrder
<1>6. Before(posting)'
  <2>1. 1 \in 1..Len(queue)
    BY <1>1, Numbers
  <2>2. \A i \in 1..Len(queue') : 1 < i + 1
    OBVIOUS
  <2>. QED
    BY <1>1, <1>2, <1>4, <2>1, <2>2 DEF Before
<1>. QED
  BY <1>1, <1>3, <1>5, <1>6, OrderKept DEF Finished, PostingInOrder

(* The endpoint gets alert n, from the worker or late.                      *)
LEMMA OrderArrive ==
  ASSUME Types, Order, Arrive \/ ArriveLate
  PROVE  Order'
<1>1. PICK n \in Nat, late \in BOOLEAN :
        /\ received' = Append(received, [alert |-> n, late |-> late])
        /\ UNCHANGED <<queue, posting, Published>>
        /\ \/ /\ ~late /\ worker = "post" /\ worker' = "await" /\ n = posting
              /\ UNCHANGED adrift
           \/ /\ late /\ UNCHANGED worker /\ n \in adrift /\ adrift' = adrift \ {n}
  <2>1. CASE Arrive
    BY <2>1, Numbers DEF Arrive, mainState, Published
  <2>2. CASE ArriveLate
    BY <2>2, Numbers DEF ArriveLate, mainState, Published
  <2>. QED
    BY <2>1, <2>2
<1>. DEFINE l == Len(received)
<1>2. [alert |-> n, late |-> late] \in [alert : Alerts, late : BOOLEAN]
  BY <1>1 DEF Types
<1>3. /\ Len(received') = l + 1 /\ l \in Nat
      /\ \A i \in 1..l : received'[i] = received[i]
      /\ received'[l + 1] = [alert |-> n, late |-> late]
  BY <1>1, <1>2, AppendProperties DEF Types
<1>4. \A m \in Nat : (Before(m) <=> Before(m)') /\ (Finished(m) <=> Finished(m)')
  BY <1>1 DEF Before, Finished
<1>5. CASE /\ ~late /\ worker = "post" /\ worker' = "await" /\ n = posting /\ UNCHANGED adrift
  <2>1. Before(posting) /\ posting # None
    BY <1>5 DEF Order, PostingInOrder, Types
  <2>2. \A i \in 1..l : Finished(received[i].alert) /\ received[i].alert < n
    BY <1>5, <2>1 DEF Order, ReceivedFinished, Finished
  <2>3. \A m \in adrift : Finished(m) /\ m < n
    BY <1>5, <2>1 DEF Order, AdriftFinished, Finished
  <2>4. AdriftFinished'
    BY <1>3, <1>4, <1>5, <2>3, Numbers DEF Order, AdriftFinished
  <2>5. ReceivedFinished'
    BY <1>1, <1>3, <1>4, <1>5, <2>1, <2>2, Numbers DEF ReceivedFinished
  <2>6. EndpointSeesEachOnceInOrder'
    <3>1. ASSUME NEW i \in 1..Len(received'), NEW j \in 1..Len(received'), i < j
          PROVE  /\ received'[i].alert # received'[j].alert
                 /\ \/ received'[i].alert < received'[j].alert
                    \/ received'[i].late \/ received'[j].late
      <4>1. i \in 1..l /\ (j \in 1..l \/ j = l + 1)
        BY <1>3, <3>1
      <4>2. CASE j \in 1..l
        BY <1>3, <3>1, <4>1, <4>2 DEF Order, EndpointSeesEachOnceInOrder
      <4>3. CASE j = l + 1
        BY <1>3, <2>2, <4>1, <4>3, Numbers
      <4>. QED
        BY <4>1, <4>2, <4>3
    <3>. QED
      BY <3>1 DEF EndpointSeesEachOnceInOrder
  <2>. QED
    BY <1>1, <1>4, <2>4, <2>5, <2>6, Numbers DEF Order, QueueInOrder, PostingInOrder
<1>6. CASE late /\ UNCHANGED worker /\ n \in adrift /\ adrift' = adrift \ {n}
  <2>1. Finished(n) /\ \A i \in 1..l : received[i].alert # n
    BY <1>6 DEF Order, AdriftFinished
  <2>2. AdriftFinished'
    <3>1. ASSUME NEW m \in adrift'
          PROVE  Finished(m)' /\ \A i \in 1..Len(received') : received'[i].alert # m
      <4>1. m \in adrift /\ m # n /\ m \in Nat
        BY <1>6, Numbers
      <4>2. Finished(m) /\ \A i \in 1..l : received[i].alert # m
        BY <4>1 DEF Order, AdriftFinished
      <4>3. \A i \in 1..Len(received') : i \in 1..l \/ i = l + 1
        BY <1>3
      <4>. QED
        BY <1>3, <1>4, <4>1, <4>2, <4>3
    <3>. QED
      BY <3>1 DEF AdriftFinished
  <2>3. ReceivedFinished'
    BY <1>1, <1>3, <1>4, <1>6, <2>1, Numbers DEF Order, ReceivedFinished
  <2>4. EndpointSeesEachOnceInOrder'
    <3>1. ASSUME NEW i \in 1..Len(received'), NEW j \in 1..Len(received'), i < j
          PROVE  /\ received'[i].alert # received'[j].alert
                 /\ \/ received'[i].alert < received'[j].alert
                    \/ received'[i].late \/ received'[j].late
      <4>1. i \in 1..l /\ (j \in 1..l \/ j = l + 1)
        BY <1>3, <3>1
      <4>2. CASE j \in 1..l
        BY <1>3, <3>1, <4>1, <4>2 DEF Order, EndpointSeesEachOnceInOrder
      <4>3. CASE j = l + 1
        BY <1>3, <1>6, <2>1, <4>1, <4>3
      <4>. QED
        BY <4>1, <4>2, <4>3
    <3>. QED
      BY <3>1 DEF EndpointSeesEachOnceInOrder
  <2>. QED
    BY <1>1, <1>4, <2>2, <2>3, <2>4, Numbers DEF Order, QueueInOrder, PostingInOrder
<1>. QED
  BY <1>1, <1>5, <1>6

LEMMA OrderRequestEnd ==
  ASSUME Types, Order, PostFails \/ Rejected \/ TimesOut \/ Accepted
  PROVE  Order'
<1>1. /\ posting \in Alerts /\ posting # None /\ posting' = None /\ worker' = "receive"
      /\ UNCHANGED <<queue, received, Published>>
      /\ UNCHANGED adrift \/ (worker = "post" /\ adrift' = adrift \union {posting})
  <2>1. /\ posting' = None /\ UNCHANGED <<raised, main, queue, received>>
        /\ posting \in Alerts /\ worker' = "receive"
        /\ UNCHANGED adrift \/ (worker = "post" /\ adrift' = adrift \union {posting})
    BY RequestEnd
  <2>. QED
    BY <2>1 DEF Alerts, None, Published
<1>2. Before(posting)
  BY <1>1 DEF Order, PostingInOrder
<1>3. \A n \in Nat : Before(n) => Finished(n)'
  BY <1>1 DEF Before, Finished
<1>4. ReceivedFinished'
  BY <1>1, <1>2, <1>3, Numbers DEF Order, ReceivedFinished, Finished
<1>5. AdriftFinished'
  <2>1. \A n \in adrift : Finished(n)' /\ \A i \in 1..Len(received) : received'[i].alert # n
    BY <1>1, <1>3, Numbers DEF Order, AdriftFinished, Finished
  <2>2. worker = "post" => \A i \in 1..Len(received) : received[i].alert # posting
    BY <1>1, Numbers DEF Order, ReceivedFinished, Finished
  <2>. QED
    BY <1>1, <1>2, <1>3, <2>1, <2>2, Numbers DEF AdriftFinished
<1>. QED
  BY <1>1, <1>4, <1>5 DEF Order, QueueInOrder, PostingInOrder, EndpointSeesEachOnceInOrder

LEMMA OrderInductive ==
  ASSUME Types, Types', Order, [Next]_vars
  PROVE  Order'
<1>1. CASE Add \/ Exit \/ UNCHANGED vars
  <2>1. UNCHANGED <<Published, queue, posting, worker, adrift, received>>
    <3>1. CASE Add
      BY <3>1, SinkAssumption DEF Add, Published, Types
    <3>2. CASE Exit \/ UNCHANGED vars
      BY <3>2 DEF Exit, vars, Published
    <3>. QED
      BY <1>1, <3>1, <3>2
  <2>. QED
    BY <2>1 DEF Order, QueueInOrder, PostingInOrder, AdriftFinished, ReceivedFinished, Before,
      Finished, EndpointSeesEachOnceInOrder
<1>. QED
  BY <1>1, OrderPublish, OrderReceive, OrderArrive, OrderRequestEnd DEF Next, WorkerStep

-----------------------------------------------------------------------------
Inv == /\ Types /\ CountedOnce /\ NilSinkIsIdle /\ EveryAlertAccounted
       /\ StoreKeepsNewest /\ RequestsCounted /\ Order

LEMMA InitInv == Init => Inv
<1>. SUFFICES ASSUME Init PROVE Inv
  OBVIOUS
<1>1. Types
  BY SinkAssumption DEF Init, Types, Alerts, None
<1>2. CountedOnce
  BY DEF Init, CountedOnce
<1>3. NilSinkIsIdle /\ EveryAlertAccounted
  BY DEF Init, NilSinkIsIdle, EveryAlertAccounted, InFlight, Published
<1>4. StoreKeepsNewest
  BY SinkAssumption DEF Init, StoreKeepsNewest
<1>5. RequestsCounted
  BY FS_EmptySet DEF Init, RequestsCounted, InFlight
<1>6. Order
  BY DEF Init, Order, QueueInOrder, PostingInOrder, AdriftFinished, ReceivedFinished,
    EndpointSeesEachOnceInOrder
<1>. QED
  BY <1>1, <1>2, <1>3, <1>4, <1>5, <1>6 DEF Inv

LEMMA Inductive == Inv /\ [Next]_vars => Inv'
<1>. SUFFICES ASSUME Inv, [Next]_vars PROVE Inv'
  OBVIOUS
<1>1. Types'
  BY TypesInductive DEF Inv
<1>. QED
  BY <1>1, CountedOnceInductive, NilSinkInductive, AccountedInductive, StoreInductive,
    RequestsInductive, OrderInductive DEF Inv

LEMMA InvProperties ==
  ASSUME Inv
  PROVE  TypeOK /\ DeliveredWasReceived
<1>1. /\ Cardinality(adrift) \in Nat /\ Len(received) \in Nat /\ Len(queue) \in Nat
      /\ InFlight \in Nat /\ Published \in 0..MaxAlerts
  <2>1. IsFiniteSet(Alerts)
    BY FS_Interval, SinkAssumption DEF Alerts
  <2>2. Cardinality(adrift) \in Nat
    BY <2>1, FS_Subset, FS_CardinalityType DEF Inv, Types
  <2>. QED
    BY <2>2, SinkAssumption DEF Inv, Types, InFlight, Published
<1>2. \A n \in {webhookDelivered, webhookFailures, webhookDropped} : n \in 0..MaxAlerts
  <2>1. CASE webhook
    <3>1. webhookDelivered + webhookFailures + webhookDropped + Len(queue) + InFlight = Published
      BY <2>1 DEF Inv, EveryAlertAccounted, Published
    <3>2. webhookDelivered \in Nat /\ webhookFailures \in Nat /\ webhookDropped \in Nat
      BY DEF Inv, Types
    <3>3. /\ webhookDelivered \in 0..MaxAlerts /\ webhookFailures \in 0..MaxAlerts
          /\ webhookDropped \in 0..MaxAlerts
      BY ONLY <1>1, <3>1, <3>2, SinkAssumption
    <3>. QED
      BY <3>3
  <2>2. CASE ~webhook
    BY <2>2, SinkAssumption DEF Inv, NilSinkIsIdle
  <2>. QED
    BY <2>1, <2>2
<1>3. /\ \A l \in DOMAIN alertsTotal : alertsTotal[l] \in 0..MaxAlerts
      /\ ofRule \in [Rules -> 0..MaxAlerts]
  <2>1. 0..raised \subseteq 0..MaxAlerts
    BY SinkAssumption DEF Inv, Types
  <2>. QED
    BY <2>1 DEF Inv, CountedOnce
<1>4. TypeOK
  BY <1>2, <1>3 DEF Inv, Types, TypeOK
<1>5. DeliveredWasReceived
  BY <1>1 DEF Inv, Types, RequestsCounted, DeliveredWasReceived
<1>. QED
  BY <1>4, <1>5

-----------------------------------------------------------------------------
(* The dashboard reads the history and changes nothing of it: what holds of *)
(* the sink by itself holds of it beneath the console.                      *)
LEMMA ConsoleKeepsSink == ConsoleSpec => Init /\ [][Next]_vars
<1>1. ConsoleInit => Init
  BY DEF ConsoleInit
<1>2. [ConsoleNext]_allVars => [Next]_vars
  BY DEF ConsoleNext, allVars, Poll, RequestEnds, Answered, RequestFails
<1>. QED
  BY <1>1, <1>2, PTL DEF ConsoleSpec

LEMMA Invariant == Spec \/ ConsoleSpec => []Inv
BY InitInv, Inductive, ConsoleKeepsSink, PTL DEF Spec

(* Alone or with the dashboard polling it, the sink keeps its types, and no *)
(* metric counts more than there are alerts.                                *)
THEOREM TypeCorrect == Spec \/ ConsoleSpec => []TypeOK
BY Invariant, InvProperties, PTL

(* The history behind /api/alerts is the newest StoreCap alerts in order.   *)
THEOREM HistoryIsNewest == Spec \/ ConsoleSpec => []StoreKeepsNewest
<1>1. Inv => StoreKeepsNewest
  BY DEF Inv
<1>. QED
  BY Invariant, <1>1, PTL

(* No alert published leaves the metrics of the webhook's queue, worker and *)
(* outcomes without having been counted, once.                              *)
THEOREM NoAlertUnaccounted == Spec \/ ConsoleSpec => []EveryAlertAccounted
<1>1. Inv => EveryAlertAccounted
  BY DEF Inv
<1>. QED
  BY Invariant, <1>1, PTL

(* No alert is posted twice, and only one that was given up on is overtaken. *)
THEOREM PostedOnceInOrder == Spec \/ ConsoleSpec => []EndpointSeesEachOnceInOrder
<1>1. Inv => EndpointSeesEachOnceInOrder
  BY DEF Inv, Order
<1>. QED
  BY Invariant, <1>1, PTL

(* The metric of delivered alerts is backed by requests that got through.   *)
THEOREM DeliveredIsTrue == Spec \/ ConsoleSpec => []DeliveredWasReceived
BY Invariant, InvProperties, PTL

-----------------------------------------------------------------------------
(* The outbox                                                               *)

(* The alert whose answer the worker awaits is one that the endpoint got.   *)
AwaitedReached ==
  worker = "await" => \E i \in 1..Len(received) : received[i].alert = posting

(* Every step keeps it so.                                                  *)
LEMMA AwaitedInductive ==
  ASSUME Types, AwaitedReached, [Next]_vars
  PROVE  AwaitedReached'
<1>1. CASE Add \/ Publish \/ Receive \/ Exit \/ UNCHANGED vars
  <2>1. \/ UNCHANGED <<worker, posting, received>>
        \/ worker' = "post"
    BY <1>1 DEF Add, Publish, Receive, Exit, vars
  <2>. QED
    BY <2>1 DEF AwaitedReached
<1>2. CASE Arrive
  <2>1. [alert |-> posting, late |-> FALSE] \in [alert : Alerts, late : BOOLEAN]
    BY <1>2 DEF Arrive, Types
  <2>2. /\ Len(received') = Len(received) + 1 /\ Len(received) \in Nat
        /\ received'[Len(received) + 1] = [alert |-> posting, late |-> FALSE]
    BY <1>2, <2>1, AppendProperties DEF Arrive, Types
  <2>3. posting' = posting
    BY <1>2 DEF Arrive
  <2>. QED
    BY <2>2, <2>3 DEF AwaitedReached
<1>3. CASE ArriveLate
  <2>1. PICK n \in adrift : received' = Append(received, [alert |-> n, late |-> TRUE])
                            /\ UNCHANGED <<worker, posting>>
    BY <1>3 DEF ArriveLate
  <2>2. [alert |-> n, late |-> TRUE] \in [alert : Alerts, late : BOOLEAN]
    BY DEF Types
  <2>3. /\ Len(received') = Len(received) + 1 /\ Len(received) \in Nat
        /\ \A i \in 1..Len(received) : received'[i] = received[i]
    BY <2>1, <2>2, AppendProperties DEF Types
  <2>. QED
    BY <2>1, <2>3 DEF AwaitedReached
<1>4. CASE PostFails \/ Rejected \/ TimesOut \/ Accepted
  BY <1>4, RequestEnd DEF AwaitedReached
<1>. QED
  BY <1>1, <1>2, <1>3, <1>4 DEF Next, WorkerStep

(* What the endpoint got, as the outbox has it.                             *)
Reached == [i \in 1..Len(received) |-> received[i].alert]
Had(n)  == \E i \in 1..Len(received) : received[i].alert = n

(* What the outbox sees of the sink's queue and of what the endpoint got.   *)
LEMMA PendingAndReached ==
  ASSUME Types
  PROVE  /\ Pending \in Seq(Alerts)
         /\ Len(Pending) = InFlight + Len(queue)
         /\ posting # None => /\ Pending # <<>> /\ Head(Pending) = posting
                              /\ Tail(Pending) = queue
         /\ posting = None => Pending = queue
         /\ \A n : Box!HasReached(n) <=> Had(n)
<1>1. queue \in Seq(Alerts) /\ Len(queue) \in Nat
  BY DEF Types
<1>4. \A n : Box!HasReached(n) <=> Had(n)
  BY DEF Box!HasReached, Had
<1>2. CASE posting # None
  <2>1. posting \in Alerts /\ Pending = <<posting>> \o queue /\ InFlight = 1
    BY <1>2 DEF Types, Pending, InFlight
  <2>2. <<posting>> \in Seq(Alerts) /\ Len(<<posting>>) = 1 /\ <<posting>>[1] = posting
    BY <2>1
  <2>3. /\ Pending \in Seq(Alerts) /\ Len(Pending) = 1 + Len(queue)
        /\ Pending[1] = posting /\ \A i \in 1..Len(queue) : Pending[i + 1] = queue[i]
    BY <1>1, <2>1, <2>2
  <2>4. Pending # <<>> /\ Head(Pending) = posting
    BY <1>1, <2>3
  <2>5. Tail(Pending) = queue
    <3>1. /\ Tail(Pending) \in Seq(Alerts) /\ Len(Tail(Pending)) = Len(queue)
          /\ \A i \in 1..Len(queue) : Tail(Pending)[i] = queue[i]
      BY <1>1, <2>3, <2>4, HeadTailProperties
    <3>. QED
      BY <1>1, <3>1, SeqEqual
  <2>. QED
    BY <1>2, <1>4, <2>1, <2>3, <2>4, <2>5
<1>3. CASE posting = None
  <2>1. Pending = <<>> \o queue /\ InFlight = 0
    BY <1>3 DEF Pending, InFlight
  <2>2. Pending = queue
    BY <1>1, <2>1, ConcatEmptySeq
  <2>. QED
    BY <1>1, <1>3, <1>4, <2>1, <2>2
<1>. QED
  BY <1>2, <1>3

(* An alert that is raised, or an exit, is nothing to the outbox yet.       *)
LEMMA Adds ==
  ASSUME Types, Add \/ Exit \/ UNCHANGED vars
  PROVE  UNCHANGED Box!boxVars
<1>1. Published' = Published
  BY SinkAssumption DEF Add, Exit, vars, Published, Types
<1>2. UNCHANGED <<webhook, posting, queue, received, adrift, counters>>
  BY DEF Add, Exit, vars
<1>. QED
  BY <1>1, <1>2 DEF Box!boxVars, Pending, counters

(* Publish takes the alert or refuses it.                                   *)
LEMMA PublishOffers ==
  ASSUME Types, NilSinkIsIdle, Publish
  PROVE  [Box!BoxNext]_(Box!boxVars)
<1>1. /\ Published' = Published + 1 /\ Published' = raised
      /\ UNCHANGED <<webhook, posting, received, adrift, webhookDelivered, webhookFailures>>
  BY SinkAssumption DEF Publish, Published, Types
<1>2. CASE Enqueue
  <2>1. Pending' = Append(Pending, raised)
    <3>. DEFINE front == IF posting = None THEN <<>> ELSE <<posting>>
    <3>1. front \in Seq(Alerts) /\ queue \in Seq(Alerts) /\ raised \in Alerts
      <4>1. posting # None => posting \in Alerts
        BY DEF Types
      <4>2. queue \in Seq(Alerts) /\ raised \in Alerts
        BY SinkAssumption DEF Types, Alerts, Publish
      <4>. QED
        BY <4>1, <4>2
    <3>2. Append(front \o queue, raised) = front \o Append(queue, raised)
      <4>. HIDE DEF front
      <4>1. /\ Append(queue, raised) = queue \o <<raised>>
            /\ Append(front \o queue, raised) = (front \o queue) \o <<raised>>
        BY <3>1, ConcatProperties, AppendIsConcat
      <4>2. <<raised>> \in Seq(Alerts)
        BY <3>1
      <4>. QED
        BY <3>1, <4>1, <4>2, ConcatAssociative
    <3>3. Pending = front \o queue /\ Pending' = front \o Append(queue, raised)
      BY <1>1, <1>2 DEF Enqueue, Pending
    <3>. QED
      BY <3>2, <3>3
  <2>2. Len(Pending) <= QueueCap
    BY <1>2, PendingAndReached, SinkAssumption DEF Enqueue, InFlight, Types
  <2>3. webhook /\ UNCHANGED webhookDropped
    BY <1>2 DEF Enqueue
  <2>4. Box!Take
    BY <1>1, <2>1, <2>2, <2>3 DEF Box!Take
  <2>. QED
    BY <2>4 DEF Box!BoxNext
<1>3. CASE CountDrop
  <2>1. Len(Pending) >= QueueCap
    BY <1>3, PendingAndReached, SinkAssumption DEF CountDrop, InFlight, Types
  <2>2. webhook /\ webhookDropped' = webhookDropped + 1 /\ Pending' = Pending
    BY <1>1, <1>3 DEF CountDrop, Pending
  <2>3. Box!Refuse
    BY <1>1, <2>1, <2>2 DEF Box!Refuse
  <2>. QED
    BY <2>3 DEF Box!BoxNext
<1>4. CASE NoSink
  BY <1>1, <1>4 DEF NoSink, Box!boxVars, Pending
<1>. QED
  BY <1>2, <1>3, <1>4 DEF Publish

(* The worker's receive moves an alert, and it stays pending.               *)
LEMMA ReceiveMoves ==
  ASSUME Types, Types', Receive
  PROVE  UNCHANGED Box!boxVars
<1>1. /\ posting = None /\ posting' # None /\ posting' = Head(queue) /\ queue' = Tail(queue)
      /\ queue \in Seq(Alerts) /\ queue # <<>>
      /\ UNCHANGED <<webhook, Published, received, adrift, counters>>
  BY DEF Receive, Types, mainState, Published, counters
<1>2. Pending = queue
  BY <1>1, PendingAndReached
<1>3. Pending' = <<Head(queue)>> \o Tail(queue)
  BY <1>1 DEF Pending
<1>4. <<Head(queue)>> \o Tail(queue) = queue
  BY <1>1
<1>. QED
  BY <1>1, <1>2, <1>3, <1>4 DEF Box!boxVars, counters

(* A request that gets through is of an alert that the endpoint has not got. *)
LEMMA ArriveReaches ==
  ASSUME Types, Order, Arrive \/ ArriveLate
  PROVE  Box!BoxNext
<1>1. CASE Arrive
  <2>1. /\ worker = "post" /\ posting # None
        /\ received' = Append(received, [alert |-> posting, late |-> FALSE])
        /\ UNCHANGED <<webhook, Published, Pending, adrift, counters>>
    BY <1>1 DEF Arrive, Types, mainState, Published, Pending, counters
  <2>2. ~Had(posting)
    BY <2>1, Numbers DEF Had, Order, ReceivedFinished, Finished
  <2>3. Reached' = Append(Reached, posting)
    BY <2>1 DEF Reached, Types
  <2>4. Box!Reach
    BY <2>1, <2>2, <2>3, PendingAndReached DEF Box!Reach, Reached, counters
  <2>. QED
    BY <2>4 DEF Box!BoxNext
<1>2. CASE ArriveLate
  <2>1. PICK n \in adrift :
          /\ received' = Append(received, [alert |-> n, late |-> TRUE])
          /\ adrift' = adrift \ {n}
          /\ UNCHANGED <<webhook, Published, Pending, counters>>
    BY <1>2 DEF ArriveLate, mainState, Published, Pending, counters
  <2>2. ~Had(n)
    BY DEF Had, Order, AdriftFinished
  <2>3. Reached' = Append(Reached, n)
    BY <2>1 DEF Reached, Types
  <2>4. Box!ReachLate(n)
    BY <2>1, <2>2, <2>3, PendingAndReached DEF Box!ReachLate, Reached, counters
  <2>. QED
    BY <2>4 DEF Box!BoxNext
<1>. QED
  BY <1>1, <1>2

(* The end of a request ends the oldest alert pending, as delivered only if *)
(* the endpoint has got it.                                                 *)
LEMMA OutcomeEnds ==
  ASSUME Types, Order, AwaitedReached, PostFails \/ Rejected \/ TimesOut \/ Accepted
  PROVE  Box!BoxNext
<1>1. /\ posting # None /\ posting' = None
      /\ UNCHANGED <<webhook, Published, queue, received, webhookDropped>>
  <2>1. UNCHANGED <<webhook, raised, main, queue, received, webhookDropped>>
    BY RequestEnd
  <2>. QED
    BY <2>1, RequestEnd DEF Alerts, None, Published
<1>2. Pending # <<>> /\ Head(Pending) = posting /\ Tail(Pending) = queue
  BY <1>1, PendingAndReached
<1>3. Pending' = Tail(Pending)
  <2>1. queue \in Seq(Alerts)
    BY DEF Types
  <2>2. Pending' = <<>> \o queue
    BY <1>1 DEF Pending
  <2>. QED
    BY <1>2, <2>1, <2>2, ConcatEmptySeq
<1>4. CASE /\ webhookDelivered' = webhookDelivered + 1 /\ worker = "await"
           /\ UNCHANGED <<adrift, webhookFailures>>
  <2>1. Had(posting)
    BY <1>4 DEF AwaitedReached, Had
  <2>2. Box!Deliver
    BY <1>1, <1>2, <1>3, <1>4, <2>1, PendingAndReached DEF Box!Deliver
  <2>. QED
    BY <2>2 DEF Box!BoxNext
<1>5. CASE /\ webhookFailures' = webhookFailures + 1 /\ UNCHANGED webhookDelivered
           /\ UNCHANGED adrift \/ (worker = "post" /\ adrift' = adrift \union {posting})
  <2>1. worker = "post" => ~Had(posting)
    BY <1>1, Numbers DEF Had, Order, ReceivedFinished, Finished
  <2>2. Box!Fail
    BY <1>1, <1>2, <1>3, <1>5, <2>1, PendingAndReached DEF Box!Fail
  <2>. QED
    BY <2>2 DEF Box!BoxNext
<1>. QED
  BY <1>4, <1>5, RequestEnd

(* The webhook implements the outbox, alone and beneath the console: each   *)
(* alert published is taken or refused, and each one taken ends in its turn. *)
THEOREM WebhookIsOutbox == Spec \/ ConsoleSpec => ImplementsOutbox
<1>1. Init => Box!BoxInit /\ AwaitedReached
  BY DEF Init, Box!BoxInit, AwaitedReached, Pending, Published, None
<1>2. Inv /\ AwaitedReached /\ [Next]_vars => AwaitedReached'
  BY AwaitedInductive DEF Inv
<1>3. Inv /\ Inv' /\ AwaitedReached /\ [Next]_vars => [Box!BoxNext]_(Box!boxVars)
  <2>. SUFFICES ASSUME Inv, Inv', AwaitedReached, [Next]_vars
                PROVE  [Box!BoxNext]_(Box!boxVars)
    OBVIOUS
  <2>1. Types /\ Types' /\ NilSinkIsIdle /\ Order
    BY DEF Inv
  <2>2. CASE Add \/ Exit \/ UNCHANGED vars
    BY <2>1, <2>2, Adds
  <2>3. CASE Publish
    BY <2>1, <2>3, PublishOffers
  <2>4. CASE Receive
    BY <2>1, <2>4, ReceiveMoves
  <2>5. CASE Arrive \/ ArriveLate
    BY <2>1, <2>5, ArriveReaches
  <2>6. CASE PostFails \/ Rejected \/ TimesOut \/ Accepted
    BY <2>1, <2>6, OutcomeEnds
  <2>. QED
    BY <2>2, <2>3, <2>4, <2>5, <2>6 DEF Next, WorkerStep
<1>. QED
  BY <1>1, <1>2, <1>3, Invariant, ConsoleKeepsSink, PTL DEF Spec, ImplementsOutbox, Box!BoxSpec
-----------------------------------------------------------------------------
(* What edr_alerts_total counts instead of what is said of it: the label    *)
(* whose rule is a rule's severity and whose severity is the rule has its   *)
(* alerts, and no other label has any.                                      *)
LabelsSwapped ==
  /\ \A r \in Rules : alertsTotal[[rule |-> SeverityOf[r], severity |-> r]] = ofRule[r]
  /\ \A l \in DOMAIN alertsTotal :
       l \notin {[rule |-> SeverityOf[r], severity |-> r] : r \in Rules} => alertsTotal[l] = 0

Labelled ==
  /\ DOMAIN alertsTotal = [rule : LabelValues, severity : LabelValues]
  /\ alertsTotal = [l \in DOMAIN alertsTotal |-> alertsTotal[l]]
  /\ ofRule = [r \in Rules |-> ofRule[r]]
  /\ LabelsSwapped

LEMMA LabelledInductive ==
  ASSUME Labelled, [Next]_vars
  PROVE  Labelled'
<1>1. CASE Add
  <2>1. PICK rule \in Rules :
          /\ alertsTotal' = [alertsTotal EXCEPT ![WithLabelValues(SeverityOf[rule], rule)] = @ + 1]
          /\ ofRule' = [ofRule EXCEPT ![rule] = @ + 1]
    BY <1>1 DEF Add
  <2>. DEFINE label(r) == [rule |-> SeverityOf[r], severity |-> r]
  <2>2. \A r \in Rules : label(r) \in DOMAIN alertsTotal
    BY DEF Labelled, LabelValues
  <2>3. \A r \in Rules : r # rule => label(r) # label(rule)
    OBVIOUS
  <2>4. /\ DOMAIN alertsTotal' = DOMAIN alertsTotal
        /\ alertsTotal'[label(rule)] = alertsTotal[label(rule)] + 1
        /\ \A l \in DOMAIN alertsTotal : l # label(rule) => alertsTotal'[l] = alertsTotal[l]
    BY <2>1, <2>2 DEF WithLabelValues, Labelled
  <2>5. /\ alertsTotal' = [l \in DOMAIN alertsTotal' |-> alertsTotal'[l]]
        /\ ofRule' = [r \in Rules |-> ofRule'[r]]
        /\ ofRule'[rule] = ofRule[rule] + 1
        /\ \A r \in Rules : r # rule => ofRule'[r] = ofRule[r]
    BY <2>1 DEF Labelled
  <2>6. ASSUME NEW r \in Rules PROVE alertsTotal'[label(r)] = ofRule'[r]
    BY <2>2, <2>3, <2>4, <2>5 DEF Labelled, LabelsSwapped
  <2>7. ASSUME NEW l \in DOMAIN alertsTotal', l \notin {label(r) : r \in Rules}
        PROVE  alertsTotal'[l] = 0
    BY <2>4, <2>7 DEF Labelled, LabelsSwapped
  <2>. QED
    BY <2>4, <2>5, <2>6, <2>7 DEF Labelled, LabelsSwapped
<1>2. UNCHANGED storeVars => Labelled'
  BY DEF Labelled, LabelsSwapped, storeVars
<1>. QED
  BY <1>1, <1>2 DEF Next, WorkerStep, Publish, Receive, Arrive, ArriveLate, PostFails, Rejected,
    TimesOut, Accepted, Fails, Done, Exit, mainState, vars

(* AlertStore.Add gives WithLabelValues the severity first: every alert is  *)
(* counted, once, with its severity for its rule and the other way round.   *)
THEOREM MetricSwapsLabels == Spec \/ ConsoleSpec => []LabelsSwapped
<1>1. Init => Labelled
  BY DEF Init, Labelled, LabelsSwapped, LabelValues
<1>2. Labelled /\ [Next]_vars => Labelled'
  BY LabelledInductive
<1>3. Labelled => LabelsSwapped
  BY DEF Labelled
<1>. QED
  BY <1>1, <1>2, <1>3, ConsoleKeepsSink, PTL DEF Spec

-----------------------------------------------------------------------------
(* The dashboard                                                            *)

(* What the console shows, and what is on its way to it, is the history as  *)
(* it was at some time: never a list with parts of two.                     *)
PastLists == {Newest(n) : n \in 0..raised}
Responses == [served : BOOLEAN, list : PastLists]

ShownWasTheHistory == shown \in PastLists /\ requests \in Seq(Responses)

LEMMA RaisedGrows == Types /\ [Next]_vars => raised' \in {raised, raised + 1}
BY DEF Next, vars, Add, Publish, WorkerStep, Receive, Arrive, ArriveLate, PostFails, Rejected,
       TimesOut, Accepted, Fails, Done, Exit, mainState

LEMMA ShownKept ==
  ASSUME Types, ShownWasTheHistory, [Next]_vars, UNCHANGED <<requests, shown>>
  PROVE  ShownWasTheHistory'
<1>1. PastLists \subseteq PastLists'
  BY RaisedGrows, SinkAssumption DEF Types, PastLists
<1>2. Responses \subseteq Responses'
  BY <1>1 DEF Responses
<1>. QED
  BY <1>1, <1>2 DEF ShownWasTheHistory

LEMMA ShownStep ==
  ASSUME Types, StoreKeepsNewest, ShownWasTheHistory, [ConsoleNext]_allVars
  PROVE  ShownWasTheHistory'
<1>1. CASE [Next]_vars /\ UNCHANGED <<requests, shown>>
  BY <1>1, ShownKept
<1>2. CASE Poll
  <2>1. PastLists' = PastLists /\ Responses' = Responses
    BY <1>2 DEF Poll, vars, PastLists, Responses
  <2>2. alerts \in PastLists /\ running \in BOOLEAN
    BY SinkAssumption DEF Types, StoreKeepsNewest, PastLists, Newest
  <2>3. requests' \in Seq(Responses)
    BY <1>2, <2>2, AppendProperties DEF Poll, Snapshot, ShownWasTheHistory, Responses
  <2>. QED
    BY <1>2, <2>1, <2>3 DEF Poll, ShownWasTheHistory
<1>3. ASSUME NEW i \in 1..Len(requests), Answered(i) \/ RequestFails(i)
      PROVE  ShownWasTheHistory'
  <2>1. PastLists' = PastLists /\ Responses' = Responses
    BY <1>3 DEF Answered, RequestFails, vars, PastLists, Responses
  <2>2. requests \in Seq(Responses) /\ Len(requests) \in Nat /\ requests[i] \in Responses
    BY DEF ShownWasTheHistory
  <2>3. SubSeq(requests, 1, i - 1) \in Seq(Responses)
    BY <2>2, SubSeqProperties
  <2>4. SubSeq(requests, i + 1, Len(requests)) \in Seq(Responses)
    BY <2>2, SubSeqProperties
  <2>5. requests' \in Seq(Responses)
    BY <1>3, <2>3, <2>4, ConcatProperties DEF Answered, RequestFails, Ended
  <2>6. shown' \in PastLists
    BY <1>3, <2>2 DEF Answered, RequestFails, ShownWasTheHistory, Responses
  <2>. QED
    BY <2>1, <2>5, <2>6 DEF ShownWasTheHistory
<1>4. CASE UNCHANGED allVars
  BY <1>1, <1>4 DEF allVars, consoleVars
<1>. QED
  BY <1>1, <1>2, <1>3, <1>4 DEF ConsoleNext, RequestEnds, consoleVars

(* AlertStore.Snapshot copies under the mutex and the dashboard replaces    *)
(* its list as a whole: whatever requests overlap, fail or overtake each    *)
(* other while alerts come in, it shows the newest StoreCap alerts of some  *)
(* moment, in order.                                                        *)
THEOREM ConsoleShowsHistory == ConsoleSpec => []ShownWasTheHistory
<1>1. ConsoleInit => ShownWasTheHistory
  <2>. SUFFICES ASSUME ConsoleInit PROVE ShownWasTheHistory
    OBVIOUS
  <2>1. raised = 0 /\ shown = <<>> /\ requests = <<>>
    BY DEF ConsoleInit, Init
  <2>2. Newest(0) = <<>>
    BY SinkAssumption DEF Newest
  <2>. QED
    BY <2>1, <2>2 DEF ShownWasTheHistory, PastLists
<1>2. Inv /\ ShownWasTheHistory /\ [ConsoleNext]_allVars => ShownWasTheHistory'
  BY ShownStep DEF Inv
<1>. QED
  BY <1>1, <1>2, Invariant, PTL DEF ConsoleSpec

=============================================================================
