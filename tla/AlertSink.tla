----------------------------- MODULE AlertSink ------------------------------
(***************************************************************************)
(* What becomes of an alert: main.go's onAlert, called by the detector in  *)
(* the main goroutine, puts it in the history behind /api/alerts           *)
(* (store.go) and hands it to the webhook (webhook.go), whose own          *)
(* goroutine posts one alert after another to an endpoint outside.         *)
(*                                                                         *)
(* Alerts are numbered in the order they are raised.  A request can fail   *)
(* before the endpoint has the alert, and after; one the client gave up on *)
(* can still arrive; none is repeated.  An interrupt ends the process      *)
(* wherever it is.                                                         *)
(***************************************************************************)
EXTENDS Integers, Sequences

CONSTANTS
  Rules,      \* the rules that raise alerts, of those in SeverityOf
  StoreCap,   \* 500 in main
  QueueCap,   \* 256 in NewWebhookSink
  MaxAlerts   \* bound on the alerts raised

ASSUME SinkAssumption ==
  /\ Rules # {}
  /\ StoreCap \in Nat \ {0} /\ QueueCap \in Nat \ {0} /\ MaxAlerts \in Nat

(* One rule of each severity that detect.go uses. *)
SeverityOf == [r \in {"reverse-shell-pattern", "self-delete", "sensitive-file-access"} |->
                 CASE r = "reverse-shell-pattern" -> "Critical"
                   [] r = "self-delete" -> "High"
                   [] r = "sensitive-file-access" -> "Medium"]

(* A label of edr_alerts_total, as metrics.go declares it, is a rule and a  *)
(* severity; WithLabelValues gives the names their values in that order.    *)
LabelValues == Rules \union {SeverityOf[r] : r \in Rules}
WithLabelValues(first, second) == [rule |-> first, severity |-> second]

Alerts == 1..MaxAlerts
None   == 0

VARIABLES
  webhook,   \* EDR_WEBHOOK_URL is set: the sink is not nil
  running,
  raised,    \* the number of the last alert raised
  main,      \* "handling", or "publishing" the last alert once it is stored
  alerts,    \* AlertStore.alerts
  alertsTotal, \* edr_alerts_total, by label
  ofRule,    \* ofRule[r]: the alerts of rule r (history)
  queue,     \* WebhookSink.queue
  worker,    \* "receive", "post" (request not yet out), "await" (response)
  posting,   \* the worker's alert, or None
  adrift,    \* alerts the client gave up on before the endpoint had them
  received,  \* what the endpoint has got, and whether the client had given up
  webhookDelivered, webhookFailures, webhookDropped

counters == <<webhookDelivered, webhookFailures, webhookDropped>>
storeVars == <<alerts, alertsTotal, ofRule>>
vars == <<webhook, running, raised, main, storeVars, queue, worker, posting, adrift, received, counters>>

Init ==
  /\ webhook \in BOOLEAN
  /\ running = TRUE
  /\ raised = 0 /\ main = "handling"
  /\ alerts = <<>>
  /\ alertsTotal = [l \in [rule : LabelValues, severity : LabelValues] |-> 0]
  /\ ofRule = [r \in Rules |-> 0]
  /\ queue = <<>>
  /\ worker = "receive" /\ posting = None
  /\ adrift = {} /\ received = <<>>
  /\ webhookDelivered = 0 /\ webhookFailures = 0 /\ webhookDropped = 0

-----------------------------------------------------------------------------
(* The main goroutine *)

(* Slip: a full store is trimmed after the append, by the newest.           *)
Kept_oldest(s) == IF Len(s) > StoreCap THEN SubSeq(s, 1, StoreCap) ELSE s
Kept(s)        == IF Len(s) > StoreCap THEN Tail(s) ELSE s

(* AlertStore.Add, the first thing onAlert does. *)
Add ==
  /\ running
  /\ main = "handling"
  /\ raised < MaxAlerts
  /\ raised' = raised + 1
  /\ alerts' = Kept(Append(alerts, raised + 1))
  /\ \E rule \in Rules :
       /\ alertsTotal' = [alertsTotal EXCEPT ![WithLabelValues(SeverityOf[rule], rule)] = @ + 1]
       /\ ofRule' = [ofRule EXCEPT ![rule] = @ + 1]
  /\ main' = "publishing"
  /\ UNCHANGED <<webhook, running, queue, worker, posting, adrift, received, counters>>

(* Slip: the queue takes one more than it holds.                            *)
Enqueue_unbounded ==
  /\ webhook /\ Len(queue) <= QueueCap
  /\ queue' = Append(queue, raised)
  /\ UNCHANGED webhookDropped

Enqueue ==
  /\ webhook
  /\ Len(queue) < QueueCap
  /\ queue' = Append(queue, raised)
  /\ UNCHANGED webhookDropped

(* Slip: room is made for the newest, and nobody counts the oldest.         *)
CountDrop_displaces ==
  /\ webhook /\ Len(queue) = QueueCap
  /\ queue' = Append(Tail(queue), raised)
  /\ UNCHANGED webhookDropped

(* Slip: the oldest makes room for the newest, and is counted.              *)
CountDrop_makes_room ==
  /\ webhook /\ Len(queue) = QueueCap
  /\ queue' = Append(Tail(queue), raised)
  /\ webhookDropped' = webhookDropped + 1

CountDrop ==
  /\ webhook
  /\ Len(queue) = QueueCap
  /\ webhookDropped' = webhookDropped + 1
  /\ UNCHANGED queue

(* A nil sink: no webhook is configured. *)
NoSink == ~webhook /\ UNCHANGED <<queue, webhookDropped>>

(* Slip: the send waits for room.                                           *)
Publish_waiting ==
  /\ running /\ main = "publishing"
  /\ Enqueue \/ NoSink
  /\ main' = "handling"
  /\ UNCHANGED <<webhook, running, raised, storeVars, worker, posting, adrift, received,
                 webhookDelivered, webhookFailures>>

Publish ==
  /\ running
  /\ main = "publishing"
  /\ Enqueue \/ CountDrop \/ NoSink
  /\ main' = "handling"
  /\ UNCHANGED <<webhook, running, raised, storeVars, worker, posting, adrift, received,
                 webhookDelivered, webhookFailures>>

-----------------------------------------------------------------------------
(* The webhook's goroutine and the endpoint *)

mainState == <<webhook, running, raised, main, storeVars>>

Receive ==
  /\ running
  /\ webhook
  /\ worker = "receive"
  /\ queue # <<>>
  /\ posting' = Head(queue)
  /\ queue' = Tail(queue)
  /\ worker' = "post"
  /\ UNCHANGED <<mainState, adrift, received, counters>>

(* The endpoint gets the request. *)
Arrive ==
  /\ running
  /\ worker = "post"
  /\ received' = Append(received, [alert |-> posting, late |-> FALSE])
  /\ worker' = "await"
  /\ UNCHANGED <<mainState, queue, posting, adrift, counters>>

(* Bytes the client had sent before it gave up, and closed the connection,  *)
(* reach the endpoint, which may have newer alerts by then.                 *)
ArriveLate ==
  \E n \in adrift :
    /\ received' = Append(received, [alert |-> n, late |-> TRUE])
    /\ adrift' = adrift \ {n}
    /\ UNCHANGED <<mainState, queue, worker, posting, counters>>

Done ==
  /\ posting' = None
  /\ worker' = "receive"
  /\ UNCHANGED <<mainState, queue, received, webhookDropped>>

Fails ==
  /\ webhookFailures' = webhookFailures + 1
  /\ UNCHANGED webhookDelivered
  /\ Done

(* Marshalling, the request's URL or the connection. *)
PostFails == running /\ worker = "post" /\ Fails /\ UNCHANGED adrift

(* A response outside 200..299, or one that breaks off. *)
Rejected == running /\ worker = "await" /\ Fails /\ UNCHANGED adrift

(* The client's 5 seconds are over, before or after the endpoint has it.    *)
(* Slips: a client without a timeout; one that posts once more.             *)
TimesOut_never == running /\ worker = "none" /\ Fails /\ UNCHANGED adrift
TimesOut_retries ==
  /\ running /\ worker \in {"post", "await"}
  /\ worker' = "post"
  /\ UNCHANGED <<mainState, queue, posting, adrift, received, counters>>
TimesOut ==
  /\ running
  /\ worker \in {"post", "await"}
  /\ adrift' = IF worker = "post" THEN adrift \union {posting} ELSE adrift
  /\ Fails

(* Slip: success is counted as the request is made.                         *)
Accepted_early ==
  /\ running /\ worker \in {"post", "await"}
  /\ webhookDelivered' = webhookDelivered + 1
  /\ UNCHANGED <<adrift, webhookFailures>>
  /\ Done

Accepted ==
  /\ running
  /\ worker = "await"
  /\ webhookDelivered' = webhookDelivered + 1
  /\ UNCHANGED <<adrift, webhookFailures>>
  /\ Done

-----------------------------------------------------------------------------
(* SIGINT, SIGTERM: os.Exit(0), whatever the goroutines are at. *)
Exit ==
  /\ running
  /\ running' = FALSE
  /\ UNCHANGED <<webhook, raised, main, storeVars, queue, worker, posting, adrift, received, counters>>

WorkerStep == Receive \/ Arrive \/ PostFails \/ Rejected \/ TimesOut \/ Accepted

Next == Add \/ Publish \/ WorkerStep \/ ArriveLate \/ Exit

(* Goroutines run.  Of a request only its end is certain, by the client's   *)
(* timeout; that the endpoint gets it, or answers, is not.                  *)
Spec ==
  Init /\ [][Next]_vars /\ WF_vars(Publish) /\ WF_vars(Receive) /\ WF_vars(TimesOut)

-----------------------------------------------------------------------------
(* Properties *)

InFlight  == IF posting = None THEN 0 ELSE 1
Published == raised - (IF main = "publishing" THEN 1 ELSE 0)

(* Types; an alert is in the worker's hands exactly while it posts.         *)
TypeOK ==
  /\ webhook \in BOOLEAN /\ running \in BOOLEAN /\ raised \in 0..MaxAlerts
  /\ main \in {"handling", "publishing"} /\ worker \in {"receive", "post", "await"}
  /\ queue \in Seq(Alerts) /\ Len(queue) <= QueueCap
  /\ posting \in Alerts \union {None} /\ (posting = None <=> worker = "receive")
  /\ adrift \subseteq Alerts /\ received \in Seq([alert : Alerts, late : BOOLEAN])
  /\ \A l \in DOMAIN alertsTotal : alertsTotal[l] \in 0..MaxAlerts
  /\ ofRule \in [Rules -> 0..MaxAlerts]
  /\ \A n \in {webhookDelivered, webhookFailures, webhookDropped} : n \in 0..MaxAlerts

(* The history is the newest StoreCap alerts, oldest first.                 *)
StoreKeepsNewest ==
  LET kept == IF raised < StoreCap THEN raised ELSE StoreCap
  IN  alerts = [i \in 1..kept |-> raised - kept + i]

(* The metrics account for every alert published: it was delivered, failed  *)
(* or was dropped, or it is still queued or being posted.                   *)
EveryAlertAccounted ==
  webhook =>
    webhookDelivered + webhookFailures + webhookDropped + Len(queue) + InFlight = Published

(* The endpoint sees no alert twice, although posts time out after it got   *)
(* them, and sees them in the order they were raised, but for those that    *)
(* arrive after the client gave up on them.                                 *)
EndpointSeesEachOnceInOrder ==
  \A i, j \in 1..Len(received) : i < j =>
    /\ received[i].alert # received[j].alert
    /\ received[i].alert < received[j].alert \/ received[i].late \/ received[j].late

(* edr_webhook_delivered_total never counts an alert the endpoint has not   *)
(* got: what it got and was not counted has failed or awaits its answer.    *)
DeliveredWasReceived ==
  /\ webhookDelivered <= Len(received)
  /\ Len(received) <= webhookDelivered + webhookFailures + InFlight

(* The webhook implements the outbox: the alerts pending there are the one  *)
(* in the worker's hands and the queue behind it.  Not only the numbers,    *)
(* but each alert is accounted for: what is counted as delivered is the     *)
(* oldest alert pending, and the endpoint has got that one; what is dropped *)
(* is the alert just raised; and no outcome is ever taken back.             *)
Pending == (IF posting = None THEN <<>> ELSE <<posting>>) \o queue
Box == INSTANCE Outbox
         WITH Capacity <- QueueCap, offered <- IF webhook THEN Published ELSE 0,
              pending <- Pending, reached <- [i \in 1..Len(received) |-> received[i].alert],
              straying <- adrift, delivered <- webhookDelivered,
              failed <- webhookFailures, refused <- webhookDropped
ImplementsOutbox == Box!BoxSpec

(* CONFIGURATION.md: a full queue drops "rather than blocking the kernel    *)
(* event-processing loop": wherever the worker and the endpoint are, the    *)
(* main goroutine can finish with the alert it raised.                      *)
MainNeverBlocked == running /\ main = "publishing" => ENABLED Publish

(* metrics.go, edr_alerts_total: "Total detections fired, by rule and       *)
(* severity."  The detections of a rule are counted under its label.        *)
CountedByRule ==
  \A r \in Rules : alertsTotal[[rule |-> r, severity |-> SeverityOf[r]]] = ofRule[r]

(* Every queued alert leaves for the endpoint or is counted as failed, in   *)
(* its turn, even if the endpoint never answers; unless the process exits.  *)
QueuedIsPosted ==
  \A n \in Alerts :
    n \in {queue[i] : i \in 1..Len(queue)} \/ posting = n
      ~> ~running \/ (n \notin {queue[i] : i \in 1..Len(queue)} /\ posting # n)
=============================================================================
