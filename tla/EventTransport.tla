--------------------------- MODULE EventTransport ---------------------------
(***************************************************************************)
(* The path of a security event from a BPF program to the detector:        *)
(*                                                                         *)
(*   submit_event / emit  ->  ring buffer  ->  readLoop (one goroutine per *)
(*   ring)  ->  LoadedProbes.events  ->  the main loop, which handles it,  *)
(*                                                                         *)
(* together with the drop counter the kernel keeps, the goroutine that     *)
(* exports it every two seconds, and the shutdown a signal starts.         *)
(*                                                                         *)
(* An event is identified by the ring it was reserved in and its place     *)
(* among that ring's reservations, <<r, n>>; its contents do not matter    *)
(* here.  A ring stores records of one size, so RingCap counts records.    *)
(* parseEvent fails only on a sample shorter than 512 bytes, which no      *)
(* program submits, so readLoop's `continue` is not an action.             *)
(***************************************************************************)
EXTENDS Integers, Sequences

CONSTANTS
  XdpEnabled, \* EDR_XDP_INTERFACE is set: there is a second ring and reader
  RingCap,    \* records a ring buffer holds
  ChanCap,    \* capacity of the events channel
  MaxMain,    \* bound: reservation attempts in the main ring
  MaxXdp      \* bound: reservation attempts in the XDP ring

ASSUME TransportAssumption ==
  /\ XdpEnabled \in BOOLEAN
  /\ RingCap \in Nat \ {0}
  /\ ChanCap \in Nat \ {0}
  /\ MaxMain \in Nat /\ MaxXdp \in Nat

MainRing == "events"
XdpRing  == "xdp_events"
Rings    == IF XdpEnabled THEN {MainRing, XdpRing} ELSE {MainRing}

MaxEvents(r) == IF r = MainRing THEN MaxMain ELSE MaxXdp

VARIABLES
  ring,        \* ring[r]: numbers of the records in ring r, oldest first
  writing,     \* writing[r]: those reserved and not submitted yet
  reserved,    \* reserved[r]: successful reservations so far
  lost,        \* lost[r]: failed reservations so far (history)
  drops,       \* the ringbuf_drops map
  tickPc,      \* the metrics goroutine: "idle" or "add"
  observed,    \* the value its Lookup returned
  lastDrops,   \* LoadedProbes.lastDrops
  ringbufLoss, \* edr_ringbuf_lost_total
  readerPc,    \* readerPc[r]: "read", "send" or "stopped"
  readerEv,    \* readerEv[r]: the record it sends
  events,      \* LoadedProbes.events
  mainPc,      \* the main loop: "read" or "handle"
  mainEv,      \* the event it handles
  handled,     \* handled[r]: records of r passed to the detector (history)
  closer,      \* the signal goroutine: how far shutdown has come
  closed       \* the ring readers that are closed

kernelVars  == <<ring, writing, reserved, lost, drops>>
metricVars  == <<tickPc, observed, lastDrops, ringbufLoss>>
readerVars  == <<readerPc, readerEv>>
mainVars    == <<mainPc, mainEv, handled>>
closeVars   == <<closer, closed>>
vars == <<kernelVars, metricVars, readerVars, events, mainVars, closeVars>>

Events == [ring : Rings, n : Nat]

(* lp.done is closed as the first step of Close. *)
Done   == closer # "running"
Exited == closer = "exited"

Init ==
  /\ ring = [r \in Rings |-> <<>>]
  /\ writing = [r \in Rings |-> {}]
  /\ reserved = [r \in Rings |-> 0]
  /\ lost = [r \in Rings |-> 0]
  /\ drops = 0
  /\ tickPc = "idle" /\ observed = 0 /\ lastDrops = 0 /\ ringbufLoss = 0
  /\ readerPc = [r \in Rings |-> "read"]
  /\ readerEv = [r \in Rings |-> 0]
  /\ events = <<>>
  /\ mainPc = "read" /\ mainEv = [ring |-> MainRing, n |-> 0]
  /\ handled = [r \in Rings |-> <<>>]
  /\ closer = "running" /\ closed = {}

-----------------------------------------------------------------------------
(* BPF side.  Programs on several CPUs reserve and submit concurrently; the *)
(* ring keeps reservation order.  Programs run until the links are closed.  *)

HookMayRun(r) ==
  /\ closer \in {"running", "closing"}
  /\ reserved[r] + lost[r] < MaxEvents(r)

(* bpf_ringbuf_reserve succeeds. *)
Reserve(r) ==
  /\ HookMayRun(r)
  /\ Len(ring[r]) < RingCap
  /\ reserved' = [reserved EXCEPT ![r] = @ + 1]
  /\ ring' = [ring EXCEPT ![r] = Append(@, reserved[r] + 1)]
  /\ writing' = [writing EXCEPT ![r] = @ \union {reserved[r] + 1}]
  /\ UNCHANGED <<lost, drops, metricVars, readerVars, events, mainVars, closeVars>>

(* What a failed reservation in ring r adds to the drop counter: the        *)
(* submit_event of monitor.bpf.c counts it, the emit of xdp.bpf.c returns.  *)
CountedDrop(r) == IF r = MainRing THEN 1 ELSE 0

(* bpf_ringbuf_reserve finds the ring full. *)
ReserveFails(r) ==
  /\ HookMayRun(r)
  /\ Len(ring[r]) = RingCap
  /\ lost' = [lost EXCEPT ![r] = @ + 1]
  /\ drops' = drops + CountedDrop(r)
  /\ UNCHANGED <<ring, writing, reserved, metricVars, readerVars, events, mainVars, closeVars>>

(* The record is copied and submitted. *)
Submit(r, n) ==
  /\ ~Exited
  /\ n \in writing[r]
  /\ writing' = [writing EXCEPT ![r] = @ \ {n}]
  /\ UNCHANGED <<ring, reserved, lost, drops, metricVars, readerVars, events, mainVars, closeVars>>

-----------------------------------------------------------------------------
(* readLoop *)

(* Slips to test the properties with: reading a record that is not          *)
(* submitted, and taking the youngest record.                               *)
ReadableUnsubmitted(r) == ring[r] # <<>>

ReaderReadYoungest(r) ==
  /\ ~Exited /\ readerPc[r] = "read" /\ r \notin closed /\ ring[r] # <<>>
  /\ LET last == ring[r][Len(ring[r])] IN
       /\ last \notin writing[r]
       /\ readerEv' = [readerEv EXCEPT ![r] = last]
  /\ readerPc' = [readerPc EXCEPT ![r] = "send"]
  /\ ring' = [ring EXCEPT ![r] = SubSeq(@, 1, Len(@) - 1)]
  /\ UNCHANGED <<writing, reserved, lost, drops, metricVars, events, mainVars, closeVars>>

(* The record rd.Read returns next: the oldest one, once it is submitted. *)
Readable(r) ==
  /\ ring[r] # <<>>
  /\ Head(ring[r]) \notin writing[r]

ReaderRead(r) ==
  /\ ~Exited
  /\ readerPc[r] = "read"
  /\ r \notin closed
  /\ Readable(r)
  /\ readerPc' = [readerPc EXCEPT ![r] = "send"]
  /\ readerEv' = [readerEv EXCEPT ![r] = Head(ring[r])]
  /\ ring' = [ring EXCEPT ![r] = Tail(@)]
  /\ UNCHANGED <<writing, reserved, lost, drops, metricVars, events, mainVars, closeVars>>

(* rd.Read returns ErrClosed: the goroutine ends. *)
ReaderClosed(r) ==
  /\ ~Exited
  /\ readerPc[r] = "read"
  /\ r \in closed
  /\ readerPc' = [readerPc EXCEPT ![r] = "stopped"]
  /\ UNCHANGED <<kernelVars, metricVars, readerEv, events, mainVars, closeVars>>

(* Slips: sending into an unbounded queue, a select with a default branch   *)
(* that drops the event, one that ends the goroutine, sending again.        *)
ReaderSendUnbounded(r) ==
  /\ ~Exited /\ readerPc[r] = "send"
  /\ events' = Append(events, [ring |-> r, n |-> readerEv[r]])
  /\ readerPc' = [readerPc EXCEPT ![r] = "read"]
  /\ UNCHANGED <<kernelVars, metricVars, readerEv, mainVars, closeVars>>

ReaderSendOrDrop(r) ==
  /\ ~Exited /\ readerPc[r] = "send"
  /\ events' = IF Len(events) < ChanCap
                 THEN Append(events, [ring |-> r, n |-> readerEv[r]]) ELSE events
  /\ readerPc' = [readerPc EXCEPT ![r] = "read"]
  /\ UNCHANGED <<kernelVars, metricVars, readerEv, mainVars, closeVars>>

ReaderDoneWhenFull(r) ==
  /\ ~Exited /\ readerPc[r] = "send"
  /\ Done \/ Len(events) = ChanCap
  /\ readerPc' = [readerPc EXCEPT ![r] = "stopped"]
  /\ UNCHANGED <<kernelVars, metricVars, readerEv, events, mainVars, closeVars>>

ReaderSendAgain(r) ==
  /\ ~Exited /\ readerPc[r] = "send" /\ Len(events) < ChanCap
  /\ events' = Append(events, [ring |-> r, n |-> readerEv[r]])
  /\ UNCHANGED <<kernelVars, metricVars, readerVars, mainVars, closeVars>>

(* select: the channel takes the event ... *)
ReaderSend(r) ==
  /\ ~Exited
  /\ readerPc[r] = "send"
  /\ Len(events) < ChanCap
  /\ events' = Append(events, [ring |-> r, n |-> readerEv[r]])
  /\ readerPc' = [readerPc EXCEPT ![r] = "read"]
  /\ UNCHANGED <<kernelVars, metricVars, readerEv, mainVars, closeVars>>

(* ... or done is closed, and the event the goroutine holds is given up. *)
ReaderDone(r) ==
  /\ ~Exited
  /\ readerPc[r] = "send"
  /\ Done
  /\ readerPc' = [readerPc EXCEPT ![r] = "stopped"]
  /\ UNCHANGED <<kernelVars, metricVars, readerEv, events, mainVars, closeVars>>

-----------------------------------------------------------------------------
(* The main loop *)

MainRead ==
  /\ ~Exited
  /\ mainPc = "read"
  /\ events # <<>>
  /\ mainEv' = Head(events)
  /\ events' = Tail(events)
  /\ mainPc' = "handle"
  /\ UNCHANGED <<kernelVars, metricVars, readerVars, handled, closeVars>>

(* Slip: an event that is handled again. *)
MainHandleRetried ==
  /\ ~Exited /\ mainPc = "handle"
  /\ handled' = [handled EXCEPT ![mainEv.ring] = Append(@, mainEv.n)]
  /\ mainPc' \in {"read", "handle"}
  /\ UNCHANGED <<kernelVars, metricVars, readerVars, events, mainEv, closeVars>>

(* networkStore.Add, eventsTotal and detector.Handle. *)
MainHandle ==
  /\ ~Exited
  /\ mainPc = "handle"
  /\ handled' = [handled EXCEPT ![mainEv.ring] = Append(@, mainEv.n)]
  /\ mainPc' = "read"
  /\ UNCHANGED <<kernelVars, metricVars, readerVars, events, mainEv, closeVars>>

-----------------------------------------------------------------------------
(* ObserveRingbufDrops, called from the two-second ticker.  The lookup and  *)
(* the update are two steps: BPF programs count drops between them.         *)

TickLookup ==
  /\ closer \in {"running", "closing", "unlinking"}
  /\ tickPc = "idle"
  /\ drops > lastDrops
  /\ observed' = drops
  /\ tickPc' = "add"
  /\ UNCHANGED <<kernelVars, lastDrops, ringbufLoss, readerVars, events, mainVars, closeVars>>

(* Slips: the counter is read again for the sum, or for the mark.           *)
TickAddReread ==
  /\ ~Exited /\ tickPc = "add"
  /\ ringbufLoss' = ringbufLoss + (drops - lastDrops)
  /\ lastDrops' = observed
  /\ tickPc' = "idle"
  /\ UNCHANGED <<kernelVars, observed, readerVars, events, mainVars, closeVars>>

TickAddMarksLate ==
  /\ ~Exited /\ tickPc = "add"
  /\ ringbufLoss' = ringbufLoss + (observed - lastDrops)
  /\ lastDrops' = drops
  /\ tickPc' = "idle"
  /\ UNCHANGED <<kernelVars, observed, readerVars, events, mainVars, closeVars>>

TickAdd ==
  /\ ~Exited
  /\ tickPc = "add"
  /\ ringbufLoss' = ringbufLoss + (observed - lastDrops)
  /\ lastDrops' = observed
  /\ tickPc' = "idle"
  /\ UNCHANGED <<kernelVars, observed, readerVars, events, mainVars, closeVars>>

-----------------------------------------------------------------------------
(* Shutdown: LoadedProbes.Close, then os.Exit. *)

(* SIGINT or SIGTERM arrives; Close closes lp.done. *)
Signal ==
  /\ closer = "running"
  /\ closer' = "closing"
  /\ UNCHANGED <<kernelVars, metricVars, readerVars, events, mainVars, closed>>

(* Slip: Close waits for the readLoop goroutine before it closes its reader. *)
CloseReaderAfterLoop(r) ==
  /\ closer = "closing" /\ r \notin closed /\ readerPc[r] = "stopped"
  /\ r = XdpRing => MainRing \in closed
  /\ closed' = closed \union {r}
  /\ UNCHANGED <<kernelVars, metricVars, readerVars, events, mainVars, closer>>

(* rd.Close() for the readers, in the order they were opened. *)
CloseReader(r) ==
  /\ closer = "closing"
  /\ r \notin closed
  /\ r = XdpRing => MainRing \in closed
  /\ closed' = closed \union {r}
  /\ UNCHANGED <<kernelVars, metricVars, readerVars, events, mainVars, closer>>

(* The links are closed: no program starts any more. *)
CloseLinks ==
  /\ closer = "closing"
  /\ closed = Rings
  /\ closer' = "unlinking"
  /\ UNCHANGED <<kernelVars, metricVars, readerVars, events, mainVars, closed>>

(* The collections are closed: a Lookup fails from here on. *)
CloseCollections ==
  /\ closer = "unlinking"
  /\ closer' = "unloaded"
  /\ UNCHANGED <<kernelVars, metricVars, readerVars, events, mainVars, closed>>

Exit ==
  /\ closer = "unloaded"
  /\ closer' = "exited"
  /\ UNCHANGED <<kernelVars, metricVars, readerVars, events, mainVars, closed>>

(* After os.Exit(0) nothing happens. *)
Terminated == Exited /\ UNCHANGED vars

-----------------------------------------------------------------------------
Submitting(r) == \E n \in writing[r] : Submit(r, n)
Reading(r)    == ReaderRead(r) \/ ReaderClosed(r)
Sending(r)    == ReaderSend(r) \/ ReaderDone(r)
Observing     == TickLookup \/ TickAdd
Closing       == (\E r \in Rings : CloseReader(r)) \/ CloseLinks \/ CloseCollections \/ Exit

Next ==
  \/ \E r \in Rings : Reserve(r) \/ ReserveFails(r) \/ Submitting(r) \/ Reading(r) \/ Sending(r)
  \/ MainRead \/ MainHandle
  \/ Observing
  \/ Signal \/ Closing
  \/ Terminated

(* A BPF program that has reserved a record always submits it (the verifier *)
(* bounds its run), goroutines are scheduled, the ticker keeps firing and   *)
(* Close does not block.  A full channel re-enables a sender each time main *)
(* takes from it, and the Go runtime queues blocked senders first in first  *)
(* out: strong fairness for a send.  Nothing forces a signal or an event.   *)
Fairness ==
  /\ \A r \in Rings :
       /\ WF_vars(Submitting(r)) /\ WF_vars(Reading(r))
       /\ SF_vars(Sending(r))
  /\ WF_vars(MainRead) /\ WF_vars(MainHandle)
  /\ WF_vars(Observing)
  /\ WF_vars(Closing)

Spec     == Init /\ [][Next]_vars
FairSpec == Spec /\ Fairness

-----------------------------------------------------------------------------
(* Properties *)

SeqSet(s) == {s[i] : i \in DOMAIN s}

(* The numbers of the events of ring r in a queue of events. *)
OfRing(q, r) == {q[i].n : i \in {j \in DOMAIN q : q[j].ring = r}}

(* Where the records of ring r are between the reservation and main. *)
InReader(r)  == IF readerPc[r] = "send" THEN {readerEv[r]} ELSE {}
InChannel(r) == OfRing(events, r)
InMain(r)    == IF mainPc = "handle" /\ mainEv.ring = r THEN {mainEv.n} ELSE {}

(* Every variable has its type; queues stay within their capacities. *)
TypeOK ==
  /\ ring \in [Rings -> Seq(Nat)]
  /\ \A r \in Rings : Len(ring[r]) <= RingCap
  /\ writing \in [Rings -> SUBSET Nat]
  /\ reserved \in [Rings -> Nat] /\ lost \in [Rings -> Nat] /\ drops \in Nat
  /\ tickPc \in {"idle", "add"}
  /\ observed \in Nat /\ lastDrops \in Nat /\ ringbufLoss \in Nat
  /\ readerPc \in [Rings -> {"read", "send", "stopped"}]
  /\ readerEv \in [Rings -> Nat]
  /\ events \in Seq(Events) /\ Len(events) <= ChanCap
  /\ mainPc \in {"read", "handle"} /\ mainEv \in Events
  /\ handled \in [Rings -> Seq(Nat)]
  /\ closer \in {"running", "closing", "unlinking", "unloaded", "exited"}
  /\ closed \subseteq Rings

(* Userspace gives up no record that the kernel accepted: until shutdown    *)
(* begins, each one is still on its way or has reached the detector.  Full  *)
(* channels make readLoop wait; only a full ring loses an event.            *)
NoAcceptedRecordLost ==
  ~Done => \A r \in Rings : \A n \in 1..reserved[r] :
             n \in SeqSet(ring[r]) \union InReader(r) \union InChannel(r)
                     \union InMain(r) \union SeqSet(handled[r])

(* The detector sees the events of a ring in the order the kernel reserved  *)
(* them, each at most once, with no gap, shutdown included: the exec of a   *)
(* process never comes after the connect it explains.                       *)
HandledInKernelOrder ==
  \A r \in Rings : \A i \in DOMAIN handled[r] : handled[r][i] = i

(* The reader never returns a record that a BPF program is still writing.   *)
NoTornRecord ==
  \A r \in Rings :
    writing[r] \intersect (InReader(r) \union InChannel(r) \union InMain(r)
                             \union SeqSet(handled[r])) = {}

(* edr_ringbuf_lost_total never counts a loss twice and never runs ahead of *)
(* the losses there were, whatever happens between Lookup and Add.          *)
LossMetricNeverOverstates ==
  /\ ringbufLoss = lastDrops
  /\ lastDrops <= drops
  /\ drops = lost[MainRing]

(* Each loss in the main ring reaches the metric, unless the agent is shut  *)
(* down first.                                                              *)
MainLossReported ==
  \A k \in 1..MaxMain : lost[MainRing] >= k ~> (ringbufLoss >= k \/ Done)

(* Each accepted record reaches the detector, unless the agent is shut down *)
(* first: neither reader starves the other.                                 *)
AcceptedRecordHandled ==
  \A r \in Rings : \A k \in 1..MaxEvents(r) :
    reserved[r] >= k ~> (Len(handled[r]) >= k \/ Done)

(* A signal ends the agent, wherever the other goroutines are blocked.      *)
ShutdownCompletes == Done ~> Exited

(* The transport is a lossy FIFO with one lane per ring: a record is        *)
(* accepted by its reservation and delivered when main handles it.          *)
Fifo == INSTANCE LossyFifo
          WITH Lanes <- Rings, sent <- reserved, dropped <- lost, delivered <- handled

(* Whatever the goroutines and the shutdown do, the detector sees a lossy   *)
(* FIFO: losses happen only where the kernel counts or ignores them.        *)
ImplementsLossyFifo == Fifo!FifoSpec

-----------------------------------------------------------------------------
(* The inductive invariant behind the safety properties: where each record  *)
(* of ring r is, by its number.                                             *)

(* Records the reader has taken from the ring. *)
Taken(r) == reserved[r] - Len(ring[r])

(* Records that have left the reader. *)
Past(r) == SeqSet(handled[r]) \union InMain(r) \union InChannel(r)

(* The ring holds the youngest records, in order, the unfinished among them. *)
RingIsSuffix(r) ==
  /\ Len(ring[r]) <= reserved[r]
  /\ \A i \in DOMAIN ring[r] : ring[r][i] = Taken(r) + i
  /\ writing[r] \subseteq SeqSet(ring[r])

(* Each stage holds older records than the one before it. *)
StagesOrdered(r) ==
  /\ \A n \in Past(r) : 1 <= n /\ n <= Taken(r)
  /\ \A n \in SeqSet(handled[r]), m \in InMain(r) \union InChannel(r) : n < m
  /\ \A n \in InMain(r), m \in InChannel(r) : n < m
  /\ readerPc[r] = "send" =>
       /\ readerEv[r] = Taken(r) /\ 1 <= Taken(r)
       /\ \A n \in Past(r) : n < Taken(r)

(* A record leaves the reader after all that are older, and a reader that   *)
(* still runs has passed on all it took.                                    *)
NoGap(r) ==
  /\ \A n \in Past(r) : \A m \in 1..n : m \in Past(r)
  /\ readerPc[r] # "stopped" => \A m \in 1..Taken(r) : m \in Past(r) \union InReader(r)
  /\ readerPc[r] = "stopped" => Done

(* The events of each ring are in the order of their numbers.               *)
Increasing(q) ==
  \A i, j \in DOMAIN q : i < j /\ q[i].ring = q[j].ring => q[i].n < q[j].n

PipelineInv ==
  /\ Increasing(events)
  /\ closed # {} => Done
  /\ \A r \in Rings :
       /\ RingIsSuffix(r) /\ StagesOrdered(r) /\ NoGap(r)
       /\ \A i \in DOMAIN handled[r] : handled[r][i] = i
=============================================================================
