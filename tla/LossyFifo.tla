----------------------------- MODULE LossyFifo ------------------------------
(***************************************************************************)
(* What the event transport promises the detector, with nothing of how:    *)
(* a source offers events on several lanes; each is accepted or lost when  *)
(* it is offered, and the accepted ones of a lane are delivered in order,  *)
(* once each and with no gap.  EventTransport implements it with one lane  *)
(* per ring buffer.                                                        *)
(***************************************************************************)
EXTENDS Naturals, Sequences

CONSTANT Lanes

VARIABLES
  sent,      \* sent[l]: events accepted on lane l
  dropped,   \* dropped[l]: events lost on lane l
  delivered  \* delivered[l]: what the consumer got, by number

fifoVars == <<sent, dropped, delivered>>

FifoInit ==
  /\ sent = [l \in Lanes |-> 0]
  /\ dropped = [l \in Lanes |-> 0]
  /\ delivered = [l \in Lanes |-> <<>>]

Accept(l) ==
  /\ sent' = [sent EXCEPT ![l] = @ + 1]
  /\ UNCHANGED <<dropped, delivered>>

Lose(l) ==
  /\ dropped' = [dropped EXCEPT ![l] = @ + 1]
  /\ UNCHANGED <<sent, delivered>>

(* The next one in order, of those that were accepted. *)
Deliver(l) ==
  /\ Len(delivered[l]) < sent[l]
  /\ delivered' = [delivered EXCEPT ![l] = Append(@, Len(@) + 1)]
  /\ UNCHANGED <<sent, dropped>>

FifoNext == \E l \in Lanes : Accept(l) \/ Lose(l) \/ Deliver(l)

FifoSpec == FifoInit /\ [][FifoNext]_fifoVars
=============================================================================
