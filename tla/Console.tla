------------------------------ MODULE Console -------------------------------
(***************************************************************************)
(* The alert history with its reader: the handler of /api/alerts in api.go *)
(* takes a snapshot of AlertStore, and the dashboard's useAlerts asks for  *)
(* one every pollMs, whether the last request has ended or not.  Responses *)
(* can overtake each other, and a request can fail.  The agent's address   *)
(* never changes, so the effect of useAlerts is run once.                  *)
(***************************************************************************)
EXTENDS AlertSink

CONSTANT MaxRequests  \* bound on the requests in flight

ASSUME ConsoleAssumption == MaxRequests \in Nat \ {0}

VARIABLES
  requests,   \* in flight, oldest first, with their responses: served
              \* unless the agent was gone
  shown,      \* the state alerts of useAlerts
  connected   \* and its state connected

consoleVars == <<requests, shown, connected>>
allVars     == <<vars, consoleVars>>

ConsoleInit ==
  /\ Init
  /\ requests = <<>>
  /\ shown = <<>> /\ connected = FALSE

-----------------------------------------------------------------------------
(* AlertStore.Snapshot: a copy made under the mutex. *)
Snapshot == alerts

(* Slip: the first failure ends the polling.                                *)
Poll_while_connected ==
  /\ connected \/ shown = <<>>
  /\ Len(requests) < MaxRequests
  /\ requests' = Append(requests, [served |-> running, list |-> Snapshot])
  /\ UNCHANGED <<vars, shown, connected>>

(* The interval's callback, and the agent's answer.  That it is made later  *)
(* cannot be told from a poll made later.                                   *)
Poll ==
  /\ Len(requests) < MaxRequests
  /\ requests' = Append(requests, [served |-> running, list |-> Snapshot])
  /\ UNCHANGED <<vars, shown, connected>>

Ended(i) == requests' = SubSeq(requests, 1, i - 1) \o SubSeq(requests, i + 1, Len(requests))

(* Any of the responses may be the next.                                    *)
Answered(i) ==
  /\ requests[i].served
  /\ Ended(i)
  /\ shown' = requests[i].list
  /\ connected' = TRUE
  /\ UNCHANGED vars

(* Slip: only lastError is set.                                             *)
RequestFails_quietly(i) == Ended(i) /\ UNCHANGED <<vars, shown, connected>>

(* The connection, the status or the body.                                  *)
RequestFails(i) ==
  /\ Ended(i)
  /\ connected' = FALSE
  /\ UNCHANGED <<vars, shown>>

RequestEnds == \E i \in 1..Len(requests) : Answered(i) \/ RequestFails(i)

ConsoleNext ==
  \/ Next /\ UNCHANGED consoleVars
  \/ Poll
  \/ RequestEnds

(* The interval fires, and some request or other ends.                      *)
ConsoleSpec ==
  /\ ConsoleInit /\ [][ConsoleNext]_allVars
  /\ WF_allVars(Publish /\ UNCHANGED consoleVars)
  /\ WF_allVars(Receive /\ UNCHANGED consoleVars)
  /\ WF_allVars(TimesOut /\ UNCHANGED consoleVars)
  /\ WF_allVars(Poll) /\ WF_allVars(RequestEnds)

-----------------------------------------------------------------------------
(* Properties *)

(* Once requests have stopped failing, the console shows the history as it  *)
(* is, and goes on to, although an older response may come in after a newer *)
(* one and although requests had failed before.                             *)
ConsoleCatchesUp ==
  <>[][~ \E i \in 1..Len(requests) : RequestFails(i)]_allVars
    => <>[](connected /\ shown = alerts)

(* When the agent has gone, the console says so, and late responses do not  *)
(* take it back for good.                                                   *)
ConsoleNoticesExit == ~running ~> []~connected
=============================================================================
