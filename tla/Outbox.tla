------------------------------- MODULE Outbox -------------------------------
(***************************************************************************)
(* What the webhook promises whoever raises alerts and whoever receives    *)
(* them, with nothing of how: an alert is taken or refused when it is      *)
(* offered, refused only when Capacity of them are waiting; those taken    *)
(* end in the order they were taken, as delivered if the endpoint has got  *)
(* them; and the endpoint gets each at most once, although what has ended  *)
(* as failed may still reach it.                                           *)
(***************************************************************************)
EXTENDS Naturals, Sequences

CONSTANT Capacity

VARIABLES
  offered,   \* the number of the last alert offered
  pending,   \* taken and not ended, oldest first
  reached,   \* what the endpoint has got
  straying,  \* failed, and still on their way to it
  delivered, failed, refused

boxVars == <<offered, pending, reached, straying, delivered, failed, refused>>

BoxInit ==
  /\ offered = 0
  /\ pending = <<>> /\ reached = <<>> /\ straying = {}
  /\ delivered = 0 /\ failed = 0 /\ refused = 0

HasReached(n) == \E i \in DOMAIN reached : reached[i] = n

Take ==
  /\ Len(pending) <= Capacity
  /\ offered' = offered + 1
  /\ pending' = Append(pending, offered + 1)
  /\ UNCHANGED <<reached, straying, delivered, failed, refused>>

(* What has been taken is never given up to make room.                      *)
Refuse ==
  /\ Len(pending) >= Capacity
  /\ offered' = offered + 1
  /\ refused' = refused + 1
  /\ UNCHANGED <<pending, reached, straying, delivered, failed>>

Reach ==
  /\ pending # <<>>
  /\ ~HasReached(Head(pending))
  /\ reached' = Append(reached, Head(pending))
  /\ UNCHANGED <<offered, pending, straying, delivered, failed, refused>>

ReachLate(n) ==
  /\ ~HasReached(n)
  /\ reached' = Append(reached, n)
  /\ straying' = straying \ {n}
  /\ UNCHANGED <<offered, pending, delivered, failed, refused>>

Deliver ==
  /\ pending # <<>>
  /\ HasReached(Head(pending))
  /\ pending' = Tail(pending)
  /\ delivered' = delivered + 1
  /\ UNCHANGED <<offered, reached, straying, failed, refused>>

Fail ==
  /\ pending # <<>>
  /\ pending' = Tail(pending)
  /\ failed' = failed + 1
  /\ \/ UNCHANGED straying
     \/ ~HasReached(Head(pending)) /\ straying' = straying \union {Head(pending)}
  /\ UNCHANGED <<offered, reached, delivered, refused>>

BoxNext == Take \/ Refuse \/ Reach \/ (\E n \in straying : ReachLate(n)) \/ Deliver \/ Fail

BoxSpec == BoxInit /\ [][BoxNext]_boxVars
=============================================================================
