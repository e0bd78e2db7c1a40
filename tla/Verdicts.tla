------------------------------ MODULE Verdicts ------------------------------
(***************************************************************************)
(* What the detection engine promises, with nothing of how: each event has *)
(* its verdict, at once or after some time, and it depends on nothing but  *)
(* the event and whether its tgid has had an exec that counts within the   *)
(* window.  There is no memory that fills up, is cleaned or is copied.     *)
(***************************************************************************)
EXTENDS Naturals

CONSTANTS
  Events, Tgids, Window,
  Counts(_),     \* Counts(ev): ev is an exec that later verdicts look back at
  Verdict(_, _)  \* Verdict(ev, recent): the rules found

VARIABLES
  current,   \* the last event taken
  open,      \* its verdict is still to come
  findings,  \* its verdict
  age        \* age[t]: time since the last exec of t that counts, up to Window

verdictVars == <<current, open, findings, age>>

Recently(ages, ev) == ages[ev.tgid] < Window

VerdictInit ==
  /\ current \in Events
  /\ open = FALSE /\ findings = {}
  /\ age = [t \in Tgids |-> Window]

Noted(ev) == IF Counts(ev) THEN [age EXCEPT ![ev.tgid] = 0] ELSE age

(* Any event may be the next.                                               *)
Take ==
  /\ ~open
  /\ current' \in Events
  /\ age' = Noted(current')
  /\ \/ open' = FALSE /\ findings' = Verdict(current', Recently(Noted(current'), current'))
     \/ open' = TRUE /\ findings' = {}

(* The verdict is that of the moment it is given.                           *)
Conclude ==
  /\ open
  /\ open' = FALSE
  /\ findings' = Verdict(current, Recently(age, current))
  /\ UNCHANGED <<current, age>>

Pass ==
  /\ age' = [t \in Tgids |-> IF age[t] < Window THEN age[t] + 1 ELSE Window]
  /\ UNCHANGED <<current, open, findings>>

VerdictNext == Take \/ Conclude \/ Pass

VerdictSpec == VerdictInit /\ [][VerdictNext]_verdictVars
=============================================================================
