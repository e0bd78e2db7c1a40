---------------------------- MODULE NetworkStore ----------------------------
(***************************************************************************)
(* network.go: the bounded history of network metadata behind              *)
(* /api/network and its deduplicator.  The agent's main goroutine is the   *)
(* only caller of Add in production; policy_test.go calls it from many.    *)
(* Add reads the clock before it takes the mutex, so with several callers  *)
(* the readings need not enter in order.  Everything under the mutex is    *)
(* one step.                                                               *)
(*                                                                         *)
(* Add returns at once for an event that is not about the network, and     *)
(* Snapshot copies flows under the mutex: neither changes anything.        *)
(***************************************************************************)
EXTENDS Integers, Sequences, FiniteSets

CONSTANTS
  Adders,   \* goroutines that call Add
  Keys,     \* the values of networkDedupKey that occur
  Cap,      \* capacity
  Window,   \* dedupWindow, as configured
  MaxTime,  \* bound on the clock
  MaxAdds   \* bound on the calls of Add

ASSUME NetworkAssumption ==
  /\ Cap \in Nat /\ Window \in Int /\ MaxTime \in Nat /\ MaxAdds \in Nat

(* NewNetworkStore: a negative window disables deduplication, as 0 does.    *)
dedupWindow == IF Window < 0 THEN 0 ELSE Window

Unset == -1
Time  == 0..MaxTime
Flows == [key : Keys, time : Time]

VARIABLES
  clock,
  pc,        \* pc[a]: "idle", or "lock" with the flow built and the mutex wanted
  flow,      \* flow[a]: the flow that adder a made, with its clock reading
  flows,     \* the history
  dedup,     \* dedup[k]: when a flow of key k was last admitted, or Unset
  deduped,   \* networkDeduped
  calls,     \* calls of Add (bounded by MaxAdds)
  admitted   \* every flow ever admitted, and whether it was overtaken (history)

vars == <<clock, pc, flow, flows, dedup, deduped, calls, admitted>>

Remembered(d) == {k \in Keys : d[k] # Unset}

Init ==
  /\ clock = 0
  /\ pc = [a \in Adders |-> "idle"]
  /\ flow \in [Adders -> {f \in Flows : f.time = 0}]
  /\ flows = <<>>
  /\ dedup = [k \in Keys |-> Unset]
  /\ deduped = 0
  /\ calls = 0
  /\ admitted = <<>>

-----------------------------------------------------------------------------
Tick ==
  /\ clock < MaxTime
  /\ clock' = clock + 1
  /\ UNCHANGED <<pc, flow, flows, dedup, deduped, calls, admitted>>

(* Add up to the mutex. *)
BuildFlow(a, key) ==
  /\ pc[a] = "idle"
  /\ calls < MaxAdds
  /\ calls' = calls + 1
  /\ flow' = [flow EXCEPT ![a] = [key |-> key, time |-> clock]]
  /\ pc' = [pc EXCEPT ![a] = "lock"]
  /\ UNCHANGED <<clock, flows, dedup, deduped, admitted>>

(* Slip: a flow exactly a window old is not taken for the same any more.    *)
Duplicate_inside(f) ==
  /\ dedupWindow > 0 /\ dedup[f.key] # Unset
  /\ f.time - dedup[f.key] < dedupWindow

Duplicate(f) ==
  /\ dedupWindow > 0
  /\ dedup[f.key] # Unset
  /\ f.time - dedup[f.key] <= dedupWindow

(* Slip: a duplicate renews the window.                                     *)
Suppress_renews(a) ==
  /\ pc[a] = "lock" /\ Duplicate(flow[a])
  /\ dedup' = [dedup EXCEPT ![flow[a].key] = flow[a].time]
  /\ deduped' = deduped + 1 /\ pc' = [pc EXCEPT ![a] = "idle"]
  /\ UNCHANGED <<clock, flow, flows, calls, admitted>>

Suppress(a) ==
  /\ pc[a] = "lock"
  /\ Duplicate(flow[a])
  /\ deduped' = deduped + 1
  /\ pc' = [pc EXCEPT ![a] = "idle"]
  /\ UNCHANGED <<clock, flow, flows, dedup, calls, admitted>>

(* The entries that stay once there are more than twice the capacity.       *)
Purged(d, now) ==
  IF Cardinality(Remembered(d)) > 2 * Cap
  THEN [k \in Keys |-> IF d[k] < now - dedupWindow THEN Unset ELSE d[k]]
  ELSE d

(* Slip: the map is purged before the new entry goes in.                    *)
Renewed_after_purge(f) == [Purged(dedup, f.time) EXCEPT ![f.key] = f.time]

Renewed(f) ==
  IF dedupWindow > 0 THEN Purged([dedup EXCEPT ![f.key] = f.time], f.time) ELSE dedup

(* Slip: the history is trimmed one append too late.                        *)
Appended_late(f) ==
  IF Cap = 0 THEN flows
  ELSE Append(IF Len(flows) > Cap THEN Tail(flows) ELSE flows, f)

(* Slip: a full history takes no more.                                      *)
Appended_until_full(f) == IF Len(flows) >= Cap THEN flows ELSE Append(flows, f)

Appended(f) ==
  IF Cap = 0 THEN flows
  ELSE Append(IF Len(flows) >= Cap THEN Tail(flows) ELSE flows, f)

(* A clock reading is overtaken when a later one has entered before it.     *)
Overtaken(f) == \E i \in 1..Len(admitted) : admitted[i].flow.time > f.time

Admit(a) ==
  /\ pc[a] = "lock"
  /\ ~Duplicate(flow[a])
  /\ dedup' = Renewed(flow[a])
  /\ flows' = Appended(flow[a])
  /\ admitted' = Append(admitted, [flow |-> flow[a], overtaken |-> Overtaken(flow[a])])
  /\ pc' = [pc EXCEPT ![a] = "idle"]
  /\ UNCHANGED <<clock, flow, deduped, calls>>

-----------------------------------------------------------------------------
Next ==
  \/ Tick
  \/ \E a \in Adders :
       \/ \E key \in Keys : BuildFlow(a, key)
       \/ Suppress(a)
       \/ Admit(a)

Spec == Init /\ [][Next]_vars

-----------------------------------------------------------------------------
(* Properties *)

(* Types; the history never exceeds its capacity, which is what             *)
(* TestNetworkStoreConcurrentStress asserts.                                *)
TypeOK ==
  /\ clock \in Time /\ calls \in 0..MaxAdds /\ deduped \in Nat
  /\ pc \in [Adders -> {"idle", "lock"}] /\ flow \in [Adders -> Flows]
  /\ dedup \in [Keys -> Time \union {Unset}]
  /\ admitted \in Seq([flow : Flows, overtaken : BOOLEAN])
  /\ flows \in Seq(Flows) /\ Len(flows) <= Cap

(* The history is exactly the newest Cap admitted flows, in the order they  *)
(* were admitted, whoever added them.                                       *)
RetainsNewest ==
  LET kept == IF Len(admitted) < Cap THEN Len(admitted) ELSE Cap
  IN  flows = [i \in 1..kept |-> admitted[Len(admitted) - kept + i].flow]

(* Two flows of one key in the history are more than a window apart, purges *)
(* of the map notwithstanding; only a caller whose clock reading was        *)
(* overtaken can break it, and main, alone, is never overtaken.             *)
AdmittedAreSpaced ==
  dedupWindow > 0 =>
    \A i, j \in 1..Len(admitted) :
      /\ i < j /\ ~admitted[j].overtaken
      /\ admitted[i].flow.key = admitted[j].flow.key
      => admitted[j].flow.time - admitted[i].flow.time > dedupWindow

(* A flow is suppressed only within a window of one of its key that was     *)
(* admitted: a steady stream shows up again every window, however many of   *)
(* its records were suppressed before.                                      *)
SuppressedHasTwin ==
  [][\A a \in Adders : pc[a] = "lock" /\ pc'[a] = "idle" /\ admitted' = admitted =>
       \E i \in 1..Len(admitted) :
         /\ admitted[i].flow.key = flow[a].key
         /\ flow[a].time - admitted[i].flow.time <= dedupWindow]_vars

(* The map grows past twice the capacity only with keys of the window that  *)
(* ends with the flow admitted last: no older key is retained then.         *)
DedupHoldsOneWindow ==
  Cardinality(Remembered(dedup)) > 2 * Cap =>
    \A k \in Remembered(dedup) :
      dedup[k] >= admitted[Len(admitted)].flow.time - dedupWindow
=============================================================================
