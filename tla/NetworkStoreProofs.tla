------------------------- MODULE NetworkStoreProofs -------------------------
(***************************************************************************)
(* The properties of NetworkStore for any number of callers, keys, flows   *)
(* and clock readings, and any capacity and window.  What ties dedup to    *)
(* the flows that were admitted is the invariant DedupInv.                 *)
(***************************************************************************)
EXTENDS NetworkStore, TLAPS, FiniteSetTheorems, SequenceTheorems

(* An entry of dedup is the time of an admitted flow of its key.            *)
EntriesAreAdmitted ==
  \A k \in Remembered(dedup) :
    \E i \in 1..Len(admitted) :
      admitted[i].flow.key = k /\ admitted[i].flow.time = dedup[k]

(* An admitted flow is no younger than the entry of its key, or it is more  *)
(* than a window older than some admitted flow: its entry may be purged.    *)
RememberedOrOld ==
  dedupWindow > 0 =>
    \A i \in 1..Len(admitted) :
      \/ /\ admitted[i].flow.key \in Remembered(dedup)
         /\ admitted[i].flow.time <= dedup[admitted[i].flow.key]
      \/ \E j \in 1..Len(admitted) :
           admitted[j].flow.time - admitted[i].flow.time > dedupWindow

(* Without deduplication the map stays empty.                               *)
DisabledRemembersNothing == dedupWindow = 0 => Remembered(dedup) = {}

DedupInv == EntriesAreAdmitted /\ RememberedOrOld /\ DisabledRemembersNothing

Records == [flow : Flows, overtaken : BOOLEAN]

LEMMA WindowType == dedupWindow \in Nat
BY NetworkAssumption DEF dedupWindow

-----------------------------------------------------------------------------
(* What Renewed does to the map: the new flow's entry is there, and another *)
(* entry is as before or, if it is out of the window, may be gone.          *)
LEMMA RenewedEntries ==
  ASSUME dedup \in [Keys -> Time \union {Unset}], NEW f \in Flows, dedupWindow > 0
  PROVE  /\ Renewed(f) \in [Keys -> Time \union {Unset}]
         /\ Renewed(f)[f.key] = f.time
         /\ \A k \in Keys \ {f.key} :
              \/ Renewed(f)[k] = dedup[k]
              \/ Renewed(f)[k] = Unset /\ dedup[k] < f.time - dedupWindow
         /\ Cardinality(Remembered(Renewed(f))) > 2 * Cap =>
              \A k \in Remembered(Renewed(f)) : Renewed(f)[k] >= f.time - dedupWindow
<1>. DEFINE d == [dedup EXCEPT ![f.key] = f.time]
<1>1. f.key \in Keys /\ f.time \in Time /\ f.time \in Nat
  BY NetworkAssumption DEF Flows, Time
<1>2. d \in [Keys -> Time \union {Unset}] /\ d[f.key] = f.time
  BY <1>1
<1>3. Renewed(f) = Purged(d, f.time)
  BY DEF Renewed
<1>4. CASE Cardinality(Remembered(d)) > 2 * Cap
  <2>1. Renewed(f) = [k \in Keys |-> IF d[k] < f.time - dedupWindow THEN Unset ELSE d[k]]
    BY <1>3, <1>4 DEF Purged
  <2>2. \A k \in Keys : d[k] \in Int
    BY <1>2, NetworkAssumption DEF Time, Unset
  <2>3. Renewed(f) \in [Keys -> Time \union {Unset}]
    BY <1>2, <2>1
  <2>4. Renewed(f)[f.key] = f.time
    BY <1>1, <1>2, <2>1, WindowType
  <2>5. ASSUME NEW k \in Keys \ {f.key}
        PROVE  \/ Renewed(f)[k] = dedup[k]
               \/ Renewed(f)[k] = Unset /\ dedup[k] < f.time - dedupWindow
    BY <2>1
  <2>6. ASSUME NEW k \in Remembered(Renewed(f))
        PROVE  Renewed(f)[k] >= f.time - dedupWindow
    BY <1>1, <2>1, <2>2, WindowType DEF Remembered
  <2>. QED
    BY <2>3, <2>4, <2>5, <2>6
<1>5. CASE ~(Cardinality(Remembered(d)) > 2 * Cap)
  <2>1. Renewed(f) = d
    BY <1>3, <1>5 DEF Purged
  <2>. QED
    BY <1>1, <1>2, <1>5, <2>1
<1>. QED
  BY <1>4, <1>5

(* The history never has more flows than its capacity.                      *)
LEMMA AppendedType ==
  ASSUME flows \in Seq(Flows), Len(flows) <= Cap, NEW f \in Flows
  PROVE  Appended(f) \in Seq(Flows) /\ Len(Appended(f)) <= Cap
<1>. USE NetworkAssumption DEF Appended
<1>1. CASE Cap = 0
  BY <1>1
<1>2. CASE Cap > 0 /\ Len(flows) >= Cap
  <2>1. Tail(flows) \in Seq(Flows) /\ Len(Tail(flows)) = Len(flows) - 1
    BY <1>2
  <2>. QED
    BY <1>2, <2>1
<1>3. CASE Cap > 0 /\ Len(flows) < Cap
  BY <1>3
<1>. QED
  BY <1>1, <1>2, <1>3

(* The history never holds more than it may, and no time lies ahead of the  *)
(* clock, whatever the callers of Add do.                                   *)
THEOREM TypeInvariant == Spec => []TypeOK
<1>1. Init => TypeOK
  BY NetworkAssumption DEF Init, TypeOK, Time, Unset, Flows
<1>2. TypeOK /\ [Next]_vars => TypeOK'
  <2>. SUFFICES ASSUME TypeOK, [Next]_vars PROVE TypeOK'
    OBVIOUS
  <2>. USE NetworkAssumption DEF TypeOK
  <2>1. CASE Tick
    BY <2>1 DEF Tick, Time
  <2>2. ASSUME NEW a \in Adders, NEW key \in Keys, BuildFlow(a, key) PROVE TypeOK'
    BY <2>2 DEF BuildFlow, Flows, Time
  <2>3. ASSUME NEW a \in Adders, Suppress(a) PROVE TypeOK'
    BY <2>3 DEF Suppress
  <2>4. ASSUME NEW a \in Adders, Admit(a) PROVE TypeOK'
    <3>. USE <2>4 DEF Admit
    <3>1. flow[a] \in Flows /\ Overtaken(flow[a]) \in BOOLEAN
      BY DEF Overtaken
    <3>2. dedup' \in [Keys -> Time \union {Unset}]
      <4>1. CASE dedupWindow > 0
        BY <3>1, <4>1, RenewedEntries
      <4>2. CASE ~(dedupWindow > 0)
        BY <4>2 DEF Renewed
      <4>. QED
        BY <4>1, <4>2
    <3>3. flows' \in Seq(Flows) /\ Len(flows') <= Cap
      BY <3>1, AppendedType
    <3>4. admitted' \in Seq(Records)
      BY <3>1 DEF Records
    <3>. QED
      BY <3>2, <3>3, <3>4 DEF Records
  <2>5. CASE UNCHANGED vars
    BY <2>5 DEF vars
  <2>. QED
    BY <2>1, <2>2, <2>3, <2>4, <2>5 DEF Next
<1>. QED
  BY <1>1, <1>2, PTL DEF Spec

-----------------------------------------------------------------------------
(* What an admission adds to the history of admitted flows.                 *)
LEMMA AdmittedGrows ==
  ASSUME TypeOK, NEW a \in Adders, Admit(a)
  PROVE  /\ flow[a] \in Flows
         /\ Len(admitted') = Len(admitted) + 1
         /\ \A i \in 1..Len(admitted) : admitted'[i] = admitted[i]
         /\ admitted'[Len(admitted) + 1].flow = flow[a]
         /\ admitted'[Len(admitted) + 1].overtaken = Overtaken(flow[a])
BY DEF Admit, TypeOK

LEMMA AdmittedType ==
  ASSUME TypeOK, NEW i \in 1..Len(admitted)
  PROVE  admitted[i].flow.key \in Keys /\ admitted[i].flow.time \in Nat
<1>1. admitted[i] \in Records
  BY ElementOfSeq DEF TypeOK, Records
<1>. QED
  BY <1>1, NetworkAssumption DEF Records, Flows, Time

(* Only Admit and Suppress end a call; the former adds a flow.              *)
LEMMA OtherSteps ==
  ASSUME TypeOK, [Next]_vars
  PROVE  \/ UNCHANGED <<flows, dedup, admitted>>
         \/ \E a \in Adders : Admit(a)
BY DEF Next, vars, Tick, BuildFlow, Suppress

(* How many flows the history has, and which one is at place i.             *)
Kept(n) == IF n < Cap THEN n ELSE Cap

NewestElements ==
  /\ Len(flows) = Kept(Len(admitted))
  /\ \A i \in 1..Kept(Len(admitted)) :
       flows[i] = admitted[Len(admitted) - Kept(Len(admitted)) + i].flow

LEMMA ElementsSuffice == ASSUME TypeOK PROVE RetainsNewest <=> NewestElements
<1>. DEFINE n == Len(admitted)
            newest == [i \in 1..Kept(n) |-> admitted[n - Kept(n) + i].flow]
<1>1. n \in Nat /\ Kept(n) \in Nat /\ flows \in Seq(Flows)
  BY NetworkAssumption DEF TypeOK, Kept
<1>2. RetainsNewest <=> flows = newest
  BY DEF RetainsNewest, Kept
<1>3. flows = newest => NewestElements
  <2>. SUFFICES ASSUME flows = newest PROVE NewestElements
    OBVIOUS
  <2>1. DOMAIN flows = 1..Len(flows) /\ DOMAIN newest = 1..Kept(n) /\ Len(flows) \in Nat
    BY <1>1
  <2>2. Len(flows) = Kept(n)
    BY <1>1, <2>1
  <2>. QED
    BY <1>1, <2>2 DEF NewestElements
<1>4. NewestElements => flows = newest
  <2>. SUFFICES ASSUME NewestElements PROVE flows = newest
    OBVIOUS
  <2>1. flows = [i \in 1..Len(flows) |-> flows[i]]
    BY <1>1
  <2>. QED
    BY <1>1, <2>1 DEF NewestElements
<1>. QED
  BY <1>2, <1>3, <1>4

LEMMA AppendedElements ==
  ASSUME flows \in Seq(Flows), Len(flows) <= Cap, NEW f \in Flows, Cap > 0
  PROVE  /\ Len(flows) < Cap =>
              /\ Len(Appended(f)) = Len(flows) + 1
              /\ \A i \in 1..Len(flows) : Appended(f)[i] = flows[i]
         /\ Len(flows) = Cap =>
              /\ Len(Appended(f)) = Cap
              /\ \A i \in 1..(Cap - 1) : Appended(f)[i] = flows[i + 1]
         /\ Appended(f)[Len(Appended(f))] = f
<1>1. CASE Len(flows) < Cap
  BY <1>1, NetworkAssumption, AppendProperties DEF Appended
<1>2. CASE Len(flows) = Cap
  <2>1. flows # <<>>
    BY <1>2
  <2>2. /\ Tail(flows) \in Seq(Flows) /\ Len(Tail(flows)) = Cap - 1
        /\ \A i \in 1..(Cap - 1) : Tail(flows)[i] = flows[i + 1]
    BY <1>2, <2>1, HeadTailProperties
  <2>3. Appended(f) = Append(Tail(flows), f)
    BY <1>2, NetworkAssumption DEF Appended
  <2>. QED
    BY <1>2, <2>2, <2>3, NetworkAssumption, AppendProperties
<1>. QED
  BY <1>1, <1>2, NetworkAssumption

(* The history is exactly the newest Cap admitted flows, in order.          *)
LEMMA NewestInductive ==
  ASSUME TypeOK, TypeOK', RetainsNewest, [Next]_vars
  PROVE  RetainsNewest'
<1>1. CASE UNCHANGED <<flows, dedup, admitted>>
  BY <1>1 DEF RetainsNewest
<1>2. ASSUME NEW a \in Adders, Admit(a) PROVE NewestElements'
  <2>. DEFINE n == Len(admitted)
  <2>1. /\ n \in Nat /\ Cap \in Nat
        /\ flows \in Seq(Flows) /\ Len(flows) <= Cap
    BY NetworkAssumption DEF TypeOK
  <2>2. /\ Len(admitted') = n + 1
        /\ \A i \in 1..n : admitted'[i] = admitted[i]
        /\ admitted'[n + 1].flow = flow[a]
    BY <1>2, AdmittedGrows
  <2>3. NewestElements
    BY ElementsSuffice
  <2>4. flows' = Appended(flow[a]) /\ flow[a] \in Flows
    BY <1>2 DEF Admit, TypeOK
  <2>5. CASE Cap = 0
    <3>1. Len(flows) = 0 /\ Kept(n) = 0 /\ Kept(n + 1) = 0
      BY <2>1, <2>3, <2>5 DEF NewestElements, Kept
    <3>2. flows' = flows
      BY <2>4, <2>5 DEF Appended
    <3>3. Len(flows') = Kept(Len(admitted')) /\ 1..Kept(Len(admitted')) = {}
      BY <2>2, <3>1, <3>2
    <3>. QED
      BY <3>3 DEF NewestElements
  <2>6. CASE Cap > 0 /\ n < Cap
    <3>1. Len(flows) = n /\ Kept(n) = n /\ Kept(n + 1) = n + 1
      BY <2>1, <2>3, <2>6 DEF NewestElements, Kept
    <3>2. Len(flows') = n + 1 /\ flows'[n + 1] = flow[a]
      BY <2>1, <2>4, <2>6, <3>1, AppendedElements
    <3>3. \A i \in 1..n : flows'[i] = admitted'[i].flow
      BY <2>1, <2>3, <2>4, <2>6, <2>2, <3>1, AppendedElements DEF NewestElements
    <3>. QED
      BY <2>1, <2>2, <3>1, <3>2, <3>3 DEF NewestElements
  <2>7. CASE Cap > 0 /\ n >= Cap
    <3>1. Len(flows) = Cap /\ Kept(n) = Cap /\ Kept(n + 1) = Cap
      BY <2>1, <2>3, <2>7 DEF NewestElements, Kept
    <3>2. Len(flows') = Cap /\ flows'[Cap] = flow[a]
      BY <2>1, <2>4, <2>7, <3>1, AppendedElements
    <3>3. ASSUME NEW i \in 1..(Cap - 1)
          PROVE  flows'[i] = admitted'[n + 1 - Cap + i].flow
      <4>1. flows'[i] = flows[i + 1]
        BY <2>1, <2>4, <2>7, <3>1, AppendedElements
      <4>2. flows[i + 1] = admitted[n - Cap + (i + 1)].flow
        BY <2>1, <2>3, <3>1 DEF NewestElements
      <4>3. admitted'[n + 1 - Cap + i] = admitted[n + 1 - Cap + i]
        BY <2>1, <2>7, <2>2
      <4>. QED
        BY <2>1, <4>1, <4>2, <4>3
    <3>4. ASSUME NEW i \in 1..Cap
          PROVE  flows'[i] = admitted'[n + 1 - Cap + i].flow
      <4>1. i = Cap => n + 1 - Cap + i = n + 1
        BY <2>1
      <4>2. i # Cap => i \in 1..(Cap - 1)
        BY <2>1
      <4>. QED
        BY <2>2, <3>2, <3>3, <4>1, <4>2
    <3>. QED
      BY <2>2, <3>1, <3>2, <3>4 DEF NewestElements
  <2>. QED
    BY <2>1, <2>5, <2>6, <2>7
<1>3. TypeOK' => (RetainsNewest' <=> NewestElements')
  BY ElementsSuffice, PTL
<1>. QED
  BY <1>1, <1>2, <1>3, OtherSteps

(* The newest flows are kept, whatever the capacity.                        *)
THEOREM HistoryIsNewest == Spec => []RetainsNewest
<1>1. Init => RetainsNewest
  BY NetworkAssumption DEF Init, RetainsNewest
<1>. QED
  BY <1>1, NewestInductive, TypeInvariant, PTL DEF Spec

-----------------------------------------------------------------------------
(* An admission leaves no entry of its key within a window before it.       *)
LEMMA NotDuplicate ==
  ASSUME TypeOK, NEW f \in Flows, ~Duplicate(f), dedupWindow > 0, f.key \in Remembered(dedup)
  PROVE  f.time - dedup[f.key] > dedupWindow
BY NetworkAssumption, WindowType DEF Duplicate, Remembered, TypeOK, Flows, Time, Unset

LEMMA DedupInvInductive ==
  ASSUME TypeOK, TypeOK', DedupInv, [Next]_vars
  PROVE  DedupInv'
<1>1. CASE UNCHANGED <<flows, dedup, admitted>>
  BY <1>1 DEF DedupInv, EntriesAreAdmitted, RememberedOrOld, DisabledRemembersNothing, Remembered
<1>2. ASSUME NEW a \in Adders, Admit(a) PROVE DedupInv'
  <2>. DEFINE f == flow[a]
              n == Len(admitted)
  <2>1. /\ f \in Flows /\ f.key \in Keys /\ f.time \in Nat /\ n \in Nat
        /\ dedup \in [Keys -> Time \union {Unset}] /\ dedup' = Renewed(f) /\ ~Duplicate(f)
    BY <1>2, NetworkAssumption DEF Admit, TypeOK, Flows, Time
  <2>2. /\ Len(admitted') = n + 1
        /\ \A i \in 1..n : admitted'[i] = admitted[i]
        /\ admitted'[n + 1].flow = f
    BY <1>2, AdmittedGrows
  <2>3. \A i \in 1..n : admitted[i].flow.key \in Keys /\ admitted[i].flow.time \in Nat
    BY AdmittedType
  <2>4. EntriesAreAdmitted'
    <3>. SUFFICES ASSUME NEW k \in Remembered(dedup)'
                  PROVE  \E i \in 1..(n + 1) :
                           admitted'[i].flow.key = k /\ admitted'[i].flow.time = dedup'[k]
      BY <2>2 DEF EntriesAreAdmitted
    <3>1. k \in Keys /\ dedup'[k] # Unset
      BY DEF Remembered
    <3>2. CASE dedup'[k] = dedup[k]
      BY <2>1, <2>2, <3>1, <3>2 DEF DedupInv, EntriesAreAdmitted, Remembered
    <3>3. CASE dedup'[k] # dedup[k]
      <4>1. dedupWindow > 0
        BY <2>1, <3>3 DEF Renewed
      <4>2. k = f.key /\ dedup'[k] = f.time
        BY <2>1, <3>1, <3>3, <4>1, RenewedEntries
      <4>. QED
        BY <2>1, <2>2, <4>2
    <3>. QED
      BY <3>2, <3>3
  <2>5. DisabledRemembersNothing'
    BY <2>1 DEF DedupInv, DisabledRemembersNothing, Renewed, Remembered
  <2>6. RememberedOrOld'
    <3>. SUFFICES ASSUME dedupWindow > 0, NEW i \in 1..(n + 1)
                  PROVE  \/ /\ dedup'[admitted'[i].flow.key] # Unset
                            /\ admitted'[i].flow.time <= dedup'[admitted'[i].flow.key]
                         \/ \E j \in 1..(n + 1) :
                              admitted'[j].flow.time - admitted'[i].flow.time > dedupWindow
      BY <2>2, <2>3, <2>1 DEF RememberedOrOld, Remembered
    <3>1. CASE i = n + 1
      BY <2>1, <2>2, <3>1, RenewedEntries DEF Unset
    <3>. SUFFICES ASSUME i \in 1..n PROVE
                    \/ /\ dedup'[admitted[i].flow.key] # Unset
                       /\ admitted[i].flow.time <= dedup'[admitted[i].flow.key]
                    \/ f.time - admitted[i].flow.time > dedupWindow
                    \/ \E j \in 1..n :
                         admitted[j].flow.time - admitted[i].flow.time > dedupWindow
      BY <2>1, <2>2, <3>1
    <3>. DEFINE k == admitted[i].flow.key
                t == admitted[i].flow.time
    <3>2. k \in Keys /\ t \in Nat
      BY <2>3
    <3>3. CASE \E j \in 1..n : admitted[j].flow.time - t > dedupWindow
      BY <3>3
    <3>4. CASE dedup[k] # Unset /\ t <= dedup[k]
      <4>1. dedup[k] \in Nat
        BY <2>1, <3>2, <3>4, NetworkAssumption DEF Time
      <4>2. CASE k = f.key
        <5>1. f.time - dedup[k] > dedupWindow
          BY <2>1, <3>2, <3>4, <4>2, NotDuplicate DEF Remembered
        <5>. QED
          BY <2>1, <3>2, <3>4, <4>1, <5>1, WindowType
      <4>3. CASE k # f.key
        <5>1. dedup'[k] = dedup[k] \/ dedup[k] < f.time - dedupWindow
          BY <2>1, <3>2, <4>3, RenewedEntries
        <5>. QED
          BY <2>1, <3>2, <3>4, <4>1, <5>1, WindowType
      <4>. QED
        BY <4>2, <4>3
    <3>. QED
      BY <3>3, <3>4 DEF DedupInv, RememberedOrOld, Remembered
  <2>. QED
    BY <2>4, <2>5, <2>6 DEF DedupInv
<1>. QED
  BY <1>1, <1>2, OtherSteps

LEMMA DedupInvariant == Spec => []DedupInv
<1>1. Init => DedupInv
  BY DEF Init, DedupInv, EntriesAreAdmitted, RememberedOrOld, DisabledRemembersNothing, Remembered
<1>. QED
  BY <1>1, DedupInvInductive, TypeInvariant, PTL DEF Spec

-----------------------------------------------------------------------------
LEMMA SpacedInductive ==
  ASSUME TypeOK, DedupInv, AdmittedAreSpaced, [Next]_vars
  PROVE  AdmittedAreSpaced'
<1>1. CASE UNCHANGED <<flows, dedup, admitted>>
  BY <1>1 DEF AdmittedAreSpaced
<1>2. ASSUME NEW a \in Adders, Admit(a) PROVE AdmittedAreSpaced'
  <2>. DEFINE f == flow[a]
              n == Len(admitted)
  <2>1. f \in Flows /\ f.time \in Nat /\ n \in Nat /\ ~Duplicate(f)
    BY <1>2, NetworkAssumption DEF Admit, TypeOK, Flows, Time
  <2>2. /\ Len(admitted') = n + 1
        /\ \A i \in 1..n : admitted'[i] = admitted[i]
        /\ admitted'[n + 1].flow = f /\ admitted'[n + 1].overtaken = Overtaken(f)
    BY <1>2, AdmittedGrows
  <2>3. ASSUME dedupWindow > 0, ~Overtaken(f), NEW i \in 1..n, admitted[i].flow.key = f.key
        PROVE  f.time - admitted[i].flow.time > dedupWindow
    <3>1. \A j \in 1..n : admitted[j].flow.time \in Nat /\ admitted[j].flow.time <= f.time
      BY <2>1, <2>3, AdmittedType DEF Overtaken
    <3>2. CASE f.key \in Remembered(dedup) /\ admitted[i].flow.time <= dedup[f.key]
      <4>1. f.time - dedup[f.key] > dedupWindow
        BY <2>1, <2>3, <3>2, NotDuplicate
      <4>2. dedup[f.key] \in Nat
        BY <3>2, NetworkAssumption DEF TypeOK, Remembered, Time
      <4>. QED
        BY <2>1, <3>1, <3>2, <4>1, <4>2, WindowType
    <3>3. CASE \E j \in 1..n : admitted[j].flow.time - admitted[i].flow.time > dedupWindow
      BY <2>1, <3>1, <3>3, WindowType
    <3>. QED
      BY <2>3, <3>2, <3>3 DEF DedupInv, RememberedOrOld
  <2>. SUFFICES ASSUME dedupWindow > 0, NEW i \in 1..(n + 1), NEW j \in 1..(n + 1), i < j,
                       ~admitted'[j].overtaken,
                       admitted'[i].flow.key = admitted'[j].flow.key
                PROVE  admitted'[j].flow.time - admitted'[i].flow.time > dedupWindow
    BY <2>2 DEF AdmittedAreSpaced
  <2>4. i \in 1..n
    BY <2>1
  <2>5. CASE j = n + 1
    BY <2>2, <2>3, <2>4, <2>5
  <2>6. CASE j \in 1..n
    BY <2>2, <2>4, <2>6 DEF AdmittedAreSpaced
  <2>. QED
    BY <2>1, <2>5, <2>6
<1>. QED
  BY <1>1, <1>2, OtherSteps

(* Flows of one key enter more than a window apart, purges notwithstanding, *)
(* if the clock reading of the later one was not overtaken.                 *)
THEOREM DuplicatesSuppressed == Spec => []AdmittedAreSpaced
<1>1. Init => AdmittedAreSpaced
  BY DEF Init, AdmittedAreSpaced
<1>. QED
  BY <1>1, SpacedInductive, TypeInvariant, DedupInvariant, PTL DEF Spec

(* Nothing is suppressed but within a window of an admitted flow of its     *)
(* key.                                                                     *)
THEOREM SuppressionHasGround == Spec => SuppressedHasTwin
<1>1. ASSUME TypeOK, DedupInv, [Next]_vars
      PROVE  [\A a \in Adders : pc[a] = "lock" /\ pc'[a] = "idle" /\ admitted' = admitted =>
                \E i \in 1..Len(admitted) :
                  /\ admitted[i].flow.key = flow[a].key
                  /\ flow[a].time - admitted[i].flow.time <= dedupWindow]_vars
  <2>. SUFFICES ASSUME NEW a \in Adders, pc[a] = "lock", pc'[a] = "idle", admitted' = admitted
                PROVE  \E i \in 1..Len(admitted) :
                         /\ admitted[i].flow.key = flow[a].key
                         /\ flow[a].time - admitted[i].flow.time <= dedupWindow
    OBVIOUS
  <2>1. \A b \in Adders : ~Admit(b)
    BY <1>1, AdmittedGrows DEF TypeOK
  <2>2. Suppress(a)
    BY <1>1, <2>1 DEF Next, vars, Tick, BuildFlow, Suppress, TypeOK
  <2>3. Duplicate(flow[a]) /\ flow[a].key \in Keys
    BY <1>1, <2>2 DEF Suppress, TypeOK, Flows
  <2>4. flow[a].key \in Remembered(dedup)
    BY <2>3 DEF Duplicate, Remembered
  <2>. QED
    BY <1>1, <2>3, <2>4 DEF DedupInv, EntriesAreAdmitted, Duplicate
<1>. QED
  BY <1>1, TypeInvariant, DedupInvariant, PTL DEF Spec, SuppressedHasTwin

(* The map is past twice the capacity only with keys of one window.         *)
THEOREM DedupBounded == Spec => []DedupHoldsOneWindow
<1>1. Init => DedupHoldsOneWindow
  <2>. SUFFICES ASSUME Init PROVE ~(Cardinality(Remembered(dedup)) > 2 * Cap)
    BY DEF DedupHoldsOneWindow
  <2>1. Remembered(dedup) = {}
    BY DEF Init, Remembered
  <2>. QED
    BY <2>1, FS_EmptySet, NetworkAssumption
<1>2. ASSUME TypeOK, DedupInv, DedupHoldsOneWindow, [Next]_vars
      PROVE  DedupHoldsOneWindow'
  <2>1. CASE UNCHANGED <<flows, dedup, admitted>>
    BY <1>2, <2>1 DEF DedupHoldsOneWindow, Remembered
  <2>2. ASSUME NEW a \in Adders, Admit(a) PROVE DedupHoldsOneWindow'
    <3>1. dedup' = Renewed(flow[a]) /\ flow[a] \in Flows
      BY <1>2, <2>2 DEF Admit, TypeOK
    <3>2. admitted'[Len(admitted')].flow.time = flow[a].time
      BY <1>2, <2>2, AdmittedGrows
    <3>3. CASE dedupWindow > 0
      <4>1. Cardinality(Remembered(dedup')) > 2 * Cap =>
              \A k \in Remembered(dedup') : dedup'[k] >= flow[a].time - dedupWindow
        BY <1>2, <3>1, <3>3, RenewedEntries DEF TypeOK
      <4>. QED
        BY <3>2, <4>1 DEF DedupHoldsOneWindow, Remembered
    <3>4. CASE ~(dedupWindow > 0)
      <4>1. dedup' = dedup /\ dedupWindow = 0
        BY <3>1, <3>4, WindowType DEF Renewed
      <4>2. \A k \in Keys : dedup'[k] = Unset
        BY <1>2, <4>1 DEF DedupInv, DisabledRemembersNothing, Remembered
      <4>. QED
        BY <4>2 DEF DedupHoldsOneWindow, Remembered
    <3>. QED
      BY <3>3, <3>4
  <2>. QED
    BY <1>2, <2>1, <2>2, OtherSteps
<1>. QED
  BY <1>1, <1>2, TypeInvariant, DedupInvariant, PTL DEF Spec
-----------------------------------------------------------------------------
(* One caller, as in main.go: nothing enters between its clock reading and  *)
(* its taking the mutex.                                                    *)
OneCaller == \A a, b \in Adders : a = b

InOrder ==
  /\ \A i \in 1..Len(admitted) : admitted[i].flow.time <= clock /\ ~admitted[i].overtaken
  /\ \A a \in Adders : pc[a] = "lock" =>
       /\ flow[a].time <= clock
       /\ \A i \in 1..Len(admitted) : admitted[i].flow.time <= flow[a].time

LEMMA InOrderInductive ==
  ASSUME OneCaller, TypeOK, TypeOK', InOrder, [Next]_vars
  PROVE  InOrder'
<1>1. \A i \in 1..Len(admitted) : admitted[i].flow.time \in Nat
  BY AdmittedType
<1>2. clock \in Nat /\ \A a \in Adders : flow[a].time \in Nat
  BY NetworkAssumption DEF TypeOK, Time, Flows
<1>3. CASE Tick
  BY <1>1, <1>2, <1>3 DEF Tick, InOrder
<1>4. ASSUME NEW a \in Adders, NEW key \in Keys, BuildFlow(a, key) PROVE InOrder'
  <2>1. /\ UNCHANGED <<clock, admitted>>
        /\ flow'[a].time = clock
    BY <1>4 DEF BuildFlow, TypeOK
  <2>2. \A b \in Adders : b = a
    BY DEF OneCaller
  <2>. QED
    BY <1>2, <2>1, <2>2 DEF InOrder
<1>5. ASSUME NEW a \in Adders, Suppress(a) PROVE InOrder'
  BY <1>5 DEF Suppress, InOrder, TypeOK
<1>6. ASSUME NEW a \in Adders, Admit(a) PROVE InOrder'
  <2>. DEFINE n == Len(admitted)
  <2>1. /\ Len(admitted') = n + 1 /\ n \in Nat
        /\ \A i \in 1..n : admitted'[i] = admitted[i]
        /\ admitted'[n + 1].flow = flow[a]
        /\ admitted'[n + 1].overtaken = Overtaken(flow[a])
    BY <1>6, AdmittedGrows DEF TypeOK
  <2>2. clock' = clock /\ pc[a] = "lock" /\ \A b \in Adders : pc'[b] = "idle"
    BY <1>6 DEF Admit, TypeOK, OneCaller
  <2>3. flow[a].time <= clock /\ ~Overtaken(flow[a])
    BY <1>1, <1>2, <2>2 DEF InOrder, Overtaken
  <2>4. \A i \in 1..(n + 1) : i \in 1..n \/ i = n + 1
    BY <2>1
  <2>. QED
    BY <2>1, <2>2, <2>3, <2>4 DEF InOrder
<1>7. CASE UNCHANGED vars
  BY <1>7 DEF vars, InOrder
<1>. QED
  BY <1>3, <1>4, <1>5, <1>6, <1>7 DEF Next

LEMMA InOrderInvariant == OneCaller => (Spec => []InOrder)
<1>. SUFFICES ASSUME OneCaller PROVE Spec => []InOrder
  OBVIOUS
<1>1. Init => InOrder
  BY DEF Init, InOrder
<1>. QED
  BY <1>1, InOrderInductive, TypeInvariant, PTL DEF Spec

(* A flow of f's key that was admitted within a window before f.            *)
Twin(f) ==
  dedupWindow > 0 /\ \E i \in 1..Len(admitted) :
    /\ admitted[i].flow.key = f.key
    /\ f.time - admitted[i].flow.time <= dedupWindow

AdmitsIffNew ==
  [][\A a \in Adders : pc[a] = "lock" /\ pc'[a] = "idle" =>
       (admitted' = admitted <=> Twin(flow[a]))]_vars

(* main alone calls Add, and for one caller deduplication is exact: a flow  *)
(* is kept if and only if none of its key was admitted in the window before *)
(* it, as if nothing were ever purged from the map.                         *)
THEOREM MainDeduplicatesExactly == OneCaller => (Spec => AdmitsIffNew)
<1>. SUFFICES ASSUME OneCaller PROVE Spec => AdmitsIffNew
  OBVIOUS
<1>. DEFINE Decides(a) == pc[a] = "lock" /\ pc'[a] = "idle" =>
                            (admitted' = admitted <=> Twin(flow[a]))
<1>1. ASSUME TypeOK, DedupInv, InOrder, AdmittedAreSpaced', [Next]_vars, NEW a \in Adders
      PROVE  Decides(a)
  <2>. SUFFICES ASSUME pc[a] = "lock", pc'[a] = "idle"
                PROVE  admitted' = admitted <=> Twin(flow[a])
    OBVIOUS
  <2>1. Suppress(a) \/ Admit(a)
    BY <1>1 DEF Next, vars, Tick, BuildFlow, Suppress, Admit, TypeOK
  <2>2. CASE Suppress(a)
    <3>1. Duplicate(flow[a]) /\ flow[a].key \in Keys /\ admitted' = admitted
      BY <1>1, <2>2 DEF Suppress, TypeOK, Flows
    <3>2. flow[a].key \in Remembered(dedup)
      BY <3>1 DEF Duplicate, Remembered
    <3>. QED
      BY <1>1, <3>1, <3>2 DEF DedupInv, EntriesAreAdmitted, Duplicate, Twin
  <2>3. CASE Admit(a)
    <3>. DEFINE n == Len(admitted)
    <3>1. /\ Len(admitted') = n + 1 /\ n \in Nat
          /\ \A i \in 1..n : admitted'[i] = admitted[i]
          /\ admitted'[n + 1].flow = flow[a]
          /\ admitted'[n + 1].overtaken = Overtaken(flow[a])
      BY <1>1, <2>3, AdmittedGrows DEF TypeOK
    <3>2. ~Overtaken(flow[a])
      <4>1. flow[a].time \in Nat /\ \A i \in 1..n : admitted[i].flow.time \in Nat
        BY <1>1, AdmittedType, NetworkAssumption DEF TypeOK, Time, Flows
      <4>. QED
        BY <1>1, <2>3, <4>1 DEF Admit, InOrder, Overtaken
    <3>3. ASSUME dedupWindow > 0, NEW i \in 1..n, admitted[i].flow.key = flow[a].key
          PROVE  flow[a].time - admitted[i].flow.time > dedupWindow
      <4>1. i \in 1..Len(admitted') /\ n + 1 \in 1..Len(admitted') /\ i < n + 1
        BY <3>1
      <4>. QED
        BY <1>1, <3>1, <3>2, <3>3, <4>1 DEF AdmittedAreSpaced
    <3>4. ~Twin(flow[a])
      <4>1. flow[a].time \in Nat /\ \A i \in 1..n : admitted[i].flow.time \in Nat
        BY <1>1, AdmittedType, NetworkAssumption DEF TypeOK, Time, Flows
      <4>. QED
        BY <3>3, <4>1, WindowType DEF Twin
    <3>5. admitted' # admitted
      BY <3>1
    <3>. QED
      BY <3>4, <3>5
  <2>. QED
    BY <2>1, <2>2, <2>3
<1>2. TypeOK /\ DedupInv /\ InOrder /\ AdmittedAreSpaced' /\ [Next]_vars
        => [\A a \in Adders : Decides(a)]_vars
  BY <1>1
<1>. QED
  BY <1>2, TypeInvariant, DedupInvariant, InOrderInvariant, DuplicatesSuppressed, PTL
     DEF Spec, AdmitsIffNew
=============================================================================
