# A verification project for ebpf-edr

TLA+ models of the agent in this repository, the TLC configurations that check
them on small instances, and proofs of most of their safety properties that
TLAPS checks for every value of the constants. `PROJECT.json` lists the runs,
the lines of code behind each definition, the hazards, the findings and the
theorems.

To check a module: `tlc -config X.cfg M`; to check the proofs of one:
`tlapm XProofs.tla`, for the seven modules named so, and `tlapm Recursion.tla`.

## 1. The system

ebpf-edr is a set of BPF programs and a Go agent, with a dashboard on top.

```
 BPF programs ──> ring "events" ──> readLoop ─┐
 (monitor.bpf.c)    drop counter               ├─> channel ─> main loop ─┬─> NetworkStore.Add
 XDP program ──> ring "xdp_events" ─> readLoop ┘                         └─> Detector.Handle
 (xdp.bpf.c)                                                                   │ onAlert
 2 s ticker ─> ObserveRingbufDrops                          AlertStore.Add <───┴──> WebhookSink.Publish
 SIGTERM ─> Close ─> os.Exit                                                           │ queue
 HTTP ─> Snapshot of the stores <─ dashboard polls                                  worker ─> endpoint
```

| component | state | operations | interacts with |
|---|---|---|---|
| BPF programs (`bpf/monitor.bpf.c`) | per-CPU `scratch` event; LRU maps `exec_history`, `exec_paths`, `memfd_pids`; `ringbuf_drops` | one program per tracepoint or probe; `fill_common`, `submit_event` | the processes they watch; the ring |
| XDP program (`bpf/xdp.bpf.c`) | ring `xdp_events` | `xdp_ingress`, `emit` | its ring |
| Loader runtime (`agent/loader.go`) | `LoadedProbes`: readers, channel, `done`, `lastDrops` | `LoadAndAttach`, `readLoop`, `Read`, `ObserveRingbufDrops`, `Close` | rings, main loop, ticker, signal goroutine |
| Main loop (`agent/main.go`) | the event in hand | read, record, count, detect | everything in userspace |
| Detector (`agent/detect.go`) | `procs`: the last exec of each tgid | `Handle` and its handlers, `reaper`, `emit` | main loop, reaper goroutine, `onAlert` |
| Network store (`agent/network.go`) | `flows`, `dedup` | `Add`, `Snapshot` | main loop, HTTP |
| Alert store (`agent/store.go`) | `alerts`, the counter by rule | `Add`, `Snapshot` | `onAlert`, HTTP |
| Webhook (`agent/webhook.go`) | `queue` | `Publish`, `worker` | `onAlert`, an endpoint outside |
| Metrics (`agent/metrics.go`) | counters, a histogram | increments | all of the above |
| Event ABI (`agent/events.go`) | none | `parseEvent`, names | loader |
| Container context (`agent/container.go`) | none | one read of `/proc/<tgid>/cgroup` | main loop |
| Config, HTTP API, helpers | none of their own | parsing, snapshots | main |
| Dashboard (`dashboard/src`) | the last list of alerts, `connected` | polling | HTTP API |

What is hard about it, and what makes each part correct:

* **Transport.** Programs on several CPUs, two reader goroutines, the main
  loop, a ticker and a signal goroutine run at once; the ring and the channel
  are bounded. Correct means: an event that the kernel accepted is neither lost,
  repeated nor overtaken within its ring, even around a shutdown; nothing is
  read before it is written; each loss in the main ring reaches the metric
  once; the agent ends when told to, wherever its goroutines are blocked.
* **BPF programs.** They share a scratch event per CPU and three maps that
  outlive system calls, execs that fail and processes. Correct means: a program
  submits its own event with its own flags, and a correlation over the maps
  finds what the life of the process calls for.
* **Startup.** Some two dozen kernel resources are taken one after another, each
  of which may fail. Correct means: whatever was taken is given back on every
  path, last things first, and only what is required can stop a start.
* **Parsers, event layout, container.** A packet's fields go through two
  hand-written walks, a struct laid out by another compiler, a decoder with
  fixed offsets and a lookup by a tgid that may be someone else's by then. Correct
  means: the record at the end says what the packet or the process was.
* **Detector.** A decision is taken on a copy after the mutex is released, as
  the reaper and the clock go on. Correct means: the three-second correlation
  neither misses nor invents, every flag of the kernel ends in an alert unless
  policy forbids it, and memory is given back.
* **Network store.** The clock is read outside the mutex. Correct means:
  exactly the newest flows are kept, and duplicates are suppressed for one
  window and no longer.
* **Alert store and webhook.** Delivery races a timeout and an exit. Correct
  means: the main loop never waits, each alert is accounted for once, and the
  endpoint sees it at most once.
* **Dashboard.** Polls overlap, overtake each other and fail. Correct means: what
  is shown ends up being what is there, and a console whose agent is gone says so.

## 2. The modules

| module | models | state and actions |
|---|---|---|
| `Startup` | `LoadAndAttach`, `Close` as its error path, the ends of `main` | below |
| `LossyFifo` | nothing of the code: what the transport promises | `sent`, `dropped`, `delivered` per lane; `Accept`, `Lose`, `Deliver` |
| `EventTransport` | rings, `submit_event`/`emit`, `readLoop`, `Read`, main loop, `ObserveRingbufDrops`, `Close` | below |
| `KernelHooks`, `MCKernelHooks` | every program of `monitor.bpf.c` and its maps | below |
| `PacketParser` | `xdp_ingress`, `emit_ip_packet` | pure operators |
| `EventAbi` | `struct event`, `parseEvent`, the names of numbers | pure operators |
| `ContainerContext` | `container.go` | pure operators |
| `Telemetry`, `MCTelemetry` | the way of one observation through the three above and `main.go` to a `NetworkFlow` | below |
| `Detector` | `detect.go` | below |
| `Verdicts` | nothing of the code: what the detector promises | `current`, `findings`, `age` of each tgid's last exec; `Take`, `Conclude`, `Pass` |
| `NetworkStore`, `MCNetworkStore` | `network.go` | below |
| `AlertSink` | `store.go`, `webhook.go`, `onAlert` | below |
| `Outbox` | nothing of the code: what the webhook promises | `pending`, `reached`, `straying`, outcomes; `Take`, `Refuse`, `Reach`, `Deliver`, `Fail` |
| `Console` | `/api/alerts` and `useAlerts.ts`, over `AlertSink` | below |
| `StartupProofs`, `EventTransportProofs`, `KernelHooksProofs`, `DetectorProofs`, `NetworkStoreProofs`, `AlertSinkProofs`, `TelemetryProofs` | theorems about those modules; `AlertSinkProofs` also about `Console`, `TelemetryProofs` about the three modules that `Telemetry` extends | |
| `Recursion` | nothing of the code: induction and recursive definitions, for the proofs | |

Each module holds, next to a definition, the *slips* used to test the
properties: the same definition with a plausible mistake (a dropped guard, a
swapped order, a value read again). No specification uses them. `PROJECT.json`
("mutants") pairs each with the property it breaks when put in place.

### Startup

`pc` is the next step of `LoadAndAttach`, of `Close` or of `main`; every step that
takes a resource either adds it to `held` or goes to the step at which the code's
error path begins. `held` is what the process has open in the kernel, `lp` what
`LoadedProbes` knows of: between `AttachXdp` and `XdpReader` the two differ, since the
XDP object and its link are in local variables, and that is where `xl.Close()` and
`xcoll.Close()` (`XdpLinkOff`, `XdpObjectOff`) stand in the code. The table of hooks
is `1..(Required + Optional)`, the required ones first, as in the source.
`reading` are the rings that a `readLoop` was started for.

### EventTransport

An event is `<<ring, number>>`, its place among its ring's reservations.
`ring[r]` and `writing[r]` are the ring buffer, `reserved` and `lost` count
attempts, `drops` is the `ringbuf_drops` map. Each reader is at `rd.Read`
("read") or in its `select` ("send"). `events` is the channel; `handled[r]` is
the history of what `detector.Handle` got. `closer` is how far the signal
goroutine has come in `Close` and `os.Exit`.

| code | actions |
|---|---|
| `bpf_ringbuf_reserve` succeeding / failing, `bpf_ringbuf_submit` | `Reserve`, `ReserveFails`, `Submit` |
| `rd.Read` returning a record / `ErrClosed` | `ReaderRead`, `ReaderClosed` |
| `select` in `readLoop` | `ReaderSend`, `ReaderDone` |
| `Read`, the body of the main loop | `MainRead`, `MainHandle` |
| `ObserveRingbufDrops` | `TickLookup`, `TickAdd` |
| `Close`, line by line; `os.Exit` | `Signal`, `CloseReader`, `CloseLinks`, `CloseCollections`, `Exit` |

Programs go on reserving and submitting until the links are closed. A reader
still sends what it holds, or gives it up, after `done` is closed.

### KernelHooks

The environment is part of the model: `proc[t]` is the process that has tgid
`t`, with the binary it runs, the `execve` in progress, the path of its last
successful exec and whether it called `memfd_create`. `ExecSucceeds`,
`ExecFails`, `Recycle` (exit, and another process gets the tgid) and `LruEvict`
are its steps. A program is two steps: it fills the scratch event of its CPU,
sets flags and updates maps (`trace_*`), then submits (`submit_event`);
programs of other CPUs and the environment run between. Programs whose
flags depend on their own arguments only are operators that give the set of
flag sets they can produce (`trace_openat`, `trace_socket`, ...), combined in
`trace_stateless`. `running[c].deserved` is the history that the properties
compare the submitted flags with.

### Telemetry

One observation at a time: `XdpIngress`, `KprobeIp` or `Socket` submits an event,
`MainLoop` is `readLoop`'s `parseEvent`, the container lookup and the `NetworkFlow`
that `NetworkStore.Add` builds, and `Recycle` gives the tgid to another process
before that. `seen` keeps what happened, for the properties to compare the flow with.

* A packet (`PacketParser`) is what its sender put into it: VLAN tags, EtherType, the
  chain of extension headers with their length bytes, the upper protocol and how
  many bytes are in the frame. A program reads at offsets: `HeaderAt` gives it the
  header that starts there and other bytes where none does, so a walk that takes a
  wrong step reads something wrong. `Walk` is the loop of both programs, with the
  end of the frame for `xdp_ingress` and without one for `emit_ip_packet`, whose
  probes of kernel memory succeed beyond it.
* An event (`EventAbi`) is a function from C's field names; `COffset` lays the fields out
  as the compiler does and `GoOffset` as `parseEvent` reads them. A field read anywhere
  but at its place gives a stray value.
* A cgroup file (`ContainerContext`) is a sequence of lines of path segments, of
  which the code asks a prefix, whether the rest is hexadecimal, and its length.

### Detector

`procs[t]` is the *age* of the remembered exec: time passes for all entries at
once in `Tick`, and ages stop one past the TTL. `Handle` is one step, except for
`handleConnect`: `ConnectLookup` copies the entry under the mutex and
`ConnectDecide` decides, with `Tick` and `Reap` in between. `alerts` is what
`onAlert` got for the event in hand. `judged` and `seen` are histories of the
execs that policy let through and of all of them.

`Verdicts` is the abstract specification: an engine that remembers every exec that counts and
gives each event the verdict that a table (`Grounds`) names for it. It has no reaper, no ttl and
no copy. `ImplementsVerdicts` maps `judged` to its ages, cut off at the window, and the
alerts to its findings.

### NetworkStore

`Add` is two steps: `BuildFlow` reads the clock, and `Suppress` or `Admit` is
the critical section. `admitted` is the history of all flows ever admitted; it
also records whether a later reading had been admitted first ("overtaken").

### AlertSink

`Add` and `Publish` are the two calls of `onAlert` in the main goroutine.
The worker's `client.Do` is `Arrive` (the endpoint has it) and then `Accepted`,
`Rejected` or `TimesOut`; it can also fail before that (`PostFails`,
`TimesOut`), and a request given up may still get through (`ArriveLate`). `Exit`
can happen at any point.

`Outbox` is the abstract specification: an alert offered is taken or refused, those taken
end in their order, and the endpoint gets each at most once. `ImplementsOutbox` maps
the worker's alert and the queue behind it to the alerts pending. It says what the
metrics alone cannot: a queue that made room by dropping its oldest alert would keep all the
sums and violate it.

### Console

`Poll` is the interval's callback and the agent's answer in one step: the snapshot is
a copy under the mutex, and that it was made later cannot be told from a later poll.
`requests` are in flight; any of them may be answered next (`Answered`) or fail
(`RequestFails`). `shown` and `connected` are the state of the React hook.

## 3. The runs

| run | properties and what they show |
|---|---|
| `transport` | Safety: `NoAcceptedRecordLost`, `HandledInKernelOrder`, `NoTornRecord`, `LossMetricNeverOverstates`; the inductive invariant `PipelineInv`; refinement `ImplementsLossyFifo`; liveness: `MainLossReported`, `AcceptedRecordHandled`, `ShutdownCompletes` |
| `hooks` | `SubmitsOwnEvent`; `MemfdThenExecFlagged` and `SelfDeleteFlagged` across failed execs, reuse of tgids and eviction; `TypeOK` includes that an event has only flags of its kind |
| `detector` | `RecentShellReported`, `FlaggedEventAlerts`; refinement `ImplementsVerdicts`, which says exactly which alerts each event has; liveness: `OldExecForgotten` |
| `network` | `RetainsNewest`, `AdmittedAreSpaced`, `SuppressedHasTwin`, `DedupHoldsOneWindow` |
| `sink` | `StoreKeepsNewest`, `EveryAlertAccounted`, `EndpointSeesEachOnceInOrder`, `DeliveredWasReceived`, `MainNeverBlocked`; refinement `ImplementsOutbox`; liveness: `QueuedIsPosted`, `ConsoleCatchesUp`, `ConsoleNoticesExit` |
| `startup` | `ReleasedAll`, `NothingOutlivesItsObject`, `RequiredDecide` |
| `telemetry` | `XdpFlowIsThePacket`, for some 3000 frames; `SocketFlowIsTheProcess` |
| `hooks_ld_preload` | finding: `LD_PRELOAD` is never recognised |
| `hooks_exec_history` | finding: `exec_history` names the caller, not the binary executed |
| `detector_allowlist` | finding: an allowed exec changes what is found for later events |
| `sink_labels` | finding: the labels of `edr_alerts_total` are swapped |
| `telemetry_buffers` | finding: the socket buffer hooks look for the IP header in the wrong place |

Each of the last five checks one statement of a document, a comment or the
metric's description, and TLC finds it violated; `PROJECT.json` ("findings")
quotes it and the code.

### Bounds, and why they are enough

* `transport`: rings of two records, a channel of one, four attempts in the
  main ring and one in the XDP ring. Two records fill the main ring, so the third
  and fourth attempts can fail; both failures can fall before, between or after
  the two steps of a reading of the drop counter. With the XDP event in the
  channel, the main ring's reader is blocked on it while its ring is full and the
  last attempt fails, and the two readers compete for the only slot. The
  safety properties are also proved without the bounds.
* `hooks`: two CPUs running threads of one tgid. Programs of different tgids
  share nothing but the scratch slot of a CPU, and different CPUs share nothing
  but the entries of a tgid; a tgid is used again any number of times. CPUs are
  interchangeable, so they are a symmetry set; no property here is temporal.
* `detector`: one tgid, since `procs` entries do not affect one another;
  four comms, one per class the code tells apart and one in none; a window of
  two ticks in a TTL of three, a reaper every two, so that the reaper fires
  inside and outside the window and between lookup and decision. One comm, one
  path and two rules are in the policy.
* `network`: a capacity of two, so the purge needs the fifth key; six calls;
  two callers; a window of one tick on a clock of three. Adders and keys are
  symmetric; the temporal property checked is an action property.
* `sink`: a history of two, a queue of one and three alerts: one more than the
  history holds, and one more than the queue and the worker hold together. Two requests
  in flight can overtake each other. One rule is enough there; `sink_labels` has two.
* `startup`: two required and four optional hooks, so that the loader can stop
  at the first and at a later required hook and every subset of the optional ones
  may fail. Hooks of one class do not differ; the proofs are for any number.
* `telemetry`: chains of up to two extension headers of every measure (8, 24, 256
  and 264 bytes and the fragment header) and of seven to nine short ones, around
  the limit of eight; each frame is cut before, in and behind every header. IPv4
  headers of 4, 5, 6 and 15 words. Ports, addresses and names are one value each:
  the code copies them. Five cgroup files, among them nested containers, a line that
  does not parse, an unknown prefix and an id of eleven digits. Packets do not affect one
  another, so one at a time is enough.
* `telemetry_buffers`: the headroom of 78 bytes is that of an Ethernet driver
  (64 and the link header). `MCElsewhere` is what may lie there.

### Fairness

* `EventTransport`: a reserved record is submitted (the verifier bounds a
  program); goroutines run; the ticker fires; `Close` has no blocking call. A
  blocked send is strongly fair: the channel wakes waiting senders first in, first
  out, each time main takes an event. Nothing forces an event or a signal, and no
  liveness property needs them.
* `Detector`: the clock advances and the reaper's ticker fires.
* `AlertSink`: the goroutines run and a request ends, at the latest by the
  client's five-second timeout (weak fairness of `TimesOut`). That the endpoint
  gets a request or answers is never assumed.
* `Console`: the interval fires, and some request ends, answered or not. That
  requests stop failing is a premise of `ConsoleCatchesUp`, not fairness; of two
  overlapping answers any may come first, for ever.
* `KernelHooks`, `NetworkStore`, `Startup` and `Telemetry` have no fairness and no liveness
  property: nothing in them waits for another step except for the CPU or the
  mutex, or for the kernel to answer a call.

Deadlock is checked for the transport (after `Exit` there is an explicit
stuttering step), the hooks and the detector. It is off for `network` and
`sink`, which end when the calls they are bounded to have been made, for
`startup`, which ends with the process, and for `telemetry`, which ends with the flow.

## 4. What is proved

The theorems hold for every value of the constants that their modules' named
assumptions allow: any capacities, numbers of CPUs, processes, hooks, callers and keys,
any policy, and bounds on attempts, calls and the clock as large as one likes. Each
safety theorem `Spec => []P` comes from an inductive invariant, with one lemma per
action; where a run checks `P`, it shows it on a small instance.

| module | assumes | theorem | statement |
|---|---|---|---|
| `StartupProofs` | `StartupAssumption` | `TypeCorrect` | `Spec => []TypeOK` |
| | | `EverythingReleased` | `Spec => []ReleasedAll` |
| | | `ObjectsGoLast` | `Spec => []NothingOutlivesItsObject` |
| | | `OnlyRequiredHooksDecide` | `Spec => []RequiredDecide` |
| `EventTransportProofs` | `TransportAssumption` | `TypeAndLossInvariant` | `Spec => [](TypeOK /\ LossInv)` |
| | | `LossMetricCorrect` | `Spec => []LossMetricNeverOverstates` |
| | | `PipelineInvariant` | `Spec => []PipelineInv` |
| | | `KernelOrder` | `Spec => []HandledInKernelOrder` |
| | | `NoSilentLoss` | `Spec => []NoAcceptedRecordLost` |
| | | `NoTornRead` | `Spec => []NoTornRecord` |
| | | `TransportImplementsFifo` | `Spec => ImplementsLossyFifo` |
| `KernelHooksProofs` | `KernelHooksAssumption` | `TypeCorrect` | `Spec => []TypeOK` |
| | | `OwnEventSubmitted` | `Spec => []SubmitsOwnEvent` |
| | | `MemfdCorrelation` | `Spec => []MemfdThenExecFlagged` |
| | | `SelfDeleteCorrelation` | `Spec => []SelfDeleteFlagged` |
| | | `LdPreloadNeverFlagged` | `Spec => []PreloadUnseen` |
| | | `ExecHistoryNamesCaller` | `Spec => []CallerNamed /\ OldNameKept` |
| `DetectorProofs` | `DetectorAssumption` | `TypeCorrect` | `Spec => []TypeOK` |
| | | `FlagsReachAlerts` | `Spec => []FlaggedEventAlerts` |
| | | `RecentShellsFound` | `Spec => RecentShellReported` |
| | | `DetectorGivesVerdicts` | `Spec => ImplementsVerdicts` |
| | | `ReverseShellGrounded` | `Spec => ReverseShellHasGround` |
| `NetworkStoreProofs` | `NetworkAssumption` | `TypeInvariant` | `Spec => []TypeOK` |
| | | `HistoryIsNewest` | `Spec => []RetainsNewest` |
| | | `DuplicatesSuppressed` | `Spec => []AdmittedAreSpaced` |
| | | `SuppressionHasGround` | `Spec => SuppressedHasTwin` |
| | | `DedupBounded` | `Spec => []DedupHoldsOneWindow` |
| | | `MainDeduplicatesExactly` | `OneCaller => (Spec => AdmitsIffNew)` |
| `AlertSinkProofs` | `SinkAssumption` | `TypeCorrect` | `Spec \/ ConsoleSpec => []TypeOK` |
| | | `HistoryIsNewest` | `Spec \/ ConsoleSpec => []StoreKeepsNewest` |
| | | `NoAlertUnaccounted` | `Spec \/ ConsoleSpec => []EveryAlertAccounted` |
| | | `PostedOnceInOrder` | `Spec \/ ConsoleSpec => []EndpointSeesEachOnceInOrder` |
| | | `DeliveredIsTrue` | `Spec \/ ConsoleSpec => []DeliveredWasReceived` |
| | | `WebhookIsOutbox` | `Spec \/ ConsoleSpec => ImplementsOutbox` |
| | | `MetricSwapsLabels` | `Spec \/ ConsoleSpec => []LabelsSwapped` |
| | | `ConsoleShowsHistory` | `ConsoleSpec => []ShownWasTheHistory` |
| `TelemetryProofs` | `TelemetryAssumption` | `FrameEvent` | `xdp_ingress(p)` is the event of the packet `p`, or none |
| | | `BufferEvent` | `emit_ip_packet(p, ...)` is the event of a legible `p` that it takes for a packet |
| | | `ContextIsInnermost` | `containerContext(file) = Innermost(file)` |
| | | `TelemetryInductive` | `Spec => []TelemetryInv` |
| | | `XdpFlowCorrect` | `Spec => []XdpFlowIsThePacket` |
| | | `SocketFlowCorrect` | `Spec => []SocketFlowIsTheProcess` |

*Startup.* That nothing is left after a failure says nothing of the way there.
`Ownership` relates `held` to `lp` at every step (equal, but for what is in local
variables, and during `Close` for what has been closed), `Known` says which of them
`LoadedProbes` can have at that step, `Progress` how far the loop over the hooks and the
readers have come, `RequiredHeld` that the links of required hooks are kept.

*The loss metric.* `LossMetricNeverOverstates` is not inductive: between
`TickLookup` and `TickAdd` the mark is about to become `observed`. `LossInv` adds
that `observed` then lies between `lastDrops` and `drops`; type correctness and
`LossInv` are proved together, because the metric's subtraction stays in `Nat`
only by `LossInv`.

*The pipeline.* "Handled in order" says nothing about the records under way, so
`PipelineInv` describes each stage by reservation numbers:

* `RingIsSuffix`: the ring holds the last `Len(ring)` numbers, in order, and all
  unfinished records are in it; so what the reader takes is number `Taken + 1`;
* `StagesOrdered`: handled < in main's hands < in the channel < in the reader;
  nothing past the reader is younger than `Taken`;
* `NoGap`: each stage's numbers continue the one before, until a reader stops,
  which it does only after `done` is closed;
* `Increasing`: the events of a ring are in order in the shared channel, where
  those of the other ring lie between them.

The refinement follows step by step: `MainHandle` is a `Deliver`, because
`PipelineInv` makes the number in main's hands the next one; `Reserve` and
`ReserveFails` are `Accept` and `Lose`, and all other steps stutter.

*The hooks.* The flags of an event are set from the maps, so two invariants are
needed. `MapInv` ties the maps to the life of the process: `MemfdKept` (a process
that has called `memfd_create` has its entry unless it was evicted) and
`PathKept` (the path entry is that of the `execve` in progress, or of the last exec that
succeeded). `ScratchInv` is about the slots: every program builds an event with flags
of its kind and all those the process deserves, which one lemma (`ScratchBuilds`) shows
to be kept whatever other CPUs do.

Two theorems say what the code does where a run finds a statement violated, so that the finding
does not depend on the instance. `LdPreloadNeverFlagged`: no event has the flag, because a
variable of that name, however long, fills the twelve bytes that are read of it, for which the helper
returns 12 where the code expects 11 (`PreloadNeverRecognised`).
`ExecHistoryNamesCaller`: an entry of `exec_history` that a completed `execve` leaves is
the name of its caller.

*The detector.* The correlation needs that what `procs` remembers is true for as long as
it matters (`Remembers`: an entry is the age of the last exec that policy let
through, and there is one while that age is within the TTL), and that the copy stays true
between lookup and decision (`Copied`), although the reaper may have deleted the entry.

The same two facts give the refinement. `Handle` is a `Take` (`HandledIsTaken`); the
decision is a `Conclude`, because of `Copied` (`DecisionConcludes`); `Tick` is a `Pass`, since an age past
the window is one to which no verdict looks (`TickPasses`); `Reap` and the lookup stutter. That the
code's switch and the table `Grounds` agree is `ExecGrounds`, `ConnectGrounds` and `OtherGrounds`.

*The network store.* `DedupInv`: an entry of `dedup` is the time of an admitted
flow of its key, and an admitted flow is either no younger than the entry of its key or
already more than a window older than some admitted flow, so a purge may have taken it.

With several callers a flow may be overtaken between the reading of the clock and the mutex, and
the theorems allow for that. `main` is a single caller, and for it they come together as an
equivalence (`MainDeduplicatesExactly`): readings are admitted in their order
(`InOrderInvariant`), so the purge removes nothing that a later flow could repeat.

*The webhook.* The invariant says by numbers where each alert is: those in the queue
come after the one being posted, which comes after all that are finished with, and the
counters tell how many are where. A step of `Console` leaves `AlertSink` alone or is a step
of it, so the theorems hold beneath the dashboard too. For the refinement one more
fact is needed, `AwaitedReached`: the endpoint has got the alert whose answer the worker awaits.
Then `Publish` is a `Take` or a `Refuse`; the worker's `Receive` moves an alert from the
queue to the worker's hands, where it is still pending, and stutters; `Arrive` and `ArriveLate` are
of alerts that the endpoint has not got, by the order of the numbers; and each end of a
request ends the oldest alert pending.

`MetricSwapsLabels` is the finding of `sink_labels` for every instance: the counter of a rule and
a severity is the number of alerts with the two exchanged. `ConsoleShowsHistory` is the safety side of the
dashboard: an answer that comes late shows an old list, but never one that there was not.

*Telemetry.* `TelemetryInv` adds to the two properties that what is on its way is what the program
made of what it saw, and that the process behind the tgid has had it since. The step to what is
shown is in the functions, and most of `TelemetryProofs` is about them. `TelemetryAssumption` says
that packets are packets (`IsPacket`: fields in their widths, an IPv6 upper protocol
that is not an extension) and that cgroup files are sequences of lines (`IsCgroupFile`).

* *The layout.* `COffset` and `GoOffset` are recursive functions. Each has a solution, a list of
  offsets that is given (`COffsetValues`, `GoOffsetValues`), so they are it; every field of a
  network event is then found where C has put it (`NetworkFieldsFound`), and four bytes survive the
  little-endian load and being taken apart again (`AddressRoundTrip`).
* *The walk.* `Start` and `WalkRounds` are recursive over a chain of any length. `StartGrows`: headers do
  not overlap, so what is read where one starts is that header (`HeaderFound`). `AfterRounds` is the
  invariant of the loop: after `i` rounds the walker stands behind `i` headers, or behind all there
  are, or has refused one that is too long or not in the frame. `RoundKeeps` is its step, `WalkResult` what
  eight rounds give; a frame is legible exactly if they refuse nothing (`LegibleIsPassable`). `FrameEvent`
  and `BufferEvent` are what the two programs make of it. The second says that the place it looks at and
  the version it reads, the faults that `telemetry_buffers` shows, are the only ones of `emit_ip_packet` for a
  whole packet whose transport header is there.
* *The containers.* The code searches the lines forwards and the segments backwards; `LastNamedSelected` and
  `ContextIsInnermost` show that it finds what the property chooses.

*Induction over data.* The library's induction theorems have a predicate for a parameter,
which the provers cannot instantiate. `Recursion` proves what is needed with sets in its
place: that `0..n` is well founded under inclusion gives the least number of a set
(`LeastNumber`), that gives induction over a set (`SetInduction`, `BoundedInduction`) and the greatest
number of a bounded set, and induction gives that the equations of a recursive function over
`0..n` have a solution (`PrimitiveRecursion`). To use one, the statement is written as a set comprehension.

## 5. What is only model-checked, and what is not modelled

By TLC only:

* liveness, which rests on fairness: `MainLossReported`, `AcceptedRecordHandled`,
  `ShutdownCompletes`, `OldExecForgotten`, `QueuedIsPosted`, `ConsoleCatchesUp`,
  `ConsoleNoticesExit`;
* `MainNeverBlocked`, which speaks of `ENABLED`.

All other properties of the runs that TLC finds to hold are theorems. The statements that
TLC refutes are not; for three of them section 4 has a theorem that says what holds instead.

Not modelled:

* `config.go` and `util.go`: stateless parsing. The models take the configuration as
  constants or as a choice at the start (`xdpInterface`, `webhook`, `context`).
* `/metrics` and `/healthz`, and `/api/network`, which encodes a snapshot as
  `/api/alerts` does; `App.tsx`, which presents the hook's state, and the clean-up
  of `useAlerts`'s effect, whose arguments never change.
* `DecodeAlerts` and `IsMalicious`, which nothing calls.
* Contents of events that no property tells apart: names that fall into one class
  for the code, the wording of alerts.
* `readLoop` ending on an error other than `ErrClosed` (cilium/ebpf returns one only
  if epoll fails): the ring then fills up and its events are lost from there on.
  Its `continue` on a short record: no program submits one.
* The deferred `Close` of `main`, which never runs beside the signal's: the main loop
  returns only when the channel is closed, and nothing closes it.
* Execs and unlinks through system calls that are not hooked (`execveat`,
  `unlink`), and programs that nest on a CPU.
* HTTP redirects, connection reuse and proxies between the webhook and its
  endpoint; a process killed without `Close`, but for `log.Fatalf` when the
  server cannot listen (`ServeFails`), where the kernel takes the links back.
* `eventsTotal` and the latency histogram: one increment each in the main loop.

Seen while modelling, where no document says otherwise:

* `tcp_v4_connect` and `tcp_v6_connect` are probed at their entry, before the socket has
  its peer, so the address and port of a TCP CONNECT event are those it had before.
* Of a fragment other than the first, four bytes of payload are shown as ports.
* The key of the deduplicator leaves out comm and container (`network.go:28`).
* The version of an IPv6 header is read in the wrong byte order
  (`monitor.bpf.c:663`); the wrong place of the header hides it.
* The detector measures its window from the moments of handling, not from the
  kernel's timestamps, so a backlog can stretch or shrink it.

## 6. The plan

Done: the transport, its abstract specification and its proofs; the BPF programs, the
detector, the network store and the alert store with their proofs; the abstract outbox of the
webhook and the abstract engine of the detector, which they are proved to implement; startup with its proofs; the parsers, the layout of events and the container
lookup with theirs; the dashboard's polling.

Left, in this order:

1. A composition of `LossyFifo` (which the transport is proved to implement) and
   `Detector`, with events that carry the kernel's time: a correlation whose first
   event is lost in a full ring, or whose events stand in a backlog.
2. `Config`: the parsing of the environment, as initial states of the modules that use it.
