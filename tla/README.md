# av-mesh: TLA+ models, checks and proofs

This directory holds a TLA+ development for `av-mesh`: modules translated from
the Rust source, TLC configurations that check them on small instances, and
proofs checked by TLAPS. `PROJECT.json` lists every run, the source lines each
definition stands for, the hazards the properties are aimed at and the findings.
Paths below are relative to the repository root, and `main.rs` is its
`src/main.rs`; `PROJECT.json` calls that root `src/`.

    tlc -workers 2 -config RelayFailover.cfg RelayFailover
    tlapm RelayFailoverProofs.tla

## 1. The system

`av-mesh` replicates live media between nodes. Contributors publish media
objects, relays forward them as FEC-coded datagrams over redundant paths, and
edges decode, cache and serve them as LL-HLS. The parts, the state they keep and
what is hard about them:

| part | state | operations | interacts with | hard because |
| --- | --- | --- | --- | --- |
| failover controller (`RelayFailoverController`, main.rs 2984-3219) | state, desired mode, transition id, ages of the last primary source and secondary repair symbol | `observe`, `tick` | sends lease commands over UDP to the listener of the secondary relay | lost, repeated, reordered commands; crash and restart; timers on both sides |
| failover listener (`run_relay_failover_listener`, 3250-3368) | accepted transition, lease deadline, `promoted` flag | receive a command, lease tick | sets the flag that the forwarder reads, replays the warm buffer | a lease that expires against late heartbeats |
| downstream forwarder (`RelayDownstreamForwarder`, 2415-2855) | per child: `promoted` flag, warm-source replay buffer; gauges | `forward`, `replay_warm_sources` | ingest task and listener task share flag, lock and atomics | flag read before the buffer lock; gauge updated after it |
| relay ingress (`relay_ingress.rs`) | parent sessions, objects being assembled, tombstones, identity index, accounting | register, announce, push a datagram, expire | called by the UDP ingest task; decoded objects go to the live cache | two parents, any order of announcements, symbols and expiry |
| live stream cache (`LiveTsCache`, `LiveState`) | chunk cache slots, epoch, observed parts, segments, inits, cached playlists, a watch channel | commit, epoch switch, retire, playlist, blocking reload, init lookup | one ingest task writes, HTTP handlers read | several locks and awaits per operation |
| talkback lane (`talkback_lane.rs`) | snapshots, replay windows, queues, high-water marks | install, remove, end session, publish, pull, acknowledge | publishers, receivers, control plane | repeated and reordered frames, snapshots replaced under queued frames |
| subscribe authorization (`subscribe_authorization.rs`) | bindings with revisions, invalidation sequence, admissions | install, apply invalidation, install snapshot, authorize, revalidate | controller messages and concurrent connections | gaps and repetitions of invalidations; locks released between steps |
| byte parts and slots (`LiveTsCache`, 298-717, 4305-4867, 5600-5731) | bytes gathered so far, sequence numbers, recorded parts, cache slots | commit a payload, rotate, read a part or segment | the ingest task writes, HTTP handlers wait | a part is taken, written and recorded in three steps; lanes share one cache |
| ingest loops and native audio relay (169-296, 3386-3980) | audio subscriptions, sessions of blocks | receive a datagram, rotate, expire | feed ingress, receiver, cache and failover controller | block ids reused, a failed write ends the task |
| UDP-FEC receiver (`udp_fec.rs`) | flows, objects in flight, completed sets, sequence gaps | push, expire | ingest task, telemetry collector | limits, skipped scans, 32-bit wrap |
| playback admission (`edge_admission.rs`) | rolling egress window, overload flag, sessions | record, admit, snapshot | HTTP handlers | unlocked load and store of the flag |
| tail reads, master playlist, discovery (`AppRouter`) | load counters; otherwise read-only | answer a request | cache, telemetry, admission | answers put together over several awaits |
| fleet (`TelemetryAggregator`, `EdgeLifecyclePlanner`, provisioner) | views of the other nodes, pressure samples, commands | ingest, plan, execute, publish | change feeds between nodes | decisions on old views, several commands at a time |
| replicas (`replication.rs`, `DemandTracker`) | last request of each stream | plan, request | telemetry, control feed | a check, an await and a mark; clocks set back |
| telemetry (`telemetry_fec.rs`), link telemetry, responses, histograms, status | queues, windows, counters | publish, collect, probe, record, query | all nodes | wake-ups, restarts, torn reads, clock steps |
| catalog, delivery buffer, stem subscription | entries, buffered bytes, receive context | insert, list, push, pop, open | the lease of SubscribeGate | a lease that ends between two checks |

What makes each modelled part correct:

- failover: never forward source without a lease; never obey an old command;
  always end an orphaned promotion; give up the secondary only after a primary
  that was stable for the whole recovery window;
- warm buffer: every datagram is sent, dropped or still buffered, never two of
  these; promotion leaves at most the datagram in flight behind;
- relay ingress: limits hold exactly, an object is delivered once, diverse
  parents are really diverse;
- live cache: what is listed is cached, nothing of an old epoch survives its
  switch, a stored playlist can be served for its version, no reload sleeps
  through the part it waits for;
- talkback: at most one delivery per frame, only to receivers of the snapshot
  in force;
- authorization: a lease that revalidates is current with respect to all the edge
  has heard since its binding was installed, and a capability belongs to one connection; a subscriber is listed
  and given only what its lease covers, while it lasts;
- byte parts and slots: every payload byte is in exactly one part, a reader that
  waits is woken, a slot is only read as what it is;
- receiver: limits and counts exact, no object decoded again early, idle ones
  reclaimed, gaps are what the arrivals say;
- playback: overload is backed by measured traffic, a session that is served stays
  served, a player is sent only to edges that were known to serve;
- fleet and replicas: commands run where they are addressed, an informed planner
  keeps the minimum, a plan covers demand and settles, requests are spaced;
- telemetry and status: the newest block is never stranded, each peer delivers
  in order and for its own node, every node is accounted for once in a report.

## 2. The modules

Every component module declares its parameters as CONSTANTS with named
assumptions, has one action per operation or per step between two locks or
awaits, and ends with its properties. A definition called `Bug...` is a wrong
variant of the definition that follows it, kept to show that a property can fail.
`MC...` modules give constants their values; the `.cfg` files hold the bounds.

**RelayFailover** models controller, network and listener. An `Instant` is an
age and a deadline the time left, both capped at the largest value the code
compares them with, so the model has no absolute clock. `Tick` is the whole of
`tick()` with the state change and the heartbeat of `send_desired` (whose send may
fail). `Deliver`, `DeliverDuplicate` and `Drop` are the network; commands in flight
are a set, hence unordered. `Receive` is the receive arm of the listener,
`LeaseExpires` its timer arm. `ControllerCrash`, `ControllerStart` and
`ListenerRestart` forget everything; the first transition id of a new controller is
a wall clock reading, and `clock_monotone` says whether that clock may step back.
`silent_tick` is a history variable. **ForwardingLease** is the abstract promise
of the path: forwarding is granted only with a transition never accepted before
and every grant can end; RelayFailover implements it with
`granted <- promoted, newest <- l_transition_id`.

**WarmSourceReplay** takes the inside of the listener's promotion apart. The
ingest task runs `forward` as load of the flag, push under the lock, gauge
addition, gauge subtraction; the listener runs the swap of the flag, `take_live`
under the lock, the gauge subtraction and one send per step. `fate` is the history
of what happened to each datagram. One child is modelled; in the code the gauge is
the sum over all children. A failed send counts as sent.

**RelayIngress** models `RelayObjectReceiver` as one record `rx`. The actions are
the public calls; each begins with `expire_if_due`, as in the code. The assembler
belongs to the `relay_session` crate (`AssemblerMay`): once the symbols may
suffice it answers with an object, or refuses. A rejected call that changed
nothing but a counter is a stutter. Left out: counters, peers whose address
conflicts, and a failing constructor of the assembler.

**LiveStream** models one stream of `LiveTsCache` other than the default one
(which is never retired). The ingest task commits and retires, one step per await:
`BeginCommit`, `ZeroStream`, `ActivateEpoch`, `ObserveObject`,
`SetInitialization`, `PutSlot`, `RecordObject`, `Notify`, and `RetireZero`,
`ForgetStream`, `UncachePlaylist`. A reader runs the playlist handler:
`Request`, `CheckPosition`, `Wake` or `WaitTimeout`, `ReadPosition`,
`ReadVersion`, `ServeCached`, `CollectSlot` for each slot, the init lookup in state,
cache and slots (`FindInit`, `FindCacheInit`, `FindSlotInit`), `RenderPlaylist`,
`CheckVersion`, `StorePlaylist`, `Reply`. Objects are of five kinds: init,
keyframe, other part, keyframe with init, reboxed audio. A playlist is the set of
segments it lists. The chunk cache is a crate of its own: its slots, `last` (the
contiguous head) and version are modelled as the code uses them.

**TalkbackLane** models the lane; each call is a step (`&mut self`). The replay
window, a `u128` in the code, is the set of the distances whose bits are set. Of two
queue fronts with the same time and sequence either may be pulled first. `pulled`
is the history of deliveries since the snapshot was installed.

**SubscribeGate** models the registry and the gate. A request is `Resolve` (under
the read lock), then `Admit` (the replay guard, under the mutex) or
`VerifierRejects`, then `Commit` or `Rollback`. The controller is external: an
outbox of numbered invalidations, delivered in any order, repeatedly or never, and
exact snapshots. `Install` takes any binding, as `install()` does: one that an
invalidation applied before has overtaken becomes active. The history `since` of an
entry says which invalidations were applied when it was installed (none for the
entries of a snapshot), and `RevalidatedIsCurrent` holds a lease to the others. One
session is modelled, with one number for its three generations.

**DeliveryCatalog** continues it: `PartitionedCatalog` (insert, visible) and
`AuthorizedDeliveryBuffer` (push, pop, clear) of one lease, which may be
invalidated between any two calls. **StemSubscription** turns a verified
capability and a configuration into a receive context and opens datagrams with it.

**ByteParts** is the non-canonical path of `LiveTsCache`: `take`, write and record
of a part as three steps of the ingest task, rotation and shutdown, a failing cache
write, and readers that look, register, look again and wait. A payload is one
numbered byte, so that conservation can be stated. **SlotCodec** is what the slots
hold: canonical objects behind an index, fMP4 slots, bytes, reboxed bundles and
access units, as sequences of fields and bytes with the code's offset arithmetic. A
payload without an envelope is stored as it came. One that begins with the canonical
magic is then read as an index it may not be; the property says what can be served.
**InitCodecs** reads codecs from an init segment as the code does, by searching
for types and following lengths, also in an init that is cut or padded.

**MeshIngest** has the arms of the two ingest loops and the native audio relay. A leaf
with nobody to hear it drops audio unread (`DropAudioEpoch`) and keeps what it
remembered; the history `named` marks a block whose session changed meanwhile.
What receiver, dispatch and cache answer is a choice there and modelled in their
own modules. **UdpFecReceiver** is the receiver with its ladder of limits and its
due-time scan; **SequenceTracker** its gap tracking modulo `SequenceModulus`, and
**SequenceArrivals** drives that with every sequence of arrivals and compares it
with a definition over the whole history.

**TailReads** has bundles, batches and bundle streams, the cache they read, and the
guards that count them, dropped wherever a request ends; a batch may name no part and
then begins at the oldest or the newest. A frame is counted and sent in one step.
**HlsFailover** is the master playlist, read by read; a rendition may be ingesting and
still have no init. **EdgeAdmission** has the egress window, the
overload flag and the session table with a step for each lock, load and store. Every
clock is read before the lock it is used under, so each of those steps takes a reading
from the time since the step before it, a rate and a byte count one from any time.
**OperationsDiscovery** has collectors with a lease, the file they put on edges, and
an edge that reads clock, file and lease one after the other. An edge without a
configured file answers without a lease and is left out.

**EdgeFleet** composes the aggregator's view, the lifecycle planner, the
operator, the provisioner and the change feeds of several nodes. A node may execute
several commands at a time; each waits for its provisioner (`ControlProvisioned`) and
then for the feed (`PublishControl`).
**ReplicaPlacement** fills scopes one replica per step and plans again on the
result; **ReplicaRequests** is the pacing of requests. **TelemetryQueue** and
**TelemetryDecoder** are the two ends of telemetry (a datagram counts as sent when the
send was tried); **MeshStatus** is the aggregator's two locks, fed over connections
and, without one, over datagrams (`FecCollector`), and the status derived from it. A
query is one step, although the code has released the snapshots' lock when it reads peer
states, commands and the stale list; a report torn there is not modelled.
**EdgeResponses**, **LatencyHistogram** and **LinkTelemetry** are the measurements. **Maps** holds
helpers on partial functions and `Subsequence`, the `retain` of a queue.

The modules meet at these points: RelayFailover's `promoted` is the flag
WarmSourceReplay reads and its `Promote` and `Demote` are RelayFailover's
`Receive` and `LeaseExpires`; a datagram that MeshIngest dispatches is a call of
RelayIngress or UdpFecReceiver, and a delivery of either is a commit of LiveStream or
ByteParts; DeliveryCatalog's lease is one of SubscribeGate; EdgeFleet's views are
filled by what TelemetryDecoder collects; a replica that ReplicaPlacement selects
becomes a request of ReplicaRequests.

## 3. The runs

| run | result | what it shows |
| --- | --- | --- |
| `failover` | pass | 9 properties, among them the refinement of ForwardingLease and progress under fair timers, with crashes, loss, duplication, reordering |
| `relay_ingress` | pass | two parents, conflicting identities, expiry, every limit |
| `live_stream` | pass | commits, switches and retirement against a reader |
| `talkback` | pass | frames repeated and reordered, snapshots replaced |
| `subscribe_gate` | pass | two threads and connections against the invalidation stream |
| `media_path` | pass | WarmSourceReplay, UdpFecReceiver, SequenceArrivals, MeshIngest, ByteParts, SlotCodec, InitCodecs, TailReads |
| `playback` | pass | EdgeAdmission, HlsFailover |
| `edge_control` | pass | the other twelve modules |
| `failover_repromote`, `live_reload`, `live_stale_init`, `relay_p95` | violation | findings 1 to 4 |

The last three passing runs check several components that share no state. Their
specification has a variable `focus`, chosen at the start, that says which
component takes steps while the others rest in an initial state; the reachable
states are those of the components one by one, and nothing is lost.
The properties called `...Sound`, and `BytePartsCorrect`, `SlotsCorrect`,
`LinksMeasured`, `TelemetryCollected` and `SubscriberSeesItsOwn`, are conjunctions
of named properties defined above them in their modules, most with the component's
type; each of those has its own comment.

Every property of a passing run has a mutant, a plausible slip in the code, that
TLC refutes; `PROJECT.json` lists them.

**Bounds.** Each is a named constant and a guard.
- Failover: windows of one or two units so that "recent" and "silent" can both
  change within a window; three transition ids, for a promotion and its
  demotion, or a promotion before and after a restart; one restart, one duplicate.
  One binding: commands of a foreign one are ignored by a single guard, and the
  proofs cover every set of bindings.
- Relay ingress: three object keys, two of them of the same logical identity,
  three sessions and limits of one to three, so each limit is met and exceeded.
- Live stream: two epochs, three sequences, a window of two, two parts per
  segment, two commits and two requests: an epoch switch, a gap, a reordering and
  a cache hit all fit, and a reader can overlap both commits.
- Talkback: three sequences with a window of two bits (so that a sequence can fall
  behind it), queues of two, two generations, two audiences of one session.
- Subscribe gate: two bindings of one key, one admission slot, two invalidations,
  a snapshot and three requests of two threads and two connections.
- Media path: four datagrams of two sizes against limits of two objects, three
  datagrams and four bytes; two flows, two blocks, one tombstone per flow and five
  datagrams (packet sequences are the next item's business); five arrivals modulo 8 with two tracked gaps, so a jump crosses the
  wrap; two peers that share a block id; parts of two bytes, segments of two
  parts, a window of two; a leaf, so that audio is
  dropped; every pair of two slot writes, with payloads that begin with each magic,
  their index as written, cut off, into the header and beyond the end; every track with every
  optional field, cut anywhere; two streams, two tail readers, a window of two.
- Playback: two requests at one time, three in all, two counts of bytes under any
  second so far, two sessions with room for one, a window of two seconds; two other edges in each of
  six states, two renditions.
- Edge control: queues of two blocks and four bytes with one envelope too long;
  two peers with room for one and two boots; two edges of one region with a
  minimum of one, a maximum of two and one telemetry path, and an operator who
  closes the region; one collector over a connection and the one over datagrams; four nodes in three
  regions; 21 samples, so that a single slow one is within 5 %;
  windows of two; a collector whose clock is ahead by the whole margin.

Symmetry is used in `subscribe_gate` (threads, connections) and `playback`
(requests, sessions), where no liveness is checked. Deadlock is checked
in `failover`, `relay_ingress` and `talkback`; the environments of the other runs are bounded by
counts or time and may have nothing left to do.

**Fairness** is assumed in `failover` only: time passes, the interval timers
of both tasks keep firing (tokio intervals with `MissedTickBehavior::Skip`) and no
datagram stays in flight for ever. Nothing is assumed about delivery, so demotion
and the end of an orphaned promotion are shown even if every command is lost. The
run for finding 1 adds what favours the code: a controller whose sends succeed
over and over and a network that delivers a command sent over and over. The
property fails nevertheless.

## 4. Findings

1. `failover_repromote`: when a lease runs out the listener sets
   `transition_mode` to `RepairOnly` (main.rs 3322) but keeps the transition id, and
   then takes every further heartbeat of that promotion for stale (3347). A burst
   of loss as long as the lease leaves the path demoted until the controller
   starts another transition, which a primary that stays silent never causes.
2. `live_reload`: the playlist is rendered from a last part and observations read
   at other moments than the version it is cached under (4874, 4883, 4615); a
   blocking reload can be answered with a playlist without its part.
3. `live_stale_init`: a reader that found an init stores it without checking that
   the epoch is still the same (5242), and so can undo the reset of an epoch switch.
4. `relay_p95`: the relay's snapshot (4278) passes buckets that count a duration
   once to a percentile that expects cumulative ones (7444); the longest duration is
   then reported as the 95th percentile, and one slow object among 21 raises
   the alert of main.rs 9958.

Observations made while modelling, which no run asserts:

- `install()` (subscribe_authorization.rs 327-362) compares a binding with no
  invalidation. One that was overtaken before it was installed is active and
  revalidates until the next invalidation or snapshot that concerns it.
- A leaf that dropped audio while nobody listened (main.rs 3561-3566) may attribute
  datagrams of a reused block id to the session before, for up to 15 seconds after
  that session was last named.
- A payload that begins with the canonical magic is stored as it came (4657-4684) and
  read back as invalid, or as the piece of it that its bytes happen to index; one that
  begins with the header of an access unit can be read as that unit.
- A rate whose second was read before others recorded (edge_admission.rs 134, 157)
  divides their bytes by a span that ends too early: overload may be declared on
  traffic of a longer time than the seconds it is divided by.

- A part belongs to the segment current when it arrives (6240); a late part is put
  before the keyframe of the newer segment, which the playlist then omits (5003-5009),
  although the comment there speaks of the start of the window only.
- A talkback acknowledgement is compared with the highest pulled sequence only
  (talkback_lane.rs 575), so it may name a frame that was never pulled; the
  comment at 542 says otherwise.
- "Keeps one edge per region" (README.md of the repository, 120-122) holds for a
  planner whose view is up to date; on an old view two planners can close the last
  two edges (edge_lifecycle.rs 125).
- A control command's id is a millisecond reading (10158), so two commands recorded
  in the same millisecond share it.
- Payloads of the configured stream with and without a prefix both number their
  parts from 0 (4305, 4655) and would overwrite each other's slots.
- A bundle stream whose cursor has left the cache repeats its wait for ever (12836).
- The 503 "No configured HLS rendition is currently fresh" is also the answer of an
  overloaded edge without an alternative whose renditions are fresh.
- HEVC, VP9 and AV1 video beside AAC lists the audio codec only, and `fpcm` counts
  as audio without a codec string (13183-13332).

## 5. The proofs

`RelayFailoverProofs` proves, for all values of the windows, bounds and bindings
that satisfy `WindowAssumption` (what `Args::validate` enforces) and
`ParameterAssumption`:

- `TypeCorrect`, `ControllerCorrect`, `MediaGapCorrect`, `LeaseCorrect`:
  `Spec => []Inv`. `ControllerConsistent` needs the type invariant,
  `PromotedOnlyUnderLease` is inductive with it because the listener changes flag,
  mode and deadline together.
- `PromotionFreshness`: a path that is not promoted remembers `RepairOnly`
  (`PromotedOnlyUnderLease`), so a promotion of the remembered transition is stale
  and only a newer one is accepted.
- `ForwardingLeaseImplemented`: each step is a step of ForwardingLease or leaves
  its two variables alone.
- `ListenerFollows`: the property speaks of controller and listener and is not
  inductive, since a command in flight could break it. `CommandsOrdered` adds that
  no command is ahead of the controller, that one of its current transition has
  its current mode, and that the clock is not behind; `OrderCorrect` proves that.
- `MakeBeforeBreak`: the strengthening is `RecoverySinceSilence`, the measured
  recovery began after the last silent tick (`RecoveryWindow`).

`SubscribeGateProofs`, for any threads, keys, bindings, capabilities and limits:

- `GateCorrect` (`GateSound`) and `RefusalCorrect` (`RefusalIsFinal`) from
  `GateInvariant`. `RevalidatedIsCurrent` is not inductive: a lease is compared with
  the registry by revision only, so one has to know that a revision names one
  binding for ever (`RevisionsIdentify`), that the revision a request resolved is
  never handed out again, and that everything received is covered by what the
  registry has applied or fenced (`ReceivedIsCovered`), and that what it holds is
  current with respect to what was applied since its installation (`HeldIsCurrent`). The numbers
  a snapshot hands out exist because its set of bindings is finite (`RevisionsType`).
- `IdleAssumption` says that the marker of an idle thread is not a request.
- `SubscribersSeeTheirOwn` (`SubscriberSeesItsOwn`), from `CatalogInvariant`. A list is
  put together entry by entry while the lease may go at any time, so the invariant follows
  the call: it is a `Walk` of the lane's keys in order, what it found is covered, and
  what is covered was found or is still ahead (`WalkOn`). A lease that is gone never comes
  back, so the last revalidation speaks for the whole call. The byte count is the sum
  over the buffer (`BytesMove`), hence no `pop` takes it below zero, and deliveries are in
  push order since each was pushed before all that is still buffered (`DeliveredOK`).

`EdgeControlProofs`:

- `DiscoveryCorrect` (`DiscoverySound`), from `DiscoveryInvariant`: a file that names
  a lease was written under it, and what a request keeps of clock and file was so
  when it was read. The step that carries the argument is `CurrentLeaseRan`: a lease
  that a clock of the edge finds running, less the margin, was running, since
  `OpsAssumption` bounds how far a collector's clock is ahead by that margin.
- `RequestsCorrect` (`RequestsSound`), from `TrackerInvariant`: a task may reach the
  tracker with a reading older than the one kept, so spacing follows only because
  each reading that was let through is at most the one kept.
- `StemCorrect` (`OpenedWithinGrant`), from `StemInvariant`: the code compares the
  channels of the whole configuration with the grant, the property counts those of the
  sources that were opened; a part has no more channels than all (`PartOfChannels`).
  `StemAssumption` says that a configuration names finitely many sources.
- `QueueCorrect` (`TelemetryQueueSound`), from `QueueInvariant`. `NoStrandedTelemetry`
  is not inductive: the sender finds the queue empty, then registers, and the
  publisher may push and notify in between. `Woken` adds that such a sender has a permit
  or the publisher is about to leave one. `LatestWins` needs that no number in the
  queue or among the discarded is above `submitted`, and that the bytes of what `push`
  drops from the front and of what it keeps add up (`BytesDrop`).
- `AdmissionCorrect` (`AdmissionSound`) and `SessionsAreKept` (`ServedStaysServed`), from
  `AdmissionInvariant`. The gate reads a sum of the window that the history does not
  know: a count taken late is recorded under an earlier second, behind buckets that are
  newer. `SuffixBacked` says it for every suffix, so that it survives the pruning of the
  front: its bytes were all recorded since the second of its first bucket; `RateBacked`
  is the same of the number a request has read and not yet used: those bytes were recorded
  from the start of its window until it took the lock, which may be later than its second. `StillThere`: a session
  that was served is in the map until it is idle or `SessionLimit` others were seen since.
- `FleetCorrect` (`FleetSound`) and `InformedClosesKeepMinimum`
  (`InformedCloseKeepsMinimum`), from `FleetInvariant`. A command keeps the id, the request
  and the targets it was issued with through every envelope, ids are unique, and nobody has
  created an instance for a command whose provisioner has still to run. For the second theorem,
  an informed controller counts as live only edges that serve, and closes one edge of the
  region it plans for; the edge exists because a finite set of candidates has a least
  activity and, among equals, a least id (`LongestIdleIsIdle`).
- `ResponsesCorrect` (`ResponsesSound`), from `ResponsesInvariant`. A handler counts an
  answer and lists it in separate steps. The invariant counts what is kept together with
  what handlers hold on their way to the list, and a snapshot's list is covered from when it
  is read since counters only grow. Successes that passed the gate are an interval apart
  since each is at most `last_recent_success`.
- `TelemetryIsCollected` (`TelemetryCollected`), from `DecoderInvariant`. The decoder
  remembers only the last envelope it accepted; the invariant says that it is the last of
  the history, and that the whole history is of the pinned node. A peer that is not pinned
  has delivered nothing, since an envelope with an empty node id is malformed
  (telemetry_fec.rs 114).
- `LinksAreMeasured` (`LinksMeasured`), from `LinkInvariant`: what was credited up to the
  last baseline is covered by the bytes received up to it, so that one more rate, which
  measures only the bytes since then, keeps within the total whatever the clock says
  the time between them was (`QuotientTimes`). The samples are the end of the history of
  probes, and those that succeeded are a subsequence of them (`SubsequenceLength`).
- `NoNodeIsLost` (`StatusIsSound`), from `StatusInvariant`. A query may fall between the two
  locks of an ingest, so the invariant says of a node amid its ingest that it is fresh or
  has been aged out since (`IngestsAccounted`): only then does `ForgetStale` remove the
  last trace of it. The stale list has one entry for a node, so a list with room for the
  nodes keeps all entries (`RememberedFacts`, over the order of `remember_stale_nodes`).
  Of a report: a lag is the distance to the head of a node that is in it
  (`LagIsADistance`), all alerts are at times that can be compared and only one kind of
  them is about stale snapshots (`Listable`), and what the limit cuts off the activity is no
  newer than what it keeps (`ActivityIsNewest`). It assumes that a view has finitely many
  failed responses and that times are numbers.
- `PlansSettle` (`PlacementSound`), from `PlacementInvariant`. The planner fills one
  scope after the other; the invariant says that those before are settled and stay so,
  since replicas are only added, and that a demand that was handled is met. The second
  plan places nothing because it asks of the settled scopes again, in whatever order. The
  continent of a demand is that of the nodes of its region (`PlacementAssumption`;
  `request_replica_for_stream` takes it from such a node, main.rs 11897-11901): otherwise a
  demand could fall back to a continent where its own region still has room.

`TalkbackLaneProofs`: `LaneCorrect` (`LaneSound`), from `LaneInvariant`. That a frame is
delivered once is not visible in queue and history; the window must have seen all
that waits or was pulled (`QueueOK`, `PulledOK`), and it admits nothing it has seen
(`AdmittedIsNew`) also after it slid (`AdmitSees`).

`MediaPathProofs`:

- `IngestCorrect` (`IngestSound`), from `IngestInvariant`: an entry of
  `block_sessions` that has not expired agrees with the history `named`, and a block whose
  session changed unread (`superseded`) is remembered only by the mesh loop of a leaf.
- `FecCorrect` (`FecSound`) and `IdleReclaimed` (`IdleObjectsReclaimed`) of the UDP-FEC
  receiver, from `FecInvariant`. The accounting is inductive with the types, since
  each rung of the ladder reserves or gives back what one object holds; it also
  shows that the saturating subtractions of `remove_object` never saturate.
  `NoEarlyRedelivery` is not: the receiver asks only whether a block is in the
  completed set, so one has to know that the set is the end of the flow's history,
  as much of it as fits (`Recent`), and then a block that is not in it was not among
  the last `MaxCompletedPerFlow` decodings (`MarkKeepsRecent`). `IdleReclaimed` needs
  `ScansOK`: a scan that is skipped because it is not due comes before any object is
  overdue. It assumes that object timeout and scan interval are not both zero; the
  defaults are positive, and with both zero an object just fed would count as overdue.
- `CacheCorrect` (`CacheSound`) and `EpochsAdvance` (`EpochAdvances`) of the live cache.
  `NoLostWakeup` and `StoredPlaylistServable` are about a reader who checks, renders and
  waits in separate steps: what it saw is never above the number of updates, and what it
  collected or stored for the version that is still current is still cached
  (`VersionsOK`). An epoch advances since the object under way is newer while the stream is
  being zeroed, and of the current epoch from then on. The retained-bytes subtraction of
  an eviction never saturates.
- `TailCorrect` (`TailSound`), from `TailInvariant`: the guards in use are the readers
  in a request, a finite set, so each is given back once; bytes are counted once, and
  what the client of a stream got is an interval of parts that ends at its cursor.
- `PartsCorrect` (`BytePartsCorrect`) of the byte parts, from `PartsInvariant`. That a
  segment read over several waits is one run of bytes cannot be seen in the reader: the
  invariant says that there is one division of the bytes received into parts
  (`PartsAreRuns`: where each sequence begins, written or lost), and that cache, ingest
  task, what is gathered and what a reader still has to append all agree with it. A new
  part extends the division at its end only (`TakeStep`). Bytes are counted by stream and
  slot; a write moves those of one part and drops those of the slots behind the window
  (`WrittenFacts`, `CacheGrows`). While a part waits for its record, what the record will
  keep is cached (`RecordsCached`), though the window of the cache is already ahead.
- `PlayersAreSentWhereServed` (`HlsAnswerSound`), from `HlsInvariant`: all that a request
  has collected at its awaits was eligible or fresh at some time since it began
  (`RequestOf`), although the answer is put together when some of it no longer is. The
  edges are ranked and cut without repetition (`InOrderLists`).
- `GapsAreKnown` (`GapsFollowArrivals`) of the sequence tracker, for every even modulus
  and limit of gaps, from `ArrivalInvariant`: what is expected follows the newest
  arrival, and whatever is missing lies behind it by no more than the tracked gaps and the
  arrivals since the jump (`Behind`). So the packet that is expected is never one that is
  missing. That is needed, for `observe` does not take an in-order sequence out of
  `missing`: after a whole wrap of the 32-bit sequence without another gap, a missing
  sequence would survive its own arrival. Hence the assumption
  `ArrivalLimit + MaxTrackedGaps <= SequenceModulus`, a run of arrivals shorter than a
  wrap. The lemmas are about distances modulo a number (`Distances`, `OneFurther`) and
  about the newest of a prefix of the arrivals (`NewestOfPrefix`).

`WarmSourceReplayProofs`: `ReplayCorrect` (`ReplaySound`), for any keys, deadlines,
lengths and limits, from `ReplayInvariant`. The parts of the strengthening:

- `Places`: a datagram is being forwarded, retained or in the batch, in one of these
  places only, and one that is nowhere has met exactly one fate; the program counters
  say which places may be occupied. `OneFate` follows by counting (`CountOfId`).
- `Tallied`: datagrams, order of objects and bytes of the buffer agree. Each of the
  operations of `push` keeps that on its own (`ExpiredRemoved`, `Inserted`, `Retired`,
  `Evicted`); together they re-establish the three limits (`Pushed`).
- `Stranded`: the buffer of a promoted child that was drained is empty while the ingest
  task holds a datagram it loaded before the promotion. That is why one datagram at
  most is left behind although the flag is read before the lock is taken.
- `GaugeCovers`: the gauge and what is yet to be added to it are at least what is
  retained and what both tasks have yet to subtract. So the ingest task's subtraction
  never saturates; the listener's may, which leaves the gauge too high, never too low.

`RelayIngressProofs`: `IngressCorrect` (`IngressSound`), for any sessions, profiles,
symbols and limits, from `IngressInvariant`. The parts that `IngressSound` lacks:

- `Recent`: the tombstones are those of the last deliveries, as many as fit, in their
  order. The receiver asks only whether an identity is in its index, so `DeliveredOnce`
  follows when the index is exact for active and completed objects alike (`IndexOK`) and
  the completed ones are the end of the history (`OnceDelivered`). Decoding replaces the
  entry of an object by its tombstone and keeps the identity (`IndexCompletes`); the
  oldest tombstones go with theirs (`IndexForgets`, `OrderRequeued`).
- `CountsOK`: what is reserved is what the active objects hold, so the saturating
  subtractions of `remove_active_object` never saturate (`WithoutKeeps`).
- `DiverseOK`: all parents of an object belong to its binding. The code compares a new
  parent with the binding and with the paths of the others; the property is about pairs
  of parents that joined at different times (`JoinDiverse`).

Each operator that takes one state of the receiver to the next has a lemma of its own
(`ExpireKeeps`, `AnnouncedKeeps`, `AdmitKeeps`, `CompleteKeeps`), since a handler first
expires what lapsed, then announces, retains or decodes.

`SequenceFacts` holds what those proofs need about data. Induction over numbers and
finite sets is carried out there with sets in place of predicates (a set of numbers
that has a least element outside it, a set of finite sets closed under one more
element), which keeps every step first-order: the kept elements of a sequence
(`SubsequenceFacts`: all of them, in their order, and nothing else) and sums over finite sets (`SumRemove`, `SumDisjoint`), of a function
that loses, gains or changes an element (`SumWithout`, `SumWith`, `SumUpdate`), or of a
queue that is cut at the front or grows at the back (`SumImage`, `SumShift`, `SumAppend`),
and of what a subsequence keeps (`SumDrawn`). A sequence without repetitions has as
many elements as positions (`CountOnce`). A finite set of numbers
has a greatest element and a set of naturals a least (`GreatestElement`, `LeastElement`);
`MaxOfTwo` and `MinOfTwo` say what `Max` and `Min` of a pair are. `InOrderLists`: the
elements of a finite set in a strict total order (`InOrder` of `Maps`, the n-th is the one
with n - 1 before it) are each listed once, the earlier one first. The modules use it
in place of the library's sort, which is defined with operators as arguments.

Only model-checked: the liveness properties (fairness is outside the prover's
reach), and the recursive codecs and percentile (`SlotCodec`, `InitCodecs`,
`LatencyHistogram`: induction over data).

## 6. What is not modelled

Not modelled, with the reason:

- the text of metrics (main.rs 8284-9488), static assets and compression: formatting;
- argument parsing and defaults (730-1155) and the wiring in `main` (1264-1727):
  straight-line code that starts the tasks modelled here;
- `control.rs` and `lib.rs`: data types and a frame codec without state;
- the publisher's tick and wire pacing, the bytes of a telemetry envelope: they
  delay or encode, and decide nothing;
- reads of keyframe-aligned segments (`get_segment`, 5679-5721);
- the cloud API of the provisioner, the FEC arithmetic and the AEAD: external;
- `bin/h3-static-capacity.rs`: a load generator.
