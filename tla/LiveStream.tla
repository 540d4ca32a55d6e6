----------------------------- MODULE LiveStream -----------------------------
(***************************************************************************)
(* One canonical fMP4 stream of the LiveTsCache (src/main.rs): the ingest  *)
(* task commits decoded objects to it and retires it when it is idle,      *)
(* while an HTTP handler renders its playlist or waits for a part.         *)
(*                                                                         *)
(* Four stores are shared, each with its own lock and none held across     *)
(* another: the chunk cache (slots, head, version, cache_init), the        *)
(* LiveState (epoch, parts, ...), the rendered playlist, and the watch     *)
(* channel part_updates.  A step is one access to one of them.             *)
(*                                                                         *)
(* Commits and retirement run in the same task (run_udp_fec_ingest), so    *)
(* the per-stream commit lock is always free.  The stream is not the       *)
(* configured default one, which is never retired.  The chunk cache        *)
(* belongs to another crate: zero_stream_id empties the stream, its        *)
(* version changes with every change of a slot and is never reused, and    *)
(* its ring holds more than a window.  Media kinds other than fMP4,        *)
(* durations and the text of the playlist are left out.                    *)
(*                                                                         *)
(* A definition named Bug... is a deliberately wrong variant of the        *)
(* definition that follows it: it shows that a property can fail.          *)
(***************************************************************************)
EXTENDS Integers, FiniteSets, FiniteSetsExt, Functions, Maps

CONSTANTS
  Epochs,        \* source epochs, increasing with every restart of the source
  Seqs,          \* object sequence numbers
  Kinds,         \* the kinds of object the source sends
  Window,        \* window_parts
  PartsPerSegment,  \* parts_per_segment
  Msns, PartIndexes,  \* what a blocking reload may ask for
  MaxCommits,    \* bound: objects committed
  MaxRequests,   \* bound: playlist requests
  MaxRetires     \* bound: retirements of the stream

ASSUME LiveStreamAssumption ==
  /\ Epochs \subseteq Nat \ {0}
  /\ Seqs \subseteq Nat
  /\ Kinds \subseteq {"init", "key", "delta", "slot", "audio"}
  /\ Window \in Nat \ {0}
  /\ PartsPerSegment \in Nat \ {0}
  /\ Msns \subseteq Nat /\ PartIndexes \subseteq Nat
  /\ MaxCommits \in Nat
  /\ MaxRequests \in Nat
  /\ MaxRetires \in Nat

None == -1      \* no head, segment, version or sequence
NoEpoch == 0    \* no epoch, no initialization

\* A canonical object.  "init" is an Initialization object, whose sequence is
\* of no consequence; "key" and "delta" are fMP4 parts that start a GOP or do
\* not; "slot" is a key part in fmp4-slot-v1 form, which holds its
\* initialization; "audio" is a Soundkit bundle, reboxed to such a part.
Object == {o \in [epoch : Epochs, seq : Seqs, kind : Kinds] :
             o.kind = "init" => o.seq = Min(Seqs)}
NoObject == [epoch |-> NoEpoch, seq |-> 0, kind |-> "none"]

IsMedia(o)    == o.kind # "init"
IsKeyframe(o) == o.kind \in {"key", "slot"}
SlotInit(o)   == o.kind \in {"slot", "audio"}  \* the cached slot holds an init
SetsInit(o)   == o.kind \in {"init", "audio"}  \* the commit itself sets it

VARIABLES
  \* --- chunk cache -------------------------------------------------------
  slots,            \* sequence -> cached object
  head,             \* last(): end of the contiguous run of slots
  version,
  cache_init,       \* stream_initialization, by the epoch it belongs to
  \* --- LiveState -----------------------------------------------------------
  epoch,            \* stream_canonical_epoch
  base,             \* stream_subscription_base_object
  parts,            \* stream_parts: sequence -> [keyframe, segment, bytes]
  current_segment,  \* stream_current_fmp4_segment
  retained_bytes,   \* stream_retained_bytes
  init,             \* stream_inits
  \* --- playlist cache and part_updates -------------------------------------
  playlist,         \* CachedPlaylist
  updates,          \* how often part_updates was replaced
  \* --- ingest task -----------------------------------------------------------
  i_pc, i_object, commits, retires,
  \* --- playlist handler --------------------------------------------------------
  r_pc, r_position, r_seen, r_last, r_version, r_next, r_available, r_init,
  r_body,
  r_epoch,          \* history: the epoch in which the position was found available
  requests

cache_vars  == <<slots, head, version, cache_init>>
state_vars  == <<epoch, base, parts, current_segment, retained_bytes, init>>
ingest_vars == <<i_pc, i_object, commits, retires>>
reader_vars == <<r_pc, r_position, r_seen, r_last, r_version, r_next, r_available,
                 r_init, r_body, r_epoch, requests>>
vars == <<cache_vars, state_vars, playlist, updates, ingest_vars, reader_vars>>

\* Positions of a blocking reload: _HLS_msn and, optionally, _HLS_part
Positions == [msn : Msns, part : {None} \cup PartIndexes]
NoPosition == [msn |-> None, part |-> None]

(***************************************************************************)
(* LiveState::record_part_available                                        *)
(***************************************************************************)
BytesOf(o) == 1 + (IF SlotInit(o) THEN 1 ELSE 0)

\* A new part of the stream opens a segment when it is a keyframe, and joins
\* the segment opened last when it is not.
SegmentFor(o) ==
  IF IsKeyframe(o) THEN current_segment + 1 ELSE current_segment

\* The parts that are retained once s has been added.
WindowOf(S) == {s \in S : s > Max(S) - Window}

\* RetainedPart::bytes of every part
PartBytes(table) == [s \in DOMAIN table |-> table[s].bytes]

RecordPart(o) ==
  LET known == o.seq \in DOMAIN parts
      all   == IF known THEN parts
               ELSE With(parts, o.seq, [keyframe |-> IsKeyframe(o), segment |-> SegmentFor(o),
                                        bytes |-> BytesOf(o)])
      kept  == WindowOf(DOMAIN all)
  IN  /\ parts' = [s \in kept |-> all[s]]
      /\ current_segment' = IF known THEN current_segment ELSE SegmentFor(o)
      /\ retained_bytes' = retained_bytes + (IF known THEN 0 ELSE BytesOf(o))
                             - SumFunctionOnSet(PartBytes(all), DOMAIN all \ kept)

(***************************************************************************)
(* The ingest task: commit_stream_payload_inner                            *)
(***************************************************************************)
\* A commit that takes the epoch of whatever object arrives.
BugBeginCommit(o) ==
  /\ i_pc = "idle"
  /\ commits < MaxCommits
  /\ commits' = commits + 1
  /\ i_object' = o
  /\ i_pc' = IF o.epoch = epoch THEN "observe" ELSE "zero"
  /\ UNCHANGED <<cache_vars, state_vars, playlist, updates, retires, reader_vars>>

\* The commit lock is taken and the epoch read; an object of an older epoch is
\* refused.
BeginCommit(o) ==
  /\ i_pc = "idle"
  /\ commits < MaxCommits
  /\ epoch = NoEpoch \/ o.epoch >= epoch
  /\ commits' = commits + 1
  /\ i_object' = o
  /\ i_pc' = IF o.epoch = epoch THEN "observe" ELSE "zero"
  /\ UNCHANGED <<cache_vars, state_vars, playlist, updates, retires, reader_vars>>

\* A new epoch: the chunk cache is emptied first ...
ZeroStream ==
  /\ i_pc = "zero"
  /\ slots' = EmptyMap
  /\ head' = None
  /\ version' = version + 1
  /\ cache_init' = NoEpoch
  /\ i_pc' = "activate"
  /\ UNCHANGED <<state_vars, playlist, updates, i_object, commits, retires, reader_vars>>

\* ... then everything the LiveState knew of the stream.
ActivateEpoch ==
  /\ i_pc = "activate"
  /\ epoch' = i_object.epoch
  /\ base' = None
  /\ parts' = EmptyMap
  /\ current_segment' = None
  /\ retained_bytes' = 0
  /\ init' = NoEpoch
  /\ i_pc' = "observe"
  /\ UNCHANGED <<cache_vars, playlist, updates, i_object, commits, retires, reader_vars>>

\* The object is accepted; an initialization is remembered at once ...
ObserveObject ==
  /\ i_pc = "observe"
  /\ init' = IF SetsInit(i_object) THEN i_object.epoch ELSE init
  /\ i_pc' = IF SetsInit(i_object) THEN "init" ELSE "put"
  /\ UNCHANGED <<cache_vars, epoch, base, parts, current_segment, retained_bytes,
                 playlist, updates, i_object, commits, retires, reader_vars>>

\* ... and kept in the chunk cache; only a media object goes on to a slot.
SetInitialization ==
  /\ i_pc = "init"
  /\ cache_init' = i_object.epoch
  /\ IF IsMedia(i_object)
       THEN i_pc' = "put" /\ UNCHANGED i_object
       ELSE i_pc' = "idle" /\ i_object' = NoObject
  /\ UNCHANGED <<slots, head, version, state_vars, playlist, updates, commits, retires,
                 reader_vars>>

\* put_if_absent_contiguous_for_stream_id (external): the first slot of the
\* stream, or base, starts the run that head is the end of.
ContiguousHead(table, from) ==
  IF from \notin DOMAIN table THEN None
  ELSE Max({s \in DOMAIN table : s >= from /\ \A t \in from..s : t \in DOMAIN table})

\* A slot that is taken by the same object is left alone; by another one, the
\* commit fails.
PutSlot ==
  /\ i_pc = "put"
  /\ LET o     == i_object
         taken == o.seq \in DOMAIN slots
         from  == IF base = None THEN o.seq ELSE base
         table == IF taken THEN slots ELSE With(slots, o.seq, o)
     IN  /\ slots' = table
         /\ head' = ContiguousHead(table, from)
         /\ version' = IF taken THEN version ELSE version + 1
         /\ IF taken /\ slots[o.seq] # o
              THEN i_pc' = "idle" /\ i_object' = NoObject
              ELSE i_pc' = "record" /\ UNCHANGED i_object
  /\ UNCHANGED <<cache_init, state_vars, playlist, updates, commits, retires, reader_vars>>

RecordObject ==
  /\ i_pc = "record"
  /\ base' = IF base = None THEN i_object.seq ELSE base
  /\ RecordPart(i_object)
  /\ i_pc' = "notify"
  /\ UNCHANGED <<cache_vars, epoch, init, playlist, updates, i_object, commits, retires,
                 reader_vars>>

\* part_updates.send_replace, after the state lock was released
Notify ==
  /\ i_pc = "notify"
  /\ updates' = updates + 1
  /\ i_object' = NoObject
  /\ i_pc' = "idle"
  /\ UNCHANGED <<cache_vars, state_vars, playlist, commits, retires, reader_vars>>

(***************************************************************************)
(* The ingest task: retire_streams_idle_before                             *)
(***************************************************************************)
\* The stream was idle for too long.
RetireZero ==
  /\ i_pc = "idle"
  /\ epoch # NoEpoch
  /\ retires < MaxRetires
  /\ retires' = retires + 1
  /\ slots' = EmptyMap
  /\ head' = None
  /\ version' = version + 1
  /\ cache_init' = NoEpoch
  /\ i_pc' = "forget"
  /\ UNCHANGED <<state_vars, playlist, updates, i_object, commits, reader_vars>>

\* LiveState::forget_stream
ForgetStream ==
  /\ i_pc = "forget"
  /\ epoch' = NoEpoch
  /\ base' = None
  /\ parts' = EmptyMap
  /\ current_segment' = None
  /\ retained_bytes' = 0
  /\ init' = NoEpoch
  /\ i_pc' = "uncache"
  /\ UNCHANGED <<cache_vars, playlist, updates, i_object, commits, retires, reader_vars>>

\* The rendered playlist of the stream is dropped.
UncachePlaylist ==
  /\ i_pc = "uncache"
  /\ playlist' = [version |-> None, parts |-> {}]
  /\ i_pc' = "idle"
  /\ UNCHANGED <<cache_vars, state_vars, updates, i_object, commits, retires, reader_vars>>

-----------------------------------------------------------------------------
(***************************************************************************)
(* The playlist handler: wait_for_hls_reload_position                      *)
(***************************************************************************)
Observed == {[seq |-> s, keyframe |-> parts[s].keyframe, segment |-> parts[s].segment] :
               s \in DOMAIN parts}

\* Segments follow the keyframes as soon as one of the entries has one;
\* otherwise they are fixed runs of PartsPerSegment sequences.
KeyframeSegments(S) == \E q \in S : q.segment # None

SegmentOf(S, q) ==
  IF KeyframeSegments(S) THEN q.segment ELSE q.seq \div PartsPerSegment

Grouped(S)    == {q \in S : SegmentOf(S, q) # None}
Group(S, g)   == {q \in S : SegmentOf(S, q) = g}
SegmentsOf(S) == {SegmentOf(S, q) : q \in Grouped(S)}

\* hls_reload_position_available
PositionIn(S, p) ==
  /\ SegmentsOf(S) # {}
  /\ \/ p.msn < Max(SegmentsOf(S))
     \/ p.part # None /\ p.part < Cardinality(Group(S, p.msn))
     \/ p.part = None /\ ~KeyframeSegments(S) /\ Cardinality(Group(S, p.msn)) >= PartsPerSegment

PositionAvailable(p) == PositionIn(Observed, p)

\* A request, with or without a position; a blocking one subscribes first.
Request(p) ==
  /\ r_pc = "idle"
  /\ requests < MaxRequests
  /\ requests' = requests + 1
  /\ r_position' = p
  /\ r_seen' = updates
  /\ r_pc' = IF p = NoPosition THEN "position" ELSE "check"
  /\ r_body' = {}
  /\ UNCHANGED <<cache_vars, state_vars, playlist, updates, ingest_vars,
                 r_last, r_version, r_next, r_available, r_init, r_epoch>>

CheckPosition ==
  /\ r_pc = "check"
  /\ r_pc' = IF PositionAvailable(r_position) THEN "position" ELSE "wait"
  /\ r_epoch' = IF PositionAvailable(r_position) THEN epoch ELSE NoEpoch
  /\ UNCHANGED <<cache_vars, state_vars, playlist, updates, ingest_vars, r_position,
                 r_seen, r_last, r_version, r_next, r_available, r_init, r_body, requests>>

\* updates.changed(): a value newer than the one seen last
Wake ==
  /\ r_pc = "wait"
  /\ updates # r_seen
  /\ r_seen' = updates
  /\ r_pc' = "check"
  /\ UNCHANGED <<cache_vars, state_vars, playlist, updates, ingest_vars, r_position,
                 r_last, r_version, r_next, r_available, r_init, r_body, r_epoch, requests>>

\* The wait is over; the playlist is served without the position.
WaitTimeout ==
  /\ r_pc = "wait"
  /\ r_position' = NoPosition
  /\ r_pc' = "position"
  /\ UNCHANGED <<cache_vars, state_vars, playlist, updates, ingest_vars, r_seen,
                 r_last, r_version, r_next, r_available, r_init, r_body, r_epoch, requests>>

(***************************************************************************)
(* The playlist handler: playlist_for_stream_id                            *)
(***************************************************************************)
\* The answer leaves; what the handler collected is dropped.
Reply(body) ==
  /\ r_body' = body
  /\ r_pc' = "idle"
  /\ r_last' = None
  /\ r_version' = None
  /\ r_next' = 0
  /\ r_available' = {}
  /\ r_init' = NoEpoch

\* stream_position_for_id: when nothing is cached the playlist is empty, but an
\* initialization is looked for (include_map), and nothing is stored.
ReadPosition ==
  /\ r_pc = "position"
  /\ r_last' = head
  /\ r_pc' = IF head = None THEN "init" ELSE "version"
  /\ UNCHANGED <<cache_vars, state_vars, playlist, updates, ingest_vars, r_position,
                 r_seen, r_version, r_next, r_available, r_init, r_body, r_epoch, requests>>

\* The version the playlist will be of.
ReadVersion ==
  /\ r_pc = "version"
  /\ r_version' = version
  /\ r_pc' = "cached"
  /\ UNCHANGED <<cache_vars, state_vars, playlist, updates, ingest_vars, r_position,
                 r_seen, r_last, r_next, r_available, r_init, r_body, r_epoch, requests>>

\* cached_playlist: a playlist rendered for that version is served again.
ServeCached ==
  /\ r_pc = "cached"
  /\ IF playlist.version = r_version
       THEN Reply(playlist.parts)
       ELSE /\ r_next' = IF r_last >= Window THEN r_last - Window + 1 ELSE 0
            /\ r_pc' = "collect"
            /\ UNCHANGED <<r_last, r_version, r_available, r_init, r_body>>
  /\ UNCHANGED <<cache_vars, state_vars, playlist, updates, ingest_vars, r_position,
                 r_seen, r_epoch, requests>>

\* One slot of the window is read.
CollectSlot ==
  /\ r_pc = "collect"
  /\ r_next <= r_last
  /\ r_available' = IF r_next \in DOMAIN slots THEN r_available \cup {r_next} ELSE r_available
  /\ r_init' = IF r_next \in DOMAIN slots /\ SlotInit(slots[r_next])
                 THEN slots[r_next].epoch ELSE r_init
  /\ r_next' = r_next + 1
  /\ UNCHANGED <<cache_vars, state_vars, playlist, updates, ingest_vars, r_pc, r_position,
                 r_seen, r_last, r_version, r_body, r_epoch, requests>>

\* Every slot was read: an initialization found in one is remembered.
Collected ==
  /\ r_pc = "collect"
  /\ r_next > r_last
  /\ r_pc' = IF r_init # NoEpoch THEN "remember" ELSE "init"
  /\ UNCHANGED <<cache_vars, state_vars, playlist, updates, ingest_vars, r_position,
                 r_seen, r_last, r_version, r_next, r_available, r_init, r_body, r_epoch,
                 requests>>

\* remember_stream_init: the state first, the chunk cache after it.  What was
\* found in a slot is then looked up again; what the lookup found is used.
RememberInit ==
  /\ r_pc \in {"remember", "retain"}
  /\ init' = r_init
  /\ r_pc' = IF r_pc = "remember" THEN "remember_cache" ELSE "retain_cache"
  /\ UNCHANGED <<cache_vars, epoch, base, parts, current_segment, retained_bytes, playlist,
                 updates, ingest_vars, r_position, r_seen, r_last, r_version, r_next,
                 r_available, r_init, r_body, r_epoch, requests>>

RememberCacheInit ==
  /\ r_pc \in {"remember_cache", "retain_cache"}
  /\ cache_init' = r_init
  /\ r_pc' = IF r_pc = "remember_cache" THEN "init" ELSE "render"
  /\ UNCHANGED <<slots, head, version, state_vars, playlist, updates, ingest_vars, r_position,
                 r_seen, r_last, r_version, r_next, r_available, r_init, r_body, r_epoch,
                 requests>>

\* get_init_for_stream_id: from the state, ...
FindInit ==
  /\ r_pc = "init"
  /\ r_init' = init
  /\ r_pc' = IF init # NoEpoch THEN "render" ELSE "init_cache"
  /\ UNCHANGED <<cache_vars, state_vars, playlist, updates, ingest_vars, r_position,
                 r_seen, r_last, r_version, r_next, r_available, r_body, r_epoch, requests>>

\* ... else from the chunk cache, ...
FindCacheInit ==
  /\ r_pc = "init_cache"
  /\ r_init' = cache_init
  /\ r_pc' = IF cache_init # NoEpoch THEN "retain" ELSE "init_slots"
  /\ UNCHANGED <<cache_vars, state_vars, playlist, updates, ingest_vars, r_position,
                 r_seen, r_last, r_version, r_next, r_available, r_body, r_epoch, requests>>

\* ... else from the newest slot that has one; what is not from the state is
\* remembered.
SlotsWithInit == {s \in DOMAIN slots : s <= head /\ SlotInit(slots[s])}

FindSlotInit ==
  /\ r_pc = "init_slots"
  /\ r_init' = IF SlotsWithInit # {} THEN slots[Max(SlotsWithInit)].epoch ELSE NoEpoch
  /\ r_pc' = IF r_init' # NoEpoch THEN "retain" ELSE "render"
  /\ UNCHANGED <<cache_vars, state_vars, playlist, updates, ingest_vars, r_position,
                 r_seen, r_last, r_version, r_next, r_available, r_body, r_epoch, requests>>

\* The collected parts with what the state observed of them.
Entries == {[seq |-> s,
             keyframe |-> s \in DOMAIN parts /\ parts[s].keyframe,
             segment |-> IF s \in DOMAIN parts THEN parts[s].segment ELSE None] :
              s \in r_available}

FirstOf(S, g) == CHOOSE q \in Group(S, g) : \A o \in Group(S, g) : q.seq <= o.seq

\* A keyframe segment that does not begin with its keyframe is left out, and so
\* is a first fixed segment that lacks its beginning when it is not the only one.
Truncated(S, g) ==
  IF KeyframeSegments(S) THEN ~FirstOf(S, g).keyframe
  ELSE /\ Cardinality(SegmentsOf(S)) > 1
       /\ g = Min(SegmentsOf(S))
       /\ FirstOf(S, g).seq # g * PartsPerSegment

\* Without an initialization no part is listed.
Rendered ==
  IF r_init = NoEpoch THEN {}
  ELSE {q \in Grouped(Entries) : ~Truncated(Entries, SegmentOf(Entries, q))}

RenderPlaylist ==
  /\ r_pc = "render"
  /\ r_body' = Rendered
  /\ r_pc' = "store"
  /\ UNCHANGED <<cache_vars, state_vars, playlist, updates, ingest_vars, r_position,
                 r_seen, r_last, r_version, r_next, r_available, r_init, r_epoch, requests>>

\* A playlist that is stored whatever has changed since.
BugCheckVersion ==
  /\ r_pc = "store"
  /\ playlist' = [version |-> version, parts |-> r_body]
  /\ Reply(r_body)
  /\ UNCHANGED <<cache_vars, state_vars, updates, ingest_vars, r_position,
                 r_seen, r_epoch, requests>>

\* cache_playlist: the version is compared ...
CheckVersion ==
  /\ r_pc = "store"
  /\ IF version = r_version
       THEN /\ r_pc' = "write"
            /\ UNCHANGED <<r_last, r_version, r_next, r_available, r_init, r_body>>
       ELSE Reply(r_body)
  /\ UNCHANGED <<cache_vars, state_vars, playlist, updates, ingest_vars, r_position,
                 r_seen, r_epoch, requests>>

\* ... and the playlist stored for the version it was rendered for.
StorePlaylist ==
  /\ r_pc = "write"
  /\ playlist' = [version |-> r_version, parts |-> r_body]
  /\ Reply(r_body)
  /\ UNCHANGED <<cache_vars, state_vars, updates, ingest_vars, r_position,
                 r_seen, r_epoch, requests>>

-----------------------------------------------------------------------------
Init ==
  /\ slots = EmptyMap
  /\ head = None
  /\ version = 0
  /\ cache_init = NoEpoch
  /\ epoch = NoEpoch
  /\ base = None
  /\ parts = EmptyMap
  /\ current_segment = None
  /\ retained_bytes = 0
  /\ init = NoEpoch
  /\ playlist = [version |-> None, parts |-> {}]
  /\ updates = 0
  /\ i_pc = "idle" /\ i_object = NoObject
  /\ commits = 0 /\ retires = 0 /\ requests = 0
  /\ r_pc = "idle" /\ r_position = NoPosition /\ r_seen = 0
  /\ r_last = None /\ r_version = None /\ r_next = 0
  /\ r_available = {} /\ r_init = NoEpoch /\ r_body = {} /\ r_epoch = NoEpoch

CommitNext ==
  \/ \E o \in Object : BeginCommit(o)
  \/ ZeroStream
  \/ ActivateEpoch
  \/ ObserveObject
  \/ SetInitialization
  \/ PutSlot
  \/ RecordObject
  \/ Notify
  \/ RetireZero
  \/ ForgetStream
  \/ UncachePlaylist

ReaderNext ==
  \/ \E p \in Positions \cup {NoPosition} : Request(p)
  \/ CheckPosition
  \/ Wake
  \/ WaitTimeout
  \/ ReadPosition
  \/ ReadVersion
  \/ ServeCached
  \/ CollectSlot
  \/ Collected
  \/ RememberInit
  \/ RememberCacheInit
  \/ FindInit
  \/ FindCacheInit
  \/ FindSlotInit
  \/ RenderPlaylist
  \/ CheckVersion
  \/ StorePlaylist

Next == CommitNext \/ ReaderNext

Spec == Init /\ [][Next]_vars

-----------------------------------------------------------------------------
(***************************************************************************)
(* Properties.                                                             *)
(***************************************************************************)
PlaylistEntry == [seq : Seqs, keyframe : BOOLEAN, segment : {None} \cup Nat]

\* The values every variable ranges over.
TypeOK ==
  /\ DOMAIN slots \subseteq Seqs /\ \A s \in DOMAIN slots : slots[s] \in Object
  /\ head \in {None} \cup Seqs
  /\ version \in Nat
  /\ {cache_init, epoch, init, r_init, r_epoch} \subseteq {NoEpoch} \cup Epochs
  /\ base \in {None} \cup Seqs
  /\ DOMAIN parts \subseteq Seqs
  /\ \A s \in DOMAIN parts :
       parts[s] \in [keyframe : BOOLEAN, segment : {None} \cup Nat, bytes : Nat]
  /\ current_segment \in {None} \cup Nat
  /\ retained_bytes \in Nat
  /\ playlist.version \in {None} \cup Nat /\ playlist.parts \subseteq PlaylistEntry
  /\ updates \in Nat
  /\ i_pc \in {"idle", "zero", "activate", "observe", "init", "put", "record", "notify",
               "forget", "uncache"}
  /\ i_object \in Object \cup {NoObject}
  /\ r_pc \in {"idle", "check", "wait", "position", "version", "cached", "collect", "remember",
               "remember_cache", "retain", "retain_cache", "init", "init_cache", "init_slots",
               "render", "store", "write"}
  /\ r_position \in Positions \cup {NoPosition}
  /\ r_seen \in Nat
  /\ r_last \in {None} \cup Seqs
  /\ r_version \in {None} \cup Nat
  /\ r_next \in Nat
  /\ r_available \subseteq Seqs
  /\ r_body \subseteq PlaylistEntry

\* The chunk cache and the state never disagree about the epoch: a slot that
\* can be read belongs to the epoch the state has, at every step of a switch or
\* a retirement.
SlotsOfEpoch == \A s \in DOMAIN slots : slots[s].epoch = epoch

\* What the state says is available can be read from the chunk cache, except
\* while the ingest task is between emptying the cache and the state.
ObservedIsCached ==
  i_pc \notin {"activate", "forget"} => DOMAIN parts \subseteq DOMAIN slots

\* The retained parts lie in one window below the newest, and the byte count
\* kept incrementally is the sum over them.
RetentionExact ==
  /\ \A s, t \in DOMAIN parts : s - t < Window
  /\ retained_bytes = SumFunctionOnSet(PartBytes(parts), DOMAIN parts)

\* A stored playlist that would be served lists only parts that are cached.
StoredPlaylistServable ==
  playlist.version = version => \A p \in playlist.parts : p.seq \in DOMAIN slots

\* A blocked reload is never left asleep: when its position is available, a
\* change it has not seen is pending, or is about to be sent.
NoLostWakeup ==
  r_pc = "wait" /\ PositionAvailable(r_position) => updates # r_seen \/ i_pc = "notify"

\* An epoch is only ever followed by a newer one, until the stream is retired.
EpochAdvances == [][epoch' # epoch => epoch' > epoch \/ i_pc = "forget"]_vars

\* "CAN-BLOCK-RELOAD=YES": a reload that waited for a position and was told it
\* is available gets a playlist that has it (as long as the epoch that was
\* checked is still the current one and no commit is half done).
BlockingReloadServesPart ==
  r_pc = "idle" /\ i_pc = "idle" /\ r_position # NoPosition /\ epoch = r_epoch
    => PositionIn(r_body, r_position)

\* An epoch switch resets the stream: the initialization served with an epoch
\* is that epoch's own.
InitOfEpoch == init # NoEpoch /\ epoch # NoEpoch => init = epoch

\* The cache of a stream between commits, epoch switches, retirement and readers
\* (main.rs:4410-4770, 4869-5180, 5405-5470): everything it holds is of its epoch,
\* retention is exact, what is stored can be served, and no reader is left waiting.
CacheSound ==
  /\ TypeOK /\ SlotsOfEpoch /\ ObservedIsCached
  /\ RetentionExact /\ StoredPlaylistServable /\ NoLostWakeup
=============================================================================
