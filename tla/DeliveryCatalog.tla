---------------------------- MODULE DeliveryCatalog ----------------------------
(***************************************************************************)
(* What a subscriber of an edge sees (src/src/subscribe_authorization.rs): *)
(* the PartitionedCatalog that lists retained objects and the              *)
(* AuthorizedDeliveryBuffer that hands objects out.  Every entry is        *)
(* authorized against the subscriber's lease when it is listed, buffered   *)
(* and delivered; the registry behind the lease may invalidate it between  *)
(* any two of those checks.  SubscribeGate models that registry; here the  *)
(* lease is valid until it is invalidated, for good.                       *)
(*                                                                         *)
(* An object is a record of what the checks compare; how its metadata is   *)
(* encoded is left out (form says whether it is canonical).                *)
(***************************************************************************)
EXTENDS Integers, Sequences, FiniteSets, FiniteSetsExt, Functions, Maps

CONSTANTS CatalogObjects,   \* [key, form, session, source, channels, rate, bytes, deadline]
          Lease,            \* [session, sources, max_channels, max_bitrate, expires]
          MaxCatalogObjects, MaxVisible,
          MaxDeliveryObjects, MaxDeliveryBytes,
          DeliveryTimeLimit,  \* bound: the clock
          PushLimit           \* bound: pushes to the delivery buffer

ASSUME CatalogAssumption ==
    /\ {MaxCatalogObjects, MaxVisible, MaxDeliveryObjects, MaxDeliveryBytes} \subseteq Nat \ {0}
    /\ MaxVisible <= MaxCatalogObjects
    /\ {DeliveryTimeLimit, PushLimit} \subseteq Nat
    /\ {Lease.max_channels, Lease.max_bitrate, Lease.expires} \subseteq Nat
    /\ \A o \in CatalogObjects : /\ o.form \in {"canonical", "malformed", "noncanonical", "talkback"}
                                 /\ {o.key, o.channels, o.rate, o.bytes, o.deadline} \subseteq Nat

VARIABLES catalog,      \* PartitionedCatalog.program: key -> object
          scan,         \* a call of visible() in progress, or NoScan
          listed,       \* history: what visible() returned, until the catalog changes, or NoScan
          buffer,       \* AuthorizedDeliveryBuffer.entries: [object, push]
          buffered_bytes,
          pushing,      \* the object push() has authorized, or NoScan
          delivered,    \* history: the pushes that were delivered, in order
          pushes, valid, delivery_now

deliveryVars == <<buffer, buffered_bytes, pushing, delivered, pushes>>
catalogVars  == <<catalog, scan, listed, deliveryVars, valid, delivery_now>>

NoScan == [lane |-> "none"]

\* EdgeSubscribeGate::revalidate
Revalidates(now) == now < Lease.expires /\ valid

\* from_media_object: what keeps an object out of the catalog; "" for none.
NotCanonical(o) ==
    CASE o.form = "malformed" -> "MalformedObject"
      [] o.form = "noncanonical" -> "NonCanonicalObject"
      [] o.form = "talkback" -> "CatalogLaneMismatch"
      [] OTHER -> ""

\* CanonicalCatalogEntry::authorize, in the order of its checks
Authorize(o, lane, now) ==
    IF ~Revalidates(now) THEN "Lease"
    ELSE IF lane # "program" THEN "CatalogLaneMismatch"
    ELSE IF o.session # Lease.session THEN "WrongScope"
    ELSE IF o.source \notin Lease.sources THEN "SourceNotAllowed"
    ELSE IF o.channels > Lease.max_channels THEN "ChannelLimit"
    ELSE IF o.rate > Lease.max_bitrate THEN "BitrateLimit"
    ELSE IF o.deadline <= now THEN "ObjectExpired"
    ELSE ""

\* PartitionedCatalog::insert: a copy is ignored, a conflicting one refused.
Insert(o) ==
    /\ scan = NoScan
    /\ NotCanonical(o) = ""
    /\ o.key \notin DOMAIN catalog
    /\ Cardinality(DOMAIN catalog) < MaxCatalogObjects
    /\ catalog' = With(catalog, o.key, o)
    /\ listed' = NoScan
    /\ UNCHANGED <<scan, deliveryVars, valid, delivery_now>>

LaneKeys(lane) ==
    LET keys == IF lane = "program" THEN DOMAIN catalog ELSE {}
    IN  InOrder(keys, {p \in keys \X keys : p[1] < p[2]})

\* visible(): the catalog is borrowed for the whole call, the lease is not.
BeginVisible(lane, maximum) ==
    /\ scan = NoScan
    /\ Revalidates(delivery_now)
    /\ scan' = [lane |-> lane, now |-> delivery_now, maximum |-> maximum,
                rest |-> LaneKeys(lane), found |-> <<>>, revoked |-> FALSE]
    /\ listed' = NoScan
    /\ UNCHANGED <<catalog, deliveryVars, valid, delivery_now>>

\* One entry: skipped unless it is authorized; a lease that is gone ends the call.
VisitEntry ==
    /\ scan # NoScan /\ scan.rest # <<>> /\ Len(scan.found) < scan.maximum
    /\ LET key   == Head(scan.rest)
           error == Authorize(catalog[key], scan.lane, scan.now)
       IN  scan' = IF error = "Lease" THEN NoScan
                   ELSE [scan EXCEPT !.rest = Tail(@),
                                     !.found = IF error = "" THEN Append(@, key) ELSE @]
    /\ UNCHANGED <<catalog, listed, deliveryVars, valid, delivery_now>>

ScanDone == scan # NoScan /\ (scan.rest = <<>> \/ Len(scan.found) = scan.maximum)

\* The final revalidation decides whether anything is returned.
EndVisible ==
    /\ ScanDone
    /\ listed' = IF Revalidates(scan.now) THEN scan ELSE NoScan
    /\ scan' = NoScan
    /\ UNCHANGED <<catalog, deliveryVars, valid, delivery_now>>
-----------------------------------------------------------------------------
\* push(): authorized first, buffered afterwards.
AuthorizePush(o) ==
    /\ pushing = NoScan /\ pushes < PushLimit
    /\ NotCanonical(o) = "" /\ Authorize(o, "program", delivery_now) = ""
    /\ pushing' = o
    /\ UNCHANGED <<catalog, scan, listed, buffer, buffered_bytes, delivered, pushes, valid,
                   delivery_now>>

Fits(o) == Len(buffer) < MaxDeliveryObjects /\ buffered_bytes + o.bytes <= MaxDeliveryBytes

Push ==
    /\ pushing # NoScan
    /\ pushes' = pushes + 1
    /\ IF Fits(pushing)
       THEN /\ buffer' = Append(buffer, [object |-> pushing, push |-> pushes'])
            /\ buffered_bytes' = buffered_bytes + pushing.bytes
       ELSE UNCHANGED <<buffer, buffered_bytes>>
    /\ pushing' = NoScan
    /\ UNCHANGED <<catalog, scan, listed, delivered, valid, delivery_now>>

\* A purge that keeps the byte count.
BugClear == buffer' = <<>> /\ UNCHANGED buffered_bytes

Clear == buffer' = <<>> /\ buffered_bytes' = 0

\* pop(): an object at the front that is no longer authorized, expired ones
\* included, purges everything behind it.
Pop ==
    /\ pushing = NoScan
    /\ IF ~Revalidates(delivery_now) THEN Clear /\ UNCHANGED delivered
       ELSE IF buffer = <<>> THEN UNCHANGED <<buffer, buffered_bytes, delivered>>
       ELSE IF Authorize(Head(buffer).object, "program", delivery_now) # ""
            THEN Clear /\ UNCHANGED delivered
            ELSE /\ buffer' = Tail(buffer)
                 /\ buffered_bytes' = buffered_bytes - Head(buffer).object.bytes
                 /\ delivered' = Append(delivered, [entry |-> Head(buffer), at |-> delivery_now])
    /\ UNCHANGED <<catalog, scan, listed, pushing, pushes, valid, delivery_now>>

PurgeIfInvalid ==
    /\ pushing = NoScan /\ ~Revalidates(delivery_now)
    /\ Clear
    /\ UNCHANGED <<catalog, scan, listed, pushing, delivered, pushes, valid, delivery_now>>

\* The registry invalidates the binding behind the lease.
Invalidate ==
    /\ valid
    /\ valid' = FALSE
    /\ scan' = IF scan = NoScan THEN scan ELSE [scan EXCEPT !.revoked = TRUE]
    /\ UNCHANGED <<catalog, listed, deliveryVars, delivery_now>>

DeliveryElapse ==
    /\ delivery_now < DeliveryTimeLimit
    /\ delivery_now' = delivery_now + 1
    /\ UNCHANGED <<catalog, scan, listed, deliveryVars, valid>>

CatalogInit ==
    /\ catalog = EmptyMap /\ scan = NoScan /\ listed = NoScan
    /\ buffer = <<>> /\ buffered_bytes = 0 /\ pushing = NoScan /\ delivered = <<>>
    /\ pushes = 0 /\ valid = TRUE /\ delivery_now = 0

CatalogNext ==
    \/ \E o \in CatalogObjects : Insert(o) \/ AuthorizePush(o)
    \/ \E lane \in {"program", "talkback"}, maximum \in 1 .. MaxVisible : BeginVisible(lane, maximum)
    \/ VisitEntry \/ EndVisible
    \/ Push \/ Pop \/ PurgeIfInvalid
    \/ Invalidate \/ DeliveryElapse

CatalogSpec == CatalogInit /\ [][CatalogNext]_catalogVars
-----------------------------------------------------------------------------
Covered(o, now) ==
    /\ o.session = Lease.session /\ o.source \in Lease.sources
    /\ o.channels <= Lease.max_channels /\ o.rate <= Lease.max_bitrate /\ o.deadline > now

\* What visible() returns is the first `maximum` entries of the lane, in key
\* order, that the lease covers, each visited under a lease that was not revoked
\* before the call ended (visible, subscribe_authorization.rs:1391-1433): no
\* partial list of a lease that was lost half way is ever returned.
ListedIsCovered ==
    listed # NoScan =>
        LET keys  == {k \in DOMAIN catalog : listed.lane = "program" /\ Covered(catalog[k], listed.now)}
            found == {listed.found[i] : i \in 1 .. Len(listed.found)}
        IN  /\ ~listed.revoked
            /\ found \subseteq keys /\ Len(listed.found) <= listed.maximum
            /\ \A i, j \in 1 .. Len(listed.found) : i < j => listed.found[i] < listed.found[j]
            /\ \A k \in keys \ found : /\ Len(listed.found) = listed.maximum
                                       /\ \A f \in found : f < k

\* The delivery buffer's byte count is exact and within its limits through every
\* purge, and what is delivered is in push order, before the object's deadline
\* and the end of the lease (subscribe_authorization.rs:1475-1542).
DeliveryExact ==
    /\ buffered_bytes = SumFunction([i \in 1 .. Len(buffer) |-> buffer[i].object.bytes])
    /\ buffered_bytes <= MaxDeliveryBytes /\ Len(buffer) <= MaxDeliveryObjects
    /\ \A i, j \in 1 .. Len(delivered) : i < j => delivered[i].entry.push < delivered[j].entry.push
    /\ \A i \in 1 .. Len(delivered) :
          delivered[i].at < Min({delivered[i].entry.object.deadline, Lease.expires})

\* Both parts of what a subscriber relies on.
SubscriberSeesItsOwn == ListedIsCovered /\ DeliveryExact
=============================================================================
