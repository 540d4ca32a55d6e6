----------------------------- MODULE LinkTelemetry -----------------------------
(***************************************************************************)
(* Link measurements (src/src/link_telemetry.rs).  The ingest task adds    *)
(* the bytes it receives from a link's peer; a probe task per link pings   *)
(* the peer, appends the round trip (or its loss) to a bounded window and  *)
(* derives the throughput from the bytes since the probe before.  The      *)
(* time of a probe is the wall clock's, which may step back.               *)
(***************************************************************************)
EXTENDS Integers, Sequences, FiniteSets, FiniteSetsExt, Functions, Maps

CONSTANTS Links,          \* the configured links: roles, primary and secondary
          LinkPeers,      \* peer ip addresses
          PeerOf,         \* [Links -> LinkPeers]
          ByteCounts,     \* sizes of datagrams
          Rtts,           \* round trips ping may print
          ProbeWindow,    \* PROBE_WINDOW
          RateScale,      \* 8 bits times 1000 ms
          LinkTimeLimit,  \* bound: the wall clock stays below
          DatagramLimit,  \* bound: datagrams received
          ProbeLimit      \* bound: probes of a link

ASSUME LinkAssumption ==
    /\ PeerOf \in [Links -> LinkPeers]
    /\ ByteCounts \cup Rtts \subseteq Nat
    /\ {ProbeWindow, RateScale, LinkTimeLimit} \subseteq Nat \ {0}
    /\ {DatagramLimit, ProbeLimit} \subseteq Nat

NoRtt == -1   \* None: the ping was lost or could not be started

VARIABLES link,       \* LinkState of every link
          wall,       \* now_unix_ms()
          arrived,    \* datagrams received so far
          probed,     \* history: per link, the results of all its probes
          credited    \* history: per link, the sum of rate times time over its probes

linkVars == <<link, wall, arrived, probed, credited>>

NewLink == [received |-> 0, samples |-> <<>>, last_total |-> 0, last_rate_at |-> 0,
            rate |-> 0, observed |-> 0]

\* record_primary_bytes / record_secondary_bytes: a datagram on the link's socket
\* counts when it comes from the link's own peer.
RecordLinkBytes(l, peer, bytes) ==
    /\ arrived < DatagramLimit
    /\ arrived' = arrived + 1
    /\ link' = [link EXCEPT ![l].received = IF peer = PeerOf[l] THEN @ + bytes ELSE @]
    /\ UNCHANGED <<wall, probed, credited>>

\* The window after one more sample.
Slid(samples, rtt) ==
    Append(IF Len(samples) = ProbeWindow THEN Tail(samples) ELSE samples, rtt)

\* saturating_sub of the probe times: 0 when the clock stepped back, and for the
\* first probe, which has nothing to compare with.
ElapsedOf(s, now) ==
    IF s.last_rate_at > 0 /\ now > s.last_rate_at THEN now - s.last_rate_at ELSE 0

ThroughputOf(s, now) ==
    IF ElapsedOf(s, now) > 0
    THEN ((s.received - s.last_total) * RateScale) \div ElapsedOf(s, now)
    ELSE s.rate

\* A probe that keeps the byte baseline when it takes a rate.
BugProbed(s, rtt, now) ==
    [s EXCEPT !.samples = Slid(@, rtt), !.rate = ThroughputOf(s, now),
              !.last_total = IF ElapsedOf(s, now) > 0 THEN @ ELSE s.received,
              !.last_rate_at = now, !.observed = now]

\* record_probe: the baseline moves with every probe, also with one that has no
\* elapsed time to derive a rate from.
Probed(s, rtt, now) ==
    [s EXCEPT !.samples = Slid(@, rtt), !.rate = ThroughputOf(s, now),
              !.last_total = s.received, !.last_rate_at = now, !.observed = now]

\* One round of run_probe.
RecordProbe(l, rtt) ==
    /\ Len(probed[l]) < ProbeLimit
    /\ link' = [link EXCEPT ![l] = Probed(@, rtt, wall)]
    /\ probed' = [probed EXCEPT ![l] = Append(@, rtt)]
    /\ credited' = [credited EXCEPT ![l] = @ + link'[l].rate * ElapsedOf(link[l], wall)]
    /\ UNCHANGED <<wall, arrived>>

\* The wall clock, which may be set back.
SetWall(now) == wall' = now /\ now # wall /\ UNCHANGED <<link, arrived, probed, credited>>

LinkInit ==
    /\ link = [l \in Links |-> NewLink]
    /\ wall = 1 /\ arrived = 0
    /\ probed = [l \in Links |-> <<>>]
    /\ credited = [l \in Links |-> 0]

LinkNext ==
    \/ \E l \in Links, peer \in LinkPeers, bytes \in ByteCounts : RecordLinkBytes(l, peer, bytes)
    \/ \E l \in Links, rtt \in Rtts \cup {NoRtt} : RecordProbe(l, rtt)
    \/ \E now \in 1 .. LinkTimeLimit : SetWall(now)

LinkSpec == LinkInit /\ [][LinkNext]_linkVars
-----------------------------------------------------------------------------
Successful(samples) == Subsequence(samples, {i \in DOMAIN samples : samples[i] # NoRtt})

\* Means are left as a sum and a count.
MeanOf(numbers) == <<SumFunction(numbers), Len(numbers)>>
Variations(ok) ==
    [i \in 1 .. Max({0, Len(ok) - 1}) |->
        IF ok[i + 1] > ok[i] THEN ok[i + 1] - ok[i] ELSE ok[i] - ok[i + 1]]

\* snapshot(): none before the first probe.
LinkObservation(s) ==
    LET ok == Successful(s.samples)
    IN  [state |-> IF ok = <<>> THEN "unreachable" ELSE "measured",
         rtt |-> MeanOf(ok), jitter |-> MeanOf(Variations(ok)),
         lost |-> Len(s.samples) - Len(ok), samples |-> Len(s.samples),
         rate |-> s.rate, received |-> s.received, observed |-> s.observed]

LinkSnapshot(s) == IF s.observed = 0 \/ s.samples = <<>> THEN {} ELSE {LinkObservation(s)}

\* The types of the link state.
LinkTypeOK ==
    /\ wall \in 1 .. LinkTimeLimit
    /\ \A l \in Links :
          /\ link[l].samples \in Seq(Rtts \cup {NoRtt})
          /\ {link[l].received, link[l].last_total, link[l].rate} \subseteq Nat
          /\ {link[l].last_rate_at, link[l].observed} \subseteq 0 .. LinkTimeLimit

\* The throughput a link reports never credits it with bytes it did not
\* receive: summed over its probes, rate times elapsed time stays within the
\* bytes received, however the wall clock jumps between the probes and however
\* bytes of other peers mix in (link_telemetry.rs:91-117).
RateIsConserved == \A l \in Links : credited[l] <= RateScale * link[l].received

\* What a snapshot reports is the last ProbeWindow probes and nothing older: it
\* says unreachable exactly when all of those were lost, and its loss counts
\* exactly those that were (snapshot, link_telemetry.rs:120-167).
SnapshotIsWindow ==
    \A l \in Links : \A o \in LinkSnapshot(link[l]) :
        LET n == Len(probed[l])
            window == SubSeq(probed[l], Max({1, n - ProbeWindow + 1}), n)
        IN  /\ o.lost = Cardinality({i \in 1 .. Len(window) : window[i] = NoRtt})
            /\ (o.state = "unreachable") = (\A i \in 1 .. Len(window) : window[i] = NoRtt)

\* All of the above.
LinksMeasured == LinkTypeOK /\ RateIsConserved /\ SnapshotIsWindow
=============================================================================
