---------------------------- MODULE StemSubscription ----------------------------
(***************************************************************************)
(* Authorization of a synchronized-stem subscription                       *)
(* (src/src/synchronized_stem_subscribe.rs).  A verified capability and a  *)
(* stem configuration become an immutable receive context, which opens     *)
(* datagrams of the configuration's sources until the capability expires.  *)
(*                                                                         *)
(* The capability was verified and admitted elsewhere, the configuration   *)
(* parser and the AEAD belong to other crates: a configuration that does   *)
(* not parse is InvalidConfig, and a datagram opens when its source is one *)
(* of the configuration and of the capability and its tag is good.         *)
(***************************************************************************)
EXTENDS Integers, FiniteSets, FiniteSetsExt, Functions

CONSTANTS Claims,          \* verified capabilities, of ClaimsSet
          StemConfigs,     \* configurations a peer may present: [scope, channels, max_datagram]
          InvalidConfig,   \* one that AuthoritativeStemConfig::from_json refuses
          StemScopes,      \* identity, topology and binding generation
          NoContributor,   \* the scope of a capability without contributor id
          StemSources,     \* source ids
          StemDatagramSizes, \* sizes of datagrams that arrive
          StemTimeLimit    \* bound: the clock

ASSUME StemAssumption ==
    /\ StemTimeLimit \in Nat /\ StemDatagramSizes \subseteq Nat
    /\ \A c \in Claims :
          /\ c.scope \in StemScopes \cup {NoContributor} /\ c.sources \subseteq StemSources
          /\ {c.expires, c.max_channels, c.max_datagram} \subseteq Nat
    /\ \A g \in StemConfigs : /\ g.scope \in StemScopes /\ DOMAIN g.channels \subseteq StemSources
                              /\ IsFiniteSet(DOMAIN g.channels)
                              /\ \A s \in DOMAIN g.channels : g.channels[s] \in Nat

VARIABLES subscription,   \* the AuthoritativeStemSubscription, as a set of at most one
          stem_now,       \* now_unix_seconds
          opened          \* history: [source, size, at] of the symbols that were opened

stemVars == <<subscription, stem_now, opened>>

\* The operation and class as the stem crate knows them: everything that is not
\* Subscribe counts as Publish, everything that is not Program as Talkback.
StemOperation(c) == IF c.operation = "Subscribe" THEN "Subscribe" ELSE "Publish"
StemClass(c)     == IF c.class = "Program" THEN "Program" ELSE "Talkback"

\* The widest source instead of all of them.
BugAdmittedChannels(config) == Max({0} \cup {config.channels[s] : s \in DOMAIN config.channels})

AdmittedChannels(config) == SumFunction(config.channels)

\* The checks of from_authorized and from_verified_claims, "none" when all hold.
Refusal(config, c) ==
    IF c.scope = NoContributor THEN "CapabilityScope"
    ELSE IF config = InvalidConfig THEN "InvalidConfig"
    ELSE IF \/ c.scope # config.scope
            \/ StemOperation(c) # "Subscribe"
            \/ StemClass(c) # "Program" THEN "CapabilityScope"
    ELSE IF AdmittedChannels(config) > c.max_channels THEN "ChannelLimit"
    ELSE IF config.max_datagram > c.max_datagram THEN "DatagramLimit"
    ELSE "none"

\* from_authorized: the context is built once and never changed.
FromAuthorized(config, c) ==
    /\ subscription = {}
    /\ subscription' = IF Refusal(config, c) = "none" THEN {[claims |-> c, config |-> config]} ELSE {}
    /\ UNCHANGED <<stem_now, opened>>

\* open_authenticated_datagram_for: the symbol's source must be one that the
\* configuration expects and the capability names, and its tag must verify.
OpensFor(sub, source, authentic) ==
    /\ source \in DOMAIN sub.config.channels
    /\ source \in sub.claims.sources
    /\ authentic

OpenDatagram(source, size, authentic) ==
    /\ \E sub \in subscription :
          /\ stem_now < sub.claims.expires
          /\ size <= sub.claims.max_datagram
          /\ OpensFor(sub, source, authentic)
    /\ opened' = opened \cup {[source |-> source, size |-> size, at |-> stem_now]}
    /\ UNCHANGED <<subscription, stem_now>>

StemElapse == /\ stem_now < StemTimeLimit /\ stem_now' = stem_now + 1
              /\ UNCHANGED <<subscription, opened>>

StemInit == subscription = {} /\ stem_now = 0 /\ opened = {}

StemNext ==
    \/ \E config \in StemConfigs \cup {InvalidConfig}, c \in Claims : FromAuthorized(config, c)
    \/ \E s \in StemSources, size \in StemDatagramSizes, ok \in BOOLEAN : OpenDatagram(s, size, ok)
    \/ StemElapse

StemSpec == StemInit /\ [][StemNext]_stemVars
-----------------------------------------------------------------------------
\* However many datagrams are opened, the sources opened under one capability
\* carry together no more channels than it grants, are sources it names, and
\* were opened under a subscribe capability for program media before it expired
\* (from_verified_claims and open, synchronized_stem_subscribe.rs:140-237).
OpenedWithinGrant ==
    opened # {} => \E sub \in subscription :
        LET c == sub.claims
            used == {o.source : o \in opened}
        IN  /\ c.operation = "Subscribe" /\ c.class = "Program"
            /\ used \subseteq c.sources
            /\ SumFunctionOnSet(sub.config.channels, used) <= c.max_channels
            /\ \A o \in opened : o.at < c.expires /\ o.size <= c.max_datagram
=============================================================================
