-------------------------- MODULE DiscoveryProofs --------------------------
(***************************************************************************)
(* For any set of addresses and connections and any bounds: the dialing    *)
(* guard of dial_peer is never set without a dial or a connection whose    *)
(* end will release it; schedule_rediscovery never has two lookups of its  *)
(* own under way; and a lost peer stays pursued.                           *)
(***************************************************************************)
EXTENDS Discovery, FiniteSetTheorems, TLAPS

(* Records that can be dialed.                                             *)
DialableRecords == [issued : Nat, addrs : AddrSets]

(* The types the guard depends on.                                         *)
GuardTypes ==
    /\ home \in SUBSET Addrs
    /\ now \in Nat
    /\ dht \in SUBSET DialableRecords
    /\ cache \in DialableRecords \cup {NoRecord}
    /\ retryDials \in Seq(AddrSets)
    /\ dialing \in BOOLEAN
    /\ known \in BOOLEAN
    /\ dials \in [AddrSets -> Nat]
    /\ aborted \in [AddrSets -> Nat]
    /\ conn \in [Conns -> {"none", "hs", "up", "closing"}]

(* Whoever set the guard has registered the peer's transport id, without   *)
(* which ConnectionClosed could not release it.                            *)
GuardIsKnown == dialing => known

GuardInv == GuardTypes /\ GuardIsKnown /\ GuardIsReleasable

-----------------------------------------------------------------------------
(* A dial of a non-empty address set keeps the invariant's part on dials.  *)
LEMMA DialKeeps ==
    ASSUME GuardTypes, NEW S \in AddrSets, Dial(S)
    PROVE  /\ dialing' = TRUE /\ known' = TRUE
           /\ dials' \in [AddrSets -> Nat]
           /\ \E T \in AddrSets : dials'[T] > 0
<1>1. S # {}
  BY DEF AddrSets
<1>2. dialing' = TRUE /\ known' = TRUE /\ dials' = [dials EXCEPT ![S] = @ + 1]
  BY <1>1 DEF Dial
<1>3. dials' \in [AddrSets -> Nat] /\ dials'[S] > 0
  BY <1>2 DEF GuardTypes
<1>. QED
  BY <1>2, <1>3

(* Dropping a prefix of the re-dial queue leaves a queue.                  *)
LEMMA DropFirstType ==
    ASSUME NEW T, NEW s \in Seq(T), NEW n \in 0..Len(s)
    PROVE  DropFirst(s, n) \in Seq(T)
BY DEF DropFirst

(* A failed dial leaves a record that can still be dialed, or none.        *)
LEMMA InvalidateType ==
    ASSUME cache \in DialableRecords \cup {NoRecord}, NEW S
    PROVE  Invalidate(S) \in DialableRecords \cup {NoRecord}
<1>1. CASE cache.addrs \subseteq S
  BY <1>1 DEF Invalidate
<1>2. CASE ~(cache.addrs \subseteq S)
  <2>1. cache \in DialableRecords
    BY <1>2 DEF NoRecord
  <2>2. cache.addrs \ S \in AddrSets
    BY <1>2, <2>1 DEF DialableRecords, AddrSets
  <2>. QED
    BY <1>2, <2>1, <2>2 DEF Invalidate, DialableRecords
<1>. QED
  BY <1>1, <1>2

-----------------------------------------------------------------------------
(* At the start nothing is dialed and the guard is free.                   *)
LEMMA GuardInit == Init => GuardInv
<1>. SUFFICES ASSUME Init PROVE GuardInv
  OBVIOUS
<1>1. home \in SUBSET Addrs
  BY DEF Init, AddrSets
<1>2. dials \in [AddrSets -> Nat] /\ aborted \in [AddrSets -> Nat] /\ retryDials \in Seq(AddrSets)
  BY DEF Init
<1>3. conn \in [Conns -> {"none", "hs", "up", "closing"}]
  BY DEF Init
<1>4. now \in Nat /\ dht \in SUBSET DialableRecords
      /\ cache \in DialableRecords \cup {NoRecord} /\ dialing \in BOOLEAN /\ known \in BOOLEAN
  BY DEF Init
<1>5. GuardTypes
  BY <1>1, <1>2, <1>3, <1>4 DEF GuardTypes
<1>. QED
  BY <1>5 DEF Init, GuardInv, GuardIsKnown, GuardIsReleasable

(* Steps of the peer, the DHT and time leave the guard alone.              *)
LEMMA PeerKeepsGuard == GuardInv /\ PeerStep => GuardInv'
<1>. SUFFICES ASSUME GuardInv, PeerStep PROVE GuardInv'
  OBVIOUS
<1>. USE DEF GuardInv, GuardIsKnown, GuardIsReleasable, Dialed, Aborting, Live
<1>1. CASE Publish
  <2>1. [issued |-> now, addrs |-> home] \in DialableRecords
    BY <1>1 DEF Publish, GuardTypes, DialableRecords, AddrSets
  <2>2. dht' \in SUBSET DialableRecords
    BY <1>1, <2>1 DEF Publish, GuardTypes
  <2>. QED
    BY <1>1, <2>2 DEF Publish, GuardTypes, connVars, dialVars, lookupVars
<1>2. CASE Converge
  BY <1>2 DEF Converge, GuardTypes, connVars, dialVars, lookupVars
<1>3. CASE Tick
  BY <1>3 DEF Tick, GuardTypes, connVars, dialVars, lookupVars
<1>4. ASSUME NEW S \in SUBSET Addrs, Move(S) PROVE GuardInv'
  BY <1>4 DEF Move, GuardTypes, connVars, dialVars, lookupVars
<1>5. ASSUME NEW S \in SUBSET Addrs, ComeBack(S) PROVE GuardInv'
  BY <1>5 DEF ComeBack, GuardTypes, connVars, dialVars, lookupVars
<1>. QED
  BY <1>1, <1>2, <1>3, <1>4, <1>5 DEF PeerStep

(* A found record is dialed only with addresses in it.                     *)
LEMMA LookupKeepsGuard ==
    ASSUME GuardInv, NEW a \in LookupRequests, LookupEnds(a)
    PROVE  GuardInv'
<1>. USE DEF GuardInv, GuardIsKnown, GuardIsReleasable, Dialed, Aborting, Live
<1>1. ASSUME NEW r \in dht, LookupFound(a, r) PROVE GuardInv'
  <2>1. r \in DialableRecords /\ r.addrs \in AddrSets
    BY DEF GuardTypes, DialableRecords
  <2>2. CASE Replaces(r) /\ ~(dialing \/ HasSession)
    <3>1. Dial(r.addrs) /\ cache' = r
      BY <1>1, <2>2 DEF LookupFound, OnVerifiedRecord
    <3>2. /\ dialing' = TRUE /\ known' = TRUE
          /\ dials' \in [AddrSets -> Nat]
          /\ \E T \in AddrSets : dials'[T] > 0
      BY <2>1, <3>1, DialKeeps
    <3>. QED
      BY <1>1, <2>1, <3>1, <3>2 DEF LookupFound, GuardTypes, connVars, peerVars
  <2>3. CASE ~(Replaces(r) /\ ~(dialing \/ HasSession))
    <3>1. UNCHANGED <<dialing, dials, known>> /\ cache' \in {r, cache}
      BY <1>1, <2>3 DEF LookupFound, OnVerifiedRecord
    <3>. QED
      BY <1>1, <2>1, <3>1 DEF LookupFound, GuardTypes, connVars, peerVars
  <2>. QED
    BY <2>2, <2>3
<1>2. CASE LookupRejected(a)
  BY <1>2 DEF LookupRejected, GuardTypes, connVars, dialVars, peerVars
<1>3. CASE LookupFails(a)
  BY <1>3 DEF LookupFails, GuardTypes, connVars, dialVars, peerVars
<1>. QED
  BY <1>1, <1>2, <1>3 DEF LookupEnds

(* A queued re-dial has addresses too.                                     *)
LEMMA MaintenanceKeepsGuard == GuardInv /\ MaintenanceStep => GuardInv'
<1>. SUFFICES ASSUME GuardInv, MaintenanceStep PROVE GuardInv'
  OBVIOUS
<1>. USE DEF GuardInv, GuardIsKnown, GuardIsReleasable, Dialed, Aborting, Live
<1>1. PICK k \in 0..Len(retryDials), j \in 0..Len(retryLookups), w \in 0..waiters :
        Maintenance(k, j, w)
  BY DEF MaintenanceStep
<1>2. retryDials' \in Seq(AddrSets)
  BY <1>1, DropFirstType DEF Maintenance, GuardTypes
<1>3. cache' \in {cache, NoRecord}
  BY <1>1 DEF Maintenance
<1>4. CASE k = 0 \/ HasSession \/ dialing
  BY <1>1, <1>2, <1>3, <1>4 DEF Maintenance, GuardTypes, connVars, peerVars
<1>5. CASE ~(k = 0 \/ HasSession \/ dialing)
  <2>1. retryDials[1] \in AddrSets
    BY <1>1, <1>5 DEF GuardTypes
  <2>2. Dial(retryDials[1])
    BY <1>1, <1>5 DEF Maintenance
  <2>3. /\ dialing' = TRUE /\ known' = TRUE
        /\ dials' \in [AddrSets -> Nat]
        /\ \E T \in AddrSets : dials'[T] > 0
    BY <2>1, <2>2, DialKeeps
  <2>. QED
    BY <1>1, <1>2, <1>3, <2>3 DEF Maintenance, GuardTypes, connVars, peerVars
<1>. QED
  BY <1>4, <1>5

(* A dial that fails releases the guard, one that succeeds hands it to a   *)
(* connection.                                                             *)
LEMMA DialEndKeepsGuard ==
    ASSUME GuardInv, NEW S \in AddrSets, DialEnds(S)
    PROVE  GuardInv'
<1>. USE DEF GuardInv, GuardIsKnown, GuardIsReleasable, Dialed, Aborting, Live
<1>1. ASSUME NEW c \in Conns, DialSucceeds(S, c) PROVE GuardInv'
  <2>1. dials' \in [AddrSets -> Nat]
    BY <1>1 DEF DialSucceeds, GuardTypes
  <2>2. conn' \in [Conns -> {"none", "hs", "up", "closing"}] /\ conn'[c] = "hs"
    BY <1>1 DEF DialSucceeds, GuardTypes
  <2>. QED
    BY <1>1, <2>1, <2>2 DEF DialSucceeds, GuardTypes, peerVars
<1>2. CASE DialFails(S)
  <2>1. dials' \in [AddrSets -> Nat] /\ dialing' = FALSE
    BY <1>2 DEF DialFails, OnDialError, GuardTypes
  <2>2. cache' \in DialableRecords \cup {NoRecord}
    BY <1>2, InvalidateType DEF DialFails, OnDialError, GuardTypes
  <2>. QED
    BY <1>2, <2>1, <2>2 DEF DialFails, GuardTypes, connVars, peerVars
<1>3. CASE DialFindsOther(S)
  <2>1. dials' \in [AddrSets -> Nat] /\ dialing' = FALSE /\ cache' = NoRecord
    BY <1>3 DEF DialFindsOther, GuardTypes
  <2>. QED
    BY <1>3, <2>1 DEF DialFindsOther, GuardTypes, connVars, peerVars
<1>4. CASE DialAborted(S)
  <2>1. aborted' \in [AddrSets -> Nat] /\ dialing' = FALSE
    BY <1>4 DEF DialAborted, GuardTypes
  <2>. QED
    BY <1>4, <2>1 DEF DialAborted, GuardTypes, connVars, peerVars
<1>. QED
  BY <1>1, <1>2, <1>3, <1>4 DEF DialEnds

(* Connections come, change state and go; the last to go takes the guard.  *)
LEMMA ConnectionKeepsGuard ==
    ASSUME GuardInv, NEW c \in Conns,
           OtherConnection(c) \/ HandshakeEnds(c) \/ ConnectionClosed(c)
    PROVE  GuardInv'
<1>. USE DEF GuardInv, GuardIsKnown, GuardIsReleasable, Dialed, Aborting, Live
<1>1. CASE OtherConnection(c)
  <2>1. conn' \in [Conns -> {"none", "hs", "up", "closing"}] /\ conn'[c] = "hs"
    BY <1>1 DEF OtherConnection, GuardTypes
  <2>. QED
    BY <1>1, <2>1 DEF OtherConnection, GuardTypes, dialVars, peerVars
<1>2. CASE Established(c)
  <2>1. conn' \in [Conns -> {"none", "hs", "up", "closing"}] /\ conn'[c] = "up"
    BY <1>2 DEF Established, GuardTypes
  <2>. QED
    BY <1>2, <2>1 DEF Established, GuardTypes, peerVars
<1>3. CASE HandshakeFails(c)
  <2>1. conn' \in [Conns -> {"none", "hs", "up", "closing"}] /\ conn'[c] = "up"
    BY <1>3 DEF HandshakeFails, GuardTypes
  <2>. QED
    BY <1>3, <2>1 DEF HandshakeFails, GuardTypes, dialVars, peerVars
<1>4. CASE StreamBreaks(c)
  <2>1. conn' \in [Conns -> {"none", "hs", "up", "closing"}] /\ conn'[c] = "up"
    BY <1>4 DEF StreamBreaks, GuardTypes
  <2>. QED
    BY <1>4, <2>1 DEF StreamBreaks, GuardTypes, dialVars, peerVars
<1>5. CASE ConnectionClosed(c)
  <2>1. conn' \in [Conns -> {"none", "hs", "up", "closing"}]
    BY <1>5 DEF ConnectionClosed, GuardTypes
  <2>2. dialing' = FALSE
    BY <1>5 DEF ConnectionClosed, GuardAfterClose, GuardTypes
  <2>. QED
    BY <1>5, <2>1, <2>2 DEF ConnectionClosed, GuardTypes, peerVars
<1>. QED
  BY <1>1, <1>2, <1>3, <1>4, <1>5 DEF HandshakeEnds

(* The node's reactions release the guard or leave what holds it.          *)
LEMMA NodeKeepsGuard == GuardInv /\ NodeEvent => GuardInv'
<1>. SUFFICES ASSUME GuardInv, NodeEvent PROVE GuardInv'
  OBVIOUS
<1>. USE DEF GuardInv, GuardIsKnown, GuardIsReleasable, Dialed, Aborting, Live
<1>1. CASE NodeEstablished
  BY <1>1 DEF NodeEstablished, GuardTypes, peerVars
<1>2. ASSUME NEW T, NodeFailed(T) PROVE GuardInv'
  <2>1. conn' = [c \in Conns |-> IF conn[c] # "none" THEN "closing" ELSE "none"]
    BY <1>2 DEF NodeFailed
  <2>2. /\ conn' \in [Conns -> {"none", "hs", "up", "closing"}]
        /\ \A c \in Conns : conn[c] # "none" => conn'[c] # "none"
    BY <2>1
  <2>3. /\ dials' \in [AddrSets -> Nat]
        /\ aborted' \in [AddrSets -> Nat]
        /\ \A S \in AddrSets : dials'[S] + aborted'[S] = dials[S] + aborted[S]
    BY <1>2 DEF NodeFailed, GuardTypes
  <2>4. Dialed \/ Aborting => Dialed' \/ Aborting'
    <3>. SUFFICES ASSUME NEW S \in AddrSets, dials[S] > 0 \/ aborted[S] > 0
                  PROVE  dials'[S] > 0 \/ aborted'[S] > 0
      BY DEF Dialed, Aborting
    <3>. QED
      BY <2>3 DEF GuardTypes
  <2>5. dialing' = dialing /\ known' = known
    BY <1>2 DEF NodeFailed
  <2>6. GuardTypes'
    BY <1>2, <2>2, <2>3 DEF NodeFailed, GuardTypes, peerVars
  <2>. QED
    BY <2>2, <2>4, <2>5, <2>6
<1>3. CASE NodeDisconnected
  <2>1. retryDials' \in Seq(AddrSets)
    <3>1. CASE hadSession /\ cache # NoRecord /\ ~(dialing \/ HasSession)
      <4>1. cache.addrs \in AddrSets
        BY <3>1 DEF GuardTypes, DialableRecords
      <4>2. retryDials' = Append(retryDials, cache.addrs)
        BY <1>3, <3>1 DEF NodeDisconnected, ScheduleReconnect
      <4>. QED
        BY <4>1, <4>2 DEF GuardTypes
    <3>2. CASE ~(hadSession /\ cache # NoRecord /\ ~(dialing \/ HasSession))
      <4>1. retryDials' = retryDials
        BY <1>3, <3>2 DEF NodeDisconnected, ScheduleReconnect
      <4>. QED
        BY <4>1 DEF GuardTypes
    <3>. QED
      BY <3>1, <3>2
  <2>. QED
    BY <1>3, <2>1 DEF NodeDisconnected, GuardTypes, peerVars
<1>. QED
  BY <1>1, <1>2, <1>3 DEF NodeEvent

(* Every step keeps the invariant.                                         *)
LEMMA GuardStep == GuardInv /\ [Next]_vars => GuardInv'
<1>. SUFFICES ASSUME GuardInv, [Next]_vars PROVE GuardInv'
  OBVIOUS
<1>1. ASSUME NEW isLookup \in BOOLEAN, Command(isLookup) PROVE GuardInv'
  BY <1>1 DEF Command, GuardInv, GuardTypes, GuardIsKnown, GuardIsReleasable, Dialed, Aborting, Live,
              connVars, dialVars, peerVars
<1>2. ASSUME NEW a \in Addrs, OtherDialFails(a) PROVE GuardInv'
  <2>1. cache' \in DialableRecords \cup {NoRecord} /\ dialing' = FALSE
    BY <1>2, InvalidateType DEF OtherDialFails, OnDialError, GuardInv, GuardTypes
  <2>. QED
    BY <1>2, <2>1 DEF OtherDialFails, GuardInv, GuardTypes, GuardIsKnown, GuardIsReleasable,
                      connVars, peerVars
<1>3. CASE SessionFails
  BY <1>3 DEF SessionFails, GuardInv, GuardTypes, GuardIsKnown, GuardIsReleasable, Dialed, Aborting, Live,
              dialVars, peerVars
<1>4. CASE UNCHANGED vars
  BY <1>4 DEF vars, GuardInv, GuardTypes, GuardIsKnown, GuardIsReleasable, Dialed, Aborting, Live,
              connVars, dialVars, peerVars
<1>. QED
  BY <1>1, <1>2, <1>3, <1>4, PeerKeepsGuard, LookupKeepsGuard, MaintenanceKeepsGuard,
     DialEndKeepsGuard, ConnectionKeepsGuard, NodeKeepsGuard
     DEF Next

(* The dialing guard is never leaked: whatever the order of lookups,       *)
(* dials, closings and late events, while dial_peer would be a no-op there *)
(* is a dial or a connection to the peer whose end clears the guard.       *)
THEOREM GuardIsNeverLeaked == Spec => []GuardIsReleasable
<1>1. GuardInv => GuardIsReleasable
  BY DEF GuardInv
<1>. QED
  BY GuardInit, GuardStep, <1>1, PTL DEF Spec
-----------------------------------------------------------------------------
(* The type invariant, part by part.                                       *)
PeerTypes ==
    /\ home \in SUBSET Addrs
    /\ newest \in Records \cup {NoRecord}
    /\ dht \in SUBSET Records
    /\ now \in 0..MaxNow

LookupTypes ==
    /\ pending \in [LookupRequests -> Nat]
    /\ retryLookups \in Seq(LookupRequests)
    /\ waiters \in Nat

DialTypes ==
    /\ dialing \in BOOLEAN
    /\ dials \in [AddrSets -> Nat]
    /\ aborted \in [AddrSets -> Nat]
    /\ retryDials \in Seq(AddrSets)
    /\ known \in BOOLEAN

ConnTypes ==
    /\ conn \in [Conns -> {"none", "hs", "up", "closing"}]
    /\ sess \in Conns \cup {NoConn}
    /\ events \in Seq({"Established", "Failed", "Disconnected"})
    /\ hadSession \in BOOLEAN
    /\ lost \in BOOLEAN

CacheType == cache \in Records \cup {NoRecord}

EnvTypes == trouble \in 0..MaxTrouble /\ ended \in BOOLEAN

(* The parts, with "ended", which TypeOK leaves open.                      *)
Types == PeerTypes /\ LookupTypes /\ DialTypes /\ ConnTypes /\ CacheType /\ EnvTypes

(* Together they are the type invariant.                                   *)
LEMMA TypesSuffice == Types => TypeOK
BY DEF Types, PeerTypes, LookupTypes, DialTypes, ConnTypes, CacheType, EnvTypes, TypeOK

(* A step that leaves a group of variables alone keeps their types.        *)
LEMMA TypesFrame ==
    /\ PeerTypes /\ UNCHANGED peerVars => PeerTypes'
    /\ LookupTypes /\ UNCHANGED lookupVars => LookupTypes'
    /\ DialTypes /\ UNCHANGED dialVars => DialTypes'
    /\ ConnTypes /\ UNCHANGED connVars => ConnTypes'
    /\ CacheType /\ UNCHANGED cache => CacheType'
    /\ EnvTypes /\ UNCHANGED envVars => EnvTypes'
<1>1. PeerTypes /\ UNCHANGED peerVars => PeerTypes'
  BY DEF PeerTypes, peerVars
<1>2. LookupTypes /\ UNCHANGED lookupVars => LookupTypes'
  BY DEF LookupTypes, lookupVars
<1>3. DialTypes /\ UNCHANGED dialVars => DialTypes'
  BY DEF DialTypes, dialVars
<1>4. ConnTypes /\ UNCHANGED connVars => ConnTypes'
  BY DEF ConnTypes, connVars
<1>5. CacheType /\ UNCHANGED cache => CacheType'
  BY DEF CacheType
<1>6. EnvTypes /\ UNCHANGED envVars => EnvTypes'
  BY DEF EnvTypes, envVars
<1>. QED
  BY <1>1, <1>2, <1>3, <1>4, <1>5, <1>6

(* What may go wrong is counted up to the bound.                           *)
LEMMA TroubleType ==
    ASSUME EnvTypes, NEW kind, Trouble(kind), GoesOn \/ EndsPursuit
    PROVE  EnvTypes'
<1>1. trouble' \in 0..MaxTrouble
  BY TimesAssumption DEF EnvTypes, Trouble
<1>2. ended' \in BOOLEAN
  BY DEF EnvTypes, GoesOn, EndsPursuit
<1>. QED
  BY <1>1, <1>2 DEF EnvTypes

(* A dial is of an address set that has a counter.                         *)
LEMMA DialType ==
    ASSUME DialTypes, NEW S \in AddrSets, Dial(S), UNCHANGED aborted,
           retryDials' \in Seq(AddrSets)
    PROVE  DialTypes'
<1>0. S # {}
  BY DEF AddrSets
<1>1. dialing' = TRUE /\ known' = TRUE /\ dials' = [dials EXCEPT ![S] = @ + 1]
  BY <1>0 DEF Dial
<1>2. dials' \in [AddrSets -> Nat]
  BY <1>1 DEF DialTypes
<1>. QED
  BY <1>1, <1>2 DEF DialTypes

(* A failed dial leaves a record that can still be cached, or none.        *)
LEMMA InvalidateKeepsType ==
    ASSUME CacheType, NEW S
    PROVE  Invalidate(S) \in Records \cup {NoRecord}
<1>1. CASE cache.addrs \subseteq S
  BY <1>1 DEF Invalidate
<1>2. CASE ~(cache.addrs \subseteq S)
  <2>1. cache \in Records
    BY <1>2 DEF NoRecord, CacheType
  <2>2. cache.addrs \ S \in AddrSets
    BY <1>2, <2>1 DEF Records, AddrSets
  <2>. QED
    BY <1>2, <2>1, <2>2 DEF Invalidate, Records
<1>. QED
  BY <1>1, <1>2

(* A first attempt is a lookup request.                                    *)
LEMMA FirstAttemptType == CommandedLookup \in LookupRequests /\ OwnLookup \in LookupRequests
BY AttemptsAssumption DEF CommandedLookup, OwnLookup, LookupRequests

(* So does the next attempt, when one is left.                             *)
LEMMA NextAttemptType ==
    ASSUME NEW l \in LookupRequests, RetriesLeft(l)
    PROVE  NextAttempt(l) \in LookupRequests
<1>1. l.attempts + 1 \in 1..MaxAttempts /\ l.asked \in BOOLEAN
  BY AttemptsAssumption DEF RetriesLeft, LookupRequests
<1>2. NextAttempt(l) = [attempts |-> l.attempts + 1, asked |-> l.asked]
  BY DEF NextAttempt, LookupRequests
<1>. QED
  BY <1>1, <1>2 DEF LookupRequests

(* schedule_rediscovery queues a first attempt, or nothing.                *)
LEMMA RediscoverType ==
    ASSUME LookupTypes, retryLookups' = Rediscover(retryLookups),
           UNCHANGED <<pending, waiters>>
    PROVE  LookupTypes'
<1>1. OwnLookup \in LookupRequests
  BY FirstAttemptType
<1>2. /\ retryLookups \in Seq(LookupRequests)
      /\ Append(retryLookups, OwnLookup) \in Seq(LookupRequests)
  BY <1>1 DEF LookupTypes
<1>3. retryLookups' \in Seq(LookupRequests)
  BY <1>2 DEF Rediscover
<1>. QED
  BY <1>3 DEF LookupTypes

(* An answered query was in flight.                                        *)
LEMMA AnsweredType ==
    ASSUME LookupTypes, NEW a \in LookupRequests, pending[a] > 0, Answered(a),
           UNCHANGED <<retryLookups, waiters>>
    PROVE  LookupTypes'
<1>1. pending' \in [LookupRequests -> Nat]
  BY DEF LookupTypes, Answered
<1>. QED
  BY <1>1 DEF LookupTypes

-----------------------------------------------------------------------------
(* The initial state has the types.                                        *)
LEMMA TypesInit == Init => Types
<1>. SUFFICES ASSUME Init PROVE Types
  OBVIOUS
<1>1. PeerTypes
  BY TimesAssumption DEF Init, PeerTypes, AddrSets
<1>2. LookupTypes
  BY DEF Init, LookupTypes
<1>3. DialTypes
  <2>1. dialing \in BOOLEAN /\ known \in BOOLEAN
    BY DEF Init
  <2>2. dials \in [AddrSets -> Nat] /\ aborted \in [AddrSets -> Nat]
        /\ retryDials \in Seq(AddrSets)
    BY DEF Init
  <2>. QED
    BY <2>1, <2>2 DEF DialTypes
<1>4. ConnTypes
  <2>1. hadSession \in BOOLEAN /\ lost \in BOOLEAN
    BY DEF Init
  <2>2. conn \in [Conns -> {"none", "hs", "up", "closing"}] /\ sess \in Conns \cup {NoConn}
        /\ events \in Seq({"Established", "Failed", "Disconnected"})
    BY DEF Init
  <2>. QED
    BY <2>1, <2>2 DEF ConnTypes
<1>5. CacheType /\ EnvTypes
  <2>1. ended \in BOOLEAN
    BY DEF Init
  <2>2. CacheType /\ trouble \in 0..MaxTrouble
    BY TimesAssumption DEF Init, CacheType
  <2>. QED
    BY <2>1, <2>2 DEF EnvTypes
<1>. QED
  BY <1>1, <1>2, <1>3, <1>4, <1>5 DEF Types

(* The peer, the DHT and the clock.                                        *)
LEMMA PeerKeepsTypes == Types /\ PeerStep => Types'
<1>. SUFFICES ASSUME Types, PeerStep PROVE Types'
  OBVIOUS
<1>. USE TypesFrame DEF Types
<1>1. CASE Publish
  <2>1. [issued |-> now, addrs |-> home] \in Records
    BY <1>1 DEF Publish, PeerTypes, Records, AddrSets
  <2>2. PeerTypes'
    BY <1>1, <2>1 DEF Publish, PeerTypes
  <2>. QED
    BY <1>1, <2>2 DEF Publish
<1>2. CASE Converge
  <2>1. PeerTypes'
    BY <1>2 DEF Converge, PeerTypes
  <2>. QED
    BY <1>2, <2>1 DEF Converge
<1>3. CASE Tick
  <2>1. PeerTypes'
    BY <1>3, TimesAssumption DEF Tick, PeerTypes
  <2>. QED
    BY <1>3, <2>1 DEF Tick
<1>4. ASSUME NEW S \in SUBSET Addrs, Move(S) PROVE Types'
  <2>1. PeerTypes' /\ EnvTypes'
    BY <1>4, TroubleType DEF Move, PeerTypes
  <2>. QED
    BY <1>4, <2>1 DEF Move
<1>5. ASSUME NEW S \in SUBSET Addrs, ComeBack(S) PROVE Types'
  <2>1. PeerTypes'
    BY <1>5 DEF ComeBack, PeerTypes
  <2>. QED
    BY <1>5, <2>1 DEF ComeBack
<1>. QED
  BY <1>1, <1>2, <1>3, <1>4, <1>5 DEF PeerStep

(* Lookups and commands.                                                   *)
LEMMA LookupKeepsTypes ==
    ASSUME Types, NEW a \in LookupRequests, LookupEnds(a)
    PROVE  Types'
<1>. USE TypesFrame DEF Types
<1>1. ASSUME NEW r \in dht, LookupFound(a, r) PROVE Types'
  <2>1. r \in Records /\ r.addrs \in AddrSets
    BY DEF PeerTypes, Records
  <2>2. LookupTypes'
    BY <1>1, AnsweredType DEF LookupFound
  <2>3. CacheType'
    BY <1>1, <2>1 DEF LookupFound, OnVerifiedRecord, CacheType
  <2>4. DialTypes'
    <3>1. CASE Dial(r.addrs)
      BY <1>1, <2>1, <3>1, DialType DEF LookupFound, DialTypes
    <3>2. CASE UNCHANGED <<dialing, dials, known>>
      BY <1>1, <3>2 DEF LookupFound, DialTypes
    <3>. QED
      BY <1>1, <3>1, <3>2 DEF LookupFound, OnVerifiedRecord
  <2>5. EnvTypes'
    BY <1>1 DEF LookupFound, EnvTypes, GoesOn, EndsPursuit
  <2>. QED
    BY <1>1, <2>2, <2>3, <2>4, <2>5 DEF LookupFound
<1>2. CASE LookupRejected(a)
  <2>1. LookupTypes'
    BY <1>2, AnsweredType DEF LookupRejected
  <2>2. EnvTypes'
    BY <1>2, TroubleType DEF LookupRejected, EnvTypes, EndsPursuit
  <2>. QED
    BY <1>2, <2>1, <2>2 DEF LookupRejected
<1>3. CASE LookupFails(a)
  <2>1. pending' \in [LookupRequests -> Nat]
    BY <1>3 DEF LookupFails, Answered, LookupTypes
  <2>2. RetriesLeft(a) => NextAttempt(a) \in LookupRequests
    BY NextAttemptType
  <2>3. retryLookups' \in Seq(LookupRequests)
    <3>1. CASE RetriesLeft(a)
      <4>1. retryLookups' = Append(retryLookups, NextAttempt(a))
        BY <1>3, <3>1 DEF LookupFails
      <4>. QED
        BY <2>2, <3>1, <4>1 DEF LookupTypes
    <3>2. CASE ~RetriesLeft(a)
      BY <1>3, <3>2 DEF LookupFails, LookupTypes
    <3>. QED
      BY <3>1, <3>2
  <2>4. LookupTypes'
    BY <1>3, <2>1, <2>3 DEF LookupFails, LookupTypes
  <2>5. EnvTypes'
    BY <1>3, TroubleType DEF LookupFails
  <2>. QED
    BY <1>3, <2>4, <2>5 DEF LookupFails
<1>. QED
  BY <1>1, <1>2, <1>3 DEF LookupEnds

(* A command adds a pending first attempt.                                 *)
LEMMA CommandKeepsTypes ==
    ASSUME Types, NEW isLookup \in BOOLEAN, Command(isLookup)
    PROVE  Types'
<1>. USE TypesFrame DEF Types
<1>1. pending' \in [LookupRequests -> Nat]
  BY FirstAttemptType DEF Command, LookupTypes
<1>2. LookupTypes'
  BY <1>1 DEF Command, LookupTypes
<1>3. EnvTypes'
  BY TroubleType DEF Command
<1>. QED
  BY <1>2, <1>3 DEF Command

(* Maintenance moves queued lookups to the pending ones.                   *)
LEMMA ReissuedType ==
    ASSUME LookupTypes, NEW j \in 0..Len(retryLookups)
    PROVE  Reissued(j) \in [LookupRequests -> Nat]
<1>1. ASSUME NEW a \in LookupRequests
      PROVE  pending[a] + Cardinality({i \in 1..j : retryLookups[i] = a}) \in Nat
  <2>1. IsFiniteSet(1..j)
    BY FS_Interval
  <2>2. {i \in 1..j : retryLookups[i] = a} \in SUBSET (1..j)
    OBVIOUS
  <2>3. Cardinality({i \in 1..j : retryLookups[i] = a}) \in Nat
    BY <2>1, <2>2, FS_Subset, FS_CardinalityType
  <2>. QED
    BY <2>3 DEF LookupTypes
<1>. QED
  BY <1>1 DEF Reissued

(* Maintenance takes prefixes of the queues and dials a queued address     *)
(* set.                                                                    *)
LEMMA MaintenanceKeepsTypes ==
    ASSUME Types, NEW k \in 0..Len(retryDials), NEW j \in 0..Len(retryLookups),
           NEW w \in 0..waiters, Maintenance(k, j, w)
    PROVE  Types'
<1>. USE TypesFrame DEF Types
<1>1. retryDials' \in Seq(AddrSets)
  BY DropFirstType DEF Maintenance, DialTypes
<1>2. DialTypes'
  <2>1. CASE k = 0 \/ HasSession \/ dialing
    BY <1>1, <2>1 DEF Maintenance, DialTypes
  <2>2. CASE ~(k = 0 \/ HasSession \/ dialing)
    <3>1. retryDials[1] \in AddrSets
      BY <2>2 DEF DialTypes
    <3>. QED
      BY <1>1, <2>2, <3>1, DialType DEF Maintenance
  <2>. QED
    BY <2>1, <2>2
<1>3. retryLookups' \in Seq(LookupRequests) /\ pending' \in [LookupRequests -> Nat]
  BY DropFirstType, ReissuedType DEF Maintenance, LookupTypes
<1>4. waiters' \in Nat
  BY DEF Maintenance, LookupTypes
<1>5. LookupTypes'
  BY <1>3, <1>4 DEF Maintenance, LookupTypes
<1>6. CacheType'
  BY DEF Maintenance, CacheType
<1>. QED
  BY <1>2, <1>5, <1>6 DEF Maintenance

(* The ends of dials.                                                      *)
LEMMA DialEndKeepsTypes ==
    ASSUME Types, NEW S \in AddrSets, DialEnds(S)
    PROVE  Types'
<1>. USE TypesFrame DEF Types
<1>1. ASSUME NEW c \in Conns, DialSucceeds(S, c) PROVE Types'
  <2>1. dials' \in [AddrSets -> Nat]
    BY <1>1 DEF DialSucceeds, DialTypes
  <2>2. DialTypes'
    BY <1>1, <2>1 DEF DialSucceeds, DialTypes
  <2>3. ConnTypes'
    BY <1>1 DEF DialSucceeds, ConnTypes
  <2>. QED
    BY <1>1, <2>2, <2>3 DEF DialSucceeds
<1>2. CASE DialFails(S)
  <2>1. dials' \in [AddrSets -> Nat]
    BY <1>2 DEF DialFails, DialTypes
  <2>2. DialTypes'
    BY <1>2, <2>1 DEF DialFails, OnDialError, DialTypes
  <2>3. LookupTypes'
    BY <1>2, RediscoverType DEF DialFails, OnDialError
  <2>4. CacheType'
    BY <1>2, InvalidateKeepsType DEF DialFails, OnDialError, CacheType
  <2>5. EnvTypes'
    BY <1>2, TroubleType DEF DialFails
  <2>. QED
    BY <1>2, <2>2, <2>3, <2>4, <2>5 DEF DialFails
<1>3. CASE DialFindsOther(S)
  <2>1. dials' \in [AddrSets -> Nat]
    BY <1>3 DEF DialFindsOther, DialTypes
  <2>2. DialTypes' /\ CacheType'
    BY <1>3, <2>1 DEF DialFindsOther, DialTypes, CacheType
  <2>3. EnvTypes'
    BY <1>3, TroubleType DEF DialFindsOther
  <2>. QED
    BY <1>3, <2>2, <2>3 DEF DialFindsOther
<1>4. CASE DialAborted(S)
  <2>1. aborted' \in [AddrSets -> Nat]
    BY <1>4 DEF DialAborted, DialTypes
  <2>2. DialTypes'
    BY <1>4, <2>1 DEF DialAborted, DialTypes
  <2>. QED
    BY <1>4, <2>2 DEF DialAborted
<1>. QED
  BY <1>1, <1>2, <1>3, <1>4 DEF DialEnds

(* A dial that Kademlia made and lost.                                     *)
LEMMA OtherDialKeepsTypes ==
    ASSUME Types, NEW a \in Addrs, OtherDialFails(a)
    PROVE  Types'
<1>. USE TypesFrame DEF Types
<1>1. DialTypes'
  BY DEF OtherDialFails, OnDialError, DialTypes
<1>2. LookupTypes'
  BY RediscoverType DEF OtherDialFails, OnDialError
<1>3. CacheType'
  BY InvalidateKeepsType DEF OtherDialFails, OnDialError, CacheType
<1>4. EnvTypes'
  BY TroubleType DEF OtherDialFails
<1>. QED
  BY <1>1, <1>2, <1>3, <1>4 DEF OtherDialFails

(* Connections.                                                            *)
LEMMA ConnectionKeepsTypes ==
    ASSUME Types, NEW c \in Conns,
           OtherConnection(c) \/ HandshakeEnds(c) \/ ConnectionClosed(c)
    PROVE  Types'
<1>. USE TypesFrame DEF Types
<1>1. CASE OtherConnection(c)
  <2>1. ConnTypes'
    BY <1>1 DEF OtherConnection, ConnTypes
  <2>2. EnvTypes'
    BY <1>1, TroubleType DEF OtherConnection
  <2>. QED
    BY <1>1, <2>1, <2>2 DEF OtherConnection
<1>2. CASE Established(c)
  <2>1. ConnTypes'
    BY <1>2 DEF Established, ConnTypes
  <2>2. DialTypes'
    BY <1>2 DEF Established, DialTypes
  <2>. QED
    BY <1>2, <2>1, <2>2 DEF Established
<1>3. CASE HandshakeFails(c)
  <2>1. ConnTypes'
    BY <1>3 DEF HandshakeFails, ConnTypes
  <2>2. EnvTypes'
    BY <1>3, TroubleType DEF HandshakeFails, EnvTypes, EndsPursuit
  <2>. QED
    BY <1>3, <2>1, <2>2 DEF HandshakeFails
<1>4. CASE StreamBreaks(c)
  <2>1. ConnTypes'
    BY <1>4 DEF StreamBreaks, ConnTypes
  <2>2. EnvTypes'
    BY <1>4, TroubleType DEF StreamBreaks
  <2>. QED
    BY <1>4, <2>1, <2>2 DEF StreamBreaks
<1>5. CASE ConnectionClosed(c)
  <2>1. conn' \in [Conns -> {"none", "hs", "up", "closing"}]
    BY <1>5 DEF ConnectionClosed, ConnTypes
  <2>2. ConnTypes'
    BY <1>5, <2>1 DEF ConnectionClosed, ConnTypes
  <2>3. DialTypes'
    BY <1>5 DEF ConnectionClosed, GuardAfterClose, DialTypes
  <2>4. EnvTypes'
    BY <1>5, TroubleType DEF ConnectionClosed
  <2>. QED
    BY <1>5, <2>2, <2>3, <2>4 DEF ConnectionClosed
<1>. QED
  BY <1>1, <1>2, <1>3, <1>4, <1>5 DEF HandshakeEnds

(* A session error queues an event.                                        *)
LEMMA SessionKeepsTypes == Types /\ SessionFails => Types'
<1>. SUFFICES ASSUME Types, SessionFails PROVE Types'
  OBVIOUS
<1>. USE TypesFrame DEF Types
<1>1. ConnTypes'
  BY DEF SessionFails, ConnTypes
<1>2. EnvTypes'
  BY TroubleType DEF SessionFails
<1>. QED
  BY <1>1, <1>2 DEF SessionFails

(* The node's reactions.                                                   *)
LEMMA NodeKeepsTypes == Types /\ NodeEvent => Types'
<1>. SUFFICES ASSUME Types, NodeEvent PROVE Types'
  OBVIOUS
<1>. USE TypesFrame DEF Types
<1>1. ASSUME NEW e, NextEvent(e)
      PROVE  events' \in Seq({"Established", "Failed", "Disconnected"})
  BY <1>1 DEF NextEvent, ConnTypes
<1>2. CASE NodeEstablished
  <2>1. ConnTypes' /\ DialTypes'
    BY <1>1, <1>2 DEF NodeEstablished, ConnTypes, DialTypes
  <2>. QED
    BY <1>2, <2>1 DEF NodeEstablished
<1>3. ASSUME NEW T, NodeFailed(T) PROVE Types'
  <2>1. conn' \in [Conns -> {"none", "hs", "up", "closing"}]
    BY <1>3 DEF NodeFailed
  <2>2. ConnTypes'
    BY <1>1, <1>3, <2>1 DEF NodeFailed, ConnTypes
  <2>3. dials' \in [AddrSets -> Nat] /\ aborted' \in [AddrSets -> Nat]
    BY <1>3 DEF NodeFailed, DialTypes
  <2>4. DialTypes'
    BY <1>3, <2>3 DEF NodeFailed, DialTypes
  <2>5. EnvTypes'
    BY <1>3 DEF NodeFailed, EnvTypes, GoesOn, EndsPursuit
  <2>. QED
    BY <1>3, <2>2, <2>4, <2>5 DEF NodeFailed
<1>4. CASE NodeDisconnected
  <2>1. ConnTypes'
    BY <1>1, <1>4 DEF NodeDisconnected, ConnTypes
  <2>2. retryDials' \in Seq(AddrSets)
    <3>1. CASE hadSession /\ cache # NoRecord /\ ~(dialing \/ HasSession)
      <4>1. cache.addrs \in AddrSets
        BY <3>1 DEF CacheType, Records
      <4>2. retryDials' = Append(retryDials, cache.addrs)
        BY <1>4, <3>1 DEF NodeDisconnected, ScheduleReconnect
      <4>. QED
        BY <4>1, <4>2 DEF DialTypes
    <3>2. CASE ~(hadSession /\ cache # NoRecord /\ ~(dialing \/ HasSession))
      <4>1. retryDials' = retryDials
        BY <1>4, <3>2 DEF NodeDisconnected, ScheduleReconnect
      <4>. QED
        BY <4>1 DEF DialTypes
    <3>. QED
      BY <3>1, <3>2
  <2>3. DialTypes'
    BY <1>4, <2>2 DEF NodeDisconnected, DialTypes
  <2>4. LookupTypes'
    <3>1. CASE hadSession /\ cache # NoRecord
      BY <1>4, <3>1, RediscoverType DEF NodeDisconnected, ScheduleReconnect
    <3>2. CASE ~(hadSession /\ cache # NoRecord)
      BY <1>4, <3>2 DEF NodeDisconnected, ScheduleReconnect, LookupTypes
    <3>. QED
      BY <3>1, <3>2
  <2>. QED
    BY <1>4, <2>1, <2>3, <2>4 DEF NodeDisconnected
<1>. QED
  BY <1>2, <1>3, <1>4 DEF NodeEvent

(* Every step keeps the types.                                             *)
LEMMA TypesStep == Types /\ [Next]_vars => Types'
<1>. SUFFICES ASSUME Types, [Next]_vars PROVE Types'
  OBVIOUS
<1>1. CASE MaintenanceStep
  BY <1>1, MaintenanceKeepsTypes DEF MaintenanceStep
<1>2. CASE UNCHANGED vars
  BY <1>2, TypesFrame DEF vars, Types
<1>. QED
  BY <1>1, <1>2, PeerKeepsTypes, LookupKeepsTypes, CommandKeepsTypes, DialEndKeepsTypes,
     OtherDialKeepsTypes, ConnectionKeepsTypes, SessionKeepsTypes, NodeKeepsTypes
     DEF Next

-----------------------------------------------------------------------------
(* Lookups of schedule_rediscovery's own.                                  *)
Own(l) == ~l.asked

(* At most one of them is under way, among p, the lookups in flight, and   *)
(* q, the queued ones.                                                     *)
OwnIsOne(p, q) ==
    /\ \A i, j \in 1..Len(q) : Own(q[i]) /\ Own(q[j]) => i = j
    /\ \A l \in LookupRequests : Own(l) => p[l] <= 1
    /\ \A l, k \in LookupRequests : Own(l) /\ Own(k) /\ p[l] > 0 /\ p[k] > 0 => l = k
    /\ \A i \in 1..Len(q), l \in LookupRequests : Own(q[i]) /\ Own(l) => p[l] = 0

RediscoveryInv == LookupTypes /\ OwnIsOne(pending, retryLookups)

(* This is the property's second half.                                     *)
LEMMA OwnIsSingle ==
    ASSUME RediscoveryInv, NEW x \in OwnLookups, NEW y \in OwnLookups
    PROVE  x = y
<1>. DEFINE Queued == {0} \X {i \in DOMAIN retryLookups : ~retryLookups[i].asked}
            Flying(l) == {l.attempts} \X (1..pending[l])
            OwnRequests == {l \in LookupRequests : ~l.asked}
<1>1. retryLookups \in Seq(LookupRequests) /\ pending \in [LookupRequests -> Nat]
  BY DEF RediscoveryInv, LookupTypes
<1>2. ASSUME NEW z \in OwnLookups
      PROVE  \/ \E i \in 1..Len(retryLookups) : Own(retryLookups[i]) /\ z = <<0, i>>
             \/ \E l \in LookupRequests : /\ Own(l) /\ pending[l] > 0
                                          /\ pending[l] <= 1 => z = <<l.attempts, 1>>
  <2>1. z \in Queued \/ \E l \in OwnRequests : z \in Flying(l)
    BY <1>2 DEF OwnLookups
  <2>2. CASE z \in Queued
    BY <1>1, <2>2 DEF Own
  <2>3. ASSUME NEW l \in OwnRequests, z \in Flying(l)
        PROVE  Own(l) /\ pending[l] > 0 /\ (pending[l] <= 1 => z = <<l.attempts, 1>>)
    <3>1. PICK n \in 1..pending[l] : z = <<l.attempts, n>>
      BY <2>3
    <3>2. pending[l] \in Nat
      BY <1>1
    <3>3. pending[l] > 0 /\ (pending[l] <= 1 => n = 1)
      BY <3>1, <3>2
    <3>. QED
      BY <3>1, <3>3 DEF Own
  <2>. QED
    BY <2>1, <2>2, <2>3
<1>3. OwnIsOne(pending, retryLookups)
  BY DEF RediscoveryInv
<1>4. ASSUME NEW i \in 1..Len(retryLookups), Own(retryLookups[i]), x = <<0, i>>
      PROVE  x = y
  <2>1. \A l \in LookupRequests : Own(l) => ~(pending[l] > 0)
    BY <1>1, <1>3, <1>4 DEF OwnIsOne
  <2>2. \E j \in 1..Len(retryLookups) : Own(retryLookups[j]) /\ y = <<0, j>>
    BY <1>2, <2>1
  <2>3. PICK j \in 1..Len(retryLookups) : Own(retryLookups[j]) /\ y = <<0, j>>
    BY <2>2
  <2>4. i = j
    BY <1>3, <1>4, <2>3 DEF OwnIsOne
  <2>. QED
    BY <1>4, <2>3, <2>4
<1>5. ASSUME NEW l \in LookupRequests, Own(l), pending[l] > 0,
             pending[l] <= 1 => x = <<l.attempts, 1>>
      PROVE  x = y
  <2>1. x = <<l.attempts, 1>>
    BY <1>3, <1>5 DEF OwnIsOne
  <2>2. \A i \in 1..Len(retryLookups) : ~Own(retryLookups[i])
    BY <1>1, <1>3, <1>5 DEF OwnIsOne
  <2>3. PICK k \in LookupRequests : Own(k) /\ pending[k] > 0 /\
                                   (pending[k] <= 1 => y = <<k.attempts, 1>>)
    BY <1>2, <2>2
  <2>4. k = l /\ pending[k] <= 1
    BY <1>3, <1>5, <2>3 DEF OwnIsOne
  <2>. QED
    BY <2>1, <2>3, <2>4
<1>. QED
  BY <1>2, <1>4, <1>5

(* A step that leaves the lookups alone keeps the invariant.               *)
LEMMA LookupsSame ==
    ASSUME RediscoveryInv, LookupTypes', UNCHANGED <<pending, retryLookups>>
    PROVE  RediscoveryInv'
BY DEF RediscoveryInv

(* schedule_rediscovery adds a lookup only where there is none.            *)
LEMMA RediscoverIsOne ==
    ASSUME RediscoveryInv, LookupTypes', retryLookups' = Rediscover(retryLookups),
           UNCHANGED pending
    PROVE  RediscoveryInv'
<1>1. CASE LookupInFlight
  BY <1>1, LookupsSame DEF Rediscover
<1>2. CASE ~LookupInFlight
  <2>1. retryLookups = <<>> /\ retryLookups' = Append(retryLookups, OwnLookup)
    BY <1>2 DEF Rediscover, LookupInFlight
  <2>2. Len(retryLookups') = 1
    BY <2>1
  <2>3. \A l \in LookupRequests : pending'[l] = 0
    BY <1>2 DEF LookupInFlight, RediscoveryInv, LookupTypes
  <2>4. OwnIsOne(pending', retryLookups')
    BY <2>2, <2>3 DEF OwnIsOne
  <2>. QED
    BY <2>4 DEF RediscoveryInv
<1>. QED
  BY <1>1, <1>2

(* What an answered query leaves in flight.                                *)
LEMMA AnsweredCounts ==
    ASSUME LookupTypes, NEW l \in LookupRequests, pending[l] > 0, Answered(l)
    PROVE  /\ pending'[l] = pending[l] - 1
           /\ \A k \in LookupRequests : k # l => pending'[k] = pending[k]
           /\ \A k \in LookupRequests : pending[k] \in Nat /\ pending'[k] \in Nat
BY DEF LookupTypes, Answered

(* An answered query takes nothing but itself away.                        *)
LEMMA AnswerIsOne ==
    ASSUME RediscoveryInv, LookupTypes', NEW l \in LookupRequests, pending[l] > 0, Answered(l),
           UNCHANGED retryLookups
    PROVE  RediscoveryInv'
<1>1. /\ pending'[l] = pending[l] - 1
      /\ \A k \in LookupRequests : k # l => pending'[k] = pending[k]
      /\ \A k \in LookupRequests : pending[k] \in Nat /\ pending'[k] \in Nat
  BY AnsweredCounts DEF RediscoveryInv
<1>2. \A k \in LookupRequests : pending'[k] <= pending[k]
  BY <1>1
<1>3. OwnIsOne(pending, retryLookups)
  BY DEF RediscoveryInv
<1>4. OwnIsOne(pending', retryLookups')
  BY <1>1, <1>2, <1>3 DEF OwnIsOne
<1>. QED
  BY <1>4 DEF RediscoveryInv

(* A failed query's retry takes its place.                                 *)
LEMMA RetryIsOne ==
    ASSUME RediscoveryInv, LookupTypes', NEW l \in LookupRequests, pending[l] > 0, Answered(l),
           retryLookups' = Append(retryLookups, NextAttempt(l))
    PROVE  RediscoveryInv'
<1>1. /\ pending'[l] = pending[l] - 1
      /\ \A k \in LookupRequests : k # l => pending'[k] = pending[k]
      /\ \A k \in LookupRequests : pending[k] \in Nat /\ pending'[k] \in Nat
  BY AnsweredCounts DEF RediscoveryInv
<1>2. OwnIsOne(pending, retryLookups)
  BY DEF RediscoveryInv
<1>3. Own(NextAttempt(l)) <=> Own(l)
  BY DEF Own, NextAttempt, LookupRequests
<1>4. PICK n \in Nat : n = Len(retryLookups)
  BY DEF RediscoveryInv, LookupTypes
<1>5. /\ Len(retryLookups') = n + 1
      /\ \A i \in 1..n : retryLookups'[i] = retryLookups[i]
      /\ retryLookups'[n + 1] = NextAttempt(l)
  BY <1>4 DEF RediscoveryInv, LookupTypes
<1>6. CASE Own(l)
  <2>1. \A i \in 1..n : ~Own(retryLookups'[i])
    BY <1>1, <1>2, <1>4, <1>5, <1>6 DEF OwnIsOne
  <2>2. \A k \in LookupRequests : Own(k) => pending'[k] = 0
    <3>1. ASSUME NEW k \in LookupRequests, Own(k), k # l PROVE pending'[k] = 0
      <4>1. ~(pending[k] > 0)
        BY <1>2, <1>6, <3>1 DEF OwnIsOne
      <4>. QED
        BY <1>1, <3>1, <4>1
    <3>2. pending'[l] = 0
      <4>1. pending[l] <= 1
        BY <1>2, <1>6 DEF OwnIsOne
      <4>. QED
        BY <1>1, <4>1
    <3>. QED
      BY <3>1, <3>2
  <2>3. \A i \in 1..(n + 1) : Own(retryLookups'[i]) => i = n + 1
    <3>. SUFFICES ASSUME NEW i \in 1..(n + 1), i # n + 1 PROVE ~Own(retryLookups'[i])
      OBVIOUS
    <3>1. i \in 1..n
      OBVIOUS
    <3>. QED
      BY <2>1, <3>1
  <2>4. OwnIsOne(pending', retryLookups')
    BY <1>5, <2>2, <2>3 DEF OwnIsOne
  <2>. QED
    BY <2>4 DEF RediscoveryInv
<1>7. CASE ~Own(l)
  <2>1. \A i \in 1..(n + 1) : Own(retryLookups'[i]) => i \in 1..n /\ Own(retryLookups[i])
    BY <1>3, <1>5, <1>7
  <2>2. \A k \in LookupRequests : Own(k) => pending'[k] = pending[k]
    BY <1>1, <1>7
  <2>3. OwnIsOne(pending', retryLookups')
    BY <1>2, <1>4, <1>5, <2>1, <2>2 DEF OwnIsOne
  <2>. QED
    BY <2>3 DEF RediscoveryInv
<1>. QED
  BY <1>6, <1>7

(* A lookup that ends is replaced by at most its own retry.                *)
LEMMA LookupKeepsOne ==
    ASSUME RediscoveryInv, LookupTypes', NEW l \in LookupRequests, LookupEnds(l)
    PROVE  RediscoveryInv'
<1>1. pending[l] > 0 /\ Answered(l)
  BY DEF LookupEnds, LookupFound, LookupRejected, LookupFails
<1>2. UNCHANGED retryLookups \/ retryLookups' = Append(retryLookups, NextAttempt(l))
  BY DEF LookupEnds, LookupFound, LookupRejected, LookupFails
<1>. QED
  BY <1>1, <1>2, AnswerIsOne, RetryIsOne

(* A command's lookup is asked for.                                        *)
LEMMA CommandKeepsOne ==
    ASSUME RediscoveryInv, LookupTypes', NEW isLookup, Command(isLookup)
    PROVE  RediscoveryInv'
<1>1. ~Own(CommandedLookup)
  BY DEF Own, CommandedLookup
<1>2. \A k \in LookupRequests : k # CommandedLookup => pending'[k] = pending[k]
  BY DEF Command, RediscoveryInv, LookupTypes
<1>3. \A k \in LookupRequests : Own(k) => pending'[k] = pending[k]
  BY <1>1, <1>2
<1>4. retryLookups' = retryLookups
  BY DEF Command
<1>5. OwnIsOne(pending', retryLookups')
  BY <1>3, <1>4 DEF RediscoveryInv, OwnIsOne
<1>. QED
  BY <1>5 DEF RediscoveryInv

(* Maintenance takes from the queue what it adds to the queries.           *)
LEMMA MaintenanceKeepsOne ==
    ASSUME RediscoveryInv, LookupTypes', NEW k, NEW j \in 0..Len(retryLookups), NEW w,
           Maintenance(k, j, w)
    PROVE  RediscoveryInv'
<1>. DEFINE Taken(l) == {i \in 1..j : retryLookups[i] = l}
<1>1. retryLookups \in Seq(LookupRequests) /\ pending \in [LookupRequests -> Nat]
  BY DEF RediscoveryInv, LookupTypes
<1>2. \A l \in LookupRequests : pending'[l] = pending[l] + Cardinality(Taken(l))
  BY DEF Maintenance, Reissued
<1>3. OwnIsOne(pending, retryLookups)
  BY DEF RediscoveryInv
<1>4. PICK n \in Nat : n = Len(retryLookups)
  BY <1>1
<1>5. /\ Len(retryLookups') = n - j
      /\ \A i \in 1..(n - j) : retryLookups'[i] = retryLookups[i + j] /\ i + j \in 1..n
  BY <1>1, <1>4 DEF Maintenance, DropFirst
<1>6. CASE \E i \in 1..j : Own(retryLookups[i])
  <2>1. PICK i \in 1..j : Own(retryLookups[i])
    BY <1>6
  <2>2. i \in 1..n /\ \A m \in 1..n : Own(retryLookups[m]) => m = i
    BY <1>3, <1>4, <2>1 DEF OwnIsOne
  <2>3. \A m \in 1..(n - j) : ~Own(retryLookups'[m])
    <3>. SUFFICES ASSUME NEW m \in 1..(n - j), Own(retryLookups'[m]) PROVE FALSE
      OBVIOUS
    <3>1. m + j \in 1..n /\ Own(retryLookups[m + j])
      BY <1>5
    <3>2. m + j = i
      BY <2>2, <3>1
    <3>. QED
      BY <2>1, <3>2
  <2>4. ASSUME NEW l \in LookupRequests, Own(l), l # retryLookups[i] PROVE pending'[l] = 0
    <3>1. Taken(l) = {}
      BY <1>4, <2>2, <2>4
    <3>2. Cardinality(Taken(l)) = 0
      BY <3>1, FS_EmptySet
    <3>3. pending[l] = 0
      BY <1>3, <1>4, <2>1, <2>2, <2>4 DEF OwnIsOne
    <3>. QED
      BY <1>2, <3>2, <3>3
  <2>5. ASSUME NEW l \in LookupRequests, l = retryLookups[i] PROVE pending'[l] = 1
    <3>1. Taken(l) = {i}
      BY <1>4, <2>1, <2>2, <2>5
    <3>2. Cardinality(Taken(l)) = 1
      BY <3>1, FS_Singleton
    <3>3. pending[l] = 0
      BY <1>3, <1>4, <2>1, <2>2, <2>5 DEF OwnIsOne
    <3>. QED
      BY <1>2, <3>2, <3>3
  <2>6. \A l \in LookupRequests : Own(l) => pending'[l] <= 1 /\ (pending'[l] > 0 => l = retryLookups[i])
    BY <2>4, <2>5
  <2>7. OwnIsOne(pending', retryLookups')
    BY <1>5, <2>3, <2>6 DEF OwnIsOne
  <2>. QED
    BY <2>7 DEF RediscoveryInv
<1>7. CASE ~\E i \in 1..j : Own(retryLookups[i])
  <2>1. ASSUME NEW l \in LookupRequests, Own(l) PROVE pending'[l] = pending[l]
    <3>1. Taken(l) = {}
      BY <1>7, <2>1
    <3>2. Cardinality(Taken(l)) = 0
      BY <3>1, FS_EmptySet
    <3>3. pending[l] \in Nat
      BY <1>1
    <3>. QED
      BY <1>2, <3>2, <3>3
  <2>2. \A i, m \in 1..(n - j) : Own(retryLookups'[i]) /\ Own(retryLookups'[m]) => i = m
    <3>. SUFFICES ASSUME NEW i \in 1..(n - j), NEW m \in 1..(n - j),
                         Own(retryLookups'[i]), Own(retryLookups'[m])
                  PROVE  i = m
      OBVIOUS
    <3>1. i + j = m + j
      BY <1>3, <1>4, <1>5 DEF OwnIsOne
    <3>. QED
      BY <3>1
  <2>3. \A i \in 1..(n - j), l \in LookupRequests :
            Own(retryLookups'[i]) /\ Own(l) => pending[l] = 0
    BY <1>3, <1>4, <1>5 DEF OwnIsOne
  <2>4. OwnIsOne(pending', retryLookups')
    BY <1>3, <1>5, <2>1, <2>2, <2>3 DEF OwnIsOne
  <2>. QED
    BY <2>4 DEF RediscoveryInv
<1>. QED
  BY <1>6, <1>7

(* Every step keeps it.                                                    *)
LEMMA RediscoveryStep ==
    ASSUME RediscoveryInv, LookupTypes', [Next]_vars
    PROVE  RediscoveryInv'
<1>1. CASE UNCHANGED <<pending, retryLookups>>
  BY <1>1, LookupsSame
<1>2. CASE PeerStep
  BY <1>1, <1>2 DEF PeerStep, Publish, Converge, Tick, Move, ComeBack, lookupVars
<1>3. CASE MaintenanceStep
  BY <1>3, MaintenanceKeepsOne DEF MaintenanceStep
<1>4. ASSUME NEW S \in AddrSets, DialEnds(S) PROVE RediscoveryInv'
  <2>1. CASE DialFails(S)
    BY <2>1, RediscoverIsOne DEF DialFails, OnDialError
  <2>2. CASE ~DialFails(S)
    BY <1>1, <1>4, <2>2 DEF DialEnds, DialSucceeds, DialFindsOther, DialAborted, lookupVars
  <2>. QED
    BY <2>1, <2>2
<1>5. ASSUME NEW a \in Addrs, OtherDialFails(a) PROVE RediscoveryInv'
  BY <1>5, RediscoverIsOne DEF OtherDialFails, OnDialError
<1>6. ASSUME NEW c \in Conns, OtherConnection(c) \/ HandshakeEnds(c) \/ ConnectionClosed(c)
      PROVE  RediscoveryInv'
  BY <1>1, <1>6 DEF OtherConnection, HandshakeEnds, Established, HandshakeFails, StreamBreaks,
                    ConnectionClosed, lookupVars
<1>7. CASE SessionFails
  BY <1>1, <1>7 DEF SessionFails, lookupVars
<1>8. CASE NodeEvent
  <2>1. CASE NodeDisconnected
    <3>1. CASE hadSession /\ cache # NoRecord
      BY <2>1, <3>1, RediscoverIsOne DEF NodeDisconnected, ScheduleReconnect
    <3>2. CASE ~(hadSession /\ cache # NoRecord)
      BY <1>1, <2>1, <3>2 DEF NodeDisconnected, ScheduleReconnect
    <3>. QED
      BY <3>1, <3>2
  <2>2. CASE ~NodeDisconnected
    BY <1>1, <1>8, <2>2 DEF NodeEvent, NodeEstablished, NodeFailed, lookupVars
  <2>. QED
    BY <2>1, <2>2
<1>9. CASE UNCHANGED vars
  BY <1>1, <1>9 DEF vars, lookupVars
<1>. QED
  BY <1>2, <1>3, <1>4, <1>5, <1>6, <1>7, <1>8, <1>9, LookupKeepsOne, CommandKeepsOne
     DEF Next

(* schedule_rediscovery deduplicates: whatever dials fail, sessions drop   *)
(* and lookups are retried, of the lookups pending or queued at any time   *)
(* at most one was not asked for by a command, and no attempt is numbered  *)
(* beyond MAX_LOOKUP_ATTEMPTS.                                             *)
THEOREM RediscoveryStaysSingle == Spec => []RediscoveryIsSingle
<1>1. Init => Types /\ RediscoveryInv
  <2>. SUFFICES ASSUME Init PROVE RediscoveryInv
    BY TypesInit
  <2>1. LookupTypes
    BY TypesInit DEF Types
  <2>2. Len(retryLookups) = 0 /\ \A l \in LookupRequests : pending[l] = 0
    BY DEF Init
  <2>3. OwnIsOne(pending, retryLookups)
    BY <2>2 DEF OwnIsOne
  <2>. QED
    BY <2>1, <2>3 DEF RediscoveryInv
<1>2. (Types /\ RediscoveryInv) /\ [Next]_vars => (Types /\ RediscoveryInv)'
  <2>1. Types' => LookupTypes'
    BY DEF Types
  <2>. QED
    BY <2>1, TypesStep, RediscoveryStep
<1>3. Types /\ RediscoveryInv => RediscoveryIsSingle
  BY TypesSuffice, OwnIsSingle DEF RediscoveryIsSingle
<1>. QED
  BY <1>1, <1>2, <1>3, PTL DEF Spec

-----------------------------------------------------------------------------
(* The pursuit of a lost peer.  While nothing has ended it, the node's     *)
(* events come in a strict order: after a loss, handled or still queued,   *)
(* the next event is that of a new session.                                *)
LossIsMadeGood ==
    /\ lost /\ events # <<>> => events[1] = "Established"
    /\ \A i \in 1..Len(events) :
        events[i] = "Disconnected" /\ i < Len(events) => events[i + 1] = "Established"

(* The last thing the node has heard or will hear of the peer is a loss.   *)
Quiet == IF events = <<>> THEN lost ELSE events[Len(events)] = "Disconnected"

Connecting == Dialed \/ \E c \in Conns : conn[c] = "hs"

(* Then no connection is past its handshake, and the guard of dial_peer    *)
(* stands for an attempt that is still being made: a dial that was aborted *)
(* or a session that is about to go would hold it for nothing.             *)
QuietIsBare ==
    Quiet => /\ \A c \in Conns : conn[c] \in {"none", "hs"}
             /\ sess = NoConn
             /\ dialing => Connecting

(* And when it has heard of it, something is still being done.             *)
Hunted == lost /\ events = <<>> => LookupInFlight \/ retryDials # <<>> \/ Connecting

SessionIsLive == HasSession => Live(sess)

(* A cached record came from the DHT, which keeps at least one.            *)
RecordWasFound == lost \/ cache # NoRecord => dht # {}

Pursuit == LossIsMadeGood /\ QuietIsBare /\ Hunted

PursuitInv == Types /\ SessionIsLive /\ RecordWasFound /\ (ended \/ Pursuit)

(* The invariant gives the property.                                       *)
LEMMA PursuitSuffices == PursuitInv => LostPeerIsPursued
BY DEF PursuitInv, Pursuit, Hunted, Connecting, LostPeerIsPursued, Pursued

(* Nothing is lost at the start.                                           *)
LEMMA PursuitInit == Init => PursuitInv
<1>. SUFFICES ASSUME Init PROVE PursuitInv
  OBVIOUS
<1>1. Types
  BY TypesInit
<1>2. events = <<>> /\ lost = FALSE /\ sess = NoConn /\ cache = NoRecord
  BY DEF Init
<1>. QED
  BY <1>1, <1>2 DEF PursuitInv, SessionIsLive, HasSession, RecordWasFound, Pursuit,
                    LossIsMadeGood, QuietIsBare, Quiet, Hunted

-----------------------------------------------------------------------------
(* The two facts that hold throughout.                                     *)

(* The session of the peer is on a connection that has not closed: when    *)
(* the connection goes, ConnectionClosed takes the session with it.        *)
LEMMA SessionStaysLive ==
    ASSUME Types, SessionIsLive, [Next]_vars
    PROVE  SessionIsLive'
<1>. USE DEF SessionIsLive, HasSession, Live, Types, ConnTypes
<1>1. CASE UNCHANGED <<conn, sess>>
  BY <1>1
<1>2. ASSUME NEW c \in Conns, conn' = [conn EXCEPT ![c] = "hs"] \/ conn' = [conn EXCEPT ![c] = "up"],
             UNCHANGED sess
      PROVE  SessionIsLive'
  BY <1>2
<1>3. CASE PeerStep
  BY <1>1, <1>3 DEF PeerStep, Publish, Converge, Tick, Move, ComeBack, connVars
<1>4. ASSUME NEW isLookup, Command(isLookup) PROVE SessionIsLive'
  BY <1>1, <1>4 DEF Command, connVars
<1>5. ASSUME NEW a, LookupEnds(a) PROVE SessionIsLive'
  BY <1>1, <1>5 DEF LookupEnds, LookupFound, LookupRejected, LookupFails, connVars
<1>6. CASE MaintenanceStep
  BY <1>1, <1>6 DEF MaintenanceStep, Maintenance, connVars
<1>7. ASSUME NEW S, DialEnds(S) PROVE SessionIsLive'
  <2>1. ASSUME NEW c \in Conns, DialSucceeds(S, c) PROVE SessionIsLive'
    BY <1>2, <2>1 DEF DialSucceeds
  <2>2. CASE DialFails(S) \/ DialFindsOther(S) \/ DialAborted(S)
    BY <1>1, <2>2 DEF DialFails, DialFindsOther, DialAborted, connVars
  <2>. QED
    BY <1>7, <2>1, <2>2 DEF DialEnds
<1>8. ASSUME NEW a, OtherDialFails(a) PROVE SessionIsLive'
  BY <1>1, <1>8 DEF OtherDialFails, connVars
<1>9. ASSUME NEW c \in Conns, OtherConnection(c) \/ HandshakeEnds(c) \/ ConnectionClosed(c)
      PROVE  SessionIsLive'
  <2>1. CASE OtherConnection(c)
    BY <1>2, <2>1 DEF OtherConnection
  <2>2. CASE Established(c)
    BY <2>2 DEF Established
  <2>3. CASE HandshakeFails(c)
    BY <1>2, <2>3 DEF HandshakeFails
  <2>4. CASE StreamBreaks(c)
    BY <1>2, <2>4 DEF StreamBreaks
  <2>5. CASE ConnectionClosed(c)
    BY <2>5 DEF ConnectionClosed
  <2>. QED
    BY <1>9, <2>1, <2>2, <2>3, <2>4, <2>5 DEF HandshakeEnds
<1>10. CASE SessionFails
  BY <1>10 DEF SessionFails
<1>11. CASE NodeEvent
  <2>1. ASSUME NEW T, NodeFailed(T) PROVE SessionIsLive'
    BY <2>1 DEF NodeFailed
  <2>2. CASE NodeEstablished \/ NodeDisconnected
    BY <1>1, <2>2 DEF NodeEstablished, NodeDisconnected
  <2>. QED
    BY <1>11, <2>1, <2>2 DEF NodeEvent
<1>12. CASE UNCHANGED vars
  BY <1>1, <1>12 DEF vars, connVars
<1>. QED
  BY <1>3, <1>4, <1>5, <1>6, <1>7, <1>8, <1>9, <1>10, <1>11, <1>12 DEF Next

(* Only on_verified_record fills the cache, and only from an answer of the *)
(* DHT; a peer counts as lost only if it had a record.                     *)
LEMMA RecordStaysFound ==
    ASSUME Types, RecordWasFound, [Next]_vars
    PROVE  RecordWasFound'
<1>. USE DEF RecordWasFound
<1>1. ASSUME dht # {} => dht' # {}, lost' => lost \/ cache # NoRecord,
             cache' # NoRecord => cache # NoRecord \/ dht # {}
      PROVE  RecordWasFound'
  BY <1>1
<1>2. CASE UNCHANGED <<dht, lost, cache>>
  BY <1>2
<1>3. CASE PeerStep
  BY <1>1, <1>3 DEF PeerStep, Publish, Converge, Tick, Move, ComeBack, connVars
<1>4. ASSUME NEW isLookup, Command(isLookup) PROVE RecordWasFound'
  BY <1>2, <1>4 DEF Command, connVars, peerVars
<1>5. ASSUME NEW a, LookupEnds(a) PROVE RecordWasFound'
  BY <1>1, <1>5 DEF LookupEnds, LookupFound, OnVerifiedRecord, LookupRejected, LookupFails,
                    connVars, peerVars
<1>6. CASE MaintenanceStep
  BY <1>1, <1>6 DEF MaintenanceStep, Maintenance, connVars, peerVars
<1>7. ASSUME NEW D, OnDialError(D), UNCHANGED <<dht, lost>> PROVE RecordWasFound'
  <2>1. cache = NoRecord => cache' = NoRecord
    BY <1>7 DEF OnDialError, Invalidate, NoRecord
  <2>. QED
    BY <1>1, <1>7, <2>1
<1>8. ASSUME NEW S, DialEnds(S) PROVE RecordWasFound'
  <2>1. CASE DialFails(S)
    BY <1>7, <2>1 DEF DialFails, connVars, peerVars
  <2>2. CASE DialFindsOther(S)
    BY <1>1, <2>2 DEF DialFindsOther, connVars, peerVars
  <2>3. CASE DialAborted(S) \/ \E c \in Conns : DialSucceeds(S, c)
    BY <1>2, <2>3 DEF DialAborted, DialSucceeds, connVars, peerVars
  <2>. QED
    BY <1>8, <2>1, <2>2, <2>3 DEF DialEnds
<1>9. ASSUME NEW a, OtherDialFails(a) PROVE RecordWasFound'
  BY <1>7, <1>9 DEF OtherDialFails, connVars, peerVars
<1>10. ASSUME NEW c, OtherConnection(c) \/ HandshakeEnds(c) \/ ConnectionClosed(c)
       PROVE  RecordWasFound'
  BY <1>2, <1>10 DEF OtherConnection, HandshakeEnds, Established, HandshakeFails, StreamBreaks,
                     ConnectionClosed, peerVars
<1>11. CASE SessionFails
  BY <1>2, <1>11 DEF SessionFails, peerVars
<1>12. CASE NodeEvent
  <2>1. lost' => lost \/ cache # NoRecord
    BY <1>12 DEF NodeEvent, NodeEstablished, NodeDisconnected, NodeFailed
  <2>2. UNCHANGED <<dht, cache>>
    BY <1>12 DEF NodeEvent, NodeEstablished, NodeDisconnected, NodeFailed, peerVars
  <2>. QED
    BY <1>1, <2>1, <2>2
<1>13. CASE UNCHANGED vars
  BY <1>2, <1>13 DEF vars, connVars, peerVars
<1>. QED
  BY <1>3, <1>4, <1>5, <1>6, <1>8, <1>9, <1>10, <1>11, <1>12, <1>13 DEF Next

-----------------------------------------------------------------------------
(* Steps that tell the node nothing leave the order of its events alone.   *)
LEMMA NothingHeard ==
    ASSUME Pursuit, UNCHANGED <<events, lost>>,
           Quiet => /\ \A c \in Conns : conn'[c] \in {"none", "hs"}
                    /\ sess' = NoConn
                    /\ dialing' => Connecting',
           lost /\ events = <<>> => LookupInFlight' \/ retryDials' # <<>> \/ Connecting'
    PROVE  Pursuit'
<1>1. LossIsMadeGood'
  BY DEF Pursuit, LossIsMadeGood
<1>2. Quiet' <=> Quiet
  BY DEF Quiet
<1>3. QuietIsBare'
  BY <1>2 DEF QuietIsBare
<1>4. Hunted'
  BY DEF Hunted
<1>. QED
  BY <1>1, <1>3, <1>4 DEF Pursuit

(* Nor do they if connections and the guard stay as they are.              *)
LEMMA NothingDone ==
    ASSUME Pursuit, UNCHANGED <<events, lost, conn, sess, dialing, dials>>,
           LookupInFlight \/ retryDials # <<>> =>
                LookupInFlight' \/ retryDials' # <<>>
    PROVE  Pursuit'
<1>1. Connecting' <=> Connecting
  BY DEF Connecting, Dialed
<1>2. Quiet => /\ \A c \in Conns : conn'[c] \in {"none", "hs"}
               /\ sess' = NoConn
               /\ dialing' => Connecting'
  BY <1>1 DEF Pursuit, QuietIsBare
<1>3. lost /\ events = <<>> => LookupInFlight' \/ retryDials' # <<>> \/ Connecting'
  BY <1>1 DEF Pursuit, Hunted
<1>. QED
  BY <1>2, <1>3, NothingHeard

(* Dialing makes the loss good.                                            *)
LEMMA DialPursues ==
    ASSUME Pursuit, DialTypes, NEW S \in AddrSets, Dial(S), UNCHANGED <<events, lost, conn, sess>>
    PROVE  Pursuit'
<1>1. S # {}
  BY DEF AddrSets
<1>2. dials' = [dials EXCEPT ![S] = @ + 1]
  BY <1>1 DEF Dial
<1>3. dials'[S] > 0
  BY <1>2 DEF DialTypes
<1>4. Connecting'
  BY <1>3 DEF Connecting, Dialed
<1>. QED
  BY <1>4, NothingHeard DEF Pursuit, QuietIsBare

(* So does looking the peer up again and letting go of the guard.          *)
LEMMA RediscoverPursues ==
    ASSUME Pursuit, LookupTypes, retryLookups' = Rediscover(retryLookups), dialing' = FALSE,
           UNCHANGED <<events, lost, conn, sess, pending>>
    PROVE  Pursuit'
<1>1. LookupInFlight'
  <2>1. CASE LookupInFlight
    BY <2>1 DEF Rediscover, LookupInFlight
  <2>2. CASE ~LookupInFlight
    <3>1. retryLookups' = Append(retryLookups, OwnLookup)
      BY <2>2 DEF Rediscover
    <3>2. retryLookups' # <<>>
      BY <3>1 DEF LookupTypes
    <3>. QED
      BY <3>2 DEF LookupInFlight
  <2>. QED
    BY <2>1, <2>2
<1>. QED
  BY <1>1, NothingHeard DEF Pursuit, QuietIsBare

(* Lookups: found, they dial, or find the guard taken by a live attempt;   *)
(* failed, they are queued again or end the pursuit.                       *)
LEMMA LookupPursues ==
    ASSUME PursuitInv, ~ended, ~ended', NEW a \in LookupRequests, LookupEnds(a)
    PROVE  Pursuit'
<1>0. Pursuit /\ Types
  BY DEF PursuitInv
<1>1. ASSUME NEW r \in dht, LookupFound(a, r) PROVE Pursuit'
  <2>1. r \in Records /\ r.addrs \in AddrSets
    BY <1>0 DEF Types, PeerTypes, Records
  <2>2. cache.issued <= r.issued
    BY <1>1 DEF LookupFound, EndsPursuit
  <2>3. Replaces(r)
    BY <2>2 DEF Replaces
  <2>4. UNCHANGED <<events, lost, conn, sess>>
    BY <1>1 DEF LookupFound, connVars
  <2>5. CASE dialing \/ HasSession
    <3>1. UNCHANGED <<dialing, dials>>
      BY <1>1, <2>3, <2>5 DEF LookupFound, OnVerifiedRecord
    <3>2. Connecting' <=> Connecting
      BY <2>4, <3>1 DEF Connecting, Dialed
    <3>3. Quiet => Connecting
      BY <1>0, <2>5 DEF Pursuit, QuietIsBare, HasSession
    <3>4. lost /\ events = <<>> => Quiet
      BY DEF Quiet
    <3>. QED
      BY <1>0, <2>4, <3>1, <3>2, <3>3, <3>4, NothingHeard DEF Pursuit, QuietIsBare
  <2>6. CASE ~(dialing \/ HasSession)
    BY <1>0, <1>1, <2>1, <2>3, <2>4, <2>6, DialPursues DEF LookupFound, OnVerifiedRecord, Types
  <2>. QED
    BY <2>5, <2>6
<1>2. CASE LookupRejected(a)
  BY <1>2 DEF LookupRejected, EndsPursuit
<1>3. CASE LookupFails(a)
  <2>1. UNCHANGED <<events, lost, conn, sess, dialing, dials, retryDials>>
    BY <1>3 DEF LookupFails, connVars, dialVars
  <2>2. Connecting' <=> Connecting
    BY <2>1 DEF Connecting, Dialed
  <2>3. lost => dht # {}
    BY DEF PursuitInv, RecordWasFound
  <2>4. lost => RetriesLeft(a)
    BY <1>3, <2>3 DEF LookupFails, EndsPursuit
  <2>5. lost => LookupInFlight'
    <3>. SUFFICES ASSUME lost PROVE retryLookups' # <<>>
      BY DEF LookupInFlight
    <3>1. retryLookups' = Append(retryLookups, NextAttempt(a))
      BY <1>3, <2>4 DEF LookupFails
    <3>. QED
      BY <1>0, <3>1 DEF Types, LookupTypes
  <2>. QED
    BY <1>0, <2>1, <2>2, <2>5, NothingHeard DEF Pursuit, QuietIsBare
<1>. QED
  BY <1>1, <1>2, <1>3 DEF LookupEnds

(* A command looks the peer up.                                            *)
LEMMA CommandPursues ==
    ASSUME Pursuit, Types, NEW isLookup, Command(isLookup)
    PROVE  Pursuit'
<1>0. CommandedLookup \in LookupRequests
  BY FirstAttemptType
<1>1. pending'[CommandedLookup] > 0
  BY <1>0 DEF Command, Types, LookupTypes
<1>2. LookupInFlight'
  BY <1>0, <1>1 DEF LookupInFlight
<1>. QED
  BY <1>2, NothingDone DEF Command, connVars, dialVars

(* The first entry of a queue is one of its entries.                       *)
LEMMA FirstOfQueue ==
    ASSUME NEW T, NEW s \in Seq(T), 1 \in 1..Len(s)
    PROVE  s[1] \in T
OBVIOUS

(* Maintenance: a re-dial that comes due dials, or finds the guard taken   *)
(* by a live attempt; a lookup that comes due is in flight.                *)
LEMMA MaintenancePursues ==
    ASSUME Pursuit, Types, NEW k \in 0..Len(retryDials), NEW j \in 0..Len(retryLookups),
           NEW w, Maintenance(k, j, w)
    PROVE  Pursuit'
<1>1. UNCHANGED <<events, lost, conn, sess>>
  BY DEF Maintenance, connVars
<1>2. LookupInFlight => LookupInFlight'
  <2>1. pending \in [LookupRequests -> Nat] /\ retryLookups \in Seq(LookupRequests)
    BY DEF Types, LookupTypes
  <2>2. pending' = Reissued(j) /\ retryLookups' = DropFirst(retryLookups, j)
    BY DEF Maintenance
  <2>3. ASSUME NEW a \in LookupRequests
        PROVE  /\ pending'[a] >= pending[a]
               /\ \A i \in 1..j : retryLookups[i] = a => pending'[a] > pending[a]
    <3>. DEFINE due == {i \in 1..j : retryLookups[i] = a}
    <3>1. IsFiniteSet(1..j)
      BY FS_Interval
    <3>2. IsFiniteSet(due)
      BY <3>1, FS_Subset
    <3>3. Cardinality(due) \in Nat /\ (due # {} => Cardinality(due) # 0)
      BY <3>2, FS_CardinalityType, FS_EmptySet
    <3>4. pending'[a] = pending[a] + Cardinality(due)
      BY <2>2 DEF Reissued
    <3>5. \A i \in 1..j : retryLookups[i] = a => due # {}
      OBVIOUS
    <3>. HIDE DEF due
    <3>. QED
      BY <2>1, <3>3, <3>4, <3>5
  <2>4. CASE \E a \in LookupRequests : pending[a] > 0
    <3>1. PICK a \in LookupRequests : pending[a] > 0
      BY <2>4
    <3>2. pending'[a] > 0
      <4>1. pending[a] \in Nat /\ pending'[a] \in Nat
        BY <2>1, <2>2, ReissuedType DEF Types
      <4>. QED
        BY <2>3, <3>1, <4>1
    <3>. QED
      BY <3>2 DEF LookupInFlight
  <2>5. CASE retryLookups # <<>> /\ j = 0
    BY <2>1, <2>2, <2>5 DEF DropFirst, LookupInFlight
  <2>6. CASE retryLookups # <<>> /\ j > 0
    <3>0. Len(retryLookups) \in Nat
      BY <2>1
    <3>1. 1 \in 1..j /\ 1 \in 1..Len(retryLookups)
      BY <2>6, <3>0
    <3>7. retryLookups[1] \in LookupRequests
      BY <2>1, <3>1, FirstOfQueue
    <3>2. PICK a \in LookupRequests : a = retryLookups[1]
      BY <3>7
    <3>3. pending'[a] > pending[a] /\ pending[a] \in Nat /\ pending'[a] \in Nat
      BY <2>1, <2>2, <2>3, <3>1, <3>2, ReissuedType DEF Types
    <3>4. pending'[a] > 0
      BY <3>3
    <3>. QED
      BY <3>4 DEF LookupInFlight
  <2>. QED
    BY <2>4, <2>5, <2>6 DEF LookupInFlight
<1>3. CASE k = 0
  <2>1. UNCHANGED <<dialing, dials>>
    BY <1>3 DEF Maintenance
  <2>2. retryDials' = retryDials
    BY <1>3 DEF Maintenance, DropFirst, Types, DialTypes
  <2>. QED
    BY <1>1, <1>2, <2>1, <2>2, NothingDone
<1>4. CASE k # 0 /\ (dialing \/ HasSession)
  <2>1. UNCHANGED <<dialing, dials>>
    BY <1>4 DEF Maintenance
  <2>2. Connecting' <=> Connecting
    BY <1>1, <2>1 DEF Connecting, Dialed
  <2>3. Quiet => Connecting
    BY <1>4 DEF Pursuit, QuietIsBare, HasSession
  <2>4. lost /\ events = <<>> => Quiet
    BY DEF Quiet
  <2>. QED
    BY <1>1, <2>1, <2>2, <2>3, <2>4, NothingHeard DEF Pursuit, QuietIsBare
<1>5. CASE k # 0 /\ ~(dialing \/ HasSession)
  <2>1. retryDials[1] \in AddrSets
    BY <1>5 DEF Types, DialTypes
  <2>2. Dial(retryDials[1])
    BY <1>5 DEF Maintenance
  <2>. QED
    BY <1>1, <2>1, <2>2, DialPursues DEF Types
<1>. QED
  BY <1>3, <1>4, <1>5

(* Dials: made good by a connection, followed by a lookup, or given up on  *)
(* without holding the guard.                                              *)
LEMMA DialEndPursues ==
    ASSUME Pursuit, Types, ~ended', NEW S \in AddrSets, DialEnds(S)
    PROVE  Pursuit'
<1>1. ASSUME NEW c \in Conns, DialSucceeds(S, c) PROVE Pursuit'
  <2>1. conn' = [conn EXCEPT ![c] = "hs"] /\ UNCHANGED <<events, lost, sess>>
    BY <1>1 DEF DialSucceeds
  <2>2. conn'[c] = "hs" /\ \A d \in Conns : conn'[d] \in {conn[d], "hs"}
    BY <2>1 DEF Types, ConnTypes
  <2>3. Connecting'
    BY <2>2 DEF Connecting
  <2>4. Quiet => \A d \in Conns : conn'[d] \in {"none", "hs"}
    BY <2>2 DEF Pursuit, QuietIsBare
  <2>. QED
    BY <2>1, <2>3, <2>4, NothingHeard DEF Pursuit, QuietIsBare
<1>2. CASE DialFails(S)
  BY <1>2, RediscoverPursues DEF DialFails, OnDialError, connVars, Types
<1>3. CASE DialFindsOther(S)
  BY <1>3 DEF DialFindsOther, EndsPursuit
<1>4. CASE DialAborted(S)
  <2>1. UNCHANGED <<events, lost, conn, sess, dials, retryDials, pending, retryLookups>>
        /\ dialing' = FALSE
    BY <1>4 DEF DialAborted, connVars, lookupVars
  <2>2. (Connecting' <=> Connecting) /\ (LookupInFlight' <=> LookupInFlight)
    BY <2>1 DEF Connecting, Dialed, LookupInFlight
  <2>. QED
    BY <2>1, <2>2, NothingHeard DEF Pursuit, QuietIsBare, Hunted
<1>. QED
  BY <1>1, <1>2, <1>3, <1>4 DEF DialEnds

(* Connections: only one past its handshake can close without ending the   *)
(* pursuit, and then the loss is news to the node.                         *)
LEMMA ConnectionPursues ==
    ASSUME PursuitInv, ~ended, ~ended', NEW c \in Conns,
           OtherConnection(c) \/ HandshakeEnds(c) \/ ConnectionClosed(c)
    PROVE  Pursuit'
<1>0. Pursuit /\ Types /\ events \in Seq({"Established", "Failed", "Disconnected"})
      /\ conn \in [Conns -> {"none", "hs", "up", "closing"}]
  BY DEF PursuitInv, Types, ConnTypes
<1>1. CASE OtherConnection(c)
  <2>1. conn' = [conn EXCEPT ![c] = "hs"] /\ UNCHANGED <<events, lost, sess>>
    BY <1>1 DEF OtherConnection
  <2>2. conn'[c] = "hs" /\ \A d \in Conns : conn'[d] \in {conn[d], "hs"}
    BY <1>0, <2>1
  <2>3. Connecting'
    BY <2>2 DEF Connecting
  <2>4. Quiet => \A d \in Conns : conn'[d] \in {"none", "hs"}
    BY <1>0, <2>2 DEF Pursuit, QuietIsBare
  <2>. QED
    BY <1>0, <2>1, <2>3, <2>4, NothingHeard DEF Pursuit, QuietIsBare
<1>2. CASE Established(c)
  <2>1. events' = Append(events, "Established") /\ lost' = lost
    BY <1>2 DEF Established
  <2>2. /\ Len(events') = Len(events) + 1 /\ events' # <<>>
        /\ events'[Len(events')] = "Established"
        /\ \A i \in 1..Len(events) : events'[i] = events[i]
        /\ Len(events) \in Nat
    BY <1>0, <2>1
  <2>3. LossIsMadeGood'
    <3>1. lost' => events'[1] = "Established"
      BY <1>0, <2>1, <2>2 DEF Pursuit, LossIsMadeGood
    <3>2. ASSUME NEW i \in 1..Len(events'), events'[i] = "Disconnected", i < Len(events')
          PROVE  events'[i + 1] = "Established"
      BY <1>0, <2>2, <3>2 DEF Pursuit, LossIsMadeGood
    <3>. QED
      BY <3>1, <3>2 DEF LossIsMadeGood
  <2>4. ~Quiet'
    BY <2>2 DEF Quiet
  <2>. QED
    BY <2>2, <2>3, <2>4 DEF Pursuit, QuietIsBare, Hunted
<1>3. CASE HandshakeFails(c)
  BY <1>3 DEF HandshakeFails, EndsPursuit
<1>4. CASE StreamBreaks(c)
  BY <1>4 DEF StreamBreaks, EndsPursuit
<1>5. CASE ConnectionClosed(c)
  <2>1. conn[c] \in {"up", "closing"}
    BY <1>0, <1>5 DEF ConnectionClosed, Live, EndsPursuit
  <2>2. ~Quiet
    BY <1>0, <2>1 DEF Pursuit, QuietIsBare
  <2>3. lost' = lost
    BY <1>5 DEF ConnectionClosed
  <2>4. CASE events' = events
    <3>1. ~Quiet'
      BY <2>2, <2>3, <2>4 DEF Quiet
    <3>2. ~(lost' /\ events' = <<>>)
      BY <3>1 DEF Quiet
    <3>3. LossIsMadeGood'
      BY <1>0, <2>3, <2>4 DEF Pursuit, LossIsMadeGood
    <3>. QED
      BY <3>1, <3>2, <3>3 DEF Pursuit, QuietIsBare, Hunted
  <2>5. CASE known /\ (\A d \in Conns \ {c} : ~Live(d)) /\ events' = Append(events, "Disconnected")
    <3>1. /\ Len(events') = Len(events) + 1 /\ events' # <<>>
          /\ \A i \in 1..Len(events) : events'[i] = events[i]
          /\ Len(events) \in Nat
      BY <1>0, <2>5
    <3>2. lost => events # <<>>
      BY <2>2 DEF Quiet
    <3>3. events # <<>> => events[Len(events)] # "Disconnected"
      BY <2>2 DEF Quiet
    <3>4. LossIsMadeGood'
      <4>1. lost' => events'[1] = "Established"
        <5>. SUFFICES ASSUME lost PROVE events'[1] = "Established"
          BY <2>3
        <5>1. events # <<>> /\ events[1] = "Established"
          BY <1>0, <3>2 DEF Pursuit, LossIsMadeGood
        <5>2. 1 \in 1..Len(events)
          BY <1>0, <5>1
        <5>. QED
          BY <3>1, <5>1, <5>2
      <4>2. ASSUME NEW i \in 1..Len(events'), events'[i] = "Disconnected", i < Len(events')
            PROVE  events'[i + 1] = "Established"
        <5>1. i \in 1..Len(events) /\ events[i] = "Disconnected"
          BY <3>1, <4>2
        <5>2. events # <<>>
          BY <5>1
        <5>3. i # Len(events)
          BY <3>3, <5>1, <5>2
        <5>4. i < Len(events) /\ i + 1 \in 1..Len(events)
          BY <3>1, <5>1, <5>3
        <5>. QED
          BY <1>0, <3>1, <5>1, <5>4 DEF Pursuit, LossIsMadeGood
      <4>. QED
        BY <4>1, <4>2 DEF LossIsMadeGood
    <3>5. conn' = [conn EXCEPT ![c] = "none"]
      BY <1>5 DEF ConnectionClosed
    <3>6. \A d \in Conns : conn'[d] \in {"none", "hs"}
      BY <1>0, <2>5, <3>5 DEF Live
    <3>7. sess' = NoConn
      <4>1. sess = NoConn \/ sess = c
        BY <1>0, <2>5 DEF PursuitInv, SessionIsLive, HasSession, Live, Types, ConnTypes
      <4>. QED
        BY <1>5, <4>1 DEF ConnectionClosed
    <3>8. ~dialing'
      BY <1>5, <2>5 DEF ConnectionClosed, GuardAfterClose
    <3>. QED
      BY <3>1, <3>4, <3>6, <3>7, <3>8 DEF Pursuit, QuietIsBare, Hunted
  <2>. QED
    BY <1>5, <2>4, <2>5 DEF ConnectionClosed
<1>. QED
  BY <1>1, <1>2, <1>3, <1>4, <1>5 DEF HandshakeEnds

(* A session that fails is one, so the last news was not a loss.           *)
LEMMA SessionPursues ==
    ASSUME Pursuit, Types, SessionFails
    PROVE  Pursuit'
<1>1. events \in Seq({"Established", "Failed", "Disconnected"})
  BY DEF Types, ConnTypes
<1>2. events' = Append(events, "Failed") /\ lost' = lost /\ sess # NoConn
  BY DEF SessionFails, HasSession
<1>3. ~Quiet
  BY <1>2 DEF Pursuit, QuietIsBare
<1>4. (lost => events # <<>>) /\ (events # <<>> => events[Len(events)] # "Disconnected")
  BY <1>3 DEF Quiet
<1>5. /\ Len(events') = Len(events) + 1 /\ events' # <<>>
      /\ events'[Len(events')] = "Failed"
      /\ \A i \in 1..Len(events) : events'[i] = events[i]
      /\ Len(events) \in Nat
  BY <1>1, <1>2
<1>6. LossIsMadeGood'
  <2>1. lost' => events'[1] = "Established"
    <3>. SUFFICES ASSUME lost PROVE events'[1] = "Established"
      BY <1>2
    <3>1. events # <<>> /\ events[1] = "Established"
      BY <1>4 DEF Pursuit, LossIsMadeGood
    <3>2. 1 \in 1..Len(events)
      BY <1>1, <3>1
    <3>. QED
      BY <1>5, <3>1, <3>2
  <2>2. ASSUME NEW i \in 1..Len(events'), events'[i] = "Disconnected", i < Len(events')
        PROVE  events'[i + 1] = "Established"
    <3>1. i \in 1..Len(events) /\ events[i] = "Disconnected"
      BY <1>5, <2>2
    <3>2. events # <<>>
      BY <3>1
    <3>3. i # Len(events)
      BY <1>4, <3>1, <3>2
    <3>4. i < Len(events) /\ i + 1 \in 1..Len(events)
      BY <1>5, <3>1, <3>3
    <3>. QED
      BY <1>5, <3>1, <3>4 DEF Pursuit, LossIsMadeGood
  <2>. QED
    BY <2>1, <2>2 DEF LossIsMadeGood
<1>7. ~Quiet'
  BY <1>5 DEF Quiet
<1>. QED
  BY <1>5, <1>6, <1>7 DEF Pursuit, QuietIsBare, Hunted

(* The queue of events without its head.                                   *)
LEMMA HeadTaken ==
    ASSUME Types, Pursuit, NEW e, NextEvent(e)
    PROVE  /\ events[1] = e
           /\ \A i \in 1..Len(events') :
                events'[i] = "Disconnected" /\ i < Len(events') => events'[i + 1] = "Established"
           /\ events' # <<>> => events'[1] = events[2] /\ events'[Len(events')] = events[Len(events)]
           /\ events' # <<>> /\ e = "Disconnected" => events'[1] = "Established"
           /\ events' = <<>> => Len(events) = 1
<1>1. events \in Seq({"Established", "Failed", "Disconnected"}) /\ events # <<>>
      /\ Head(events) = e /\ events' = Tail(events)
  BY DEF NextEvent, Types, ConnTypes
<1>2. /\ Len(events) \in Nat \ {0} /\ Len(events') = Len(events) - 1
      /\ events[1] = e
      /\ \A i \in 1..Len(events') : events'[i] = events[i + 1]
      /\ events' = <<>> <=> Len(events') = 0
  <2>1. Len(events) \in Nat \ {0} /\ events[1] = e
    BY <1>1
  <2>2. Len(events') = Len(events) - 1 /\ \A i \in 1..Len(events') : events'[i] = events[i + 1]
    BY <1>1
  <2>3. events' \in Seq({"Established", "Failed", "Disconnected"})
    BY <1>1
  <2>4. events' = <<>> <=> Len(events') = 0
    BY <2>3
  <2>. QED
    BY <2>1, <2>2, <2>4
<1>3. ASSUME NEW i \in 1..Len(events'), events'[i] = "Disconnected", i < Len(events')
      PROVE  events'[i + 1] = "Established"
  <2>1. i + 1 \in 1..Len(events) /\ i + 1 < Len(events) /\ events[i + 1] = "Disconnected"
    BY <1>2, <1>3
  <2>2. events[(i + 1) + 1] = "Established"
    BY <2>1 DEF Pursuit, LossIsMadeGood
  <2>. QED
    BY <1>2, <1>3, <2>2
<1>4. events' # <<>> =>
        events'[1] = events[2] /\ events'[Len(events')] = events[Len(events)] /\ 1 < Len(events)
  BY <1>2
<1>5. events' # <<>> /\ e = "Disconnected" => events'[1] = "Established"
  <2>. SUFFICES ASSUME events' # <<>>, e = "Disconnected" PROVE events'[1] = "Established"
    OBVIOUS
  <2>1. 1 \in 1..Len(events) /\ events[1] = "Disconnected" /\ 1 < Len(events)
    BY <1>2, <1>4
  <2>2. events[1 + 1] = "Established"
    BY <2>1 DEF Pursuit, LossIsMadeGood
  <2>. QED
    BY <1>4, <2>2
<1>. QED
  BY <1>2, <1>3, <1>4, <1>5

(* A session is back.                                                      *)
LEMMA EstablishedPursues ==
    ASSUME Types, Pursuit, NodeEstablished
    PROVE  Pursuit'
<1>1. NextEvent("Established") /\ lost' = FALSE /\ dialing' = FALSE /\ UNCHANGED <<conn, sess>>
  BY DEF NodeEstablished
<1>2. LossIsMadeGood'
  BY <1>1, HeadTaken DEF LossIsMadeGood
<1>3. Quiet' => events' # <<>> /\ events'[Len(events')] = "Disconnected"
  BY <1>1 DEF Quiet
<1>4. Quiet' => Quiet
  BY <1>1, <1>3, HeadTaken DEF Quiet, NextEvent
<1>. QED
  BY <1>1, <1>2, <1>4 DEF Pursuit, QuietIsBare, Hunted

(* A failure is handled: not while the peer counts as lost, and if a loss  *)
(* is queued behind it there is no attempt to cut short.                   *)
LEMMA FailedPursues ==
    ASSUME Types, Pursuit, ~ended', NEW T \in SUBSET AddrSets, NodeFailed(T)
    PROVE  Pursuit'
<1>1. NextEvent("Failed") /\ UNCHANGED <<lost, sess, dialing>>
  BY DEF NodeFailed
<1>2. events[1] = "Failed" /\ events # <<>>
  BY <1>1, HeadTaken DEF NextEvent
<1>3. ~lost
  BY <1>2 DEF Pursuit, LossIsMadeGood
<1>4. LossIsMadeGood'
  BY <1>1, <1>3, HeadTaken DEF LossIsMadeGood
<1>5. Quiet' => events' # <<>> /\ events'[Len(events')] = "Disconnected"
  BY <1>1, <1>3 DEF Quiet
<1>6. QuietIsBare'
  <2>. SUFFICES ASSUME Quiet'
                PROVE  /\ \A c \in Conns : conn'[c] \in {"none", "hs"}
                       /\ sess' = NoConn
                       /\ dialing' => Connecting'
    BY DEF QuietIsBare
  <2>1. events[Len(events)] = "Disconnected" /\ Quiet
    BY <1>1, <1>2, <1>5, HeadTaken DEF Quiet
  <2>2. Len(events) \in 2..Len(events)
    <3>1. Len(events) \in Nat
      BY DEF Types, ConnTypes
    <3>2. Len(events) # 0 /\ Len(events) # 1
      BY <1>2, <2>1 DEF Types, ConnTypes
    <3>. QED
      BY <3>1, <3>2
  <2>3. T = {} /\ \A c \in Conns : conn[c] # "hs"
    BY <2>1, <2>2 DEF NodeFailed, EndsPursuit
  <2>4. (\A c \in Conns : conn[c] = "none") /\ sess = NoConn /\ (dialing => Connecting)
    BY <2>1, <2>3 DEF Pursuit, QuietIsBare
  <2>5. \A c \in Conns : conn'[c] = "none"
    BY <2>4 DEF NodeFailed, Live
  <2>6. dialing => Dialed
    BY <2>3, <2>4 DEF Connecting
  <2>7. \A S \in AddrSets : dials'[S] = dials[S]
    BY <2>3 DEF NodeFailed
  <2>8. Dialed => Dialed'
    BY <2>7 DEF Dialed
  <2>. QED
    BY <1>1, <2>4, <2>5, <2>6, <2>8 DEF Connecting
<1>. QED
  BY <1>1, <1>3, <1>4, <1>6 DEF Pursuit, Hunted

(* A loss is handled: it is the first, and if there was a session and a    *)
(* record the peer is looked up.                                           *)
LEMMA DisconnectedPursues ==
    ASSUME Types, Pursuit, NodeDisconnected
    PROVE  Pursuit'
<1>1. NextEvent("Disconnected") /\ UNCHANGED <<conn, sess, dialing, dials, pending>>
      /\ lost' = (lost \/ (hadSession /\ cache # NoRecord))
  BY DEF NodeDisconnected
<1>2. events[1] = "Disconnected" /\ events # <<>>
  BY <1>1, HeadTaken DEF NextEvent
<1>3. ~lost
  BY <1>2 DEF Pursuit, LossIsMadeGood
<1>4. LossIsMadeGood'
  BY <1>1, HeadTaken DEF LossIsMadeGood
<1>5. Connecting' <=> Connecting
  BY <1>1 DEF Connecting, Dialed
<1>6. Quiet' => Quiet
  BY <1>1, <1>2, HeadTaken DEF Quiet
<1>7. QuietIsBare'
  BY <1>1, <1>5, <1>6 DEF Pursuit, QuietIsBare
<1>8. lost' => LookupInFlight'
  <2>. SUFFICES ASSUME lost' PROVE LookupInFlight'
    OBVIOUS
  <2>1. retryLookups' = Rediscover(retryLookups)
    BY <1>1, <1>3 DEF NodeDisconnected, ScheduleReconnect
  <2>2. CASE LookupInFlight
    BY <1>1, <2>1, <2>2 DEF Rediscover, LookupInFlight
  <2>3. CASE ~LookupInFlight
    <3>1. retryLookups' = Append(retryLookups, OwnLookup)
      BY <2>1, <2>3 DEF Rediscover
    <3>2. retryLookups' # <<>>
      BY <3>1 DEF Types, LookupTypes
    <3>. QED
      BY <3>2 DEF LookupInFlight
  <2>. QED
    BY <2>2, <2>3
<1>. QED
  BY <1>4, <1>7, <1>8 DEF Pursuit, Hunted

(* Every step keeps the pursuit up or ends it for a reason.                *)
LEMMA PursuitStep == PursuitInv /\ [Next]_vars => PursuitInv'
<1>. SUFFICES ASSUME PursuitInv, [Next]_vars PROVE PursuitInv'
  OBVIOUS
<1>1. Types' /\ SessionIsLive' /\ RecordWasFound'
  BY TypesStep, SessionStaysLive, RecordStaysFound DEF PursuitInv
<1>2. ended => ended'
  BY DEF Next, vars, envVars, PeerStep, Publish, Converge, Tick, Move, ComeBack, Command, GoesOn,
         EndsPursuit, LookupEnds, LookupFound, LookupRejected, LookupFails, MaintenanceStep,
         Maintenance, DialEnds, DialSucceeds, DialFails, DialFindsOther, DialAborted,
         OtherDialFails, OtherConnection, HandshakeEnds, Established, HandshakeFails, StreamBreaks,
         ConnectionClosed, SessionFails, NodeEvent, NodeEstablished, NodeFailed, NodeDisconnected
<1>3. ASSUME ~ended' PROVE Pursuit'
  <2>1. ~ended /\ Pursuit /\ Types
    BY <1>2, <1>3 DEF PursuitInv
  <2>2. CASE PeerStep
    BY <2>1, <2>2, NothingDone DEF PeerStep, Publish, Converge, Tick, Move, ComeBack, connVars,
                                   dialVars, lookupVars, LookupInFlight
  <2>3. CASE MaintenanceStep
    BY <2>1, <2>3, MaintenancePursues DEF MaintenanceStep
  <2>4. ASSUME NEW a \in Addrs, OtherDialFails(a) PROVE Pursuit'
    BY <2>1, <2>4, RediscoverPursues DEF OtherDialFails, OnDialError, connVars, Types
  <2>5. CASE NodeEvent
    BY <1>3, <2>1, <2>5, EstablishedPursues, FailedPursues, DisconnectedPursues DEF NodeEvent
  <2>6. CASE UNCHANGED vars
    BY <2>1, <2>6, NothingDone DEF vars, connVars, dialVars, lookupVars, LookupInFlight
  <2>. QED
    BY <1>3, <2>1, <2>2, <2>3, <2>4, <2>5, <2>6, LookupPursues, CommandPursues, DialEndPursues,
       ConnectionPursues, SessionPursues DEF Next
<1>. QED
  BY <1>1, <1>3 DEF PursuitInv

(* A lost peer with a cached record stays pursued until a session is back, *)
(* however lookups, dials, closings and late events of the old connection  *)
(* fall, unless one of the things in "ended" has happened.                 *)
THEOREM LostPeerStaysPursued == Spec => []LostPeerIsPursued
BY PursuitInit, PursuitStep, PursuitSuffices, PTL DEF Spec
=============================================================================
