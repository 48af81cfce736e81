------------------------- MODULE ConnectivityProofs -------------------------
(***************************************************************************)
(* For any number of bootstrap peers (the relay among them or not),        *)
(* interfaces, connections and changes of the world: the in-flight guards  *)
(* are as exact as GuardsAreExact says, the record lists nothing the node  *)
(* has let go of, and the path of a peer is honest but for late events.    *)
(***************************************************************************)
EXTENDS Connectivity, TLAPS

(* What makes the guards exact.  A host in the list of dials is not mapped *)
(* yet, and a bootstrap peer with connections is mapped, so closing one    *)
(* (which clears the guard) never meets a dial in flight; and a guard left *)
(* behind is still set.                                                    *)
HubInv ==
    /\ GuardsAreExact
    /\ mapped \cap bootDialing = {}
    /\ relayDialing => ~resolved
    /\ resolved => Relay \in mapped \/ Relay \notin boots
    /\ \A h \in Hosts : conns[h] > 0 => h \in mapped \/ h \notin boots
    /\ \A h \in Hosts : h \in refused /\ ~Shared(h) => Guarded(h)

(* Loopback comes first and never goes, so that the set publish_record is  *)
(* given is empty only before the node listens at all.                     *)
LoopbackStays ==
    \/ listeners = {} /\ current = {}
    \/ "loopback" \in listeners /\ "loopback" \in current

RecordInv == RecordIsCurrent /\ LoopbackStays

(* A late event is one without a connection, and the next one makes good   *)
(* for it.                                                                 *)
PathInv == PathIsHonest /\ (late => NoLinks)

ConnInv == HubInv /\ RecordInv /\ PathInv

-----------------------------------------------------------------------------
(* Types.                                                                  *)

(* Maintenance dials hosts and may publish.                                *)
LEMMA TypeMaintenance ==
    ASSUME TypeOK, NEW scan \in BOOLEAN, NEW publishDue \in BOOLEAN, NEW bootDue \in BOOLEAN,
           Maintenance(scan, publishDue, bootDue)
    PROVE  TypeOK'
<1>. USE DEF TypeOK
<1>1. FilterLocalAddrs(Known) \subseteq Addrs
  BY DEF FilterLocalAddrs, Known
<1>2. current' \subseteq Addrs
  BY <1>1 DEF Maintenance, Refreshed
<1>3. published' \subseteq Addrs
  BY <1>2 DEF Maintenance, PublishRecord
<1>4. bootDialing' \subseteq boots
  BY DEF Maintenance, BootsToDial
<1>5. dials' \in [Hosts -> Nat]
  BY BoundsAssumption DEF Maintenance, Counted
<1>. QED
  BY <1>2, <1>3, <1>4, <1>5 DEF Maintenance, peerVars, worldVars

(* Listen addresses come and go.                                           *)
LEMMA TypeListen ==
    ASSUME TypeOK, NEW a \in Addrs, NewListenAddr(a) \/ ExpiredListenAddr(a)
    PROVE  TypeOK'
<1>. USE DEF TypeOK
<1>1. CASE NewListenAddr(a)
  BY <1>1 DEF NewListenAddr, PublishRecord, hubVars, peerVars, worldVars
<1>2. CASE ExpiredListenAddr(a)
  BY <1>2 DEF ExpiredListenAddr, NoteListenAddrGone, PublishRecord, hubVars, peerVars, worldVars
<1>. QED
  BY <1>1, <1>2

(* Dials to the hosts end and connections close.                           *)
LEMMA TypeHub ==
    ASSUME TypeOK, NEW h \in Hosts,
           \/ DialEstablished(h) \/ DialFails(h) \/ DialRefused(h)
           \/ Reconnected(h) \/ ConnectionClosed(h)
    PROVE  TypeOK'
<1>. USE DEF TypeOK
<1>1. CASE DialEstablished(h)
  <2>1. dials' \in [Hosts -> Nat] /\ conns' \in [Hosts -> Nat]
    BY <1>1 DEF DialEstablished
  <2>2. resolved' \in BOOLEAN /\ relayDialing' \in BOOLEAN /\ reservation' \in {"none", "asked", "held"}
    BY <1>1 DEF DialEstablished, RelayEstablished
  <2>3. mapped' \subseteq boots /\ bootDialing' \subseteq boots /\ published' \subseteq Addrs
    BY <1>1 DEF DialEstablished, BootstrapEstablished, PublishRecord
  <2>. QED
    BY <1>1, <2>1, <2>2, <2>3 DEF DialEstablished, peerVars, worldVars
<1>2. CASE DialFails(h)
  BY <1>2 DEF DialFails, addrVars, peerVars, worldVars
<1>3. CASE Reconnected(h)
  BY <1>3 DEF Reconnected, addrVars, peerVars, worldVars
<1>4. CASE ConnectionClosed(h)
  <2>1. conns' \in [Hosts -> Nat] /\ bootDialing' \subseteq boots
    BY <1>4 DEF ConnectionClosed
  <2>2. /\ reservation' \in {"none", "asked", "held"} /\ listeners' \subseteq Addrs
        /\ current' \subseteq Addrs /\ published' \subseteq Addrs
    BY <1>4 DEF ConnectionClosed, addrVars, NoteListenAddrGone, PublishRecord
  <2>. QED
    BY <1>4, <2>1, <2>2 DEF ConnectionClosed, peerVars, worldVars
<1>5. CASE DialRefused(h)
  <2>1. changes' \in 0..MaxChanges
    BY <1>5, BoundsAssumption DEF DialRefused
  <2>. QED
    BY <1>5, <2>1 DEF DialRefused, addrVars, peerVars
<1>. QED
  BY <1>1, <1>2, <1>3, <1>4, <1>5

(* A new connection counts, and sets the path.                             *)
LEMMA ConnectsType ==
    ASSUME TypeOK, NEW k \in Kinds, Connects(k)
    PROVE  /\ links' \in [Kinds -> Nat] /\ late' \in BOOLEAN
           /\ path' \in {"none", "disconnected", "direct", "via-relay", "failed"}
<1>1. links' \in [Kinds -> Nat]
  BY DEF TypeOK, Connects
<1>2. late' \in BOOLEAN
  BY DEF Connects
<1>3. k \in {"direct", "relayed"} /\ path' = PathOf[k]
  BY DEF Connects, Kinds
<1>4. PathOf[k] \in {"direct", "via-relay"}
  BY <1>3 DEF PathOf
<1>. QED
  BY <1>1, <1>2, <1>3, <1>4

(* The counts of links, and the budget of a hole punch.                    *)
LEMMA TypePeer ==
    ASSUME TypeOK,
           \/ \E k \in Kinds : PeerConnected(k) \/ PeerClosed(k)
           \/ PunchConnects \/ PunchSucceeds \/ PunchFails
    PROVE  TypeOK'
<1>. USE DEF TypeOK
<1>1. ASSUME NEW k \in Kinds, PeerConnected(k) PROVE TypeOK'
  <2>1. punch' \in {"none", "started", "through"}
    BY <1>1 DEF PeerConnected
  <2>. QED
    BY <1>1, <2>1, ConnectsType DEF PeerConnected, hubVars, addrVars, worldVars
<1>2. ASSUME NEW k \in Kinds, PeerClosed(k) PROVE TypeOK'
  BY <1>2 DEF PeerClosed, hubVars, addrVars, worldVars
<1>3. CASE PunchConnects
  <2>1. "direct" \in Kinds
    BY DEF Kinds
  <2>2. Connects("direct") /\ punch' = "through"
    BY <1>3 DEF PunchConnects
  <2>3. /\ links' \in [Kinds -> Nat] /\ late' \in BOOLEAN
        /\ path' \in {"none", "disconnected", "direct", "via-relay", "failed"}
    BY <2>1, <2>2, ConnectsType
  <2>. QED
    BY <1>3, <2>2, <2>3 DEF PunchConnects, hubVars, addrVars, worldVars
<1>4. CASE PunchSucceeds
  BY <1>4, BoundsAssumption DEF PunchSucceeds, PunchEnds, hubVars, addrVars, worldVars
<1>5. CASE PunchFails
  <2>1. attempts' \in 0..MaxAttempts - 1
    <3>1. attempts \in 0..MaxAttempts - 1 /\ attempts' = IF attempts + 1 >= MaxAttempts THEN 0 ELSE attempts + 1
      BY <1>5 DEF PunchFails, Spent
    <3>. HIDE DEF TypeOK
    <3>. QED
      BY <3>1, BoundsAssumption
  <2>. QED
    BY <1>5, <2>1 DEF PunchFails, PunchEnds, hubVars, addrVars, worldVars
<1>. QED
  BY <1>1, <1>2, <1>3, <1>4, <1>5

(* Interfaces and the network change.                                      *)
LEMMA TypeWorld ==
    ASSUME TypeOK, WorldChanges
    PROVE  TypeOK'
<1>1. changes' \in 0..MaxChanges
  BY BoundsAssumption DEF TypeOK, WorldChanges
<1>. QED
  BY <1>1 DEF TypeOK, WorldChanges, hubVars, addrVars, peerVars

(* Every step keeps the types.                                             *)
LEMMA TypeStep ==
    ASSUME TypeOK, [Next]_vars
    PROVE  TypeOK'
<1>1. CASE UNCHANGED vars
  BY <1>1 DEF vars, hubVars, addrVars, peerVars, worldVars, TypeOK
<1>. QED
  BY <1>1, TypeMaintenance, TypeListen, TypeHub, TypePeer, TypeWorld DEF Next

-----------------------------------------------------------------------------
(* The guards.                                                             *)

(* A dial in flight to a host with one guard has that guard set, and is    *)
(* the only one.                                                           *)
LEMMA GuardFacts ==
    ASSUME HubInv, NEW h \in Hosts, dials[h] > 0, ~Shared(h)
    PROVE  dials[h] = 1 /\ Guarded(h) /\ h \notin refused
BY DEF HubInv, GuardsAreExact

(* What a step has to show of the host it is about.                        *)
GuardOf(h) ==
    /\ Guarded(h) => dials[h] > 0 \/ h \in refused
    /\ ~Shared(h) => dials[h] = IF Guarded(h) /\ h \notin refused THEN 1 ELSE 0
    /\ h \in refused /\ ~Shared(h) => Guarded(h)
    /\ conns[h] > 0 => h \in mapped \/ h \notin boots

(* Every host has its share of the invariant.                              *)
LEMMA GuardParts ==
    HubInv <=> /\ TypeOK /\ mapped \cap bootDialing = {}
               /\ relayDialing => ~resolved
               /\ resolved => Relay \in mapped \/ Relay \notin boots
               /\ \A h \in Hosts : GuardOf(h)
BY DEF HubInv, GuardsAreExact, GuardOf

(* A host whose dials, connections and marks stay as they are.             *)
LEMMA GuardOther ==
    ASSUME NEW g, GuardOf(g), dials'[g] = dials[g], conns'[g] = conns[g], boots' = boots,
           g \in refused' <=> g \in refused, g \in mapped' <=> g \in mapped,
           g \in bootDialing' <=> g \in bootDialing,
           g = Relay => (relayDialing' <=> relayDialing)
    PROVE  GuardOf(g)'
BY DEF GuardOf, Guarded, Shared

(* Maintenance dials what is not being dialed.                             *)
LEMMA GuardMaintenance ==
    ASSUME HubInv, NEW scan \in BOOLEAN, NEW publishDue \in BOOLEAN, NEW bootDue \in BOOLEAN,
           Maintenance(scan, publishDue, bootDue)
    PROVE  HubInv'
<1>1. TypeOK' /\ TypeOK
  BY TypeMaintenance DEF HubInv, GuardsAreExact
<1>. DEFINE dialed == BootsToDial(bootDue)
<1>2. dialed \cap bootDialing = {} /\ dialed \cap mapped = {} /\ dialed \subseteq boots
  BY DEF BootsToDial
<1>3. /\ bootDialing' = bootDialing \cup dialed
      /\ relayDialing' = (relayDialing \/ RelayToDial)
      /\ dials' = [h \in Hosts |-> Counted(dials[h], h \in dialed, h = Relay /\ RelayToDial)]
      /\ UNCHANGED <<conns, mapped, resolved, refused, boots>>
  BY DEF Maintenance, worldVars
<1>. HIDE DEF dialed
<1>4. ASSUME NEW h \in Hosts PROVE GuardOf(h)'
  <2>. DEFINE asBoot == h \in dialed
              asRelay == h = Relay /\ RelayToDial
  <2>1. GuardOf(h) /\ dials[h] \in Nat
    BY <1>1, GuardParts DEF TypeOK
  <2>2. dials'[h] = LET sum == dials[h] + (IF asBoot THEN 1 ELSE 0) + (IF asRelay THEN 1 ELSE 0) IN
                    IF sum > MaxDials THEN MaxDials ELSE sum
    BY <1>3 DEF Counted
  <2>3. /\ asBoot => h \notin bootDialing /\ h \in boots /\ h \in bootDialing'
        /\ asRelay => h = Relay /\ ~relayDialing /\ relayDialing'
        /\ h \in bootDialing' <=> h \in bootDialing \/ asBoot
        /\ h = Relay => (relayDialing' <=> relayDialing \/ asRelay)
    BY <1>2, <1>3 DEF RelayToDial
  <2>4. /\ Guarded(h)' <=> Guarded(h) \/ asBoot \/ asRelay
        /\ Shared(h)' <=> Shared(h)
        /\ ~Shared(h) /\ (asBoot \/ asRelay) => ~Guarded(h) /\ ~(asBoot /\ asRelay)
    BY <1>1, <1>3, <2>3 DEF Guarded, Shared, TypeOK
  <2>5. h \in refused' <=> h \in refused
    BY <1>3
  <2>6. MaxDials \in Nat \ {0}
    BY BoundsAssumption
  <2>. HIDE DEF asBoot, asRelay
  <2>7. /\ asBoot \/ asRelay \/ dials[h] > 0 => dials'[h] > 0
        /\ dials[h] = 0 /\ (asBoot \/ asRelay) /\ ~(asBoot /\ asRelay) => dials'[h] = 1
        /\ dials[h] \in {0, 1} /\ ~asBoot /\ ~asRelay => dials'[h] = dials[h]
    BY <2>1, <2>2, <2>6
  <2>8. Guarded(h)' => dials'[h] > 0 \/ h \in refused'
    BY <2>1, <2>4, <2>5, <2>7 DEF GuardOf
  <2>9. ~Shared(h)' => dials'[h] = IF Guarded(h)' /\ h \notin refused' THEN 1 ELSE 0
    BY <2>1, <2>4, <2>5, <2>7 DEF GuardOf
  <2>10. h \in refused' /\ ~Shared(h)' => Guarded(h)'
    BY <2>1, <2>4, <2>5 DEF GuardOf
  <2>11. conns'[h] > 0 => h \in mapped' \/ h \notin boots'
    BY <1>3, <2>1 DEF GuardOf
  <2>. QED
    BY <2>8, <2>9, <2>10, <2>11 DEF GuardOf
<1>5. mapped' \cap bootDialing' = {}
  BY <1>2, <1>3 DEF HubInv
<1>6. relayDialing' => ~resolved'
  BY <1>3 DEF HubInv, RelayToDial
<1>7. resolved' => Relay \in mapped' \/ Relay \notin boots'
  BY <1>3 DEF HubInv
<1>8. HubInv'
  <2>1. \A h \in Hosts : GuardOf(h)'
    BY <1>4
  <2>. QED
    BY <1>1, <1>3, <1>5, <1>6, <1>7, <2>1 DEF HubInv, GuardsAreExact, GuardOf
<1>. QED
  BY <1>8

(* A dial in flight succeeds: its host has no guard left.                  *)
LEMMA GuardEstablished ==
    ASSUME HubInv, NEW h \in Hosts, DialEstablished(h)
    PROVE  HubInv'
<1>1. TypeOK' /\ TypeOK
  BY TypeHub DEF HubInv, GuardsAreExact
<1>2. /\ dials[h] > 0 /\ dials' = [dials EXCEPT ![h] = @ - 1] /\ conns' = [conns EXCEPT ![h] = @ + 1]
      /\ refused' = refused \ {h} /\ boots' = boots
  BY DEF DialEstablished, worldVars
<1>3. /\ resolved' <=> resolved \/ h = Relay
      /\ relayDialing' <=> relayDialing /\ h # Relay
  BY <1>1 DEF DialEstablished, RelayEstablished, HubInv, TypeOK
<1>4. /\ mapped' = IF h \in boots THEN mapped \cup {h} ELSE mapped
      /\ bootDialing' = bootDialing \ {h}
  BY <1>1 DEF DialEstablished, BootstrapEstablished, HubInv, TypeOK
<1>5. ~Guarded(h)' /\ h \notin refused' /\ (h \in boots' => h \in mapped')
  BY <1>2, <1>3, <1>4 DEF Guarded
<1>6. GuardOf(h)'
  <2>1. ~Shared(h) => dials'[h] = 0
    BY <1>1, <1>2, GuardFacts DEF TypeOK
  <2>2. Shared(h)' <=> Shared(h)
    BY <1>2 DEF Shared
  <2>. QED
    BY <1>5, <2>1, <2>2 DEF GuardOf
<1>7. ASSUME NEW g \in Hosts, g # h PROVE GuardOf(g)'
  <2>1. GuardOf(g) /\ dials'[g] = dials[g] /\ conns'[g] = conns[g]
    BY <1>1, <1>2, <1>7, GuardParts DEF TypeOK
  <2>. QED
    BY <1>2, <1>3, <1>4, <1>7, <2>1, GuardOther
<1>8. \A g \in Hosts : GuardOf(g)'
  BY <1>6, <1>7
<1>9. /\ mapped' \cap bootDialing' = {} /\ (relayDialing' => ~resolved')
      /\ resolved' => Relay \in mapped' \/ Relay \notin boots'
  BY <1>2, <1>3, <1>4 DEF HubInv
<1>. QED
  BY <1>1, <1>8, <1>9 DEF HubInv, GuardsAreExact, GuardOf

(* A dial in flight fails, and the guards of its host are released.        *)
LEMMA GuardFails ==
    ASSUME HubInv, NEW h \in Hosts, DialFails(h)
    PROVE  HubInv'
<1>1. TypeOK' /\ TypeOK
  BY TypeHub DEF HubInv, GuardsAreExact
<1>2. /\ dials[h] > 0 /\ dials' = [dials EXCEPT ![h] = @ - 1]
      /\ bootDialing' = bootDialing \ {h} /\ relayDialing' = (relayDialing /\ h # Relay)
      /\ refused' = refused \ {h}
      /\ UNCHANGED <<conns, mapped, resolved, boots>>
  BY DEF DialFails, worldVars
<1>3. ~Guarded(h)' /\ h \notin refused'
  BY <1>2 DEF Guarded
<1>4. GuardOf(h)'
  <2>1. ~Shared(h) => dials'[h] = 0
    BY <1>1, <1>2, GuardFacts DEF TypeOK
  <2>2. (Shared(h)' <=> Shared(h)) /\ GuardOf(h)
    BY <1>2, GuardParts DEF Shared
  <2>. QED
    BY <1>2, <1>3, <2>1, <2>2 DEF GuardOf
<1>5. ASSUME NEW g \in Hosts, g # h PROVE GuardOf(g)'
  <2>1. GuardOf(g) /\ dials'[g] = dials[g] /\ conns'[g] = conns[g]
    BY <1>1, <1>2, <1>5, GuardParts DEF TypeOK
  <2>. QED
    BY <1>2, <1>5, <2>1, GuardOther
<1>6. \A g \in Hosts : GuardOf(g)'
  BY <1>4, <1>5
<1>. QED
  BY <1>1, <1>2, <1>6 DEF HubInv, GuardsAreExact, GuardOf

(* A dial in flight is refused, and its guards stay.                       *)
LEMMA GuardRefused ==
    ASSUME HubInv, NEW h \in Hosts, DialRefused(h)
    PROVE  HubInv'
<1>1. TypeOK' /\ TypeOK
  BY TypeHub DEF HubInv, GuardsAreExact
<1>2. /\ dials[h] > 0 /\ dials' = [dials EXCEPT ![h] = @ - 1] /\ refused' = refused \cup {h}
      /\ UNCHANGED <<conns, mapped, bootDialing, resolved, relayDialing, boots>>
  BY DEF DialRefused
<1>3. (Guarded(h)' <=> Guarded(h)) /\ (Shared(h)' <=> Shared(h)) /\ GuardOf(h) /\ h \in refused'
  BY <1>2, GuardParts DEF Guarded, Shared
<1>4. GuardOf(h)'
  <2>1. ~Shared(h) => dials'[h] = 0 /\ Guarded(h)
    BY <1>1, <1>2, GuardFacts DEF TypeOK
  <2>. QED
    BY <1>2, <1>3, <2>1 DEF GuardOf
<1>5. ASSUME NEW g \in Hosts, g # h PROVE GuardOf(g)'
  <2>1. GuardOf(g) /\ dials'[g] = dials[g] /\ conns'[g] = conns[g]
    BY <1>1, <1>2, <1>5, GuardParts DEF TypeOK
  <2>. QED
    BY <1>2, <1>5, <2>1, GuardOther
<1>6. \A g \in Hosts : GuardOf(g)'
  BY <1>4, <1>5
<1>. QED
  BY <1>1, <1>2, <1>6 DEF HubInv, GuardsAreExact, GuardOf

(* A connection comes back, or goes: its host has no bootstrap guard then. *)
LEMMA GuardConnections ==
    ASSUME HubInv, NEW h \in Hosts, Reconnected(h) \/ ConnectionClosed(h)
    PROVE  HubInv'
<1>1. TypeOK' /\ TypeOK
  BY TypeHub DEF HubInv, GuardsAreExact
<1>2. /\ UNCHANGED <<dials, mapped, resolved, relayDialing, refused, boots>>
      /\ \A g \in Hosts : conns'[g] > 0 => conns[g] > 0 \/ g \in mapped \/ (g = Relay /\ resolved)
      /\ bootDialing' = bootDialing \/ (conns[h] > 0 /\ bootDialing' = bootDialing \ {h})
  BY <1>1 DEF Reconnected, ConnectionClosed, TypeOK, worldVars
<1>3. bootDialing' = bootDialing
  BY <1>1, <1>2 DEF HubInv, TypeOK
<1>4. \A g \in Hosts : conns'[g] > 0 => g \in mapped' \/ g \notin boots'
  BY <1>2 DEF HubInv
<1>5. \A g \in Hosts : (Guarded(g)' <=> Guarded(g)) /\ (Shared(g)' <=> Shared(g))
  BY <1>2, <1>3 DEF Guarded, Shared
<1>. QED
  BY <1>1, <1>2, <1>3, <1>4, <1>5 DEF HubInv, GuardsAreExact

(* Steps that touch neither dials nor connections.                         *)
LEMMA GuardQuiet ==
    ASSUME HubInv, TypeOK', UNCHANGED <<hubVars, boots>>
    PROVE  HubInv'
BY DEF HubInv, GuardsAreExact, Guarded, Shared, hubVars

(* Every step keeps guards and dials in step.                              *)
LEMMA GuardStep ==
    ASSUME HubInv, [Next]_vars
    PROVE  HubInv'
<1>1. TypeOK'
  BY TypeStep DEF HubInv, GuardsAreExact
<1>2. ASSUME \/ \E a \in Addrs : NewListenAddr(a) \/ ExpiredListenAddr(a)
             \/ \E k \in Kinds : PeerConnected(k) \/ PeerClosed(k)
             \/ PunchConnects \/ PunchSucceeds \/ PunchFails \/ WorldChanges \/ UNCHANGED vars
      PROVE  UNCHANGED <<hubVars, boots>>
  BY <1>2 DEF NewListenAddr, ExpiredListenAddr, PeerConnected, PeerClosed, PunchConnects,
              PunchSucceeds, PunchFails, PunchEnds, WorldChanges, worldVars, vars
<1>. QED
  BY <1>1, <1>2, GuardQuiet, GuardMaintenance, GuardEstablished, GuardFails, GuardRefused,
     GuardConnections DEF Next

-----------------------------------------------------------------------------
(* The record.                                                             *)

(* Loopback and the circuit address are two addresses that are no          *)
(* interface.                                                              *)
LEMMA AddrFacts ==
    /\ "loopback" \in Addrs /\ "loopback" \notin Ips /\ "circuit" \notin Ips
    /\ "loopback" # "circuit"
BY AddrsAssumption DEF Addrs

(* An address other than loopback is let go of.                            *)
LEMMA GoneFacts ==
    ASSUME RecordInv, NEW a, a # "loopback", NoteListenAddrGone(a),
           listeners' = listeners \ {a}
    PROVE  RecordInv'
<1>1. LoopbackStays'
  BY DEF RecordInv, LoopbackStays, NoteListenAddrGone
<1>2. published' \subseteq current'
  <2>1. CASE a \in current
    BY <2>1 DEF RecordInv, LoopbackStays, NoteListenAddrGone, PublishRecord
  <2>2. CASE a \notin current
    BY <2>2 DEF RecordInv, RecordIsCurrent, NoteListenAddrGone
  <2>. QED
    BY <2>1, <2>2
<1>. QED
  BY <1>1, <1>2 DEF RecordInv, RecordIsCurrent

(* A tick publishes whatever the scan has dropped.                         *)
LEMMA RecordMaintenance ==
    ASSUME RecordInv, NEW scan \in BOOLEAN, NEW publishDue \in BOOLEAN, NEW bootDue \in BOOLEAN,
           Maintenance(scan, publishDue, bootDue)
    PROVE  RecordInv'
<1>. DEFINE kept == FilterLocalAddrs(Known)
<1>1. kept \subseteq Known /\ ("loopback" \in Known => "loopback" \in kept)
  BY DEF FilterLocalAddrs
<1>2. Known = {} \/ ("loopback" \in Known /\ "loopback" \in listeners)
  BY DEF RecordInv, LoopbackStays, Known
<1>3. current \subseteq Known /\ published \subseteq current
  BY DEF Known, RecordInv, RecordIsCurrent
<1>4. /\ current' = (IF scan THEN kept ELSE current) /\ listeners' = listeners
      /\ \/ current' # {} /\ published' = current'
         \/ /\ published' = published
            /\ ~(scan /\ kept # Known) \/ current' = {}
  BY DEF Maintenance, Refreshed, ScanPublishes, PublishRecord
<1>. HIDE DEF kept
<1>5. published' \subseteq current'
  BY <1>1, <1>2, <1>3, <1>4
<1>6. LoopbackStays'
  <2>1. CASE scan
    BY <1>1, <1>2, <1>4, <2>1 DEF LoopbackStays, Known
  <2>2. CASE ~scan
    BY <1>4, <2>2 DEF RecordInv, LoopbackStays
  <2>. QED
    BY <2>1, <2>2
<1>. QED
  BY <1>5, <1>6 DEF RecordInv, RecordIsCurrent

(* Addresses come and go with listen events.                               *)
LEMMA RecordListen ==
    ASSUME RecordInv, NEW a \in Addrs, NewListenAddr(a) \/ ExpiredListenAddr(a)
    PROVE  RecordInv'
<1>1. CASE NewListenAddr(a)
  <2>1. LoopbackStays'
    BY <1>1 DEF NewListenAddr, RecordInv, LoopbackStays
  <2>2. published' \subseteq current'
    BY <1>1 DEF NewListenAddr, PublishRecord, RecordInv, RecordIsCurrent
  <2>. QED
    BY <2>1, <2>2 DEF RecordInv, RecordIsCurrent
<1>2. CASE ExpiredListenAddr(a)
  BY <1>2, AddrFacts, GoneFacts DEF ExpiredListenAddr
<1>. QED
  BY <1>1, <1>2

(* A new bootstrap peer is given the record; the relay may take the        *)
(* circuit with it.                                                        *)
LEMMA RecordHub ==
    ASSUME RecordInv, NEW h \in Hosts, DialEstablished(h) \/ ConnectionClosed(h)
    PROVE  RecordInv'
<1>1. CASE DialEstablished(h)
  <2>1. UNCHANGED <<listeners, current>> /\ published' \in {published, current}
    BY <1>1 DEF DialEstablished, BootstrapEstablished, PublishRecord
  <2>. QED
    BY <2>1 DEF RecordInv, RecordIsCurrent, LoopbackStays
<1>2. CASE ConnectionClosed(h)
  <2>1. CASE UNCHANGED addrVars
    BY <2>1 DEF addrVars, RecordInv, RecordIsCurrent, LoopbackStays
  <2>2. CASE listeners' = listeners \ {"circuit"} /\ NoteListenAddrGone("circuit")
    BY <2>2, AddrFacts, GoneFacts
  <2>3. CASE listeners' = listeners \ {"circuit"} /\ UNCHANGED <<current, published>>
    BY <2>3, AddrFacts DEF RecordInv, RecordIsCurrent, LoopbackStays
  <2>. QED
    BY <1>2, <2>1, <2>2, <2>3 DEF ConnectionClosed
<1>. QED
  BY <1>1, <1>2

(* Every step keeps the published record in step with the addresses.       *)
LEMMA RecordStep ==
    ASSUME RecordInv, [Next]_vars
    PROVE  RecordInv'
<1>1. ASSUME \/ \E h \in Hosts : DialFails(h) \/ DialRefused(h) \/ Reconnected(h)
             \/ \E k \in Kinds : PeerConnected(k) \/ PeerClosed(k)
             \/ PunchConnects \/ PunchSucceeds \/ PunchFails \/ WorldChanges \/ UNCHANGED vars
      PROVE  UNCHANGED addrVars
  BY <1>1 DEF DialFails, DialRefused, Reconnected, PeerConnected, PeerClosed, PunchConnects,
              PunchSucceeds, PunchFails, PunchEnds, WorldChanges, vars
<1>2. ASSUME UNCHANGED addrVars PROVE RecordInv'
  BY <1>2 DEF addrVars, RecordInv, RecordIsCurrent, LoopbackStays
<1>. QED
  BY <1>1, <1>2, RecordMaintenance, RecordListen, RecordHub DEF Next

-----------------------------------------------------------------------------
(* The path of a peer.                                                     *)

(* A new connection, of the peer or of a hole punch to it.                 *)
LEMMA PathConnects ==
    ASSUME TypeOK, NEW k \in Kinds, Connects(k)
    PROVE  PathInv'
<1>1. links'[k] # 0 /\ path' \in {"direct", "via-relay"}
  BY DEF Connects, PathOf, Kinds, TypeOK
<1>2. ~NoLinks'
  BY <1>1 DEF NoLinks
<1>. QED
  BY <1>1, <1>2 DEF PathInv, PathIsHonest, Connects

(* A DCUtR event, whenever it comes.                                       *)
LEMMA PathEvent ==
    ASSUME TypeOK, PathInv, PunchSucceeds \/ PunchFails
    PROVE  PathInv'
<1>1. /\ links' = links /\ late \in BOOLEAN
      /\ \/ path' = path /\ (late' <=> late)
         \/ path' \in {"direct", "failed"} /\ (late' <=> late \/ NoLinks)
  <2>1. CASE PunchSucceeds
    <3>1. CASE attempts = 0
      BY <2>1, <3>1 DEF PunchSucceeds, PunchEnds, TypeOK
    <3>2. CASE attempts # 0
      BY <2>1, <3>2 DEF PunchSucceeds, PunchEnds, TypeOK
    <3>. QED
      BY <3>1, <3>2
  <2>2. CASE PunchFails
    <3>1. CASE Spent
      BY <2>2, <3>1 DEF PunchFails, PunchEnds, TypeOK
    <3>2. CASE ~Spent
      BY <2>2, <3>2 DEF PunchFails, PunchEnds, TypeOK
    <3>. QED
      BY <3>1, <3>2
  <2>. QED
    BY <2>1, <2>2
<1>2. NoLinks' <=> NoLinks
  BY <1>1 DEF NoLinks
<1>. QED
  BY <1>1, <1>2 DEF PathInv, PathIsHonest

(* Every step keeps the path in step with the connections.                 *)
LEMMA PathStep ==
    ASSUME TypeOK, PathInv, [Next]_vars
    PROVE  PathInv'
<1>1. ASSUME NEW k \in Kinds, PeerConnected(k) PROVE PathInv'
  BY <1>1, PathConnects DEF PeerConnected
<1>2. ASSUME NEW k \in Kinds, PeerClosed(k) PROVE PathInv'
  <2>1. ~NoLinks
    BY <1>2 DEF PeerClosed, NoLinks, TypeOK
  <2>2. path \notin {"none", "disconnected"}
    BY <2>1 DEF PathInv, PathIsHonest
  <2>3. (path' = IF NoLinks' THEN "disconnected" ELSE path) /\ late' = late
    BY <1>2 DEF PeerClosed
  <2>4. ~late
    BY <1>2, <2>1 DEF PathInv, PathIsHonest
  <2>. QED
    BY <2>2, <2>3, <2>4 DEF PathInv, PathIsHonest
<1>3. CASE PunchConnects
  BY <1>3, PathConnects DEF PunchConnects, Kinds
<1>4. CASE PunchSucceeds \/ PunchFails
  BY <1>4, PathEvent
<1>5. ASSUME \/ \E scan, publishDue, bootDue \in BOOLEAN : Maintenance(scan, publishDue, bootDue)
             \/ \E a \in Addrs : NewListenAddr(a) \/ ExpiredListenAddr(a)
             \/ \E h \in Hosts : \/ DialEstablished(h) \/ DialFails(h) \/ DialRefused(h)
                                 \/ Reconnected(h) \/ ConnectionClosed(h)
             \/ WorldChanges \/ UNCHANGED vars
      PROVE  PathInv'
  <2>1. UNCHANGED peerVars
    BY <1>5 DEF Maintenance, NewListenAddr, ExpiredListenAddr, DialEstablished, DialFails,
                DialRefused, Reconnected, ConnectionClosed, WorldChanges, vars
  <2>. QED
    BY <2>1 DEF peerVars, PathInv, PathIsHonest, NoLinks
<1>. QED
  BY <1>1, <1>2, <1>3, <1>4, <1>5 DEF Next

-----------------------------------------------------------------------------
(* The invariant of the whole, and what it says.                           *)

(* The inductive invariant: guards match dials but for refused dials and a *)
(* host that is both bootstrap peer and relay, the record matches the      *)
(* addresses, the path matches the connections but for a late event        *)
(* (maintenance, handle_event).                                            *)
THEOREM ConnectivityInvariant == Spec => []ConnInv
<1>1. Init => ConnInv
  <2>. SUFFICES ASSUME Init PROVE ConnInv
    OBVIOUS
  <2>0. attempts \in 0..MaxAttempts - 1 /\ changes \in 0..MaxChanges
    BY BoundsAssumption DEF Init
  <2>a. dials \in [Hosts -> Nat] /\ conns \in [Hosts -> Nat] /\ links \in [Kinds -> Nat]
    BY DEF Init
  <2>1. TypeOK
    BY <2>0, <2>a, HostsAssumption DEF Init, TypeOK
  <2>2. HubInv
    BY <2>1 DEF Init, HubInv, GuardsAreExact, Guarded, Shared
  <2>3. RecordInv /\ PathInv
    BY DEF Init, RecordInv, RecordIsCurrent, LoopbackStays, PathInv, PathIsHonest, NoLinks, Kinds
  <2>. QED
    BY <2>2, <2>3 DEF ConnInv
<1>2. ConnInv /\ [Next]_vars => ConnInv'
  BY GuardStep, RecordStep, PathStep DEF ConnInv, HubInv, GuardsAreExact
<1>. QED
  BY <1>1, <1>2, PTL DEF Spec

(* However the ticks of maintenance, failed dials, late connections and    *)
(* closed ones interleave: there is one dial to a bootstrap peer or the    *)
(* relay exactly while its guard is set, unless a dial to it ended with an *)
(* error other than DialError::Transport, which leaves the guard set; and  *)
(* of a host that is both, dialed once as each, a guard still means a dial *)
(* (maintenance, handle_event).                                            *)
THEOREM GuardsStayExact == Spec => []GuardsAreExact
<1>1. ConnInv => GuardsAreExact
  BY DEF ConnInv, HubInv
<1>. QED
  BY <1>1, ConnectivityInvariant, PTL

(* The record never lists an address that has left current_addrs, although *)
(* publish_record does nothing for an empty set (publish_record,           *)
(* note_listen_addr_gone, refresh_local_addresses).                        *)
THEOREM RecordStaysCurrent == Spec => []RecordIsCurrent
<1>1. ConnInv => RecordIsCurrent
  BY DEF ConnInv, RecordInv
<1>. QED
  BY <1>1, ConnectivityInvariant, PTL

(* The path shown for a peer says whether there is a connection to it, for *)
(* any number of connections and hole punches, until a DCUtR event is      *)
(* handled after the last connection closed (handle_event).                *)
THEOREM PathStaysHonest == Spec => []PathIsHonest
<1>1. ConnInv => PathIsHonest
  BY DEF ConnInv, PathInv
<1>. QED
  BY <1>1, ConnectivityInvariant, PTL
=============================================================================
