---------------------------- MODULE Connectivity ----------------------------
(***************************************************************************)
(* How a node gets onto the network and says where it can be found: the    *)
(* bootstrap and relay dials of maintenance and their in-flight guards,    *)
(* the circuit reservation, the listen addresses against the interfaces of *)
(* the host, the address record made of them, and the path the node shows  *)
(* for a peer (node.rs).                                                   *)
(*                                                                         *)
(* A bootstrap peer or relay has one address, so a host stands for it.     *)
(* Validated public addresses are module AddressValidation's; the dials to *)
(* peers found in the DHT are module Discovery's and come in here only as  *)
(* connections.                                                            *)
(***************************************************************************)
EXTENDS FiniteSets, Naturals

CONSTANTS
    Hosts,         \* the relay, and the hosts named with --bootstrap
    Relay,         \* the host named with --relay
    BootSets,      \* the sets of hosts that --bootstrap may name
    Ips,           \* IPs the host may be given besides loopback
    CircuitLocal,  \* is the IP in the circuit address one of this host
                   \* (a relay on the same machine)?
    MaxAddrs,      \* MAX_ADDRS
    MaxAttempts,   \* MAX_TRAVERSAL_ATTEMPTS
    MaxChanges,    \* changes of interfaces and of hosts, refused dials: bound
    MaxConns,      \* connections to one host or peer: bound
    MaxDials       \* dials to one host in flight that are counted: bound

ASSUME HostsAssumption == Relay \in Hosts /\ BootSets \subseteq SUBSET Hosts
ASSUME AddrsAssumption ==
    /\ CircuitLocal \in BOOLEAN
    /\ {"loopback", "circuit"} \cap Ips = {}
    /\ IsFiniteSet(Ips) /\ MaxAddrs \in Nat /\ Cardinality(Ips) + 2 <= MaxAddrs
ASSUME BoundsAssumption ==
    /\ MaxAttempts \in Nat \ {0} /\ MaxDials \in Nat \ {0}
    /\ MaxChanges \in Nat /\ MaxConns \in Nat

VARIABLES
    boots,        \* bootstrap_pending, the hosts named with --bootstrap
    up,           \* hosts that can be reached at present
    dials,        \* dials[h]: peerless dials to h in flight
    conns,        \* conns[h]: connections to h
    mapped,       \* bootstrap_mapped
    bootDialing,  \* bootstrap_dialing
    resolved,     \* relay_transport is known
    relayDialing, \* relay_dialing
    refused,      \* history: hosts whose guards outlive a dial that ended unnoticed
    reservation,  \* the circuit listener: "none", "asked" or "held"
    ifaces,       \* IPs configured on the host
    listeners,    \* swarm.listeners()
    current,      \* current_addrs
    published,    \* the addresses of our_record, as put into the DHT
    links,        \* links[k]: connections of kind k to the peer we watch
    path,         \* peer_paths of that peer
    attempts,     \* traversal_attempts of that peer, 0 if there is no entry
    punch,        \* libp2p's hole punch to it: "none", "started", "through"
    late,         \* history: its path was set after its last connection had closed
    changes       \* changes of the world and refused dials so far

hubVars == <<dials, conns, mapped, bootDialing, resolved, relayDialing, refused>>
addrVars == <<reservation, listeners, current, published>>
peerVars == <<links, path, attempts, punch, late>>
worldVars == <<boots, up, ifaces, changes>>
vars == <<hubVars, addrVars, peerVars, worldVars>>

Addrs == Ips \cup {"loopback", "circuit"}

Kinds == {"direct", "relayed"}

Init ==
    /\ boots \in BootSets
    /\ up \in SUBSET Hosts
    /\ dials = [h \in Hosts |-> 0]
    /\ conns = [h \in Hosts |-> 0]
    /\ mapped = {} /\ bootDialing = {}
    /\ resolved = FALSE /\ relayDialing = FALSE /\ refused = {}
    /\ reservation = "none"
    /\ ifaces \in SUBSET Ips
    /\ listeners = {} /\ current = {} /\ published = {}
    /\ links = [k \in Kinds |-> 0]
    /\ path = "none"
    /\ attempts = 0
    /\ punch = "none" /\ late = FALSE
    /\ changes = 0

-----------------------------------------------------------------------------
(* The address record.                                                     *)

(* filter_local_addrs: the IP decides, and a circuit address has the one   *)
(* of the relay.                                                           *)
FilterLocalAddrs(addrs) ==
    {a \in addrs : a = "loopback" \/ a \in ifaces \/ (a = "circuit" /\ CircuitLocal)}

(* publish_record, given the current addresses.                            *)
PublishRecord(addrs) == published' = IF addrs = {} THEN published ELSE addrs

(* The address part of verify_addr_record: TCP addresses without a /p2p    *)
(* component, which every circuit address has.                             *)
Verifies(record) ==
    record # {} /\ Cardinality(record) <= MaxAddrs /\ "circuit" \notin record

(* NewListenAddr: the wildcard listener has found an interface, loopback   *)
(* before all others, or the relay has granted the reservation.            *)
NewListenAddr(a) ==
    /\ a \notin listeners
    /\ a = "loopback" \/ "loopback" \in listeners
    /\ a = "loopback" \/ a \in ifaces \/ (a = "circuit" /\ reservation = "asked")
    /\ listeners' = listeners \cup {a}
    /\ reservation' = IF a = "circuit" THEN "held" ELSE reservation
    /\ current' = current \cup {a}
    /\ IF a \in current THEN UNCHANGED published ELSE PublishRecord(current')
    /\ UNCHANGED <<hubVars, peerVars, worldVars>>

(* Mutant: the change is not published.                                    *)
GoneQuietly(a) ==
    /\ current' = current \ {a}
    /\ UNCHANGED published

(* ExpiredListenAddr: note_listen_addr_gone.                               *)
NoteListenAddrGone(a) ==
    /\ current' = current \ {a}
    /\ IF a \in current THEN PublishRecord(current') ELSE UNCHANGED published

(* libp2p may or may not notice that an interface is gone.                 *)
ExpiredListenAddr(a) ==
    /\ a \in (listeners \cap Ips) \ ifaces
    /\ listeners' = listeners \ {a}
    /\ NoteListenAddrGone(a)
    /\ UNCHANGED <<reservation, hubVars, peerVars, worldVars>>

-----------------------------------------------------------------------------
(* maintenance.                                                            *)

(* Mutant: the swarm's listeners are not looked at again.                  *)
KnownCurrent == current

(* refresh_local_addresses: what the swarm listens on is added before the  *)
(* stale addresses are taken out, and only the latter is published.        *)
Known == current \cup listeners

Refreshed(scan) == IF scan THEN FilterLocalAddrs(Known) ELSE current

ScanPublishes(scan) == scan /\ FilterLocalAddrs(Known) # Known

Isolated == (\A h \in Hosts : conns[h] = 0) /\ (\A k \in Kinds : links[k] = 0)

(* Mutant: a dial in flight does not hold the loop back.                   *)
BootsUnguarded(bootDue) == {b \in boots \ mapped : bootDue /\ Isolated}

BootsToDial(bootDue) == {b \in boots \ (mapped \cup bootDialing) : bootDue /\ Isolated}

RelayToDial == ~resolved /\ ~relayDialing

(* One dial more for the bootstrap loop, one more for the relay.           *)
Counted(n, asBoot, asRelay) ==
    LET sum == n + (IF asBoot THEN 1 ELSE 0) + (IF asRelay THEN 1 ELSE 0) IN
    IF sum > MaxDials THEN MaxDials ELSE sum

(* One tick: the interface scan (which may be due, and may fail), the      *)
(* periodic publish, the bootstrap loop every five seconds, the relay.     *)
(* Each of the last two looks at its own guard only.                       *)
Maintenance(scan, publishDue, bootDue) ==
    LET dialed == BootsToDial(bootDue) IN
    /\ current' = Refreshed(scan)
    /\ IF ScanPublishes(scan) \/ publishDue THEN PublishRecord(current') ELSE UNCHANGED published
    /\ bootDialing' = bootDialing \cup dialed
    /\ relayDialing' = (relayDialing \/ RelayToDial)
    /\ dials' = [h \in Hosts |-> Counted(dials[h], h \in dialed, h = Relay /\ RelayToDial)]
    /\ UNCHANGED <<conns, mapped, resolved, refused, reservation, listeners, peerVars, worldVars>>

-----------------------------------------------------------------------------
(* Swarm events about the bootstrap peers and the relay.                   *)

(* ConnectionEstablished for a peerless dial.  The circuit is asked for    *)
(* once, and listen_on may refuse.                                         *)
RelayEstablished(h) ==
    IF h = Relay /\ ~resolved
    THEN /\ resolved' = TRUE
         /\ relayDialing' = FALSE
         /\ reservation' \in {"none", "asked"}
    ELSE UNCHANGED <<resolved, relayDialing, reservation>>

BootstrapEstablished(h) ==
    IF h \in boots \ mapped
    THEN /\ mapped' = mapped \cup {h}
         /\ bootDialing' = bootDialing \ {h}
         /\ PublishRecord(current)
    ELSE UNCHANGED <<mapped, bootDialing, published>>

DialEstablished(h) ==
    /\ dials[h] > 0 /\ h \in up
    /\ dials' = [dials EXCEPT ![h] = @ - 1]
    /\ conns' = [conns EXCEPT ![h] = @ + 1]
    /\ RelayEstablished(h)
    /\ BootstrapEstablished(h)
    /\ refused' = refused \ {h}
    /\ UNCHANGED <<listeners, current, peerVars, worldVars>>

(* Mutant: a failed dial keeps its guard.                                  *)
DialFailsGuarded(h) ==
    /\ dials[h] > 0 /\ h \notin up
    /\ dials' = [dials EXCEPT ![h] = @ - 1]
    /\ UNCHANGED <<conns, mapped, bootDialing, resolved, relayDialing, refused, addrVars,
                   peerVars, worldVars>>

(* OutgoingConnectionError of a peerless dial with DialError::Transport:   *)
(* every guard with the address is released.                               *)
DialFails(h) ==
    /\ dials[h] > 0 /\ h \notin up
    /\ dials' = [dials EXCEPT ![h] = @ - 1]
    /\ bootDialing' = bootDialing \ {h}
    /\ relayDialing' = (relayDialing /\ h # Relay)
    /\ refused' = refused \ {h}
    /\ UNCHANGED <<conns, mapped, resolved, addrVars, peerVars, worldVars>>

(* Any other error (the host is this node, the dial was denied or aborted) *)
(* names no address, and no guard is released.                             *)
DialRefused(h) ==
    /\ dials[h] > 0
    /\ changes < MaxChanges /\ changes' = changes + 1
    /\ dials' = [dials EXCEPT ![h] = @ - 1]
    /\ refused' = refused \cup {h}
    /\ UNCHANGED <<conns, mapped, bootDialing, resolved, relayDialing, addrVars, peerVars,
                   boots, up, ifaces>>

(* A later connection to a host whose transport id is known: from a record *)
(* or from the DHT's own queries.                                          *)
Reconnected(h) ==
    /\ h \in up /\ (h \in mapped \/ (h = Relay /\ resolved))
    /\ conns[h] < MaxConns
    /\ conns' = [conns EXCEPT ![h] = @ + 1]
    /\ UNCHANGED <<dials, mapped, bootDialing, resolved, relayDialing, refused, addrVars,
                   peerVars, worldVars>>

(* ConnectionClosed.  The circuit goes with the last connection to the     *)
(* relay; libp2p reports that as an expired address or only as a closed    *)
(* listener, which the node ignores.                                       *)
ConnectionClosed(h) ==
    /\ conns[h] > 0
    /\ conns' = [conns EXCEPT ![h] = @ - 1]
    /\ bootDialing' = bootDialing \ {h}
    /\ IF h = Relay /\ conns[h] = 1
       THEN /\ reservation' = "none"
            /\ listeners' = listeners \ {"circuit"}
            /\ NoteListenAddrGone("circuit") \/ UNCHANGED <<current, published>>
       ELSE UNCHANGED addrVars
    /\ UNCHANGED <<dials, mapped, resolved, relayDialing, refused, peerVars, worldVars>>

-----------------------------------------------------------------------------
(* The path of a peer.                                                     *)

PathOf == [direct |-> "direct", relayed |-> "via-relay"]

NoLinks == \A k \in Kinds : links[k] = 0

Connects(k) ==
    /\ links[k] < MaxConns
    /\ links' = [links EXCEPT ![k] = @ + 1]
    /\ path' = PathOf[k]
    /\ late' = FALSE

(* On a relayed connection libp2p begins a hole punch (one at a time).     *)
PeerConnected(k) ==
    /\ Connects(k)
    /\ punch' = IF k = "relayed" /\ punch = "none" THEN "started" ELSE punch
    /\ UNCHANGED <<attempts, hubVars, addrVars, worldVars>>

(* Mutant: the remaining connections are not counted.                      *)
PeerClosedAny(k) ==
    /\ links[k] > 0
    /\ links' = [links EXCEPT ![k] = @ - 1]
    /\ path' = "disconnected"
    /\ UNCHANGED <<attempts, punch, late, hubVars, addrVars, worldVars>>

PeerClosed(k) ==
    /\ links[k] > 0
    /\ links' = [links EXCEPT ![k] = @ - 1]
    /\ path' = IF NoLinks' THEN "disconnected" ELSE path
    /\ UNCHANGED <<attempts, punch, late, hubVars, addrVars, worldVars>>

(* The hole punch gets through with a direct connection, or not.  Its      *)
(* DCUtR event comes later, whatever has become of the connections         *)
(* meanwhile.                                                              *)
PunchConnects ==
    /\ punch = "started" /\ punch' = "through"
    /\ Connects("direct")
    /\ UNCHANGED <<attempts, hubVars, addrVars, worldVars>>

(* A DCUtR event, and the path it sets if it sets one.                     *)
PunchEnds(sets, p) ==
    /\ punch' = "none"
    /\ path' = IF sets THEN p ELSE path
    /\ late' = (late \/ (sets /\ NoLinks))
    /\ UNCHANGED <<links, hubVars, addrVars, worldVars>>

(* Ok: the path is set only if no failure was counted before.              *)
PunchSucceeds ==
    /\ punch = "through"
    /\ PunchEnds(attempts = 0, "direct")
    /\ attempts' = 0

Spent == attempts + 1 >= MaxAttempts

(* Err: counted, and at the limit the path is set.                         *)
PunchFails ==
    /\ punch = "started"
    /\ PunchEnds(Spent, "failed")
    /\ attempts' = IF Spent THEN 0 ELSE attempts + 1

-----------------------------------------------------------------------------
(* The world: interfaces come and go, hosts too.                           *)
WorldChanges ==
    /\ changes < MaxChanges /\ changes' = changes + 1
    /\ \/ \E a \in Ips : ifaces' = (ifaces \cup {a}) \ (ifaces \cap {a}) /\ UNCHANGED up
       \/ \E h \in Hosts : up' = (up \cup {h}) \ (up \cap {h}) /\ UNCHANGED ifaces
    /\ UNCHANGED <<boots, hubVars, addrVars, peerVars>>

Next ==
    \/ \E scan, publishDue, bootDue \in BOOLEAN : Maintenance(scan, publishDue, bootDue)
    \/ \E a \in Addrs : NewListenAddr(a) \/ ExpiredListenAddr(a)
    \/ \E h \in Hosts :
          \/ DialEstablished(h) \/ DialFails(h) \/ DialRefused(h)
          \/ Reconnected(h) \/ ConnectionClosed(h)
    \/ \E k \in Kinds : PeerConnected(k) \/ PeerClosed(k)
    \/ PunchConnects \/ PunchSucceeds \/ PunchFails
    \/ WorldChanges

(* The tick comes every second, so each of its parts falls due again and   *)
(* again; a dial ends one way or the other; the listener finds interfaces. *)
Fairness ==
    /\ WF_vars(\E p, b \in BOOLEAN : Maintenance(TRUE, p, b))
    /\ WF_vars(\E s, b \in BOOLEAN : Maintenance(s, TRUE, b))
    /\ WF_vars(\E s, p \in BOOLEAN : Maintenance(s, p, TRUE))
    /\ \A h \in Hosts : WF_vars(DialEstablished(h)) /\ WF_vars(DialFails(h))
    /\ \A a \in Ips \cup {"loopback"} : WF_vars(NewListenAddr(a))

Spec == Init /\ [][Next]_vars /\ Fairness

-----------------------------------------------------------------------------
(* Properties.                                                             *)

(* Types; the traversal budget is never exceeded.                          *)
TypeOK ==
    /\ boots \subseteq Hosts
    /\ up \subseteq Hosts
    /\ dials \in [Hosts -> Nat]
    /\ conns \in [Hosts -> Nat]
    /\ mapped \subseteq boots
    /\ bootDialing \subseteq boots
    /\ resolved \in BOOLEAN
    /\ relayDialing \in BOOLEAN
    /\ refused \subseteq Hosts
    /\ reservation \in {"none", "asked", "held"}
    /\ ifaces \subseteq Ips
    /\ listeners \subseteq Addrs
    /\ current \subseteq Addrs
    /\ published \subseteq Addrs
    /\ links \in [Kinds -> Nat]
    /\ path \in {"none", "disconnected", "direct", "via-relay", "failed"}
    /\ attempts \in 0 .. MaxAttempts - 1
    /\ punch \in {"none", "started", "through"}
    /\ late \in BOOLEAN
    /\ changes \in 0 .. MaxChanges

(* Is h marked as being dialed?                                            *)
Guarded(h) == h \in bootDialing \/ (h = Relay /\ relayDialing)

(* Named by both --bootstrap and --relay?                                  *)
Shared(h) == h = Relay /\ h \in boots

(* The guards are exact: a bootstrap peer or the relay is marked as being  *)
(* dialed precisely while one dial to it is in flight, so there is never a *)
(* second dial to the same address and no guard is left behind by a dial   *)
(* that has ended.  The code grants this with two exceptions.  A dial that *)
(* ends with another error than DialError::Transport leaves its guard set  *)
(* (`refused`).  And a host named by both --bootstrap and --relay has two  *)
(* guards, is dialed once for each, and loses both when one dial fails; of *)
(* it only remains that a guard means a dial.  (TypeOK bounds the attempts *)
(* at a hole punch.)                                                       *)
GuardsAreExact ==
    /\ TypeOK
    /\ \A h \in Hosts :
        /\ Guarded(h) => dials[h] > 0 \/ h \in refused
        /\ ~Shared(h) => dials[h] = IF Guarded(h) /\ h \notin refused THEN 1 ELSE 0

(* The record lists no address the node has let go of: whatever leaves     *)
(* current_addrs leaves the record in the same step.  (publish_record does *)
(* nothing for an empty set; the loopback address prevents that.)          *)
RecordIsCurrent == published \subseteq current

(* The path shown says "disconnected" exactly when there is no connection, *)
(* whatever order connections and hole punches come and go in, except that *)
(* a DCUtR event handled after the last connection closed sets "failed" or *)
(* "direct" all the same, until the next connection (`late`).              *)
PathIsHonest == path \in {"none", "disconnected"} <=> NoLinks /\ ~late

(* An unmapped bootstrap peer that stays within reach is dialed until it   *)
(* is mapped, or the node has some connection; and a relay that stays      *)
(* within reach is resolved, however often dials failed: unless a dial to  *)
(* it ended with an error that leaves its guard set.                       *)
NodeJoins ==
    /\ \A b \in Hosts :
        []<>(b \notin boots \cap up \/ b \in mapped \cup refused \/ ~Isolated)
    /\ []<>(Relay \notin up \/ resolved \/ Relay \in refused)

(* Once interfaces stop changing (their changes are bounded), the record   *)
(* comes to list the addresses of the host and no others: stale ones go    *)
(* with the scan, and one that came back without a listen event is picked  *)
(* up and published again; and it stays that way.                          *)
RecordSettles == <>[](published \ {"circuit"} = ifaces \cup {"loopback"})

(* Whatever is published passes the address checks every reader applies.   *)
RecordVerifies == published # {} => Verifies(published)
=============================================================================
