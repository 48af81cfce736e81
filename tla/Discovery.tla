----------------------------- MODULE Discovery -----------------------------
(***************************************************************************)
(* How a node finds one peer device, dials it, and finds it again after    *)
(* its session is lost (M2.2 in node.rs): the cached record, the lookups   *)
(* and their retries, the dialing guard, the re-dial of the cached record. *)
(*                                                                         *)
(* The peer moves between addresses and publishes a signed record of them. *)
(* The DHT may answer with any record it has been given until it converges *)
(* on the last one.  Handshakes, sessions and frames are those of          *)
(* SessionBehaviour, reduced to how a connection ends up.                  *)
(*                                                                         *)
(* Deadlines are abstracted: a queued entry is due whenever those before   *)
(* it are.  One unit of "now" is longer than PUBLISH_INTERVAL; a record    *)
(* lives for TTL further units.                                            *)
(***************************************************************************)
EXTENDS Naturals, Sequences, FiniteSets

CONSTANTS
    Addrs,        \* addresses the peer may have
    Conns,        \* names of connections, reused once closed
    MaxAttempts,  \* MAX_LOOKUP_ATTEMPTS
    TTL,          \* ttl_secs and MAX_SKEW_SECS, in units of now
    MaxNow,       \* bound on time
    MaxTrouble,   \* bound on moves, commands and things that go wrong
    Troubles      \* which of them may happen

ASSUME AttemptsAssumption == MaxAttempts \in Nat \ {0}
ASSUME TimesAssumption == TTL \in Nat /\ MaxNow \in Nat /\ MaxTrouble \in Nat
ASSUME TroublesAssumption ==
    Troubles \subseteq {"move", "command", "other", "link", "handshake", "stream",
                        "session", "notfound", "forged", "dial", "wrongpeer"}

VARIABLES
    home,          \* addresses the peer has now; {} while it is away
    newest,        \* the record it published last
    dht,           \* records the DHT may answer with
    now,           \* time, the clock of issued_at
    cache,         \* records[peer], or NoRecord
    pending,       \* pending[l]: lookups in flight for the request l
    retryLookups,  \* retry_lookups: the request of each queued lookup
    retryDials,    \* retry_dials: the addresses of each queued re-dial
    waiters,       \* lookup commands that have not been answered
    dialing,       \* the peer is in dialing
    dials,         \* dials[S]: dials of the address set S in flight
    aborted,       \* aborted[S]: those of them that disconnect_peer_id cut short
    known,         \* the peer's transport id is in transport_devices
    conn,          \* conn[c]: "none", "hs" (handshake), "up" or "closing"
    sess,          \* the connection of sessions[peer], or NoConn
    events,        \* BehaviourEvents the node has yet to handle
    hadSession,    \* the peer is in had_session
    lost,          \* history: a loss was noticed and is not yet made good
    ended,         \* history: something happened that ends a pursuit for good
    trouble        \* history: how much has gone wrong

peerVars == <<home, newest, dht, now>>
lookupVars == <<pending, retryLookups, waiters>>
dialVars == <<dialing, dials, aborted, retryDials, known>>
connVars == <<conn, sess, events, hadSession, lost>>
envVars == <<ended, trouble>>
vars == <<peerVars, cache, lookupVars, dialVars, connVars, envVars>>

NoConn == "no connection"

NoRecord == [issued |-> 0, addrs |-> {}]

AddrSets == (SUBSET Addrs) \ {{}}

Records == [issued : 0..MaxNow, addrs : AddrSets]

(* What a lookup stands for: which attempt it is, and (history) whether a  *)
(* command asked for it or schedule_rediscovery.                           *)
LookupRequests == [attempts : 1..MaxAttempts, asked : BOOLEAN]

CommandedLookup == [attempts |-> 1, asked |-> TRUE]

OwnLookup == [attempts |-> 1, asked |-> FALSE]

HasSession == sess # NoConn

Live(c) == conn[c] # "none"

Init ==
    /\ home \in AddrSets
    /\ newest = NoRecord
    /\ dht = {}
    /\ now = 0
    /\ cache = NoRecord
    /\ pending = [l \in LookupRequests |-> 0]
    /\ retryLookups = <<>>
    /\ retryDials = <<>>
    /\ waiters = 0
    /\ dialing = FALSE
    /\ dials = [S \in AddrSets |-> 0]
    /\ aborted = [S \in AddrSets |-> 0]
    /\ known = FALSE
    /\ conn = [c \in Conns |-> "none"]
    /\ sess = NoConn
    /\ events = <<>>
    /\ hadSession = FALSE
    /\ lost = FALSE
    /\ ended = FALSE
    /\ trouble = 0

Trouble(kind) == kind \in Troubles /\ trouble < MaxTrouble /\ trouble' = trouble + 1

(* Whether the code makes another attempt after what just happened.        *)
GoesOn == UNCHANGED ended
EndsPursuit == ended' = TRUE

-----------------------------------------------------------------------------
(* The peer and the DHT.                                                   *)

Move(S) ==
    /\ Trouble("move") /\ GoesOn
    /\ S # home
    /\ home' = S
    /\ UNCHANGED <<newest, dht, now, cache, lookupVars, dialVars, connVars>>

ComeBack(S) ==
    /\ home = {}
    /\ S # {}
    /\ home' = S
    /\ UNCHANGED <<newest, dht, now, cache, lookupVars, dialVars, connVars, envVars>>

PublishOnce ==
    /\ home # {}
    /\ newest = NoRecord
    /\ newest' = [issued |-> now, addrs |-> home]
    /\ dht' = dht \cup {newest'}
    /\ UNCHANGED <<home, now, cache, lookupVars, dialVars, connVars, envVars>>

(* publish_record: a signed record of the present addresses, issued now.   *)
Publish ==
    /\ home # {}
    /\ newest # [issued |-> now, addrs |-> home]
    /\ newest' = [issued |-> now, addrs |-> home]
    /\ dht' = dht \cup {newest'}
    /\ UNCHANGED <<home, now, cache, lookupVars, dialVars, connVars, envVars>>

(* A node of the DHT keeps one record per key, and in the end the last.    *)
Converge ==
    /\ newest \in dht
    /\ dht # {newest}
    /\ dht' = {newest}
    /\ UNCHANGED <<home, newest, now, cache, lookupVars, dialVars, connVars, envVars>>

(* Time passes; a peer that is there has published within each unit.       *)
Tick ==
    /\ now < MaxNow
    /\ home # {} => newest = [issued |-> now, addrs |-> home]
    /\ now' = now + 1
    /\ UNCHANGED <<home, newest, dht, cache, lookupVars, dialVars, connVars, envVars>>

-----------------------------------------------------------------------------
(* Lookups.                                                                *)

LookupInFlight ==
    \/ \E l \in LookupRequests : pending[l] > 0
    \/ retryLookups # <<>>

(* A check that sees the lookups in flight but not the queued ones.        *)
RediscoverUnlessPending(queue) ==
    IF \E l \in LookupRequests : pending[l] > 0 THEN queue ELSE Append(queue, OwnLookup)

(* schedule_rediscovery: nothing if a lookup is pending or queued.         *)
Rediscover(queue) == IF LookupInFlight THEN queue ELSE Append(queue, OwnLookup)

(* verify_addr_record on a record that is genuine.                         *)
Verified(r) == r.issued + TTL >= now

ReplacesOlder(r) == cache = NoRecord \/ cache.issued < r.issued

(* on_verified_record: not older than the cached one.                      *)
Replaces(r) == cache = NoRecord \/ cache.issued <= r.issued

(* dial_peer and connect: the guard is set even if connect has nothing to  *)
(* dial.                                                                   *)
Dial(S) ==
    /\ dialing' = TRUE
    /\ IF S = {}
       THEN UNCHANGED <<dials, known>>
       ELSE /\ dials' = [dials EXCEPT ![S] = @ + 1]
            /\ known' = TRUE

OnVerifiedRecord(r) ==
    IF Replaces(r)
    THEN /\ cache' = r
         /\ IF dialing \/ HasSession THEN UNCHANGED <<dialing, dials, known>> ELSE Dial(r.addrs)
    ELSE UNCHANGED <<cache, dialing, dials, known>>

Answered(l) == pending' = [pending EXCEPT ![l] = @ - 1]

(* A record is found; only the first answer of a query is looked at.       *)
LookupFound(l, r) ==
    /\ pending[l] > 0
    /\ r \in dht
    /\ Verified(r)
    /\ Answered(l)
    /\ OnVerifiedRecord(r)
    /\ UNCHANGED trouble
    /\ IF cache.issued <= r.issued THEN GoesOn ELSE EndsPursuit
    /\ UNCHANGED <<peerVars, retryLookups, waiters, aborted, retryDials, connVars>>

(* A record that does not verify ends the lookup without a retry.          *)
LookupRejected(l) ==
    /\ pending[l] > 0
    /\ Answered(l)
    /\ EndsPursuit
    /\ \/ Trouble("forged")
       \/ (\E r \in dht : ~Verified(r)) /\ UNCHANGED trouble
    /\ UNCHANGED <<peerVars, cache, retryLookups, waiters, dialVars, connVars>>

RetriesLeft(l) == l.attempts < MaxAttempts

NextAttempt(l) == [l EXCEPT !.attempts = @ + 1]

(* Not found, timeout, quorum failed: retried a bounded number of times.   *)
LookupFails(l) ==
    /\ pending[l] > 0
    /\ IF dht = {} THEN UNCHANGED envVars
       ELSE Trouble("notfound") /\ IF RetriesLeft(l) THEN GoesOn ELSE EndsPursuit
    /\ Answered(l)
    /\ retryLookups' = IF RetriesLeft(l) THEN Append(retryLookups, NextAttempt(l)) ELSE retryLookups
    /\ UNCHANGED <<peerVars, cache, waiters, dialVars, connVars>>

(* NodeCommand::Lookup always looks up, NodeCommand::Send without a session. *)
Command(isLookup) ==
    /\ Trouble("command") /\ GoesOn
    /\ isLookup \/ ~HasSession
    /\ pending' = [pending EXCEPT ![CommandedLookup] = @ + 1]
    /\ waiters' = IF isLookup THEN waiters + 1 ELSE waiters
    /\ UNCHANGED <<peerVars, cache, retryLookups, dialVars, connVars>>

-----------------------------------------------------------------------------
(* maintenance: the first k re-dials and the first j lookups are due.  Of  *)
(* the re-dials at most the first finds neither a session nor a dial.  The *)
(* interactive loop then answers w lookup commands with the whole cache,   *)
(* which it takes.                                                         *)
DropFirst(s, n) == SubSeq(s, n + 1, Len(s))

Reissued(j) ==
    [l \in LookupRequests |-> pending[l] + Cardinality({i \in 1..j : retryLookups[i] = l})]

Maintenance(k, j, w) ==
    /\ k + j + w > 0
    /\ retryDials' = DropFirst(retryDials, k)
    /\ IF k = 0 \/ HasSession \/ dialing
       THEN UNCHANGED <<dialing, dials, known>>
       ELSE Dial(retryDials[1])
    /\ retryLookups' = DropFirst(retryLookups, j)
    /\ pending' = Reissued(j)
    /\ waiters' = waiters - w
    /\ cache' = IF w > 0 THEN NoRecord ELSE cache
    /\ UNCHANGED <<peerVars, aborted, connVars, envVars>>

-----------------------------------------------------------------------------
(* How dials end.                                                          *)

DialSucceeds(S, c) ==
    /\ dials[S] > 0
    /\ S \cap home # {}
    /\ conn[c] = "none"
    /\ dials' = [dials EXCEPT ![S] = @ - 1]
    /\ conn' = [conn EXCEPT ![c] = "hs"]
    /\ UNCHANGED <<peerVars, cache, lookupVars, dialing, aborted, retryDials, known,
                   sess, events, hadSession, lost, envVars>>

(* invalidate_candidates: without the failed addresses, or gone.           *)
Invalidate(S) ==
    IF cache.addrs \subseteq S THEN NoRecord ELSE [cache EXCEPT !.addrs = @ \ S]

(* OutgoingConnectionError of a dial to the peer, whoever asked for it:    *)
(* drop the addresses, look the peer up again, release the guard.  The     *)
(* swarm may report an address with /p2p at its end, and then it matches   *)
(* none of the record.                                                     *)
OnDialError(S) ==
    /\ cache' \in {Invalidate(S), cache}
    /\ retryLookups' = Rediscover(retryLookups)
    /\ dialing' = FALSE

DialFails(S) ==
    /\ dials[S] > 0
    /\ IF S \cap home = {} THEN UNCHANGED envVars ELSE Trouble("dial") /\ GoesOn
    /\ dials' = [dials EXCEPT ![S] = @ - 1]
    /\ OnDialError(S)
    /\ UNCHANGED <<peerVars, pending, waiters, aborted, retryDials, known, connVars>>

(* DialError::Aborted names no address: only the guard is released.        *)
DialAborted(S) ==
    /\ aborted[S] > 0
    /\ aborted' = [aborted EXCEPT ![S] = @ - 1]
    /\ dialing' = FALSE
    /\ UNCHANGED <<peerVars, cache, lookupVars, dials, retryDials, known, connVars, envVars>>

(* Some other device answers: the whole record goes.                       *)
DialFindsOther(S) ==
    /\ dials[S] > 0
    /\ Trouble("wrongpeer") /\ EndsPursuit
    /\ dials' = [dials EXCEPT ![S] = @ - 1]
    /\ cache' = NoRecord
    /\ dialing' = FALSE
    /\ UNCHANGED <<peerVars, lookupVars, aborted, retryDials, known, connVars>>

(* Kademlia dials the peer on its own account and fails.                   *)
OtherDialFails(a) ==
    /\ known
    /\ a \notin home
    /\ Trouble("other") /\ GoesOn
    /\ OnDialError({a})
    /\ UNCHANGED <<peerVars, pending, waiters, retryDials, dials, aborted, known,
                   connVars>>

(* The peer dials us, or Kademlia's dial succeeds.                         *)
OtherConnection(c) ==
    /\ home # {}
    /\ Trouble("other") /\ GoesOn
    /\ conn[c] = "none"
    /\ conn' = [conn EXCEPT ![c] = "hs"]
    /\ UNCHANGED <<peerVars, cache, lookupVars, dialVars, sess, events, hadSession, lost>>

-----------------------------------------------------------------------------
(* How connections end up.                                                 *)

Established(c) ==
    /\ conn[c] = "hs"
    /\ home # {}
    /\ conn' = [conn EXCEPT ![c] = "up"]
    /\ sess' = c
    /\ known' = TRUE
    /\ events' = Append(events, "Established")
    /\ UNCHANGED <<peerVars, cache, lookupVars, dialing, dials, aborted, retryDials,
                   hadSession, lost, envVars>>

(* A refused frame or a handshake that timed out.                          *)
HandshakeFails(c) ==
    /\ conn[c] = "hs"
    /\ IF home = {} THEN UNCHANGED trouble ELSE Trouble("handshake")
    /\ EndsPursuit
    /\ conn' = [conn EXCEPT ![c] = "up"]
    /\ events' = Append(events, "Failed")
    /\ UNCHANGED <<peerVars, cache, lookupVars, dialVars, sess, hadSession, lost>>

(* A session error drops the session.                                      *)
SessionFails ==
    /\ HasSession
    /\ Trouble("session") /\ GoesOn
    /\ sess' = NoConn
    /\ events' = Append(events, "Failed")
    /\ UNCHANGED <<peerVars, cache, lookupVars, dialVars, conn, hadSession, lost>>

(* The stream breaks under a handshake: nobody hears of it.                *)
StreamBreaks(c) ==
    /\ conn[c] = "hs"
    /\ Trouble("stream") /\ EndsPursuit
    /\ conn' = [conn EXCEPT ![c] = "up"]
    /\ UNCHANGED <<peerVars, cache, lookupVars, dialVars, sess, events, hadSession, lost>>

KeepsGuard == dialing

(* The node's part of ConnectionClosed: any connection releases the guard. *)
GuardAfterClose == dialing /\ ~known

(* ConnectionClosed, first in the behaviour and then in the node.  The     *)
(* event names the device only if its transport id is known.               *)
ConnectionClosed(c) ==
    /\ IF conn[c] = "closing" THEN UNCHANGED envVars
       ELSE /\ Live(c) /\ Trouble("link")
            /\ IF conn[c] = "hs" THEN EndsPursuit ELSE GoesOn
    /\ conn' = [conn EXCEPT ![c] = "none"]
    /\ sess' = IF sess = c THEN NoConn ELSE sess
    /\ dialing' = GuardAfterClose
    /\ events' = IF known /\ \A d \in Conns \ {c} : ~Live(d)
                 THEN Append(events, "Disconnected") ELSE events
    /\ UNCHANGED <<peerVars, cache, lookupVars, dials, aborted, retryDials, known, hadSession, lost>>

-----------------------------------------------------------------------------
(* What the node makes of the events.                                      *)

NextEvent(e) == events # <<>> /\ Head(events) = e /\ events' = Tail(events)

NodeEstablished ==
    /\ NextEvent("Established")
    /\ hadSession' = TRUE
    /\ dialing' = FALSE
    /\ lost' = FALSE
    /\ UNCHANGED <<peerVars, cache, lookupVars, dials, aborted, retryDials, known, conn, sess,
                   envVars>>

(* HandshakeFailed: disconnect_peer_id closes every connection to the peer *)
(* and aborts the dials that have not yet come to an end (those in T).  If *)
(* the link of the failed session has closed in the meantime, what it hits *)
(* is the next attempt.                                                    *)
NodeFailed(T) ==
    /\ NextEvent("Failed")
    /\ IF /\ \E i \in 2..Len(events) : events[i] = "Disconnected"
          /\ T # {} \/ \E c \in Conns : conn[c] = "hs"
       THEN EndsPursuit ELSE GoesOn
    /\ conn' = [c \in Conns |-> IF Live(c) THEN "closing" ELSE "none"]
    /\ dials' = [S \in AddrSets |-> IF S \in T THEN 0 ELSE dials[S]]
    /\ aborted' = [S \in AddrSets |-> IF S \in T THEN aborted[S] + dials[S] ELSE aborted[S]]
    /\ UNCHANGED <<peerVars, cache, lookupVars, dialing, retryDials, known, sess, hadSession,
                   lost, trouble>>

(* schedule_reconnect: re-dial the cached record once and look it up; no   *)
(* record, no reconnect.                                                   *)
ScheduleReconnect ==
    IF cache = NoRecord
    THEN UNCHANGED <<retryDials, retryLookups>>
    ELSE /\ retryDials' = IF dialing \/ HasSession THEN retryDials
                          ELSE Append(retryDials, cache.addrs)
         /\ retryLookups' = Rediscover(retryLookups)

NodeDisconnected ==
    /\ NextEvent("Disconnected")
    /\ IF hadSession THEN ScheduleReconnect ELSE UNCHANGED <<retryDials, retryLookups>>
    /\ lost' = (lost \/ (hadSession /\ cache # NoRecord))
    /\ hadSession' = FALSE
    /\ UNCHANGED <<peerVars, cache, pending, waiters, dialing, dials, aborted, known,
                   conn, sess, envVars>>

-----------------------------------------------------------------------------
PeerStep == Publish \/ Converge \/ Tick \/ \E S \in SUBSET Addrs : Move(S) \/ ComeBack(S)

LookupEnds(l) ==
    \/ \E r \in dht : LookupFound(l, r)
    \/ LookupRejected(l) \/ LookupFails(l)

DialEnds(S) ==
    \/ \E c \in Conns : DialSucceeds(S, c)
    \/ DialFails(S) \/ DialFindsOther(S) \/ DialAborted(S)

HandshakeEnds(c) == Established(c) \/ HandshakeFails(c) \/ StreamBreaks(c)

NodeEvent ==
    \/ NodeEstablished \/ NodeDisconnected
    \/ \E T \in SUBSET {S \in AddrSets : dials[S] > 0} : NodeFailed(T)

MaintenanceStep ==
    \E k \in 0..Len(retryDials), j \in 0..Len(retryLookups), w \in 0..waiters :
        Maintenance(k, j, w)

Next ==
    \/ PeerStep
    \/ \E isLookup \in BOOLEAN : Command(isLookup)
    \/ \E l \in LookupRequests : LookupEnds(l)
    \/ MaintenanceStep
    \/ \E S \in AddrSets : DialEnds(S)
    \/ \E a \in Addrs : OtherDialFails(a)
    \/ \E c \in Conns : OtherConnection(c) \/ HandshakeEnds(c) \/ ConnectionClosed(c)
    \/ SessionFails
    \/ NodeEvent

Spec == Init /\ [][Next]_vars

(* The peer comes back and publishes, the DHT converges; queries, dials,   *)
(* handshakes and closings end; the run loop handles events and goes       *)
(* through maintenance, where every entry comes due.                       *)
FairSpec ==
    /\ Spec
    /\ WF_vars(\E S \in SUBSET Addrs : ComeBack(S)) /\ WF_vars(Publish) /\ WF_vars(Converge)
    /\ \A l \in LookupRequests : WF_vars(LookupEnds(l))
    /\ \A S \in AddrSets : WF_vars(DialEnds(S))
    /\ \A c \in Conns :
        WF_vars(HandshakeEnds(c)) /\ WF_vars(conn[c] = "closing" /\ ConnectionClosed(c))
    /\ WF_vars(NodeEvent)
    /\ WF_vars(retryDials # <<>> /\ Maintenance(1, 0, 0))
    /\ WF_vars(retryLookups # <<>> /\ Maintenance(0, 1, 0))

-----------------------------------------------------------------------------
(* Properties.                                                             *)

(* Type invariant.  Attempt numbers stay within MAX_LOOKUP_ATTEMPTS        *)
(* (on_kad_event); no cached or queued address set is empty.               *)
TypeOK ==
    /\ home \in SUBSET Addrs
    /\ newest \in Records \cup {NoRecord}
    /\ dht \in SUBSET Records
    /\ now \in 0..MaxNow
    /\ cache \in Records \cup {NoRecord}
    /\ pending \in [LookupRequests -> Nat]
    /\ retryLookups \in Seq(LookupRequests)
    /\ retryDials \in Seq(AddrSets)
    /\ waiters \in Nat
    /\ dialing \in BOOLEAN
    /\ dials \in [AddrSets -> Nat]
    /\ aborted \in [AddrSets -> Nat]
    /\ known \in BOOLEAN
    /\ conn \in [Conns -> {"none", "hs", "up", "closing"}]
    /\ sess \in Conns \cup {NoConn}
    /\ events \in Seq({"Established", "Failed", "Disconnected"})
    /\ hadSession \in BOOLEAN
    /\ lost \in BOOLEAN
    /\ trouble \in 0..MaxTrouble

Dialed == \E S \in AddrSets : dials[S] > 0

Aborting == \E S \in AddrSets : aborted[S] > 0

(* Invariant.  The dialing guard of dial_peer is never leaked: while it is *)
(* set there is a dial or a connection to the peer whose end releases it   *)
(* (OutgoingConnectionError, ConnectionClosed or SessionEstablished).      *)
GuardIsReleasable == dialing => Dialed \/ Aborting \/ \E c \in Conns : Live(c)

(* The lookups nobody asked for: those queued, and those in flight.        *)
OwnLookups ==
    ({0} \X {i \in DOMAIN retryLookups : ~retryLookups[i].asked})
        \cup UNION {{l.attempts} \X (1..pending[l]) : l \in {k \in LookupRequests : ~k.asked}}

(* Invariant.  schedule_rediscovery deduplicates across dial failures,     *)
(* reconnects and retries: of the lookups pending or queued at any time at *)
(* most one was not asked for by a command, however many commands came and *)
(* went.  (TypeOK bounds their attempts.)                                  *)
RediscoveryIsSingle == TypeOK /\ \A x, y \in OwnLookups : x = y

Pursued ==
    \/ HasSession \/ events # <<>> \/ LookupInFlight \/ retryDials # <<>> \/ Dialed
    \/ \E c \in Conns : conn[c] \in {"hs", "closing"}

(* Invariant.  A lost peer with a cached record stays pursued until a      *)
(* session is back: a re-fetched record (on_verified_record), a failed     *)
(* dial, a closed connection or a retry never leaves it with nothing       *)
(* queued, in flight or connected.  What does is in "ended"; one such      *)
(* thing is a HandshakeFailed handled so late that disconnect_peer_id      *)
(* aborts the next attempt.                                                *)
LostPeerIsPursued == lost /\ ~ended => Pursued

(* Liveness.  And it is found again, at whatever addresses it has moved    *)
(* to: its republished record (publish_record) is looked up after every    *)
(* failed re-dial, unless one of the things in "ended" has happened.       *)
LostPeerIsFound == lost ~> (~lost \/ ended)
=============================================================================
