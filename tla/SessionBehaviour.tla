------------------------- MODULE SessionBehaviour -------------------------
(***************************************************************************)
(* The SessionBehaviours of two devices (transport.rs) and the part of     *)
(* their nodes that reacts to them (on_session_event of node.rs), over     *)
(* several connections between the same two devices.                       *)
(*                                                                         *)
(* A connection carries one stream of frames each way, in order.  The      *)
(* handshake, whose contents module Handshake models, is reduced to the    *)
(* frames that decide when an end considers itself established: Hello      *)
(* stands for everything up to Auth, then Ready.  Each connection's        *)
(* handshake makes a new session, so the connection names the session id.  *)
(***************************************************************************)
EXTENDS Sequences, Functions, Naturals

CONSTANTS
    A, B,        \* the two devices
    Conns,       \* connection ids 1..n: the bound on how often they dial
    Msgs,        \* Msgs[p]: how many texts the user of p sends
    TooLong,     \* TooLong[p]: which of them exceed MAX_MESSAGE_BYTES
    Redundant,   \* may a device dial while it still has a connection?
    Faults,      \* subset of {"link", "stream", "timeout", "text", "attempt"}
    MaxFaults    \* how many of them may happen

ASSUME ConnsAssumption == Conns \subseteq Nat \ {0}
ASSUME DevicesAssumption == A # B
ASSUME TextsAssumption == {Msgs[A], Msgs[B]} \subseteq Nat
ASSUME FaultsAssumption ==
    /\ Redundant \in BOOLEAN
    /\ Faults \subseteq {"link", "stream", "timeout", "text", "attempt"}
    /\ MaxFaults \in Nat

VARIABLES
    dialer,     \* dialer[c]: who dialed connection c, 0 if nobody yet
    link,       \* link[c][p]: "none", "up" or "closed", as p's swarm sees it
    faults,     \* faults so far
    closing,    \* connections that are going down
    broken,     \* broken[p]: connections whose handler at p has closed
    wire,       \* wire[c][p]: frames on their way to p over c
    hs,         \* hs[p][c]: "idle", "hello", "authed" or "gone" (no entry)
    sess,       \* sess[p]: sessions[peer] of p, or NoSession
    pending,    \* pending[p]: pending_sends[peer] of p
    observed,   \* observed[p]: inbound connections with an address to report
    events,     \* events[p]: BehaviourEvents the node of p has yet to handle
    hadSession, \* hadSession[p]: the peer is in had_session
    pursuit,    \* pursuit[p]: "due" when a lookup or a re-dial of the peer is to
                \* come, "ended" when the last one came to nothing, else "none"
    sent,       \* history: how many texts the user of p has sent
    delivered,  \* history: texts p's node was handed, in order
    acked       \* history: texts p's node was told were delivered

vars == <<faults, dialer, link, closing, broken, wire, hs, sess, pending, observed,
          events, hadSession, pursuit, sent, delivered, acked>>

connVars == <<faults, dialer, link, closing, broken>>
nodeVars == <<events, hadSession, pursuit>>
logVars == <<sent, delivered, acked>>

Devices == {A, B}

Peer(p) == IF p = A THEN B ELSE A

NoSession == [conn |-> 0, out |-> 0, in |-> 0]

(* Session::new on connection c, whose handshake produced the session id.  *)
NewSession(c) == [conn |-> c, out |-> 0, in |-> 0]

HasSession(p) == sess[p].conn # 0

HsFrame(type) == [type |-> type, sid |-> 0, seq |-> 0, m |-> 0]

SessionFrame(type, s, k, m) == [type |-> type, sid |-> s.conn, seq |-> s.out + k, m |-> m]

Init ==
    /\ dialer = [c \in Conns |-> 0]
    /\ link = [c \in Conns |-> [p \in Devices |-> "none"]]
    /\ faults = 0
    /\ closing = {}
    /\ broken = [p \in Devices |-> {}]
    /\ wire = [c \in Conns |-> [p \in Devices |-> <<>>]]
    /\ hs = [p \in Devices |-> [c \in Conns |-> "idle"]]
    /\ sess = [p \in Devices |-> NoSession]
    /\ pending = [p \in Devices |-> <<>>]
    /\ observed = [p \in Devices |-> {}]
    /\ events = [p \in Devices |-> <<>>]
    /\ hadSession = [p \in Devices |-> FALSE]
    /\ pursuit = [p \in Devices |-> "none"]
    /\ sent = [p \in Devices |-> 0]
    /\ delivered = [p \in Devices |-> <<>>]
    /\ acked = [p \in Devices |-> {}]

-----------------------------------------------------------------------------
(* notify_conn and the handler's write queue: frames for a closed handler  *)
(* or a connection that is gone are silently lost.                         *)
Reaches(p, c) ==
    /\ link[c][p] = "up" /\ link[c][Peer(p)] # "closed"
    /\ c \notin broken[p] \cup broken[Peer(p)]

Put(w, p, c, frames) ==
    IF Reaches(p, c) THEN [w EXCEPT ![c][Peer(p)] = @ \o frames] ELSE w

Take(p, c) == [wire EXCEPT ![c][p] = Tail(@)]

Emit(p, e) == events' = [events EXCEPT ![p] = Append(@, e)]

-----------------------------------------------------------------------------
(* Connections come up and go down.                                        *)

UnusedConn(c) == dialer[c] = 0 /\ \A d \in Conns : d < c => dialer[d] # 0

(* A dial that succeeds: bootstrap, record, reconnect, probe or hole       *)
(* punch.  A lookup or a re-dial that comes due meanwhile finds the peer   *)
(* in `dialing` and does nothing.                                          *)
Dial(p, c) ==
    /\ UnusedConn(c)
    /\ Redundant \/ \A d \in Conns, q \in Devices :
            dialer[d] # 0 => d \in closing /\ link[d][q] # "up"
    /\ dialer' = [dialer EXCEPT ![c] = p]
    /\ pursuit' = [pursuit EXCEPT ![p] = "none"]
    /\ UNCHANGED <<faults, link, closing, broken, wire, hs, sess, pending, observed,
                   events, hadSession, logVars>>

(* ConnectionEstablished: an inbound connection shows the dialer's address. *)
ConnectionEstablished(p, c) ==
    /\ dialer[c] # 0
    /\ c \notin closing
    /\ link[c][p] = "none"
    /\ link' = [link EXCEPT ![c][p] = "up"]
    /\ observed' = IF dialer[c] # p THEN [observed EXCEPT ![p] = @ \cup {c}] ELSE observed
    /\ UNCHANGED <<faults, dialer, closing, broken, wire, hs, sess, pending, nodeVars, logVars>>

SubstreamReadyOnce(p, c) ==
    /\ link[c][p] = "up"
    /\ c \notin broken[p]
    /\ \A d \in Conns : hs[p][d] = "idle"
    /\ hs' = [hs EXCEPT ![p][c] = "hello"]
    /\ wire' = Put(wire, p, c, <<HsFrame("Hello")>>)
    /\ UNCHANGED <<connVars, sess, pending, observed, nodeVars, logVars>>

(* SubstreamReady: the handshake of this connection starts with a Hello.   *)
SubstreamReady(p, c) ==
    /\ link[c][p] = "up"
    /\ c \notin broken[p]
    /\ hs[p][c] = "idle"
    /\ hs' = [hs EXCEPT ![p][c] = "hello"]
    /\ wire' = Put(wire, p, c, <<HsFrame("Hello")>>)
    /\ UNCHANGED <<connVars, sess, pending, observed, nodeVars, logVars>>

Fault(kind) == kind \in Faults /\ faults < MaxFaults /\ faults' = faults + 1

(* The network drops a connection.                                         *)
LinkFails(c) ==
    /\ Fault("link")
    /\ dialer[c] # 0
    /\ c \notin closing
    /\ closing' = closing \cup {c}
    /\ UNCHANGED <<dialer, link, broken, wire, hs, sess, pending, observed, nodeVars, logVars>>

(* A read or write error on the stream: StreamClosed removes a pending     *)
(* handshake and nothing else; the connection stays up.                    *)
StreamClosed(p, c) ==
    /\ Fault("stream")
    /\ link[c][p] = "up"
    /\ c \notin broken[p]
    /\ broken' = [broken EXCEPT ![p] = @ \cup {c}]
    /\ hs' = [hs EXCEPT ![p][c] = "gone"]
    /\ wire' = [wire EXCEPT ![c][p] = <<>>]
    /\ UNCHANGED <<dialer, link, closing, sess, pending, observed, nodeVars, logVars>>

OthersUp(p, c) == {d \in Conns \ {c} : link[d][p] = "up"}

KeepsSession(p, c) == sess

(* ConnectionClosed: the session goes only if it is bound to this          *)
(* connection; the node hears of it only when no connection is left.       *)
AfterClose(p, c) == IF sess[p].conn = c THEN [sess EXCEPT ![p] = NoSession] ELSE sess

ConnectionClosed(p, c) ==
    /\ c \in closing
    /\ link[c][p] = "up"
    /\ link' = [link EXCEPT ![c][p] = "closed"]
    /\ wire' = [wire EXCEPT ![c][p] = <<>>]
    /\ observed' = [observed EXCEPT ![p] = @ \ {c}]
    /\ hs' = [hs EXCEPT ![p][c] = "gone"]
    /\ sess' = AfterClose(p, c)
    /\ IF OthersUp(p, c) = {} THEN Emit(p, "Disconnected") ELSE UNCHANGED events
    /\ UNCHANGED <<faults, dialer, closing, broken, pending, hadSession, pursuit, logVars>>

-----------------------------------------------------------------------------
(* Handshake frames.                                                       *)

FrameAt(p, c, type) ==
    /\ wire[c][p] # <<>>
    /\ hs[p][c] # "idle"
    /\ Head(wire[c][p]).type = type

OnHello(p, c) ==
    /\ FrameAt(p, c, "Hello")
    /\ hs[p][c] = "hello"
    /\ hs' = [hs EXCEPT ![p][c] = "authed"]
    /\ wire' = Put(Take(p, c), p, c, <<HsFrame("Ready")>>)
    /\ UNCHANGED <<connVars, sess, pending, observed, nodeVars, logVars>>

(* Established: the new session replaces any other, queued texts go out    *)
(* first, and an inbound connection's observed address is reported.        *)

Fits(p, m) == m \notin TooLong[p]

(* What is left of q, in order, when the members of S are dropped.         *)
Without(q, S) ==
    LET F[i \in 0..Len(q)] ==
            IF i = 0 THEN <<>> ELSE IF q[i] \in S THEN F[i - 1] ELSE Append(F[i - 1], q[i])
    IN  F[Len(q)]

(* Queued texts that do not fit are dropped, with a line in the log.       *)
Fitting(p) == Without(pending[p], TooLong[p])

FlushNothing(s, p) == <<>>

(* A dropped text uses up a sequence number.                               *)
FlushCountsDropped(s, p) ==
    LET At(m) == CHOOSE i \in DOMAIN pending[p] : pending[p][i] = m IN
    [i \in 1..Len(Fitting(p)) |->
        SessionFrame("Message", s, At(Fitting(p)[i]) - 1, Fitting(p)[i])]

FlushPending(s, p) ==
    [i \in 1..Len(Fitting(p)) |-> SessionFrame("Message", s, i - 1, Fitting(p)[i])]

ReportObserved(s, p, c) ==
    IF c \in observed[p] THEN <<SessionFrame("Control", s, Len(Fitting(p)), 0)>> ELSE <<>>

KeepsQueue(p) == pending

Flushed(p) == [pending EXCEPT ![p] = <<>>]

OnReady(p, c) ==
    LET s == NewSession(c)
        frames == FlushPending(s, p) \o ReportObserved(s, p, c)
    IN
    /\ FrameAt(p, c, "Ready")
    /\ hs[p][c] = "authed"
    /\ hs' = [hs EXCEPT ![p][c] = "gone"]
    /\ sess' = [sess EXCEPT ![p] = [s EXCEPT !.out = Len(frames)]]
    /\ pending' = Flushed(p)
    /\ observed' = [observed EXCEPT ![p] = @ \ {c}]
    /\ wire' = Put(Take(p, c), p, c, frames)
    /\ Emit(p, "Established")
    /\ UNCHANGED <<connVars, hadSession, pursuit, logVars>>

(* No handshake for the connection, or no session for the device: dropped. *)
DropFrame(p, c) ==
    /\ wire[c][p] # <<>>
    /\ hs[p][c] # "idle"
    /\ IF Head(wire[c][p]).type \in {"Hello", "Ready"} THEN hs[p][c] = "gone" ELSE ~HasSession(p)
    /\ wire' = Take(p, c)
    /\ UNCHANGED <<connVars, hs, sess, pending, observed, nodeVars, logVars>>

(* poll: a handshake older than HANDSHAKE_TIMEOUT fails.                   *)
HandshakeTimeout(p, c) ==
    /\ Fault("timeout")
    /\ hs[p][c] \in {"hello", "authed"}
    /\ hs' = [hs EXCEPT ![p][c] = "gone"]
    /\ Emit(p, "Failed")
    /\ UNCHANGED <<dialer, link, closing, broken, wire, sess, pending, observed, hadSession, pursuit, logVars>>

-----------------------------------------------------------------------------
(* Session frames.  The session is looked up by device, whatever           *)
(* connection the frame came over.                                         *)

(* handle_frame of module Session: right session id, next sequence number. *)
Accepts(p, f) == f.sid = sess[p].conn /\ f.seq = sess[p].in

OnMessage(p, c) ==
    LET f == Head(wire[c][p]) IN
    /\ FrameAt(p, c, "Message")
    /\ HasSession(p) /\ Accepts(p, f)
    /\ sess' = [sess EXCEPT ![p].in = @ + 1, ![p].out = @ + 1]
    /\ wire' = Put(Take(p, c), p, c, <<SessionFrame("Ack", sess[p], 0, f.m)>>)
    /\ delivered' = [delivered EXCEPT ![p] = Append(@, f.m)]
    /\ UNCHANGED <<connVars, hs, pending, observed, nodeVars, sent, acked>>

OnAckOrControl(p, c) ==
    LET f == Head(wire[c][p]) IN
    /\ FrameAt(p, c, "Ack") \/ FrameAt(p, c, "Control")
    /\ HasSession(p) /\ Accepts(p, f)
    /\ sess' = [sess EXCEPT ![p].in = @ + 1]
    /\ wire' = Take(p, c)
    /\ acked' = IF f.type = "Ack" THEN [acked EXCEPT ![p] = @ \cup {f.m}] ELSE acked
    /\ UNCHANGED <<connVars, hs, pending, observed, nodeVars, sent, delivered>>

OnSessionErrorAcking(p, c) ==
    LET f == Head(wire[c][p]) IN
    /\ FrameAt(p, c, "Message")
    /\ HasSession(p) /\ ~Accepts(p, f)
    /\ sess' = [sess EXCEPT ![p] = NoSession]
    /\ wire' = Put(Take(p, c), p, c, <<SessionFrame("Ack", sess[p], 0, f.m)>>)
    /\ Emit(p, "Failed")
    /\ UNCHANGED <<connVars, hs, pending, observed, hadSession, pursuit, logVars>>

(* Any session error drops the session and is reported as a failure.       *)
OnSessionError(p, c) ==
    /\ FrameAt(p, c, "Message") \/ FrameAt(p, c, "Ack") \/ FrameAt(p, c, "Control")
    /\ HasSession(p) /\ ~Accepts(p, Head(wire[c][p]))
    /\ sess' = [sess EXCEPT ![p] = NoSession]
    /\ wire' = Take(p, c)
    /\ Emit(p, "Failed")
    /\ UNCHANGED <<connVars, hs, pending, observed, hadSession, pursuit, logVars>>

-----------------------------------------------------------------------------
(* The user and the node.                                                  *)

EnqueueFirst(q, m) == <<m>> \o q

Enqueue(q, m) == Append(q, m)

(* Without a session the command also looks the peer up, once.             *)
Queued(p, m) ==
    /\ ~HasSession(p)
    /\ pending' = [pending EXCEPT ![p] = Enqueue(@, m)]
    /\ pursuit' = [pursuit EXCEPT ![p] = "due"]
    /\ UNCHANGED <<faults, wire, sess, events>>

Encrypted(p, m) ==
    /\ HasSession(p) /\ Fits(p, m)
    /\ wire' = Put(wire, p, sess[p].conn, <<SessionFrame("Message", sess[p], 0, m)>>)
    /\ sess' = [sess EXCEPT ![p].out = @ + 1]
    /\ UNCHANGED <<faults, pending, events, pursuit>>

(* encrypt_message fails: HandshakeFailed, told apart here as "TooLong".   *)
(* It costs the session, and so counts as a fault.                         *)
Refused(p, m) ==
    /\ HasSession(p) /\ ~Fits(p, m)
    /\ Fault("text")
    /\ Emit(p, "TooLong")
    /\ UNCHANGED <<wire, sess, pending, pursuit>>

(* send_message.                                                           *)
SendMessage(p) ==
    LET m == sent[p] + 1 IN
    /\ sent[p] < Msgs[p]
    /\ sent' = [sent EXCEPT ![p] = m]
    /\ Queued(p, m) \/ Encrypted(p, m) \/ Refused(p, m)
    /\ UNCHANGED <<dialer, link, closing, broken, hs, observed, hadSession,
                   delivered, acked>>

NextEvent(p, e) == events[p] # <<>> /\ Head(events[p]) = e

(* NodeEstablished that forgets had_session.insert.                        *)
NodeEstablishedForgets(p) ==
    /\ NextEvent(p, "Established")
    /\ events' = [events EXCEPT ![p] = Tail(@)]
    /\ UNCHANGED <<connVars, wire, hs, sess, pending, observed, hadSession, pursuit, logVars>>

NodeEstablished(p) ==
    /\ NextEvent(p, "Established")
    /\ events' = [events EXCEPT ![p] = Tail(@)]
    /\ hadSession' = [hadSession EXCEPT ![p] = TRUE]
    /\ pursuit' = [pursuit EXCEPT ![p] = IF @ = "ended" THEN "none" ELSE @]
    /\ UNCHANGED <<connVars, wire, hs, sess, pending, observed, logVars>>

(* HandshakeFailed: disconnect_peer_id closes every connection to the peer. *)
NodeFailed(p) ==
    /\ NextEvent(p, "Failed") \/ NextEvent(p, "TooLong")
    /\ events' = [events EXCEPT ![p] = Tail(@)]
    /\ closing' = closing \cup {c \in Conns : link[c][p] = "up"}
    /\ UNCHANGED <<faults, dialer, link, broken, wire, hs, sess, pending, observed,
                   hadSession, pursuit, logVars>>

(* schedule_reconnect: with a record cached (module Discovery keeps the    *)
(* cache) a re-dial and a lookup are queued; without one it returns.  A    *)
(* lookup that is still to be answered is left alone.                      *)
ScheduleReconnect(p) ==
    \E s \in {"due", "ended"} :
        pursuit' = [pursuit EXCEPT ![p] = IF @ = "due" THEN "due" ELSE s]

(* PeerDisconnected: reconnect to a peer we had a session with.  A         *)
(* connection lost before its session schedules nothing.                   *)
NodeDisconnected(p) ==
    /\ NextEvent(p, "Disconnected")
    /\ events' = [events EXCEPT ![p] = Tail(@)]
    /\ IF hadSession[p] THEN ScheduleReconnect(p) ELSE UNCHANGED pursuit
    /\ hadSession' = [hadSession EXCEPT ![p] = FALSE]
    /\ UNCHANGED <<connVars, wire, hs, sess, pending, observed, logVars>>

(* maintenance and on_verified_record: a re-dial that comes due, or a      *)
(* lookup that is answered, while there is a session is dropped.           *)
AttemptSkipped(p) ==
    /\ pursuit[p] = "due"
    /\ HasSession(p)
    /\ pursuit' = [pursuit EXCEPT ![p] = "none"]
    /\ UNCHANGED <<connVars, wire, hs, sess, pending, observed, events, hadSession, logVars>>

(* The lookup finds nothing, or what it found cannot be dialed, until the  *)
(* retries are used up (module Discovery).                                 *)
AttemptFails(p) ==
    /\ Fault("attempt")
    /\ pursuit[p] = "due"
    /\ pursuit' = [pursuit EXCEPT ![p] = "ended"]
    /\ UNCHANGED <<dialer, link, closing, broken, wire, hs, sess, pending, observed,
                   events, hadSession, logVars>>

-----------------------------------------------------------------------------
Swarm(p, c) ==
    \/ ConnectionEstablished(p, c) \/ SubstreamReady(p, c) \/ ConnectionClosed(p, c)
    \/ OnHello(p, c) \/ OnReady(p, c) \/ DropFrame(p, c)
    \/ OnMessage(p, c) \/ OnAckOrControl(p, c) \/ OnSessionError(p, c)

NodeEvent(p) == NodeEstablished(p) \/ NodeFailed(p) \/ NodeDisconnected(p)

NodeActs(p) == NodeEvent(p) \/ AttemptSkipped(p) \/ AttemptFails(p)

Next ==
    \/ \E p \in Devices : SendMessage(p) \/ NodeActs(p)
    \/ \E p \in Devices, c \in Conns :
        Swarm(p, c) \/ Dial(p, c) \/ StreamClosed(p, c) \/ HandshakeTimeout(p, c)
    \/ \E c \in Conns : LinkFails(c)

Spec == Init /\ [][Next]_vars

(* The swarm delivers what it has, the node drains its events, and an      *)
(* attempt that is due is made: a scheduled reconnect, or the lookup of a  *)
(* text sent without a session.  Nothing else makes a device dial.  Users  *)
(* and faults, a failing attempt among them, are under no obligation.      *)
FairSpec ==
    /\ Spec
    /\ \A p \in Devices :
        /\ WF_vars(NodeEvent(p))
        /\ WF_vars(pursuit[p] = "due" /\ \E c \in Conns : Dial(p, c))
        /\ \A c \in Conns : WF_vars(Swarm(p, c))

-----------------------------------------------------------------------------
(* Properties.                                                             *)

Texts(p) == 1..Msgs[p]

Increasing(s) == \A i, j \in DOMAIN s : i < j => s[i] < s[j]

(* Every table of the two behaviours keeps its shape; a session's counters *)
(* never exceed what both users' texts, their acks and one address report  *)
(* per session can use.                                                    *)
TypeOK ==
    /\ dialer \in [Conns -> Devices \cup {0}]
    /\ link \in [Conns -> [Devices -> {"none", "up", "closed"}]]
    /\ closing \subseteq Conns
    /\ hs \in [Devices -> [Conns -> {"idle", "hello", "authed", "gone"}]]
    /\ \A p \in Devices :
        /\ sess[p].conn \in Conns \cup {0}
        /\ {sess[p].out, sess[p].in} \subseteq 0..(Msgs[A] + Msgs[B] + 1)
        /\ Increasing(pending[p]) /\ Range(pending[p]) \subseteq 1..sent[p]
        /\ acked[p] \subseteq Texts(p)
        /\ \A i \in DOMAIN events[p] : events[p][i] \in
            {"Established", "Failed", "TooLong", "Disconnected"}

(* The tables keep their shape (TypeOK), and the session in the table      *)
(* always belongs to a connection that is still up: neither replacing it   *)
(* nor closing an older connection, in any order, leaves a session behind  *)
(* that can never carry a frame again.                                     *)
SessionOnLiveConnection ==
    /\ TypeOK
    /\ \A p \in Devices : HasSession(p) => link[sess[p].conn][p] = "up"

(* No text reaches the other node twice, across lost sessions, reconnects, *)
(* replaced sessions and queueing in pending_sends.  Some may be lost.     *)
AtMostOnce ==
    \A p \in Devices :
        /\ Range(delivered[p]) \subseteq 1..sent[Peer(p)]
        /\ \A i, j \in DOMAIN delivered[p] : delivered[p][i] = delivered[p][j] => i = j

(* While connections do not overlap, texts also arrive in the order their  *)
(* user sent them, whatever links fail in between.  (Overlapping           *)
(* connections lose this: a device that establishes the older session last *)
(* still accepts the texts sent on it.)                                    *)
InOrder == \A p \in Devices : Increasing(delivered[p])

(* "delivered" in the history file is true: an acknowledged text was       *)
(* handed to the peer's node, whatever became of the session since.        *)
AckedWasDelivered ==
    \A p \in Devices : acked[p] \subseteq Range(delivered[Peer(p)])

(* When connections do not overlap, no frame is ever refused: sessions     *)
(* fail only by losing their connection or by a text that is too long, and *)
(* a text dropped from the queue for its length leaves no gap behind.      *)
NoSpuriousFailure == \A p \in Devices : \A i \in DOMAIN events[p] : events[p][i] # "Failed"

(* On a sound connection every text that fits is delivered and             *)
(* acknowledged, whether it was sent before, during or after the           *)
(* handshake, and also from a queue with a text that is dropped for its    *)
(* length.  (Such a text sent within a session is a fault: the failure it  *)
(* raises closes the connection and texts in flight are lost.)             *)
EveryTextAcknowledged ==
    \A p \in Devices : \A m \in Texts(p) \ TooLong[p] :
        (sent[p] >= m) ~> (m \in acked[p] \/ faults > 0)

(* The last attempt of p came to nothing: no record was cached when the    *)
(* loss was noticed, or every lookup and dial failed; or the connection it *)
(* made, a later one than c, was lost again.                               *)
NoMoreAttempts(p, c) ==
    pursuit[p] = "ended" \/ \E d \in closing : d > c /\ dialer[d] = p

(* A session, once won, is kept for good or won back on a later            *)
(* connection: its loss is always noticed and answered by schedule_        *)
(* reconnect.  And no queued text waits forever: the lookup made for it    *)
(* leads to a session, which flushes the queue.  Excepted is only an       *)
(* attempt that comes to nothing, which the code does not repeat           *)
(* (had_session is cleared when the first loss is noticed, and a lookup is *)
(* used up by its answer).                                                 *)
SessionRecovers ==
    \A p \in Devices :
        /\ \A c \in Conns :
            []((sess[p].conn = c) =>
                <>[](sess[p].conn = c) \/ <>(sess[p].conn > c \/ NoMoreAttempts(p, c)))
        /\ (pending[p] # <<>>) ~> (pending[p] = <<>> \/ NoMoreAttempts(p, 0))

(* docs/architecture.md 5: "Delivery errors (closed handler) surface as    *)
(* handshake/session failures and cleanly tear down the session."          *)
ClosedHandlerTearsDown ==
    \A p \in Devices :
        (HasSession(p) /\ sess[p].conn \in broken[p])
            ~> ~(HasSession(p) /\ sess[p].conn \in broken[p])

=============================================================================
