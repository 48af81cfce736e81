----------------------------- MODULE Handshake -----------------------------
(***************************************************************************)
(* One run of the symmetric authenticated handshake (handshake.rs) between *)
(* two devices over the byte stream of one connection, with the transport  *)
(* around it: an error or the 30 s timeout removes the handshake and has   *)
(* the node close the connection (transport.rs, node.rs).                  *)
(*                                                                         *)
(* Cryptography is symbolic: a signature verifies under the signer's key   *)
(* and over the signed term only, a KEM ciphertext yields the encapsulated *)
(* secret only to the owner of the key it was made for, and otherwise an   *)
(* unrelated secret (implicit rejection), hashes and the KDF are injective.*)
(***************************************************************************)
EXTENDS Sequences, Naturals

CONSTANTS
    Lo, Hi,       \* the two devices, in Peer ID order
    Stranger,     \* a third device's identity, above both
    None,         \* Option::None
    Malformed,    \* a payload of the wrong length or shape
    MaxFaults     \* how many frames the wire may damage or delay

ASSUME FaultsAssumption == MaxFaults \in Nat
ASSUME IdentityAssumption == Lo # Hi /\ {Stranger, None} \cap {Lo, Hi} = {} /\ Stranger # None

VARIABLES
    expected,   \* expected[p]: the device the dialer asked for, or None
    status,     \* "running", "established" or "failed"
    hs,         \* hs[p]: the Handshake of end p
    chan,       \* chan[p]: frames on their way to p, in order
    faults      \* frames the wire has damaged or delayed

hvars == <<expected, status, hs, chan, faults>>

Ends == {Lo, Hi}

Peer(p) == IF p = Lo THEN Hi ELSE Lo

(* libp2p::PeerId's order.                                                 *)
Below(p, q) == p = Lo \/ (p = Hi /\ q = Stranger)

-----------------------------------------------------------------------------
(* Frames and what is in them.  `v` tells an altered copy from the original. *)

Frame(type, pay) == [type |-> type, pay |-> pay]

Hello(p) == [id |-> p, v |-> 0]

Offer(p) == [owner |-> p, v |-> 0]

(* kem::encapsulate to the key in offer o.                                 *)
Response(p, o) == [by |-> p, to |-> o, v |-> 0]

Secret(r) == <<"encapsulated", r>>

(* kem::decapsulate with the secret key behind offer o.                    *)
Decapsulate(o, r) == IF r.v = 0 /\ r.to = o THEN Secret(r) ELSE <<"rejected", o, r>>

Signature(p, tr) == [by |-> p, over |-> tr]

(* What the wire can carry and an end can compute.                         *)
Ids == {Lo, Hi, Stranger}

Hellos == [id : Ids, v : 0..1]

Offers == [owner : Ends, v : 0..1]

Responses == [by : Ends, to : Offers, v : 0..1]

Secrets == ({"encapsulated"} \X Responses) \cup ({"rejected"} \X Offers \X Responses)

Transcripts == (Hellos \X Hellos) \X (Offers \X Offers) \X (Responses \X Responses)

Keys == [ikm : Secrets \X Secrets, tr : Transcripts]

Signatures == [by : Ids, over : Transcripts]

SessionIds == {"sid"} \X Keys

(* None and Malformed are none of these.                                   *)
ASSUME TermsAssumption ==
    \A t \in {None, Malformed} :
        /\ t \notin Hellos /\ t \notin Offers /\ t \notin Responses /\ t \notin Transcripts
        /\ t \notin Keys /\ t \notin Signatures /\ t \notin SessionIds

(* Canonical order: the lower Peer ID's item first.                        *)
MineFirst(me, peer, mine, theirs) == <<mine, theirs>>

InIdOrder(me, peer, mine, theirs) ==
    IF Below(me, peer) THEN <<mine, theirs>> ELSE <<theirs, mine>>

(* build_transcript: the six payloads, grouped by type, in Peer ID order.  *)
TranscriptWithoutHello(me, peer, s) ==
    << InIdOrder(me, peer, s.myOffer, s.peerOffer),
       InIdOrder(me, peer, s.myResponse, s.peerResponse) >>

BuildTranscript(me, peer, s) ==
    << InIdOrder(me, peer, s.myHello, s.peerHello),
       InIdOrder(me, peer, s.myOffer, s.peerOffer),
       InIdOrder(me, peer, s.myResponse, s.peerResponse) >>

(* combine_shared_secrets: the secret made by the higher end comes first.  *)
CombineSharedSecrets(me, peer, to, from) ==
    IF Below(me, peer) THEN <<from, to>> ELSE <<to, from>>

(* kdf::derive_session_keys: one term for the id and the two keys.         *)
DeriveKeys(ikm, tr) == [ikm |-> ikm, tr |-> tr]

SessionId(keys) == <<"sid", keys>>

(* select_keys: the direction this end sends in, then the one it reads.    *)
SelectKeys(keys, me, peer) ==
    IF Below(me, peer) THEN << <<"ab", keys>>, <<"ba", keys>> >>
                       ELSE << <<"ba", keys>>, <<"ab", keys>> >>

-----------------------------------------------------------------------------
(* Handshake::new; the Hello it returns is sent at once.                   *)
NewHandshake(p) ==
    [myHello |-> Hello(p), peerId |-> None, peerHello |-> None,
     myOffer |-> None, peerOffer |-> None, myResponse |-> None, peerResponse |-> None,
     transcript |-> None, keys |-> None, authOk |-> FALSE, ready |-> None]

Init ==
    /\ expected \in [Ends -> {None, Stranger} \cup Ends]
    /\ \A p \in Ends : expected[p] # p
    /\ status = [p \in Ends |-> "running"]
    /\ hs = [p \in Ends |-> NewHandshake(p)]
    /\ chan = [p \in Ends |-> <<Frame("Hello", Hello(Peer(p)))>>]
    /\ faults = 0

Head1(p) == Head(chan[p])

(* Take the first frame off p's stream and put `out` on its peer's.        *)
Consume(p, out) ==
    chan' = [chan EXCEPT ![p] = Tail(@), ![Peer(p)] = @ \o out]

-----------------------------------------------------------------------------
(* What each handler requires of a frame; anything else is an error.       *)

HelloFromAnyone(p, pay) == hs[p].peerHello = None /\ pay # Malformed

HelloAccepted(p, pay) ==
    /\ hs[p].peerHello = None
    /\ pay # Malformed
    /\ expected[p] \in {None, pay.id}

OfferAccepted(p, pay) ==
    /\ hs[p].peerHello # None
    /\ hs[p].peerOffer = None
    /\ pay # Malformed

ResponseAccepted(p, pay) ==
    /\ hs[p].peerHello # None
    /\ hs[p].peerResponse = None
    /\ hs[p].myOffer # None
    /\ pay # Malformed

(* mldsa::verify under the key of the Hello, over this end's transcript.   *)
AuthAccepted(p, pay) ==
    /\ ~hs[p].authOk
    /\ hs[p].transcript # None
    /\ pay = Signature(hs[p].peerId, hs[p].transcript)

ReadyAccepted(p, pay) ==
    /\ hs[p].ready = None
    /\ hs[p].authOk
    /\ pay = SessionId(hs[p].keys)

Accepted(p, f) ==
    \/ f.type = "Hello" /\ HelloAccepted(p, f.pay)
    \/ f.type = "KemOffer" /\ OfferAccepted(p, f.pay)
    \/ f.type = "KemResponse" /\ ResponseAccepted(p, f.pay)
    \/ f.type = "Auth" /\ AuthAccepted(p, f.pay)
    \/ f.type = "Ready" /\ ReadyAccepted(p, f.pay)

Receiving(p, type) ==
    /\ status[p] = "running"
    /\ chan[p] # <<>>
    /\ Head1(p).type = type
    /\ Accepted(p, Head1(p))

(* The handlers, one per frame type.                                       *)

OnHello(p) ==
    /\ Receiving(p, "Hello")
    /\ hs' = [hs EXCEPT ![p].peerId = Head1(p).pay.id,
                        ![p].peerHello = Head1(p).pay,
                        ![p].myOffer = Offer(p)]
    /\ Consume(p, <<Frame("KemOffer", Offer(p))>>)
    /\ UNCHANGED <<expected, status, faults>>

OnKemOffer(p) ==
    LET r == Response(p, Head1(p).pay) IN
    /\ Receiving(p, "KemOffer")
    /\ hs' = [hs EXCEPT ![p].peerOffer = Head1(p).pay, ![p].myResponse = r]
    /\ Consume(p, <<Frame("KemResponse", r)>>)
    /\ UNCHANGED <<expected, status, faults>>

(* finish_kem, applied to the handshake with the peer's response stored.   *)
FinishKem(me, s) ==
    LET tr == BuildTranscript(me, s.peerId, s)
        ikm == CombineSharedSecrets(me, s.peerId, Secret(s.myResponse),
                                    Decapsulate(s.myOffer, s.peerResponse))
    IN  [s EXCEPT !.transcript = tr, !.keys = DeriveKeys(ikm, tr)]

(* Without a response of its own yet, the end only stores the peer's.      *)
OnKemResponse(p) ==
    LET s == [hs[p] EXCEPT !.peerResponse = Head1(p).pay]
        done == FinishKem(p, s)
    IN
    /\ Receiving(p, "KemResponse")
    /\ IF s.myResponse # None
       THEN /\ hs' = [hs EXCEPT ![p] = done]
            /\ Consume(p, <<Frame("Auth", Signature(p, done.transcript))>>)
       ELSE /\ hs' = [hs EXCEPT ![p] = s]
            /\ Consume(p, <<>>)
    /\ UNCHANGED <<expected, status, faults>>

OnAuth(p) ==
    /\ Receiving(p, "Auth")
    /\ hs' = [hs EXCEPT ![p].authOk = TRUE]
    /\ Consume(p, <<Frame("Ready", SessionId(hs[p].keys))>>)
    /\ UNCHANGED <<expected, status, faults>>

OnReady(p) ==
    /\ Receiving(p, "Ready")
    /\ hs' = [hs EXCEPT ![p].ready = Head1(p).pay]
    /\ status' = [status EXCEPT ![p] = "established"]
    /\ Consume(p, <<>>)
    /\ UNCHANGED <<expected, faults>>

(* Any error: the handshake is removed, HandshakeFailed makes the node     *)
(* disconnect the peer, and what was on the way to this end is lost.       *)
FailClosed(p) ==
    /\ status' = [status EXCEPT ![p] = "failed"]
    /\ chan' = [chan EXCEPT ![p] = <<>>]
    /\ UNCHANGED <<expected, hs, faults>>

RejectFrame(p) ==
    /\ status[p] = "running"
    /\ chan[p] # <<>>
    /\ ~Accepted(p, Head1(p))
    /\ FailClosed(p)

(* on_frame of transport.rs: no handshake for this connection any more.    *)
DropFrame(p) ==
    /\ status[p] = "established"
    /\ chan[p] # <<>>
    /\ Consume(p, <<>>)
    /\ UNCHANGED <<expected, status, hs, faults>>

(* poll of the behaviour: the handshake is older than HANDSHAKE_TIMEOUT,   *)
(* which takes a frame that was lost, damaged or at least delayed.         *)
TimeOut(p) ==
    /\ status[p] = "running"
    /\ faults > 0
    /\ FailClosed(p)

ClosedWhileRunning(p) ==
    /\ status[p] = "running"
    /\ status[Peer(p)] = "failed"
    /\ FailClosed(p)

(* ConnectionClosed, after the other end gave up.                          *)
ConnectionClosed(p) ==
    /\ status[p] # "failed"
    /\ status[Peer(p)] = "failed"
    /\ FailClosed(p)

Deliver(p) ==
    \/ OnHello(p) \/ OnKemOffer(p) \/ OnKemResponse(p) \/ OnAuth(p) \/ OnReady(p)
    \/ RejectFrame(p) \/ DropFrame(p)

-----------------------------------------------------------------------------
(* The wire.  Up to MaxFaults frames are altered, duplicated, lost,        *)
(* swapped with the one behind them, or just late.                         *)

Altered(f) ==
    {Frame(f.type, Malformed)} \cup
    (IF f.pay = Malformed \/ f.type \in {"Auth", "Ready"} THEN {}
     ELSE {Frame(f.type, [f.pay EXCEPT !.v = 1])} \cup
          (IF f.type = "Hello" THEN {Frame("Hello", [f.pay EXCEPT !.id = Stranger])} ELSE {}))

Damaged(q) ==
    {<<g>> \o Tail(q) : g \in Altered(Head(q))}
        \cup {<<Head(q)>> \o q, Tail(q), q}
        \cup (IF Len(q) > 1 THEN {<<q[2], q[1]>> \o SubSeq(q, 3, Len(q))} ELSE {})

Damage(p) ==
    /\ faults < MaxFaults
    /\ chan[p] # <<>>
    /\ \E q \in Damaged(chan[p]) : chan' = [chan EXCEPT ![p] = q]
    /\ faults' = faults + 1
    /\ UNCHANGED <<expected, status, hs>>

Next == \E p \in Ends : Deliver(p) \/ TimeOut(p) \/ ConnectionClosed(p) \/ Damage(p)

Spec == Init /\ [][Next]_hvars

(* The swarm hands over what the stream has, reports closed connections    *)
(* and polls the behaviour, which expires handshakes.                      *)
FairSpec ==
    /\ Spec
    /\ \A p \in Ends :
        /\ WF_hvars(Deliver(p)) /\ WF_hvars(ConnectionClosed(p)) /\ WF_hvars(TimeOut(p))

-----------------------------------------------------------------------------
(* Properties.                                                             *)

(* Each Handshake field is unset or holds a value of its kind; transcript  *)
(* and keys are set together and only after both responses are there.      *)
TypeOK ==
    /\ status \in [Ends -> {"running", "established", "failed"}]
    /\ faults \in 0..MaxFaults
    /\ \A p \in Ends :
        /\ expected[p] \in Ids \cup {None}
        /\ hs[p].peerId \in Ids \cup {None}
        /\ (hs[p].peerHello = None) <=> (hs[p].myOffer = None)
        /\ (hs[p].peerOffer = None) <=> (hs[p].myResponse = None)
        /\ (hs[p].transcript = None) <=> (hs[p].keys = None)
        /\ hs[p].keys # None => hs[p].myResponse # None /\ hs[p].peerResponse # None
        /\ Len(chan[p]) <= 5 + MaxFaults

(* An end that has established a session did so with the device at the     *)
(* other end of the stream and with the device it dialed, if it dialed     *)
(* one: a Hello that presents somebody else's key never gets past Auth.    *)
PeerIsAuthentic ==
    \A p \in Ends :
        status[p] = "established" =>
            hs[p].peerId = Peer(p) /\ expected[p] \in {None, Peer(p)}

(* The peer has verified this end's signature and computed the same        *)
(* transcript and keys from the same six payloads.                         *)
PeerDerivedTheSame ==
    \A p \in Ends :
        status[p] = "established" =>
            LET mine == hs[p]
                theirs == hs[Peer(p)]
            IN  /\ theirs.authOk
                /\ theirs.keys = mine.keys
                /\ theirs.peerId = p
                /\ mine.peerHello = theirs.myHello /\ theirs.peerHello = mine.myHello

(* Two established ends use each other's keys the right way round: what    *)
(* one sends with, the other reads with.                                   *)
KeysComplement ==
    (\A p \in Ends : status[p] = "established") =>
        LET lo == SelectKeys(hs[Lo].keys, Lo, hs[Lo].peerId)
            hi == SelectKeys(hs[Hi].keys, Hi, hs[Hi].peerId)
        IN  lo[1] = hi[2] /\ lo[2] = hi[1] /\ lo[1] # lo[2]

(* An established end holds the very session its peer derived, so no       *)
(* altered payload survives, and the two use its keys the right way round. *)
(* The fields of a Handshake fill up in step, whatever order frames come   *)
(* in (TypeOK).                                                            *)
EstablishedAgrees == TypeOK /\ PeerDerivedTheSame /\ KeysComplement

(* On a sound stream the outcome depends on the dialed identities alone,   *)
(* in whatever order the frames of the two directions interleave: both     *)
(* ends establish (in particular no KemResponse comes before the KemOffer  *)
(* it would have to wait for), or, if one asked for another device, both   *)
(* end up without a session.                                               *)
SettlesAsDialed ==
    [](faults = 0) =>
      <>[](\A p \in Ends :
            status[p] = IF \A q \in Ends : expected[q] # Stranger THEN "established"
                                                                ELSE "failed")

(* Whatever happens to frames, no session stays half open: in the end both *)
(* devices have it or neither does, and no handshake is left pending.      *)
NoHalfOpenSession ==
    <>[](status[Lo] = status[Hi] /\ status[Lo] # "running")
=============================================================================
