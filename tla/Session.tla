------------------------------ MODULE Session ------------------------------
(***************************************************************************)
(* The two Session objects of one established session (session.rs) and     *)
(* the caller that feeds them (on_session_frame of transport.rs).          *)
(*                                                                         *)
(* Nothing is assumed of the wire: the frame an end is handed has any      *)
(* header and carries any ciphertext either end ever produced, or garbage. *)
(* That covers loss, duplication, reordering, reflection, frames of        *)
(* another session and altered headers or payloads.  Cryptography is       *)
(* symbolic: a ciphertext opens under the key, nonce and associated data   *)
(* it was sealed with and under nothing else.                              *)
(***************************************************************************)
EXTENDS Sequences, Integers

CONSTANTS
    Lo, Hi,           \* the two devices, Lo the one with the smaller Peer ID
    Bodies,           \* texts no longer than MAX_MESSAGE_BYTES
    Controls,         \* plaintexts of observed-address and dial-back frames
    MsgIds,           \* message ids (random u64)
    Sid, StaleSid,    \* this session's id, and some other session's
    Garbage,          \* a payload neither end sealed
    MaxSeq,           \* u32::MAX, the value checked_add refuses to leave
    SeenWindow        \* SEEN_WINDOW

ASSUME EndsAssumption == Lo # Hi
ASSUME SidAssumption == Sid # StaleSid
ASSUME BoundsAssumption ==
    /\ MaxSeq \in Nat
    /\ SeenWindow \in Nat \ {0}

VARIABLES
    ep,         \* ep[p]: the Session of end p
    status,     \* "open"; "closed" once the caller dropped it; "panicked"
    sealed,     \* history: every frame p has sealed, in order
    delivered   \* history: every Inbound p's caller was handed, in order

vars == <<ep, status, sealed, delivered>>

Ends == {Lo, Hi}

Peer(p) == IF p = Lo THEN Hi ELSE Lo

SeqNums == 0..MaxSeq

FrameTypes == {"Message", "Ack", "Control"}

-----------------------------------------------------------------------------
(* Plaintexts: what an end puts in a frame, with the tag of its type.      *)

MsgText(b) == [tag |-> "Message", body |-> b]

AckText(id, n) == [tag |-> "Ack", id |-> id, ackSeq |-> n]

CtlText(c) == [tag |-> "Control", ctl |-> c]

Plaintexts ==
    {MsgText(b) : b \in Bodies}
        \cup {AckText(id, n) : id \in MsgIds, n \in SeqNums}
        \cup {CtlText(c) : c \in Controls}

(* Session::new: both counters at zero, nothing seen.                      *)
NewSession == [outSeq |-> 0, inSeq |-> 0, violations |-> 0, seen |-> <<>>]

(* The direction tag: 1 for the end with the lower Peer ID, 2 for the other *)
Dir(p) == IF p = Lo THEN 1 ELSE 2

Nonce(p, n) == <<Dir(p), n>>

Aad(type, n, id) == <<type, Sid, n, id>>

(* seal: the send key of p is p itself, the receive key of its peer.       *)
Ciphertext(p, n, id, pt) ==
    [key |-> p, nonce |-> Nonce(p, n), aad |-> Aad(pt.tag, n, id), pt |-> pt]

Frame(p, n, id, pt) ==
    [type |-> pt.tag, sid |-> Sid, seq |-> n, id |-> id, ct |-> Ciphertext(p, n, id, pt)]

(* checked_add(1) on a u32 succeeds.                                       *)
SeqLeft(n) == n < MaxSeq

(* out_seq after a frame is sealed.                                        *)
KeepOut(s) == s

AdvanceOut(s) == [s EXCEPT !.outSeq = @ + 1]

(* remember: the sliding window of accepted (seq, msg_id) pairs.           *)
RememberAll(seen, n, id) == Append(seen, <<n, id>>)

Remember(seen, n, id) ==
    Append(IF Len(seen) >= SeenWindow THEN Tail(seen) ELSE seen, <<n, id>>)

(* aead::open with the receive key, the peer's nonce and the header's aad. *)
OpensIgnoringHeader(p, f) ==
    /\ f.ct # Garbage
    /\ f.ct.key = Peer(p)
    /\ f.ct.nonce = Nonce(Peer(p), f.seq)

OpensUnderEitherKey(p, f) ==
    /\ f.ct # Garbage
    /\ f.ct.nonce[2] = f.seq
    /\ f.ct.aad = Aad(f.type, f.seq, f.id)

Opens(p, f) ==
    /\ f.ct # Garbage
    /\ f.ct.key = Peer(p)
    /\ f.ct.nonce = Nonce(Peer(p), f.seq)
    /\ f.ct.aad = Aad(f.type, f.seq, f.id)

(* The Inbound that handle_frame returns for frame f.                      *)
Inbound(f) == [type |-> f.type, seq |-> f.seq, id |-> f.id, pt |-> f.ct.pt]

(* Everything the wire may hand to an end.                                 *)
WireFrames ==
    [type : FrameTypes, sid : {Sid, StaleSid}, seq : SeqNums, id : MsgIds,
     ct : {Garbage} \cup UNION {{sealed[q][i].ct : i \in DOMAIN sealed[q]} : q \in Ends}]

Init ==
    /\ ep = [p \in Ends |-> NewSession]
    /\ status = [p \in Ends |-> "open"]
    /\ sealed = [p \in Ends |-> <<>>]
    /\ delivered = [p \in Ends |-> <<>>]

-----------------------------------------------------------------------------
(* Sending.                                                                *)

SealAndSend(p, id, pt) ==
    /\ ep' = [ep EXCEPT ![p] = AdvanceOut(@)]
    /\ sealed' = [sealed EXCEPT ![p] = Append(@, Frame(p, ep[p].outSeq, id, pt))]
    /\ UNCHANGED <<status, delivered>>

(* encrypt_message: at the last sequence number it returns an error and    *)
(* leaves the session as it was.                                           *)
EncryptMessage(p) ==
    /\ status[p] = "open"
    /\ SeqLeft(ep[p].outSeq)
    /\ \E id \in MsgIds, b \in Bodies : SealAndSend(p, id, MsgText(b))

(* encrypt_observed_addr, encrypt_dial_back_req, encrypt_dial_back_res.    *)
EncryptControl(p) ==
    /\ status[p] = "open"
    /\ SeqLeft(ep[p].outSeq)
    /\ \E id \in MsgIds, c \in Controls : SealAndSend(p, id, CtlText(c))

(* The `expect` in seal_control.                                           *)
ControlPanics(p) ==
    /\ status[p] = "open"
    /\ ~SeqLeft(ep[p].outSeq)
    /\ status' = [status EXCEPT ![p] = "panicked"]
    /\ UNCHANGED <<ep, sealed, delivered>>

-----------------------------------------------------------------------------
(* Receiving: handle_frame and the caller's reaction, which is to drop the *)
(* session at the first error.                                             *)

RefuseLeniently(p) == status' = status

Refuse(p) == status' = [status EXCEPT ![p] = "closed"]

RejectWrongSession(p, f) ==
    /\ f.sid # Sid
    /\ Refuse(p)
    /\ UNCHANGED <<ep, sealed, delivered>>

(* Replay, or Hostile from the MAX_SEQ_VIOLATIONS-th time on: an error to   *)
(* the caller either way.                                                  *)
RejectOutOfSequence(p, f) ==
    /\ f.sid = Sid
    /\ f.seq # ep[p].inSeq
    /\ ep' = [ep EXCEPT ![p].violations = @ + 1]
    /\ Refuse(p)
    /\ UNCHANGED <<sealed, delivered>>

RejectExhausted(p, f) ==
    /\ f.sid = Sid
    /\ f.seq = ep[p].inSeq
    /\ ~SeqLeft(ep[p].inSeq)
    /\ Refuse(p)
    /\ UNCHANGED <<ep, sealed, delivered>>

InSequence(p, f) ==
    /\ f.sid = Sid
    /\ f.seq = ep[p].inSeq
    /\ SeqLeft(ep[p].inSeq)

(* The counter moves and the pair is remembered BEFORE decryption.         *)
Admit(s, f) ==
    [s EXCEPT !.inSeq = @ + 1, !.seen = Remember(@, f.seq, f.id)]

(* aead::open fails, or parse_plaintext finds a tag that is not the type's. *)
RejectUnreadable(p, f) ==
    /\ InSequence(p, f)
    /\ ~(Opens(p, f) /\ f.ct.pt.tag = f.type)
    /\ ep' = [ep EXCEPT ![p] = Admit(@, f)]
    /\ Refuse(p)
    /\ UNCHANGED <<sealed, delivered>>

Acceptable(p, f) == InSequence(p, f) /\ Opens(p, f) /\ f.ct.pt.tag = f.type

HandUp(p, f) == delivered' = [delivered EXCEPT ![p] = Append(@, Inbound(f))]

(* A text message: acknowledged at once, then handed to the node.          *)
AcceptMessage(p, f) ==
    /\ Acceptable(p, f)
    /\ f.type = "Message"
    /\ SeqLeft(ep[p].outSeq)
    /\ ep' = [ep EXCEPT ![p] = AdvanceOut(Admit(@, f))]
    /\ \E id \in MsgIds :
        sealed' = [sealed EXCEPT
            ![p] = Append(@, Frame(p, ep[p].outSeq, id, AckText(f.id, f.seq)))]
    /\ HandUp(p, f)
    /\ UNCHANGED status

(* The `expect` in encrypt_ack: the message is lost with the process.      *)
AckPanics(p, f) ==
    /\ Acceptable(p, f)
    /\ f.type = "Message"
    /\ ~SeqLeft(ep[p].outSeq)
    /\ ep' = [ep EXCEPT ![p] = Admit(@, f)]
    /\ status' = [status EXCEPT ![p] = "panicked"]
    /\ UNCHANGED <<sealed, delivered>>

AcceptAckOrControl(p, f) ==
    /\ Acceptable(p, f)
    /\ f.type \in {"Ack", "Control"}
    /\ ep' = [ep EXCEPT ![p] = Admit(@, f)]
    /\ HandUp(p, f)
    /\ UNCHANGED <<status, sealed>>

HandleFrame(p, f) ==
    \/ RejectWrongSession(p, f)
    \/ RejectOutOfSequence(p, f)
    \/ RejectExhausted(p, f)
    \/ RejectUnreadable(p, f)
    \/ AcceptMessage(p, f)
    \/ AckPanics(p, f)
    \/ AcceptAckOrControl(p, f)

(* The connection closes: on_swarm_event removes the session.              *)
Disconnect(p) ==
    /\ status[p] = "open"
    /\ status' = [status EXCEPT ![p] = "closed"]
    /\ UNCHANGED <<ep, sealed, delivered>>

OnSessionFrame(p) ==
    /\ status[p] = "open"
    /\ \E f \in WireFrames : HandleFrame(p, f)

LocalStep(p) ==
    EncryptMessage(p) \/ EncryptControl(p) \/ ControlPanics(p) \/ Disconnect(p)

Next == \E p \in Ends : LocalStep(p) \/ OnSessionFrame(p)

Spec == Init /\ [][Next]_vars

-----------------------------------------------------------------------------
(* Properties.                                                             *)

Sessions ==
    [outSeq : SeqNums, inSeq : SeqNums, violations : Nat, seen : Seq(SeqNums \X MsgIds)]

SealedFrames ==
    {Frame(p, n, id, pt) : p \in Ends, n \in SeqNums, id \in MsgIds, pt \in Plaintexts}

(* Every variable keeps its type; the counters never pass u32::MAX and the *)
(* window of `remember` never holds more than SEEN_WINDOW pairs.           *)
TypeOK ==
    /\ ep \in [Ends -> Sessions]
    /\ \A p \in Ends : Len(ep[p].seen) <= SeenWindow
    /\ status \in [Ends -> {"open", "closed", "panicked"}]
    /\ sealed \in [Ends -> Seq(SealedFrames)]
    /\ delivered \in [Ends -> Seq([type : FrameTypes, seq : SeqNums, id : MsgIds, pt : Plaintexts])]

(* No key is ever used twice with the same nonce, by either end, through   *)
(* messages, acknowledgements and control frames together: the promise of  *)
(* the nonce policy at the head of session.rs.                             *)
NonceUnique ==
    \A p, q \in Ends : \A i \in DOMAIN sealed[p], j \in DOMAIN sealed[q] :
        /\ sealed[p][i].ct.key = sealed[q][j].ct.key
        /\ sealed[p][i].ct.nonce = sealed[q][j].ct.nonce
        => p = q /\ i = j

(* What an end has been handed is exactly the first Len(delivered) frames  *)
(* its peer sealed, in order, each once, none altered, whatever the wire   *)
(* did: in_seq moves before decryption, so this rests on the caller        *)
(* dropping the session at the first error.                                *)
InOrderExactlyOnce ==
    \A p \in Ends :
        /\ Len(delivered[p]) <= Len(sealed[Peer(p)])
        /\ \A i \in DOMAIN delivered[p] : delivered[p][i] = Inbound(sealed[Peer(p)][i])

(* An acknowledgement an end accepts names, by id and by sequence number,  *)
(* a message of its own that its peer has already been handed.             *)
AcksAreTruthful ==
    \A p \in Ends : \A i \in DOMAIN delivered[p] :
        delivered[p][i].type = "Ack" =>
            \E j \in DOMAIN delivered[Peer(p)] :
                /\ delivered[Peer(p)][j].type = "Message"
                /\ delivered[Peer(p)][j].id = delivered[p][i].pt.id
                /\ delivered[Peer(p)][j].seq = delivered[p][i].pt.ackSeq

-----------------------------------------------------------------------------
(* Refinement: the pair of Sessions is a secure channel.                   *)

Payload(f) == [id |-> f.id, pt |-> f.ct.pt]

Handed(e) == [id |-> e.id, pt |-> e.pt]

(* The logs of the channel: frames and Inbounds without their headers.     *)
SentLog(frames) == [i \in 1..Len(frames) |-> Payload(frames[i])]

ReceivedLog(inbounds) == [i \in 1..Len(inbounds) |-> Handed(inbounds[i])]

sentBar == [p \in Ends |-> SentLog(sealed[p])]

receivedBar == [p \in Ends |-> ReceivedLog(delivered[p])]

upBar == [p \in Ends |-> status[p] = "open"]

TextPayloads == {[id |-> i, pt |-> MsgText(b)] : i \in MsgIds, b \in Bodies}

CtlPayloads == {[id |-> i, pt |-> CtlText(c)] : i \in MsgIds, c \in Controls}

AckPayloads(m, n) == {[id |-> i, pt |-> AckText(m.id, n - 1)] : i \in MsgIds}

Channel ==
    INSTANCE SecureChannel WITH
        Text <- TextPayloads, Ctl <- CtlPayloads, Acks <- AckPayloads,
        sent <- sentBar, received <- receivedBar, up <- upBar

(* Every step of the session layer is a step of the FIFO channel or is     *)
(* invisible to its users.                                                 *)
ImplementsChannel == Channel!ChannelSpec
=============================================================================
