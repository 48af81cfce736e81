--------------------------- MODULE SessionProofs ---------------------------
(***************************************************************************)
(* For every u32 bound, window, set of texts and ids: the session layer's  *)
(* variables keep their types, no (key, nonce) pair is used twice, what an *)
(* end is handed is a prefix of what its peer sealed, its acknowledgements *)
(* are true, and the pair of sessions implements the channel of module     *)
(* SecureChannel.                                                          *)
(***************************************************************************)
EXTENDS Session, SequenceTheorems, TLAPS

(* Every frame an end sealed is the one its counter stood at.              *)
SealedByCounter ==
    \A p \in Ends :
        /\ Len(sealed[p]) = ep[p].outSeq
        /\ \A i \in 1..Len(sealed[p]) :
            \E id \in MsgIds, pt \in Plaintexts : sealed[p][i] = Frame(p, i - 1, id, pt)

(* Until its caller drops the session, an end has been handed one Inbound  *)
(* per sequence number it has spent.                                       *)
CursorAgrees ==
    \A p \in Ends : status[p] = "open" => ep[p].inSeq = Len(delivered[p])

IInv == TypeOK /\ SealedByCounter /\ CursorAgrees /\ InOrderExactlyOnce

-----------------------------------------------------------------------------
(* Facts about the operators.                                              *)

(* Two ends, each the other's peer.                                        *)
LEMMA PeerFacts ==
    ASSUME NEW p \in Ends
    PROVE  Peer(p) \in Ends /\ Peer(p) # p /\ Peer(Peer(p)) = p
BY EndsAssumption DEF Ends, Peer

(* The tag of a plaintext is one of the three session frame types.         *)
LEMMA PlaintextTag ==
    ASSUME NEW pt \in Plaintexts
    PROVE  pt.tag \in FrameTypes
BY DEF Plaintexts, FrameTypes, MsgText, AckText, CtlText

(* `remember` stays inside the window and keeps its elements' type.        *)
LEMMA RememberType ==
    ASSUME NEW s \in Seq(SeqNums \X MsgIds), Len(s) <= SeenWindow,
           NEW n \in SeqNums, NEW id \in MsgIds
    PROVE  /\ Remember(s, n, id) \in Seq(SeqNums \X MsgIds)
           /\ Len(Remember(s, n, id)) <= SeenWindow
<1>. DEFINE t == IF Len(s) >= SeenWindow THEN Tail(s) ELSE s
<1>1. t \in Seq(SeqNums \X MsgIds) /\ Len(t) < SeenWindow
  <2>1. CASE Len(s) >= SeenWindow
    <3>1. s # <<>> /\ Len(s) = SeenWindow
      BY <2>1, BoundsAssumption
    <3>2. Tail(s) \in Seq(SeqNums \X MsgIds) /\ Len(Tail(s)) = Len(s) - 1
      BY <3>1, BoundsAssumption
    <3>. QED
      BY <2>1, <3>1, <3>2, BoundsAssumption
  <2>2. CASE ~(Len(s) >= SeenWindow)
    BY <2>2, BoundsAssumption
  <2>. QED
    BY <2>1, <2>2
<1>2. <<n, id>> \in SeqNums \X MsgIds
  OBVIOUS
<1>3. /\ Append(t, <<n, id>>) \in Seq(SeqNums \X MsgIds)
      /\ Len(Append(t, <<n, id>>)) = Len(t) + 1
  <2>. HIDE DEF t
  <2>. QED
    BY <1>1, <1>2
<1>. QED
  BY <1>1, <1>3, BoundsAssumption DEF Remember

(* Admitting an in-sequence frame keeps a Session's type and moves in_seq. *)
LEMMA AdmitType ==
    ASSUME NEW s \in Sessions, Len(s.seen) <= SeenWindow, SeqLeft(s.inSeq),
           NEW f, f.seq \in SeqNums, f.id \in MsgIds
    PROVE  /\ Admit(s, f) \in Sessions
           /\ Len(Admit(s, f).seen) <= SeenWindow
           /\ Admit(s, f).inSeq = s.inSeq + 1
           /\ Admit(s, f).outSeq = s.outSeq
<1>1. s.seen \in Seq(SeqNums \X MsgIds) /\ s.inSeq \in SeqNums
  BY DEF Sessions
<1>2. /\ Remember(s.seen, f.seq, f.id) \in Seq(SeqNums \X MsgIds)
      /\ Len(Remember(s.seen, f.seq, f.id)) <= SeenWindow
  BY <1>1, RememberType
<1>3. s.inSeq + 1 \in SeqNums
  BY <1>1, BoundsAssumption DEF SeqNums, SeqLeft
<1>. QED
  BY <1>1, <1>2, <1>3 DEF Admit, Sessions

(* Sealing one more frame keeps a Session's type.                          *)
LEMMA AdvanceType ==
    ASSUME NEW s \in Sessions, SeqLeft(s.outSeq)
    PROVE  /\ AdvanceOut(s) \in Sessions
           /\ AdvanceOut(s).outSeq = s.outSeq + 1
           /\ AdvanceOut(s).inSeq = s.inSeq
           /\ AdvanceOut(s).seen = s.seen
<1>1. s.outSeq \in SeqNums /\ s.outSeq + 1 \in SeqNums
  BY BoundsAssumption DEF Sessions, SeqNums, SeqLeft
<1>. QED
  BY <1>1 DEF AdvanceOut, Sessions

(* A frame made from a counter value, an id and a plaintext is well typed. *)
LEMMA FrameType ==
    ASSUME NEW p \in Ends, NEW n \in SeqNums, NEW id \in MsgIds, NEW pt \in Plaintexts
    PROVE  Frame(p, n, id, pt) \in SealedFrames
BY DEF SealedFrames

(* What the wire may hand over: a typed header with a ciphertext that is   *)
(* garbage or was sealed by one of the ends.                               *)
LEMMA WireFrameFacts ==
    ASSUME NEW f \in WireFrames, TypeOK
    PROVE  /\ f.type \in FrameTypes /\ f.seq \in SeqNums /\ f.id \in MsgIds
           /\ f.ct = Garbage \/ \E q \in Ends : \E i \in 1..Len(sealed[q]) : f.ct = sealed[q][i].ct
<1>1. \A q \in Ends : DOMAIN sealed[q] = 1..Len(sealed[q])
  BY DEF TypeOK
<1>. QED
  BY <1>1 DEF WireFrames

(* The heart of the matter: a frame that opens is, header and plaintext,   *)
(* the frame the peer sealed at that sequence number.                      *)
LEMMA OpensMeansGenuine ==
    ASSUME TypeOK, SealedByCounter, NEW p \in Ends, NEW f \in WireFrames, Opens(p, f)
    PROVE  /\ f.seq + 1 \in 1..Len(sealed[Peer(p)])
           /\ Inbound(f) = Inbound(sealed[Peer(p)][f.seq + 1])
           /\ f.ct.pt \in Plaintexts
<1>0. PICK q \in Ends : \E i \in 1..Len(sealed[q]) : f.ct = sealed[q][i].ct
  BY WireFrameFacts DEF Opens
<1>1. PICK i \in 1..Len(sealed[q]) : f.ct = sealed[q][i].ct
  BY <1>0
<1>2. PICK id \in MsgIds, pt \in Plaintexts : sealed[q][i] = Frame(q, i - 1, id, pt)
  BY DEF SealedByCounter
<1>3. f.ct = [key |-> q, nonce |-> Nonce(q, i - 1), aad |-> Aad(pt.tag, i - 1, id), pt |-> pt]
  BY <1>1, <1>2 DEF Frame, Ciphertext
<1>4. q = Peer(p)
  BY <1>3 DEF Opens
<1>5. f.seq = i - 1 /\ f.type = pt.tag /\ f.id = id
  BY <1>3, <1>4 DEF Opens, Nonce, Aad
<1>6. i \in Nat /\ Len(sealed[q]) \in Nat
  BY DEF TypeOK
<1>7. f.seq + 1 = i
  BY <1>5, <1>6
<1>8. sealed[q][i].type = pt.tag /\ sealed[q][i].seq = i - 1 /\ sealed[q][i].id = id
  BY <1>2 DEF Frame
<1>9. Inbound(f) = Inbound(sealed[q][i])
  BY <1>1, <1>5, <1>8 DEF Inbound
<1>. QED
  BY <1>3, <1>4, <1>7, <1>9

-----------------------------------------------------------------------------
(* The two logs.  Both only ever grow at the end.                          *)

DeliveredType == Seq([type : FrameTypes, seq : SeqNums, id : MsgIds, pt : Plaintexts])

(* No sealed frame is taken back or changed by the step.                   *)
SealedExtends ==
    \A q \in Ends :
        /\ Len(sealed[q]) <= Len(sealed'[q])
        /\ \A i \in 1..Len(sealed[q]) : sealed'[q][i] = sealed[q][i]

(* Sealing one frame at the counter keeps the log numbered by the counter. *)
LEMMA SealedGrows ==
    ASSUME TypeOK, SealedByCounter, NEW p \in Ends, NEW id \in MsgIds, NEW pt \in Plaintexts,
           sealed' = [sealed EXCEPT ![p] = Append(@, Frame(p, ep[p].outSeq, id, pt))],
           ep'[p].outSeq = ep[p].outSeq + 1,
           \A q \in Ends : q # p => ep'[q].outSeq = ep[q].outSeq
    PROVE  sealed' \in [Ends -> Seq(SealedFrames)] /\ SealedByCounter' /\ SealedExtends
<1>. DEFINE fr == Frame(p, ep[p].outSeq, id, pt)
<1>1. ep[p].outSeq \in SeqNums /\ ep[p].outSeq \in Nat
  BY DEF TypeOK, Sessions, SeqNums
<1>2. fr \in SealedFrames
  BY <1>1, FrameType
<1>3. sealed[p] \in Seq(SealedFrames) /\ Len(sealed[p]) = ep[p].outSeq
  BY DEF TypeOK, SealedByCounter
<1>4. sealed' = [sealed EXCEPT ![p] = Append(@, fr)] /\ sealed'[p] = Append(sealed[p], fr)
  BY DEF TypeOK
<1>. HIDE DEF fr
<1>5. /\ Append(sealed[p], fr) \in Seq(SealedFrames)
      /\ Len(Append(sealed[p], fr)) = Len(sealed[p]) + 1
      /\ \A i \in 1..Len(sealed[p]) : Append(sealed[p], fr)[i] = sealed[p][i]
      /\ Append(sealed[p], fr)[Len(sealed[p]) + 1] = fr
  BY <1>2, <1>3
<1>6. sealed' \in [Ends -> Seq(SealedFrames)]
  BY <1>4, <1>5 DEF TypeOK
<1>7. SealedExtends
  <2>1. \A q \in Ends : q # p => sealed'[q] = sealed[q] /\ Len(sealed[q]) \in Nat
    BY <1>4 DEF TypeOK
  <2>. QED
    BY <2>1, <1>1, <1>3, <1>4, <1>5 DEF SealedExtends
<1>8. SealedByCounter'
  <2>. SUFFICES ASSUME NEW q \in Ends
                PROVE  /\ Len(sealed'[q]) = ep'[q].outSeq
                       /\ \A i \in 1..Len(sealed'[q]) : \E d \in MsgIds, t \in Plaintexts :
                            sealed'[q][i] = Frame(q, i - 1, d, t)
    BY DEF SealedByCounter
  <2>1. CASE q # p
    BY <1>4, <2>1 DEF TypeOK, SealedByCounter
  <2>2. CASE q = p
    <3>1. Len(sealed'[p]) = ep'[p].outSeq
      BY <1>3, <1>4, <1>5
    <3>2. ASSUME NEW i \in 1..Len(sealed'[p])
          PROVE  \E d \in MsgIds, t \in Plaintexts : sealed'[p][i] = Frame(p, i - 1, d, t)
      <4>1. CASE i \in 1..Len(sealed[p])
        BY <4>1, <1>4, <1>5 DEF SealedByCounter
      <4>2. CASE i = Len(sealed[p]) + 1
        <5>1. i - 1 = ep[p].outSeq
          BY <4>2, <1>1, <1>3
        <5>. QED
          BY <5>1, <4>2, <1>4, <1>5 DEF fr
      <4>. QED
        BY <4>1, <4>2, <1>1, <1>3, <1>4, <1>5
    <3>. QED
      BY <2>2, <3>1, <3>2
  <2>. QED
    BY <2>1, <2>2
<1>. QED
  BY <1>6, <1>7, <1>8

(* Growing sealed logs do not disturb what was delivered from them.        *)
LEMMA PrefixKept ==
    ASSUME TypeOK, InOrderExactlyOnce, SealedExtends, sealed' \in [Ends -> Seq(SealedFrames)],
           delivered' = delivered
    PROVE  InOrderExactlyOnce'
<1>. SUFFICES ASSUME NEW q \in Ends
              PROVE  /\ Len(delivered[q]) <= Len(sealed'[Peer(q)])
                     /\ \A i \in DOMAIN delivered[q] : delivered[q][i] = Inbound(sealed'[Peer(q)][i])
  BY DEF InOrderExactlyOnce
<1>1. /\ Peer(q) \in Ends /\ Len(delivered[q]) \in Nat /\ Len(sealed[Peer(q)]) \in Nat
      /\ DOMAIN delivered[q] = 1..Len(delivered[q]) /\ Len(sealed'[Peer(q)]) \in Nat
  BY PeerFacts DEF TypeOK
<1>. QED
  BY <1>1 DEF InOrderExactlyOnce, SealedExtends

(* Handing up an acceptable frame extends the delivered log by the next    *)
(* frame of the peer's.                                                    *)
LEMMA DeliveredGrows ==
    ASSUME IInv, NEW p \in Ends, NEW f \in WireFrames, status[p] = "open", Acceptable(p, f),
           HandUp(p, f), SealedExtends, sealed' \in [Ends -> Seq(SealedFrames)]
    PROVE  /\ delivered' \in [Ends -> DeliveredType]
           /\ Len(delivered'[p]) = f.seq + 1
           /\ \A q \in Ends : q # p => delivered'[q] = delivered[q]
           /\ InOrderExactlyOnce'
<1>. USE DEF IInv
<1>1. /\ f.type \in FrameTypes /\ f.seq \in SeqNums /\ f.id \in MsgIds /\ f.seq = ep[p].inSeq
  BY WireFrameFacts DEF Acceptable, InSequence
<1>2. /\ f.seq + 1 \in 1..Len(sealed[Peer(p)])
      /\ Inbound(f) = Inbound(sealed[Peer(p)][f.seq + 1])
      /\ f.ct.pt \in Plaintexts
  BY OpensMeansGenuine DEF Acceptable
<1>. DEFINE D == [type : FrameTypes, seq : SeqNums, id : MsgIds, pt : Plaintexts]
<1>3. Inbound(f) \in D
  BY <1>1, <1>2 DEF Inbound
<1>4. delivered[p] \in Seq(D) /\ Len(delivered[p]) = f.seq
  BY <1>1 DEF TypeOK, CursorAgrees
<1>5. delivered' = [delivered EXCEPT ![p] = Append(@, Inbound(f))]
  BY DEF HandUp
<1>. HIDE DEF D
<1>6. /\ Append(delivered[p], Inbound(f)) \in Seq(D)
      /\ Len(Append(delivered[p], Inbound(f))) = Len(delivered[p]) + 1
      /\ \A i \in 1..Len(delivered[p]) : Append(delivered[p], Inbound(f))[i] = delivered[p][i]
      /\ Append(delivered[p], Inbound(f))[Len(delivered[p]) + 1] = Inbound(f)
      /\ DOMAIN Append(delivered[p], Inbound(f)) = 1..(Len(delivered[p]) + 1)
  BY <1>3, <1>4
<1>7. delivered' \in [Ends -> DeliveredType]
  BY <1>5, <1>6 DEF TypeOK, D, DeliveredType
<1>8. /\ delivered'[p] = Append(delivered[p], Inbound(f))
      /\ \A q \in Ends : q # p => delivered'[q] = delivered[q]
  BY <1>5 DEF TypeOK
<1>9. Len(delivered'[p]) = f.seq + 1
  BY <1>4, <1>6, <1>8
<1>10. InOrderExactlyOnce'
  <2>. SUFFICES ASSUME NEW q \in Ends
                PROVE  /\ Len(delivered'[q]) <= Len(sealed'[Peer(q)])
                       /\ \A i \in DOMAIN delivered'[q] :
                            delivered'[q][i] = Inbound(sealed'[Peer(q)][i])
    BY DEF InOrderExactlyOnce
  <2>0. Peer(q) \in Ends /\ Len(sealed[Peer(q)]) \in Nat /\ Len(sealed'[Peer(q)]) \in Nat
    BY PeerFacts DEF TypeOK
  <2>1. CASE q # p
    <3>1. /\ delivered'[q] = delivered[q] /\ DOMAIN delivered[q] = 1..Len(delivered[q])
          /\ Len(delivered[q]) \in Nat
      BY <2>1, <1>8 DEF TypeOK
    <3>. QED
      BY <2>0, <3>1 DEF InOrderExactlyOnce, SealedExtends
  <2>2. CASE q = p
    <3>1. f.seq + 1 \in 1..Len(sealed'[Peer(p)]) /\ f.seq \in Nat
      BY <2>0, <2>2, <1>1, <1>2 DEF SealedExtends, SeqNums
    <3>2. ASSUME NEW i \in 1..(Len(delivered[p]) + 1)
          PROVE  delivered'[p][i] = Inbound(sealed'[Peer(p)][i])
      <4>0. sealed'[Peer(p)][i] = sealed[Peer(p)][i]
        BY <2>0, <2>2, <1>2, <1>4, <3>1 DEF SealedExtends
      <4>1. CASE i \in 1..Len(delivered[p])
        <5>1. delivered[p][i] = Inbound(sealed[Peer(p)][i])
          BY <4>1, <1>4 DEF InOrderExactlyOnce
        <5>. QED
          BY <5>1, <4>0, <4>1, <1>6, <1>8
      <4>2. CASE i = Len(delivered[p]) + 1
        BY <4>0, <4>2, <1>2, <1>4, <1>6, <1>8
      <4>. QED
        BY <4>1, <4>2, <1>4, <3>1
    <3>. QED
      BY <2>2, <3>1, <3>2, <1>6, <1>8, <1>9
  <2>. QED
    BY <2>1, <2>2
<1>. QED
  BY <1>7, <1>8, <1>9, <1>10

-----------------------------------------------------------------------------
(* The steps.                                                              *)

(* encrypt_message and the control frames: one frame sealed at p.          *)
LEMMA SealStep ==
    ASSUME IInv, NEW p \in Ends, NEW id \in MsgIds, NEW pt \in Plaintexts,
           SeqLeft(ep[p].outSeq), SealAndSend(p, id, pt)
    PROVE  IInv'
<1>. USE DEF IInv
<1>1. /\ ep' = [ep EXCEPT ![p] = AdvanceOut(@)] /\ status' = status /\ delivered' = delivered
  BY DEF SealAndSend
<1>2. /\ AdvanceOut(ep[p]) \in Sessions
      /\ AdvanceOut(ep[p]).outSeq = ep[p].outSeq + 1
      /\ AdvanceOut(ep[p]).inSeq = ep[p].inSeq
      /\ AdvanceOut(ep[p]).seen = ep[p].seen
  BY AdvanceType DEF TypeOK
<1>3. /\ ep'[p] = AdvanceOut(ep[p]) /\ \A q \in Ends : q # p => ep'[q] = ep[q]
  BY <1>1 DEF TypeOK
<1>4. sealed' \in [Ends -> Seq(SealedFrames)] /\ SealedByCounter' /\ SealedExtends
  BY <1>2, <1>3, SealedGrows DEF SealAndSend
<1>5. TypeOK'
  BY <1>1, <1>2, <1>4 DEF TypeOK
<1>6. CursorAgrees'
  BY <1>1, <1>2, <1>3 DEF CursorAgrees
<1>. QED
  BY <1>1, <1>4, <1>5, <1>6, PrefixKept

(* An end that stops: whatever became of its inbound counter, its log and  *)
(* its peer's are as before.                                               *)
LEMMA StopStep ==
    ASSUME IInv, NEW p \in Ends, NEW s \in Sessions, NEW st \in {"closed", "panicked"},
           s.outSeq = ep[p].outSeq, Len(s.seen) <= SeenWindow,
           ep' = [ep EXCEPT ![p] = s], status' = [status EXCEPT ![p] = st],
           UNCHANGED <<sealed, delivered>>
    PROVE  IInv'
<1>. USE DEF IInv
<1>1. TypeOK'
  BY DEF TypeOK
<1>2. SealedByCounter'
  BY DEF TypeOK, SealedByCounter
<1>3. CursorAgrees'
  BY DEF TypeOK, CursorAgrees
<1>4. InOrderExactlyOnce'
  BY DEF InOrderExactlyOnce
<1>. QED
  BY <1>1, <1>2, <1>3, <1>4

(* Each outcome of handle_frame, under the fail-closed caller.             *)
LEMMA FrameStep ==
    ASSUME IInv, NEW p \in Ends, NEW f \in WireFrames, status[p] = "open",
           HandleFrame(p, f)
    PROVE  IInv'
<1>. USE DEF IInv
<1>1. ep[p] \in Sessions /\ Len(ep[p].seen) <= SeenWindow /\ ep = [ep EXCEPT ![p] = ep[p]]
  BY DEF TypeOK
<1>2. f.type \in FrameTypes /\ f.seq \in SeqNums /\ f.id \in MsgIds
  BY WireFrameFacts
<1>3. ASSUME InSequence(p, f)
      PROVE  /\ Admit(ep[p], f) \in Sessions
             /\ Len(Admit(ep[p], f).seen) <= SeenWindow
             /\ Admit(ep[p], f).inSeq = ep[p].inSeq + 1
             /\ Admit(ep[p], f).outSeq = ep[p].outSeq
  BY <1>1, <1>2, <1>3, AdmitType DEF InSequence
<1>4. CASE RejectWrongSession(p, f)
  BY <1>1, <1>4, StopStep DEF RejectWrongSession, Refuse
<1>5. CASE RejectOutOfSequence(p, f)
  <2>. DEFINE s == [ep[p] EXCEPT !.violations = @ + 1]
  <2>1. s \in Sessions /\ s.outSeq = ep[p].outSeq /\ s.seen = ep[p].seen
    BY <1>1 DEF Sessions
  <2>2. ep' = [ep EXCEPT ![p] = s]
    BY <1>5 DEF RejectOutOfSequence, TypeOK
  <2>. HIDE DEF s
  <2>. QED
    BY <1>1, <1>5, <2>1, <2>2, StopStep DEF RejectOutOfSequence, Refuse
<1>6. CASE RejectExhausted(p, f)
  BY <1>1, <1>6, StopStep DEF RejectExhausted, Refuse
<1>7. CASE RejectUnreadable(p, f)
  BY <1>3, <1>7, StopStep DEF RejectUnreadable, Refuse
<1>8. CASE AckPanics(p, f)
  BY <1>3, <1>8, StopStep DEF AckPanics, Acceptable
<1>9. CASE AcceptAckOrControl(p, f)
  <2>1. /\ ep' = [ep EXCEPT ![p] = Admit(@, f)] /\ status' = status /\ sealed' = sealed
        /\ Acceptable(p, f) /\ HandUp(p, f) /\ InSequence(p, f) /\ f.seq = ep[p].inSeq
    BY <1>9 DEF AcceptAckOrControl, Acceptable, InSequence
  <2>2. SealedExtends /\ sealed' \in [Ends -> Seq(SealedFrames)]
    BY <2>1 DEF SealedExtends, TypeOK
  <2>3. /\ delivered' \in [Ends -> DeliveredType]
        /\ Len(delivered'[p]) = f.seq + 1
        /\ \A q \in Ends : q # p => delivered'[q] = delivered[q]
        /\ InOrderExactlyOnce'
    BY <2>1, <2>2, DeliveredGrows
  <2>4. TypeOK'
    BY <2>1, <2>3, <1>3 DEF TypeOK, DeliveredType
  <2>5. SealedByCounter'
    BY <2>1, <1>3 DEF TypeOK, SealedByCounter
  <2>6. CursorAgrees'
    BY <2>1, <2>3, <1>3 DEF TypeOK, CursorAgrees
  <2>. QED
    BY <2>3, <2>4, <2>5, <2>6
<1>10. CASE AcceptMessage(p, f)
  <2>1. /\ ep' = [ep EXCEPT ![p] = AdvanceOut(Admit(@, f))] /\ status' = status
        /\ Acceptable(p, f) /\ HandUp(p, f) /\ InSequence(p, f) /\ f.seq = ep[p].inSeq
        /\ SeqLeft(ep[p].outSeq)
    BY <1>10 DEF AcceptMessage, Acceptable, InSequence
  <2>2. /\ AdvanceOut(Admit(ep[p], f)) \in Sessions
        /\ AdvanceOut(Admit(ep[p], f)).outSeq = ep[p].outSeq + 1
        /\ AdvanceOut(Admit(ep[p], f)).inSeq = ep[p].inSeq + 1
        /\ Len(AdvanceOut(Admit(ep[p], f)).seen) <= SeenWindow
    BY <2>1, <1>3, AdvanceType
  <2>3. /\ ep'[p] = AdvanceOut(Admit(ep[p], f)) /\ \A q \in Ends : q # p => ep'[q] = ep[q]
    BY <2>1 DEF TypeOK
  <2>4. PICK id \in MsgIds :
          sealed' = [sealed EXCEPT
              ![p] = Append(@, Frame(p, ep[p].outSeq, id, AckText(f.id, f.seq)))]
    BY <1>10 DEF AcceptMessage
  <2>5. AckText(f.id, f.seq) \in Plaintexts
    BY <1>2 DEF Plaintexts
  <2>6. sealed' \in [Ends -> Seq(SealedFrames)] /\ SealedByCounter' /\ SealedExtends
    BY <2>2, <2>3, <2>4, <2>5, SealedGrows
  <2>7. /\ delivered' \in [Ends -> DeliveredType]
        /\ Len(delivered'[p]) = f.seq + 1
        /\ \A q \in Ends : q # p => delivered'[q] = delivered[q]
        /\ InOrderExactlyOnce'
    BY <2>1, <2>6, DeliveredGrows
  <2>8. TypeOK'
    BY <2>1, <2>2, <2>6, <2>7 DEF TypeOK, DeliveredType
  <2>9. CursorAgrees'
    BY <2>1, <2>2, <2>3, <2>7 DEF TypeOK, CursorAgrees
  <2>. QED
    BY <2>6, <2>7, <2>8, <2>9
<1>. QED
  BY <1>4, <1>5, <1>6, <1>7, <1>8, <1>9, <1>10 DEF HandleFrame

-----------------------------------------------------------------------------
(* The inductive invariant holds of every reachable state.                 *)
THEOREM InductiveInvariant == Spec => []IInv
<1>1. Init => IInv
  <2>. SUFFICES ASSUME Init PROVE IInv
    OBVIOUS
  <2>1. NewSession \in Sessions /\ NewSession.seen = <<>> /\ NewSession.outSeq = 0 /\ NewSession.inSeq = 0
    BY BoundsAssumption DEF NewSession, Sessions, SeqNums
  <2>2. TypeOK
    BY <2>1, BoundsAssumption DEF Init, TypeOK
  <2>3. SealedByCounter /\ CursorAgrees
    BY <2>1 DEF Init, SealedByCounter, CursorAgrees
  <2>4. InOrderExactlyOnce
    BY PeerFacts DEF Init, InOrderExactlyOnce
  <2>. QED
    BY <2>2, <2>3, <2>4 DEF IInv
<1>2. IInv /\ [Next]_vars => IInv'
  <2>. SUFFICES ASSUME IInv, [Next]_vars PROVE IInv'
    OBVIOUS
  <2>1. CASE UNCHANGED vars
    BY <2>1 DEF vars, IInv, TypeOK, SealedByCounter, CursorAgrees, InOrderExactlyOnce
  <2>2. ASSUME NEW p \in Ends, EncryptMessage(p) PROVE IInv'
    <3>1. \A b \in Bodies : MsgText(b) \in Plaintexts
      BY DEF Plaintexts
    <3>. QED
      BY <2>2, <3>1, SealStep DEF EncryptMessage
  <2>3. ASSUME NEW p \in Ends, EncryptControl(p) PROVE IInv'
    <3>1. \A c \in Controls : CtlText(c) \in Plaintexts
      BY DEF Plaintexts
    <3>. QED
      BY <2>3, <3>1, SealStep DEF EncryptControl
  <2>4. ASSUME NEW p \in Ends, ControlPanics(p) \/ Disconnect(p) PROVE IInv'
    <3>1. ep[p] \in Sessions /\ Len(ep[p].seen) <= SeenWindow /\ ep = [ep EXCEPT ![p] = ep[p]]
      BY DEF IInv, TypeOK
    <3>. QED
      BY <2>4, <3>1, StopStep DEF ControlPanics, Disconnect
  <2>5. ASSUME NEW p \in Ends, OnSessionFrame(p) PROVE IInv'
    BY <2>5, FrameStep DEF OnSessionFrame
  <2>. QED
    BY <2>1, <2>2, <2>3, <2>4, <2>5 DEF Next, LocalStep
<1>. QED
  BY <1>1, <1>2, PTL DEF Spec

(* Sequence counters stay below u32::MAX, the window of `remember` within  *)
(* SEEN_WINDOW, and every frame sealed or handed up is well formed.        *)
THEOREM TypeCorrect == Spec => []TypeOK
<1>1. IInv => TypeOK
  BY DEF IInv
<1>. QED
  BY <1>1, InductiveInvariant, PTL

(* Whatever the wire does, what the node is handed is a prefix of what the *)
(* peer sealed: nothing forged, altered, repeated, reordered or skipped.   *)
THEOREM DeliveryIsAPrefix == Spec => []InOrderExactlyOnce
<1>1. IInv => InOrderExactlyOnce
  BY DEF IInv
<1>. QED
  BY <1>1, InductiveInvariant, PTL

(* The nonce policy: messages, acks and control frames of both ends        *)
(* together never use a key twice with one nonce.                          *)
THEOREM NoncesNeverRepeat == Spec => []NonceUnique
<1>1. IInv => NonceUnique
  <2>. SUFFICES ASSUME IInv, NEW p \in Ends, NEW q \in Ends,
                       NEW i \in DOMAIN sealed[p], NEW j \in DOMAIN sealed[q],
                       sealed[p][i].ct.key = sealed[q][j].ct.key,
                       sealed[p][i].ct.nonce = sealed[q][j].ct.nonce
                PROVE  p = q /\ i = j
    BY DEF NonceUnique
  <2>1. i \in 1..Len(sealed[p]) /\ j \in 1..Len(sealed[q]) /\ i \in Nat /\ j \in Nat
    BY DEF IInv, TypeOK
  <2>2. PICK d \in MsgIds, t \in Plaintexts : sealed[p][i] = Frame(p, i - 1, d, t)
    BY <2>1 DEF IInv, SealedByCounter
  <2>3. PICK e \in MsgIds, u \in Plaintexts : sealed[q][j] = Frame(q, j - 1, e, u)
    BY <2>1 DEF IInv, SealedByCounter
  <2>4. /\ sealed[p][i].ct.key = p /\ sealed[p][i].ct.nonce = <<Dir(p), i - 1>>
        /\ sealed[q][j].ct.key = q /\ sealed[q][j].ct.nonce = <<Dir(q), j - 1>>
    BY <2>2, <2>3 DEF Frame, Ciphertext, Nonce
  <2>5. p = q
    BY <2>4
  <2>6. <<Dir(p), i - 1>> = <<Dir(q), j - 1>>
    BY <2>4
  <2>7. i - 1 = j - 1
    BY <2>6
  <2>. QED
    BY <2>1, <2>5, <2>7
<1>. QED
  BY <1>1, InductiveInvariant, PTL
-----------------------------------------------------------------------------
(* Acknowledgements.                                                       *)

(* The log of an end holds the message that the acknowledgement pt names.  *)
Names(log, pt) ==
    \E j \in 1..Len(log) :
        log[j].type = "Message" /\ log[j].id = pt.id /\ log[j].seq = pt.ackSeq

(* Every acknowledgement an end has sealed names a message it was handed.  *)
AcksNameDeliveries ==
    \A p \in Ends : \A i \in 1..Len(sealed[p]) :
        sealed[p][i].type = "Ack" => Names(delivered[p], sealed[p][i].ct.pt)

(* No delivered Inbound is taken back or changed by the step.              *)
DeliveredExtends ==
    \A q \in Ends :
        /\ Len(delivered[q]) \in Nat /\ Len(delivered'[q]) \in Nat
        /\ Len(delivered[q]) <= Len(delivered'[q])
        /\ \A i \in 1..Len(delivered[q]) : delivered'[q][i] = delivered[q][i]

(* A frame's type is the tag of its plaintext.                             *)
LEMMA FrameParts ==
    ASSUME NEW p, NEW n, NEW id, NEW pt
    PROVE  /\ Frame(p, n, id, pt).type = pt.tag /\ Frame(p, n, id, pt).ct.pt = pt
           /\ Frame(p, n, id, pt).id = id
BY DEF Frame, Ciphertext

(* A message once named stays named while the log only grows.              *)
LEMMA NamesGrows ==
    ASSUME DeliveredExtends, NEW q \in Ends, NEW pt, Names(delivered[q], pt)
    PROVE  Names(delivered'[q], pt)
<1>1. PICK j \in 1..Len(delivered[q]) :
        delivered[q][j].type = "Message" /\ delivered[q][j].id = pt.id /\ delivered[q][j].seq = pt.ackSeq
  BY DEF Names
<1>2. j \in 1..Len(delivered'[q]) /\ delivered'[q][j] = delivered[q][j]
  BY DEF DeliveredExtends
<1>. QED
  BY <1>1, <1>2 DEF Names

(* Nothing sealed: the acknowledgements are the old ones.                  *)
LEMMA AcksKept ==
    ASSUME AcksNameDeliveries, DeliveredExtends, sealed' = sealed
    PROVE  AcksNameDeliveries'
BY NamesGrows DEF AcksNameDeliveries

(* One frame sealed: it names a delivered message if it acknowledges one.  *)
LEMMA AcksGrow ==
    ASSUME TypeOK, AcksNameDeliveries, DeliveredExtends, NEW p \in Ends, NEW fr,
           sealed' = [sealed EXCEPT ![p] = Append(@, fr)],
           fr.type = "Ack" => Names(delivered'[p], fr.ct.pt)
    PROVE  AcksNameDeliveries'
<1>1. /\ sealed'[p] = Append(sealed[p], fr) /\ \A q \in Ends : q # p => sealed'[q] = sealed[q]
      /\ sealed[p] \in Seq(SealedFrames)
  BY DEF TypeOK
<1>2. /\ Len(sealed'[p]) = Len(sealed[p]) + 1 /\ Len(sealed[p]) \in Nat
      /\ \A i \in 1..Len(sealed[p]) : sealed'[p][i] = sealed[p][i]
      /\ sealed'[p][Len(sealed[p]) + 1] = fr
  BY <1>1
<1>. SUFFICES ASSUME NEW q \in Ends, NEW i \in 1..Len(sealed'[q]), sealed'[q][i].type = "Ack"
              PROVE  Names(delivered'[q], sealed'[q][i].ct.pt)
  BY DEF AcksNameDeliveries
<1>3. CASE q = p /\ i = Len(sealed[p]) + 1
  BY <1>2, <1>3
<1>4. CASE i \in 1..Len(sealed[q]) /\ sealed'[q][i] = sealed[q][i]
  BY <1>4, NamesGrows DEF AcksNameDeliveries
<1>5. CASE q # p
  BY <1>1, <1>4, <1>5
<1>. QED
  BY <1>2, <1>3, <1>4, <1>5

(* One Inbound handed up: the log of deliveries grows by it.               *)
LEMMA HandUpExtends ==
    ASSUME TypeOK, NEW p \in Ends, NEW f, HandUp(p, f), delivered' \in [Ends -> DeliveredType]
    PROVE  /\ DeliveredExtends
           /\ Len(delivered'[p]) = Len(delivered[p]) + 1
           /\ delivered'[p][Len(delivered[p]) + 1] = Inbound(f)
           /\ \A q \in Ends : q # p => delivered'[q] = delivered[q]
<1>. DEFINE e == Inbound(f)
<1>1. /\ delivered'[p] = Append(delivered[p], e)
      /\ \A q \in Ends : q # p => delivered'[q] = delivered[q]
      /\ \A q \in Ends : delivered[q] \in DeliveredType
  BY DEF HandUp, TypeOK, DeliveredType
<1>. HIDE DEF e
<1>2. /\ Len(delivered'[p]) = Len(delivered[p]) + 1
      /\ \A i \in 1..Len(delivered[p]) : delivered'[p][i] = delivered[p][i]
      /\ delivered'[p][Len(delivered[p]) + 1] = e
      /\ \A q \in Ends : Len(delivered[q]) \in Nat
  BY <1>1 DEF DeliveredType
<1>3. DeliveredExtends
  BY <1>1, <1>2 DEF DeliveredExtends
<1>. QED
  BY <1>1, <1>2, <1>3 DEF e

(* Every step keeps the acknowledgements truthful at the end that seals    *)
(* them: encrypt_ack is only called for the message being handed up.       *)
LEMMA AcksStep ==
    ASSUME IInv, IInv', AcksNameDeliveries, [Next]_vars
    PROVE  AcksNameDeliveries'
<1>0. ASSUME delivered' = delivered PROVE DeliveredExtends
  BY <1>0 DEF DeliveredExtends, IInv, TypeOK
<1>1. CASE UNCHANGED vars
  BY <1>0, <1>1, AcksKept DEF vars
<1>2. ASSUME NEW p \in Ends, EncryptMessage(p) \/ EncryptControl(p) PROVE AcksNameDeliveries'
  <2>1. /\ \A b \in Bodies : MsgText(b) \in Plaintexts
        /\ \A c \in Controls : CtlText(c) \in Plaintexts
    BY DEF Plaintexts
  <2>2. (\A b : MsgText(b).tag # "Ack") /\ (\A c : CtlText(c).tag # "Ack")
    BY DEF MsgText, CtlText
  <2>3. PICK id \in MsgIds, pt \in Plaintexts : SealAndSend(p, id, pt) /\ pt.tag # "Ack"
    BY <1>2, <2>1, <2>2 DEF EncryptMessage, EncryptControl
  <2>4. Frame(p, ep[p].outSeq, id, pt).type # "Ack"
    BY <2>3, FrameParts
  <2>. QED
    BY <1>0, <2>3, <2>4, AcksGrow DEF SealAndSend, IInv
<1>3. ASSUME NEW p \in Ends, NEW f \in WireFrames, AcceptMessage(p, f), status[p] = "open"
      PROVE  AcksNameDeliveries'
  <2>1. PICK id \in MsgIds :
          sealed' = [sealed EXCEPT
              ![p] = Append(@, Frame(p, ep[p].outSeq, id, AckText(f.id, f.seq)))]
    BY <1>3 DEF AcceptMessage
  <2>2. /\ DeliveredExtends
        /\ Len(delivered'[p]) = Len(delivered[p]) + 1
        /\ delivered'[p][Len(delivered[p]) + 1] = Inbound(f)
    BY <1>3, HandUpExtends DEF AcceptMessage, IInv, TypeOK, DeliveredType
  <2>3. Inbound(f).type = "Message" /\ Inbound(f).id = f.id /\ Inbound(f).seq = f.seq
    BY <1>3 DEF AcceptMessage, Inbound
  <2>4. Names(delivered'[p], AckText(f.id, f.seq))
    <3>1. Len(delivered[p]) + 1 \in 1..Len(delivered'[p])
      BY <2>2 DEF DeliveredExtends
    <3>2. AckText(f.id, f.seq).id = f.id /\ AckText(f.id, f.seq).ackSeq = f.seq
      BY DEF AckText
    <3>. QED
      BY <2>2, <2>3, <3>1, <3>2 DEF Names
  <2>5. Frame(p, ep[p].outSeq, id, AckText(f.id, f.seq)).ct.pt = AckText(f.id, f.seq)
    BY FrameParts
  <2>. QED
    BY <2>1, <2>2, <2>4, <2>5, AcksGrow DEF IInv
<1>4. ASSUME NEW p \in Ends, NEW f \in WireFrames, AcceptAckOrControl(p, f)
      PROVE  AcksNameDeliveries'
  <2>1. DeliveredExtends
    BY <1>4, HandUpExtends DEF AcceptAckOrControl, IInv, TypeOK, DeliveredType
  <2>. QED
    BY <1>4, <2>1, AcksKept DEF AcceptAckOrControl
<1>5. ASSUME sealed' = sealed, delivered' = delivered PROVE AcksNameDeliveries'
  BY <1>0, <1>5, AcksKept
<1>6. ASSUME NEW p \in Ends, ControlPanics(p) \/ Disconnect(p) PROVE AcksNameDeliveries'
  BY <1>5, <1>6 DEF ControlPanics, Disconnect
<1>7. ASSUME NEW p \in Ends, OnSessionFrame(p) PROVE AcksNameDeliveries'
  BY <1>3, <1>4, <1>5, <1>7 DEF OnSessionFrame, HandleFrame, RejectWrongSession,
     RejectOutOfSequence, RejectExhausted, RejectUnreadable, AckPanics
<1>. QED
  BY <1>1, <1>2, <1>6, <1>7 DEF Next, LocalStep

(* An acknowledgement accepted by an end is true: its peer has been handed *)
(* the very message, by id and sequence number, that the ack names.        *)
THEOREM AcksNeverLie == Spec => []AcksAreTruthful
<1>1. Init => AcksNameDeliveries
  BY DEF Init, AcksNameDeliveries
<1>2. IInv /\ IInv' /\ AcksNameDeliveries /\ [Next]_vars => AcksNameDeliveries'
  BY AcksStep
<1>3. IInv /\ AcksNameDeliveries => AcksAreTruthful
  <2>. SUFFICES ASSUME IInv, AcksNameDeliveries, NEW p \in Ends, NEW i \in DOMAIN delivered[p],
                       delivered[p][i].type = "Ack"
                PROVE  \E j \in DOMAIN delivered[Peer(p)] :
                          /\ delivered[Peer(p)][j].type = "Message"
                          /\ delivered[Peer(p)][j].id = delivered[p][i].pt.id
                          /\ delivered[Peer(p)][j].seq = delivered[p][i].pt.ackSeq
    BY DEF AcksAreTruthful
  <2>1. /\ Peer(p) \in Ends /\ i \in 1..Len(delivered[p]) /\ Len(delivered[p]) \in Nat
        /\ DOMAIN delivered[Peer(p)] = 1..Len(delivered[Peer(p)]) /\ Len(sealed[Peer(p)]) \in Nat
    BY PeerFacts DEF IInv, TypeOK
  <2>2. delivered[p][i] = Inbound(sealed[Peer(p)][i]) /\ i \in 1..Len(sealed[Peer(p)])
    BY <2>1 DEF IInv, InOrderExactlyOnce
  <2>3. /\ sealed[Peer(p)][i].type = "Ack" /\ delivered[p][i].pt = sealed[Peer(p)][i].ct.pt
    BY <2>2 DEF Inbound
  <2>4. Names(delivered[Peer(p)], delivered[p][i].pt)
    BY <2>1, <2>2, <2>3 DEF AcksNameDeliveries
  <2>. QED
    BY <2>1, <2>4 DEF Names
<1>. QED
  BY <1>1, <1>2, <1>3, InductiveInvariant, PTL DEF Spec

-----------------------------------------------------------------------------
(* The refinement of the FIFO channel.                                     *)

(* The log of payloads grows with the log of frames.                       *)
LEMMA SentLogAppend ==
    ASSUME NEW S, NEW s \in Seq(S), NEW x \in S
    PROVE  SentLog(Append(s, x)) = Append(SentLog(s), Payload(x))
<1>. DEFINE T == {Payload(y) : y \in S}
            u == Append(s, x)
<1>1. /\ u \in Seq(S) /\ Len(u) = Len(s) + 1 /\ Len(s) \in Nat
      /\ \A i \in 1..Len(s) : u[i] = s[i] /\ s[i] \in S
      /\ u[Len(s) + 1] = x
  OBVIOUS
<1>2. \A i \in 1..Len(u) : u[i] \in S
  BY <1>1
<1>. HIDE DEF u
<1>3. /\ SentLog(s) \in Seq(T) /\ Len(SentLog(s)) = Len(s)
      /\ \A i \in 1..Len(s) : SentLog(s)[i] = Payload(s[i])
  BY <1>1 DEF SentLog
<1>4. /\ SentLog(u) \in Seq(T) /\ Len(SentLog(u)) = Len(u)
      /\ \A i \in 1..Len(u) : SentLog(u)[i] = Payload(u[i])
  BY <1>1, <1>2 DEF SentLog
<1>5. Payload(x) \in T
  OBVIOUS
<1>. HIDE DEF T
<1>6. /\ Append(SentLog(s), Payload(x)) \in Seq(T)
      /\ Len(Append(SentLog(s), Payload(x))) = Len(s) + 1
      /\ \A i \in 1..Len(s) : Append(SentLog(s), Payload(x))[i] = SentLog(s)[i]
      /\ Append(SentLog(s), Payload(x))[Len(s) + 1] = Payload(x)
  BY <1>3, <1>5
<1>7. \A i \in 1..Len(SentLog(u)) : SentLog(u)[i] = Append(SentLog(s), Payload(x))[i]
  BY <1>1, <1>3, <1>4, <1>6
<1>8. SentLog(u) = Append(SentLog(s), Payload(x))
  BY <1>1, <1>4, <1>6, <1>7, SeqEqual
<1>. QED
  BY <1>8 DEF u

(* The log of what was handed up grows with the log of Inbounds.           *)
LEMMA ReceivedLogAppend ==
    ASSUME NEW S, NEW s \in Seq(S), NEW x \in S
    PROVE  ReceivedLog(Append(s, x)) = Append(ReceivedLog(s), Handed(x))
<1>. DEFINE T == {Handed(y) : y \in S}
            u == Append(s, x)
<1>1. /\ u \in Seq(S) /\ Len(u) = Len(s) + 1 /\ Len(s) \in Nat
      /\ \A i \in 1..Len(s) : u[i] = s[i] /\ s[i] \in S
      /\ u[Len(s) + 1] = x
  OBVIOUS
<1>2. \A i \in 1..Len(u) : u[i] \in S
  BY <1>1
<1>. HIDE DEF u
<1>3. /\ ReceivedLog(s) \in Seq(T) /\ Len(ReceivedLog(s)) = Len(s)
      /\ \A i \in 1..Len(s) : ReceivedLog(s)[i] = Handed(s[i])
  BY <1>1 DEF ReceivedLog
<1>4. /\ ReceivedLog(u) \in Seq(T) /\ Len(ReceivedLog(u)) = Len(u)
      /\ \A i \in 1..Len(u) : ReceivedLog(u)[i] = Handed(u[i])
  BY <1>1, <1>2 DEF ReceivedLog
<1>5. Handed(x) \in T
  OBVIOUS
<1>. HIDE DEF T
<1>6. /\ Append(ReceivedLog(s), Handed(x)) \in Seq(T)
      /\ Len(Append(ReceivedLog(s), Handed(x))) = Len(s) + 1
      /\ \A i \in 1..Len(s) : Append(ReceivedLog(s), Handed(x))[i] = ReceivedLog(s)[i]
      /\ Append(ReceivedLog(s), Handed(x))[Len(s) + 1] = Handed(x)
  BY <1>3, <1>5
<1>7. \A i \in 1..Len(ReceivedLog(u)) : ReceivedLog(u)[i] = Append(ReceivedLog(s), Handed(x))[i]
  BY <1>1, <1>3, <1>4, <1>6
<1>8. ReceivedLog(u) = Append(ReceivedLog(s), Handed(x))
  BY <1>1, <1>4, <1>6, <1>7, SeqEqual
<1>. QED
  BY <1>8 DEF u

(* Sealing a frame appends its payload to the log of the sender.           *)
LEMMA SealAppends ==
    ASSUME TypeOK, NEW p \in Ends, NEW id \in MsgIds, NEW pt \in Plaintexts,
           sealed' = [sealed EXCEPT ![p] = Append(@, Frame(p, ep[p].outSeq, id, pt))]
    PROVE  sentBar' = [sentBar EXCEPT ![p] = Append(@, [id |-> id, pt |-> pt])]
<1>. DEFINE fr == Frame(p, ep[p].outSeq, id, pt)
            m == [id |-> id, pt |-> pt]
<1>1. fr \in SealedFrames
  BY FrameType DEF TypeOK, Sessions
<1>2. Payload(fr) = m
  BY FrameParts DEF Payload
<1>3. /\ sealed'[p] = Append(sealed[p], fr) /\ \A q \in Ends : q # p => sealed'[q] = sealed[q]
      /\ sealed[p] \in Seq(SealedFrames)
  BY DEF TypeOK
<1>. HIDE DEF fr, m
<1>4. SentLog(sealed'[p]) = Append(SentLog(sealed[p]), m)
  BY <1>1, <1>2, <1>3, SentLogAppend
<1>5. ASSUME NEW q \in Ends
      PROVE  SentLog(sealed'[q]) = IF q = p THEN Append(SentLog(sealed[p]), m) ELSE SentLog(sealed[q])
  <2>1. CASE q = p
    BY <1>4, <2>1
  <2>2. CASE q # p
    <3>1. sealed'[q] = sealed[q]
      BY <1>3, <2>2
    <3>. QED
      BY <3>1, <2>2
  <2>. QED
    BY <2>1, <2>2
<1>6. sentBar' = [q \in Ends |-> IF q = p THEN Append(SentLog(sealed[p]), m) ELSE SentLog(sealed[q])]
  BY <1>5 DEF sentBar
<1>7. sentBar' = [sentBar EXCEPT ![p] = Append(@, m)]
  BY <1>6 DEF sentBar
<1>. QED
  BY <1>7 DEF m

(* The channel is empty when the session is new.                           *)
LEMMA InitRefines ==
    ASSUME Init PROVE Channel!ChannelInit
<1>1. SentLog(<<>>) = <<>> /\ ReceivedLog(<<>>) = <<>>
  BY DEF SentLog, ReceivedLog
<1>2. sentBar = [p \in Ends |-> <<>>]
  BY <1>1 DEF Init, sentBar
<1>3. receivedBar = [p \in Ends |-> <<>>]
  BY <1>1 DEF Init, receivedBar
<1>4. upBar = [p \in Ends |-> TRUE]
  BY DEF Init, upBar
<1>. QED
  BY <1>2, <1>3, <1>4 DEF Channel!ChannelInit, Channel!Ends, Ends

(* encrypt_message and the control frames are sends of the channel.        *)
LEMMA SendRefines ==
    ASSUME IInv, NEW p \in Ends, EncryptMessage(p) \/ EncryptControl(p)
    PROVE  Channel!Send(p)
<1>1. PICK id \in MsgIds, pt \in Plaintexts :
        /\ SealAndSend(p, id, pt)
        /\ \/ \E b \in Bodies : pt = MsgText(b)
           \/ \E c \in Controls : pt = CtlText(c)
  <2>1. /\ \A b \in Bodies : MsgText(b) \in Plaintexts
        /\ \A c \in Controls : CtlText(c) \in Plaintexts
    BY DEF Plaintexts
  <2>. QED
    BY <2>1 DEF EncryptMessage, EncryptControl
<1>. DEFINE m == [id |-> id, pt |-> pt]
<1>2. sentBar' = [sentBar EXCEPT ![p] = Append(@, m)]
  BY <1>1, SealAppends DEF SealAndSend, IInv
<1>3. receivedBar' = receivedBar /\ upBar' = upBar /\ upBar[p] = TRUE
  BY <1>1 DEF SealAndSend, receivedBar, upBar, EncryptMessage, EncryptControl
<1>4. m \in TextPayloads \cup CtlPayloads
  BY <1>1 DEF TextPayloads, CtlPayloads
<1>. HIDE DEF m
<1>5. upBar[p] /\ UNCHANGED <<receivedBar, upBar>>
  BY <1>3
<1>. QED
  BY <1>2, <1>4, <1>5, Zenon DEF Channel!Send

(* Dropping the session, for whatever reason, is a failure of the end.     *)
LEMMA FailRefines ==
    ASSUME IInv, NEW p \in Ends, NEW st \in {"closed", "panicked"}, status[p] = "open",
           status' = [status EXCEPT ![p] = st], UNCHANGED <<sealed, delivered>>
    PROVE  Channel!Fail(p)
<1>1. sentBar' = sentBar /\ receivedBar' = receivedBar
  BY DEF sentBar, receivedBar
<1>2. upBar[p] = TRUE
  BY DEF upBar
<1>3. upBar' = [upBar EXCEPT ![p] = FALSE]
  BY DEF upBar, IInv, TypeOK
<1>. QED
  BY <1>1, <1>2, <1>3 DEF Channel!Fail

(* Handing up an acceptable frame appends the peer's next payload to what  *)
(* the end has received; it is a text exactly if the frame is a message.   *)
LEMMA DeliveryFacts ==
    ASSUME IInv, IInv', NEW p \in Ends, NEW f \in WireFrames, status[p] = "open",
           Acceptable(p, f), HandUp(p, f), status' = status
    PROVE  /\ Len(receivedBar[p]) = f.seq /\ f.seq \in Nat
           /\ f.seq + 1 <= Len(sentBar[Peer(p)])
           /\ sentBar[Peer(p)][f.seq + 1] = [id |-> f.id, pt |-> f.ct.pt]
           /\ receivedBar' = [receivedBar EXCEPT ![p] = Append(@, [id |-> f.id, pt |-> f.ct.pt])]
           /\ [id |-> f.id, pt |-> f.ct.pt] \in TextPayloads <=> f.type = "Message"
           /\ upBar[p] /\ upBar' = upBar
<1>. DEFINE m == [id |-> f.id, pt |-> f.ct.pt]
            n == f.seq + 1
<1>1. /\ n \in 1..Len(sealed[Peer(p)])
      /\ Inbound(f) = Inbound(sealed[Peer(p)][n])
      /\ f.ct.pt \in Plaintexts
  BY OpensMeansGenuine DEF Acceptable, IInv
<1>2. f.seq = Len(delivered[p]) /\ f.seq \in Nat /\ f.id \in MsgIds /\ f.type = f.ct.pt.tag
      /\ f.type \in FrameTypes
  BY WireFrameFacts DEF Acceptable, InSequence, IInv, CursorAgrees, SeqNums
<1>3. /\ Peer(p) \in Ends /\ \A q \in Ends : sealed[q] \in Seq(SealedFrames)
      /\ \A q \in Ends : delivered[q] \in DeliveredType /\ delivered'[q] \in DeliveredType
  BY PeerFacts DEF IInv, TypeOK, DeliveredType
<1>4. Payload(sealed[Peer(p)][n]) = m
  BY <1>1 DEF Inbound, Payload
<1>5. /\ Len(sentBar[Peer(p)]) = Len(sealed[Peer(p)])
      /\ sentBar[Peer(p)][n] = Payload(sealed[Peer(p)][n])
  BY <1>1, <1>3 DEF sentBar, SentLog
<1>6. Len(receivedBar[p]) = f.seq
  BY <1>2, <1>3 DEF receivedBar, ReceivedLog, DeliveredType
<1>7. receivedBar' = [receivedBar EXCEPT ![p] = Append(@, m)]
  <2>. DEFINE D == [type : FrameTypes, seq : SeqNums, id : MsgIds, pt : Plaintexts]
              e == Inbound(f)
  <2>1. e \in D
    BY <1>1, <1>2, WireFrameFacts DEF Inbound, IInv
  <2>2. Handed(e) = m
    BY DEF Handed, Inbound
  <2>3. delivered[p] \in Seq(D)
    BY <1>3 DEF DeliveredType
  <2>4. /\ delivered'[p] = Append(delivered[p], e)
        /\ \A q \in Ends : q # p => delivered'[q] = delivered[q]
    BY DEF HandUp, IInv, TypeOK
  <2>. HIDE DEF D, e, m
  <2>5. ReceivedLog(delivered'[p]) = Append(ReceivedLog(delivered[p]), m)
    BY <2>1, <2>2, <2>3, <2>4, ReceivedLogAppend
  <2>6. ASSUME NEW q \in Ends
        PROVE  ReceivedLog(delivered'[q]) =
                 IF q = p THEN Append(ReceivedLog(delivered[p]), m) ELSE ReceivedLog(delivered[q])
    <3>1. CASE q = p
      BY <2>5, <3>1
    <3>2. CASE q # p
      <4>1. delivered'[q] = delivered[q]
        BY <2>4, <3>2
      <4>. QED
        BY <3>2, <4>1
    <3>. QED
      BY <3>1, <3>2
  <2>7. receivedBar' = [q \in Ends |-> IF q = p THEN Append(ReceivedLog(delivered[p]), m)
                                                ELSE ReceivedLog(delivered[q])]
    BY <2>6 DEF receivedBar
  <2>. QED
    BY <2>7 DEF receivedBar
<1>8. m \in TextPayloads <=> f.type = "Message"
  <2>1. ASSUME f.type = "Message" PROVE \E b \in Bodies : f.ct.pt = MsgText(b)
    <3>1. \/ \E b \in Bodies : f.ct.pt = MsgText(b)
          \/ \E id \in MsgIds, k \in SeqNums : f.ct.pt = AckText(id, k)
          \/ \E c \in Controls : f.ct.pt = CtlText(c)
      BY <1>1 DEF Plaintexts
    <3>2. \A id, k : AckText(id, k).tag # "Message"
      BY DEF AckText
    <3>3. \A c : CtlText(c).tag # "Message"
      BY DEF CtlText
    <3>. QED
      BY <3>1, <3>2, <3>3, <2>1, <1>2
  <2>2. ASSUME NEW b \in Bodies, f.ct.pt = MsgText(b) PROVE f.type = "Message"
    BY <1>2, <2>2 DEF MsgText
  <2>3. ASSUME NEW b \in Bodies, f.ct.pt = MsgText(b) PROVE m \in TextPayloads
    <3>1. m = [id |-> f.id, pt |-> MsgText(b)]
      BY <2>3
    <3>. HIDE DEF m
    <3>. QED
      BY <1>2, <3>1 DEF TextPayloads
  <2>4. ASSUME m \in TextPayloads PROVE \E b \in Bodies : f.ct.pt = MsgText(b)
    <3>1. PICK i \in MsgIds, b \in Bodies : m = [id |-> i, pt |-> MsgText(b)]
      BY <2>4 DEF TextPayloads
    <3>2. m.pt = f.ct.pt
      OBVIOUS
    <3>3. m.pt = MsgText(b)
      <4>. HIDE DEF m
      <4>. QED
        BY <3>1
    <3>. QED
      BY <3>2, <3>3
  <2>. QED
    BY <2>1, <2>2, <2>3, <2>4
<1>9. upBar[p] /\ upBar' = upBar
  BY DEF upBar
<1>. QED
  BY <1>1, <1>2, <1>4, <1>5, <1>6, <1>7, <1>8, <1>9

(* Accepting a frame is a delivery of the channel, the acknowledgement of  *)
(* a message with it.                                                      *)
LEMMA DeliverRefines ==
    ASSUME IInv, IInv', NEW p \in Ends, NEW f \in WireFrames, status[p] = "open",
           AcceptMessage(p, f) \/ AcceptAckOrControl(p, f)
    PROVE  Channel!Deliver(p)
<1>. DEFINE m == [id |-> f.id, pt |-> f.ct.pt]
<1>1. /\ Len(receivedBar[p]) = f.seq /\ f.seq \in Nat
      /\ f.seq + 1 <= Len(sentBar[Peer(p)])
      /\ sentBar[Peer(p)][f.seq + 1] = m
      /\ receivedBar' = [receivedBar EXCEPT ![p] = Append(@, m)]
      /\ m \in TextPayloads <=> f.type = "Message"
      /\ upBar[p] /\ upBar' = upBar
  BY DeliveryFacts DEF AcceptMessage, AcceptAckOrControl
<1>2. Channel!Peer(p) = Peer(p)
  BY DEF Channel!Peer, Peer
<1>3. IF m \in TextPayloads
      THEN \E a \in AckPayloads(m, f.seq + 1) : sentBar' = [sentBar EXCEPT ![p] = Append(@, a)]
      ELSE sentBar' = sentBar
  <2>1. CASE AcceptMessage(p, f)
    <3>1. m \in TextPayloads
      BY <1>1, <2>1 DEF AcceptMessage
    <3>2. PICK id \in MsgIds :
            sealed' = [sealed EXCEPT
                ![p] = Append(@, Frame(p, ep[p].outSeq, id, AckText(f.id, f.seq)))]
      BY <2>1 DEF AcceptMessage
    <3>3. AckText(f.id, f.seq) \in Plaintexts
      BY WireFrameFacts DEF Plaintexts, IInv
    <3>4. sentBar' = [sentBar EXCEPT ![p] = Append(@, [id |-> id, pt |-> AckText(f.id, f.seq)])]
      BY <3>2, <3>3, SealAppends DEF IInv
    <3>5. [id |-> id, pt |-> AckText(f.id, f.seq)] \in AckPayloads(m, f.seq + 1)
      <4>1. (f.seq + 1) - 1 = f.seq /\ m.id = f.id
        BY <1>1
      <4>. QED
        BY <4>1 DEF AckPayloads
    <3>. QED
      BY <3>1, <3>4, <3>5, Zenon
  <2>2. CASE AcceptAckOrControl(p, f)
    <3>1. f.type # "Message" /\ sealed' = sealed
      BY <2>2 DEF AcceptAckOrControl
    <3>. QED
      BY <1>1, <3>1 DEF sentBar
  <2>. QED
    BY <2>1, <2>2
<1>. HIDE DEF m
<1>4. f.seq + 1 = Len(receivedBar[p]) + 1
  BY <1>1
<1>. QED
  BY <1>1, <1>2, <1>3, <1>4, Zenon DEF Channel!Deliver

(* The pair of sessions implements the FIFO channel: every step is one of  *)
(* the channel's or changes nothing its users see.                         *)
THEOREM Refinement == Spec => ImplementsChannel
<1>1. Init => Channel!ChannelInit
  BY InitRefines
<1>2. IInv /\ IInv' /\ [Next]_vars => [Channel!ChannelNext]_(Channel!cvars)
  <2>. SUFFICES ASSUME IInv, IInv', [Next]_vars
                PROVE  Channel!ChannelNext \/ UNCHANGED Channel!cvars
    OBVIOUS
  <2>0. Channel!Ends = Ends
    BY DEF Channel!Ends, Ends
  <2>1. CASE UNCHANGED vars
    BY <2>1 DEF vars, Channel!cvars, sentBar, receivedBar, upBar
  <2>2. ASSUME NEW p \in Ends, EncryptMessage(p) \/ EncryptControl(p) PROVE Channel!ChannelNext
    BY <2>0, <2>2, SendRefines DEF Channel!ChannelNext
  <2>3. ASSUME NEW p \in Ends, ControlPanics(p) \/ Disconnect(p) PROVE Channel!ChannelNext
    <3>1. Channel!Fail(p)
      BY <2>3, FailRefines DEF ControlPanics, Disconnect
    <3>. QED
      BY <2>0, <3>1 DEF Channel!ChannelNext
  <2>4. ASSUME NEW p \in Ends, OnSessionFrame(p) PROVE Channel!ChannelNext
    <3>1. PICK f \in WireFrames : HandleFrame(p, f)
      BY <2>4 DEF OnSessionFrame
    <3>2. status[p] = "open"
      BY <2>4 DEF OnSessionFrame
    <3>3. CASE AcceptMessage(p, f) \/ AcceptAckOrControl(p, f)
      BY <2>0, <3>2, <3>3, DeliverRefines DEF Channel!ChannelNext
    <3>4. CASE ~(AcceptMessage(p, f) \/ AcceptAckOrControl(p, f))
      <4>1. /\ UNCHANGED <<sealed, delivered>>
            /\ \/ status' = [status EXCEPT ![p] = "closed"]
               \/ status' = [status EXCEPT ![p] = "panicked"]
        BY <3>1, <3>4 DEF HandleFrame, RejectWrongSession, RejectOutOfSequence, RejectExhausted,
           RejectUnreadable, AckPanics, Refuse
      <4>2. Channel!Fail(p)
        BY <3>2, <4>1, FailRefines
      <4>. QED
        BY <2>0, <4>2 DEF Channel!ChannelNext
    <3>. QED
      BY <3>3, <3>4
  <2>. QED
    BY <2>1, <2>2, <2>3, <2>4 DEF Next, LocalStep
<1>. QED
  BY <1>1, <1>2, InductiveInvariant, PTL DEF Spec, ImplementsChannel, Channel!ChannelSpec
=============================================================================
