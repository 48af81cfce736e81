-------------------------- MODULE HandshakeProofs --------------------------
(***************************************************************************)
(* Whatever the wire does to how many frames, an established end has the   *)
(* device it dialed at the other end, and the same session as that device. *)
(***************************************************************************)
EXTENDS Handshake, SequenceTheorems, TLAPS

FrameTypes == {"Hello", "KemOffer", "KemResponse", "Auth", "Ready"}

Frames ==
    [type : FrameTypes, pay : {Malformed}]
        \cup [type : {"Hello"}, pay : Hellos] \cup [type : {"KemOffer"}, pay : Offers]
        \cup [type : {"KemResponse"}, pay : Responses]
        \cup [type : {"Auth"}, pay : Signatures] \cup [type : {"Ready"}, pay : SessionIds]

States ==
    [myHello : Hellos, peerId : Ids \cup {None}, peerHello : Hellos \cup {None},
     myOffer : Offers \cup {None}, peerOffer : Offers \cup {None},
     myResponse : Responses \cup {None}, peerResponse : Responses \cup {None},
     transcript : Transcripts \cup {None}, keys : Keys \cup {None},
     authOk : BOOLEAN, ready : SessionIds \cup {None}]

Types ==
    /\ expected \in [Ends -> Ids \cup {None}]
    /\ status \in [Ends -> {"running", "established", "failed"}]
    /\ faults \in 0..MaxFaults
    /\ hs \in [Ends -> States]
    /\ chan \in [Ends -> Seq(Frames)]

(* The keys finish_kem makes of what the Handshake s of end p holds.       *)
DerivedKeys(p, s) ==
    DeriveKeys(CombineSharedSecrets(p, s.peerId, Secret(s.myResponse),
                                    Decapsulate(s.myOffer, s.peerResponse)),
               BuildTranscript(p, s.peerId, s))

(* The fields of the Handshake s of end p, which asked for x, fill up in   *)
(* step, and what is derived is derived from the payloads that are there.  *)
InStep(p, s, x) ==
    /\ s.myHello = Hello(p)
    /\ (s.peerHello = None) <=> (s.myOffer = None)
    /\ (s.peerHello = None) <=> (s.peerId = None)
    /\ (s.peerOffer = None) <=> (s.myResponse = None)
    /\ (s.transcript = None) <=> (s.keys = None)
    /\ s.peerHello # None => s.peerId = s.peerHello.id /\ x \in {None, s.peerId}
    /\ s.myOffer # None => s.myOffer = Offer(p)
    /\ s.myResponse # None => s.myResponse = Response(p, s.peerOffer)
    /\ s.peerOffer # None => s.peerHello # None
    /\ s.peerResponse # None => s.peerHello # None
    /\ s.transcript # None =>
        /\ s.myResponse # None /\ s.peerResponse # None
        /\ s.transcript = BuildTranscript(p, s.peerId, s)
        /\ s.keys = DerivedKeys(p, s)
    /\ s.authOk => s.transcript # None

FieldsInStep == \A p \in Ends : InStep(p, hs[p], expected[p])

(* What the stream from end q in state s can carry: the wire can spoil a   *)
(* signature or a session id, never make one.                              *)
Honest(q, s) ==
    {f \in Frames :
        f.pay # Malformed =>
            /\ f.type = "Auth" => s.transcript # None /\ f.pay = Signature(q, s.transcript)
            /\ f.type = "Ready" => s.authOk /\ f.pay = SessionId(s.keys)}

WireIsHonest == \A p \in Ends : chan[p] \in Seq(Honest(Peer(p), hs[Peer(p)]))

(* How many frames an end in state s has sent.                             *)
Sent(s) ==
    1 + (IF s.myOffer # None THEN 1 ELSE 0) + (IF s.myResponse # None THEN 1 ELSE 0)
      + (IF s.transcript # None THEN 1 ELSE 0) + (IF s.authOk THEN 1 ELSE 0)

WireIsShort == \A p \in Ends : Len(chan[p]) <= Sent(hs[Peer(p)]) + faults

(* An end that has accepted a signature has the signer's transcript.       *)
SignedIsShared ==
    \A p \in Ends : hs[p].authOk =>
        hs[p].peerId = Peer(p) /\ hs[Peer(p)].transcript = hs[p].transcript

(* An end that has accepted a session id has it from a peer that accepted  *)
(* its own signature.                                                      *)
SettledIsShared ==
    \A p \in Ends : status[p] = "established" =>
        hs[p].authOk /\ hs[Peer(p)].authOk /\ hs[Peer(p)].keys = hs[p].keys

HandshakeInv ==
    /\ Types /\ FieldsInStep /\ WireIsHonest /\ WireIsShort
    /\ SignedIsShared /\ SettledIsShared

(* What an end has derived, signed or verified stays.                      *)
Later(s, t) ==
    /\ s.transcript # None => t.transcript = s.transcript /\ t.keys = s.keys
    /\ s.authOk => t.authOk

-----------------------------------------------------------------------------
(* Facts about ends, sequences and records.                                *)

(* There are two ends, each the other's peer.                              *)
LEMMA TwoEnds ==
    ASSUME NEW p \in Ends
    PROVE  /\ Peer(p) \in Ends /\ Peer(p) # p /\ Peer(Peer(p)) = p
           /\ \A q \in Ends : q = p \/ q = Peer(p)
BY IdentityAssumption DEF Ends, Peer

(* A term is not None.                                                     *)
LEMMA Terms ==
    /\ \A x \in Hellos : x # None /\ x # Malformed
    /\ \A x \in Offers : x # None /\ x # Malformed
    /\ \A x \in Responses : x # None /\ x # Malformed
    /\ \A x \in Transcripts : x # None
    /\ \A x \in Keys : x # None
    /\ \A x \in Signatures : x # Malformed
    /\ \A x \in SessionIds : x # None /\ x # Malformed
    /\ \A x \in Ids : x # None
<1>1. \A x \in Ids : x # None
  BY IdentityAssumption DEF Ids
<1>2. /\ None \notin Hellos /\ None \notin Offers /\ None \notin Responses
      /\ None \notin Transcripts /\ None \notin Keys /\ None \notin SessionIds
      /\ Malformed \notin Hellos /\ Malformed \notin Offers /\ Malformed \notin Responses
      /\ Malformed \notin Signatures /\ Malformed \notin SessionIds
  BY TermsAssumption
<1>. QED
  BY <1>1, <1>2

(* A stream of frames of S is one of any larger set.                       *)
LEMMA SeqGrows ==
    ASSUME NEW S, NEW T, S \subseteq T, NEW q \in Seq(S)
    PROVE  q \in Seq(T)
OBVIOUS

(* The first frame of a stream, the others, and another one behind them.   *)
LEMMA SeqFacts ==
    ASSUME NEW S, NEW q \in Seq(S), q # <<>>
    PROVE  /\ Head(q) \in S /\ Tail(q) \in Seq(S)
           /\ Len(q) \in Nat \ {0} /\ Len(Tail(q)) = Len(q) - 1
OBVIOUS

(* A stream can only come to carry more.                                   *)
LEMMA HonestGrows ==
    ASSUME NEW q, NEW s, NEW t, Later(s, t), s.authOk => s.transcript # None
    PROVE  Honest(q, s) \subseteq Honest(q, t)
BY DEF Honest, Later

(* What is added to a stream was added to what its sender has sent.        *)
LEMMA Adds ==
    ASSUME NEW a \in Nat, NEW b \in Nat, NEW c \in Nat, NEW d \in Nat, NEW e \in Nat,
           a <= b + e, b + c <= d
    PROVE  a + c <= d + e
OBVIOUS

(* Taking a frame off one stream and putting some on the other.            *)
LEMMA ConsumeFacts ==
    ASSUME NEW p \in Ends, NEW out, DOMAIN chan = Ends, Consume(p, out)
    PROVE  /\ chan'[p] = Tail(chan[p])
           /\ chan'[Peer(p)] = chan[Peer(p)] \o out
           /\ DOMAIN chan' = Ends
BY TwoEnds DEF Consume

(* How many frames were sent, as a number.                                 *)
LEMMA SentType ==
    ASSUME NEW s \in States
    PROVE  Sent(s) \in Nat /\ Sent(s) <= 5
BY DEF Sent, States

(* A step of end p to state t that takes a frame off its stream and sends  *)
(* `out`: the invariant is kept if t is in step, follows on what p was,    *)
(* counts what was sent and, where it has verified something, agrees with  *)
(* the peer.                                                               *)
LEMMA LocalStep ==
    ASSUME HandshakeInv, NEW p \in Ends, NEW t \in States, NEW out \in Seq(Honest(p, t)),
           chan[p] # <<>>, Consume(p, out),
           expected' = expected, faults' = faults,
           status' \in [Ends -> {"running", "established", "failed"}],
           status'[Peer(p)] = status[Peer(p)],
           hs' \in [Ends -> States], hs'[p] = t, hs'[Peer(p)] = hs[Peer(p)],
           Later(hs[p], t), InStep(p, t, expected[p]),
           Sent(hs[p]) + Len(out) <= Sent(t),
           t.authOk => t.peerId = Peer(p) /\ hs[Peer(p)].transcript = t.transcript,
           status'[p] = "established" =>
               t.authOk /\ hs[Peer(p)].authOk /\ hs[Peer(p)].keys = t.keys
    PROVE  HandshakeInv'
<1>0. /\ Types /\ FieldsInStep /\ WireIsHonest /\ WireIsShort /\ SignedIsShared /\ SettledIsShared
      /\ Peer(p) \in Ends /\ Peer(p) # p /\ Peer(Peer(p)) = p /\ \A q \in Ends : q = p \/ q = Peer(p)
  BY TwoEnds DEF HandshakeInv
<1>1. chan'[p] = Tail(chan[p]) /\ chan'[Peer(p)] = chan[Peer(p)] \o out /\ DOMAIN chan' = Ends
  BY <1>0, ConsumeFacts DEF Types
<1>2. InStep(p, hs[p], expected[p]) /\ InStep(Peer(p), hs[Peer(p)], expected[Peer(p)])
  BY <1>0 DEF FieldsInStep
<1>3. chan'[p] \in Seq(Honest(Peer(p), hs[Peer(p)]))
  <2>1. chan[p] \in Seq(Honest(Peer(p), hs[Peer(p)]))
    BY <1>0 DEF WireIsHonest
  <2>2. ASSUME NEW S, NEW c \in Seq(S), c # <<>> PROVE Tail(c) \in Seq(S)
    BY <2>2
  <2>3. Tail(chan[p]) \in Seq(Honest(Peer(p), hs[Peer(p)]))
    BY <2>1, <2>2
  <2>. QED
    BY <1>1, <2>3
<1>4. chan'[Peer(p)] \in Seq(Honest(p, t))
  <2>1. Honest(p, hs[p]) \subseteq Honest(p, t)
    BY <1>2, HonestGrows DEF InStep
  <2>2. chan[Peer(p)] \in Seq(Honest(p, hs[p]))
    BY <1>0 DEF WireIsHonest
  <2>3. chan[Peer(p)] \in Seq(Honest(p, t))
    BY <2>1, <2>2, SeqGrows
  <2>. QED
    BY <1>1, <2>3
<1>5. Types'
  <2>1. \A q, s : Honest(q, s) \subseteq Frames
    BY DEF Honest
  <2>2. chan'[p] \in Seq(Frames) /\ chan'[Peer(p)] \in Seq(Frames)
    <3>1. chan'[p] \in Seq(Frames)
      BY <1>3, <2>1, SeqGrows
    <3>2. chan'[Peer(p)] \in Seq(Frames)
      BY <1>4, <2>1, SeqGrows
    <3>. QED
      BY <3>1, <3>2
  <2>3. chan' \in [Ends -> Seq(Frames)]
    <3>1. \A q \in Ends : chan'[q] \in Seq(Frames)
      BY <1>0, <2>2
    <3>. QED
      BY <1>0, <1>1, <3>1 DEF Consume, Types
  <2>. QED
    BY <1>0, <2>3 DEF Types
<1>6. FieldsInStep'
  BY <1>0, <1>2 DEF FieldsInStep
<1>7. WireIsHonest'
  BY <1>0, <1>3, <1>4 DEF WireIsHonest
<1>8. WireIsShort'
  <2>1. /\ Sent(hs[p]) \in Nat /\ Sent(t) \in Nat /\ Sent(hs[Peer(p)]) \in Nat /\ faults \in Nat
        /\ chan[p] \in Seq(Frames) /\ chan[Peer(p)] \in Seq(Frames)
    BY <1>0, SentType DEF Types
  <2>2. Len(chan'[p]) <= Len(chan[p])
    BY <1>1, <2>1
  <2>3. Len(chan'[Peer(p)]) = Len(chan[Peer(p)]) + Len(out)
    BY <1>1, <2>1
  <2>4. Len(chan[p]) <= Sent(hs[Peer(p)]) + faults /\ Len(chan[Peer(p)]) <= Sent(hs[p]) + faults
    BY <1>0 DEF WireIsShort
  <2>5. Len(chan[p]) \in Nat /\ Len(chan[Peer(p)]) \in Nat /\ Len(out) \in Nat /\ Len(chan'[p]) \in Nat
    BY <1>1, <2>1
  <2>6. Len(chan'[p]) <= Sent(hs[Peer(p)]) + faults
    BY <2>1, <2>2, <2>4, <2>5
  <2>7. Len(chan'[Peer(p)]) <= Sent(t) + faults
    BY <2>1, <2>3, <2>4, <2>5, Adds
  <2>. QED
    BY <1>0, <2>6, <2>7 DEF WireIsShort
<1>9. SignedIsShared'
  BY <1>0, <1>2 DEF SignedIsShared, Later, InStep
<1>10. SettledIsShared'
  BY <1>0, <1>2 DEF SettledIsShared, Later, InStep
<1>. QED
  BY <1>5, <1>6, <1>7, <1>8, <1>9, <1>10 DEF HandshakeInv

-----------------------------------------------------------------------------
(* The handlers.                                                           *)

(* The frame a handler is given is one the peer's stream can carry.        *)
LEMMA Incoming ==
    ASSUME HandshakeInv, NEW p \in Ends, chan[p] # <<>>
    PROVE  /\ Head1(p) \in Honest(Peer(p), hs[Peer(p)])
           /\ Head1(p) \in Frames
           /\ hs[p] \in States /\ hs[Peer(p)] \in States
           /\ InStep(p, hs[p], expected[p]) /\ InStep(Peer(p), hs[Peer(p)], expected[Peer(p)])
           /\ hs[p].authOk => hs[p].peerId = Peer(p) /\ hs[Peer(p)].transcript = hs[p].transcript
           /\ status[p] = "established" =>
                hs[p].authOk /\ hs[Peer(p)].authOk /\ hs[Peer(p)].keys = hs[p].keys
           /\ DOMAIN hs = Ends /\ status \in [Ends -> {"running", "established", "failed"}]
<1>1. Peer(p) \in Ends
  BY TwoEnds
<1>2. Head1(p) \in Honest(Peer(p), hs[Peer(p)])
  <2>1. chan[p] \in Seq(Honest(Peer(p), hs[Peer(p)]))
    BY DEF HandshakeInv, WireIsHonest
  <2>. QED
    BY <2>1, SeqFacts DEF Head1
<1>3. Head1(p) \in Frames
  BY <1>2 DEF Honest
<1>. QED
  BY <1>1, <1>2, <1>3 DEF HandshakeInv, Types, FieldsInStep, SignedIsShared, SettledIsShared

(* A Hello is answered with an offer, before anything is derived.          *)
LEMMA HelloStep ==
    ASSUME HandshakeInv, NEW p \in Ends, OnHello(p)
    PROVE  HandshakeInv'
<1>. DEFINE pay == Head1(p).pay
            s == hs[p]
            t == hs'[p]
<1>0. chan[p] # <<>> /\ status[p] = "running"
  BY DEF OnHello, Receiving
<1>1. /\ Head1(p) \in Frames /\ Head1(p).type = "Hello"
      /\ HelloAccepted(p, pay)
  BY <1>0, Incoming DEF OnHello, Receiving, Accepted
<1>2. s \in States /\ InStep(p, s, expected[p]) /\ DOMAIN hs = Ends
  BY <1>0, Incoming
<1>3. pay \in Hellos /\ pay.id \in Ids /\ s.peerHello = None /\ expected[p] \in {None, pay.id}
  BY <1>1 DEF HelloAccepted, Frames, Hellos
<1>4. Offer(p) \in Offers /\ Offer(p) # None /\ pay # None /\ pay.id # None
  <2>1. Offer(p) \in Offers
    BY DEF Offer, Offers
  <2>. QED
    BY <1>3, <2>1, Terms
<1>5. /\ hs' = [hs EXCEPT ![p] = [s EXCEPT !.peerId = pay.id, !.peerHello = pay, !.myOffer = Offer(p)]]
      /\ Consume(p, <<Frame("KemOffer", Offer(p))>>)
      /\ expected' = expected /\ status' = status /\ faults' = faults
  BY <1>2 DEF OnHello, States
<1>6. t = [s EXCEPT !.peerId = pay.id, !.peerHello = pay, !.myOffer = Offer(p)]
  BY <1>2, <1>5
<1>7. /\ t.peerId = pay.id /\ t.peerHello = pay /\ t.myOffer = Offer(p)
      /\ t.myHello = s.myHello /\ t.peerOffer = s.peerOffer /\ t.myResponse = s.myResponse
      /\ t.peerResponse = s.peerResponse /\ t.transcript = s.transcript /\ t.keys = s.keys
      /\ t.authOk = s.authOk /\ t.ready = s.ready
      /\ t \in States
  BY <1>2, <1>3, <1>4, <1>6 DEF States
<1>8. hs'[Peer(p)] = hs[Peer(p)] /\ hs' \in [Ends -> States]
  BY <1>2, <1>5, <1>6, <1>7, TwoEnds DEF HandshakeInv, Types
<1>9. s.peerOffer = None /\ s.peerResponse = None /\ s.myResponse = None /\ s.transcript = None /\ ~s.authOk
  BY <1>2, <1>3 DEF InStep
<1>10. InStep(p, t, expected[p]) /\ Later(s, t)
  BY <1>2, <1>3, <1>4, <1>7, <1>9 DEF InStep, Later
<1>11. <<Frame("KemOffer", Offer(p))>> \in Seq(Honest(p, t))
  <2>1. Frame("KemOffer", Offer(p)) \in Honest(p, t)
    BY <1>4 DEF Frame, Honest, Frames
  <2>. QED
    BY <2>1
<1>12. Sent(s) + Len(<<Frame("KemOffer", Offer(p))>>) <= Sent(t)
  BY <1>2, <1>3, <1>4, <1>7, <1>9 DEF Sent, InStep
<1>. HIDE DEF t, s
<1>13. Later(hs[p], t) /\ Sent(hs[p]) + Len(<<Frame("KemOffer", Offer(p))>>) <= Sent(t) /\ ~t.authOk
  BY <1>7, <1>9, <1>10, <1>12 DEF s
<1>14. status' \in [Ends -> {"running", "established", "failed"}] /\ status'[p] = "running"
       /\ status'[Peer(p)] = status[Peer(p)]
  BY <1>0, <1>5, Incoming
<1>15. hs'[p] = t /\ t \in States
  BY <1>7 DEF t
<1>. QED
  BY <1>0, <1>5, <1>8, <1>10, <1>11, <1>13, <1>14, <1>15, LocalStep

(* An offer is answered with a response to it.                             *)
LEMMA OfferStep ==
    ASSUME HandshakeInv, NEW p \in Ends, OnKemOffer(p)
    PROVE  HandshakeInv'
<1>. DEFINE pay == Head1(p).pay
            r == Response(p, pay)
            out == <<Frame("KemResponse", r)>>
            s == hs[p]
            t == hs'[p]
<1>0. chan[p] # <<>> /\ status[p] = "running"
  BY DEF OnKemOffer, Receiving
<1>1. Head1(p) \in Frames /\ Head1(p).type = "KemOffer" /\ OfferAccepted(p, pay)
  BY <1>0, Incoming DEF OnKemOffer, Receiving, Accepted
<1>2. s \in States /\ InStep(p, s, expected[p]) /\ DOMAIN hs = Ends
  BY <1>0, Incoming
<1>3. pay \in Offers /\ s.peerHello # None /\ s.peerOffer = None
  BY <1>1 DEF OfferAccepted, Frames
<1>4. r \in Responses /\ r # None /\ pay # None
  <2>1. r \in Responses
    BY <1>3 DEF Response, Responses
  <2>. QED
    BY <1>3, <2>1, Terms
<1>5. /\ hs' = [hs EXCEPT ![p] = [s EXCEPT !.peerOffer = pay, !.myResponse = r]]
      /\ Consume(p, out)
      /\ expected' = expected /\ status' = status /\ faults' = faults
  BY <1>2 DEF OnKemOffer, States
<1>6. t = [s EXCEPT !.peerOffer = pay, !.myResponse = r]
  BY <1>2, <1>5
<1>7. /\ t.peerOffer = pay /\ t.myResponse = r
      /\ t.myHello = s.myHello /\ t.peerId = s.peerId /\ t.peerHello = s.peerHello
      /\ t.myOffer = s.myOffer /\ t.peerResponse = s.peerResponse
      /\ t.transcript = s.transcript /\ t.keys = s.keys
      /\ t.authOk = s.authOk /\ t.ready = s.ready
      /\ t \in States
  BY <1>2, <1>3, <1>4, <1>6 DEF States
<1>8. hs'[Peer(p)] = hs[Peer(p)] /\ hs' \in [Ends -> States]
  BY <1>2, <1>5, <1>6, <1>7, TwoEnds DEF HandshakeInv, Types
<1>9. s.myResponse = None /\ s.transcript = None /\ ~s.authOk
  BY <1>2, <1>3 DEF InStep
<1>10. InStep(p, t, expected[p]) /\ Later(s, t)
  BY <1>2, <1>3, <1>4, <1>7, <1>9 DEF InStep, Later
<1>11. out \in Seq(Honest(p, t))
  <2>1. Frame("KemResponse", r) \in Honest(p, t)
    BY <1>4 DEF Frame, Honest, Frames
  <2>. QED
    BY <2>1
<1>12. Sent(s) + Len(out) <= Sent(t)
  BY <1>2, <1>3, <1>4, <1>7, <1>9 DEF Sent, InStep
<1>. HIDE DEF t, s, out
<1>13. Later(hs[p], t) /\ Sent(hs[p]) + Len(out) <= Sent(t) /\ ~t.authOk
  BY <1>7, <1>9, <1>10, <1>12 DEF s
<1>14. status' \in [Ends -> {"running", "established", "failed"}] /\ status'[p] = "running"
       /\ status'[Peer(p)] = status[Peer(p)]
  BY <1>0, <1>5, Incoming
<1>15. hs'[p] = t /\ t \in States
  BY <1>7 DEF t
<1>. QED
  BY <1>0, <1>5, <1>8, <1>10, <1>11, <1>13, <1>14, <1>15, LocalStep

(* finish_kem makes a transcript and keys bound to it.                     *)
LEMMA FinishFacts ==
    ASSUME NEW p \in Ends, NEW s \in States, InStep(p, s, expected[p]),
           s.peerResponse # None, s.myResponse # None
    PROVE  /\ BuildTranscript(p, s.peerId, s) \in Transcripts
           /\ FinishKem(p, s).keys \in Keys
           /\ FinishKem(p, s).keys = DerivedKeys(p, s)
<1>1. /\ s.myHello \in Hellos /\ s.peerHello \in Hellos
      /\ s.myOffer \in Offers /\ s.peerOffer \in Offers
      /\ s.myResponse \in Responses /\ s.peerResponse \in Responses
  BY DEF States, InStep
<1>2. BuildTranscript(p, s.peerId, s) \in Transcripts
  BY <1>1 DEF BuildTranscript, InIdOrder, Transcripts
<1>3. Secret(s.myResponse) \in Secrets /\ Decapsulate(s.myOffer, s.peerResponse) \in Secrets
  BY <1>1 DEF Secret, Decapsulate, Secrets
<1>4. CombineSharedSecrets(p, s.peerId, Secret(s.myResponse), Decapsulate(s.myOffer, s.peerResponse))
        \in Secrets \X Secrets
  BY <1>3 DEF CombineSharedSecrets
<1>5. FinishKem(p, s).keys = DerivedKeys(p, s)
  BY DEF FinishKem, DerivedKeys, States
<1>6. DerivedKeys(p, s) \in Keys
  BY <1>2, <1>4 DEF DerivedKeys, DeriveKeys, Keys
<1>. QED
  BY <1>2, <1>5, <1>6

(* A response is stored, and with the end's own makes the transcript, the  *)
(* keys and the signature that is sent.                                    *)
LEMMA ResponseStep ==
    ASSUME HandshakeInv, NEW p \in Ends, OnKemResponse(p)
    PROVE  HandshakeInv'
<1>. DEFINE pay == Head1(p).pay
            s == hs[p]
            u == [s EXCEPT !.peerResponse = pay]
            tr == BuildTranscript(p, u.peerId, u)
            t == hs'[p]
<1>0. chan[p] # <<>> /\ status[p] = "running"
  BY DEF OnKemResponse, Receiving
<1>1. Head1(p) \in Frames /\ Head1(p).type = "KemResponse" /\ ResponseAccepted(p, pay)
  BY <1>0, Incoming DEF OnKemResponse, Receiving, Accepted
<1>2. s \in States /\ InStep(p, s, expected[p]) /\ DOMAIN hs = Ends
  BY <1>0, Incoming
<1>3. pay \in Responses /\ s.peerHello # None /\ s.peerResponse = None
  BY <1>1 DEF ResponseAccepted, Frames
<1>4. pay # None /\ s.transcript = None /\ s.keys = None /\ ~s.authOk
  BY <1>2, <1>3, Terms DEF InStep
<1>5. /\ u.peerResponse = pay
      /\ u.myHello = s.myHello /\ u.peerId = s.peerId /\ u.peerHello = s.peerHello
      /\ u.myOffer = s.myOffer /\ u.peerOffer = s.peerOffer /\ u.myResponse = s.myResponse
      /\ u.transcript = s.transcript /\ u.keys = s.keys
      /\ u.authOk = s.authOk /\ u.ready = s.ready
      /\ u \in States
  BY <1>2, <1>3 DEF States
<1>6. InStep(p, u, expected[p]) /\ Later(s, u) /\ Sent(u) = Sent(s)
  BY <1>2, <1>3, <1>4, <1>5 DEF InStep, Later, Sent
<1>7. expected' = expected /\ status' = status /\ faults' = faults
  BY DEF OnKemResponse
<1>8. status' \in [Ends -> {"running", "established", "failed"}] /\ status'[p] = "running"
      /\ status'[Peer(p)] = status[Peer(p)]
  BY <1>0, <1>7, Incoming
<1>9. Sent(s) \in Nat
  BY <1>2, SentType
<1>10. CASE s.myResponse = None
  <2>1. hs' = [hs EXCEPT ![p] = u] /\ Consume(p, <<>>)
    BY <1>5, <1>10 DEF OnKemResponse
  <2>2. hs'[p] = u /\ hs'[Peer(p)] = hs[Peer(p)] /\ hs' \in [Ends -> States]
    BY <1>2, <1>5, <2>1, TwoEnds DEF HandshakeInv, Types
  <2>3. <<>> \in Seq(Honest(p, u)) /\ Sent(s) + Len(<<>>) <= Sent(u) /\ ~u.authOk
    BY <1>4, <1>5, <1>6, <1>9
  <2>4. u \in States /\ Later(hs[p], u) /\ InStep(p, u, expected[p]) /\ Sent(hs[p]) + Len(<<>>) <= Sent(u)
    BY <1>5, <1>6, <2>3
  <2>. HIDE DEF u, s
  <2>. QED
    BY <1>0, <1>7, <1>8, <2>1, <2>2, <2>3, <2>4, LocalStep
<1>11. CASE s.myResponse # None
  <2>. DEFINE done == FinishKem(p, u)
              out == <<Frame("Auth", Signature(p, done.transcript))>>
  <2>1. hs' = [hs EXCEPT ![p] = done] /\ Consume(p, out)
    BY <1>5, <1>11 DEF OnKemResponse
  <2>2. tr \in Transcripts /\ done.keys \in Keys /\ done.keys = DerivedKeys(p, u)
    BY <1>4, <1>5, <1>6, <1>11, FinishFacts
  <2>3. tr # None /\ done.keys # None
    BY <2>2, Terms
  <2>4. done.transcript = tr
    BY <1>5 DEF FinishKem, States
  <2>5. /\ done.peerResponse = u.peerResponse
        /\ done.myHello = u.myHello /\ done.peerId = u.peerId /\ done.peerHello = u.peerHello
        /\ done.myOffer = u.myOffer /\ done.peerOffer = u.peerOffer /\ done.myResponse = u.myResponse
        /\ done.authOk = u.authOk /\ done.ready = u.ready
    <3>. HIDE DEF u, tr
    <3>. QED
      BY <1>5 DEF FinishKem, States
  <2>6. done \in States
    <3>1. done = [u EXCEPT !.transcript = done.transcript, !.keys = done.keys]
      <4>. HIDE DEF u
      <4>. QED
        BY <1>5 DEF FinishKem, States
    <3>2. ASSUME NEW x \in Transcripts, NEW k \in Keys PROVE [u EXCEPT !.transcript = x, !.keys = k] \in States
      <4>. HIDE DEF u
      <4>. QED
        BY <1>5 DEF States
    <3>. HIDE DEF u, done, tr
    <3>. QED
      BY <2>2, <2>4, <3>1, <3>2
  <2>7. hs'[p] = done /\ hs'[Peer(p)] = hs[Peer(p)] /\ hs' \in [Ends -> States]
    <3>. HIDE DEF done
    <3>. QED
      BY <1>2, <2>1, <2>6, TwoEnds DEF HandshakeInv, Types
  <2>. HIDE DEF u, done
  <2>8. BuildTranscript(p, done.peerId, done) = done.transcript
    BY <2>4, <2>5 DEF BuildTranscript
  <2>8a. DerivedKeys(p, done) = done.keys
    <3>1. DerivedKeys(p, done) = DerivedKeys(p, u)
      BY <2>5 DEF DerivedKeys, BuildTranscript
    <3>. QED
      BY <2>2, <3>1
  <2>9. InStep(p, done, expected[p]) /\ ~done.authOk
    BY <1>4, <1>5, <1>6, <1>11, <2>2, <2>3, <2>4, <2>5, <2>8, <2>8a DEF InStep
  <2>10. Later(hs[p], done)
    BY <1>4 DEF Later
  <2>11. out \in Seq(Honest(p, done))
    <3>1. Signature(p, done.transcript) \in Signatures
      BY <2>2, <2>4 DEF Signature, Signatures, Ids, Ends
    <3>2. Frame("Auth", Signature(p, done.transcript)) \in Honest(p, done)
      BY <2>3, <2>4, <3>1 DEF Frame, Honest, Frames
    <3>. QED
      BY <3>2
  <2>12. Sent(hs[p]) + Len(out) <= Sent(done)
    BY <1>4, <1>5, <2>3, <2>4, <2>5 DEF Sent
  <2>. HIDE DEF out
  <2>. QED
    BY <1>0, <1>7, <1>8, <2>1, <2>6, <2>7, <2>9, <2>10, <2>11, <2>12, LocalStep
<1>. QED
  BY <1>10, <1>11

(* A signature that verifies is the peer's, over the peer's transcript:    *)
(* nobody else's is on the stream.                                         *)
LEMMA AuthStep ==
    ASSUME HandshakeInv, NEW p \in Ends, OnAuth(p)
    PROVE  HandshakeInv'
<1>. DEFINE pay == Head1(p).pay
            s == hs[p]
            peer == hs[Peer(p)]
            out == <<Frame("Ready", SessionId(s.keys))>>
            t == [s EXCEPT !.authOk = TRUE]
<1>0. chan[p] # <<>> /\ status[p] = "running"
  BY DEF OnAuth, Receiving
<1>1. /\ Head1(p) \in Honest(Peer(p), peer) /\ Head1(p).type = "Auth"
      /\ ~s.authOk /\ s.transcript # None /\ pay = Signature(s.peerId, s.transcript)
  BY <1>0, Incoming DEF OnAuth, Receiving, Accepted, AuthAccepted
<1>2. s \in States /\ InStep(p, s, expected[p]) /\ DOMAIN hs = Ends
  BY <1>0, Incoming
<1>3. s.transcript \in Transcripts /\ s.keys \in Keys /\ s.peerId \in Ids
  BY <1>1, <1>2 DEF InStep, States
<1>4. pay # Malformed
  <2>1. pay \in Signatures
    BY <1>1, <1>3 DEF Signature, Signatures
  <2>. QED
    BY <2>1, Terms
<1>5. pay = Signature(Peer(p), peer.transcript)
  BY <1>1, <1>4 DEF Honest
<1>6. s.peerId = Peer(p) /\ peer.transcript = s.transcript
  BY <1>1, <1>5 DEF Signature
<1>7. /\ hs' = [hs EXCEPT ![p] = t] /\ Consume(p, out)
      /\ expected' = expected /\ status' = status /\ faults' = faults
  BY <1>2 DEF OnAuth, States
<1>8. /\ t.authOk = TRUE /\ t.peerResponse = s.peerResponse
      /\ t.myHello = s.myHello /\ t.peerId = s.peerId /\ t.peerHello = s.peerHello
      /\ t.myOffer = s.myOffer /\ t.peerOffer = s.peerOffer /\ t.myResponse = s.myResponse
      /\ t.transcript = s.transcript /\ t.keys = s.keys /\ t.ready = s.ready
      /\ t \in States
  <2>1. ASSUME NEW x \in States PROVE [x EXCEPT !.authOk = TRUE] \in States
    BY <2>1 DEF States
  <2>2. t \in States
    BY <1>2, <2>1
  <2>3. /\ t.authOk = TRUE /\ t.peerResponse = s.peerResponse
        /\ t.myHello = s.myHello /\ t.peerId = s.peerId /\ t.peerHello = s.peerHello
        /\ t.myOffer = s.myOffer /\ t.peerOffer = s.peerOffer /\ t.myResponse = s.myResponse
        /\ t.transcript = s.transcript /\ t.keys = s.keys /\ t.ready = s.ready
    BY <1>2 DEF States
  <2>. QED
    BY <2>2, <2>3
<1>9. status' \in [Ends -> {"running", "established", "failed"}] /\ status'[p] = "running"
      /\ status'[Peer(p)] = status[Peer(p)]
  BY <1>0, <1>7, Incoming
<1>10. hs'[p] = t /\ hs'[Peer(p)] = peer /\ hs' \in [Ends -> States]
  BY <1>2, <1>7, <1>8, TwoEnds DEF HandshakeInv, Types
<1>. HIDE DEF t
<1>11. InStep(p, t, expected[p]) /\ Later(hs[p], t)
  BY <1>1, <1>2, <1>8 DEF InStep, Later, BuildTranscript, DerivedKeys
<1>12. out \in Seq(Honest(p, t))
  <2>1. SessionId(s.keys) \in SessionIds
    BY <1>3 DEF SessionId, SessionIds
  <2>2. Frame("Ready", SessionId(s.keys)) \in Honest(p, t)
    BY <1>8, <2>1 DEF Frame, Honest, Frames
  <2>. QED
    BY <2>2
<1>13. Sent(hs[p]) + Len(out) <= Sent(t)
  BY <1>1, <1>8 DEF Sent
<1>14. t.peerId = Peer(p) /\ hs[Peer(p)].transcript = t.transcript
  BY <1>6, <1>8
<1>. HIDE DEF out
<1>. QED
  BY <1>0, <1>7, <1>8, <1>9, <1>10, <1>11, <1>12, <1>13, <1>14, LocalStep

(* A session id that matches is the peer's, who sent it after it had       *)
(* verified this end's signature.                                          *)
LEMMA ReadyStep ==
    ASSUME HandshakeInv, NEW p \in Ends, OnReady(p)
    PROVE  HandshakeInv'
<1>. DEFINE pay == Head1(p).pay
            s == hs[p]
            peer == hs[Peer(p)]
            t == [s EXCEPT !.ready = pay]
<1>0. chan[p] # <<>> /\ status[p] = "running"
  BY DEF OnReady, Receiving
<1>1. /\ Head1(p) \in Honest(Peer(p), peer) /\ Head1(p).type = "Ready"
      /\ s.authOk /\ pay = SessionId(s.keys)
  BY <1>0, Incoming DEF OnReady, Receiving, Accepted, ReadyAccepted
<1>2. s \in States /\ InStep(p, s, expected[p]) /\ DOMAIN hs = Ends
  BY <1>0, Incoming
<1>3. s.keys \in Keys
  BY <1>1, <1>2 DEF InStep, States
<1>4. pay \in SessionIds
  BY <1>1, <1>3 DEF SessionId, SessionIds
<1>5. peer.authOk /\ pay = SessionId(peer.keys)
  BY <1>1, <1>4, Terms DEF Honest
<1>6. peer.keys = s.keys
  BY <1>1, <1>5 DEF SessionId
<1>7. /\ hs' = [hs EXCEPT ![p] = t] /\ Consume(p, <<>>)
      /\ expected' = expected /\ status' = [status EXCEPT ![p] = "established"] /\ faults' = faults
  BY <1>2 DEF OnReady, States
<1>8. /\ t.authOk = s.authOk /\ t.peerResponse = s.peerResponse
      /\ t.myHello = s.myHello /\ t.peerId = s.peerId /\ t.peerHello = s.peerHello
      /\ t.myOffer = s.myOffer /\ t.peerOffer = s.peerOffer /\ t.myResponse = s.myResponse
      /\ t.transcript = s.transcript /\ t.keys = s.keys
      /\ t \in States
  BY <1>2, <1>4 DEF States
<1>9. status' \in [Ends -> {"running", "established", "failed"}]
      /\ status'[Peer(p)] = status[Peer(p)]
  BY <1>0, <1>7, Incoming, TwoEnds
<1>10. hs'[p] = t /\ hs'[Peer(p)] = peer /\ hs' \in [Ends -> States]
  BY <1>2, <1>7, <1>8, TwoEnds DEF HandshakeInv, Types
<1>. HIDE DEF t
<1>11. InStep(p, t, expected[p]) /\ Later(hs[p], t)
  BY <1>1, <1>2, <1>8 DEF InStep, Later, BuildTranscript, DerivedKeys
<1>12. Sent(hs[p]) + Len(<<>>) <= Sent(t) /\ <<>> \in Seq(Honest(p, t))
  <2>1. Sent(t) = Sent(hs[p]) /\ Sent(hs[p]) \in Nat
    BY <1>2, <1>8, SentType DEF Sent
  <2>. QED
    BY <2>1
<1>13. t.peerId = Peer(p) /\ hs[Peer(p)].transcript = t.transcript
  BY <1>0, <1>1, <1>8, Incoming
<1>14. t.authOk /\ hs[Peer(p)].authOk /\ hs[Peer(p)].keys = t.keys
  BY <1>1, <1>5, <1>6, <1>8
<1>. QED
  BY <1>0, <1>7, <1>8, <1>9, <1>10, <1>11, <1>12, <1>13, <1>14, LocalStep

(* A frame that comes after the handshake is dropped.                      *)
LEMMA DropStep ==
    ASSUME HandshakeInv, NEW p \in Ends, DropFrame(p)
    PROVE  HandshakeInv'
<1>0. chan[p] # <<>> /\ Consume(p, <<>>)
      /\ expected' = expected /\ status' = status /\ hs' = hs /\ faults' = faults
  BY DEF DropFrame
<1>1. /\ hs[p] \in States /\ InStep(p, hs[p], expected[p])
      /\ hs[p].authOk => hs[p].peerId = Peer(p) /\ hs[Peer(p)].transcript = hs[p].transcript
      /\ status[p] = "established" =>
                hs[p].authOk /\ hs[Peer(p)].authOk /\ hs[Peer(p)].keys = hs[p].keys
      /\ status \in [Ends -> {"running", "established", "failed"}]
      /\ hs \in [Ends -> States]
  BY <1>0, Incoming DEF HandshakeInv, Types
<1>2. Sent(hs[p]) + Len(<<>>) <= Sent(hs[p]) /\ <<>> \in Seq(Honest(p, hs[p]))
  BY <1>1, SentType
<1>3. Later(hs[p], hs[p])
  BY DEF Later
<1>. QED
  BY <1>0, <1>1, <1>2, <1>3, LocalStep

(* An end that gives up loses its stream and nothing else.                 *)
LEMMA FailStep ==
    ASSUME HandshakeInv, NEW p \in Ends, FailClosed(p)
    PROVE  HandshakeInv'
<1>1. /\ Types /\ FieldsInStep /\ WireIsHonest /\ WireIsShort /\ SignedIsShared /\ SettledIsShared
      /\ expected' = expected /\ hs' = hs /\ faults' = faults
      /\ status' = [status EXCEPT ![p] = "failed"] /\ chan' = [chan EXCEPT ![p] = <<>>]
  BY DEF HandshakeInv, FailClosed
<1>2. Types'
  BY <1>1 DEF Types
<1>3. FieldsInStep' /\ SignedIsShared'
  BY <1>1 DEF FieldsInStep, SignedIsShared
<1>4. WireIsHonest'
  <2>1. \A q \in Ends : chan'[q] = IF q = p THEN <<>> ELSE chan[q]
    BY <1>1 DEF Types
  <2>2. ASSUME NEW q \in Ends PROVE chan'[q] \in Seq(Honest(Peer(q), hs[Peer(q)]))
    <3>1. chan[q] \in Seq(Honest(Peer(q), hs[Peer(q)]))
      BY <1>1 DEF WireIsHonest
    <3>2. <<>> \in Seq(Honest(Peer(q), hs[Peer(q)]))
      OBVIOUS
    <3>3. CASE q = p
      BY <2>1, <3>2, <3>3
    <3>4. CASE q # p
      BY <2>1, <3>1, <3>4
    <3>. QED
      BY <3>3, <3>4
  <2>. QED
    BY <1>1, <2>2 DEF WireIsHonest
<1>5. WireIsShort'
  <2>1. \A q \in Ends : Sent(hs[Peer(q)]) \in Nat /\ faults \in Nat
    BY <1>1, SentType, TwoEnds DEF Types
  <2>2. \A q \in Ends : chan'[q] = IF q = p THEN <<>> ELSE chan[q]
    BY <1>1 DEF Types
  <2>. QED
    BY <1>1, <2>1, <2>2 DEF WireIsShort
<1>6. SettledIsShared'
  BY <1>1 DEF SettledIsShared, Types
<1>. QED
  BY <1>2, <1>3, <1>4, <1>5, <1>6 DEF HandshakeInv

(* An altered frame is still one the stream can carry: what the wire makes *)
(* of a payload is malformed, or another payload of its type.              *)
LEMMA AlteredIsHonest ==
    ASSUME NEW q, NEW s, NEW f \in Honest(q, s), NEW g \in Altered(f)
    PROVE  g \in Honest(q, s)
<1>0. f \in Frames /\ f.type \in FrameTypes
  BY DEF Honest, Frames, FrameTypes
<1>1. CASE g = Frame(f.type, Malformed)
  BY <1>0, <1>1 DEF Frame, Honest, Frames
<1>2. CASE g # Frame(f.type, Malformed)
  <2>1. /\ f.pay # Malformed /\ f.type \notin {"Auth", "Ready"}
        /\ \/ g = Frame(f.type, [f.pay EXCEPT !.v = 1])
           \/ f.type = "Hello" /\ g = Frame("Hello", [f.pay EXCEPT !.id = Stranger])
    BY <1>2 DEF Altered
  <2>2. \/ f.type = "Hello" /\ f.pay \in Hellos
        \/ f.type = "KemOffer" /\ f.pay \in Offers
        \/ f.type = "KemResponse" /\ f.pay \in Responses
    BY <1>0, <2>1 DEF Frames, FrameTypes
  <2>3. /\ \A x \in Hellos : [x EXCEPT !.v = 1] \in Hellos /\ [x EXCEPT !.id = Stranger] \in Hellos
        /\ \A x \in Offers : [x EXCEPT !.v = 1] \in Offers
        /\ \A x \in Responses : [x EXCEPT !.v = 1] \in Responses
    BY DEF Hellos, Offers, Responses, Ids
  <2>4. g \in Frames /\ g.type = f.type
    <3>1. ASSUME NEW x, NEW type, g = Frame(type, x)
          PROVE  g = [type |-> type, pay |-> x] /\ g.type = type
      BY <3>1 DEF Frame
    <3>2. CASE f.type = "Hello" /\ f.pay \in Hellos
      <4>1. PICK x \in Hellos : g = Frame("Hello", x)
        BY <2>1, <2>3, <3>2
      <4>. QED
        BY <3>1, <3>2, <4>1 DEF Frames
    <3>3. CASE f.type = "KemOffer" /\ f.pay \in Offers
      <4>1. PICK x \in Offers : g = Frame("KemOffer", x)
        BY <2>1, <2>3, <3>3
      <4>. QED
        BY <3>1, <3>3, <4>1 DEF Frames
    <3>4. CASE f.type = "KemResponse" /\ f.pay \in Responses
      <4>1. PICK x \in Responses : g = Frame("KemResponse", x)
        BY <2>1, <2>3, <3>4
      <4>. QED
        BY <3>1, <3>4, <4>1 DEF Frames
    <3>. QED
      BY <2>2, <3>2, <3>3, <3>4
  <2>. QED
    BY <2>1, <2>4 DEF Honest
<1>. QED
  BY <1>1, <1>2

(* Two sequences one after the other.                                      *)
LEMMA ConcatFacts ==
    ASSUME NEW S, NEW a \in S, NEW q \in Seq(S)
    PROVE  <<a>> \o q \in Seq(S) /\ Len(<<a>> \o q) = Len(q) + 1
OBVIOUS

(* The first two change places.                                            *)
LEMMA SwapFacts ==
    ASSUME NEW S, NEW q \in Seq(S), Len(q) > 1
    PROVE  /\ <<q[2], q[1]>> \o SubSeq(q, 3, Len(q)) \in Seq(S)
           /\ Len(<<q[2], q[1]>> \o SubSeq(q, 3, Len(q))) = Len(q)
<1>1. Len(q) \in Nat /\ q[1] \in S /\ q[2] \in S
  OBVIOUS
<1>2. SubSeq(q, 3, Len(q)) \in Seq(S)
  BY <1>1
<1>3. Len(SubSeq(q, 3, Len(q))) = Len(q) - 2
  <2>1. \A i \in 3..Len(q) : q[i] \in S
    BY <1>1
  <2>2. 3 \in Int /\ Len(q) \in Int
    BY <1>1
  <2>3. Len(SubSeq(q, 3, Len(q))) = IF 3 <= Len(q) THEN Len(q) - 3 + 1 ELSE 0
    BY <2>1, <2>2, SubSeqProperties
  <2>4. ASSUME NEW n \in Nat, n > 1 PROVE (IF 3 <= n THEN n - 3 + 1 ELSE 0) = n - 2
    BY <2>4
  <2>. QED
    BY <1>1, <2>3, <2>4, Zenon
<1>4. <<q[2], q[1]>> \in Seq(S) /\ Len(<<q[2], q[1]>>) = 2
  BY <1>1
<1>5. ASSUME NEW a \in Seq(S), NEW b \in Seq(S)
      PROVE  a \o b \in Seq(S) /\ Len(a \o b) = Len(a) + Len(b)
  OBVIOUS
<1>6. /\ <<q[2], q[1]>> \o SubSeq(q, 3, Len(q)) \in Seq(S)
      /\ Len(<<q[2], q[1]>> \o SubSeq(q, 3, Len(q))) = 2 + (Len(q) - 2)
  BY <1>2, <1>3, <1>4, <1>5
<1>. QED
  BY <1>1, <1>6

(* The wire makes a stream longer by one frame at most.                    *)
LEMMA DamageStep ==
    ASSUME HandshakeInv, NEW p \in Ends, Damage(p)
    PROVE  HandshakeInv'
<1>0. /\ Types /\ FieldsInStep /\ WireIsHonest /\ WireIsShort /\ SignedIsShared /\ SettledIsShared
      /\ expected' = expected /\ hs' = hs /\ status' = status
      /\ faults' = faults + 1 /\ faults < MaxFaults /\ chan[p] # <<>>
  BY DEF HandshakeInv, Damage
<1>1. PICK q \in Damaged(chan[p]) : chan' = [chan EXCEPT ![p] = q]
  BY DEF Damage
<1>. DEFINE S == Honest(Peer(p), hs[Peer(p)])
            c == chan[p]
<1>2. c \in Seq(S)
  BY <1>0 DEF WireIsHonest
<1>. HIDE DEF S
<1>3. Head(c) \in S /\ Tail(c) \in Seq(S) /\ Len(c) \in Nat \ {0} /\ Len(Tail(c)) = Len(c) - 1
  BY <1>0, <1>2, SeqFacts
<1>4. q \in Seq(S) /\ Len(q) <= Len(c) + 1
  <2>1. CASE \E g \in Altered(Head(c)) : q = <<g>> \o Tail(c)
    <3>1. PICK g \in Altered(Head(c)) : q = <<g>> \o Tail(c)
      BY <2>1
    <3>2. g \in S
      BY <1>3, <3>1, AlteredIsHonest DEF S
    <3>3. q \in Seq(S) /\ Len(q) = Len(Tail(c)) + 1
      BY <1>3, <3>1, <3>2, ConcatFacts
    <3>. HIDE DEF c
    <3>. QED
      BY <1>3, <3>3
  <2>2. CASE q = <<Head(c)>> \o c
    <3>1. q \in Seq(S) /\ Len(q) = Len(c) + 1
      BY <1>2, <1>3, <2>2, ConcatFacts
    <3>. HIDE DEF c
    <3>. QED
      BY <1>3, <3>1
  <2>3. CASE q = Tail(c) \/ q = c
    <3>. HIDE DEF c
    <3>. QED
      BY <1>2, <1>3, <2>3
  <2>4. CASE Len(c) > 1 /\ q = <<c[2], c[1]>> \o SubSeq(c, 3, Len(c))
    <3>1. q \in Seq(S) /\ Len(q) = Len(c)
      BY <1>2, <2>4, SwapFacts
    <3>. HIDE DEF c
    <3>. QED
      BY <1>3, <3>1
  <2>. QED
    BY <2>1, <2>2, <2>3, <2>4 DEF Damaged
<1>5. \A r \in Ends : chan'[r] = IF r = p THEN q ELSE chan[r]
  BY <1>0, <1>1 DEF Types
<1>6. WireIsHonest'
  <2>1. ASSUME NEW r \in Ends PROVE chan'[r] \in Seq(Honest(Peer(r), hs[Peer(r)]))
    <3>1. chan[r] \in Seq(Honest(Peer(r), hs[Peer(r)]))
      BY <1>0 DEF WireIsHonest
    <3>2. CASE r = p
      BY <1>4, <1>5, <3>2 DEF S
    <3>3. CASE r # p
      BY <1>5, <3>1, <3>3
    <3>. QED
      BY <3>2, <3>3
  <2>. QED
    BY <1>0, <2>1 DEF WireIsHonest
<1>7. WireIsShort'
  <2>1. \A r \in Ends : Sent(hs[Peer(r)]) \in Nat /\ Len(chan[r]) \in Nat /\ faults \in Nat
    BY <1>0, SentType, TwoEnds DEF Types
  <2>2. Len(q) \in Nat
    BY <1>4
  <2>3. ASSUME NEW r \in Ends PROVE Len(chan'[r]) <= Sent(hs[Peer(r)]) + faults'
    <3>1. Len(chan[r]) <= Sent(hs[Peer(r)]) + faults
      BY <1>0 DEF WireIsShort
    <3>2. CASE r = p
      BY <1>0, <1>4, <1>5, <2>1, <2>2, <3>1, <3>2
    <3>3. CASE r # p
      BY <1>0, <1>5, <2>1, <3>1, <3>3
    <3>. QED
      BY <3>2, <3>3
  <2>. QED
    BY <1>0, <2>3 DEF WireIsShort
<1>8. Types'
  <2>1. S \subseteq Frames
    BY DEF S, Honest
  <2>2. q \in Seq(Frames)
    BY <1>4, <2>1, SeqGrows
  <2>3. faults' \in 0..MaxFaults
    BY <1>0, FaultsAssumption DEF Types
  <2>. QED
    BY <1>0, <1>1, <2>2, <2>3 DEF Types
<1>9. FieldsInStep' /\ SignedIsShared' /\ SettledIsShared'
  BY <1>0 DEF FieldsInStep, SignedIsShared, SettledIsShared
<1>. QED
  BY <1>6, <1>7, <1>8, <1>9 DEF HandshakeInv

-----------------------------------------------------------------------------
(* Two handshakes start with nothing but a Hello each.                     *)
LEMMA InitialInv ==
    ASSUME Init
    PROVE  HandshakeInv
<1>0. ASSUME NEW S, NEW x \in S PROVE <<x>> \in Seq(S)
  OBVIOUS
<1>1. \A p \in Ends : hs[p] = NewHandshake(p) /\ hs[p] \in States
  BY DEF Init, NewHandshake, States, Hello, Hellos, Ids, Ends
<1>2. \A p \in Ends : chan[p] = <<Frame("Hello", Hello(Peer(p)))>>
  BY DEF Init
<1>3. \A p \in Ends : \A r : Frame("Hello", Hello(Peer(p))) \in Honest(Peer(p), r)
  <2>1. \A p \in Ends : Hello(Peer(p)) \in Hellos
    BY TwoEnds DEF Hello, Hellos, Ids, Ends
  <2>. QED
    BY <2>1 DEF Frame, Frames, Honest
<1>4. WireIsHonest
  <2>1. ASSUME NEW p \in Ends PROVE chan[p] \in Seq(Honest(Peer(p), hs[Peer(p)]))
    <3>1. Frame("Hello", Hello(Peer(p))) \in Honest(Peer(p), hs[Peer(p)])
      BY <1>3
    <3>. QED
      BY <1>0, <1>2, <3>1
  <2>. QED
    BY <2>1 DEF WireIsHonest
<1>5. Types
  <2>1. ASSUME NEW p \in Ends PROVE chan[p] \in Seq(Frames)
    <3>1. Frame("Hello", Hello(Peer(p))) \in Frames
      BY <1>3 DEF Honest
    <3>. QED
      BY <1>0, <1>2, <3>1
  <2>2. chan \in [Ends -> Seq(Frames)]
    BY <2>1 DEF Init
  <2>3. hs \in [Ends -> States]
    BY <1>1 DEF Init
  <2>. QED
    BY <2>2, <2>3, FaultsAssumption DEF Init, Types, Ids, Ends
<1>6. FieldsInStep
  <2>1. ASSUME NEW p \in Ends PROVE InStep(p, NewHandshake(p), expected[p])
    BY DEF InStep, NewHandshake
  <2>. QED
    BY <1>1, <2>1 DEF FieldsInStep
<1>7. WireIsShort
  <2>1. \A q : Sent(NewHandshake(q)) = 1
    BY DEF Sent, NewHandshake
  <2>2. ASSUME NEW p \in Ends PROVE Len(chan[p]) <= Sent(hs[Peer(p)]) + faults
    <3>1. hs[Peer(p)] = NewHandshake(Peer(p))
      BY <1>1, TwoEnds
    <3>2. Sent(hs[Peer(p)]) = 1 /\ faults = 0
      BY <2>1, <3>1 DEF Init
    <3>3. Len(chan[p]) = 1
      BY <1>2
    <3>. QED
      BY <3>2, <3>3
  <2>. QED
    BY <2>2 DEF WireIsShort
<1>8. SignedIsShared /\ SettledIsShared
  BY <1>1 DEF SignedIsShared, SettledIsShared, NewHandshake, Init
<1>. QED
  BY <1>4, <1>5, <1>6, <1>7, <1>8 DEF HandshakeInv

(* Every step of every handler and of the wire keeps the invariant.        *)
LEMMA StepInv ==
    ASSUME HandshakeInv, [Next]_hvars
    PROVE  HandshakeInv'
<1>1. CASE UNCHANGED hvars
  BY <1>1 DEF hvars, HandshakeInv, Types, FieldsInStep, WireIsHonest, WireIsShort,
              SignedIsShared, SettledIsShared
<1>2. ASSUME NEW p \in Ends, Deliver(p) \/ TimeOut(p) \/ ConnectionClosed(p) \/ Damage(p)
      PROVE  HandshakeInv'
  <2>1. CASE RejectFrame(p) \/ TimeOut(p) \/ ConnectionClosed(p)
    BY <2>1, FailStep DEF RejectFrame, TimeOut, ConnectionClosed
  <2>. QED
    BY <1>2, <2>1, HelloStep, OfferStep, ResponseStep, AuthStep, ReadyStep, DropStep, DamageStep
       DEF Deliver
<1>. QED
  BY <1>1, <1>2 DEF Next

(* Whatever is altered, duplicated, lost or swapped on the way, the        *)
(* invariant holds.                                                        *)
THEOREM HandshakeInvariant == Spec => []HandshakeInv
BY InitialInv, StepInv, PTL DEF Spec

(* An end that has established a session has the device it dialed, if it   *)
(* dialed one, at the other end of the stream: somebody else's key in a    *)
(* Hello never gets past the signature.                                    *)
THEOREM AuthenticPeer == Spec => []PeerIsAuthentic
<1>1. HandshakeInv => PeerIsAuthentic
  <2>. SUFFICES ASSUME HandshakeInv, NEW p \in Ends, status[p] = "established"
                PROVE  hs[p].peerId = Peer(p) /\ expected[p] \in {None, Peer(p)}
    BY DEF PeerIsAuthentic
  <2>1. hs[p].authOk /\ hs[p].peerId = Peer(p)
    BY DEF HandshakeInv, SettledIsShared, SignedIsShared
  <2>2. InStep(p, hs[p], expected[p])
    BY DEF HandshakeInv, FieldsInStep
  <2>3. hs[p].peerId # None
    BY <2>1, TwoEnds, Terms DEF Ids, Ends
  <2>. QED
    BY <2>1, <2>2, <2>3 DEF InStep
<1>. QED
  BY <1>1, HandshakeInvariant, PTL

(* Two ends with one transcript each have the other's Hello in it.  The    *)
(* order of the two Hellos is by what each takes its peer for, and only    *)
(* the truth puts both of them in the same place.                          *)
LEMMA SameTranscript ==
    ASSUME HandshakeInv, NEW p \in Ends, hs[p].authOk
    PROVE  /\ hs[Peer(p)].peerId = p
           /\ hs[p].peerHello = hs[Peer(p)].myHello /\ hs[Peer(p)].peerHello = hs[p].myHello
<1>. DEFINE q == Peer(p)
            s == hs[p]
            t == hs[q]
<1>1. s.peerId = q /\ t.transcript = s.transcript
  BY DEF HandshakeInv, SignedIsShared
<1>2. q \in Ends /\ q # p
  BY TwoEnds
<1>3. InStep(p, s, expected[p]) /\ InStep(q, t, expected[q]) /\ s.transcript # None /\ t.transcript # None
  BY <1>1, <1>2 DEF HandshakeInv, FieldsInStep, InStep
<1>4. /\ s.transcript = BuildTranscript(p, s.peerId, s) /\ t.transcript = BuildTranscript(q, t.peerId, t)
      /\ s.myHello = Hello(p) /\ t.myHello = Hello(q) /\ t.peerId = t.peerHello.id
  BY <1>3, Terms DEF InStep
<1>5. InIdOrder(p, q, Hello(p), s.peerHello) = InIdOrder(q, t.peerId, Hello(q), t.peerHello)
  <2>1. BuildTranscript(p, s.peerId, s)[1] = BuildTranscript(q, t.peerId, t)[1]
    BY <1>1, <1>4
  <2>. QED
    BY <1>1, <1>4, <2>1 DEF BuildTranscript
<1>6. Hello(p) # Hello(q)
  BY <1>2 DEF Hello
<1>7. ASSUME NEW a, NEW b, NEW c, NEW d, <<a, b>> = <<c, d>> PROVE a = c /\ b = d
  BY <1>7
<1>8. s.peerHello = Hello(q) /\ t.peerHello = Hello(p)
  <2>1. CASE p = Lo
    <3>1. q = Hi /\ InIdOrder(p, q, Hello(p), s.peerHello) = <<Hello(p), s.peerHello>>
      BY <2>1 DEF Peer, InIdOrder, Below
    <3>2. \/ InIdOrder(q, t.peerId, Hello(q), t.peerHello) = <<Hello(q), t.peerHello>>
          \/ InIdOrder(q, t.peerId, Hello(q), t.peerHello) = <<t.peerHello, Hello(q)>>
      BY DEF InIdOrder
    <3>. QED
      BY <1>5, <1>6, <1>7, <3>1, <3>2
  <2>2. CASE p = Hi
    <3>1. q = Lo /\ InIdOrder(q, t.peerId, Hello(q), t.peerHello) = <<Hello(q), t.peerHello>>
      BY <1>2, <2>2 DEF Peer, InIdOrder, Below, Ends
    <3>2. InIdOrder(p, q, Hello(p), s.peerHello) = <<s.peerHello, Hello(p)>>
      BY <2>2, <3>1, IdentityAssumption DEF InIdOrder, Below
    <3>. QED
      BY <1>5, <1>7, <3>1, <3>2
  <2>. QED
    BY <2>1, <2>2 DEF Ends
<1>. QED
  BY <1>4, <1>8 DEF Hello

(* An end that has verified a signature holds the keys its peer derived.   *)
KeysFollowSignature ==
    \A p \in Ends : hs[p].authOk => hs[Peer(p)].keys = hs[p].keys

(* One transcript makes one pair of keys.  Each end finds in the other's   *)
(* response the secret the other encapsulated, because the transcript has  *)
(* the offer the response was made for, and both put the two secrets in    *)
(* the same order.                                                         *)
THEOREM SignatureSettlesKeys == Spec => []KeysFollowSignature
<1>1. HandshakeInv => KeysFollowSignature
  <2>. SUFFICES ASSUME HandshakeInv, NEW p \in Ends, hs[p].authOk
                PROVE  hs[Peer(p)].keys = hs[p].keys
    BY DEF KeysFollowSignature
  <2>. DEFINE q == Peer(p)
              s == hs[p]
              t == hs[q]
  <2>1. s.peerId = q /\ t.transcript = s.transcript /\ t.peerId = p
    BY SameTranscript DEF HandshakeInv, SignedIsShared
  <2>2. q \in Ends /\ q # p
    BY TwoEnds
  <2>3. InStep(p, s, expected[p]) /\ InStep(q, t, expected[q]) /\ s.transcript # None /\ t.transcript # None
    BY <2>1, <2>2 DEF HandshakeInv, FieldsInStep, InStep
  <2>. HIDE DEF s, t, q
  <2>4. /\ s.transcript = BuildTranscript(p, q, s) /\ t.transcript = BuildTranscript(q, p, t)
        /\ s.keys = DerivedKeys(p, s) /\ t.keys = DerivedKeys(q, t)
        /\ s.myResponse = Response(p, s.peerOffer) /\ t.myResponse = Response(q, t.peerOffer)
    BY <2>1, <2>3 DEF InStep
  <2>5. Below(p, q) <=> ~Below(q, p)
    BY <2>2, IdentityAssumption DEF Below, Ends
  <2>6. \A a, b, c, d : InIdOrder(p, q, a, b) = InIdOrder(q, p, c, d) => a = d /\ b = c
    BY <2>5 DEF InIdOrder
  <2>7. BuildTranscript(p, q, s) = BuildTranscript(q, p, t)
    BY <2>1, <2>4
  <2>8. /\ s.myOffer = t.peerOffer /\ s.peerOffer = t.myOffer
        /\ s.myResponse = t.peerResponse /\ s.peerResponse = t.myResponse
    <3>1. InIdOrder(p, q, s.myOffer, s.peerOffer) = InIdOrder(q, p, t.myOffer, t.peerOffer)
      BY <2>7 DEF BuildTranscript
    <3>2. InIdOrder(p, q, s.myResponse, s.peerResponse) = InIdOrder(q, p, t.myResponse, t.peerResponse)
      BY <2>7 DEF BuildTranscript
    <3>. QED
      BY <2>6, <3>1, <3>2
  <2>9. \A a, o : Decapsulate(o, Response(a, o)) = Secret(Response(a, o))
    BY DEF Decapsulate, Response
  <2>10. /\ Decapsulate(s.myOffer, s.peerResponse) = Secret(t.myResponse)
         /\ Decapsulate(t.myOffer, t.peerResponse) = Secret(s.myResponse)
    BY <2>4, <2>8, <2>9
  <2>11. CombineSharedSecrets(p, q, Secret(s.myResponse), Secret(t.myResponse))
           = CombineSharedSecrets(q, p, Secret(t.myResponse), Secret(s.myResponse))
    BY <2>5 DEF CombineSharedSecrets
  <2>12. DerivedKeys(p, s) = DerivedKeys(q, t)
    BY <2>1, <2>7, <2>10, <2>11 DEF DerivedKeys
  <2>. QED
    BY <2>4, <2>12 DEF s, t, q
<1>. QED
  BY <1>1, HandshakeInvariant, PTL

(* An established end and its peer derived one session, from the payloads  *)
(* both really sent, and use its keys the right way round; the fields of a *)
(* Handshake fill up in step.                                              *)
THEOREM EstablishedStaysAgreed == Spec => []EstablishedAgrees
<1>1. HandshakeInv => TypeOK
  <2>. SUFFICES ASSUME HandshakeInv PROVE TypeOK
    OBVIOUS
  <2>1. Types /\ FieldsInStep /\ WireIsShort
    BY DEF HandshakeInv
  <2>2. ASSUME NEW p \in Ends PROVE Len(chan[p]) <= 5 + MaxFaults
    <3>1. /\ Len(chan[p]) \in Nat /\ Sent(hs[Peer(p)]) \in Nat /\ Sent(hs[Peer(p)]) <= 5
          /\ faults \in Nat /\ faults <= MaxFaults /\ MaxFaults \in Nat
      BY <2>1, SentType, TwoEnds, FaultsAssumption DEF Types
    <3>2. Len(chan[p]) <= Sent(hs[Peer(p)]) + faults
      BY <2>1 DEF WireIsShort
    <3>. QED
      BY <3>1, <3>2
  <2>3. ASSUME NEW p \in Ends
        PROVE  /\ hs[p].peerId \in Ids \cup {None} /\ expected[p] \in Ids \cup {None}
               /\ InStep(p, hs[p], expected[p])
    BY <2>1 DEF Types, FieldsInStep, States
  <2>. QED
    BY <2>1, <2>2, <2>3 DEF TypeOK, InStep, Types
<1>2. HandshakeInv => PeerDerivedTheSame
  <2>. SUFFICES ASSUME HandshakeInv, NEW p \in Ends, status[p] = "established"
                PROVE  /\ hs[Peer(p)].authOk /\ hs[Peer(p)].keys = hs[p].keys
                       /\ hs[Peer(p)].peerId = p
                       /\ hs[p].peerHello = hs[Peer(p)].myHello /\ hs[Peer(p)].peerHello = hs[p].myHello
    BY DEF PeerDerivedTheSame
  <2>1. hs[p].authOk /\ hs[Peer(p)].authOk /\ hs[Peer(p)].keys = hs[p].keys
    BY DEF HandshakeInv, SettledIsShared
  <2>. QED
    BY <2>1, SameTranscript
<1>3. HandshakeInv => KeysComplement
  <2>. SUFFICES ASSUME HandshakeInv, \A p \in Ends : status[p] = "established"
                PROVE  KeysComplement
    BY DEF KeysComplement
  <2>1. Lo \in Ends /\ Hi \in Ends /\ Peer(Lo) = Hi /\ Peer(Hi) = Lo
    BY IdentityAssumption DEF Ends, Peer
  <2>2. hs[Lo].keys = hs[Hi].keys /\ hs[Lo].peerId = Hi /\ hs[Hi].peerId = Lo
    BY <2>1 DEF HandshakeInv, SettledIsShared, SignedIsShared
  <2>3. /\ SelectKeys(hs[Lo].keys, Lo, Hi) = << <<"ab", hs[Lo].keys>>, <<"ba", hs[Lo].keys>> >>
        /\ SelectKeys(hs[Hi].keys, Hi, Lo) = << <<"ba", hs[Lo].keys>>, <<"ab", hs[Lo].keys>> >>
    BY <2>2, IdentityAssumption DEF SelectKeys, Below
  <2>4. <<"ab", hs[Lo].keys>> # <<"ba", hs[Lo].keys>>
    OBVIOUS
  <2>. QED
    BY <2>2, <2>3, <2>4 DEF KeysComplement
<1>. QED
  BY <1>1, <1>2, <1>3, HandshakeInvariant, PTL DEF EstablishedAgrees

=============================================================================
