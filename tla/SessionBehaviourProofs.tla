----------------------- MODULE SessionBehaviourProofs -----------------------
(***************************************************************************)
(* For any number of connections, texts and faults: the session of a       *)
(* device is on a live connection, no text arrives twice, and what is      *)
(* acknowledged has arrived.  With one connection at a time, texts arrive  *)
(* in the order they were sent, and where no stream is lost and no timer   *)
(* expires no handshake or session fails.                                  *)
(***************************************************************************)
EXTENDS SessionBehaviour, FiniteSetTheorems, WellFoundedInduction, TLAPS

EventNames == {"Established", "Failed", "TooLong", "Disconnected"}

SessionKinds == {"Message", "Ack", "Control"}

Frames ==
    [type : {"Hello", "Ready"} \cup SessionKinds, sid : Conns \cup {0}, seq : Nat, m : Nat]

Sessions == [conn : Conns \cup {0}, out : Nat, in : Nat]

Types ==
    /\ dialer \in [Conns -> Devices \cup {0}]
    /\ link \in [Conns -> [Devices -> {"none", "up", "closed"}]]
    /\ closing \subseteq Conns
    /\ wire \in [Conns -> [Devices -> Seq(Frames)]]
    /\ hs \in [Devices -> [Conns -> {"idle", "hello", "authed", "gone"}]]
    /\ sess \in [Devices -> Sessions]
    /\ pending \in [Devices -> Seq(Nat)]
    /\ events \in [Devices -> Seq(EventNames)]
    /\ sent \in [Devices -> Nat]
    /\ delivered \in [Devices -> Seq(Nat)]
    /\ acked \in [Devices -> SUBSET Nat]

IsText(f) == f.type = "Message"

Limit == Msgs[A] + Msgs[B] + 1

(* The queue holds texts its user has sent, in that order.                 *)
QueueInOrder ==
    \A p \in Devices :
        /\ sent[p] <= Msgs[p]
        /\ Increasing(pending[p])
        /\ Len(pending[p]) <= sent[p]
        /\ Range(pending[p]) \subseteq 1..sent[p]

(* A text handed over was sent and has left the queue, and none came twice. *)
HandedOnce ==
    \A p \in Devices :
        /\ Range(delivered[p]) \subseteq 1..sent[Peer(p)]
        /\ Range(delivered[p]) \cap Range(pending[Peer(p)]) = {}
        /\ \A i, j \in DOMAIN delivered[p] : delivered[p][i] = delivered[p][j] => i = j

(* A frame on its way to q carries a text that is nowhere else, or the     *)
(* acknowledgement of one that arrived.                                    *)
Proper(q, f) ==
    /\ IsText(f) => /\ f.m \in 1..sent[Peer(q)]
                    /\ f.m \notin Range(pending[Peer(q)])
                    /\ f.m \notin Range(delivered[q])
    /\ f.type = "Ack" => f.m \in Range(delivered[Peer(q)])
    /\ f.type \in SessionKinds => f.seq < Limit

WireIsProper ==
    \A q \in Devices, c \in Conns : \A i \in DOMAIN wire[c][q] : Proper(q, wire[c][q][i])

(* No two frames carry the same text.                                      *)
TextsAreSole ==
    \A q \in Devices, c \in Conns, d \in Conns :
        \A i \in DOMAIN wire[c][q], j \in DOMAIN wire[d][q] :
            /\ IsText(wire[c][q][i]) /\ IsText(wire[d][q][j])
            /\ wire[c][q][i].m = wire[d][q][j].m
            => c = d /\ i = j

(* Handshakes and sessions are on connections that are up; a session has   *)
(* used a number for each text of its user and each text it acknowledged   *)
(* at most, and one for the address report.                                *)
SessionsAreLive ==
    \A p \in Devices :
        /\ \A c \in Conns : hs[p][c] \in {"hello", "authed"} => link[c][p] = "up"
        /\ sess[p].conn # 0 => link[sess[p].conn][p] = "up"
        /\ sess[p].out <= sent[p] + Len(delivered[p]) + 1
        /\ sess[p].in <= Limit

BehaviourInv ==
    /\ Types /\ QueueInOrder /\ HandedOnce /\ WireIsProper /\ TextsAreSole
    /\ SessionsAreLive /\ AckedWasDelivered

-----------------------------------------------------------------------------
(* Sequences.                                                              *)

(* Induction up to n, for a set of numbers.                                *)
LEMMA UpTo ==
    ASSUME NEW n \in Nat, NEW T, 0 \in T, \A i \in 0..n : i \in T /\ i < n => i + 1 \in T
    PROVE  \A i \in 0..n : i \in T
<1>. DEFINE U == {i \in Nat : i <= n /\ i \notin T}
            R == OpToRel(<, Nat)
<1>1. SUFFICES ASSUME U # {} PROVE FALSE
  OBVIOUS
<1>2. IsWellFoundedOn(R, Nat)
  BY NatLessThanWellFounded
<1>3. U \subseteq Nat
  OBVIOUS
<1>. HIDE DEF R
<1>4. PICK x \in U : \A y \in U : ~(<<y, x>> \in R)
  BY <1>1, <1>2, <1>3, WFMin
<1>5. \A y \in U : ~(y < x)
  BY <1>3, <1>4 DEF R, OpToRel
<1>6. x # 0 /\ x \in Nat /\ x <= n /\ x \notin T
  OBVIOUS
<1>7. x - 1 \in Nat /\ x - 1 < x /\ x - 1 <= n /\ x - 1 < n
  BY <1>6
<1>8. x - 1 \in T
  BY <1>5, <1>7
<1>. QED
  BY <1>6, <1>7, <1>8

(* Dropping the members of S, step by step: the recursion has a solution.  *)
LEMMA WithoutDef ==
    ASSUME NEW D, NEW q \in Seq(D), NEW S
    PROVE  \E f : /\ f = [i \in 0..Len(q) |-> IF i = 0 THEN <<>>
                            ELSE IF q[i] \in S THEN f[i - 1] ELSE Append(f[i - 1], q[i])]
                  /\ Without(q, S) = f[Len(q)]
<1>. DEFINE Step(g, i) == IF i = 0 THEN <<>> ELSE IF q[i] \in S THEN g[i - 1] ELSE Append(g[i - 1], q[i])
            E(n) == \E g : g = [i \in 0..n |-> Step(g, i)]
            T == {n \in Nat : E(n)}
<1>1. 0 \in T
  <2>1. [i \in 0..0 |-> <<>>] = [i \in 0..0 |-> Step([j \in 0..0 |-> <<>>], i)]
    OBVIOUS
  <2>2. E(0)
    BY <2>1
  <2>. QED
    BY <2>2
<1>2. ASSUME NEW n \in Nat, n \in T PROVE n + 1 \in T
  <2>1. PICK g : g = [i \in 0..n |-> Step(g, i)]
    BY <1>2
  <2>. DEFINE h == [i \in 0..n + 1 |-> IF i <= n THEN g[i] ELSE Step(g, i)]
  <2>2. ASSUME NEW i \in 0..n + 1 PROVE h[i] = Step(h, i)
    <3>1. CASE i = 0
      BY <2>1, <3>1
    <3>2. CASE i # 0
      <4>1. h[i - 1] = g[i - 1]
        BY <3>2
      <4>2. h[i] = Step(g, i)
        <5>1. CASE i <= n
          <6>1. i \in 0..n /\ h[i] = g[i]
            BY <5>1
          <6>. HIDE DEF Step, h
          <6>. QED
            BY <2>1, <6>1
        <5>2. CASE ~(i <= n)
          BY <5>2
        <5>. QED
          BY <5>1, <5>2
      <4>. QED
        BY <3>2, <4>1, <4>2
    <3>. QED
      BY <3>1, <3>2
  <2>3. h = [i \in 0..n + 1 |-> Step(h, i)]
    <3>. HIDE DEF Step
    <3>. QED
      BY <2>2
  <2>4. E(n + 1)
    BY <2>3
  <2>. HIDE DEF E
  <2>. QED
    BY <2>4
<1>3. Len(q) \in Nat
  OBVIOUS
<1>. HIDE DEF T
<1>4. Len(q) \in T
  <2>1. \A i \in 0..Len(q) : i \in T /\ i < Len(q) => i + 1 \in T
    BY <1>2
  <2>. HIDE DEF T
  <2>2. \A i \in 0..Len(q) : i \in T
    BY <1>1, <1>3, <2>1, UpTo
  <2>. QED
    BY <1>3, <2>2
<1>5. E(Len(q))
  BY <1>4 DEF T
<1>. DEFINE F == CHOOSE g : g = [i \in 0..Len(q) |-> Step(g, i)]
<1>6. F = [i \in 0..Len(q) |-> Step(F, i)]
  BY <1>5
<1>7. Without(q, S) = F[Len(q)]
  BY DEF Without
<1>. QED
  BY <1>6, <1>7

(* What is left of an increasing queue is an increasing part of it.        *)
LEMMA WithoutFacts ==
    ASSUME NEW q \in Seq(Nat), NEW S, Increasing(q)
    PROVE  /\ Without(q, S) \in Seq(Nat) /\ Len(Without(q, S)) <= Len(q)
           /\ Increasing(Without(q, S))
           /\ \A k \in 1..Len(Without(q, S)) : \E j \in 1..Len(q) : Without(q, S)[k] = q[j] /\ q[j] \notin S
<1>1. PICK f : /\ f = [i \in 0..Len(q) |-> IF i = 0 THEN <<>>
                            ELSE IF q[i] \in S THEN f[i - 1] ELSE Append(f[i - 1], q[i])]
               /\ Without(q, S) = f[Len(q)]
  BY WithoutDef
<1>2. \A i \in 0..Len(q) : f[i] = IF i = 0 THEN <<>>
                            ELSE IF q[i] \in S THEN f[i - 1] ELSE Append(f[i - 1], q[i])
  BY <1>1
<1>. DEFINE P(i) == /\ f[i] \in Seq(Nat) /\ Len(f[i]) <= i
                    /\ Increasing(f[i])
                    /\ \A k \in 1..Len(f[i]) : \E j \in 1..i : f[i][k] = q[j] /\ q[j] \notin S
            T == {i \in Nat : P(i)}
<1>3. Len(q) \in Nat
  OBVIOUS
<1>4. 0 \in T
  <2>1. f[0] = <<>>
    BY <1>2, <1>3
  <2>2. /\ <<>> \in Seq(Nat) /\ Len(<<>>) <= 0 /\ Increasing(<<>>)
        /\ \A k \in 1..Len(<<>>) : \E j \in 1..0 : <<>>[k] = q[j] /\ q[j] \notin S
    BY DEF Increasing
  <2>3. P(0)
    BY <2>1, <2>2
  <2>. QED
    BY <2>3
<1>5. ASSUME NEW i \in 0..Len(q), i \in T, i < Len(q) PROVE i + 1 \in T
  <2>0. i + 1 \in 0..Len(q) /\ i + 1 # 0 /\ (i + 1) - 1 = i /\ i \in Nat /\ i + 1 \in 1..Len(q)
    BY <1>3, <1>5
  <2>1. P(i) /\ i + 1 \in 0..Len(q) /\ i + 1 # 0 /\ (i + 1) - 1 = i /\ i \in Nat /\ i + 1 \in 1..Len(q)
    <3>. HIDE DEF P
    <3>. QED
      BY <1>5, <2>0
  <2>2. f[i + 1] = IF q[i + 1] \in S THEN f[i] ELSE Append(f[i], q[i + 1])
    BY <1>2, <2>1
  <2>3. CASE q[i + 1] \in S
    <3>1. f[i + 1] = f[i]
      BY <2>2, <2>3
    <3>2. Len(f[i]) <= i + 1
      BY <2>1
    <3>3. \A k \in 1..Len(f[i]) : \E j \in 1..i + 1 : f[i][k] = q[j] /\ q[j] \notin S
      <4>1. 1..i \subseteq 1..i + 1
        BY <2>0
      <4>2. \A k \in 1..Len(f[i]) : \E j \in 1..i : f[i][k] = q[j] /\ q[j] \notin S
        BY <2>1
      <4>. QED
        BY <4>1, <4>2, Zenon
    <3>4. P(i + 1)
      BY <2>1, <3>1, <3>2, <3>3
    <3>. HIDE DEF P
    <3>. QED
      BY <2>0, <3>4
  <2>4. CASE q[i + 1] \notin S
    <3>. DEFINE g == f[i]
                m == q[i + 1]
    <3>1. f[i + 1] = Append(g, m) /\ g \in Seq(Nat) /\ m \in Nat
      BY <2>1, <2>2, <2>4
    <3>2. \A k \in 1..Len(g) : g[k] < m
      <4>. SUFFICES ASSUME NEW k \in 1..Len(g) PROVE g[k] < m
        OBVIOUS
      <4>1. PICK j \in 1..i : g[k] = q[j]
        BY <2>1
      <4>2. j \in DOMAIN q /\ i + 1 \in DOMAIN q /\ j < i + 1
        BY <2>1
      <4>. QED
        BY <4>1, <4>2 DEF Increasing
    <3>. HIDE DEF g, m
    <3>3. /\ Append(g, m) \in Seq(Nat) /\ Len(Append(g, m)) = Len(g) + 1 /\ Len(g) \in Nat
          /\ \A k \in 1..Len(g) : Append(g, m)[k] = g[k]
          /\ Append(g, m)[Len(g) + 1] = m
          /\ DOMAIN g = 1..Len(g) /\ DOMAIN Append(g, m) = 1..Len(g) + 1
      BY <3>1
    <3>4. Increasing(Append(g, m))
      <4>1. Increasing(g)
        BY <2>1 DEF g
      <4>. SUFFICES ASSUME NEW a \in 1..Len(g) + 1, NEW b \in 1..Len(g) + 1, a < b
                    PROVE  Append(g, m)[a] < Append(g, m)[b]
        BY <3>3 DEF Increasing
      <4>2. a \in 1..Len(g)
        BY <3>3
      <4>3. CASE b = Len(g) + 1
        BY <3>2, <3>3, <4>2, <4>3
      <4>4. CASE b # Len(g) + 1
        <5>0. ASSUME NEW n \in Nat, NEW x \in 1..n + 1, x # n + 1 PROVE x \in 1..n
          BY <5>0
        <5>1. b \in 1..Len(g)
          BY <3>3, <4>4, <5>0
        <5>. QED
          BY <3>3, <4>1, <4>2, <5>1 DEF Increasing
      <4>. QED
        BY <4>3, <4>4
    <3>5. \A k \in 1..Len(g) + 1 : \E j \in 1..i + 1 : Append(g, m)[k] = q[j] /\ q[j] \notin S
      <4>. SUFFICES ASSUME NEW k \in 1..Len(g) + 1
                    PROVE  \E j \in 1..i + 1 : Append(g, m)[k] = q[j] /\ q[j] \notin S
        OBVIOUS
      <4>1. CASE k = Len(g) + 1
        <5>1. i + 1 \in 1..i + 1
          BY <2>1
        <5>. QED
          BY <2>4, <3>3, <4>1, <5>1 DEF m
      <4>2. CASE k # Len(g) + 1
        <5>1. k \in 1..Len(g)
          BY <3>3, <4>2
        <5>2. PICK j \in 1..i : g[k] = q[j] /\ q[j] \notin S
          BY <2>1, <5>1 DEF g
        <5>3. j \in 1..i + 1
          BY <2>1
        <5>. QED
          BY <3>3, <5>1, <5>2, <5>3
      <4>. QED
        BY <4>1, <4>2
    <3>6. Len(Append(g, m)) <= i + 1
      <4>1. Len(g) <= i
        BY <2>1 DEF g
      <4>. QED
        BY <2>1, <3>3, <4>1
    <3>7. P(i + 1)
      BY <3>1, <3>3, <3>4, <3>5, <3>6
    <3>. HIDE DEF P
    <3>. QED
      BY <2>0, <3>7
  <2>. QED
    BY <2>3, <2>4
<1>6. Len(q) \in T
  <2>. HIDE DEF T
  <2>1. \A i \in 0..Len(q) : i \in T /\ i < Len(q) => i + 1 \in T
    BY <1>5
  <2>2. \A i \in 0..Len(q) : i \in T
    BY <1>3, <1>4, <2>1, UpTo
  <2>. QED
    BY <1>3, <2>2
<1>. QED
  BY <1>1, <1>6

-----------------------------------------------------------------------------
(* The wire.                                                               *)

(* The two devices are each other's peer.                                  *)
LEMMA TwoDevices ==
    ASSUME NEW p \in Devices
    PROVE  /\ Peer(p) \in Devices /\ Peer(p) # p /\ Peer(Peer(p)) = p
           /\ \A q \in Devices : q = p \/ q = Peer(p)
BY DevicesAssumption DEF Devices, Peer

(* A step in which every stream stays, loses its first frame or all of     *)
(* them, but for the one of connection c to q, where `out` may be added.   *)
Moves(c0, q0, out) ==
    /\ wire' \in [Conns -> [Devices -> Seq(Frames)]]
    /\ \A c \in Conns, q \in Devices :
        \/ wire'[c][q] = wire[c][q]
        \/ wire'[c][q] = <<>>
        \/ wire[c][q] # <<>> /\ wire'[c][q] = Tail(wire[c][q])
        \/ c = c0 /\ q = q0 /\ wire'[c][q] = wire[c][q] \o out

(* Putting frames on a stream, if it is there.                             *)
LEMMA PutMoves ==
    ASSUME Types, NEW p \in Devices, NEW c \in Conns, NEW out \in Seq(Frames),
           wire' = Put(wire, p, c, out)
    PROVE  Moves(c, Peer(p), out)
<1>1. Peer(p) \in Devices
  BY TwoDevices
<1>2. wire \in [Conns -> [Devices -> Seq(Frames)]]
  BY DEF Types
<1>3. CASE wire' = wire
  BY <1>2, <1>3 DEF Moves
<1>4. CASE wire' = [wire EXCEPT ![c][Peer(p)] = @ \o out]
  <2>1. wire[c][Peer(p)] \o out \in Seq(Frames)
    BY <1>1, <1>2
  <2>2. wire' \in [Conns -> [Devices -> Seq(Frames)]]
    BY <1>1, <1>2, <1>4, <2>1
  <2>3. \A d \in Conns, q \in Devices :
            wire'[d][q] = IF d = c /\ q = Peer(p) THEN wire[d][q] \o out ELSE wire[d][q]
    BY <1>1, <1>2, <1>4
  <2>. QED
    BY <2>2, <2>3 DEF Moves
<1>. QED
  BY <1>3, <1>4 DEF Put

(* The first frame is taken.                                               *)
LEMMA TakeMoves ==
    ASSUME Types, NEW p \in Devices, NEW c \in Conns, wire[c][p] # <<>>, NEW q0, NEW out,
           wire' = Take(p, c)
    PROVE  Moves(c, q0, out)
<1>2. wire \in [Conns -> [Devices -> Seq(Frames)]]
  BY DEF Types
<1>3. Tail(wire[c][p]) \in Seq(Frames)
  BY <1>2
<1>. QED
  BY <1>2, <1>3 DEF Moves, Take

(* The first frame is taken and an answer put on the stream back.          *)
LEMMA PutTakeMoves ==
    ASSUME Types, NEW p \in Devices, NEW c \in Conns, wire[c][p] # <<>>, NEW out \in Seq(Frames),
           wire' = Put(Take(p, c), p, c, out)
    PROVE  Moves(c, Peer(p), out)
<1>1. Peer(p) \in Devices /\ Peer(p) # p
  BY TwoDevices
<1>2. wire \in [Conns -> [Devices -> Seq(Frames)]]
  BY DEF Types
<1>3. Tail(wire[c][p]) \in Seq(Frames)
  BY <1>2
<1>4. CASE wire' = Take(p, c)
  BY <1>4, TakeMoves
<1>5. CASE wire' = [Take(p, c) EXCEPT ![c][Peer(p)] = @ \o out]
  <2>1. Take(p, c) \in [Conns -> [Devices -> Seq(Frames)]]
    BY <1>2, <1>3 DEF Take
  <2>2. \A d \in Conns, q \in Devices :
            Take(p, c)[d][q] = IF d = c /\ q = p THEN Tail(wire[c][p]) ELSE wire[d][q]
    BY <1>2 DEF Take
  <2>3. Take(p, c)[c][Peer(p)] \o out \in Seq(Frames)
    BY <1>1, <2>1
  <2>4. wire' \in [Conns -> [Devices -> Seq(Frames)]]
    BY <1>1, <1>5, <2>1, <2>3
  <2>5. \A d \in Conns, q \in Devices :
            wire'[d][q] = IF d = c /\ q = Peer(p) THEN Take(p, c)[d][q] \o out ELSE Take(p, c)[d][q]
    BY <1>1, <1>5, <2>1
  <2>6. \A d \in Conns, q \in Devices :
            wire'[d][q] = IF d = c /\ q = Peer(p) THEN wire[d][q] \o out
                          ELSE IF d = c /\ q = p THEN Tail(wire[d][q]) ELSE wire[d][q]
    BY <1>1, <2>2, <2>5
  <2>. QED
    BY <2>4, <2>6 DEF Moves
<1>. QED
  BY <1>4, <1>5 DEF Put

(* Where a frame on a stream was before the step: one place further back,  *)
(* in the same place, or in `out`.                                         *)
LEMMA WhereFrom ==
    ASSUME Types, NEW c0, NEW q0, NEW out \in Seq(Frames), Moves(c0, q0, out),
           NEW c \in Conns, NEW q \in Devices
    PROVE  \E k \in {0, 1} : \A i \in DOMAIN wire'[c][q] :
                \/ /\ i + k \in DOMAIN wire[c][q]
                   /\ wire'[c][q][i] = wire[c][q][i + k]
                \/ /\ c = c0 /\ q = q0
                   /\ i - Len(wire[c][q]) \in DOMAIN out
                   /\ wire'[c][q][i] = out[i - Len(wire[c][q])]
<1>. DEFINE w == wire[c][q]
            v == wire'[c][q]
<1>0. w \in Seq(Frames)
  BY DEF Types
<1>1. \/ v = w
      \/ v = <<>>
      \/ w # <<>> /\ v = Tail(w)
      \/ c = c0 /\ q = q0 /\ v = w \o out
  BY DEF Moves
<1>. HIDE DEF w, v
<1>2. CASE v = w
  <2>1. \A i \in DOMAIN v : i + 0 \in DOMAIN w /\ v[i] = w[i + 0]
    BY <1>0, <1>2
  <2>. QED
    BY <2>1 DEF v, w
<1>3. CASE v = <<>>
  <2>1. \A i \in DOMAIN v : FALSE
    BY <1>3
  <2>. QED
    BY <2>1 DEF v, w
<1>4. CASE w # <<>> /\ v = Tail(w)
  <2>1. \A i \in DOMAIN v : i + 1 \in DOMAIN w /\ v[i] = w[i + 1]
    BY <1>0, <1>4
  <2>. QED
    BY <2>1 DEF v, w
<1>5. CASE c = c0 /\ q = q0 /\ v = w \o out
  <2>1. Len(w) \in Nat /\ Len(out) \in Nat /\ DOMAIN w = 1..Len(w) /\ DOMAIN out = 1..Len(out)
        /\ DOMAIN v = 1..Len(w) + Len(out)
    BY <1>0, <1>5
  <2>2. ASSUME NEW i \in DOMAIN v
        PROVE  \/ i + 0 \in DOMAIN w /\ v[i] = w[i + 0]
               \/ i - Len(w) \in DOMAIN out /\ v[i] = out[i - Len(w)]
    <3>1. CASE i <= Len(w)
      BY <1>0, <1>5, <2>1, <3>1
    <3>2. CASE ~(i <= Len(w))
      <4>1. i - Len(w) \in 1..Len(out)
        BY <2>1, <3>2
      <4>2. v[i] = out[i - Len(w)]
        BY <1>0, <1>5, <2>1, <3>2
      <4>. QED
        BY <2>1, <4>1, <4>2
    <3>. QED
      BY <3>1, <3>2
  <2>. QED
    BY <1>5, <2>2 DEF v, w
<1>. QED
  BY <1>1, <1>2, <1>3, <1>4, <1>5

(* Texts stay sole when the ones that are added are, among each other and  *)
(* next to those that are there.                                           *)
LEMMA SoleStep ==
    ASSUME Types, TextsAreSole, NEW c0, NEW q0, NEW out \in Seq(Frames), Moves(c0, q0, out),
           \A n, k \in DOMAIN out : IsText(out[n]) /\ IsText(out[k]) /\ out[n].m = out[k].m => n = k,
           \A n \in DOMAIN out : IsText(out[n]) =>
                \A d \in Conns : \A j \in DOMAIN wire[d][q0] :
                    IsText(wire[d][q0][j]) => wire[d][q0][j].m # out[n].m
    PROVE  TextsAreSole'
<1>. SUFFICES ASSUME NEW q \in Devices, NEW c \in Conns, NEW d \in Conns,
                     NEW i \in DOMAIN wire'[c][q], NEW j \in DOMAIN wire'[d][q],
                     IsText(wire'[c][q][i]), IsText(wire'[d][q][j]),
                     wire'[c][q][i].m = wire'[d][q][j].m
              PROVE  c = d /\ i = j
  BY DEF TextsAreSole, IsText
<1>0. /\ \A e \in Conns : wire'[e][q] \in Seq(Frames) /\ wire[e][q] \in Seq(Frames)
      /\ \A e \in Conns : Len(wire[e][q]) \in Nat
  BY DEF Types, Moves
<1>0a. i \in Nat /\ j \in Nat
  BY <1>0
<1>1. PICK k \in {0, 1} : \A a \in DOMAIN wire'[c][q] :
                \/ a + k \in DOMAIN wire[c][q] /\ wire'[c][q][a] = wire[c][q][a + k]
                \/ /\ c = c0 /\ q = q0
                   /\ a - Len(wire[c][q]) \in DOMAIN out
                   /\ wire'[c][q][a] = out[a - Len(wire[c][q])]
  BY WhereFrom
<1>2. PICK l \in {0, 1} : (c = d => l = k) /\ \A a \in DOMAIN wire'[d][q] :
                \/ a + l \in DOMAIN wire[d][q] /\ wire'[d][q][a] = wire[d][q][a + l]
                \/ /\ d = c0 /\ q = q0
                   /\ a - Len(wire[d][q]) \in DOMAIN out
                   /\ wire'[d][q][a] = out[a - Len(wire[d][q])]
  <2>1. CASE c = d
    BY <1>1, <2>1
  <2>2. CASE c # d
    BY <2>2, WhereFrom
  <2>. QED
    BY <2>1, <2>2
<1>. DEFINE Old(e, a, b) == b \in DOMAIN wire[e][q] /\ wire'[e][q][a] = wire[e][q][b]
            New(e, a) == /\ e = c0 /\ q = q0 /\ a - Len(wire[e][q]) \in DOMAIN out
                         /\ wire'[e][q][a] = out[a - Len(wire[e][q])]
<1>3. (Old(c, i, i + k) \/ New(c, i)) /\ (Old(d, j, j + l) \/ New(d, j))
  BY <1>1, <1>2
<1>4. CASE Old(c, i, i + k) /\ Old(d, j, j + l)
  <2>1. c = d /\ i + k = j + l
    BY <1>4 DEF TextsAreSole
  <2>2. l = k
    BY <1>2, <2>1
  <2>. QED
    BY <1>0a, <2>1, <2>2
<1>5. CASE Old(c, i, i + k) /\ New(d, j)
  BY <1>5
<1>6. CASE New(c, i) /\ Old(d, j, j + l)
  BY <1>6
<1>7. CASE New(c, i) /\ New(d, j)
  <2>1. c = d /\ i - Len(wire[c][q]) = j - Len(wire[c][q])
    BY <1>7
  <2>. QED
    BY <1>0, <1>0a, <2>1
<1>. QED
  BY <1>3, <1>4, <1>5, <1>6, <1>7

(* Frames stay proper when what they are about does, and the ones added    *)
(* are.                                                                    *)
LEMMA ProperStep ==
    ASSUME Types, WireIsProper, NEW c0, NEW q0, NEW out \in Seq(Frames), Moves(c0, q0, out),
           \A q \in Devices, f \in Frames : Proper(q, f) => Proper(q, f)',
           \A n \in DOMAIN out : \A f \in Frames : f = out[n] => Proper(q0, f)'
    PROVE  WireIsProper'
<1>1. ASSUME NEW q \in Devices, NEW c \in Conns, NEW i \in DOMAIN wire'[c][q], NEW f \in Frames,
             f = wire'[c][q][i]
      PROVE  Proper(q, f)'
  <2>1. PICK k \in {0, 1} : \A a \in DOMAIN wire'[c][q] :
                \/ a + k \in DOMAIN wire[c][q] /\ wire'[c][q][a] = wire[c][q][a + k]
                \/ /\ c = c0 /\ q = q0
                   /\ a - Len(wire[c][q]) \in DOMAIN out
                   /\ wire'[c][q][a] = out[a - Len(wire[c][q])]
    BY WhereFrom
  <2>2. CASE i + k \in DOMAIN wire[c][q] /\ f = wire[c][q][i + k]
    <3>1. Proper(q, f)
      BY <2>2 DEF WireIsProper
    <3>. QED
      BY <3>1
  <2>3. CASE q = q0 /\ i - Len(wire[c][q]) \in DOMAIN out /\ f = out[i - Len(wire[c][q])]
    BY <2>3
  <2>. QED
    BY <1>1, <2>1, <2>2, <2>3
<1>2. ASSUME NEW q \in Devices, NEW c \in Conns, NEW i \in DOMAIN wire'[c][q]
      PROVE  wire'[c][q][i] \in Frames
  BY DEF Moves
<1>. QED
  BY <1>1, <1>2 DEF WireIsProper, Proper, IsText

-----------------------------------------------------------------------------
(* Connections, handshakes and the node.                                   *)

(* A step in which no text and no acknowledgement moves forward keeps all  *)
(* that is known about texts.                                              *)
LEMMA QuietStep ==
    ASSUME BehaviourInv, Types', SessionsAreLive',
           NEW c0, NEW q0, NEW out \in Seq(Frames), Moves(c0, q0, out),
           \A n \in DOMAIN out : out[n].type \in {"Hello", "Ready"},
           UNCHANGED <<pending, sent, delivered, acked>>
    PROVE  BehaviourInv'
<1>0. /\ Types /\ QueueInOrder /\ HandedOnce /\ WireIsProper /\ TextsAreSole /\ AckedWasDelivered
      /\ pending' = pending /\ sent' = sent /\ delivered' = delivered /\ acked' = acked
  BY DEF BehaviourInv
<1>1. QueueInOrder' /\ HandedOnce' /\ AckedWasDelivered'
  BY <1>0 DEF QueueInOrder, HandedOnce, AckedWasDelivered
<1>2. \A n \in DOMAIN out : ~IsText(out[n])
  BY DEF IsText
<1>3. TextsAreSole'
  BY <1>0, <1>2, SoleStep
<1>4. \A q \in Devices, f \in Frames : Proper(q, f) => Proper(q, f)'
  BY <1>0 DEF Proper, IsText, Limit
<1>5. \A n \in DOMAIN out : \A f \in Frames : f = out[n] => Proper(q0, f)'
  BY DEF Proper, IsText, SessionKinds
<1>6. WireIsProper'
  BY <1>0, <1>4, <1>5, ProperStep
<1>. QED
  BY <1>1, <1>3, <1>6 DEF BehaviourInv

(* A number no session's counters exceed.                                  *)
LEMMA LimitType == Msgs[A] \in Nat /\ Msgs[B] \in Nat /\ Limit \in Nat
<1>1. Msgs[A] \in Nat /\ Msgs[B] \in Nat
  BY TextsAssumption
<1>. QED
  BY <1>1 DEF Limit

(* Nothing moves on any wire.                                              *)
LEMMA StillMoves ==
    ASSUME Types, wire' = wire
    PROVE  /\ <<>> \in Seq(Frames) /\ Moves(0, 0, <<>>)
           /\ \A n \in DOMAIN <<>> : <<>>[n].type \in {"Hello", "Ready"}
<1>1. Moves(0, 0, <<>>)
  BY DEF Moves, Types
<1>2. <<>> \in Seq(Frames) /\ \A n \in DOMAIN <<>> : FALSE
  OBVIOUS
<1>. QED
  BY <1>1, <1>2

(* Sessions stay live while none changes and no connection goes down.      *)
LEMMA LiveSame ==
    ASSUME BehaviourInv, UNCHANGED <<sess, sent, delivered>>,
           \A p \in Devices, c \in Conns : hs'[p][c] \in {"hello", "authed"} => link'[c][p] = "up",
           \A p \in Devices, c \in Conns : link[c][p] = "up" => link'[c][p] = "up"
    PROVE  SessionsAreLive'
<1>1. SessionsAreLive /\ \A p \in Devices : sess[p].conn \in Conns \cup {0}
  BY DEF BehaviourInv, Types, Sessions
<1>. QED
  BY <1>1 DEF SessionsAreLive, Limit

(* Steps of the node, and what the network does to a connection before the *)
(* behaviour hears of it.                                                  *)
LEMMA NodeStep ==
    ASSUME BehaviourInv,
           \/ \E p \in Devices : NodeActs(p)
           \/ \E p \in Devices, c \in Conns : Dial(p, c)
           \/ \E c \in Conns : LinkFails(c)
    PROVE  BehaviourInv'
<1>0. Types
  BY DEF BehaviourInv
<1>1. UNCHANGED <<link, wire, hs, sess, pending, sent, delivered, acked>>
  BY DEF NodeActs, NodeEvent, NodeEstablished, NodeFailed, NodeDisconnected, AttemptSkipped,
         AttemptFails, Dial, LinkFails, connVars, logVars,
         nodeVars
<1>2. dialer' \in [Conns -> Devices \cup {0}] /\ closing' \subseteq Conns
  <2>1. CASE \E p \in Devices : NodeActs(p)
    BY <1>0, <2>1 DEF NodeActs, NodeEvent, NodeEstablished, NodeFailed, NodeDisconnected, AttemptSkipped,
         AttemptFails, connVars, Types
  <2>2. CASE \E p \in Devices, c \in Conns : Dial(p, c)
    BY <1>0, <2>2 DEF Dial, Types
  <2>3. CASE \E c \in Conns : LinkFails(c)
    BY <1>0, <2>3 DEF LinkFails, Types
  <2>. QED
    BY <2>1, <2>2, <2>3
<1>3. events' \in [Devices -> Seq(EventNames)]
  <2>1. CASE UNCHANGED events
    BY <1>0, <2>1 DEF Types
  <2>2. ASSUME NEW p \in Devices, events[p] # <<>>, events' = [events EXCEPT ![p] = Tail(@)]
        PROVE  events' \in [Devices -> Seq(EventNames)]
    <3>1. Tail(events[p]) \in Seq(EventNames)
      BY <1>0, <2>2 DEF Types
    <3>. QED
      BY <1>0, <2>2, <3>1 DEF Types
  <2>. QED
    BY <2>1, <2>2 DEF NodeActs, NodeEvent, NodeEstablished, NodeFailed, NodeDisconnected, AttemptSkipped,
         AttemptFails, NextEvent, Dial, LinkFails,
                      nodeVars
<1>4. Types'
  BY <1>0, <1>1, <1>2, <1>3 DEF Types
<1>5. SessionsAreLive'
  BY <1>1, LiveSame DEF BehaviourInv, SessionsAreLive
<1>. QED
  BY <1>0, <1>1, <1>4, <1>5, StillMoves, QuietStep

(* A handshake frame is a frame.                                           *)
LEMMA HsFrameFacts ==
    ASSUME NEW type \in {"Hello", "Ready"}
    PROVE  /\ <<HsFrame(type)>> \in Seq(Frames)
           /\ \A n \in DOMAIN <<HsFrame(type)>> : <<HsFrame(type)>>[n].type \in {"Hello", "Ready"}
<1>1. HsFrame(type) \in Frames /\ HsFrame(type).type \in {"Hello", "Ready"}
  BY DEF HsFrame, Frames
<1>2. <<HsFrame(type)>> \in Seq(Frames)
  BY <1>1
<1>3. DOMAIN <<HsFrame(type)>> = {1} /\ <<HsFrame(type)>>[1] = HsFrame(type)
  OBVIOUS
<1>. QED
  BY <1>1, <1>2, <1>3

(* Emitting an event.                                                      *)
LEMMA EmitType ==
    ASSUME Types, NEW p \in Devices, NEW e \in EventNames, Emit(p, e)
    PROVE  events' \in [Devices -> Seq(EventNames)]
<1>1. Append(events[p], e) \in Seq(EventNames)
  BY DEF Types
<1>. QED
  BY <1>1 DEF Emit, Types

(* A connection comes up, and its substream.                               *)
LEMMA UpStep ==
    ASSUME BehaviourInv, NEW p \in Devices, NEW c \in Conns,
           ConnectionEstablished(p, c) \/ SubstreamReady(p, c)
    PROVE  BehaviourInv'
<1>0. Types /\ SessionsAreLive
  BY DEF BehaviourInv
<1>1. CASE ConnectionEstablished(p, c)
  <2>1. /\ link' = [link EXCEPT ![c][p] = "up"]
        /\ UNCHANGED <<dialer, closing, wire, hs, sess, pending, events, sent, delivered, acked>>
    BY <1>1 DEF ConnectionEstablished, nodeVars, logVars
  <2>2. Types'
    BY <1>0, <2>1 DEF Types
  <2>3. \A r \in Devices, d \in Conns : link[d][r] = "up" => link'[d][r] = "up"
    BY <1>0, <2>1 DEF Types
  <2>4. \A r \in Devices, d \in Conns : hs'[r][d] \in {"hello", "authed"} => link'[d][r] = "up"
    BY <1>0, <2>1, <2>3 DEF SessionsAreLive
  <2>5. SessionsAreLive'
    BY <2>1, <2>3, <2>4, LiveSame
  <2>. QED
    BY <1>0, <2>1, <2>2, <2>5, StillMoves, QuietStep
<1>2. CASE SubstreamReady(p, c)
  <2>1. /\ link[c][p] = "up" /\ hs' = [hs EXCEPT ![p][c] = "hello"]
        /\ wire' = Put(wire, p, c, <<HsFrame("Hello")>>)
        /\ UNCHANGED <<dialer, link, closing, sess, pending, events, sent, delivered, acked>>
    BY <1>2 DEF SubstreamReady, connVars, nodeVars, logVars
  <2>2. Moves(c, Peer(p), <<HsFrame("Hello")>>)
    BY <1>0, <2>1, HsFrameFacts, PutMoves
  <2>3. hs' \in [Devices -> [Conns -> {"idle", "hello", "authed", "gone"}]]
    BY <1>0, <2>1 DEF Types
  <2>4. Types'
    BY <1>0, <2>1, <2>2, <2>3 DEF Types, Moves
  <2>5. \A r \in Devices, d \in Conns : hs'[r][d] \in {"hello", "authed"} => link'[d][r] = "up"
    BY <1>0, <2>1 DEF SessionsAreLive, Types
  <2>6. SessionsAreLive'
    BY <2>1, <2>5, LiveSame
  <2>. QED
    BY <2>1, <2>2, <2>4, <2>6, HsFrameFacts, QuietStep
<1>. QED
  BY <1>1, <1>2

(* A stream or a connection goes down, or a handshake runs out of time.    *)
LEMMA DownStep ==
    ASSUME BehaviourInv, NEW p \in Devices, NEW c \in Conns,
           StreamClosed(p, c) \/ ConnectionClosed(p, c) \/ HandshakeTimeout(p, c)
    PROVE  BehaviourInv'
<1>0. Types /\ SessionsAreLive
  BY DEF BehaviourInv
<1>1. /\ hs' = [hs EXCEPT ![p][c] = "gone"]
      /\ UNCHANGED <<dialer, pending, sent, delivered, acked>>
      /\ closing' \subseteq Conns
      /\ wire' = wire \/ wire' = [wire EXCEPT ![c][p] = <<>>]
  BY <1>0 DEF StreamClosed, ConnectionClosed, HandshakeTimeout, nodeVars, logVars, Types
<1>2. Moves(0, 0, <<>>)
  <2>1. CASE wire' = wire
    BY <1>0, <2>1, StillMoves
  <2>2. CASE wire' = [wire EXCEPT ![c][p] = <<>>]
    <3>1. <<>> \in Seq(Frames)
      OBVIOUS
    <3>2. wire' \in [Conns -> [Devices -> Seq(Frames)]]
      BY <1>0, <2>2, <3>1 DEF Types
    <3>3. \A d \in Conns, q \in Devices : wire'[d][q] = IF d = c /\ q = p THEN <<>> ELSE wire[d][q]
      BY <1>0, <2>2 DEF Types
    <3>. QED
      BY <3>2, <3>3 DEF Moves
  <2>. QED
    BY <1>1, <2>1, <2>2
<1>3. events' \in [Devices -> Seq(EventNames)]
  <2>1. CASE UNCHANGED events
    BY <1>0, <2>1 DEF Types
  <2>2. CASE Emit(p, "Disconnected") \/ Emit(p, "Failed")
    BY <1>0, <2>2, EmitType DEF EventNames
  <2>. QED
    BY <2>1, <2>2 DEF StreamClosed, ConnectionClosed, HandshakeTimeout, nodeVars
<1>4. \A r \in Devices, d \in Conns :
        hs'[r][d] \in {"hello", "authed"} => hs[r][d] = hs'[r][d] /\ ~(r = p /\ d = c)
  BY <1>0, <1>1 DEF Types
<1>5. Types' /\ SessionsAreLive'
  <2>1. CASE StreamClosed(p, c) \/ HandshakeTimeout(p, c)
    <3>1. UNCHANGED <<link, sess>>
      BY <2>1 DEF StreamClosed, HandshakeTimeout
    <3>2. Types'
      BY <1>0, <1>1, <1>2, <1>3, <3>1 DEF Types, Moves
    <3>3. \A r \in Devices, d \in Conns : hs'[r][d] \in {"hello", "authed"} => link'[d][r] = "up"
      BY <1>0, <1>4, <3>1 DEF SessionsAreLive
    <3>. QED
      BY <1>1, <3>1, <3>2, <3>3, LiveSame
  <2>2. CASE ConnectionClosed(p, c)
    <3>1. /\ link' = [link EXCEPT ![c][p] = "closed"]
          /\ sess' = IF sess[p].conn = c THEN [sess EXCEPT ![p] = NoSession] ELSE sess
      BY <2>2 DEF ConnectionClosed, AfterClose
    <3>2. NoSession \in Sessions /\ NoSession.conn = 0 /\ NoSession.out = 0 /\ NoSession.in = 0
      BY DEF NoSession, Sessions
    <3>3. sess' \in [Devices -> Sessions]
      BY <1>0, <3>1, <3>2 DEF Types
    <3>4. link' \in [Conns -> [Devices -> {"none", "up", "closed"}]]
      BY <1>0, <3>1 DEF Types
    <3>5. Types'
      BY <1>0, <1>1, <1>2, <1>3, <3>3, <3>4 DEF Types, Moves
    <3>6. \A r \in Devices, d \in Conns : link'[d][r] = IF r = p /\ d = c THEN "closed" ELSE link[d][r]
      BY <1>0, <3>1 DEF Types
    <3>7. \A r \in Devices :
            \/ sess'[r] = sess[r] /\ ~(r = p /\ sess[r].conn = c)
            \/ sess'[r] = NoSession
      BY <1>0, <3>1 DEF Types
    <3>8. ASSUME NEW r \in Devices
          PROVE  /\ \A d \in Conns : hs'[r][d] \in {"hello", "authed"} => link'[d][r] = "up"
                 /\ sess'[r].conn # 0 => link'[sess'[r].conn][r] = "up"
      <4>1. \A d \in Conns : hs'[r][d] \in {"hello", "authed"} => link'[d][r] = "up"
        BY <1>0, <1>4, <3>6 DEF SessionsAreLive
      <4>2. ASSUME sess'[r].conn # 0 PROVE link'[sess'[r].conn][r] = "up"
        <5>1. sess'[r] = sess[r] /\ ~(r = p /\ sess[r].conn = c) /\ sess[r].conn \in Conns
          BY <1>0, <3>2, <3>7, <4>2 DEF Types, Sessions
        <5>. QED
          BY <1>0, <3>6, <4>2, <5>1 DEF SessionsAreLive
      <4>. QED
        BY <4>1, <4>2
    <3>9. ASSUME NEW r \in Devices
          PROVE  sess'[r].out <= sent'[r] + Len(delivered'[r]) + 1 /\ sess'[r].in <= Limit'
      <4>1. sent[r] \in Nat /\ Len(delivered[r]) \in Nat /\ Limit \in Nat
        BY <1>0, LimitType DEF Types
      <4>2. CASE sess'[r] = sess[r]
        BY <1>0, <1>1, <4>2 DEF SessionsAreLive, Limit
      <4>3. CASE sess'[r] = NoSession
        <5>1. 0 <= sent[r] + Len(delivered[r]) + 1 /\ 0 <= Limit
          BY <4>1
        <5>. QED
          BY <1>1, <3>2, <4>3, <5>1 DEF Limit
      <4>. QED
        BY <3>7, <4>2, <4>3
    <3>. QED
      BY <3>5, <3>8, <3>9 DEF SessionsAreLive
  <2>. QED
    BY <2>1, <2>2
<1>6. <<>> \in Seq(Frames) /\ \A n \in DOMAIN <<>> : <<>>[n].type \in {"Hello", "Ready"}
  <2>1. <<>> \in Seq(Frames) /\ \A n \in DOMAIN <<>> : FALSE
    OBVIOUS
  <2>. QED
    BY <2>1
<1>. QED
  BY <1>1, <1>2, <1>5, <1>6, QuietStep

-----------------------------------------------------------------------------
(* Frames that bring no text.                                              *)

(* The first frame on a stream.                                            *)
LEMMA FirstFrame ==
    ASSUME BehaviourInv, NEW p \in Devices, NEW c \in Conns, wire[c][p] # <<>>
    PROVE  /\ Head(wire[c][p]) = wire[c][p][1] /\ 1 \in DOMAIN wire[c][p]
           /\ Head(wire[c][p]) \in Frames /\ Proper(p, Head(wire[c][p]))
<1>1. wire[c][p] \in Seq(Frames)
  BY DEF BehaviourInv, Types
<1>2. Head(wire[c][p]) = wire[c][p][1] /\ 1 \in DOMAIN wire[c][p] /\ Head(wire[c][p]) \in Frames
  BY <1>1
<1>. QED
  BY <1>2 DEF BehaviourInv, WireIsProper

(* A Hello is answered; a frame nobody waits for is dropped.               *)
LEMMA HelloDropStep ==
    ASSUME BehaviourInv, NEW p \in Devices, NEW c \in Conns, OnHello(p, c) \/ DropFrame(p, c)
    PROVE  BehaviourInv'
<1>0. Types /\ SessionsAreLive
  BY DEF BehaviourInv
<1>1. CASE OnHello(p, c)
  <2>1. /\ wire[c][p] # <<>> /\ hs[p][c] = "hello" /\ hs' = [hs EXCEPT ![p][c] = "authed"]
        /\ wire' = Put(Take(p, c), p, c, <<HsFrame("Ready")>>)
        /\ UNCHANGED <<dialer, link, closing, sess, pending, events, sent, delivered, acked>>
    BY <1>1 DEF OnHello, FrameAt, connVars, nodeVars, logVars
  <2>2. Moves(c, Peer(p), <<HsFrame("Ready")>>)
    BY <1>0, <2>1, HsFrameFacts, PutTakeMoves
  <2>3. hs' \in [Devices -> [Conns -> {"idle", "hello", "authed", "gone"}]]
    BY <1>0, <2>1 DEF Types
  <2>4. Types'
    BY <1>0, <2>1, <2>2, <2>3 DEF Types, Moves
  <2>5. \A r \in Devices, d \in Conns : hs'[r][d] \in {"hello", "authed"} => link'[d][r] = "up"
    BY <1>0, <2>1 DEF SessionsAreLive, Types
  <2>6. SessionsAreLive'
    BY <2>1, <2>5, LiveSame
  <2>. QED
    BY <2>1, <2>2, <2>4, <2>6, HsFrameFacts, QuietStep
<1>2. CASE DropFrame(p, c)
  <2>1. /\ wire[c][p] # <<>> /\ wire' = Take(p, c)
        /\ UNCHANGED <<dialer, link, closing, hs, sess, pending, events, sent, delivered, acked>>
    BY <1>2 DEF DropFrame, connVars, nodeVars, logVars
  <2>2. Moves(c, 0, <<>>)
    BY <1>0, <2>1, TakeMoves
  <2>3. Types'
    BY <1>0, <2>1, <2>2 DEF Types, Moves
  <2>4. SessionsAreLive'
    BY <1>0, <2>1, LiveSame DEF SessionsAreLive
  <2>5. <<>> \in Seq(Frames) /\ \A n \in DOMAIN <<>> : FALSE
    OBVIOUS
  <2>. QED
    BY <2>1, <2>2, <2>3, <2>4, <2>5, QuietStep
<1>. QED
  BY <1>1, <1>2

(* A refused frame costs the session, a text that is too long an event.    *)
LEMMA ErrorStep ==
    ASSUME BehaviourInv, NEW p \in Devices, NEW c \in Conns, OnSessionError(p, c)
    PROVE  BehaviourInv'
<1>0. Types /\ SessionsAreLive
  BY DEF BehaviourInv
<1>1. /\ wire[c][p] # <<>> /\ wire' = Take(p, c) /\ sess' = [sess EXCEPT ![p] = NoSession]
      /\ Emit(p, "Failed")
      /\ UNCHANGED <<dialer, link, closing, hs, pending, sent, delivered, acked>>
  BY DEF OnSessionError, FrameAt, connVars, nodeVars, logVars
<1>2. Moves(c, 0, <<>>)
  BY <1>0, <1>1, TakeMoves
<1>3. events' \in [Devices -> Seq(EventNames)]
  BY <1>0, <1>1, EmitType DEF EventNames
<1>4. NoSession \in Sessions /\ NoSession.conn = 0 /\ NoSession.out = 0 /\ NoSession.in = 0
  BY DEF NoSession, Sessions
<1>5. sess' \in [Devices -> Sessions]
  BY <1>0, <1>1, <1>4 DEF Types
<1>6. Types'
  BY <1>0, <1>1, <1>2, <1>3, <1>5 DEF Types, Moves
<1>7. \A r \in Devices : sess'[r] = sess[r] \/ sess'[r] = NoSession
  BY <1>0, <1>1 DEF Types
<1>8. ASSUME NEW r \in Devices
      PROVE  /\ \A d \in Conns : hs'[r][d] \in {"hello", "authed"} => link'[d][r] = "up"
             /\ sess'[r].conn # 0 => link'[sess'[r].conn][r] = "up"
             /\ sess'[r].out <= sent'[r] + Len(delivered'[r]) + 1 /\ sess'[r].in <= Limit'
  <2>1. \A d \in Conns : hs'[r][d] \in {"hello", "authed"} => link'[d][r] = "up"
    BY <1>0, <1>1 DEF SessionsAreLive
  <2>2. CASE sess'[r] = sess[r]
    BY <1>0, <1>1, <2>1, <2>2 DEF SessionsAreLive, Limit
  <2>3. CASE sess'[r] = NoSession
    <3>1. sent[r] \in Nat /\ Len(delivered[r]) \in Nat /\ Limit \in Nat
      BY <1>0, LimitType DEF Types
    <3>2. 0 <= sent[r] + Len(delivered[r]) + 1 /\ 0 <= Limit
      BY <3>1
    <3>. QED
      BY <1>1, <1>4, <2>1, <2>3, <3>2 DEF Limit
  <2>. QED
    BY <1>7, <2>2, <2>3
<1>9. SessionsAreLive'
  BY <1>8 DEF SessionsAreLive
<1>10. <<>> \in Seq(Frames) /\ \A n \in DOMAIN <<>> : FALSE
  OBVIOUS
<1>. QED
  BY <1>1, <1>2, <1>6, <1>9, <1>10, QuietStep

(* An acknowledgement is of a text that arrived.                           *)
LEMMA AckStep ==
    ASSUME BehaviourInv, NEW p \in Devices, NEW c \in Conns, OnAckOrControl(p, c)
    PROVE  BehaviourInv'
<1>. DEFINE f == Head(wire[c][p])
<1>0. /\ Types /\ QueueInOrder /\ HandedOnce /\ WireIsProper /\ TextsAreSole /\ SessionsAreLive
      /\ AckedWasDelivered
  BY DEF BehaviourInv
<1>1. /\ wire[c][p] # <<>> /\ wire' = Take(p, c) /\ sess' = [sess EXCEPT ![p].in = @ + 1]
      /\ f.seq = sess[p].in /\ f.type \in {"Ack", "Control"}
      /\ acked' = IF f.type = "Ack" THEN [acked EXCEPT ![p] = @ \cup {f.m}] ELSE acked
      /\ UNCHANGED <<dialer, link, closing, hs, pending, events, sent, delivered>>
  BY DEF OnAckOrControl, FrameAt, Accepts, connVars, nodeVars
<1>2. f \in Frames /\ Proper(p, f)
  BY <1>1, FirstFrame
<1>3. f.m \in Nat /\ f.seq \in Nat /\ f.seq < Limit /\ (f.type = "Ack" => f.m \in Range(delivered[Peer(p)]))
  BY <1>1, <1>2 DEF Proper, Frames, SessionKinds
<1>. HIDE DEF f
<1>4. Moves(c, 0, <<>>)
  BY <1>0, <1>1, TakeMoves
<1>5. acked' \in [Devices -> SUBSET Nat] /\ AckedWasDelivered'
  <2>1. CASE f.type # "Ack"
    BY <1>0, <1>1, <2>1 DEF Types, AckedWasDelivered
  <2>2. CASE f.type = "Ack"
    <3>1. acked' = [acked EXCEPT ![p] = @ \cup {f.m}]
      BY <1>1, <2>2
    <3>2. \A r \in Devices : acked'[r] = IF r = p THEN acked[r] \cup {f.m} ELSE acked[r]
      BY <1>0, <3>1 DEF Types
    <3>3. acked' \in [Devices -> SUBSET Nat]
      BY <1>0, <1>3, <3>1 DEF Types
    <3>4. ASSUME NEW r \in Devices PROVE acked'[r] \subseteq Range(delivered'[Peer(r)])
      BY <1>0, <1>1, <1>3, <2>2, <3>2 DEF AckedWasDelivered
    <3>. QED
      BY <3>3, <3>4 DEF AckedWasDelivered
  <2>. QED
    BY <2>1, <2>2
<1>6. sess' \in [Devices -> Sessions]
  <2>1. sess[p] \in Sessions /\ sess[p].in + 1 \in Nat
    BY <1>0 DEF Types, Sessions
  <2>2. [sess[p] EXCEPT !.in = sess[p].in + 1] \in Sessions
    BY <2>1 DEF Sessions
  <2>. QED
    BY <1>0, <1>1, <2>2 DEF Types
<1>7. Types'
  BY <1>0, <1>1, <1>4, <1>5, <1>6 DEF Types, Moves
<1>8. /\ \A r \in Devices : sess'[r].conn = sess[r].conn /\ sess'[r].out = sess[r].out
      /\ \A r \in Devices : sess'[r].in = IF r = p THEN f.seq + 1 ELSE sess[r].in
  BY <1>0, <1>1 DEF Types, Sessions
<1>9. SessionsAreLive'
  <2>1. f.seq + 1 <= Limit
    BY <1>3, LimitType
  <2>2. \A r \in Devices : sess'[r].in <= Limit
    BY <1>0, <1>8, <2>1 DEF SessionsAreLive
  <2>. QED
    BY <1>0, <1>1, <1>8, <2>2 DEF SessionsAreLive, Limit
<1>10. QueueInOrder' /\ HandedOnce'
  BY <1>0, <1>1 DEF QueueInOrder, HandedOnce
<1>11. <<>> \in Seq(Frames) /\ \A n \in DOMAIN <<>> : FALSE
  OBVIOUS
<1>12. TextsAreSole'
  BY <1>0, <1>4, <1>11, SoleStep
<1>13. \A q \in Devices, g \in Frames : Proper(q, g) => Proper(q, g)'
  BY <1>1 DEF Proper, IsText, Limit
<1>14. WireIsProper'
  BY <1>0, <1>4, <1>11, <1>13, ProperStep
<1>. QED
  BY <1>5, <1>7, <1>9, <1>10, <1>12, <1>14 DEF BehaviourInv

-----------------------------------------------------------------------------
(* Texts.                                                                  *)

(* What a sequence holds after one more.                                   *)
LEMMA AppendFacts ==
    ASSUME NEW s \in Seq(Nat), NEW m \in Nat
    PROVE  /\ Append(s, m) \in Seq(Nat) /\ Len(Append(s, m)) = Len(s) + 1 /\ Len(s) \in Nat
           /\ DOMAIN s = 1..Len(s) /\ DOMAIN Append(s, m) = 1..Len(s) + 1
           /\ \A i \in 1..Len(s) : Append(s, m)[i] = s[i]
           /\ Append(s, m)[Len(s) + 1] = m
           /\ Range(Append(s, m)) = Range(s) \cup {m}
<1>1. /\ Append(s, m) \in Seq(Nat) /\ Len(Append(s, m)) = Len(s) + 1 /\ Len(s) \in Nat
      /\ DOMAIN s = 1..Len(s) /\ DOMAIN Append(s, m) = 1..Len(s) + 1
      /\ \A i \in 1..Len(s) : Append(s, m)[i] = s[i]
      /\ Append(s, m)[Len(s) + 1] = m
  OBVIOUS
<1>2. 1..Len(s) + 1 = 1..Len(s) \cup {Len(s) + 1}
  BY <1>1
<1>3. {Append(s, m)[i] : i \in 1..Len(s) + 1} = {s[i] : i \in 1..Len(s)} \cup {m}
  <2>. HIDE <1>1
  <2>. DEFINE t == Append(s, m)
  <2>1. t[Len(s) + 1] = m /\ \A i \in 1..Len(s) : t[i] = s[i]
    BY <1>1
  <2>. HIDE DEF t
  <2>2. {t[i] : i \in 1..Len(s) + 1} = {s[i] : i \in 1..Len(s)} \cup {m}
    BY <1>2, <2>1, Zenon
  <2>. QED
    BY <2>2 DEF t
<1>. QED
  BY <1>1, <1>3 DEF Range

(* A sequence without repetitions is no longer than what it is made of.    *)
LEMMA Pigeons ==
    ASSUME NEW s \in Seq(Nat), NEW n \in Nat, Range(s) \subseteq 1..n,
           \A i, j \in DOMAIN s : s[i] = s[j] => i = j
    PROVE  Len(s) <= n
<1>1. Len(s) \in Nat /\ DOMAIN s = 1..Len(s)
  OBVIOUS
<1>2. s \in [1..Len(s) -> 1..n]
  BY <1>1 DEF Range
<1>3. s \in Injection(1..Len(s), 1..n)
  BY <1>1, <1>2 DEF Injection, IsInjective
<1>4. /\ IsFiniteSet(1..n) /\ Cardinality(1..n) = IF 1 > n THEN 0 ELSE n - 1 + 1
      /\ Cardinality(1..Len(s)) = IF 1 > Len(s) THEN 0 ELSE Len(s) - 1 + 1
  <2>1. 1 \in Int /\ n \in Int /\ Len(s) \in Int
    BY <1>1
  <2>2. IsFiniteSet(1..n) /\ Cardinality(1..n) = IF 1 > n THEN 0 ELSE n - 1 + 1
    BY <2>1, FS_Interval
  <2>3. Cardinality(1..Len(s)) = IF 1 > Len(s) THEN 0 ELSE Len(s) - 1 + 1
    BY <2>1, FS_Interval
  <2>. QED
    BY <2>2, <2>3
<1>5. Cardinality(1..n) = n /\ Cardinality(1..Len(s)) = Len(s)
  <2>1. ASSUME NEW k \in Nat PROVE (IF 1 > k THEN 0 ELSE k - 1 + 1) = k
    OBVIOUS
  <2>. QED
    BY <1>1, <1>4, <2>1
<1>6. Cardinality(1..Len(s)) <= Cardinality(1..n)
  BY <1>3, <1>4, FS_Injection
<1>. QED
  BY <1>5, <1>6

(* A stream the head of which is taken, and the others to the same device. *)
LEMMA AfterTake ==
    ASSUME Types, NEW p \in Devices, NEW c \in Conns, NEW out,
           wire' = Put(Take(p, c), p, c, out)
    PROVE  /\ wire'[c][p] = Tail(wire[c][p])
           /\ \A d \in Conns : d # c => wire'[d][p] = wire[d][p]
<1>1. Peer(p) \in Devices /\ Peer(p) # p /\ wire \in [Conns -> [Devices -> Seq(Frames)]]
  BY TwoDevices DEF Types
<1>2. Take(p, c)[c][p] = Tail(wire[c][p]) /\ \A d \in Conns : d # c => Take(p, c)[d][p] = wire[d][p]
  BY <1>1 DEF Take
<1>3. DOMAIN Take(p, c) = Conns /\ DOMAIN Take(p, c)[c] = Devices
  BY <1>1 DEF Take
<1>. QED
  BY <1>1, <1>2, <1>3 DEF Put

(* A text is taken off the wire, handed to the node and acknowledged.  No  *)
(* other frame carries it, and the node has not had it yet.                *)
LEMMA MessageStep ==
    ASSUME BehaviourInv, NEW p \in Devices, NEW c \in Conns, OnMessage(p, c)
    PROVE  BehaviourInv'
<1>. DEFINE f == Head(wire[c][p])
            ack == SessionFrame("Ack", sess[p], 0, f.m)
            m == f.m
<1>0. /\ Types /\ QueueInOrder /\ HandedOnce /\ WireIsProper /\ TextsAreSole /\ SessionsAreLive
      /\ AckedWasDelivered
      /\ Peer(p) \in Devices /\ Peer(p) # p /\ Peer(Peer(p)) = p /\ \A q \in Devices : q = p \/ q = Peer(p)
  BY TwoDevices DEF BehaviourInv
<1>1. /\ wire[c][p] # <<>> /\ wire' = Put(Take(p, c), p, c, <<ack>>)
      /\ sess' = [sess EXCEPT ![p].in = @ + 1, ![p].out = @ + 1]
      /\ delivered' = [delivered EXCEPT ![p] = Append(@, m)]
      /\ f.seq = sess[p].in /\ f.type = "Message"
      /\ UNCHANGED <<dialer, link, closing, hs, pending, events, sent, acked>>
  BY DEF OnMessage, FrameAt, Accepts, connVars, nodeVars
<1>2. f \in Frames /\ Proper(p, f) /\ f = wire[c][p][1] /\ 1 \in DOMAIN wire[c][p]
  BY <1>1, FirstFrame
<1>3. /\ m \in Nat /\ f.seq \in Nat /\ f.seq < Limit /\ IsText(f)
      /\ m \in 1..sent[Peer(p)] /\ m \notin Range(pending[Peer(p)]) /\ m \notin Range(delivered[p])
  BY <1>1, <1>2 DEF Proper, Frames, SessionKinds, IsText
<1>4. sess[p] \in Sessions /\ sess[p].out \in Nat /\ sess[p].in \in Nat /\ sess[p].conn \in Conns \cup {0}
      /\ delivered[p] \in Seq(Nat)
  BY <1>0 DEF Types, Sessions
<1>5. ack \in Frames /\ ack.type = "Ack" /\ ack.m = m /\ ack.seq = sess[p].out
  <2>1. sess[p].out + 0 = sess[p].out
    BY <1>4
  <2>2. ack = [type |-> "Ack", sid |-> sess[p].conn, seq |-> sess[p].out, m |-> m]
    BY <2>1 DEF SessionFrame
  <2>. QED
    BY <1>3, <1>4, <2>2 DEF Frames, SessionKinds
<1>6. <<ack>> \in Seq(Frames) /\ DOMAIN <<ack>> = {1} /\ <<ack>>[1] = ack
  <2>. HIDE DEF ack
  <2>. QED
    BY <1>5
<1>7. Moves(c, Peer(p), <<ack>>)
  BY <1>0, <1>1, <1>6, PutTakeMoves
<1>8. wire'[c][p] = Tail(wire[c][p]) /\ \A d \in Conns : d # c => wire'[d][p] = wire[d][p]
  BY <1>0, <1>1, AfterTake
<1>. HIDE DEF f, m, ack
<1>9. /\ delivered'[p] = Append(delivered[p], m) /\ delivered'[Peer(p)] = delivered[Peer(p)]
      /\ delivered' \in [Devices -> Seq(Nat)]
      /\ Range(delivered'[p]) = Range(delivered[p]) \cup {m}
      /\ Len(delivered'[p]) = Len(delivered[p]) + 1 /\ Len(delivered[p]) \in Nat
  <2>1. Append(delivered[p], m) \in Seq(Nat)
    BY <1>3, <1>4
  <2>2. delivered' = [delivered EXCEPT ![p] = Append(delivered[p], m)]
    BY <1>1
  <2>3. delivered'[p] = Append(delivered[p], m) /\ delivered'[Peer(p)] = delivered[Peer(p)]
      /\ delivered' \in [Devices -> Seq(Nat)]
    BY <1>0, <2>1, <2>2 DEF Types
  <2>. QED
    BY <1>3, <1>4, <2>3, AppendFacts
<1>10. HandedOnce'
  <2>1. \A i, j \in DOMAIN delivered'[p] : delivered'[p][i] = delivered'[p][j] => i = j
    <3>1. \A i, j \in DOMAIN delivered[p] : delivered[p][i] = delivered[p][j] => i = j
      BY <1>0 DEF HandedOnce
    <3>2. \A i \in DOMAIN delivered[p] : delivered[p][i] # m
      BY <1>3 DEF Range
    <3>. DEFINE s == delivered[p]
                t == delivered'[p]
    <3>3. /\ t = Append(s, m) /\ s \in Seq(Nat) /\ m \in Nat
      BY <1>3, <1>4, <1>9
    <3>4. /\ Len(s) \in Nat /\ DOMAIN s = 1..Len(s) /\ DOMAIN t = 1..Len(s) + 1
          /\ \A i \in 1..Len(s) : t[i] = s[i]
          /\ t[Len(s) + 1] = m
      BY <3>3, AppendFacts
    <3>5. \A i \in DOMAIN t : i \in DOMAIN s \/ i = Len(s) + 1
      BY <3>4
    <3>. HIDE DEF s, t
    <3>. QED
      BY <3>1, <3>2, <3>4, <3>5 DEF s, t
  <2>2. /\ Range(delivered'[p]) \subseteq 1..sent[Peer(p)]
        /\ Range(delivered'[p]) \cap Range(pending[Peer(p)]) = {}
    <3>1. /\ Range(delivered[p]) \subseteq 1..sent[Peer(p)]
          /\ Range(delivered[p]) \cap Range(pending[Peer(p)]) = {}
      BY <1>0 DEF HandedOnce
    <3>2. ASSUME NEW S, NEW T, NEW U, NEW x, S \subseteq T, S \cap U = {}, x \in T, x \notin U
          PROVE  S \cup {x} \subseteq T /\ (S \cup {x}) \cap U = {}
      BY <3>2
    <3>. QED
      BY <1>3, <1>9, <3>1, <3>2
  <2>3. ASSUME NEW q \in Devices
        PROVE  /\ Range(delivered'[q]) \subseteq 1..sent[Peer(q)]
               /\ Range(delivered'[q]) \cap Range(pending[Peer(q)]) = {}
               /\ \A i, j \in DOMAIN delivered'[q] : delivered'[q][i] = delivered'[q][j] => i = j
    <3>1. CASE q = p
      BY <2>1, <2>2, <3>1
    <3>2. CASE q = Peer(p)
      <4>1. delivered'[q] = delivered[q]
        BY <1>9, <3>2
      <4>. QED
        BY <1>0, <4>1 DEF HandedOnce
    <3>. QED
      BY <1>0, <3>1, <3>2
  <2>. QED
    BY <1>1, <2>3 DEF HandedOnce
<1>11. sess[p].out + 1 <= sent[p] + Len(delivered'[p]) + 1 /\ sess[p].out < Limit
  <2>1. sess[p].out <= sent[p] + Len(delivered[p]) + 1 /\ sent[p] \in Nat /\ sent[Peer(p)] \in Nat
    BY <1>0 DEF SessionsAreLive, Types
  <2>2. Len(delivered'[p]) <= sent[Peer(p)]
    <3>1. delivered'[p] \in Seq(Nat) /\ Range(delivered'[p]) \subseteq 1..sent[Peer(p)]
          /\ \A i, j \in DOMAIN delivered'[p] : delivered'[p][i] = delivered'[p][j] => i = j
      BY <1>1, <1>9, <1>10 DEF HandedOnce
    <3>. QED
      BY <2>1, <3>1, Pigeons
  <2>3. sent[p] <= Msgs[p] /\ sent[Peer(p)] <= Msgs[Peer(p)]
    BY <1>0 DEF QueueInOrder
  <2>4. Limit = Msgs[p] + Msgs[Peer(p)] + 1 /\ Msgs[p] \in Nat /\ Msgs[Peer(p)] \in Nat
    <3>1. CASE p = A
      BY <3>1, LimitType DEF Limit, Peer
    <3>2. CASE p = B
      <4>1. Peer(p) = A /\ Msgs[A] + Msgs[B] = Msgs[B] + Msgs[A]
        BY <3>2, LimitType, DevicesAssumption DEF Peer
      <4>. QED
        BY <3>2, <4>1, LimitType DEF Limit
    <3>. QED
      BY <3>1, <3>2 DEF Devices
  <2>5. sess[p].out \in Nat /\ Len(delivered[p]) \in Nat /\ Len(delivered'[p]) = Len(delivered[p]) + 1
    BY <1>4, <1>9
  <2>6. ASSUME NEW o \in Nat, NEW a \in Nat, NEW b \in Nat, NEW n \in Nat, NEW x \in Nat, NEW y \in Nat,
               o <= a + n + 1, n + 1 <= b, a <= x, b <= y
        PROVE  o < x + y + 1 /\ o + 1 <= a + (n + 1) + 1
    BY <2>6
  <2>. QED
    BY <2>1, <2>2, <2>3, <2>4, <2>5, <2>6
<1>12. sess' \in [Devices -> Sessions]
  <2>1. [sess[p] EXCEPT !.in = sess[p].in + 1, !.out = sess[p].out + 1] \in Sessions
    <3>1. sess[p].in + 1 \in Nat /\ sess[p].out + 1 \in Nat
      BY <1>4
    <3>2. ASSUME NEW s \in Sessions, NEW a \in Nat, NEW b \in Nat
          PROVE  [s EXCEPT !.in = a, !.out = b] \in Sessions
      BY DEF Sessions
    <3>. QED
      BY <1>4, <3>1, <3>2
  <2>2. sess' = [sess EXCEPT ![p] = [sess[p] EXCEPT !.in = sess[p].in + 1, !.out = sess[p].out + 1]]
    BY <1>0, <1>1, <1>4 DEF Types, Sessions
  <2>. QED
    BY <1>0, <2>1, <2>2 DEF Types
<1>13. Types'
  BY <1>0, <1>1, <1>7, <1>9, <1>12 DEF Types, Moves
<1>14. SessionsAreLive'
  <2>1. /\ \A r \in Devices : sess'[r].conn = sess[r].conn
        /\ sess'[p].out = sess[p].out + 1 /\ sess'[p].in = sess[p].in + 1
        /\ sess'[Peer(p)] = sess[Peer(p)]
    BY <1>0, <1>1, <1>4 DEF Types, Sessions
  <2>2. sess[p].in + 1 <= Limit
    BY <1>1, <1>3, <1>4, LimitType
  <2>3. ASSUME NEW r \in Devices
        PROVE  sess'[r].out <= sent[r] + Len(delivered'[r]) + 1 /\ sess'[r].in <= Limit
    <3>1. CASE r = p
      BY <1>11, <2>1, <2>2, <3>1
    <3>2. CASE r = Peer(p)
      BY <1>0, <1>9, <2>1, <3>2 DEF SessionsAreLive
    <3>. QED
      BY <1>0, <3>1, <3>2
  <2>. QED
    BY <1>0, <1>1, <2>1, <2>3 DEF SessionsAreLive, Limit
<1>15. QueueInOrder'
  BY <1>0, <1>1 DEF QueueInOrder
<1>16. AckedWasDelivered'
  BY <1>0, <1>1, <1>9 DEF AckedWasDelivered
<1>17. TextsAreSole'
  <2>1. \A n \in DOMAIN <<ack>> : ~IsText(<<ack>>[n])
    BY <1>5, <1>6 DEF IsText
  <2>. HIDE DEF Moves
  <2>. QED
    BY <1>0, <1>6, <1>7, <2>1, SoleStep
<1>18. WireIsProper'
  <2>1. \A q \in Devices, g \in Frames :
            Proper(q, g) => Proper(q, g)' \/ (q = p /\ IsText(g) /\ g.m = m)
    BY <1>0, <1>1, <1>9 DEF Proper, IsText, Limit
  <2>2. ASSUME NEW d \in Conns, NEW i \in DOMAIN wire'[d][p], IsText(wire'[d][p][i]),
               wire'[d][p][i].m = m
        PROVE  FALSE
    <3>1. CASE d # c
      <4>1. wire'[d][p] = wire[d][p]
        BY <1>8, <3>1
      <4>. QED
        BY <1>0, <1>2, <1>3, <2>2, <3>1, <4>1 DEF TextsAreSole, m
    <3>2. CASE d = c
      <4>1. wire'[c][p] = Tail(wire[c][p]) /\ wire[c][p] \in Seq(Frames) /\ wire[c][p] # <<>>
        BY <1>0, <1>1, <1>8 DEF Types
      <4>2. ASSUME NEW S, NEW w \in Seq(S), w # <<>>, NEW k \in DOMAIN Tail(w)
            PROVE  k + 1 \in DOMAIN w /\ Tail(w)[k] = w[k + 1] /\ k + 1 # 1
        BY <4>2
      <4>3. i + 1 \in DOMAIN wire[c][p] /\ wire'[c][p][i] = wire[c][p][i + 1] /\ i + 1 # 1
        BY <2>2, <3>2, <4>1, <4>2
      <4>. QED
        BY <1>0, <1>2, <1>3, <2>2, <3>2, <4>3 DEF TextsAreSole, m
    <3>. QED
      BY <3>1, <3>2
  <2>3. \A g \in Frames : g = ack => Proper(Peer(p), g)'
    BY <1>0, <1>5, <1>9, <1>11 DEF Proper, IsText, Limit
  <2>4. ASSUME NEW q \in Devices, NEW d \in Conns, NEW i \in DOMAIN wire'[d][q], NEW g \in Frames,
               g = wire'[d][q][i]
        PROVE  Proper(q, g)'
    <3>1. PICK k \in {0, 1} : \A a \in DOMAIN wire'[d][q] :
                \/ a + k \in DOMAIN wire[d][q] /\ wire'[d][q][a] = wire[d][q][a + k]
                \/ /\ d = c /\ q = Peer(p)
                   /\ a - Len(wire[d][q]) \in DOMAIN <<ack>>
                   /\ wire'[d][q][a] = <<ack>>[a - Len(wire[d][q])]
      BY <1>0, <1>6, <1>7, WhereFrom, SMTT(30)
    <3>2. CASE i + k \in DOMAIN wire[d][q] /\ g = wire[d][q][i + k]
      <4>1. Proper(q, g)
        BY <1>0, <3>2 DEF WireIsProper
      <4>. QED
        BY <2>1, <2>2, <2>4, <4>1
    <3>3. CASE q = Peer(p) /\ g = ack
      BY <2>3, <3>3
    <3>. QED
      BY <1>6, <2>4, <3>1, <3>2, <3>3
  <2>5. ASSUME NEW q \in Devices, NEW d \in Conns, NEW i \in DOMAIN wire'[d][q]
        PROVE  wire'[d][q][i] \in Frames
    BY <1>7 DEF Moves
  <2>. QED
    BY <2>4, <2>5 DEF WireIsProper, Proper, IsText
<1>. QED
  BY <1>10, <1>13, <1>14, <1>15, <1>16, <1>17, <1>18 DEF BehaviourInv

(* What is known of the texts that were sent before the next one.          *)
LEMMA SendFacts ==
    ASSUME BehaviourInv, NEW p \in Devices, SendMessage(p)
    PROVE  /\ sent[p] \in Nat /\ sent'[p] = sent[p] + 1 /\ sent' \in [Devices -> Nat]
           /\ sent[p] + 1 <= Msgs[p]
           /\ \A q \in Devices : q # p => sent'[q] = sent[q]
           /\ \A q \in Devices : 1..sent[q] \subseteq 1..sent'[q]
           /\ \A q \in Devices : sent[q] <= sent'[q] /\ sent'[q] <= Msgs[q]
           /\ \A x \in 1..sent[p] : x # sent[p] + 1
           /\ UNCHANGED <<dialer, link, closing, hs, delivered, acked>>
<1>1. /\ sent \in [Devices -> Nat] /\ sent[p] < Msgs[p] /\ sent' = [sent EXCEPT ![p] = sent[p] + 1]
      /\ \A q \in Devices : sent[q] <= Msgs[q]
      /\ UNCHANGED <<dialer, link, closing, hs, delivered, acked>>
  BY DEF BehaviourInv, Types, QueueInOrder, SendMessage
<1>2. Msgs[p] \in Nat /\ sent[p] \in Nat
  BY <1>1, LimitType DEF Devices
<1>3. /\ sent'[p] = sent[p] + 1 /\ sent' \in [Devices -> Nat] /\ sent[p] + 1 <= Msgs[p]
      /\ \A q \in Devices : q # p => sent'[q] = sent[q]
      /\ \A x \in 1..sent[p] : x # sent[p] + 1
  BY <1>1, <1>2
<1>4. ASSUME NEW q \in Devices
      PROVE  1..sent[q] \subseteq 1..sent'[q] /\ sent[q] <= sent'[q] /\ sent'[q] <= Msgs[q]
  <2>1. CASE q = p
    BY <1>2, <1>3, <2>1
  <2>2. CASE q # p
    <3>1. sent'[q] = sent[q] /\ sent[q] \in Nat
      BY <1>1, <1>3, <2>2
    <3>. QED
      BY <1>1, <3>1
  <2>. QED
    BY <2>1, <2>2
<1>. QED
  BY <1>1, <1>2, <1>3, <1>4

(* A text is queued behind the others.                                     *)
LEMMA QueuedStep ==
    ASSUME BehaviourInv, NEW p \in Devices, SendMessage(p), Queued(p, sent[p] + 1)
    PROVE  BehaviourInv'
<1>. DEFINE m == sent[p] + 1
<1>0. /\ Types /\ QueueInOrder /\ HandedOnce /\ WireIsProper /\ TextsAreSole /\ SessionsAreLive
      /\ AckedWasDelivered
      /\ Peer(p) \in Devices /\ Peer(p) # p /\ Peer(Peer(p)) = p /\ \A q \in Devices : q = p \/ q = Peer(p)
  BY TwoDevices DEF BehaviourInv
<1>1. /\ pending' = [pending EXCEPT ![p] = Append(pending[p], m)]
      /\ UNCHANGED <<wire, sess, events>>
      /\ UNCHANGED <<dialer, link, closing, hs, delivered, acked>>
  BY DEF Queued, Enqueue, SendMessage
<1>2. /\ sent[p] \in Nat /\ m \in Nat /\ pending[p] \in Seq(Nat)
      /\ Range(pending[p]) \subseteq 1..sent[p] /\ Increasing(pending[p]) /\ Len(pending[p]) <= sent[p]
  BY <1>0 DEF Types, QueueInOrder
<1>3. /\ sent'[p] = m /\ sent' \in [Devices -> Nat]
      /\ \A q \in Devices : q # p => sent'[q] = sent[q]
      /\ \A q \in Devices : 1..sent[q] \subseteq 1..sent'[q]
      /\ \A q \in Devices : sent[q] <= sent'[q] /\ sent'[q] <= Msgs[q]
      /\ \A x \in 1..sent[p] : x # m
  BY SendFacts
<1>. HIDE DEF m
<1>4. /\ Append(pending[p], m) \in Seq(Nat) /\ Len(Append(pending[p], m)) = Len(pending[p]) + 1
      /\ Len(pending[p]) \in Nat
      /\ DOMAIN pending[p] = 1..Len(pending[p]) /\ DOMAIN Append(pending[p], m) = 1..Len(pending[p]) + 1
      /\ \A i \in 1..Len(pending[p]) : Append(pending[p], m)[i] = pending[p][i]
      /\ Append(pending[p], m)[Len(pending[p]) + 1] = m
      /\ Range(Append(pending[p], m)) = Range(pending[p]) \cup {m}
  BY <1>2, AppendFacts
<1>5. /\ pending' \in [Devices -> Seq(Nat)] /\ pending'[p] = Append(pending[p], m)
      /\ pending'[Peer(p)] = pending[Peer(p)]
  BY <1>0, <1>1, <1>4 DEF Types
<1>6. Types'
  BY <1>0, <1>1, <1>3, <1>5 DEF Types
<1>7. Increasing(Append(pending[p], m))
  <2>. DEFINE s == pending[p]
              t == Append(pending[p], m)
  <2>1. \A i \in 1..Len(s) : s[i] < m
    <3>1. \A i \in 1..Len(s) : s[i] \in 1..sent[p]
      BY <1>2, <1>4 DEF Range
    <3>. QED
      BY <1>2, <3>1 DEF m
  <2>2. /\ Len(s) \in Nat /\ DOMAIN t = 1..Len(s) + 1 /\ DOMAIN s = 1..Len(s)
        /\ \A i \in 1..Len(s) : t[i] = s[i]
        /\ t[Len(s) + 1] = m /\ Increasing(s)
    BY <1>2, <1>4
  <2>. HIDE DEF s, t
  <2>3. ASSUME NEW i \in 1..Len(s) + 1, NEW j \in 1..Len(s) + 1, i < j PROVE t[i] < t[j]
    <3>1. i \in 1..Len(s)
      BY <2>2, <2>3
    <3>2. CASE j = Len(s) + 1
      BY <2>1, <2>2, <3>1, <3>2
    <3>3. CASE j # Len(s) + 1
      <4>1. j \in 1..Len(s)
        BY <2>2, <3>3
      <4>. QED
        BY <2>2, <2>3, <3>1, <4>1 DEF Increasing
    <3>. QED
      BY <3>2, <3>3
  <2>4. Increasing(t)
    BY <2>2, <2>3 DEF Increasing
  <2>. QED
    BY <2>4 DEF t
<1>8. QueueInOrder'
  <2>1. m \in 1..m /\ Len(pending[p]) + 1 <= m
    BY <1>2, <1>4 DEF m
  <2>2. Range(pending'[p]) \subseteq 1..m
    BY <1>2, <1>3, <1>4, <1>5, <2>1
  <2>3. ASSUME NEW q \in Devices
        PROVE  /\ sent'[q] <= Msgs[q] /\ Increasing(pending'[q]) /\ Len(pending'[q]) <= sent'[q]
               /\ Range(pending'[q]) \subseteq 1..sent'[q]
    <3>1. CASE q = p
      BY <1>3, <1>4, <1>5, <1>7, <2>1, <2>2, <3>1
    <3>2. CASE q = Peer(p)
      BY <1>0, <1>3, <1>5, <3>2 DEF QueueInOrder
    <3>. QED
      BY <1>0, <3>1, <3>2
  <2>. QED
    BY <2>3 DEF QueueInOrder, Increasing
<1>9. m \notin Range(delivered[Peer(p)])
  BY <1>0, <1>3 DEF HandedOnce
<1>10. HandedOnce'
  <2>1. ASSUME NEW q \in Devices
        PROVE  /\ Range(delivered[q]) \subseteq 1..sent'[Peer(q)]
               /\ Range(delivered[q]) \cap Range(pending'[Peer(q)]) = {}
    <3>1. /\ Range(delivered[q]) \subseteq 1..sent[Peer(q)]
          /\ Range(delivered[q]) \cap Range(pending[Peer(q)]) = {} /\ Peer(q) \in Devices
      BY <1>0, TwoDevices DEF HandedOnce
    <3>2. CASE q = p
      BY <1>0, <1>3, <1>5, <3>1, <3>2
    <3>3. CASE q = Peer(p)
      <4>1. Peer(q) = p /\ m \notin Range(delivered[q])
        BY <1>0, <1>9, <3>3
      <4>. QED
        BY <1>3, <1>4, <1>5, <3>1, <4>1
    <3>. QED
      BY <1>0, <3>2, <3>3
  <2>. QED
    BY <1>0, <1>1, <2>1 DEF HandedOnce
<1>11. WireIsProper'
  <2>1. ASSUME NEW q \in Devices, NEW f \in Frames, Proper(q, f) PROVE Proper(q, f)'
    <3>1. CASE q = p
      BY <1>0, <1>1, <1>3, <1>5, <2>1, <3>1 DEF Proper, IsText, Limit
    <3>2. CASE q = Peer(p)
      <4>1. IsText(f) => f.m \in 1..sent[p] /\ f.m \notin Range(pending[p]) /\ f.m \notin Range(delivered[q])
        BY <1>0, <2>1, <3>2 DEF Proper
      <4>2. IsText(f) => f.m \in 1..sent'[p] /\ f.m \notin Range(pending'[p]) /\ f.m \notin Range(delivered'[q])
        BY <1>1, <1>3, <1>4, <1>5, <4>1
      <4>. QED
        BY <1>0, <1>1, <2>1, <3>2, <4>2 DEF Proper, IsText, Limit
    <3>. QED
      BY <1>0, <3>1, <3>2
  <2>2. <<>> \in Seq(Frames) /\ \A n \in DOMAIN <<>> : FALSE
    OBVIOUS
  <2>. QED
    BY <1>0, <1>1, <2>1, <2>2, StillMoves, ProperStep
<1>12. TextsAreSole' /\ AckedWasDelivered'
  BY <1>0, <1>1 DEF TextsAreSole, AckedWasDelivered, IsText
<1>13. SessionsAreLive'
  <2>1. ASSUME NEW q \in Devices PROVE sess[q].out <= sent'[q] + Len(delivered[q]) + 1
    <3>1. sess[q].out \in Nat /\ sent[q] \in Nat /\ sent'[q] \in Nat /\ Len(delivered[q]) \in Nat
      <4>1. sess[q] \in Sessions /\ sent[q] \in Nat /\ delivered[q] \in Seq(Nat)
        BY <1>0 DEF Types
      <4>2. sess[q].out \in Nat
        BY <4>1 DEF Sessions
      <4>3. Len(delivered[q]) \in Nat
        BY <4>1
      <4>4. sent'[q] \in Nat
        BY <1>3
      <4>. QED
        BY <4>1, <4>2, <4>3, <4>4
    <3>2. sess[q].out <= sent[q] + Len(delivered[q]) + 1 /\ sent[q] <= sent'[q]
      BY <1>0, <1>3 DEF SessionsAreLive
    <3>. QED
      BY <3>1, <3>2
  <2>. QED
    BY <1>0, <1>1, <2>1 DEF SessionsAreLive, Limit
<1>. QED
  BY <1>6, <1>8, <1>10, <1>11, <1>12, <1>13 DEF BehaviourInv

(* A text is encrypted and put on the wire, or refused for its length; it  *)
(* is one that was nowhere before.                                         *)
LEMMA EncryptedStep ==
    ASSUME BehaviourInv, NEW p \in Devices, SendMessage(p),
           Encrypted(p, sent[p] + 1) \/ Refused(p, sent[p] + 1)
    PROVE  BehaviourInv'
<1>. DEFINE m == sent[p] + 1
            f == SessionFrame("Message", sess[p], 0, m)
            c == sess[p].conn
<1>0. /\ Types /\ QueueInOrder /\ HandedOnce /\ WireIsProper /\ TextsAreSole /\ SessionsAreLive
      /\ AckedWasDelivered
      /\ Peer(p) \in Devices /\ Peer(p) # p /\ Peer(Peer(p)) = p /\ \A q \in Devices : q = p \/ q = Peer(p)
  BY TwoDevices DEF BehaviourInv
<1>1. /\ sent[p] \in Nat /\ m \in Nat /\ sent'[p] = m /\ sent' \in [Devices -> Nat] /\ m <= Msgs[p]
      /\ \A q \in Devices : q # p => sent'[q] = sent[q]
      /\ \A q \in Devices : 1..sent[q] \subseteq 1..sent'[q]
      /\ \A q \in Devices : sent[q] <= sent'[q] /\ sent'[q] <= Msgs[q]
      /\ \A x \in 1..sent[p] : x # m
      /\ UNCHANGED <<dialer, link, closing, hs, delivered, acked>>
  <2>1. ASSUME NEW n \in Nat PROVE n + 1 \in Nat
    OBVIOUS
  <2>. QED
    BY <2>1, SendFacts
<1>2. c \in Conns /\ sess[p].out \in Nat /\ sess[p] \in Sessions /\ UNCHANGED pending
  BY <1>0 DEF Types, Sessions, Encrypted, Refused, HasSession
<1>3. sess[p].out < Limit /\ sess[p].out + 1 <= m + Len(delivered[p]) + 1
  <2>1. sess[p].out <= sent[p] + Len(delivered[p]) + 1 /\ sent[p] < m
    BY <1>0, <1>1 DEF SessionsAreLive
  <2>2. delivered[p] \in Seq(Nat) /\ sent[Peer(p)] \in Nat /\ Len(delivered[p]) \in Nat
    BY <1>0 DEF Types
  <2>3. Len(delivered[p]) <= sent[Peer(p)] /\ sent[Peer(p)] <= Msgs[Peer(p)]
    BY <1>0, <2>2, Pigeons DEF HandedOnce, QueueInOrder
  <2>4. Limit = Msgs[p] + Msgs[Peer(p)] + 1 /\ Msgs[p] \in Nat /\ Msgs[Peer(p)] \in Nat
    <3>1. CASE p = A
      BY <3>1, LimitType DEF Limit, Peer
    <3>2. CASE p = B
      <4>1. Peer(p) = A /\ Msgs[A] + Msgs[B] = Msgs[B] + Msgs[A]
        BY <3>2, LimitType, DevicesAssumption DEF Peer
      <4>. QED
        BY <3>2, <4>1, LimitType DEF Limit
    <3>. QED
      BY <3>1, <3>2 DEF Devices
  <2>5. ASSUME NEW o \in Nat, NEW a \in Nat, NEW b \in Nat, NEW n \in Nat, NEW x \in Nat, NEW y \in Nat,
               o <= a + n + 1, n <= b, a + 1 <= x, b <= y
        PROVE  o < x + y + 1 /\ o + 1 <= (a + 1) + n + 1
    BY <2>5
  <2>6. sess[p].out < Limit /\ sess[p].out + 1 <= (sent[p] + 1) + Len(delivered[p]) + 1
    BY <1>1, <1>2, <2>1, <2>2, <2>3, <2>4, <2>5
  <2>. QED
    BY <2>6
<1>4. f \in Frames /\ f.type = "Message" /\ f.m = m /\ f.seq = sess[p].out
  <2>1. sess[p].out + 0 = sess[p].out
    BY <1>2
  <2>2. f = [type |-> "Message", sid |-> c, seq |-> sess[p].out, m |-> m]
    BY <2>1 DEF SessionFrame
  <2>. HIDE DEF m, c
  <2>. QED
    BY <1>1, <1>2, <2>2 DEF Frames, SessionKinds
<1>. HIDE DEF f, m
<1>5. <<f>> \in Seq(Frames) /\ DOMAIN <<f>> = {1} /\ <<f>>[1] = f
  BY <1>4
<1>6. Moves(c, Peer(p), <<f>>)
  <2>1. CASE Encrypted(p, m)
    BY <1>0, <1>2, <1>5, <2>1, PutMoves DEF Encrypted, f
  <2>2. CASE Refused(p, m)
    BY <1>0, <2>2 DEF Refused, Moves, Types
  <2>. QED
    BY <2>1, <2>2 DEF m
<1>7. events' \in [Devices -> Seq(EventNames)]
  <2>1. CASE Encrypted(p, m)
    BY <1>0, <2>1 DEF Encrypted, Types
  <2>2. CASE Refused(p, m)
    BY <1>0, <2>2, EmitType DEF Refused, EventNames
  <2>. QED
    BY <2>1, <2>2 DEF m
<1>8. /\ sess' \in [Devices -> Sessions] /\ sess'[Peer(p)] = sess[Peer(p)]
      /\ sess'[p].conn = sess[p].conn /\ sess'[p].in = sess[p].in
      /\ sess'[p].out = sess[p].out \/ sess'[p].out = sess[p].out + 1
  <2>1. CASE Encrypted(p, m)
    <3>1. sess' = [sess EXCEPT ![p] = [sess[p] EXCEPT !.out = sess[p].out + 1]]
      BY <1>0, <1>2, <2>1 DEF Encrypted, Types, Sessions
    <3>2. sess[p].out + 1 \in Nat
      BY <1>2
    <3>3. [sess[p] EXCEPT !.out = sess[p].out + 1] \in Sessions
      BY <1>2, <3>2 DEF Sessions
    <3>. QED
      BY <1>0, <1>2, <3>1, <3>3 DEF Types, Sessions
  <2>2. CASE Refused(p, m)
    BY <1>0, <2>2 DEF Refused, Types
  <2>. QED
    BY <2>1, <2>2 DEF m
<1>9. Types'
  BY <1>0, <1>1, <1>2, <1>6, <1>7, <1>8 DEF Types, Moves
<1>10. QueueInOrder'
  <2>1. ASSUME NEW q \in Devices
        PROVE  /\ sent'[q] <= Msgs[q] /\ Increasing(pending[q]) /\ Len(pending[q]) <= sent'[q]
               /\ Range(pending[q]) \subseteq 1..sent'[q]
    <3>1. /\ Len(pending[q]) <= sent[q] /\ sent[q] <= sent'[q] /\ Increasing(pending[q])
          /\ Range(pending[q]) \subseteq 1..sent[q] /\ 1..sent[q] \subseteq 1..sent'[q]
          /\ Len(pending[q]) \in Nat /\ sent[q] \in Nat /\ sent'[q] \in Nat /\ sent'[q] <= Msgs[q]
      BY <1>0, <1>1 DEF QueueInOrder, Types
    <3>2. Range(pending[q]) \subseteq 1..sent'[q]
      BY <3>1
    <3>. QED
      BY <3>1, <3>2
  <2>. QED
    BY <1>2, <2>1 DEF QueueInOrder
<1>11. HandedOnce'
  <2>1. ASSUME NEW q \in Devices PROVE Range(delivered[q]) \subseteq 1..sent'[Peer(q)]
    <3>1. Range(delivered[q]) \subseteq 1..sent[Peer(q)] /\ Peer(q) \in Devices
      BY <1>0, TwoDevices DEF HandedOnce
    <3>. QED
      BY <1>1, <3>1
  <2>. QED
    BY <1>0, <1>1, <1>2, <2>1 DEF HandedOnce
<1>12. TextsAreSole'
  <2>1. \A d \in Conns : \A j \in DOMAIN wire[d][Peer(p)] :
            IsText(wire[d][Peer(p)][j]) => wire[d][Peer(p)][j].m # m
    BY <1>0, <1>1 DEF WireIsProper, Proper
  <2>3. PICK out \in Seq(Frames), c0 \in Conns, q0 \in Devices : out = <<f>> /\ c0 = c /\ q0 = Peer(p)
    BY <1>0, <1>2, <1>5
  <2>4. /\ \A n, k \in DOMAIN out : n = k
        /\ \A n \in DOMAIN out : out[n].m = m
    BY <1>4, <1>5, <2>3
  <2>5. \A d \in Conns : \A j \in DOMAIN wire[d][q0] : IsText(wire[d][q0][j]) => wire[d][q0][j].m # m
    BY <2>1, <2>3
  <2>6. Moves(c0, q0, out)
    BY <1>6, <2>3
  <2>. QED
    BY <1>0, <2>4, <2>5, <2>6, SoleStep
<1>13. WireIsProper'
  <2>1. ASSUME NEW q \in Devices, NEW g \in Frames, Proper(q, g) PROVE Proper(q, g)'
    <3>1. Peer(q) \in Devices
      BY TwoDevices
    <3>. QED
      BY <1>1, <1>2, <2>1, <3>1 DEF Proper, IsText, Limit
  <2>2. \A g \in Frames : g = f => Proper(Peer(p), g)'
    <3>1. m \in 1..sent'[p]
      BY <1>1 DEF m
    <3>2. m \notin Range(pending[p])
      BY <1>0, <1>1 DEF QueueInOrder
    <3>3. m \notin Range(delivered[Peer(p)])
      BY <1>0, <1>1 DEF HandedOnce
    <3>. QED
      BY <1>0, <1>1, <1>2, <1>3, <1>4, <3>1, <3>2, <3>3 DEF Proper, IsText, Limit
  <2>3. \A n \in DOMAIN <<f>> : \A g \in Frames : g = <<f>>[n] => Proper(Peer(p), g)'
    BY <1>5, <2>2
  <2>. QED
    BY <1>0, <1>5, <1>6, <2>1, <2>3, ProperStep
<1>14. AckedWasDelivered'
  BY <1>0, <1>1 DEF AckedWasDelivered
<1>15. SessionsAreLive'
  <2>1. ASSUME NEW q \in Devices PROVE sess'[q].out <= sent'[q] + Len(delivered[q]) + 1
    <3>1. sess[q].out \in Nat /\ sent[q] \in Nat /\ sent'[q] \in Nat /\ Len(delivered[q]) \in Nat
      <4>1. sess[q] \in Sessions /\ sent[q] \in Nat /\ delivered[q] \in Seq(Nat)
        BY <1>0 DEF Types
      <4>2. sess[q].out \in Nat
        BY <4>1 DEF Sessions
      <4>3. Len(delivered[q]) \in Nat
        BY <4>1
      <4>4. sent'[q] \in Nat
        BY <1>1
      <4>. QED
        BY <4>1, <4>2, <4>3, <4>4
    <3>2. sess[q].out <= sent[q] + Len(delivered[q]) + 1 /\ sent[q] <= sent'[q]
      BY <1>0, <1>1 DEF SessionsAreLive
    <3>3. sess[q].out <= sent'[q] + Len(delivered[q]) + 1
      BY <3>1, <3>2
    <3>4. CASE q = p
      BY <1>1, <1>3, <1>8, <3>3, <3>4
    <3>5. CASE q = Peer(p)
      BY <1>8, <3>3, <3>5
    <3>. QED
      BY <1>0, <3>4, <3>5
  <2>2. \A q \in Devices : sess'[q].conn = sess[q].conn /\ sess'[q].in = sess[q].in
    BY <1>0, <1>8
  <2>. QED
    BY <1>0, <1>1, <2>1, <2>2 DEF SessionsAreLive, Limit
<1>. QED
  BY <1>9, <1>10, <1>11, <1>12, <1>13, <1>14, <1>15 DEF BehaviourInv

(* What a device sends when its session is established: texts of its queue *)
(* in their order, numbered from 0, and at most one report.                *)
IsFlush(p, c, out) ==
    /\ out = FlushPending(NewSession(c), p) \o ReportObserved(NewSession(c), p, c)
    /\ Len(out) <= sent[p] + 1
    /\ \A k \in DOMAIN out :
        /\ out[k].type \in {"Message", "Control"} /\ out[k].sid = c /\ out[k].seq = k - 1
        /\ IsText(out[k]) => out[k].m \in Range(pending[p])
    /\ \A k, l \in DOMAIN out :
        k < l /\ IsText(out[k]) /\ IsText(out[l]) => out[k].m < out[l].m

(* Opening a session puts such a flush on its connection: the frames that  *)
(* on_ready encrypts are texts of the queue in their order.                *)
LEMMA ReadyFrames ==
    ASSUME BehaviourInv, NEW p \in Devices, NEW c \in Conns
    PROVE  \E out \in Seq(Frames) : IsFlush(p, c, out)
<1>. DEFINE q == pending[p]
            t == Fitting(p)
            n == Len(t)
            a == [i \in 1..n |-> [type |-> "Message", sid |-> c, seq |-> i - 1, m |-> t[i]]]
            b == [type |-> "Control", sid |-> c, seq |-> n, m |-> 0]
<1>1. q \in Seq(Nat) /\ Increasing(q) /\ Len(q) <= sent[p] /\ sent[p] \in Nat
  BY DEF BehaviourInv, Types, QueueInOrder
<1>2. /\ t \in Seq(Nat) /\ Len(t) <= Len(q) /\ Increasing(t)
      /\ \A k \in 1..n : \E j \in 1..Len(q) : t[k] = q[j]
  BY <1>1, WithoutFacts, SMTT(30) DEF Fitting
<1>3. n \in Nat /\ DOMAIN t = 1..n /\ n <= sent[p]
  <2>1. n \in Nat /\ DOMAIN t = 1..n /\ Len(q) \in Nat
    BY <1>1, <1>2
  <2>. HIDE DEF n, t, q
  <2>2. Len(t) <= sent[p]
    BY <1>1, <1>2, <2>1 DEF n
  <2>. QED
    BY <2>1, <2>2 DEF n
<1>4. FlushPending(NewSession(c), p) = a
  <2>1. \A i \in 1..n : SessionFrame("Message", NewSession(c), i - 1, t[i])
                            = [type |-> "Message", sid |-> c, seq |-> i - 1, m |-> t[i]]
    BY <1>3 DEF SessionFrame, NewSession
  <2>. QED
    BY <2>1 DEF FlushPending
<1>5. ReportObserved(NewSession(c), p, c) = <<b>> \/ ReportObserved(NewSession(c), p, c) = <<>>
  <2>1. SessionFrame("Control", NewSession(c), n, 0) = b
    BY <1>3 DEF SessionFrame, NewSession
  <2>. QED
    BY <2>1 DEF ReportObserved
<1>6. \A k \in 1..n : t[k] \in Range(q) /\ t[k] \in Nat
  <2>1. DOMAIN q = 1..Len(q)
    BY <1>1
  <2>. QED
    <3>. SUFFICES ASSUME NEW k \in 1..n PROVE t[k] \in Range(q) /\ t[k] \in Nat
      OBVIOUS
    <3>1. PICK j \in 1..Len(q) : t[k] = q[j]
      BY <1>2
    <3>2. q[j] \in Nat /\ q[j] \in Range(q)
      BY <1>1, <2>1 DEF Range
    <3>. QED
      BY <3>1, <3>2
<1>7. \A k, l \in 1..n : k < l => t[k] < t[l]
  BY <1>2, <1>3 DEF Increasing
<1>. HIDE DEF n, t, q
<1>8. /\ a \in Seq(Frames) /\ Len(a) = n /\ DOMAIN a = 1..n
      /\ \A k \in 1..n : a[k].type = "Message" /\ a[k].sid = c /\ a[k].seq = k - 1 /\ a[k].m = t[k]
  <2>1. \A k \in 1..n : a[k] \in Frames
    <3>1. \A k \in 1..n : k - 1 \in Nat
      BY <1>3
    <3>. QED
      BY <1>6, <3>1 DEF Frames, SessionKinds
  <2>2. a \in [1..n -> Frames]
    BY <2>1
  <2>. QED
    BY <1>3, <2>2
<1>9. b \in Frames /\ b.type = "Control" /\ b.sid = c /\ b.seq = n
  BY <1>3 DEF Frames, SessionKinds
<1>. HIDE DEF a, b
<1>10. CASE ReportObserved(NewSession(c), p, c) = <<>>
  <2>1. a \o <<>> = a
    BY <1>8
  <2>2. Len(a) <= sent[p] + 1
    BY <1>1, <1>3, <1>8
  <2>3. FlushPending(NewSession(c), p) \o ReportObserved(NewSession(c), p, c) = a
    BY <1>4, <1>10, <2>1
  <2>4. \A k \in 1..n : /\ a[k].type \in {"Message", "Control"} /\ a[k].sid = c /\ a[k].seq = k - 1
                        /\ IsText(a[k]) => a[k].m \in Range(q)
    BY <1>6, <1>8
  <2>5. \A k, l \in 1..n : k < l /\ IsText(a[k]) /\ IsText(a[l]) => a[k].m < a[l].m
    BY <1>7, <1>8
  <2>7. IsFlush(p, c, a)
    BY <1>8, <2>2, <2>3, <2>4, <2>5 DEF q, IsFlush
  <2>. QED
    BY <1>8, <2>7
<1>11. CASE ReportObserved(NewSession(c), p, c) = <<b>>
  <2>. DEFINE o == a \o <<b>>
  <2>1. /\ o \in Seq(Frames) /\ Len(o) = n + 1 /\ DOMAIN o = 1..n + 1
        /\ \A k \in 1..n : o[k] = a[k]
        /\ o[n + 1] = b
    BY <1>3, <1>8, <1>9
  <2>. HIDE DEF o
  <2>2. /\ n + 1 <= sent[p] + 1 /\ (n + 1) - 1 = n
        /\ \A k \in 1..n + 1 : k \in 1..n \/ k = n + 1
    BY <1>1, <1>3
  <2>3. ~IsText(o[n + 1])
    BY <1>9, <2>1 DEF IsText
  <2>4. \A k \in 1..n + 1 : /\ o[k].type \in {"Message", "Control"} /\ o[k].sid = c /\ o[k].seq = k - 1
                            /\ IsText(o[k]) => o[k].m \in Range(q)
    BY <1>6, <1>8, <1>9, <2>1, <2>2, <2>3
  <2>5. \A k, l \in 1..n + 1 : k < l /\ IsText(o[k]) /\ IsText(o[l]) => o[k].m < o[l].m
    BY <1>7, <1>8, <2>1, <2>2, <2>3
  <2>6. FlushPending(NewSession(c), p) \o ReportObserved(NewSession(c), p, c) = o
    BY <1>4, <1>11 DEF o
  <2>. QED
    BY <2>1, <2>2, <2>4, <2>5, <2>6 DEF q, IsFlush
<1>. QED
  BY <1>5, <1>10, <1>11

(* A session is established: the texts of the queue are now on the wire.   *)
LEMMA ReadyStep ==
    ASSUME BehaviourInv, NEW p \in Devices, NEW c \in Conns, OnReady(p, c)
    PROVE  BehaviourInv'
<1>0. /\ Types /\ QueueInOrder /\ HandedOnce /\ WireIsProper /\ TextsAreSole /\ SessionsAreLive
      /\ AckedWasDelivered
      /\ Peer(p) \in Devices /\ Peer(p) # p /\ Peer(Peer(p)) = p /\ \A q \in Devices : q = p \/ q = Peer(p)
  BY TwoDevices DEF BehaviourInv
<1>a. PICK out \in Seq(Frames) : IsFlush(p, c, out)
  BY ReadyFrames
<1>1. /\ out = FlushPending(NewSession(c), p) \o ReportObserved(NewSession(c), p, c)
      /\ Len(out) <= sent[p] + 1
      /\ \A k \in DOMAIN out :
            /\ out[k].type \in {"Message", "Control"} /\ out[k].sid = c /\ out[k].seq = k - 1
            /\ IsText(out[k]) => out[k].m \in Range(pending[p])
      /\ \A k, l \in DOMAIN out :
            k < l /\ IsText(out[k]) /\ IsText(out[l]) => out[k].m < out[l].m
  BY <1>a DEF IsFlush
<1>2. /\ wire[c][p] # <<>> /\ hs[p][c] = "authed" /\ hs' = [hs EXCEPT ![p][c] = "gone"]
      /\ sess' = [sess EXCEPT ![p] = [NewSession(c) EXCEPT !.out = Len(out)]]
      /\ pending' = [pending EXCEPT ![p] = <<>>]
      /\ wire' = Put(Take(p, c), p, c, out)
      /\ Emit(p, "Established")
      /\ UNCHANGED <<dialer, link, closing, sent, delivered, acked>>
  BY <1>1 DEF OnReady, FrameAt, Flushed, connVars, logVars
<1>3. link[c][p] = "up"
  BY <1>0, <1>2 DEF SessionsAreLive
<1>4. Moves(c, Peer(p), out)
  BY <1>0, <1>2, PutTakeMoves
<1>5. /\ Len(out) \in Nat
      /\ [NewSession(c) EXCEPT !.out = Len(out)] = [conn |-> c, out |-> Len(out), in |-> 0]
  BY DEF NewSession
<1>6. /\ sess' \in [Devices -> Sessions] /\ sess'[Peer(p)] = sess[Peer(p)]
      /\ sess'[p].conn = c /\ sess'[p].out = Len(out) /\ sess'[p].in = 0
  <2>. DEFINE s == [conn |-> c, out |-> Len(out), in |-> 0]
  <2>1. s \in Sessions /\ s.conn = c /\ s.out = Len(out) /\ s.in = 0
    BY <1>5 DEF Sessions
  <2>2. sess' = [sess EXCEPT ![p] = s]
    BY <1>2, <1>5
  <2>. HIDE DEF s
  <2>3. sess' \in [Devices -> Sessions] /\ sess'[Peer(p)] = sess[Peer(p)] /\ sess'[p] = s
    BY <1>0, <2>1, <2>2 DEF Types
  <2>. QED
    BY <2>1, <2>3
<1>7. /\ pending' \in [Devices -> Seq(Nat)] /\ pending'[p] = <<>>
      /\ pending'[Peer(p)] = pending[Peer(p)]
  <2>1. <<>> \in Seq(Nat)
    OBVIOUS
  <2>. QED
    BY <1>0, <1>2, <2>1 DEF Types
<1>8. Types'
  <2>1. events' \in [Devices -> Seq(EventNames)]
    BY <1>0, <1>2, EmitType DEF EventNames
  <2>2. hs' \in [Devices -> [Conns -> {"idle", "hello", "authed", "gone"}]]
    BY <1>0, <1>2 DEF Types
  <2>. QED
    BY <1>0, <1>2, <1>4, <1>6, <1>7, <2>1, <2>2 DEF Types, Moves
<1>9. Range(<<>>) = {} /\ Len(<<>>) = 0 /\ Increasing(<<>>)
  BY DEF Range, Increasing
<1>10. QueueInOrder'
  <2>1. ASSUME NEW q \in Devices
        PROVE  /\ sent[q] <= Msgs[q] /\ Increasing(pending'[q]) /\ Len(pending'[q]) <= sent[q]
               /\ Range(pending'[q]) \subseteq 1..sent[q]
    <3>1. sent[q] \in Nat /\ sent[q] <= Msgs[q]
      BY <1>0 DEF Types, QueueInOrder
    <3>2. CASE q = p
      BY <1>7, <1>9, <3>1, <3>2
    <3>3. CASE q = Peer(p)
      BY <1>0, <1>7, <3>3 DEF QueueInOrder
    <3>. QED
      BY <1>0, <3>2, <3>3
  <2>. QED
    BY <1>2, <2>1 DEF QueueInOrder, Increasing
<1>11. \A q \in Devices : Range(pending'[q]) \subseteq Range(pending[q])
  BY <1>0, <1>7, <1>9
<1>12. HandedOnce'
  <2>1. ASSUME NEW q \in Devices
        PROVE  Range(delivered[q]) \cap Range(pending'[Peer(q)]) = {}
    <3>1. Peer(q) \in Devices /\ Range(delivered[q]) \cap Range(pending[Peer(q)]) = {}
      BY <1>0, TwoDevices DEF HandedOnce
    <3>. QED
      BY <1>11, <3>1
  <2>. QED
    BY <1>0, <1>2, <2>1 DEF HandedOnce
<1>13. TextsAreSole'
  <2>1. PICK q0 \in Devices : q0 = Peer(p)
    BY <1>0
  <2>2. Moves(c, q0, out)
    BY <1>4, <2>1
  <2>3. \A d \in Conns : \A j \in DOMAIN wire[d][q0] :
            IsText(wire[d][q0][j]) => wire[d][q0][j].m \notin Range(pending[p])
    BY <1>0, <2>1 DEF WireIsProper, Proper
  <2>4. \A n \in DOMAIN out : IsText(out[n]) =>
                \A d \in Conns : \A j \in DOMAIN wire[d][q0] :
                    IsText(wire[d][q0][j]) => wire[d][q0][j].m # out[n].m
    BY <1>1, <2>3
  <2>5. ASSUME NEW n \in DOMAIN out, NEW k \in DOMAIN out,
               IsText(out[n]), IsText(out[k]), out[n].m = out[k].m
        PROVE  n = k
    <3>1. n \in Nat /\ k \in Nat /\ out[n] \in Frames /\ out[k] \in Frames
      OBVIOUS
    <3>2. out[n].m \in Nat /\ out[k].m \in Nat
      BY <3>1 DEF Frames
    <3>3. (n < k => out[n].m < out[k].m) /\ (k < n => out[k].m < out[n].m)
      BY <1>1, <2>5
    <3>. QED
      BY <2>5, <3>1, <3>2, <3>3
  <2>. QED
    BY <1>0, <2>2, <2>4, <2>5, SoleStep
<1>14. WireIsProper'
  <2>1. ASSUME NEW q \in Devices, NEW g \in Frames, Proper(q, g) PROVE Proper(q, g)'
    <3>1. Peer(q) \in Devices
      BY TwoDevices
    <3>2. Range(pending'[Peer(q)]) \subseteq Range(pending[Peer(q)])
      BY <1>11, <3>1
    <3>. QED
      BY <1>2, <2>1, <3>2 DEF Proper, IsText, Limit
  <2>2. Len(out) < Limit + 1
    <3>1. sent[p] \in Nat /\ sent[p] <= Msgs[p] /\ Len(out) <= sent[p] + 1 /\ Len(out) \in Nat
      BY <1>0, <1>1, <1>5 DEF Types, QueueInOrder
    <3>2. Msgs[p] + 1 <= Limit /\ Msgs[p] \in Nat /\ Limit \in Nat
      BY LimitType DEF Limit, Devices
    <3>. QED
      BY <3>1, <3>2
  <2>3. ASSUME NEW n \in DOMAIN out, NEW g \in Frames, g = out[n] PROVE Proper(Peer(p), g)'
    <3>1. g.seq < Limit
      <4>1. n \in 1..Len(out) /\ Len(out) \in Nat /\ Limit \in Nat
        BY <1>5, LimitType
      <4>2. g.seq = n - 1
        BY <1>1, <2>3
      <4>. QED
        BY <2>2, <4>1, <4>2
    <3>2. g.type # "Ack"
      BY <1>1, <2>3
    <3>3. IsText(g) => g.m \in Range(pending[p])
      BY <1>1, <2>3
    <3>4. IsText(g) => /\ g.m \in 1..sent[p]
                       /\ g.m \notin Range(delivered[Peer(p)])
                       /\ g.m \notin Range(pending'[p])
      BY <1>0, <1>7, <1>9, <3>3 DEF QueueInOrder, HandedOnce
    <3>. QED
      BY <1>0, <1>2, <3>1, <3>2, <3>4 DEF Proper, IsText, Limit
  <2>4. \A n \in DOMAIN out : \A g \in Frames : g = out[n] => Proper(Peer(p), g)'
    BY <2>3
  <2>. QED
    BY <1>0, <1>4, <2>1, <2>4, ProperStep
<1>15. AckedWasDelivered'
  BY <1>0, <1>2 DEF AckedWasDelivered
<1>16. SessionsAreLive'
  <2>1. ASSUME NEW q \in Devices
        PROVE  /\ \A d \in Conns : hs'[q][d] \in {"hello", "authed"} => link[d][q] = "up"
               /\ sess'[q].conn # 0 => link[sess'[q].conn][q] = "up"
    BY <1>0, <1>2, <1>3, <1>6 DEF SessionsAreLive, Types
  <2>2. ASSUME NEW q \in Devices
        PROVE  sess'[q].out <= sent[q] + Len(delivered[q]) + 1 /\ sess'[q].in <= Limit
    <3>1. delivered[q] \in Seq(Nat) /\ sent[q] \in Nat /\ Len(delivered[q]) \in Nat /\ Limit \in Nat
      BY <1>0, LimitType DEF Types
    <3>2. CASE q = p
      BY <1>1, <1>5, <1>6, <3>1, <3>2
    <3>3. CASE q = Peer(p)
      BY <1>0, <1>6, <3>3 DEF SessionsAreLive
    <3>. QED
      BY <1>0, <3>2, <3>3
  <2>. QED
    BY <1>2, <2>1, <2>2 DEF SessionsAreLive, Limit
<1>. QED
  BY <1>8, <1>10, <1>12, <1>13, <1>14, <1>15, <1>16 DEF BehaviourInv

(* Before the first dial nothing is queued, on a wire or handed over.      *)
LEMMA BehaviourStart == Init => BehaviourInv
<1>. SUFFICES ASSUME Init PROVE BehaviourInv
  OBVIOUS
<1>1. /\ wire \in [Conns -> [Devices -> Seq(Frames)]] /\ pending \in [Devices -> Seq(Nat)]
      /\ events \in [Devices -> Seq(EventNames)] /\ delivered \in [Devices -> Seq(Nat)]
      /\ \A c \in Conns, p \in Devices : wire[c][p] = <<>>
      /\ \A p \in Devices : pending[p] = <<>> /\ delivered[p] = <<>>
  <2>1. <<>> \in Seq(Frames) /\ <<>> \in Seq(Nat) /\ <<>> \in Seq(EventNames)
    OBVIOUS
  <2>. QED
    BY <2>1 DEF Init
<1>2. \A p \in Devices : /\ sess[p] = NoSession /\ sess[p].conn = 0 /\ sess[p].out = 0 /\ sess[p].in = 0
                         /\ sent[p] = 0 /\ acked[p] = {}
                         /\ \A c \in Conns : hs[p][c] = "idle"
  BY DEF Init, NoSession
<1>3. sess \in [Devices -> Sessions]
  BY DEF Init, NoSession, Sessions
<1>4. Types
  <2>1. dialer \in [Conns -> Devices \cup {0}] /\ closing \subseteq Conns
    BY DEF Init
  <2>2. /\ link \in [Conns -> [Devices -> {"none", "up", "closed"}]]
        /\ hs \in [Devices -> [Conns -> {"idle", "hello", "authed", "gone"}]]
    BY DEF Init
  <2>3. sent \in [Devices -> Nat] /\ acked \in [Devices -> SUBSET Nat]
    BY DEF Init
  <2>. QED
    BY <1>1, <1>3, <2>1, <2>2, <2>3 DEF Types
<1>5. Range(<<>>) = {} /\ Len(<<>>) = 0 /\ Increasing(<<>>) /\ DOMAIN <<>> = {}
  BY DEF Range, Increasing
<1>6. \A p \in Devices : 0 <= Msgs[p] /\ 0 <= Limit
  BY LimitType DEF Devices
<1>7. QueueInOrder
  BY <1>1, <1>2, <1>5, <1>6 DEF QueueInOrder
<1>8. HandedOnce /\ WireIsProper /\ TextsAreSole /\ AckedWasDelivered
  <2>1. \A p \in Devices : Peer(p) \in Devices
    BY TwoDevices
  <2>. QED
    BY <1>1, <1>2, <1>5, <2>1 DEF HandedOnce, WireIsProper, TextsAreSole, AckedWasDelivered
<1>9. SessionsAreLive
  BY <1>1, <1>2, <1>5, <1>6 DEF SessionsAreLive
<1>. QED
  BY <1>4, <1>7, <1>8, <1>9 DEF BehaviourInv

(* Every step keeps the invariant, stuttering included.                    *)
LEMMA BehaviourStep == BehaviourInv /\ [Next]_vars => BehaviourInv'
<1>. SUFFICES ASSUME BehaviourInv, [Next]_vars PROVE BehaviourInv'
  OBVIOUS
<1>1. CASE \E p \in Devices : SendMessage(p)
  <2>1. PICK p \in Devices : SendMessage(p)
    BY <1>1
  <2>2. \/ Queued(p, sent[p] + 1)
        \/ Encrypted(p, sent[p] + 1)
        \/ Refused(p, sent[p] + 1)
    BY <2>1 DEF SendMessage
  <2>. QED
    BY <2>1, <2>2, QueuedStep, EncryptedStep
<1>2. CASE \/ \E p \in Devices : NodeActs(p)
           \/ \E p \in Devices, c \in Conns : Dial(p, c)
           \/ \E c \in Conns : LinkFails(c)
  BY <1>2, NodeStep
<1>3. CASE \E p \in Devices, c \in Conns : StreamClosed(p, c) \/ HandshakeTimeout(p, c)
  BY <1>3, DownStep
<1>4. CASE \E p \in Devices, c \in Conns : Swarm(p, c)
  BY <1>4, UpStep, DownStep, HelloDropStep, ReadyStep, MessageStep, AckStep, ErrorStep DEF Swarm
<1>5. CASE UNCHANGED vars
  <2>1. UNCHANGED <<dialer, link, closing, wire, hs, sess, pending, events, sent, delivered, acked>>
    BY <1>5 DEF vars
  <2>. QED
    BY <2>1 DEF BehaviourInv, Types, QueueInOrder, HandedOnce, WireIsProper, Proper, TextsAreSole,
                IsText, SessionsAreLive, AckedWasDelivered, Limit, Increasing
<1>. QED
  BY <1>1, <1>2, <1>3, <1>4, <1>5 DEF Next

(* The inductive invariant: every text is in one place, its user's queue,  *)
(* one frame or the other node, whatever becomes of connections, sessions  *)
(* and handshakes.                                                         *)
THEOREM BehaviourInvariant == Spec => []BehaviourInv
BY BehaviourStart, BehaviourStep, PTL DEF Spec

(* ConnectionClosed, session errors and Established leave no session on a  *)
(* connection that is down, and every table keeps its shape and bounds,    *)
(* for any number of connections, texts and faults.                        *)
THEOREM SessionsStayLive == Spec => []SessionOnLiveConnection
<1>1. BehaviourInv => SessionOnLiveConnection
  <2>. SUFFICES ASSUME BehaviourInv PROVE SessionOnLiveConnection
    OBVIOUS
  <2>0. /\ Types /\ QueueInOrder /\ HandedOnce /\ SessionsAreLive /\ AckedWasDelivered
        /\ Msgs[A] \in Nat /\ Msgs[B] \in Nat
    BY LimitType DEF BehaviourInv
  <2>1. ASSUME NEW p \in Devices
        PROVE  sess[p].conn \in Conns \cup {0} /\ {sess[p].out, sess[p].in} \subseteq 0..Limit
    <3>1. /\ sess[p] \in Sessions /\ delivered[p] \in Seq(Nat) /\ sent[p] \in Nat
          /\ Peer(p) \in Devices /\ sent[Peer(p)] \in Nat
      BY <2>0, TwoDevices DEF Types
    <3>2. sess[p].out \in Nat /\ sess[p].in \in Nat /\ sess[p].conn \in Conns \cup {0}
      BY <3>1 DEF Sessions
    <3>3. Len(delivered[p]) <= sent[Peer(p)] /\ Len(delivered[p]) \in Nat
      <4>1. /\ Range(delivered[p]) \subseteq 1..sent[Peer(p)]
            /\ \A i, j \in DOMAIN delivered[p] : delivered[p][i] = delivered[p][j] => i = j
        BY <2>0 DEF HandedOnce
      <4>2. Len(delivered[p]) \in Nat
        BY <3>1
      <4>. QED
        BY <3>1, <4>1, <4>2, Pigeons
    <3>4. /\ sent[p] <= Msgs[p] /\ sent[Peer(p)] <= Msgs[Peer(p)] /\ sess[p].in <= Limit
          /\ sess[p].out <= sent[p] + Len(delivered[p]) + 1
      BY <2>0, <3>1 DEF QueueInOrder, SessionsAreLive
    <3>5. Msgs[p] + Msgs[Peer(p)] + 1 = Limit /\ Msgs[p] \in Nat /\ Msgs[Peer(p)] \in Nat /\ Limit \in Nat
      <4>1. CASE p = A
        BY <2>0, <4>1, LimitType DEF Peer, Limit
      <4>2. CASE p = B
        <5>1. Peer(p) = A
          BY <4>2, DevicesAssumption DEF Peer
        <5>. QED
          BY <2>0, <4>2, <5>1, LimitType DEF Limit
      <4>. QED
        BY <4>1, <4>2 DEF Devices
    <3>. HIDE DEF Limit
    <3>6. sess[p].out <= Limit
      <4>1. ASSUME NEW o \in Nat, NEW a \in Nat, NEW b \in Nat, NEW n \in Nat, NEW x \in Nat, NEW y \in Nat,
                   o <= a + n + 1, n <= b, a <= x, b <= y
            PROVE  o <= x + y + 1
        BY <4>1
      <4>2. sess[p].out <= Msgs[p] + Msgs[Peer(p)] + 1
        BY <3>1, <3>2, <3>3, <3>4, <3>5, <4>1
      <4>. QED
        BY <3>5, <4>2
    <3>. QED
      BY <3>2, <3>4, <3>5, <3>6
  <2>2. ASSUME NEW p \in Devices PROVE acked[p] \subseteq Texts(p)
    <3>1. Peer(p) \in Devices /\ Peer(Peer(p)) = p /\ sent[p] \in Nat /\ Msgs[p] \in Nat /\ sent[p] <= Msgs[p]
      BY <2>0, TwoDevices DEF Types, QueueInOrder, Devices
    <3>2. acked[p] \subseteq Range(delivered[Peer(p)]) /\ Range(delivered[Peer(p)]) \subseteq 1..sent[p]
      BY <2>0, <3>1 DEF AckedWasDelivered, HandedOnce
    <3>3. 1..sent[p] \subseteq 1..Msgs[p]
      BY <3>1
    <3>. QED
      BY <3>2, <3>3 DEF Texts
  <2>3. ASSUME NEW p \in Devices
        PROVE  \A i \in DOMAIN events[p] : events[p][i] \in {"Established", "Failed", "TooLong", "Disconnected"}
    <3>1. events[p] \in Seq(EventNames)
      BY <2>0 DEF Types
    <3>. QED
      BY <3>1 DEF EventNames
  <2>4. \A p \in Devices : Increasing(pending[p]) /\ Range(pending[p]) \subseteq 1..sent[p]
    BY <2>0 DEF QueueInOrder
  <2>5. TypeOK
    BY <2>0, <2>1, <2>2, <2>3, <2>4 DEF TypeOK, Types, Limit
  <2>. QED
    BY <2>0, <2>5 DEF SessionOnLiveConnection, SessionsAreLive, HasSession
<1>. QED
  BY <1>1, BehaviourInvariant, PTL

(* No text reaches the other node twice, however often connections are     *)
(* lost, replaced or overlap while it waits in pending_sends.              *)
THEOREM TextsArriveOnce == Spec => []AtMostOnce
<1>1. BehaviourInv => AtMostOnce
  BY DEF BehaviourInv, HandedOnce, AtMostOnce
<1>. QED
  BY <1>1, BehaviourInvariant, PTL

(* A text its user was told was delivered has been handed to the peer's    *)
(* node.                                                                   *)
THEOREM AckedStaysDelivered == Spec => []AckedWasDelivered
<1>1. BehaviourInv => AckedWasDelivered
  BY DEF BehaviourInv
<1>. QED
  BY <1>1, BehaviourInvariant, PTL
(* A connection that is down at both ends stays down.                      *)
Dead(c) == c \in closing /\ \A q \in Devices : link[c][q] # "up"

(* What an undialed connection, one that is not up yet and a closed one    *)
(* cannot have.                                                            *)
ConnsInStep ==
    \A c \in Conns, q \in Devices :
        /\ dialer[c] = 0 => link[c][q] = "none"
        /\ link[c][q] = "none" => hs[q][c] = "idle"
        /\ link[c][q] = "closed" => wire[c][q] = <<>>
        /\ wire[c][q] # <<>> => link[c][Peer(q)] # "none"

OneAtATime ==
    \A c, d \in Conns : dialer[c] # 0 /\ dialer[d] # 0 /\ c # d => Dead(c) \/ Dead(d)

(* A device with a session has nothing in its queue.                       *)
QueueIsFlushed == \A p \in Devices : sess[p].conn # 0 => pending[p] = <<>>

(* Text f, on its way to q, comes after those handed over and before those *)
(* still queued.                                                           *)
Between(q, f) ==
    /\ \A i \in DOMAIN delivered[q] : delivered[q][i] < f.m
    /\ \A i \in DOMAIN pending[Peer(q)] : f.m < pending[Peer(q)][i]

HandedFirst ==
    \A q \in Devices :
        /\ Increasing(delivered[q])
        /\ \A i \in DOMAIN delivered[q], j \in DOMAIN pending[Peer(q)] :
                delivered[q][i] < pending[Peer(q)][j]

WireIsBetween ==
    \A q \in Devices, c \in Conns : ~Dead(c) =>
        \A i \in DOMAIN wire[c][q] : IsText(wire[c][q][i]) => Between(q, wire[c][q][i])

WireRises ==
    \A q \in Devices, c \in Conns : ~Dead(c) =>
        \A i, j \in DOMAIN wire[c][q] :
            i < j /\ IsText(wire[c][q][i]) /\ IsText(wire[c][q][j])
                => wire[c][q][i].m < wire[c][q][j].m

OrderInv ==
    /\ BehaviourInv /\ ConnsInStep /\ OneAtATime /\ QueueIsFlushed
    /\ HandedFirst /\ WireIsBetween /\ WireRises

(* How many frames p has taken from connection c, and how many it has put  *)
(* there: Hello, Ready and those of the session.                           *)
Taken(p, c) ==
    IF hs[p][c] \in {"idle", "hello"} THEN 0 ELSE IF hs[p][c] = "authed" THEN 1 ELSE 2 + sess[p].in

Given(p, c) ==
    IF hs[p][c] = "idle" THEN 0
    ELSE IF hs[p][c] = "hello" THEN 1
    ELSE IF hs[p][c] = "authed" THEN 2 ELSE 2 + sess[p].out

(* The n-th frame of a connection: Hello, then Ready, then the session's.  *)
Nth(n, c, f) ==
    /\ n = 1 => f.type = "Hello"
    /\ n = 2 => f.type = "Ready"
    /\ n > 2 => f.type \in SessionKinds /\ f.sid = c /\ f.seq = n - 3

SessionsAreBound ==
    \A p \in Devices :
        /\ broken[p] = {}
        /\ \A i \in DOMAIN events[p] : events[p][i] # "Failed"
        /\ sess[p].conn # 0 => hs[p][sess[p].conn] = "gone"
        /\ \A c \in Conns : link[c][p] = "up" /\ hs[p][c] = "gone" => sess[p].conn = c

FramesAreNumbered ==
    \A p \in Devices, c \in Conns :
        /\ \A i \in DOMAIN wire[c][p] : Nth(Taken(p, c) + i, c, wire[c][p][i])
        /\ link[c][Peer(p)] # "closed" /\ link[c][p] # "closed"
            => Taken(p, c) + Len(wire[c][p]) = Given(Peer(p), c)

NumberInv == OrderInv /\ SessionsAreBound /\ FramesAreNumbered

(* A step in which p takes k frames, one or none, from connection c and    *)
(* puts `out` on it.                                                       *)
Exchanges(p, c, k, out) ==
    \A d \in Conns, q \in Devices :
        wire'[d][q] = IF d = c /\ q = Peer(p) /\ Reaches(p, c) THEN wire[d][q] \o out
                      ELSE IF d = c /\ q = p /\ k = 1 THEN Tail(wire[d][q]) ELSE wire[d][q]

(* The three ways the handlers use the wire.                               *)
LEMMA ExchangeFacts ==
    ASSUME Types, NEW p \in Devices, NEW c \in Conns, NEW out
    PROVE  /\ wire' = Put(wire, p, c, out) => Exchanges(p, c, 0, out)
           /\ wire' = Put(Take(p, c), p, c, out) => Exchanges(p, c, 1, out)
           /\ wire' = Take(p, c) => Exchanges(p, c, 1, <<>>)
<1>1. Peer(p) \in Devices /\ Peer(p) # p /\ wire \in [Conns -> [Devices -> Seq(Frames)]]
  BY TwoDevices DEF Types
<1>2. \A d \in Conns, q \in Devices :
            Take(p, c)[d][q] = IF d = c /\ q = p THEN Tail(wire[d][q]) ELSE wire[d][q]
  BY <1>1 DEF Take
<1>3. Take(p, c) \in [Conns -> [Devices -> Seq(Frames) \cup {Tail(wire[c][p])}]]
  BY <1>1 DEF Take
<1>4. ASSUME wire' = Put(wire, p, c, out) PROVE Exchanges(p, c, 0, out)
  <2>1. CASE Reaches(p, c)
    <3>1. wire' = [wire EXCEPT ![c][Peer(p)] = @ \o out]
      BY <1>4, <2>1 DEF Put
    <3>2. \A d \in Conns, q \in Devices :
            wire'[d][q] = IF d = c /\ q = Peer(p) THEN wire[d][q] \o out ELSE wire[d][q]
      BY <1>1, <3>1
    <3>. QED
      BY <2>1, <3>2 DEF Exchanges
  <2>2. CASE ~Reaches(p, c)
    BY <1>4, <2>2 DEF Put, Exchanges
  <2>. QED
    BY <2>1, <2>2
<1>5. ASSUME wire' = Put(Take(p, c), p, c, out) PROVE Exchanges(p, c, 1, out)
  <2>1. CASE Reaches(p, c)
    <3>1. wire' = [Take(p, c) EXCEPT ![c][Peer(p)] = @ \o out]
      BY <1>5, <2>1 DEF Put
    <3>2. \A d \in Conns, q \in Devices :
            wire'[d][q] = IF d = c /\ q = Peer(p) THEN Take(p, c)[d][q] \o out ELSE Take(p, c)[d][q]
      BY <1>1, <1>3, <3>1
    <3>. QED
      BY <1>1, <1>2, <2>1, <3>2 DEF Exchanges
  <2>2. CASE ~Reaches(p, c)
    BY <1>2, <1>5, <2>2 DEF Put, Exchanges
  <2>. QED
    BY <2>1, <2>2
<1>6. ASSUME wire' = Take(p, c) PROVE Exchanges(p, c, 1, <<>>)
  <2>1. \A d \in Conns, q \in Devices : wire[d][q] \o <<>> = wire[d][q]
    BY <1>1
  <2>. QED
    BY <1>1, <1>2, <1>6, <2>1 DEF Exchanges
<1>. QED
  BY <1>4, <1>5, <1>6

(* How connections, handshakes and streams may change in a step.           *)
WireMayChange(c, q) ==
    \/ wire'[c][q] = wire[c][q]
    \/ wire'[c][q] = <<>>
    \/ wire[c][q] # <<>> /\ wire'[c][q] = Tail(wire[c][q])
    \/ link[c][Peer(q)] = "up" /\ link[c][q] # "closed"

LinkMayChange(c, q) ==
    \/ link'[c][q] = link[c][q]
    \/ link[c][q] = "none" /\ link'[c][q] = "up" /\ c \notin closing /\ dialer[c] # 0
    \/ link[c][q] = "up" /\ link'[c][q] = "closed" /\ wire'[c][q] = <<>>

ConnsMove ==
    /\ closing \subseteq closing'
    /\ \A c \in Conns, q \in Devices :
        /\ LinkMayChange(c, q)
        /\ WireMayChange(c, q)
        /\ hs'[q][c] = hs[q][c] \/ link[c][q] = "up"
    /\ \/ dialer' = dialer
       \/ /\ UNCHANGED <<link, closing>>
          /\ \E c \in Conns, p \in Devices :
                dialer[c] = 0 /\ dialer' = [dialer EXCEPT ![c] = p]
          /\ ~Redundant => \A d \in Conns : dialer[d] # 0 => Dead(d)

(* Taking one frame of a connection and answering on it changes its two    *)
(* directions in the ways listed above, and no other.                      *)
LEMMA ExchangeMay ==
    ASSUME Types, NEW p \in Devices, NEW c \in Conns, NEW k \in {0, 1}, NEW out,
           Exchanges(p, c, k, out), k = 1 => wire[c][p] # <<>>
    PROVE  \A d \in Conns, q \in Devices : WireMayChange(d, q)
<1>. SUFFICES ASSUME NEW d \in Conns, NEW q \in Devices PROVE WireMayChange(d, q)
  OBVIOUS
<1>1. CASE d = c /\ q = Peer(p) /\ Reaches(p, c)
  BY <1>1, TwoDevices DEF WireMayChange, Reaches
<1>2. CASE d = c /\ q = p /\ k = 1
  BY <1>2, TwoDevices DEF WireMayChange, Exchanges
<1>3. CASE ~(d = c /\ q = Peer(p) /\ Reaches(p, c)) /\ ~(d = c /\ q = p /\ k = 1)
  BY <1>3 DEF WireMayChange, Exchanges
<1>. QED
  BY <1>1, <1>2, <1>3

(* Steps of frames and handshakes.                                         *)
LEMMA FramesMoveConns ==
    ASSUME OrderInv, NEW p \in Devices, NEW c \in Conns,
           \/ SubstreamReady(p, c) \/ OnHello(p, c) \/ OnReady(p, c) \/ DropFrame(p, c)
           \/ OnMessage(p, c) \/ OnAckOrControl(p, c) \/ OnSessionError(p, c)
    PROVE  ConnsMove
<1>0. Types /\ SessionsAreLive
  BY DEF OrderInv, BehaviourInv
<1>1. UNCHANGED <<dialer, link, closing>>
  BY DEF SubstreamReady, OnHello, OnReady, DropFrame, OnMessage, OnAckOrControl, OnSessionError, connVars
<1>2. \A d \in Conns, q \in Devices : WireMayChange(d, q)
  <2>1. CASE SubstreamReady(p, c)
    <3>1. wire' = Put(wire, p, c, <<HsFrame("Hello")>>)
      BY <2>1 DEF SubstreamReady
    <3>. QED
      BY <1>0, <3>1, ExchangeFacts, ExchangeMay
  <2>2. CASE DropFrame(p, c) \/ OnAckOrControl(p, c) \/ OnSessionError(p, c)
    <3>1. wire' = Take(p, c) /\ wire[c][p] # <<>>
      BY <2>2 DEF DropFrame, OnAckOrControl, OnSessionError, FrameAt
    <3>. QED
      BY <1>0, <3>1, ExchangeFacts, ExchangeMay
  <2>3. CASE OnHello(p, c) \/ OnReady(p, c) \/ OnMessage(p, c)
    <3>1. wire[c][p] # <<>> /\ \E out : wire' = Put(Take(p, c), p, c, out)
      BY <2>3 DEF OnHello, OnReady, OnMessage, FrameAt
    <3>2. PICK out : wire' = Put(Take(p, c), p, c, out)
      BY <3>1
    <3>. QED
      BY <1>0, <3>1, <3>2, ExchangeFacts, ExchangeMay
  <2>. QED
    BY <2>1, <2>2, <2>3
<1>3. \A d \in Conns, q \in Devices : hs'[q][d] = hs[q][d] \/ link[d][q] = "up"
  <2>1. CASE SubstreamReady(p, c) \/ OnHello(p, c) \/ OnReady(p, c)
    <3>1. link[c][p] = "up"
      BY <1>0, <2>1 DEF SubstreamReady, OnHello, OnReady, SessionsAreLive
    <3>2. \E x : hs' = [hs EXCEPT ![p][c] = x]
      BY <2>1 DEF SubstreamReady, OnHello, OnReady
    <3>. QED
      BY <1>0, <3>1, <3>2 DEF Types
  <2>2. CASE DropFrame(p, c) \/ OnMessage(p, c) \/ OnAckOrControl(p, c) \/ OnSessionError(p, c)
    BY <2>2 DEF DropFrame, OnMessage, OnAckOrControl, OnSessionError
  <2>. QED
    BY <2>1, <2>2
<1>. QED
  BY <1>1, <1>2, <1>3 DEF ConnsMove, LinkMayChange

(* Steps of connections, of the node and of the user.                      *)
LEMMA OthersMoveConns ==
    ASSUME OrderInv, [Next]_vars, ~\E p \in Devices, c \in Conns : Swarm(p, c)
    PROVE  ConnsMove
<1>0. Types /\ SessionsAreLive
  BY DEF OrderInv, BehaviourInv
<1>1. CASE \E p \in Devices : SendMessage(p)
  <2>1. PICK p \in Devices : SendMessage(p)
    BY <1>1
  <2>2. UNCHANGED <<dialer, link, closing, hs>>
    BY <2>1 DEF SendMessage
  <2>3. \A d \in Conns, q \in Devices : WireMayChange(d, q)
    <3>1. CASE wire' = wire
      BY <3>1 DEF WireMayChange
    <3>2. CASE Encrypted(p, sent[p] + 1)
      <4>1. PICK out : wire' = Put(wire, p, sess[p].conn, out)
        BY <3>2 DEF Encrypted
      <4>2. PICK c \in Conns : c = sess[p].conn
        BY <1>0, <3>2 DEF Encrypted, HasSession, Types, Sessions
      <4>3. wire' = Put(wire, p, c, out)
        BY <4>1, <4>2
      <4>. QED
        BY <1>0, <4>3, ExchangeFacts, ExchangeMay
    <3>. QED
      BY <2>1, <3>1, <3>2 DEF SendMessage, Queued, Refused
  <2>. QED
    BY <2>2, <2>3 DEF ConnsMove, LinkMayChange
<1>2. CASE (\E p \in Devices : NodeActs(p)) \/ \E c \in Conns : LinkFails(c)
  <2>1. UNCHANGED <<dialer, link, wire, hs>> /\ closing \subseteq closing'
    BY <1>2 DEF NodeActs, NodeEvent, NodeEstablished, NodeFailed, NodeDisconnected, AttemptSkipped,
         AttemptFails, LinkFails, connVars
  <2>. QED
    BY <2>1 DEF ConnsMove, LinkMayChange, WireMayChange
<1>3. CASE \E p \in Devices, c \in Conns : Dial(p, c)
  <2>1. PICK p \in Devices, c \in Conns : Dial(p, c)
    BY <1>3
  <2>2. /\ UNCHANGED <<link, wire, hs, closing>> /\ dialer[c] = 0
        /\ dialer' = [dialer EXCEPT ![c] = p]
        /\ ~Redundant => \A d \in Conns : dialer[d] # 0 => Dead(d)
    <3>1. /\ UNCHANGED <<link, wire, hs, closing>> /\ dialer[c] = 0
          /\ dialer' = [dialer EXCEPT ![c] = p]
      BY <2>1 DEF Dial, UnusedConn
    <3>2. ~Redundant => \A d \in Conns, q \in Devices : dialer[d] # 0 => d \in closing /\ link[d][q] # "up"
      BY <2>1 DEF Dial
    <3>3. A \in Devices
      BY DEF Devices
    <3>. QED
      BY <3>1, <3>2, <3>3 DEF Dead
  <2>. QED
    BY <2>2 DEF ConnsMove, LinkMayChange, WireMayChange
<1>4. CASE \E p \in Devices, c \in Conns : StreamClosed(p, c) \/ HandshakeTimeout(p, c)
  <2>1. PICK p \in Devices, c \in Conns : StreamClosed(p, c) \/ HandshakeTimeout(p, c)
    BY <1>4
  <2>2. /\ UNCHANGED <<dialer, link, closing>> /\ hs' = [hs EXCEPT ![p][c] = "gone"]
        /\ wire' = wire \/ wire' = [wire EXCEPT ![c][p] = <<>>]
    BY <2>1 DEF StreamClosed, HandshakeTimeout
  <2>3. link[c][p] = "up"
    BY <1>0, <2>1 DEF StreamClosed, HandshakeTimeout, SessionsAreLive
  <2>4. \A d \in Conns, q \in Devices : wire'[d][q] = wire[d][q] \/ wire'[d][q] = <<>>
    <3>1. CASE wire' = [wire EXCEPT ![c][p] = <<>>]
      BY <1>0, <3>1 DEF Types
    <3>. QED
      BY <2>2, <3>1
  <2>5. \A d \in Conns, q \in Devices : hs'[q][d] = hs[q][d] \/ link[d][q] = "up"
    BY <1>0, <2>2, <2>3 DEF Types
  <2>. QED
    BY <2>2, <2>4, <2>5 DEF ConnsMove, LinkMayChange, WireMayChange
<1>5. CASE UNCHANGED vars
  BY <1>5 DEF vars, ConnsMove, LinkMayChange, WireMayChange
<1>. QED
  BY <1>1, <1>2, <1>3, <1>4, <1>5 DEF Next

(* Connections opening and closing.                                        *)
LEMMA UpDownMoveConns ==
    ASSUME OrderInv, NEW p \in Devices, NEW c \in Conns,
           ConnectionEstablished(p, c) \/ ConnectionClosed(p, c)
    PROVE  ConnsMove
<1>0. Types /\ SessionsAreLive
  BY DEF OrderInv, BehaviourInv
<1>1. CASE ConnectionEstablished(p, c)
  <2>1. /\ UNCHANGED <<dialer, wire, hs, closing>> /\ link[c][p] = "none" /\ dialer[c] # 0 /\ c \notin closing
        /\ link' = [link EXCEPT ![c][p] = "up"]
    BY <1>1 DEF ConnectionEstablished
  <2>2. \A d \in Conns, q \in Devices : link'[d][q] = IF d = c /\ q = p THEN "up" ELSE link[d][q]
    BY <1>0, <2>1 DEF Types
  <2>. QED
    BY <2>1, <2>2 DEF ConnsMove, LinkMayChange, WireMayChange
<1>2. CASE ConnectionClosed(p, c)
  <2>1. /\ UNCHANGED <<dialer, closing>> /\ link[c][p] = "up"
        /\ link' = [link EXCEPT ![c][p] = "closed"]
        /\ wire' = [wire EXCEPT ![c][p] = <<>>]
        /\ hs' = [hs EXCEPT ![p][c] = "gone"]
    BY <1>2 DEF ConnectionClosed
  <2>2. \A d \in Conns, q \in Devices : link'[d][q] = IF d = c /\ q = p THEN "closed" ELSE link[d][q]
    BY <1>0, <2>1 DEF Types
  <2>3. \A d \in Conns, q \in Devices : wire'[d][q] = IF d = c /\ q = p THEN <<>> ELSE wire[d][q]
    BY <1>0, <2>1 DEF Types
  <2>4. \A d \in Conns, q \in Devices : hs'[q][d] = hs[q][d] \/ link[d][q] = "up"
    BY <1>0, <2>1 DEF Types
  <2>. QED
    BY <2>1, <2>2, <2>3, <2>4 DEF ConnsMove, LinkMayChange, WireMayChange
<1>. QED
  BY <1>1, <1>2

(* Connections never overlap when none is dialed before the last is down.  *)
LEMMA ConnsStep ==
    ASSUME OrderInv, [Next]_vars, ~Redundant
    PROVE  /\ ConnsInStep' /\ OneAtATime'
           /\ \A c \in Conns : Dead(c) => Dead(c)'
           /\ ConnsMove
<1>0. Types /\ ConnsInStep /\ OneAtATime
  BY DEF OrderInv, BehaviourInv
<1>1. ConnsMove
  BY FramesMoveConns, UpDownMoveConns, OthersMoveConns DEF Swarm
<1>2. \A c \in Conns : Dead(c) => Dead(c)'
  BY <1>1 DEF Dead, ConnsMove, LinkMayChange
<1>3. \A c \in Conns : dialer'[c] = 0 => dialer[c] = 0
  <2>1. CASE dialer' = dialer
    BY <2>1
  <2>2. CASE \E c \in Conns, p \in Devices : dialer[c] = 0 /\ dialer' = [dialer EXCEPT ![c] = p]
    BY <1>0, <2>2 DEF Types
  <2>. QED
    BY <1>1, <2>1, <2>2 DEF ConnsMove
<1>4. ConnsInStep'
  <2>. SUFFICES ASSUME NEW c \in Conns, NEW q \in Devices
                PROVE  /\ dialer'[c] = 0 => link'[c][q] = "none"
                       /\ link'[c][q] = "none" => hs'[q][c] = "idle"
                       /\ link'[c][q] = "closed" => wire'[c][q] = <<>>
                       /\ wire'[c][q] # <<>> => link'[c][Peer(q)] # "none"
    BY DEF ConnsInStep
  <2>0. Peer(q) \in Devices
    BY TwoDevices
  <2>1. /\ dialer[c] = 0 => link[c][q] = "none"
        /\ link[c][q] = "none" => hs[q][c] = "idle"
        /\ link[c][q] = "closed" => wire[c][q] = <<>>
        /\ wire[c][q] # <<>> => link[c][Peer(q)] # "none"
    BY <1>0 DEF ConnsInStep
  <2>2. /\ LinkMayChange(c, q) /\ LinkMayChange(c, Peer(q)) /\ WireMayChange(c, q)
        /\ hs'[q][c] = hs[q][c] \/ link[c][q] = "up"
    BY <1>1, <2>0 DEF ConnsMove
  <2>3. dialer'[c] = 0 => link'[c][q] = "none"
    BY <1>3, <2>1, <2>2 DEF LinkMayChange
  <2>4. link'[c][q] = "none" => hs'[q][c] = "idle"
    BY <2>1, <2>2 DEF LinkMayChange
  <2>5. link'[c][q] = "closed" => wire'[c][q] = <<>>
    BY <2>1, <2>2 DEF LinkMayChange, WireMayChange
  <2>6. wire'[c][q] # <<>> => link'[c][Peer(q)] # "none"
    BY <2>1, <2>2 DEF LinkMayChange, WireMayChange
  <2>. QED
    BY <2>3, <2>4, <2>5, <2>6
<1>5. OneAtATime'
  <2>1. CASE dialer' = dialer
    <3>. SUFFICES ASSUME NEW c \in Conns, NEW d \in Conns, dialer'[c] # 0, dialer'[d] # 0, c # d
                  PROVE  Dead(c)' \/ Dead(d)'
      BY DEF OneAtATime, Dead
    <3>1. Dead(c) \/ Dead(d)
      BY <1>0, <2>1 DEF OneAtATime
    <3>. QED
      BY <1>2, <3>1
  <2>2. CASE /\ \E c \in Conns, p \in Devices : dialer[c] = 0 /\ dialer' = [dialer EXCEPT ![c] = p]
             /\ ~Redundant => \A d \in Conns : dialer[d] # 0 => Dead(d)
    <3>1. PICK x \in Conns : \A d \in Conns : d # x => dialer'[d] = dialer[d]
      BY <1>0, <2>2 DEF Types
    <3>2. \A d \in Conns : dialer[d] # 0 => Dead(d)
      BY <2>2
    <3>. SUFFICES ASSUME NEW c \in Conns, NEW d \in Conns, dialer'[c] # 0, dialer'[d] # 0, c # d
                  PROVE  Dead(c)' \/ Dead(d)'
      BY DEF OneAtATime, Dead
    <3>3. Dead(c) \/ Dead(d)
      BY <3>1, <3>2
    <3>. QED
      BY <1>2, <3>3
  <2>. QED
    BY <1>1, <2>1, <2>2 DEF ConnsMove
<1>. QED
  BY <1>1, <1>2, <1>4, <1>5

(* Texts on live connections stay between the ones handed over and the     *)
(* ones queued, when those do and the ones added are.                      *)
LEMMA BetweenAdds ==
    ASSUME Types, WireIsProper, WireIsBetween,
           NEW c0, NEW q0, NEW out \in Seq(Frames), Moves(c0, q0, out),
           \A c \in Conns : Dead(c) => Dead(c)',
           \A q \in Devices, f \in Frames :
                IsText(f) /\ Proper(q, f) /\ Between(q, f) => Between(q, f)',
           \A n \in DOMAIN out : \A f \in Frames : f = out[n] /\ IsText(f) => Between(q0, f)'
    PROVE  WireIsBetween'
<1>1. ASSUME NEW q \in Devices, NEW c \in Conns, ~Dead(c)', NEW i \in DOMAIN wire'[c][q], NEW f \in Frames,
             f = wire'[c][q][i], IsText(f)
      PROVE  Between(q, f)'
  <2>1. PICK k \in {0, 1} : \A a \in DOMAIN wire'[c][q] :
                \/ a + k \in DOMAIN wire[c][q] /\ wire'[c][q][a] = wire[c][q][a + k]
                \/ /\ c = c0 /\ q = q0
                   /\ a - Len(wire[c][q]) \in DOMAIN out
                   /\ wire'[c][q][a] = out[a - Len(wire[c][q])]
    BY WhereFrom
  <2>2. CASE i + k \in DOMAIN wire[c][q] /\ f = wire[c][q][i + k]
    <3>1. Proper(q, f) /\ Between(q, f)
      BY <1>1, <2>2 DEF WireIsProper, WireIsBetween
    <3>. QED
      BY <1>1, <3>1
  <2>3. CASE q = q0 /\ i - Len(wire[c][q]) \in DOMAIN out /\ f = out[i - Len(wire[c][q])]
    BY <1>1, <2>3
  <2>. QED
    BY <1>1, <2>1, <2>2, <2>3
<1>2. ASSUME NEW q \in Devices, NEW c \in Conns, NEW i \in DOMAIN wire'[c][q]
      PROVE  wire'[c][q][i] \in Frames
  BY DEF Moves
<1>. QED
  BY <1>1, <1>2 DEF WireIsBetween, Between, IsText, Dead

(* They stay in order, when the ones added come after those that are there. *)
LEMMA RiseAdds ==
    ASSUME Types, WireRises,
           NEW c0, NEW q0, NEW out \in Seq(Frames), Moves(c0, q0, out),
           \A c \in Conns : Dead(c) => Dead(c)',
           \A n, l \in DOMAIN out : n < l /\ IsText(out[n]) /\ IsText(out[l]) => out[n].m < out[l].m,
           \A n \in DOMAIN out : IsText(out[n]) =>
                \A i \in DOMAIN wire[c0][q0] :
                    IsText(wire[c0][q0][i]) => wire[c0][q0][i].m < out[n].m
    PROVE  WireRises'
<1>1. ASSUME NEW q \in Devices, NEW c \in Conns, ~Dead(c)',
             NEW i \in DOMAIN wire'[c][q], NEW j \in DOMAIN wire'[c][q], i < j,
             IsText(wire'[c][q][i]), IsText(wire'[c][q][j])
      PROVE  wire'[c][q][i].m < wire'[c][q][j].m
  <2>0. /\ wire'[c][q] \in Seq(Frames) /\ wire[c][q] \in Seq(Frames)
        /\ Len(wire[c][q]) \in Nat /\ DOMAIN wire[c][q] = 1..Len(wire[c][q])
        /\ Len(out) \in Nat /\ DOMAIN out = 1..Len(out)
    BY DEF Types, Moves
  <2>1. i \in Nat /\ j \in Nat
    BY <2>0
  <2>2. PICK k \in {0, 1} : \A a \in DOMAIN wire'[c][q] :
                \/ a + k \in DOMAIN wire[c][q] /\ wire'[c][q][a] = wire[c][q][a + k]
                \/ /\ c = c0 /\ q = q0
                   /\ a - Len(wire[c][q]) \in DOMAIN out
                   /\ wire'[c][q][a] = out[a - Len(wire[c][q])]
    BY WhereFrom
  <2>. DEFINE w == wire[c][q]
              Old(a) == a + k \in DOMAIN w /\ wire'[c][q][a] = w[a + k]
              New(a) == c = c0 /\ q = q0 /\ a - Len(w) \in DOMAIN out /\ wire'[c][q][a] = out[a - Len(w)]
  <2>3. (Old(i) \/ New(i)) /\ (Old(j) \/ New(j))
    BY <2>2
  <2>4. CASE Old(i) /\ Old(j)
    <3>1. i + k < j + k
      BY <1>1, <2>1
    <3>2. ~Dead(c)
      BY <1>1
    <3>. QED
      BY <1>1, <2>4, <3>1, <3>2 DEF WireRises
  <2>5. CASE Old(i) /\ New(j)
    BY <1>1, <2>5
  <2>6. CASE New(i) /\ Old(j)
    <3>1. ASSUME NEW n \in Nat, NEW l \in Nat, i - n \in 1..l, j + k \in 1..n PROVE FALSE
      BY <1>1, <2>1, <3>1
    <3>. QED
      BY <2>0, <2>6, <3>1
  <2>7. CASE New(i) /\ New(j)
    <3>0. ASSUME NEW n \in Nat PROVE i - n < j - n
      BY <1>1, <2>1
    <3>1. i - Len(w) < j - Len(w)
      BY <2>0, <3>0
    <3>. QED
      BY <1>1, <2>7, <3>1
  <2>. QED
    BY <2>3, <2>4, <2>5, <2>6, <2>7
<1>. QED
  BY <1>1 DEF WireRises, IsText, Dead

(* A step that neither queues, adds nor hands over a text.                 *)
LEMMA OrderQuiet ==
    ASSUME OrderInv, NEW c0, NEW q0, NEW out \in Seq(Frames), Moves(c0, q0, out),
           \A n \in DOMAIN out : ~IsText(out[n]),
           \A c \in Conns : Dead(c) => Dead(c)',
           UNCHANGED <<pending, delivered>>
    PROVE  HandedFirst' /\ WireIsBetween' /\ WireRises'
<1>0. Types /\ WireIsProper /\ WireIsBetween /\ WireRises /\ HandedFirst
  BY DEF OrderInv, BehaviourInv
<1>1. HandedFirst'
  BY <1>0 DEF HandedFirst, Increasing
<1>2. \A q \in Devices, f \in Frames : Between(q, f) => Between(q, f)'
  BY DEF Between
<1>. QED
  BY <1>0, <1>1, <1>2, BetweenAdds, RiseAdds

(* What is on a wire, queued or handed over was sent before.               *)
LEMMA SentBefore ==
    ASSUME BehaviourInv, NEW p \in Devices
    PROVE  /\ sent[p] \in Nat
           /\ \A i \in DOMAIN delivered[Peer(p)] : delivered[Peer(p)][i] < sent[p] + 1
           /\ \A i \in DOMAIN pending[p] : pending[p][i] < sent[p] + 1
           /\ \A f \in Frames : IsText(f) /\ Proper(Peer(p), f) => f.m < sent[p] + 1
<1>1. Peer(p) \in Devices /\ Peer(Peer(p)) = p /\ sent[p] \in Nat
  BY TwoDevices DEF BehaviourInv, Types
<1>2. \A x \in 1..sent[p] : x < sent[p] + 1
  BY <1>1
<1>3. Range(delivered[Peer(p)]) \subseteq 1..sent[p] /\ Range(pending[p]) \subseteq 1..sent[p]
  BY <1>1 DEF BehaviourInv, HandedOnce, QueueInOrder
<1>4. \A f \in Frames : IsText(f) /\ Proper(Peer(p), f) => f.m \in 1..sent[p]
  BY <1>1 DEF Proper
<1>. QED
  BY <1>1, <1>2, <1>3, <1>4 DEF Range

(* A text goes to the end of the queue, onto the wire or nowhere.          *)
LEMMA OrderSend ==
    ASSUME OrderInv, NEW p \in Devices, SendMessage(p), \A c \in Conns : Dead(c) => Dead(c)'
    PROVE  HandedFirst' /\ WireIsBetween' /\ WireRises' /\ QueueIsFlushed'
<1>. DEFINE m == sent[p] + 1
<1>0. /\ BehaviourInv /\ Types /\ WireIsProper /\ WireIsBetween /\ WireRises /\ HandedFirst /\ QueueIsFlushed
      /\ Peer(p) \in Devices /\ Peer(p) # p /\ Peer(Peer(p)) = p /\ \A q \in Devices : q = p \/ q = Peer(p)
      /\ delivered' = delivered
  BY TwoDevices DEF OrderInv, BehaviourInv, SendMessage
<1>1. /\ m \in Nat
      /\ \A i \in DOMAIN delivered[Peer(p)] : delivered[Peer(p)][i] < m
      /\ \A i \in DOMAIN pending[p] : pending[p][i] < m
      /\ \A f \in Frames : IsText(f) /\ Proper(Peer(p), f) => f.m < m
  <2>1. ASSUME NEW n \in Nat PROVE n + 1 \in Nat
    OBVIOUS
  <2>. QED
    BY <1>0, <2>1, SentBefore
<1>. HIDE DEF m
<1>2. CASE Queued(p, m)
  <2>1. /\ pending' = [pending EXCEPT ![p] = Append(pending[p], m)] /\ wire' = wire /\ sess' = sess
        /\ sess[p].conn = 0 /\ pending[p] \in Seq(Nat)
    BY <1>0, <1>2 DEF Queued, Enqueue, HasSession, Types
  <2>2. pending'[p] = Append(pending[p], m) /\ \A q \in Devices : q # p => pending'[q] = pending[q]
    BY <1>0, <2>1 DEF Types
  <2>3. /\ Len(pending[p]) \in Nat /\ DOMAIN pending[p] = 1..Len(pending[p])
        /\ DOMAIN pending'[p] = 1..Len(pending[p]) + 1
        /\ \A i \in 1..Len(pending[p]) : pending'[p][i] = pending[p][i]
        /\ pending'[p][Len(pending[p]) + 1] = m
    BY <1>1, <2>1, <2>2, AppendFacts
  <2>4. \A i \in DOMAIN pending'[p] :
            \/ i \in DOMAIN pending[p] /\ pending'[p][i] = pending[p][i]
            \/ pending'[p][i] = m
    BY <2>3
  <2>5. HandedFirst'
    <3>1. ASSUME NEW q \in Devices, NEW i \in DOMAIN delivered[q], NEW j \in DOMAIN pending'[Peer(q)]
          PROVE  delivered[q][i] < pending'[Peer(q)][j]
      <4>1. CASE q = p
        BY <1>0, <2>2, <3>1, <4>1 DEF HandedFirst
      <4>2. CASE q = Peer(p)
        BY <1>0, <1>1, <2>4, <3>1, <4>2 DEF HandedFirst
      <4>. QED
        BY <1>0, <4>1, <4>2
    <3>. QED
      BY <1>0, <3>1 DEF HandedFirst, Increasing
  <2>6. ASSUME NEW q \in Devices, NEW f \in Frames, IsText(f), Proper(q, f), Between(q, f)
        PROVE  Between(q, f)'
    <3>1. \A i \in DOMAIN pending'[Peer(q)] : f.m < pending'[Peer(q)][i]
      <4>1. CASE q = p
        BY <1>0, <2>2, <2>6, <4>1 DEF Between
      <4>2. CASE q = Peer(p)
        BY <1>0, <1>1, <2>4, <2>6, <4>2 DEF Between
      <4>. QED
        BY <1>0, <4>1, <4>2
    <3>. QED
      BY <1>0, <2>6, <3>1 DEF Between
  <2>7. <<>> \in Seq(Frames) /\ \A n \in DOMAIN <<>> : FALSE
    OBVIOUS
  <2>8. WireIsBetween' /\ WireRises'
    BY <1>0, <2>1, <2>6, <2>7, StillMoves, BetweenAdds, RiseAdds
  <2>9. QueueIsFlushed'
    BY <1>0, <2>1, <2>2 DEF QueueIsFlushed
  <2>. QED
    BY <2>5, <2>8, <2>9
<1>3. CASE Encrypted(p, m)
  <2>. DEFINE f == SessionFrame("Message", sess[p], 0, m)
  <2>1. /\ wire' = Put(wire, p, sess[p].conn, <<f>>) /\ pending' = pending /\ sess[p].conn # 0
        /\ sess' = [sess EXCEPT ![p].out = @ + 1]
    BY <1>3 DEF Encrypted, HasSession
  <2>2. PICK c \in Conns : c = sess[p].conn
    BY <1>0, <2>1 DEF Types, Sessions
  <2>3. f \in Frames /\ f.m = m
    <3>1. sess[p].out + 0 \in Nat
      BY <1>0 DEF Types, Sessions
    <3>2. f = [type |-> "Message", sid |-> c, seq |-> sess[p].out + 0, m |-> m]
      BY <2>2 DEF SessionFrame
    <3>. QED
      BY <1>1, <3>1, <3>2 DEF Frames, SessionKinds
  <2>. HIDE DEF f
  <2>4. PICK out \in Seq(Frames), q0 \in Devices :
            out = <<f>> /\ q0 = Peer(p) /\ DOMAIN out = {1} /\ out[1] = f
    <3>1. <<f>> \in Seq(Frames) /\ DOMAIN <<f>> = {1} /\ <<f>>[1] = f
      BY <2>3
    <3>. QED
      BY <1>0, <3>1
  <2>5. Moves(c, q0, out)
    BY <1>0, <2>1, <2>2, <2>4, PutMoves
  <2>6. HandedFirst'
    BY <1>0, <2>1 DEF HandedFirst, Increasing
  <2>7. \A q \in Devices, g \in Frames : Between(q, g) => Between(q, g)'
    BY <1>0, <2>1 DEF Between
  <2>8. pending[p] = <<>>
    BY <1>0, <2>1 DEF QueueIsFlushed
  <2>9. \A g \in Frames : g = f => Between(q0, g)'
    <3>1. \A i \in DOMAIN pending[p] : FALSE
      BY <2>8
    <3>. QED
      BY <1>0, <1>1, <2>1, <2>3, <2>4, <3>1 DEF Between
  <2>10. \A n \in DOMAIN out : \A g \in Frames : g = out[n] /\ IsText(g) => Between(q0, g)'
    BY <2>4, <2>9
  <2>11. \A n, l \in DOMAIN out : ~(n < l)
    BY <2>4
  <2>12. \A n \in DOMAIN out : \A i \in DOMAIN wire[c][q0] :
            IsText(wire[c][q0][i]) => wire[c][q0][i].m < out[n].m
    <3>1. \A i \in DOMAIN wire[c][q0] : wire[c][q0][i] \in Frames /\ Proper(q0, wire[c][q0][i])
      BY <1>0 DEF WireIsProper, Types
    <3>. QED
      BY <1>1, <2>3, <2>4, <3>1
  <2>13. WireIsBetween' /\ WireRises'
    BY <1>0, <2>5, <2>7, <2>10, <2>11, <2>12, BetweenAdds, RiseAdds
  <2>14. \A q \in Devices : sess'[q].conn = sess[q].conn
    BY <1>0, <2>1 DEF Types, Sessions
  <2>15. QueueIsFlushed'
    BY <1>0, <2>1, <2>14 DEF QueueIsFlushed
  <2>. QED
    BY <2>6, <2>13, <2>15
<1>4. CASE Refused(p, m)
  <2>1. UNCHANGED <<wire, sess, pending>>
    BY <1>4 DEF Refused
  <2>2. HandedFirst' /\ WireIsBetween' /\ WireRises'
    <3>1. <<>> \in Seq(Frames) /\ \A n \in DOMAIN <<>> : FALSE
      OBVIOUS
    <3>. QED
      BY <1>0, <2>1, <3>1, StillMoves, OrderQuiet
  <2>. QED
    BY <1>0, <2>1, <2>2 DEF QueueIsFlushed
<1>. QED
  BY <1>2, <1>3, <1>4 DEF SendMessage, m

(* A session is established: the queue goes onto the wire as it is.        *)
LEMMA OrderReady ==
    ASSUME OrderInv, NEW p \in Devices, NEW c \in Conns, OnReady(p, c),
           \A d \in Conns : Dead(d) => Dead(d)'
    PROVE  HandedFirst' /\ WireIsBetween' /\ WireRises' /\ QueueIsFlushed'
<1>0. /\ BehaviourInv /\ Types /\ WireIsProper /\ WireIsBetween /\ WireRises /\ HandedFirst /\ QueueIsFlushed
      /\ SessionsAreLive
      /\ Peer(p) \in Devices /\ Peer(p) # p /\ Peer(Peer(p)) = p /\ \A q \in Devices : q = p \/ q = Peer(p)
  BY TwoDevices DEF OrderInv, BehaviourInv
<1>1. PICK out \in Seq(Frames) : IsFlush(p, c, out)
  BY <1>0, ReadyFrames
<1>2. /\ \A k \in DOMAIN out : IsText(out[k]) => out[k].m \in Range(pending[p])
      /\ \A k, l \in DOMAIN out : k < l /\ IsText(out[k]) /\ IsText(out[l]) => out[k].m < out[l].m
      /\ out = FlushPending(NewSession(c), p) \o ReportObserved(NewSession(c), p, c)
  BY <1>1 DEF IsFlush
<1>3. /\ wire[c][p] # <<>> /\ hs[p][c] = "authed"
      /\ wire' = Put(Take(p, c), p, c, out) /\ delivered' = delivered
      /\ pending' = [pending EXCEPT ![p] = <<>>]
      /\ \A q \in Devices : q # p => sess'[q] = sess[q]
  BY <1>0, <1>2 DEF OnReady, FrameAt, Flushed, logVars, Types
<1>4. link[c][p] = "up" /\ ~Dead(c)
  BY <1>0, <1>3 DEF SessionsAreLive, Dead
<1>5. Moves(c, Peer(p), out)
  BY <1>0, <1>3, PutTakeMoves
<1>6. /\ pending'[p] = <<>> /\ pending'[Peer(p)] = pending[Peer(p)]
      /\ \A i \in DOMAIN pending'[p] : FALSE
  BY <1>0, <1>3 DEF Types
<1>7. HandedFirst'
  <2>1. ASSUME NEW q \in Devices, NEW i \in DOMAIN delivered[q], NEW j \in DOMAIN pending'[Peer(q)]
        PROVE  delivered[q][i] < pending'[Peer(q)][j]
    <3>1. q = p /\ pending'[Peer(q)] = pending[Peer(q)]
      BY <1>0, <1>6
    <3>. QED
      BY <1>0, <3>1 DEF HandedFirst
  <2>. QED
    BY <1>0, <1>3, <2>1 DEF HandedFirst, Increasing
<1>8. ASSUME NEW q \in Devices, NEW f \in Frames, Between(q, f) PROVE Between(q, f)'
  <2>1. CASE q = p
    BY <1>0, <1>3, <1>6, <1>8, <2>1 DEF Between
  <2>2. CASE q = Peer(p)
    BY <1>0, <1>3, <1>6, <1>8, <2>2 DEF Between
  <2>. QED
    BY <1>0, <2>1, <2>2
<1>9. PICK q0 \in Devices : q0 = Peer(p)
  BY <1>0
<1>10. \A n \in DOMAIN out : IsText(out[n]) => \E j \in DOMAIN pending[p] : out[n].m = pending[p][j]
  BY <1>2 DEF Range
<1>11. ASSUME NEW n \in DOMAIN out, NEW f \in Frames, f = out[n], IsText(f) PROVE Between(q0, f)'
  <2>1. PICK j \in DOMAIN pending[p] : f.m = pending[p][j]
    BY <1>10, <1>11
  <2>2. \A i \in DOMAIN delivered[q0] : delivered[q0][i] < f.m
    BY <1>0, <1>9, <2>1 DEF HandedFirst
  <2>. QED
    BY <1>0, <1>3, <1>6, <1>9, <2>2 DEF Between
<1>12. ASSUME NEW n \in DOMAIN out, IsText(out[n]), NEW i \in DOMAIN wire[c][q0], IsText(wire[c][q0][i])
       PROVE  wire[c][q0][i].m < out[n].m
  <2>1. PICK j \in DOMAIN pending[p] : out[n].m = pending[p][j]
    BY <1>10, <1>12
  <2>2. Between(q0, wire[c][q0][i])
    BY <1>0, <1>4, <1>12 DEF WireIsBetween
  <2>. QED
    BY <1>0, <1>9, <2>1, <2>2 DEF Between
<1>13. Moves(c, q0, out)
  BY <1>5, <1>9
<1>14. WireIsBetween'
  BY <1>0, <1>8, <1>11, <1>13, BetweenAdds
<1>15. WireRises'
  BY <1>0, <1>2, <1>12, <1>13, RiseAdds
<1>16. QueueIsFlushed'
  <2>1. ASSUME NEW q \in Devices, sess'[q].conn # 0 PROVE pending'[q] = <<>>
    <3>1. CASE q = p
      BY <1>6, <3>1
    <3>2. CASE q = Peer(p)
      BY <1>0, <1>3, <1>6, <2>1, <3>2 DEF QueueIsFlushed
    <3>. QED
      BY <1>0, <3>1, <3>2
  <2>. QED
    BY <2>1 DEF QueueIsFlushed
<1>. QED
  BY <1>7, <1>14, <1>15, <1>16

(* A frame is taken only from a connection that is up.                     *)
LEMMA TakenIsUp ==
    ASSUME OrderInv, NEW p \in Devices, NEW c \in Conns, wire[c][p] # <<>>, hs[p][c] # "idle"
    PROVE  /\ link[c][p] = "up" /\ dialer[c] # 0 /\ ~Dead(c)
           /\ \A d \in Conns : d # c => Dead(d) \/ dialer[d] = 0
           /\ \A d \in Conns, q \in Devices : d # c => Dead(d) \/ wire[d][q] = <<>>
<1>0. /\ Types /\ ConnsInStep /\ OneAtATime /\ Peer(p) \in Devices
      /\ link[c][p] \in {"none", "up", "closed"}
  BY TwoDevices DEF OrderInv, BehaviourInv, Types
<1>1. link[c][p] = "up"
  BY <1>0 DEF ConnsInStep
<1>2. dialer[c] # 0 /\ ~Dead(c)
  BY <1>0, <1>1 DEF ConnsInStep, Dead
<1>3. \A d \in Conns : d # c => Dead(d) \/ dialer[d] = 0
  BY <1>0, <1>2 DEF OneAtATime
<1>4. ASSUME NEW d \in Conns, NEW q \in Devices, d # c, wire[d][q] # <<>> PROVE Dead(d)
  <2>1. Peer(q) \in Devices
    BY TwoDevices
  <2>2. dialer[d] # 0
    BY <1>0, <1>4, <2>1 DEF ConnsInStep
  <2>. QED
    BY <1>3, <1>4, <2>2
<1>. QED
  BY <1>1, <1>2, <1>3, <1>4

(* A text is handed over: the first of the only live connection.           *)
LEMMA OrderMessage ==
    ASSUME OrderInv, NEW p \in Devices, NEW c \in Conns, OnMessage(p, c),
           \A d \in Conns : Dead(d) => Dead(d)'
    PROVE  HandedFirst' /\ WireIsBetween' /\ WireRises' /\ QueueIsFlushed'
<1>. DEFINE f == Head(wire[c][p])
            ack == SessionFrame("Ack", sess[p], 0, f.m)
            s == delivered[p]
            t == delivered'[p]
<1>0. /\ BehaviourInv /\ Types /\ WireIsProper /\ WireIsBetween /\ WireRises /\ HandedFirst /\ QueueIsFlushed
      /\ Peer(p) \in Devices /\ Peer(p) # p /\ Peer(Peer(p)) = p /\ \A q \in Devices : q = p \/ q = Peer(p)
  BY TwoDevices DEF OrderInv, BehaviourInv
<1>1. /\ wire[c][p] # <<>> /\ hs[p][c] # "idle" /\ wire' = Put(Take(p, c), p, c, <<ack>>)
      /\ sess' = [sess EXCEPT ![p].in = @ + 1, ![p].out = @ + 1]
      /\ delivered' = [delivered EXCEPT ![p] = Append(@, f.m)]
      /\ f.type = "Message" /\ pending' = pending
  BY DEF OnMessage, FrameAt
<1>2. f \in Frames /\ f = wire[c][p][1] /\ 1 \in DOMAIN wire[c][p] /\ IsText(f) /\ f.m \in Nat /\ s \in Seq(Nat)
  BY <1>0, <1>1, FirstFrame DEF IsText, Frames, Types
<1>3. ~Dead(c) /\ \A d \in Conns, q \in Devices : d # c => Dead(d) \/ wire[d][q] = <<>>
  BY <1>1, TakenIsUp
<1>4. Between(p, f)
  BY <1>0, <1>2, <1>3 DEF WireIsBetween
<1>5. ack \in Frames /\ ~IsText(ack)
  <2>1. sess[p].out + 0 \in Nat /\ sess[p].conn \in Conns \cup {0}
    BY <1>0 DEF Types, Sessions
  <2>2. ack = [type |-> "Ack", sid |-> sess[p].conn, seq |-> sess[p].out + 0, m |-> f.m]
    BY DEF SessionFrame
  <2>. QED
    BY <1>2, <2>1, <2>2 DEF Frames, SessionKinds, IsText
<1>6. <<ack>> \in Seq(Frames) /\ DOMAIN <<ack>> = {1} /\ <<ack>>[1] = ack
  <2>. HIDE DEF ack
  <2>. QED
    BY <1>5
<1>7. Moves(c, Peer(p), <<ack>>)
  BY <1>0, <1>1, <1>6, PutTakeMoves
<1>8. wire'[c][p] = Tail(wire[c][p]) /\ \A d \in Conns : d # c => wire'[d][p] = wire[d][p]
  BY <1>0, <1>1, AfterTake
<1>9. /\ t = Append(s, f.m) /\ delivered'[Peer(p)] = delivered[Peer(p)]
  BY <1>0, <1>1 DEF Types
<1>. HIDE DEF f, ack
<1>10. /\ Len(s) \in Nat /\ DOMAIN s = 1..Len(s) /\ DOMAIN t = 1..Len(s) + 1
       /\ \A i \in 1..Len(s) : t[i] = s[i]
       /\ t[Len(s) + 1] = f.m
  BY <1>2, <1>9, AppendFacts
<1>11. \A i \in DOMAIN t : (i \in DOMAIN s /\ t[i] = s[i]) \/ (i = Len(s) + 1 /\ t[i] = f.m)
  BY <1>10
<1>12. HandedFirst'
  <2>1. Increasing(t)
    <3>1. \A i \in DOMAIN s : s[i] < f.m
      BY <1>4 DEF Between
    <3>2. Increasing(s)
      BY <1>0 DEF HandedFirst
    <3>. HIDE DEF s, t
    <3>3. ASSUME NEW i \in DOMAIN t, NEW j \in DOMAIN t, i < j PROVE t[i] < t[j]
      <4>1. i \in DOMAIN s /\ t[i] = s[i]
        BY <1>10, <3>3
      <4>2. CASE j = Len(s) + 1
        BY <1>10, <3>1, <4>1, <4>2
      <4>3. CASE j \in DOMAIN s /\ t[j] = s[j]
        BY <3>2, <3>3, <4>1, <4>3 DEF Increasing
      <4>. QED
        BY <1>11, <4>2, <4>3
    <3>. QED
      BY <3>3 DEF Increasing
  <2>2. \A i \in DOMAIN t, j \in DOMAIN pending[Peer(p)] : t[i] < pending[Peer(p)][j]
    <3>1. \A j \in DOMAIN pending[Peer(p)] : f.m < pending[Peer(p)][j]
      BY <1>4 DEF Between
    <3>2. \A i \in DOMAIN s, j \in DOMAIN pending[Peer(p)] : s[i] < pending[Peer(p)][j]
      BY <1>0 DEF HandedFirst
    <3>. HIDE DEF s, t
    <3>. QED
      BY <1>11, <3>1, <3>2
  <2>3. ASSUME NEW q \in Devices
        PROVE  /\ Increasing(delivered'[q])
               /\ \A i \in DOMAIN delivered'[q], j \in DOMAIN pending[Peer(q)] :
                        delivered'[q][i] < pending[Peer(q)][j]
    <3>1. CASE q = p
      BY <2>1, <2>2, <3>1
    <3>2. CASE q = Peer(p)
      BY <1>0, <1>9, <3>2 DEF HandedFirst
    <3>. QED
      BY <1>0, <3>1, <3>2
  <2>. QED
    BY <1>1, <2>3 DEF HandedFirst, Increasing
<1>13. WireRises'
  <2>1. PICK out \in Seq(Frames), q0 \in Devices : out = <<ack>> /\ q0 = Peer(p)
    BY <1>0, <1>6
  <2>2. Moves(c, q0, out) /\ \A n \in DOMAIN out : ~IsText(out[n])
    BY <1>5, <1>6, <1>7, <2>1
  <2>. QED
    BY <1>0, <2>2, RiseAdds
<1>14. WireIsBetween'
  <2>1. ASSUME NEW d \in Conns, ~Dead(d)', NEW i \in DOMAIN wire'[d][p], IsText(wire'[d][p][i])
        PROVE  /\ \A j \in DOMAIN delivered'[p] : delivered'[p][j] < wire'[d][p][i].m
               /\ \A j \in DOMAIN pending[Peer(p)] : wire'[d][p][i].m < pending[Peer(p)][j]
    <3>1. d = c
      <4>1. CASE d # c
        <5>1. wire'[d][p] = <<>>
          BY <1>3, <1>8, <2>1, <4>1
        <5>. QED
          BY <2>1, <5>1
      <4>. QED
        BY <4>1
    <3>2. wire'[c][p] = Tail(wire[c][p]) /\ wire[c][p] \in Seq(Frames) /\ wire[c][p] # <<>>
      BY <1>0, <1>1, <1>8 DEF Types
    <3>3. ASSUME NEW S, NEW w \in Seq(S), w # <<>>, NEW k \in DOMAIN Tail(w)
          PROVE  k + 1 \in DOMAIN w /\ Tail(w)[k] = w[k + 1] /\ 1 < k + 1
      BY <3>3
    <3>4. i + 1 \in DOMAIN wire[c][p] /\ wire'[c][p][i] = wire[c][p][i + 1] /\ 1 < i + 1
      BY <2>1, <3>1, <3>2, <3>3
    <3>. DEFINE g == wire[c][p][i + 1]
    <3>5. IsText(g) /\ Between(p, g) /\ f.m < g.m
      BY <1>0, <1>2, <1>3, <2>1, <3>1, <3>4 DEF WireIsBetween, WireRises
    <3>6. /\ \A j \in DOMAIN s : s[j] < g.m
          /\ \A j \in DOMAIN pending[Peer(p)] : g.m < pending[Peer(p)][j]
      BY <3>5 DEF Between
    <3>7. \A j \in DOMAIN t : t[j] < g.m
      BY <1>11, <3>5, <3>6
    <3>. QED
      BY <3>1, <3>4, <3>6, <3>7
  <2>2. ASSUME NEW d \in Conns, ~Dead(d)', NEW i \in DOMAIN wire'[d][Peer(p)], IsText(wire'[d][Peer(p)][i])
        PROVE  /\ \A j \in DOMAIN delivered'[Peer(p)] : delivered'[Peer(p)][j] < wire'[d][Peer(p)][i].m
               /\ \A j \in DOMAIN pending[p] : wire'[d][Peer(p)][i].m < pending[p][j]
    <3>1. PICK q0 \in Devices, out \in Seq(Frames) : q0 = Peer(p) /\ out = <<ack>>
      BY <1>0, <1>6
    <3>2. Moves(c, q0, out)
      BY <1>7, <3>1
    <3>3. PICK k \in {0, 1} : \A a \in DOMAIN wire'[d][q0] :
                \/ a + k \in DOMAIN wire[d][q0] /\ wire'[d][q0][a] = wire[d][q0][a + k]
                \/ /\ d = c /\ q0 = q0
                   /\ a - Len(wire[d][q0]) \in DOMAIN out
                   /\ wire'[d][q0][a] = out[a - Len(wire[d][q0])]
      BY <1>0, <3>2, WhereFrom
    <3>4. ~Dead(d) /\ \A n \in DOMAIN out : ~IsText(out[n])
      BY <1>5, <1>6, <2>2, <3>1
    <3>5. i + k \in DOMAIN wire[d][q0] /\ wire'[d][q0][i] = wire[d][q0][i + k]
      BY <2>2, <3>1, <3>3, <3>4
    <3>6. Between(q0, wire[d][q0][i + k])
      BY <1>0, <2>2, <3>1, <3>4, <3>5 DEF WireIsBetween
    <3>. QED
      BY <1>0, <1>9, <3>1, <3>5, <3>6 DEF Between
  <2>3. ASSUME NEW q \in Devices, NEW d \in Conns, ~Dead(d)', NEW i \in DOMAIN wire'[d][q],
               IsText(wire'[d][q][i])
        PROVE  /\ \A j \in DOMAIN delivered'[q] : delivered'[q][j] < wire'[d][q][i].m
               /\ \A j \in DOMAIN pending'[Peer(q)] : wire'[d][q][i].m < pending'[Peer(q)][j]
    <3>1. CASE q = p
      BY <1>1, <2>1, <2>3, <3>1
    <3>2. CASE q = Peer(p)
      BY <1>0, <1>1, <2>2, <2>3, <3>2
    <3>. QED
      BY <1>0, <3>1, <3>2
  <2>. QED
    BY <2>3 DEF WireIsBetween, Between, Dead, IsText
<1>15. QueueIsFlushed'
  <2>1. \A q \in Devices : sess'[q].conn = sess[q].conn
    BY <1>0, <1>1 DEF Types, Sessions
  <2>. QED
    BY <1>0, <1>1, <2>1 DEF QueueIsFlushed
<1>. QED
  BY <1>12, <1>13, <1>14, <1>15

(* Every other step adds no text.                                          *)
LEMMA OrderOthers ==
    ASSUME OrderInv, [Next]_vars, \A c \in Conns : Dead(c) => Dead(c)',
           ~\E p \in Devices : SendMessage(p),
           ~\E p \in Devices, c \in Conns : OnReady(p, c) \/ OnMessage(p, c)
    PROVE  HandedFirst' /\ WireIsBetween' /\ WireRises' /\ QueueIsFlushed'
<1>0. Types /\ QueueIsFlushed
  BY DEF OrderInv, BehaviourInv
<1>1. <<>> \in Seq(Frames) /\ \A n \in DOMAIN <<>> : FALSE
  OBVIOUS
<1>2. CASE \/ \E p \in Devices : NodeActs(p)
           \/ \E p \in Devices, c \in Conns : Dial(p, c) \/ HandshakeTimeout(p, c) \/ ConnectionEstablished(p, c)
           \/ \E c \in Conns : LinkFails(c)
           \/ UNCHANGED vars
  <2>1. UNCHANGED <<wire, pending, delivered, sess>>
    <3>1. CASE \E p \in Devices : NodeActs(p)
      BY <3>1 DEF NodeActs, NodeEvent, NodeEstablished, NodeFailed, NodeDisconnected, AttemptSkipped,
         AttemptFails, connVars, logVars
    <3>2. CASE \E p \in Devices, c \in Conns : Dial(p, c) \/ HandshakeTimeout(p, c) \/ ConnectionEstablished(p, c)
      BY <3>2 DEF Dial, HandshakeTimeout, ConnectionEstablished, logVars
    <3>3. CASE (\E c \in Conns : LinkFails(c)) \/ UNCHANGED vars
      BY <3>3 DEF LinkFails, logVars, vars
    <3>. QED
      BY <1>2, <3>1, <3>2, <3>3
  <2>2. QueueIsFlushed'
    BY <1>0, <2>1 DEF QueueIsFlushed
  <2>. QED
    BY <1>0, <1>1, <2>1, <2>2, StillMoves, OrderQuiet
<1>3. CASE \E p \in Devices, c \in Conns : StreamClosed(p, c) \/ ConnectionClosed(p, c)
  <2>1. PICK p \in Devices, c \in Conns : StreamClosed(p, c) \/ ConnectionClosed(p, c)
    BY <1>3
  <2>2. UNCHANGED <<pending, delivered>> /\ wire' = [wire EXCEPT ![c][p] = <<>>]
    BY <2>1 DEF StreamClosed, ConnectionClosed, logVars
  <2>3. Moves(0, 0, <<>>)
    <3>1. wire' \in [Conns -> [Devices -> Seq(Frames)]]
      BY <1>0, <1>1, <2>2 DEF Types
    <3>2. \A d \in Conns, q \in Devices : wire'[d][q] = IF d = c /\ q = p THEN <<>> ELSE wire[d][q]
      BY <1>0, <2>2 DEF Types
    <3>. QED
      BY <3>1, <3>2 DEF Moves
  <2>4. \A q \in Devices : sess'[q] = sess[q] \/ sess'[q] = NoSession
    BY <1>0, <2>1 DEF StreamClosed, ConnectionClosed, AfterClose, Types
  <2>5. NoSession.conn = 0
    BY DEF NoSession
  <2>6. QueueIsFlushed'
    BY <1>0, <2>2, <2>4, <2>5 DEF QueueIsFlushed
  <2>. QED
    BY <1>1, <2>2, <2>3, <2>6, OrderQuiet
<1>4. CASE \E p \in Devices, c \in Conns : SubstreamReady(p, c) \/ OnHello(p, c)
  <2>1. PICK p \in Devices, c \in Conns : SubstreamReady(p, c) \/ OnHello(p, c)
    BY <1>4
  <2>2. UNCHANGED <<pending, delivered, sess>>
    BY <2>1 DEF SubstreamReady, OnHello, logVars
  <2>3. PICK ty \in {"Hello", "Ready"} :
            \/ wire' = Put(wire, p, c, <<HsFrame(ty)>>)
            \/ wire[c][p] # <<>> /\ wire' = Put(Take(p, c), p, c, <<HsFrame(ty)>>)
    BY <2>1 DEF SubstreamReady, OnHello, FrameAt
  <2>4. PICK out \in Seq(Frames) : out = <<HsFrame(ty)>> /\ \A n \in DOMAIN out : out[n].type \in {"Hello", "Ready"}
    BY HsFrameFacts
  <2>5. Moves(c, Peer(p), out)
    BY <1>0, <2>3, <2>4, PutMoves, PutTakeMoves
  <2>6. \A n \in DOMAIN out : ~IsText(out[n])
    BY <2>4 DEF IsText
  <2>7. QueueIsFlushed'
    BY <1>0, <2>2 DEF QueueIsFlushed
  <2>. QED
    BY <2>2, <2>5, <2>6, <2>7, OrderQuiet
<1>5. CASE \E p \in Devices, c \in Conns : DropFrame(p, c) \/ OnAckOrControl(p, c) \/ OnSessionError(p, c)
  <2>1. PICK p \in Devices, c \in Conns : DropFrame(p, c) \/ OnAckOrControl(p, c) \/ OnSessionError(p, c)
    BY <1>5
  <2>2. UNCHANGED <<pending, delivered>> /\ wire' = Take(p, c) /\ wire[c][p] # <<>>
    BY <2>1 DEF DropFrame, OnAckOrControl, OnSessionError, FrameAt, logVars
  <2>3. Moves(c, 0, <<>>)
    BY <1>0, <2>2, TakeMoves
  <2>4. \A q \in Devices : sess'[q].conn = sess[q].conn \/ sess'[q].conn = 0
    <3>1. CASE DropFrame(p, c)
      BY <3>1 DEF DropFrame
    <3>2. CASE OnAckOrControl(p, c)
      BY <1>0, <3>2 DEF OnAckOrControl, Types, Sessions
    <3>3. CASE OnSessionError(p, c)
      BY <1>0, <3>3 DEF OnSessionError, NoSession, Types
    <3>. QED
      BY <2>1, <3>1, <3>2, <3>3
  <2>5. QueueIsFlushed'
    BY <1>0, <2>2, <2>4 DEF QueueIsFlushed
  <2>. QED
    BY <1>1, <2>2, <2>3, <2>5, OrderQuiet
<1>. QED
  BY <1>2, <1>3, <1>4, <1>5 DEF Next, Swarm

(* The invariant is kept when no connection is dialed before the last one  *)
(* is down.                                                                *)
LEMMA OrderStep == ~Redundant /\ OrderInv /\ [Next]_vars => OrderInv'
<1>. SUFFICES ASSUME ~Redundant, OrderInv, [Next]_vars PROVE OrderInv'
  OBVIOUS
<1>1. BehaviourInv'
  BY BehaviourStep DEF OrderInv
<1>2. ConnsInStep' /\ OneAtATime' /\ \A c \in Conns : Dead(c) => Dead(c)'
  BY ConnsStep
<1>3. HandedFirst' /\ WireIsBetween' /\ WireRises' /\ QueueIsFlushed'
  BY <1>2, OrderSend, OrderReady, OrderMessage, OrderOthers
<1>. QED
  BY <1>1, <1>2, <1>3 DEF OrderInv

(* The order invariant holds at the start: nothing is queued or under way. *)
LEMMA OrderStart == Init => OrderInv
<1>. SUFFICES ASSUME Init PROVE OrderInv
  OBVIOUS
<1>1. BehaviourInv
  BY BehaviourStart
<1>2. /\ \A c \in Conns, q \in Devices :
            dialer[c] = 0 /\ link[c][q] = "none" /\ hs[q][c] = "idle" /\ wire[c][q] = <<>>
      /\ \A q \in Devices : pending[q] = <<>> /\ delivered[q] = <<>>
  BY DEF Init
<1>3. DOMAIN <<>> = {}
  OBVIOUS
<1>4. ConnsInStep /\ OneAtATime /\ QueueIsFlushed
  <2>1. ConnsInStep
    BY <1>2 DEF ConnsInStep
  <2>2. OneAtATime
    BY DEF OneAtATime, Init
  <2>3. QueueIsFlushed
    BY <1>2 DEF QueueIsFlushed
  <2>. QED
    BY <2>1, <2>2, <2>3
<1>5. HandedFirst /\ WireIsBetween /\ WireRises
  BY <1>2, <1>3 DEF HandedFirst, WireIsBetween, WireRises, Increasing
<1>. QED
  BY <1>1, <1>4, <1>5 DEF OrderInv

(* While connections do not overlap, texts arrive in the order their user  *)
(* sent them, whatever links, streams and handshakes fail in between.      *)
THEOREM TextsArriveInOrder == ~Redundant /\ Spec => []InOrder
<1>1. ~Redundant => (Spec => []OrderInv)
  <2>1. CASE ~Redundant
    <3>1. OrderInv /\ [Next]_vars => OrderInv'
      BY <2>1, OrderStep
    <3>. QED
      BY <3>1, OrderStart, PTL DEF Spec
  <2>. QED
    BY <2>1
<1>2. OrderInv => InOrder
  BY DEF OrderInv, HandedFirst, InOrder
<1>. QED
  BY <1>1, <1>2, PTL

(* Frames taken and given are counts.                                      *)
LEMMA CountTypes ==
    ASSUME Types, NEW p \in Devices, NEW c \in Conns
    PROVE  Taken(p, c) \in Nat /\ Given(p, c) \in Nat
<1>1. sess[p] \in Sessions
  BY DEF Types
<1>2. sess[p].in \in Nat /\ sess[p].out \in Nat
  BY <1>1 DEF Sessions
<1>3. 2 + sess[p].in \in Nat /\ 2 + sess[p].out \in Nat
  BY <1>2
<1>. QED
  BY <1>3 DEF Taken, Given

(* The frame a device takes is the one its handshake or session expects.   *)
LEMMA FrameIsNext ==
    ASSUME NumberInv, NEW p \in Devices, NEW c \in Conns, wire[c][p] # <<>>, hs[p][c] # "idle"
    PROVE  LET f == Head(wire[c][p]) IN
           /\ hs[p][c] = "hello" => f.type = "Hello"
           /\ hs[p][c] = "authed" => f.type = "Ready"
           /\ hs[p][c] = "gone" => /\ sess[p].conn = c
                                   /\ f.type \in SessionKinds /\ f.sid = c /\ f.seq = sess[p].in
           /\ sess[p].conn # 0 => hs[p][c] = "gone"
<1>. DEFINE f == Head(wire[c][p])
<1>0. OrderInv /\ BehaviourInv /\ Types /\ SessionsAreBound /\ FramesAreNumbered /\ SessionsAreLive
  BY DEF NumberInv, OrderInv, BehaviourInv
<1>1. f = wire[c][p][1] /\ 1 \in DOMAIN wire[c][p]
  BY <1>0, FirstFrame
<1>. HIDE DEF f
<1>2. Nth(Taken(p, c) + 1, c, f)
  BY <1>0, <1>1 DEF FramesAreNumbered
<1>3. link[c][p] = "up" /\ \A d \in Conns : d # c => Dead(d) \/ dialer[d] = 0
  BY <1>0, TakenIsUp
<1>4. hs[p][c] = "hello" => f.type = "Hello"
  <2>1. hs[p][c] = "hello" => Taken(p, c) + 1 = 1
    BY DEF Taken
  <2>. QED
    BY <1>2, <2>1 DEF Nth
<1>5. hs[p][c] = "authed" => f.type = "Ready"
  <2>1. hs[p][c] = "authed" => Taken(p, c) + 1 = 2
    BY DEF Taken
  <2>. QED
    BY <1>2, <2>1 DEF Nth
<1>6. ASSUME hs[p][c] = "gone"
      PROVE  sess[p].conn = c /\ f.type \in SessionKinds /\ f.sid = c /\ f.seq = sess[p].in
  <2>1. sess[p] \in Sessions
    BY <1>0 DEF Types
  <2>2. sess[p].in \in Nat
    BY <2>1 DEF Sessions
  <2>3. Taken(p, c) = 2 + sess[p].in
    BY <1>6 DEF Taken
  <2>4. Taken(p, c) + 1 > 2 /\ (Taken(p, c) + 1) - 3 = sess[p].in
    BY <2>2, <2>3
  <2>5. sess[p].conn = c
    BY <1>0, <1>3, <1>6 DEF SessionsAreBound
  <2>. QED
    BY <1>2, <2>4, <2>5 DEF Nth
<1>7. ASSUME sess[p].conn # 0 PROVE hs[p][c] = "gone"
  <2>1. PICK d \in Conns : d = sess[p].conn
    BY <1>0, <1>7 DEF Types, Sessions
  <2>2. link[d][p] = "up" /\ hs[p][d] = "gone"
    BY <1>0, <1>7, <2>1 DEF SessionsAreLive, SessionsAreBound
  <2>3. ~Dead(d) /\ dialer[d] # 0
    BY <1>0, <2>2 DEF Dead, OrderInv, ConnsInStep
  <2>. QED
    BY <1>3, <2>2, <2>3
<1>. QED
  BY <1>4, <1>5, <1>6, <1>7 DEF f

(* So no frame is dropped and none is refused.                             *)
LEMMA NothingIsRefused ==
    ASSUME NumberInv, NEW p \in Devices, NEW c \in Conns
    PROVE  ~DropFrame(p, c) /\ ~OnSessionError(p, c)
<1>. DEFINE f == Head(wire[c][p])
<1>0. Types
  BY DEF NumberInv, OrderInv, BehaviourInv
<1>1. hs[p][c] \in {"idle", "hello", "authed", "gone"} /\ c # 0
  BY <1>0, ConnsAssumption DEF Types
<1>2. ASSUME wire[c][p] # <<>>, hs[p][c] # "idle"
      PROVE  /\ hs[p][c] = "hello" => f.type = "Hello"
             /\ hs[p][c] = "authed" => f.type = "Ready"
             /\ hs[p][c] = "gone" => /\ sess[p].conn = c
                                     /\ f.type \in SessionKinds /\ f.sid = c /\ f.seq = sess[p].in
             /\ sess[p].conn # 0 => hs[p][c] = "gone"
  BY <1>2, FrameIsNext
<1>. HIDE DEF f
<1>3. ASSUME DropFrame(p, c) PROVE FALSE
  <2>1. /\ wire[c][p] # <<>> /\ hs[p][c] # "idle"
        /\ IF f.type \in {"Hello", "Ready"} THEN hs[p][c] = "gone" ELSE sess[p].conn = 0
    BY <1>3 DEF DropFrame, HasSession, f
  <2>. QED
    BY <1>1, <1>2, <2>1 DEF SessionKinds
<1>4. ASSUME OnSessionError(p, c) PROVE FALSE
  <2>1. /\ wire[c][p] # <<>> /\ hs[p][c] # "idle" /\ sess[p].conn # 0
        /\ ~(f.sid = sess[p].conn /\ f.seq = sess[p].in)
    BY <1>4 DEF OnSessionError, FrameAt, HasSession, Accepts, f
  <2>. QED
    BY <1>2, <2>1
<1>. QED
  BY <1>3, <1>4

(* What happens on a connection that is up leaves the counts of the others *)
(* alone.                                                                  *)
LEMMA OtherCounts ==
    ASSUME NumberInv, NEW p \in Devices, NEW c \in Conns, link[c][p] = "up",
           \A q \in Devices, d \in Conns : q # p \/ d # c => hs'[q][d] = hs[q][d],
           \A q \in Devices : q # p => sess'[q] = sess[q],
           NEW q \in Devices, NEW d \in Conns, q # p \/ d # c, link[d][q] # "closed"
    PROVE  Taken(q, d)' = Taken(q, d) /\ Given(q, d)' = Given(q, d)
<1>0. Types /\ ConnsInStep /\ OneAtATime /\ link[d][q] \in {"none", "up", "closed"}
  BY DEF NumberInv, OrderInv, BehaviourInv, Types
<1>1. hs'[q][d] = hs[q][d]
  OBVIOUS
<1>2. CASE q # p
  BY <1>1, <1>2 DEF Taken, Given
<1>3. CASE q = p /\ d # c
  <2>1. link[d][p] = "none"
    <3>1. CASE link[d][p] = "up"
      BY <1>0, <1>3, <3>1 DEF ConnsInStep, OneAtATime, Dead
    <3>. QED
      BY <1>0, <1>3, <3>1
  <2>2. hs[p][d] = "idle"
    BY <1>0, <2>1 DEF ConnsInStep
  <2>. QED
    BY <1>1, <1>3, <2>2 DEF Taken, Given
<1>. QED
  BY <1>2, <1>3

(* Frames stay numbered when a device takes the next one and puts its next *)
(* ones on the wire.                                                       *)
LEMMA NumberExchange ==
    ASSUME NumberInv, NEW p \in Devices, NEW c \in Conns, NEW k \in {0, 1}, NEW out \in Seq(Frames),
           Exchanges(p, c, k, out), k = 1 => wire[c][p] # <<>>,
           link' = link, link[c][p] = "up",
           Taken(p, c)' = Taken(p, c) + k, Given(p, c)' = Given(p, c) + Len(out),
           \A n \in DOMAIN out : Nth(Given(p, c) + n, c, out[n]),
           \A q \in Devices, d \in Conns : q # p \/ d # c => hs'[q][d] = hs[q][d],
           \A q \in Devices : q # p => sess'[q] = sess[q]
    PROVE  FramesAreNumbered'
<1>0. /\ Types /\ FramesAreNumbered /\ SessionsAreBound /\ ConnsInStep
      /\ Peer(p) \in Devices /\ Peer(p) # p /\ Peer(Peer(p)) = p /\ \A q \in Devices : q = p \/ q = Peer(p)
      /\ wire \in [Conns -> [Devices -> Seq(Frames)]]
  BY TwoDevices DEF NumberInv, OrderInv, BehaviourInv, Types
<1>1. \A q \in Devices, d \in Conns : (q # p \/ d # c) /\ link[d][q] # "closed" =>
            Taken(q, d)' = Taken(q, d) /\ Given(q, d)' = Given(q, d)
  BY OtherCounts
<1>. DEFINE N(q, d) == \A i \in DOMAIN wire'[d][q] : Nth(Taken(q, d)' + i, d, wire'[d][q][i])
            L(q, d) == link[d][Peer(q)] # "closed" /\ link[d][q] # "closed"
                        => Taken(q, d)' + Len(wire'[d][q]) = Given(Peer(q), d)'
<1>2. N(p, c) /\ L(p, c)
  <2>. DEFINE w == wire[c][p]
              v == wire'[c][p]
              a == Taken(p, c)
              b == Taken(p, c)'
  <2>1. /\ w \in Seq(Frames) /\ a \in Nat /\ b = a + k
        /\ v = IF k = 1 THEN Tail(w) ELSE w
        /\ k = 1 => w # <<>>
    BY <1>0, CountTypes DEF Exchanges
  <2>2. \A i \in DOMAIN w : Nth(a + i, c, w[i])
    BY <1>0 DEF FramesAreNumbered
  <2>3. link[c][Peer(p)] # "closed" /\ link[c][p] # "closed" => a + Len(w) = Given(Peer(p), c)'
    BY <1>0, <1>1 DEF FramesAreNumbered
  <2>. HIDE DEF w, v, a, b
  <2>4. CASE k = 0
    BY <2>1, <2>2, <2>3, <2>4 DEF w, v, a, b
  <2>5. CASE k = 1
    <3>1. /\ \A i \in DOMAIN v : i + 1 \in DOMAIN w /\ v[i] = w[i + 1]
          /\ Len(v) = Len(w) - 1 /\ Len(w) \in Nat
      BY <2>1, <2>5
    <3>2. \A i \in DOMAIN v : b + i = a + (i + 1)
      BY <2>1, <2>5
    <3>3. b + Len(v) = a + Len(w)
      BY <2>1, <2>5, <3>1
    <3>4. \A i \in DOMAIN v : Nth(b + i, c, v[i])
      BY <2>2, <3>1, <3>2
    <3>. QED
      BY <2>3, <3>3, <3>4 DEF w, v, a, b
  <2>. QED
    BY <2>4, <2>5
<1>3. N(Peer(p), c) /\ L(Peer(p), c)
  <2>. DEFINE w == wire[c][Peer(p)]
              v == wire'[c][Peer(p)]
              a == Taken(Peer(p), c)
  <2>1. CASE link[c][Peer(p)] = "closed"
    <3>1. w = <<>> /\ v = w
      BY <1>0, <2>1 DEF ConnsInStep, Exchanges, Reaches
    <3>2. \A i \in DOMAIN v : FALSE
      BY <3>1
    <3>. QED
      BY <2>1, <3>2
  <2>2. CASE link[c][Peer(p)] # "closed"
    <3>1. Reaches(p, c)
      BY <1>0, <2>2 DEF Reaches, SessionsAreBound
    <3>2. v = w \o out /\ w \in Seq(Frames) /\ a \in Nat /\ Given(p, c) \in Nat /\ Taken(Peer(p), c)' = a
      BY <1>0, <1>1, <2>2, <3>1, CountTypes DEF Exchanges
    <3>3. a + Len(w) = Given(p, c)
      BY <1>0, <2>2 DEF FramesAreNumbered
    <3>4. \A i \in DOMAIN w : Nth(a + i, c, w[i])
      BY <1>0 DEF FramesAreNumbered
    <3>. HIDE DEF w, v, a
    <3>5. /\ Len(v) = Len(w) + Len(out) /\ Len(w) \in Nat /\ Len(out) \in Nat
          /\ DOMAIN w = 1..Len(w) /\ DOMAIN out = 1..Len(out) /\ DOMAIN v = 1..Len(w) + Len(out)
      BY <3>2
    <3>6. ASSUME NEW i \in DOMAIN v PROVE Nth(a + i, c, v[i])
      <4>1. CASE i \in DOMAIN w
        <5>1. v[i] = w[i]
          BY <3>2, <3>5, <4>1
        <5>. QED
          BY <3>4, <4>1, <5>1
      <4>2. CASE i \notin DOMAIN w
        <5>1. i - Len(w) \in DOMAIN out /\ v[i] = out[i - Len(w)]
          BY <3>2, <3>5, <4>2
        <5>2. Given(p, c) + (i - Len(w)) = a + i
          BY <3>2, <3>3, <3>5
        <5>. QED
          BY <5>1, <5>2
      <4>. QED
        BY <4>1, <4>2
    <3>7. a + Len(v) = Given(p, c)'
      BY <3>2, <3>3, <3>5
    <3>. QED
      BY <1>0, <3>2, <3>6, <3>7 DEF w, v
  <2>. QED
    BY <2>1, <2>2
<1>4. ASSUME NEW q \in Devices, NEW d \in Conns, d # c PROVE N(q, d) /\ L(q, d)
  <2>1. wire'[d][q] = wire[d][q] /\ Peer(q) \in Devices
    BY <1>4, TwoDevices DEF Exchanges
  <2>2. CASE link[d][q] = "closed"
    <3>1. wire[d][q] = <<>>
      BY <1>0, <2>2 DEF ConnsInStep
    <3>2. \A i \in DOMAIN wire'[d][q] : FALSE
      BY <2>1, <3>1
    <3>. QED
      BY <2>2, <3>2
  <2>3. CASE link[d][q] # "closed"
    <3>1. Taken(q, d)' = Taken(q, d)
      BY <1>1, <1>4, <2>3
    <3>2. link[d][Peer(q)] # "closed" => Given(Peer(q), d)' = Given(Peer(q), d)
      BY <1>1, <1>4, <2>1
    <3>. QED
      BY <1>0, <2>1, <3>1, <3>2 DEF FramesAreNumbered
  <2>. QED
    BY <2>2, <2>3
<1>5. ASSUME NEW q \in Devices, NEW d \in Conns PROVE N(q, d) /\ L(q, d)
  BY <1>0, <1>2, <1>3, <1>4
<1>. QED
  BY <1>5 DEF FramesAreNumbered, Nth, Taken, Given

(* An event other than a failure is emitted, or the first one is handled.  *)
LEMMA NoFailureAdded ==
    ASSUME NumberInv, NEW p \in Devices,
           \/ Emit(p, "Established")
           \/ Emit(p, "Disconnected")
           \/ Emit(p, "TooLong")
           \/ events[p] # <<>> /\ events' = [events EXCEPT ![p] = Tail(@)]
           \/ events' = events
    PROVE  \A q \in Devices : \A i \in DOMAIN events'[q] : events'[q][i] # "Failed"
<1>0. /\ events \in [Devices -> Seq(EventNames)]
      /\ \A q \in Devices : \A i \in DOMAIN events[q] : events[q][i] # "Failed"
  BY DEF NumberInv, OrderInv, BehaviourInv, Types, SessionsAreBound
<1>. DEFINE s == events[p]
<1>1. s \in Seq(EventNames) /\ \A i \in DOMAIN s : s[i] # "Failed"
  BY <1>0
<1>. HIDE DEF s
<1>2. ASSUME NEW e \in EventNames, e # "Failed"
      PROVE  \A i \in DOMAIN Append(s, e) : Append(s, e)[i] # "Failed"
  <2>1. /\ DOMAIN s = 1..Len(s) /\ Len(s) \in Nat /\ DOMAIN Append(s, e) = 1..Len(s) + 1
        /\ \A i \in 1..Len(s) : Append(s, e)[i] = s[i]
        /\ Append(s, e)[Len(s) + 1] = e
    BY <1>1
  <2>2. \A i \in 1..Len(s) + 1 : i \in 1..Len(s) \/ i = Len(s) + 1
    BY <2>1
  <2>. QED
    BY <1>1, <1>2, <2>1, <2>2
<1>3. s # <<>> => \A i \in DOMAIN Tail(s) : Tail(s)[i] # "Failed"
  <2>1. s # <<>> => \A i \in DOMAIN Tail(s) : i + 1 \in DOMAIN s /\ Tail(s)[i] = s[i + 1]
    BY <1>1
  <2>. QED
    BY <1>1, <2>1
<1>4. ASSUME NEW e \in EventNames, e # "Failed", Emit(p, e)
      PROVE  \A q \in Devices : \A i \in DOMAIN events'[q] : events'[q][i] # "Failed"
  <2>1. \A q \in Devices : events'[q] = IF q = p THEN Append(s, e) ELSE events[q]
    BY <1>0, <1>4 DEF Emit, s
  <2>. QED
    BY <1>0, <1>2, <1>4, <2>1
<1>5. CASE events[p] # <<>> /\ events' = [events EXCEPT ![p] = Tail(@)]
  <2>1. \A q \in Devices : events'[q] = IF q = p THEN Tail(s) ELSE events[q]
    BY <1>0, <1>5 DEF s
  <2>2. s # <<>>
    BY <1>5 DEF s
  <2>. QED
    BY <1>0, <1>3, <2>1, <2>2
<1>6. CASE events' = events
  BY <1>0, <1>6
<1>. QED
  BY <1>4, <1>5, <1>6 DEF EventNames

(* A step that binds no session and lets none go.                          *)
LEMMA BoundSame ==
    ASSUME NumberInv, broken' = broken,
           \A q \in Devices : \A i \in DOMAIN events'[q] : events'[q][i] # "Failed",
           \A q \in Devices : sess'[q].conn = sess[q].conn,
           \A q \in Devices, d \in Conns : hs'[q][d] = "gone" <=> hs[q][d] = "gone",
           \A q \in Devices, d \in Conns :
                link'[d][q] = "up" => link[d][q] = "up" \/ hs[q][d] = "idle"
    PROVE  SessionsAreBound'
<1>1. SessionsAreBound /\ \A q \in Devices : sess[q].conn \in Conns \cup {0}
  BY DEF NumberInv, OrderInv, BehaviourInv, Types, Sessions
<1>2. ASSUME NEW q \in Devices
      PROVE  /\ broken'[q] = {}
             /\ \A i \in DOMAIN events'[q] : events'[q][i] # "Failed"
             /\ sess'[q].conn # 0 => hs'[q][sess'[q].conn] = "gone"
             /\ \A d \in Conns : link'[d][q] = "up" /\ hs'[q][d] = "gone" => sess'[q].conn = d
  <2>1. broken'[q] = {} /\ (sess[q].conn # 0 => hs[q][sess[q].conn] = "gone")
    BY <1>1 DEF SessionsAreBound
  <2>2. sess'[q].conn # 0 => hs'[q][sess'[q].conn] = "gone"
    BY <1>1, <2>1
  <2>3. ASSUME NEW d \in Conns, link'[d][q] = "up", hs'[q][d] = "gone" PROVE sess'[q].conn = d
    <3>1. hs[q][d] = "gone" /\ link[d][q] = "up"
      BY <2>3
    <3>. QED
      BY <1>1, <3>1 DEF SessionsAreBound
  <2>. QED
    BY <2>1, <2>2, <2>3
<1>. QED
  BY <1>2 DEF SessionsAreBound

(* The handshake frames.                                                   *)
LEMMA NumberHandshake ==
    ASSUME NumberInv, NEW p \in Devices, NEW c \in Conns, SubstreamReady(p, c) \/ OnHello(p, c)
    PROVE  FramesAreNumbered' /\ SessionsAreBound'
<1>0. Types /\ SessionsAreLive
  BY DEF NumberInv, OrderInv, BehaviourInv
<1>1. PICK k \in {0, 1}, ty \in {"Hello", "Ready"} :
        /\ k = 0 => /\ ty = "Hello" /\ hs[p][c] = "idle" /\ hs' = [hs EXCEPT ![p][c] = "hello"]
                    /\ wire' = Put(wire, p, c, <<HsFrame(ty)>>) /\ link[c][p] = "up"
        /\ k = 1 => /\ ty = "Ready" /\ hs[p][c] = "hello" /\ hs' = [hs EXCEPT ![p][c] = "authed"]
                    /\ wire' = Put(Take(p, c), p, c, <<HsFrame(ty)>>) /\ wire[c][p] # <<>>
  <2>1. CASE SubstreamReady(p, c)
    BY <2>1 DEF SubstreamReady
  <2>2. CASE OnHello(p, c)
    BY <2>2 DEF OnHello, FrameAt
  <2>. QED
    BY <2>1, <2>2
<1>2. UNCHANGED <<link, broken, sess, events>>
  BY DEF SubstreamReady, OnHello, connVars, nodeVars
<1>3. link[c][p] = "up"
  BY <1>0, <1>1 DEF SessionsAreLive
<1>4. PICK out \in Seq(Frames) :
        out = <<HsFrame(ty)>> /\ Len(out) = 1 /\ DOMAIN out = {1} /\ out[1].type = ty
  <2>1. <<HsFrame(ty)>> \in Seq(Frames)
    BY HsFrameFacts
  <2>2. Len(<<HsFrame(ty)>>) = 1 /\ DOMAIN <<HsFrame(ty)>> = {1} /\ <<HsFrame(ty)>>[1].type = ty
    BY DEF HsFrame
  <2>. QED
    BY <2>1, <2>2
<1>5. Exchanges(p, c, k, out)
  BY <1>0, <1>1, <1>4, ExchangeFacts
<1>6. /\ hs'[p][c] = IF k = 0 THEN "hello" ELSE "authed"
      /\ \A q \in Devices, d \in Conns : q # p \/ d # c => hs'[q][d] = hs[q][d]
  BY <1>0, <1>1 DEF Types
<1>7. Taken(p, c)' = Taken(p, c) + k /\ Given(p, c) = k /\ Given(p, c)' = Given(p, c) + Len(out)
  BY <1>1, <1>4, <1>6 DEF Taken, Given
<1>8. \A n \in DOMAIN out : Nth(Given(p, c) + n, c, out[n])
  BY <1>1, <1>4, <1>7 DEF Nth
<1>9. FramesAreNumbered'
  BY <1>1, <1>2, <1>3, <1>5, <1>6, <1>7, <1>8, NumberExchange
<1>10. \A q \in Devices, d \in Conns : hs'[q][d] = "gone" <=> hs[q][d] = "gone"
  BY <1>1, <1>6
<1>11. \A q \in Devices : \A i \in DOMAIN events'[q] : events'[q][i] # "Failed"
  BY <1>2, NoFailureAdded
<1>12. SessionsAreBound'
  BY <1>2, <1>10, <1>11, BoundSame
<1>. QED
  BY <1>9, <1>12

(* A session of its own has bound the connection over which p takes or     *)
(* puts a session frame.                                                   *)
LEMMA NumberSession ==
    ASSUME NumberInv, NEW p \in Devices, NEW c \in Conns, NEW k \in {0, 1}, NEW out \in Seq(Frames),
           Exchanges(p, c, k, out), k = 1 => wire[c][p] # <<>>,
           sess[p].conn = c,
           UNCHANGED <<link, hs, broken, events>>,
           \A q \in Devices : q # p => sess'[q] = sess[q],
           sess'[p].conn = c, sess'[p].in = sess[p].in + k, sess'[p].out = sess[p].out + Len(out),
           \A n \in DOMAIN out :
                out[n].type \in SessionKinds /\ out[n].sid = c /\ out[n].seq = sess[p].out + (n - 1)
    PROVE  FramesAreNumbered' /\ SessionsAreBound'
<1>0. Types /\ SessionsAreLive /\ SessionsAreBound /\ c # 0
  BY ConnsAssumption DEF NumberInv, OrderInv, BehaviourInv
<1>1. link[c][p] = "up" /\ hs[p][c] = "gone"
  BY <1>0 DEF SessionsAreLive, SessionsAreBound
<1>2. sess[p].in \in Nat /\ sess[p].out \in Nat /\ Len(out) \in Nat /\ DOMAIN out = 1..Len(out)
  BY <1>0 DEF Types, Sessions
<1>3. /\ Taken(p, c) = 2 + sess[p].in /\ Given(p, c) = 2 + sess[p].out
      /\ Taken(p, c)' = 2 + sess'[p].in /\ Given(p, c)' = 2 + sess'[p].out
  BY <1>1 DEF Taken, Given
<1>4. Taken(p, c)' = Taken(p, c) + k /\ Given(p, c)' = Given(p, c) + Len(out)
  BY <1>2, <1>3
<1>5. ASSUME NEW n \in DOMAIN out PROVE Nth(Given(p, c) + n, c, out[n])
  <2>1. ASSUME NEW o \in Nat, NEW i \in Nat, i >= 1
        PROVE  (2 + o) + i > 2 /\ ((2 + o) + i) - 3 = o + (i - 1) /\ (2 + o) + i \in Nat
    BY <2>1
  <2>2. n \in Nat /\ n >= 1
    BY <1>2
  <2>3. Given(p, c) + n > 2 /\ (Given(p, c) + n) - 3 = sess[p].out + (n - 1) /\ Given(p, c) + n \in Nat
    <3>1. PICK o \in Nat : o = sess[p].out
      BY <1>2
    <3>2. (2 + o) + n > 2 /\ ((2 + o) + n) - 3 = o + (n - 1) /\ (2 + o) + n \in Nat
      BY <2>1, <2>2
    <3>. QED
      BY <1>3, <3>1, <3>2
  <2>4. Given(p, c) + n # 1 /\ Given(p, c) + n # 2
    BY <2>3
  <2>. QED
    BY <2>3, <2>4 DEF Nth
<1>6. FramesAreNumbered'
  BY <1>1, <1>4, <1>5, NumberExchange
<1>7. \A q \in Devices : \A i \in DOMAIN events'[q] : events'[q][i] # "Failed"
  BY NoFailureAdded
<1>8. \A q \in Devices : sess'[q].conn = sess[q].conn
  BY DEF Devices
<1>9. SessionsAreBound'
  BY <1>7, <1>8, BoundSame
<1>. QED
  BY <1>6, <1>9

(* The session frames: texts and acknowledgements, sent and taken.         *)
LEMMA NumberFrames ==
    ASSUME NumberInv, NEW p \in Devices, NEW c \in Conns, OnMessage(p, c) \/ OnAckOrControl(p, c)
    PROVE  FramesAreNumbered' /\ SessionsAreBound'
<1>0. Types /\ sess[p] \in Sessions
  BY DEF NumberInv, OrderInv, BehaviourInv, Types
<1>1. sess[p].in \in Nat /\ sess[p].out \in Nat /\ sess[p].conn \in Conns \cup {0}
  BY <1>0 DEF Sessions
<1>2. wire[c][p] # <<>> /\ hs[p][c] # "idle" /\ sess[p].conn # 0
  BY DEF OnMessage, OnAckOrControl, FrameAt, HasSession
<1>3. sess[p].conn = c
  BY <1>2, FrameIsNext
<1>4. CASE OnMessage(p, c)
  <2>. DEFINE f == Head(wire[c][p])
              ack == SessionFrame("Ack", sess[p], 0, f.m)
  <2>1. /\ wire' = Put(Take(p, c), p, c, <<ack>>)
        /\ sess' = [sess EXCEPT ![p].in = @ + 1, ![p].out = @ + 1]
        /\ UNCHANGED <<link, hs, broken, events>>
    BY <1>4 DEF OnMessage, connVars, nodeVars
  <2>2. f \in Frames
    BY <1>2, FirstFrame DEF NumberInv, OrderInv
  <2>3. ack = [type |-> "Ack", sid |-> c, seq |-> sess[p].out, m |-> f.m]
    <3>1. sess[p].out + 0 = sess[p].out
      BY <1>1
    <3>. QED
      BY <1>3, <3>1 DEF SessionFrame
  <2>4. ack \in Frames /\ ack.type \in SessionKinds /\ ack.sid = c /\ ack.seq = sess[p].out
    <3>1. f.m \in Nat
      BY <2>2 DEF Frames
    <3>. QED
      BY <1>1, <2>3, <3>1 DEF Frames, SessionKinds
  <2>. HIDE DEF ack, f
  <2>5. PICK out \in Seq(Frames) : out = <<ack>> /\ Len(out) = 1 /\ DOMAIN out = {1} /\ out[1] = ack
    <3>1. <<ack>> \in Seq(Frames) /\ Len(<<ack>>) = 1 /\ DOMAIN <<ack>> = {1} /\ <<ack>>[1] = ack
      BY <2>4
    <3>. QED
      BY <3>1
  <2>6. Exchanges(p, c, 1, out)
    BY <1>0, <2>1, <2>5, ExchangeFacts
  <2>7. /\ \A q \in Devices : q # p => sess'[q] = sess[q]
        /\ sess'[p].conn = c /\ sess'[p].in = sess[p].in + 1 /\ sess'[p].out = sess[p].out + 1
    BY <1>0, <1>3, <2>1 DEF Types, Sessions
  <2>8. \A n \in DOMAIN out : /\ out[n].type \in SessionKinds /\ out[n].sid = c
                              /\ out[n].seq = sess[p].out + (n - 1)
    <3>1. sess[p].out + (1 - 1) = sess[p].out
      BY <1>1
    <3>. QED
      BY <2>4, <2>5, <3>1
  <2>9. PICK k \in {0, 1} : k = 1
    OBVIOUS
  <2>10. /\ Exchanges(p, c, k, out) /\ sess'[p].in = sess[p].in + k
         /\ sess'[p].out = sess[p].out + Len(out)
         /\ UNCHANGED <<link, hs, broken, events>>
    BY <2>1, <2>5, <2>6, <2>7, <2>9
  <2>. QED
    BY <1>2, <1>3, <2>7, <2>8, <2>10, NumberSession
<1>5. CASE OnAckOrControl(p, c)
  <2>1. /\ wire' = Take(p, c) /\ sess' = [sess EXCEPT ![p].in = @ + 1]
        /\ UNCHANGED <<link, hs, broken, events>>
    BY <1>5 DEF OnAckOrControl, connVars, nodeVars
  <2>2. PICK out \in Seq(Frames) : out = <<>> /\ Len(out) = 0 /\ DOMAIN out = {}
    <3>1. <<>> \in Seq(Frames) /\ Len(<<>>) = 0 /\ DOMAIN <<>> = {}
      OBVIOUS
    <3>. QED
      BY <3>1
  <2>3. Exchanges(p, c, 1, out)
    BY <1>0, <2>1, <2>2, ExchangeFacts
  <2>4. /\ \A q \in Devices : q # p => sess'[q] = sess[q]
        /\ sess'[p].conn = c /\ sess'[p].in = sess[p].in + 1 /\ sess'[p].out = sess[p].out
    BY <1>0, <1>3, <2>1 DEF Types, Sessions
  <2>5. sess'[p].out = sess[p].out + Len(out)
    BY <1>1, <2>2, <2>4
  <2>6. \A n \in DOMAIN out : /\ out[n].type \in SessionKinds /\ out[n].sid = c
                              /\ out[n].seq = sess[p].out + (n - 1)
    BY <2>2
  <2>7. PICK k \in {0, 1} : k = 1
    OBVIOUS
  <2>8. /\ Exchanges(p, c, k, out) /\ sess'[p].in = sess[p].in + k
        /\ UNCHANGED <<link, hs, broken, events>>
    BY <2>1, <2>3, <2>4, <2>7
  <2>. QED
    BY <1>2, <1>3, <2>4, <2>5, <2>6, <2>8, NumberSession
<1>. QED
  BY <1>4, <1>5

(* A text sent while a session is on is encrypted under the next number.   *)
LEMMA NumberSend ==
    ASSUME NumberInv, NEW p \in Devices, SendMessage(p)
    PROVE  FramesAreNumbered' /\ SessionsAreBound'
<1>. DEFINE m == sent[p] + 1
<1>0. Types /\ sess[p] \in Sessions
  BY DEF NumberInv, OrderInv, BehaviourInv, Types
<1>1. UNCHANGED <<link, hs, broken>> /\ (Queued(p, m) \/ Encrypted(p, m) \/ Refused(p, m))
  BY DEF SendMessage
<1>2. m \in Nat
  <2>1. sent[p] \in Nat
    BY <1>0 DEF Types
  <2>. QED
    BY <2>1
<1>. HIDE DEF m
<1>3. CASE Queued(p, m) \/ Refused(p, m)
  <2>1. UNCHANGED <<wire, sess>> /\ (events' = events \/ Emit(p, "TooLong"))
    BY <1>3 DEF Queued, Refused
  <2>2. \A q \in Devices : \A i \in DOMAIN events'[q] : events'[q][i] # "Failed"
    BY <2>1, NoFailureAdded
  <2>3. SessionsAreBound'
    BY <1>1, <2>1, <2>2, BoundSame
  <2>4. FramesAreNumbered'
    BY <1>1, <2>1 DEF NumberInv, FramesAreNumbered, Nth, Taken, Given
  <2>. QED
    BY <2>3, <2>4
<1>4. CASE Encrypted(p, m)
  <2>. DEFINE f == SessionFrame("Message", sess[p], 0, m)
  <2>1. /\ wire' = Put(wire, p, sess[p].conn, <<f>>) /\ sess[p].conn # 0
        /\ sess' = [sess EXCEPT ![p].out = @ + 1] /\ events' = events
    BY <1>4 DEF Encrypted, HasSession
  <2>2. PICK c \in Conns : c = sess[p].conn
    BY <1>0, <2>1 DEF Sessions
  <2>3. sess[p].out \in Nat /\ sess[p].in \in Nat
    BY <1>0 DEF Sessions
  <2>4. f = [type |-> "Message", sid |-> c, seq |-> sess[p].out, m |-> m]
    <3>1. sess[p].out + 0 = sess[p].out
      BY <2>3
    <3>. QED
      BY <2>2, <3>1 DEF SessionFrame
  <2>5. f \in Frames /\ f.type \in SessionKinds /\ f.sid = c /\ f.seq = sess[p].out
    BY <1>2, <2>3, <2>4 DEF Frames, SessionKinds
  <2>. HIDE DEF f
  <2>6. PICK out \in Seq(Frames) : out = <<f>> /\ Len(out) = 1 /\ DOMAIN out = {1} /\ out[1] = f
    <3>1. <<f>> \in Seq(Frames) /\ Len(<<f>>) = 1 /\ DOMAIN <<f>> = {1} /\ <<f>>[1] = f
      BY <2>5
    <3>. QED
      BY <3>1
  <2>7. Exchanges(p, c, 0, out)
    BY <1>0, <2>1, <2>2, <2>6, ExchangeFacts
  <2>8. /\ \A q \in Devices : q # p => sess'[q] = sess[q]
        /\ sess'[p].conn = c /\ sess'[p].in = sess[p].in /\ sess'[p].out = sess[p].out + 1
    BY <1>0, <2>1, <2>2 DEF Types, Sessions
  <2>9. \A n \in DOMAIN out : /\ out[n].type \in SessionKinds /\ out[n].sid = c
                              /\ out[n].seq = sess[p].out + (n - 1)
    <3>1. sess[p].out + (1 - 1) = sess[p].out
      BY <2>3
    <3>. QED
      BY <2>5, <2>6, <3>1
  <2>10. sess'[p].in = sess[p].in + 0 /\ sess'[p].out = sess[p].out + Len(out)
    BY <2>3, <2>6, <2>8
  <2>11. PICK k \in {0, 1} : k = 0
    OBVIOUS
  <2>12. /\ Exchanges(p, c, k, out) /\ (k = 1 => wire[c][p] # <<>>) /\ sess'[p].in = sess[p].in + k
         /\ UNCHANGED <<link, hs, broken, events>> /\ sess[p].conn = c
    BY <1>1, <2>1, <2>2, <2>7, <2>10, <2>11
  <2>. QED
    BY <2>8, <2>9, <2>10, <2>12, NumberSession
<1>. QED
  BY <1>1, <1>3, <1>4

(* The session is established: its frames follow Ready.                    *)
LEMMA NumberReady ==
    ASSUME NumberInv, NEW p \in Devices, NEW c \in Conns, OnReady(p, c)
    PROVE  FramesAreNumbered' /\ SessionsAreBound'
<1>0. /\ OrderInv /\ BehaviourInv /\ Types /\ SessionsAreLive /\ SessionsAreBound /\ ConnsInStep /\ OneAtATime
  BY DEF NumberInv, OrderInv, BehaviourInv
<1>1. PICK out \in Seq(Frames) : IsFlush(p, c, out)
  BY <1>0, ReadyFrames
<1>2. /\ out = FlushPending(NewSession(c), p) \o ReportObserved(NewSession(c), p, c)
      /\ \A k \in DOMAIN out : out[k].type \in SessionKinds /\ out[k].sid = c /\ out[k].seq = k - 1
  BY <1>1 DEF IsFlush, SessionKinds
<1>3. /\ wire[c][p] # <<>> /\ hs[p][c] = "authed" /\ hs' = [hs EXCEPT ![p][c] = "gone"]
      /\ sess' = [sess EXCEPT ![p] = [NewSession(c) EXCEPT !.out = Len(out)]]
      /\ wire' = Put(Take(p, c), p, c, out)
      /\ Emit(p, "Established")
      /\ UNCHANGED <<link, broken>>
  BY <1>2 DEF OnReady, FrameAt, connVars
<1>4. link[c][p] = "up"
  BY <1>0, <1>3 DEF SessionsAreLive
<1>5. /\ \A q \in Devices, d \in Conns : q # p \/ d # c => hs'[q][d] = hs[q][d]
      /\ hs'[p][c] = "gone"
  BY <1>0, <1>3 DEF Types
<1>6. /\ \A q \in Devices : q # p => sess'[q] = sess[q]
      /\ sess'[p].conn = c /\ sess'[p].out = Len(out) /\ sess'[p].in = 0
  <2>1. [NewSession(c) EXCEPT !.out = Len(out)] = [conn |-> c, out |-> Len(out), in |-> 0]
    BY DEF NewSession
  <2>. QED
    BY <1>0, <1>3, <2>1 DEF Types
<1>7. Len(out) \in Nat /\ DOMAIN out = 1..Len(out)
  OBVIOUS
<1>8. /\ Taken(p, c) = 1 /\ Given(p, c) = 2
      /\ Taken(p, c)' = 2 + 0 /\ Given(p, c)' = 2 + Len(out)
  BY <1>3, <1>5, <1>6 DEF Taken, Given
<1>9. ASSUME NEW n \in DOMAIN out PROVE Nth(Given(p, c) + n, c, out[n])
  <2>1. 2 + n > 2 /\ (2 + n) - 3 = n - 1 /\ 2 + n # 1 /\ 2 + n # 2
    BY <1>7
  <2>. QED
    BY <1>2, <1>8, <2>1 DEF Nth
<1>10. Exchanges(p, c, 1, out)
  BY <1>0, <1>3, ExchangeFacts
<1>11. FramesAreNumbered'
  <2>1. Taken(p, c)' = Taken(p, c) + 1 /\ Given(p, c)' = Given(p, c) + Len(out)
    BY <1>8
  <2>. QED
    BY <1>3, <1>4, <1>5, <1>6, <1>9, <1>10, <2>1, NumberExchange
<1>12. SessionsAreBound'
  <2>1. \A q \in Devices : \A i \in DOMAIN events'[q] : events'[q][i] # "Failed"
    BY <1>3, NoFailureAdded
  <2>2. ASSUME NEW d \in Conns, link[d][p] = "up" PROVE d = c
    BY <1>0, <1>4, <2>2 DEF ConnsInStep, OneAtATime, Dead
  <2>3. ASSUME NEW q \in Devices
        PROVE  /\ broken'[q] = {}
               /\ sess'[q].conn # 0 => hs'[q][sess'[q].conn] = "gone"
               /\ \A d \in Conns : link'[d][q] = "up" /\ hs'[q][d] = "gone" => sess'[q].conn = d
    <3>1. CASE q = p
      BY <1>0, <1>3, <1>5, <1>6, <2>2, <3>1 DEF SessionsAreBound
    <3>2. CASE q # p
      <4>1. sess'[q] = sess[q] /\ \A d \in Conns : hs'[q][d] = hs[q][d]
        BY <1>5, <1>6, <3>2
      <4>2. sess[q].conn \in Conns \cup {0}
        BY <1>0 DEF Types, Sessions
      <4>3. /\ broken[q] = {} /\ (sess[q].conn # 0 => hs[q][sess[q].conn] = "gone")
            /\ \A d \in Conns : link[d][q] = "up" /\ hs[q][d] = "gone" => sess[q].conn = d
        BY <1>0 DEF SessionsAreBound
      <4>. QED
        BY <1>3, <4>1, <4>2, <4>3
    <3>. QED
      BY <3>1, <3>2
  <2>. QED
    BY <2>1, <2>3 DEF SessionsAreBound
<1>. QED
  BY <1>11, <1>12

(* A connection comes up or goes down.                                     *)
LEMMA NumberUpDown ==
    ASSUME NumberInv, NEW p \in Devices, NEW c \in Conns,
           ConnectionEstablished(p, c) \/ ConnectionClosed(p, c)
    PROVE  FramesAreNumbered' /\ SessionsAreBound'
<1>0. /\ Types /\ SessionsAreBound /\ ConnsInStep /\ FramesAreNumbered
      /\ Peer(p) \in Devices /\ Peer(p) # p /\ Peer(Peer(p)) = p /\ \A q \in Devices : q = p \/ q = Peer(p)
  BY TwoDevices DEF NumberInv, OrderInv, BehaviourInv
<1>1. CASE ConnectionEstablished(p, c)
  <2>1. /\ link[c][p] = "none" /\ link' = [link EXCEPT ![c][p] = "up"]
        /\ UNCHANGED <<wire, hs, sess, broken, events>>
    BY <1>1 DEF ConnectionEstablished, nodeVars
  <2>2. \A q \in Devices, d \in Conns : link'[d][q] = IF q = p /\ d = c THEN "up" ELSE link[d][q]
    BY <1>0, <2>1 DEF Types
  <2>3. hs[p][c] = "idle"
    BY <1>0, <2>1 DEF ConnsInStep
  <2>4. \A q \in Devices : \A i \in DOMAIN events'[q] : events'[q][i] # "Failed"
    BY <2>1, NoFailureAdded
  <2>5. SessionsAreBound'
    BY <2>1, <2>2, <2>3, <2>4, BoundSame
  <2>6. \A q \in Devices, d \in Conns : link'[d][q] # "closed" => link[d][q] # "closed"
    BY <2>1, <2>2
  <2>7. ASSUME NEW q \in Devices, NEW d \in Conns
        PROVE  /\ \A i \in DOMAIN wire[d][q] : Nth(Taken(q, d) + i, d, wire[d][q][i])
               /\ link'[d][Peer(q)] # "closed" /\ link'[d][q] # "closed"
                    => Taken(q, d) + Len(wire[d][q]) = Given(Peer(q), d)
    <3>1. Peer(q) \in Devices
      BY TwoDevices
    <3>. QED
      BY <1>0, <2>6, <3>1 DEF FramesAreNumbered
  <2>8. FramesAreNumbered'
    BY <2>1, <2>7 DEF FramesAreNumbered, Nth, Taken, Given
  <2>. QED
    BY <2>5, <2>8
<1>2. CASE ConnectionClosed(p, c)
  <2>1. /\ link[c][p] = "up" /\ link' = [link EXCEPT ![c][p] = "closed"]
        /\ wire' = [wire EXCEPT ![c][p] = <<>>] /\ hs' = [hs EXCEPT ![p][c] = "gone"]
        /\ sess' = IF sess[p].conn = c THEN [sess EXCEPT ![p] = NoSession] ELSE sess
        /\ broken' = broken /\ (Emit(p, "Disconnected") \/ events' = events)
    BY <1>2 DEF ConnectionClosed, AfterClose
  <2>2. \A q \in Devices, d \in Conns :
            /\ link'[d][q] = IF q = p /\ d = c THEN "closed" ELSE link[d][q]
            /\ hs'[q][d] = IF q = p /\ d = c THEN "gone" ELSE hs[q][d]
            /\ wire'[d][q] = IF q = p /\ d = c THEN <<>> ELSE wire[d][q]
    BY <1>0, <2>1 DEF Types
  <2>3. \A q \in Devices : (q # p \/ sess[p].conn # c) => sess'[q] = sess[q]
    BY <1>0, <2>1 DEF Types
  <2>4. sess[p].conn = c => sess'[p].conn = 0
    BY <1>0, <2>1 DEF Types, NoSession
  <2>5. \A q \in Devices : \A i \in DOMAIN events'[q] : events'[q][i] # "Failed"
    BY <2>1, NoFailureAdded
  <2>6. SessionsAreBound'
    <3>1. ASSUME NEW q \in Devices
          PROVE  /\ broken'[q] = {}
                 /\ sess'[q].conn # 0 => hs'[q][sess'[q].conn] = "gone"
                 /\ \A d \in Conns : link'[d][q] = "up" /\ hs'[q][d] = "gone" => sess'[q].conn = d
      <4>0. /\ broken[q] = {} /\ (sess[q].conn # 0 => hs[q][sess[q].conn] = "gone")
            /\ \A d \in Conns : link[d][q] = "up" /\ hs[q][d] = "gone" => sess[q].conn = d
            /\ sess[q].conn \in Conns \cup {0}
        BY <1>0 DEF SessionsAreBound, Types, Sessions
      <4>1. CASE q = p /\ sess[p].conn = c
        <5>1. \A d \in Conns : ~(link'[d][q] = "up" /\ hs'[q][d] = "gone")
          BY <2>2, <4>0, <4>1
        <5>. QED
          BY <2>1, <2>4, <4>0, <4>1, <5>1
      <4>2. CASE q # p \/ sess[p].conn # c
        <5>1. sess'[q] = sess[q]
          BY <2>3, <4>2
        <5>. QED
          BY <2>1, <2>2, <4>0, <5>1
      <4>. QED
        BY <4>1, <4>2
    <3>. QED
      BY <2>5, <3>1 DEF SessionsAreBound
  <2>7. \A q \in Devices, d \in Conns : q # p \/ d # c => hs'[q][d] = hs[q][d]
    BY <2>2
  <2>8. \A q \in Devices : q # p => sess'[q] = sess[q]
    BY <2>3
  <2>9. \A q \in Devices, d \in Conns : (q # p \/ d # c) /\ link[d][q] # "closed" =>
            Taken(q, d)' = Taken(q, d) /\ Given(q, d)' = Given(q, d)
    BY <2>1, <2>7, <2>8, OtherCounts
  <2>10. ASSUME NEW q \in Devices, NEW d \in Conns
         PROVE  /\ \A i \in DOMAIN wire'[d][q] : Nth(Taken(q, d)' + i, d, wire'[d][q][i])
                /\ link'[d][Peer(q)] # "closed" /\ link'[d][q] # "closed"
                    => Taken(q, d)' + Len(wire'[d][q]) = Given(Peer(q), d)'
    <3>0. Peer(q) \in Devices
      BY TwoDevices
    <3>1. CASE q = p /\ d = c
      <4>1. \A i \in DOMAIN wire'[d][q] : FALSE
        BY <2>2, <3>1
      <4>. QED
        BY <2>2, <3>1, <4>1
    <3>2. CASE ~(q = p /\ d = c) /\ link[d][q] = "closed"
      <4>1. wire'[d][q] = <<>>
        BY <1>0, <2>2, <3>2 DEF ConnsInStep
      <4>2. \A i \in DOMAIN wire'[d][q] : FALSE
        BY <4>1
      <4>. QED
        BY <2>2, <3>2, <4>2
    <3>3. CASE ~(q = p /\ d = c) /\ link[d][q] # "closed"
      <4>1. wire'[d][q] = wire[d][q] /\ Taken(q, d)' = Taken(q, d)
        BY <2>2, <2>9, <3>3
      <4>2. link'[d][Peer(q)] # "closed" => /\ link[d][Peer(q)] # "closed"
                                             /\ Given(Peer(q), d)' = Given(Peer(q), d)
        BY <2>2, <2>9, <3>0
      <4>. QED
        BY <1>0, <3>3, <4>1, <4>2 DEF FramesAreNumbered
    <3>. QED
      BY <3>1, <3>2, <3>3
  <2>11. FramesAreNumbered'
    BY <2>10 DEF FramesAreNumbered, Nth, Taken, Given
  <2>. QED
    BY <2>6, <2>11
<1>. QED
  BY <1>1, <1>2

(* Nothing but the network and a long text fails, so every step keeps the  *)
(* numbers.                                                                *)
LEMMA NumberStep ==
    ASSUME ~Redundant, Faults \cap {"stream", "timeout"} = {}, NumberInv, [Next]_vars
    PROVE  NumberInv'
<1>1. OrderInv'
  BY OrderStep DEF NumberInv
<1>2. \A p \in Devices, c \in Conns : ~StreamClosed(p, c) /\ ~HandshakeTimeout(p, c)
  BY DEF StreamClosed, HandshakeTimeout, Fault
<1>3. CASE \E p \in Devices : SendMessage(p)
  BY <1>1, <1>3, NumberSend DEF NumberInv
<1>4. CASE \E p \in Devices, c \in Conns : Swarm(p, c)
  BY <1>1, <1>4, NothingIsRefused, NumberHandshake, NumberFrames, NumberReady, NumberUpDown DEF Swarm, NumberInv
<1>5. CASE \/ \E p \in Devices : NodeActs(p)
           \/ \E p \in Devices, c \in Conns : Dial(p, c)
           \/ \E c \in Conns : LinkFails(c)
           \/ UNCHANGED vars
  <2>1. UNCHANGED <<link, wire, hs, sess, broken>>
    <3>1. CASE \E p \in Devices : NodeActs(p)
      BY <3>1 DEF NodeActs, NodeEvent, NodeEstablished, NodeFailed, NodeDisconnected, AttemptSkipped,
         AttemptFails, connVars
    <3>2. CASE (\E p \in Devices, c \in Conns : Dial(p, c)) \/ (\E c \in Conns : LinkFails(c)) \/ UNCHANGED vars
      BY <3>2 DEF Dial, LinkFails, vars
    <3>. QED
      BY <1>5, <3>1, <3>2
  <2>2. \A q \in Devices : \A i \in DOMAIN events'[q] : events'[q][i] # "Failed"
    <3>1. CASE \E p \in Devices : NodeEvent(p)
      <4>1. PICK p \in Devices : events[p] # <<>> /\ events' = [events EXCEPT ![p] = Tail(@)]
        BY <3>1 DEF NodeEvent, NodeEstablished, NodeFailed, NodeDisconnected, NextEvent
      <4>. QED
        BY <4>1, NoFailureAdded
    <3>2. CASE events' = events
      <4>1. A \in Devices
        BY DEF Devices
      <4>. QED
        BY <3>2, <4>1, NoFailureAdded
    <3>. QED
      BY <1>5, <3>1, <3>2 DEF NodeActs, AttemptSkipped, AttemptFails, Dial, LinkFails, nodeVars, vars
  <2>3. SessionsAreBound'
    BY <2>1, <2>2, BoundSame
  <2>4. FramesAreNumbered'
    BY <2>1 DEF NumberInv, FramesAreNumbered, Nth, Taken, Given
  <2>. QED
    BY <1>1, <2>3, <2>4 DEF NumberInv
<1>. QED
  BY <1>2, <1>3, <1>4, <1>5 DEF Next

(* The numbering invariant holds at the start.                             *)
LEMMA NumberStart == Init => NumberInv
<1>. SUFFICES ASSUME Init PROVE NumberInv
  OBVIOUS
<1>1. OrderInv
  BY OrderStart
<1>2. \A q \in Devices : /\ broken[q] = {} /\ events[q] = <<>> /\ sess[q] = NoSession
                         /\ \A c \in Conns : hs[q][c] = "idle" /\ wire[c][q] = <<>>
  BY DEF Init
<1>3. NoSession.conn = 0 /\ DOMAIN <<>> = {} /\ Len(<<>>) = 0
  BY DEF NoSession
<1>4. SessionsAreBound
  BY <1>2, <1>3 DEF SessionsAreBound
<1>5. \A q \in Devices, c \in Conns : Taken(q, c) = 0 /\ Given(q, c) = 0
  BY <1>2 DEF Taken, Given
<1>6. FramesAreNumbered
  <2>1. \A q \in Devices : Peer(q) \in Devices
    BY TwoDevices
  <2>. QED
    BY <1>2, <1>3, <1>5, <2>1 DEF FramesAreNumbered
<1>. QED
  BY <1>1, <1>4, <1>6 DEF NumberInv

(* While connections do not overlap and streams and handshakes do not      *)
(* fail by themselves, every frame is the one its receiver expects: no     *)
(* session error is ever reported, whatever connections are lost and       *)
(* whatever texts are dropped from the queue for their length.             *)
THEOREM NoFailureIsSpurious ==
    ASSUME ~Redundant, Faults \cap {"stream", "timeout"} = {}
    PROVE  Spec => []NoSpuriousFailure
<1>1. NumberInv /\ [Next]_vars => NumberInv'
  BY NumberStep
<1>2. NumberInv => NoSpuriousFailure
  BY DEF NumberInv, SessionsAreBound, NoSpuriousFailure
<1>. QED
  BY <1>1, <1>2, NumberStart, PTL DEF Spec
=============================================================================
