--------------------------- MODULE SecureChannel ---------------------------
(***************************************************************************)
(* What an established session promises to the node that uses it,          *)
(* independently of sequence numbers, nonces and frames: in each direction *)
(* a reliable FIFO log.  What an end receives is, at every moment, a       *)
(* prefix of what the other end sent; every received text message is       *)
(* answered, in the same step, by one acknowledgement that names it; and   *)
(* an end that has failed neither sends nor receives again.                *)
(***************************************************************************)
EXTENDS Sequences, Naturals

CONSTANTS
    Lo, Hi,       \* the two devices
    Text, Ctl,    \* application messages and control messages
    Acks(_, _)    \* Acks(m, n): the acknowledgements of message m at position n

VARIABLES
    sent,         \* sent[p]: everything p has sent, in order
    received,     \* received[p]: everything p has been handed, in order
    up            \* up[p]: p still has the session

cvars == <<sent, received, up>>

Ends == {Lo, Hi}

Peer(p) == IF p = Lo THEN Hi ELSE Lo

ChannelInit ==
    /\ sent = [p \in Ends |-> <<>>]
    /\ received = [p \in Ends |-> <<>>]
    /\ up = [p \in Ends |-> TRUE]

Send(p) ==
    /\ up[p]
    /\ \E m \in Text \cup Ctl : sent' = [sent EXCEPT ![p] = Append(@, m)]
    /\ UNCHANGED <<received, up>>

Deliver(p) ==
    LET n == Len(received[p]) + 1 IN
    /\ up[p]
    /\ n <= Len(sent[Peer(p)])
    /\ LET m == sent[Peer(p)][n] IN
       /\ received' = [received EXCEPT ![p] = Append(@, m)]
       /\ IF m \in Text
          THEN \E a \in Acks(m, n) : sent' = [sent EXCEPT ![p] = Append(@, a)]
          ELSE sent' = sent
    /\ up' = up

Fail(p) ==
    /\ up[p]
    /\ up' = [up EXCEPT ![p] = FALSE]
    /\ UNCHANGED <<sent, received>>

ChannelNext == \E p \in Ends : Send(p) \/ Deliver(p) \/ Fail(p)

ChannelSpec == ChannelInit /\ [][ChannelNext]_cvars
=============================================================================
