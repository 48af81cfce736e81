---------------------------- MODULE FrameStream ----------------------------
(***************************************************************************)
(* What the handlers at the two ends of a connection promise to the        *)
(* session behaviours above them, independently of bytes, buffers and      *)
(* windows: the frames handed over at one end arrive at the other whole,   *)
(* in order and once, up to the moment an end is over; an end that is over *)
(* hands up nothing more; a frame that is not well formed never arrives.   *)
(***************************************************************************)
EXTENDS Sequences, Naturals

CONSTANTS
    A, B,      \* the two ends
    Frames,    \* what may be handed over
    Sound      \* the frames among them that a receiver may accept

VARIABLES
    given,     \* given[p]: frames handed over at p, in order
    arrived,   \* arrived[p]: frames handed up at p, in order
    over       \* over[p]: p has finished with the connection

fvars == <<given, arrived, over>>

Ends == {A, B}

Peer(p) == IF p = A THEN B ELSE A

StreamInit ==
    /\ given = [p \in Ends |-> <<>>]
    /\ arrived = [p \in Ends |-> <<>>]
    /\ over = [p \in Ends |-> FALSE]

Give(p) ==
    /\ \E f \in Frames : given' = [given EXCEPT ![p] = Append(@, f)]
    /\ UNCHANGED <<arrived, over>>

Arrive(p) ==
    LET n == Len(arrived[p]) + 1 IN
    /\ ~over[p]
    /\ n <= Len(given[Peer(p)])
    /\ given[Peer(p)][n] \in Sound
    /\ arrived' = [arrived EXCEPT ![p] = Append(@, given[Peer(p)][n])]
    /\ UNCHANGED <<given, over>>

End(p) ==
    /\ ~over[p]
    /\ over' = [over EXCEPT ![p] = TRUE]
    /\ UNCHANGED <<given, arrived>>

StreamNext == \E p \in Ends : Give(p) \/ Arrive(p) \/ End(p)

StreamSpec == StreamInit /\ [][StreamNext]_fvars
=============================================================================
