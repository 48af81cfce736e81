------------------------- MODULE MCSessionBehaviour -------------------------
(* Small instances of SessionBehaviour for TLC.                            *)
EXTENDS SessionBehaviour

OneConn == 1..1
TwoConns == 1..2

(* How many texts each user sends.                                         *)
OneFromA == [p \in {A, B} |-> IF p = A THEN 1 ELSE 0]
TwoFromA == [p \in {A, B} |-> IF p = A THEN 2 ELSE 0]
ThreeFromA == [p \in {A, B} |-> IF p = A THEN 3 ELSE 0]

(* Which of them are too long.                                             *)
AllFit == [p \in {A, B} |-> {}]
SecondTooLong == [p \in {A, B} |-> IF p = A THEN {2} ELSE {}]
=============================================================================
