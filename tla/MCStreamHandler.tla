-------------------------- MODULE MCStreamHandler --------------------------
(* Small instances of StreamHandler for TLC.                               *)
EXTENDS StreamHandler

F(i, n, form) == [id |-> i, len |-> n, form |-> form]

(* A frame of the largest size, an empty one, and one only the field check *)
(* at the end of decode refuses; the other way a small frame and one whose *)
(* header announces more than a frame may hold.                            *)
MixedFrames ==
    [p \in {A, B} |-> IF p = A THEN <<F(1, 2, "good"), F(2, 0, "good"), F(3, 1, "fields")>>
                               ELSE <<F(4, 1, "good"), F(5, 3, "good")>>]

OneFrameEach == [p \in {A, B} |-> <<F(IF p = A THEN 1 ELSE 2, 0, "good")>>]

BothDialed == {A, B}
=============================================================================
