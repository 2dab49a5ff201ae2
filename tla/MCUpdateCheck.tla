--------------------------- MODULE MCUpdateCheck ---------------------------
(* Two checks and an acknowledgement of the newer of two releases.         *)
EXTENDS UpdateCheck, TLC

MCEventOf == [a \in Acks |-> "d1"]
CONSTANT c1
MCNowOf == [c \in Checks |-> IF c = c1 THEN 0 ELSE 1]
=============================================================================
