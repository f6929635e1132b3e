------------------------------ MODULE MCRepull ------------------------------
(* Small instance of Repull for TLC. *)
EXTENDS Repull

CONSTANTS x, y

SmallFiles == { <<>>, <<x>>, <<y>>, <<x, x>>, <<y, y>> }
NoSkewOrAhead == { 0, 2 }
=============================================================================
