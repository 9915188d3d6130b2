------------------------------ MODULE MCFraming ------------------------------
(* A few short messages for Framing. *)
EXTENDS Framing

MCSizes == <<1, 2, 1>>
CutSizes == <<2, 2>>
=============================================================================
