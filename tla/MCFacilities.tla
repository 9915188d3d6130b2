---------------------------- MODULE MCFacilities ----------------------------
(* A few threads for Facilities. *)
EXTENDS Facilities

CONSTANTS t1, t2, t3, t4
MCThreads == {t1, t2, t3, t4}
=============================================================================
