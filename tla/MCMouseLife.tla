---------------------------- MODULE MCMouseLife ----------------------------
(* Constants for the runs of MouseLife. *)
EXTENDS MouseLife
CONSTANTS f125, f500, f1000, fBad, fReset
MCValues == {f125, f500, f1000}
EveryKind == AllKinds
Classic == {"classic"}
=============================================================================
