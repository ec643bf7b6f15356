---------------------------- MODULE MCProfileEmu ----------------------------
(***************************************************************************)
(* Two mappings with one resolution each, for the runs of ProfileEmu.      *)
(***************************************************************************)
EXTENDS ProfileEmu

CONSTANTS r1, r2

Stages == [d \in Mappings |-> IF d = DefaultMapping THEN r1 ELSE r2]
=============================================================================
