----------------------------- MODULE MCDrivers -----------------------------
(* The drivers on small sets of settings. *)
EXTENDS Drivers

MCDrivers == AtOnce \cup DeferringDrivers
MCFreqs   == {0, 250, 1000}
MCRes     == {5000, 30000}
MCModes   == {"static", "spectrum", "wave"}
MCColours == {"white", "green"}
=============================================================================
