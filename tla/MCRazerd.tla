------------------------------ MODULE MCRazerd ------------------------------
(* Constants for the runs of Razerd. *)
EXTENDS Razerd
CONSTANTS c1, p1, m1, vDefault, vNew, vBad, vReset
OneClient  == {c1}
OnePriv    == {p1}
OneMouse   == {m1}
OneValue   == {vDefault}
Black      == {"black"}
SettingOps == {"set", "setprofname", "getfwver", "getmice", "rescan", "reconfig"}
ReadOps    == {"getmice", "rescan", "query", "data"}
ClaimOps   == {"claim", "release"}
FlashOps   == {"flash", "data"}
=============================================================================
