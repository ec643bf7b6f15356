----------------------------- MODULE MCSession -----------------------------
(* Constants for the runs of Session. *)
EXTENDS Session
CONSTANTS t1, t2
MCThreads   == {t1, t2}
AllCommands == DOMAIN RazerdReplies \ {"getrev"}
Pair        == {"getmice", "getfreq", "rescanmice"}
=============================================================================
