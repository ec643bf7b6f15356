--------------------------- MODULE MCNotifyQueue ---------------------------
(* Constants for the runs of NotifyQueue. *)
EXTENDS NotifyQueue
NewAndDel == {"NEWMOUSE", "DELMOUSE"}
=============================================================================
