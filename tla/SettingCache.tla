---------------------------- MODULE SettingCache ----------------------------
(***************************************************************************)
(* What a mouse driver promises about one setting it caches: the user's    *)
(* choice is owed to the device until a delivery succeeds, whatever tries  *)
(* fail on the way, and the device then has exactly what was chosen last.  *)
(* The device may forget (power loss); only a try that is still owed may   *)
(* wipe it (the DeathAdder reboots when its frequency changes).            *)
(*                                                                         *)
(* That is the promise of a driver that sends the setting with every       *)
(* commit.  One that sends changes only (the DeathAdder with firmware      *)
(* older than 1.25) settles a debt without a delivery if the choice is the *)
(* one delivered last, though the device may be astray: it forgot, or took *)
(* something else from a try that failed.  A driver whose device is in its *)
(* bootloader settles everything and delivers nothing.                     *)
(***************************************************************************)
CONSTANTS Choices, Writable, Nothing, InitialChoice

VARIABLES want, has, owed, astray,
          sent,      \* the choice delivered last
          sends      \* "always", "changes" or "never"

cvars == <<want, has, owed, astray, sent, sends>>

(* A new driver has delivered its default, if it sends it at all. *)
Init ==
  /\ want = InitialChoice /\ sent = InitialChoice
  /\ sends \in {"always", "changes", "never"}
  /\ has \in IF sends = "always" THEN {InitialChoice} ELSE Writable \cup {Nothing}
  /\ astray = (sends # "always")
  /\ owed \in BOOLEAN

Choose ==
  /\ \E v \in Choices : want' = v
  /\ owed' = TRUE
  /\ UNCHANGED <<has, astray, sent, sends>>

Deliver ==
  /\ \/ sends = "always"
     \/ sends = "changes" /\ want # sent
  /\ want \in Writable
  /\ has' = want /\ sent' = want
  /\ owed' = FALSE /\ astray' = FALSE
  /\ UNCHANGED <<want, sends>>

(* A commit that succeeds without having sent anything. *)
Settle ==
  /\ \/ sends = "changes" /\ want = sent
     \/ sends = "never"
  /\ owed' = FALSE
  /\ UNCHANGED <<want, has, astray, sent, sends>>

(* An attempt that fails, before or after the device took the setting. *)
Try ==
  /\ \/ sends = "always" /\ UNCHANGED astray
     \/ sends = "changes" /\ want # sent /\ astray' = TRUE
  /\ \/ want \in Writable /\ has' = want
     \/ owed /\ has' = Nothing
  /\ UNCHANGED <<want, owed, sent, sends>>

Forget ==
  /\ has' = Nothing /\ astray' = TRUE
  /\ UNCHANGED <<want, owed, sent, sends>>

(* Another struct takes over: its driver writes the default. *)
Replace == Init'

Next == Choose \/ Deliver \/ Settle \/ Try \/ Forget \/ Replace

Spec == Init /\ [][Next]_cvars
=============================================================================
