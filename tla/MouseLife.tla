----------------------------- MODULE MouseLife -----------------------------
(***************************************************************************)
(* The life of one struct razer_mouse: created by a rescan, claimed and    *)
(* released by librazer's callers in any order, configured, reconfigured   *)
(* after a resume, unplugged, and freed by the next rescan.  The calls run *)
(* one at a time (razerd has one thread); what interleaves with them is    *)
(* the device, which may go away or lose its settings between two calls.   *)
(***************************************************************************)
EXTENDS MouseOps

CONSTANTS
  Default,     \* the setting a driver's init writes
  MaxClaims    \* bound on nested claims

ASSUME DefaultAssumption == Default \in Values
ASSUME MaxClaimsAssumption == MaxClaims \in Nat \ {0}

VARIABLES
  exists,      \* the struct is on librazer's mice_list
  mouse        \* the struct, and the device it stands for

vars == <<exists, mouse>>

Init ==
  /\ exists = TRUE
  /\ \E had \in Values \cup {PowerOn} : mouse \in NewMouse(Default, had)

-----------------------------------------------------------------------------
(* Calls of librazer's users. *)
Claim ==
  /\ exists /\ mouse.claims < MaxClaims
  /\ \E r \in MouseClaim(mouse) : mouse' = r.m
  /\ UNCHANGED exists

Release ==
  /\ exists
  /\ \E r \in MouseRelease(mouse) : mouse' = r.m
  /\ UNCHANGED exists

Set(v) ==
  /\ exists
  /\ mouse' = SetFreq(mouse, v).m
  /\ UNCHANGED exists

Reconfigure ==
  /\ exists
  /\ \E r \in Reconfig(mouse) : mouse' = r.m
  /\ UNCHANGED exists

(* A rescan finds a mouse's device gone: razer_free_mouse. *)
Free ==
  /\ exists /\ ~mouse.present
  /\ exists' = FALSE
  /\ mouse' \in ReleaseAll(mouse)

(* A rescan meets a device it does not know: mouse_new. *)
New ==
  /\ ~exists /\ mouse.present
  /\ exists' = TRUE
  /\ \E n \in NewMouse(Default, mouse.hw) : mouse' = [n EXCEPT !.bad = @ \/ mouse.bad]

-----------------------------------------------------------------------------
(* The device and its user. *)
Unplug ==
  /\ mouse.present
  /\ mouse' = [mouse EXCEPT !.present = FALSE, !.hw = PowerOn, !.lost = TRUE, !.astray = TRUE]
  /\ UNCHANGED exists

(* Plugged in again.  While the struct still exists this is the reuse of   *)
(* its bus address, which mouse_list_find takes for the old device.        *)
Plug ==
  /\ ~mouse.present
  /\ mouse' = [mouse EXCEPT !.present = TRUE, !.detached = {}]
  /\ UNCHANGED exists

(* A suspend takes the device's power (pm-hook asks to reconfigure). *)
Suspend ==
  /\ mouse.present /\ mouse.hw # PowerOn
  /\ mouse' = [mouse EXCEPT !.hw = PowerOn, !.lost = TRUE, !.astray = TRUE]
  /\ UNCHANGED exists

Next ==
  \/ Claim \/ Release \/ Reconfigure
  \/ \E v \in Settings : Set(v)
  \/ Free \/ New
  \/ Unplug \/ Plug \/ Suspend

Spec == Init /\ [][Next]_vars

-----------------------------------------------------------------------------
TypeOK == exists \in BOOLEAN /\ mouse \in Mouse

(* A mouse nobody has claimed has no open handle, whatever libusb calls    *)
(* failed on the way (mouse_default_claim / mouse_default_release).        *)
NoHandleLeak == mouse.claims = 0 => ~mouse.open

(* The cached setting and the device only differ while a commit is owed or *)
(* after the device itself forgot: no failed, partial or repeated commit   *)
(* drops a setting (commit_pending in deathadder_commit).  The exception:  *)
(* a legacy DeathAdder that was reset, or whose commit failed after the    *)
(* frequency went out, may be committed to as often as one likes, without  *)
(* an error, and still have another frequency (hw_deathadder.c:207); and   *)
(* so may a device in its bootloader (160).                                *)
NoLostSetting ==
  mouse.hw # mouse.cfg =>
    \/ mouse.pending
    \/ mouse.lost
    \/ mouse.kind \notin AlwaysSent /\ mouse.astray

(* Only a mouse that owes a commit can be rebooted by one: a forced commit *)
(* (resume) of a settled mouse never meets a changed frequency             *)
(* (old_frequency in deathadder_do_commit).                                *)
RebootOnlyWhenOwed ==
  mouse.kind \in Rebooting /\ mouse.cfg # mouse.old => mouse.pending

(* "Implicitely commits the config, if the last claim is released"         *)
(* (librazer.h:465): once nobody holds a claim, a setting can only be owed *)
(* to the device because the commit itself returned an error.              *)
CommittedByLastRelease ==
  mouse.claims = 0 /\ mouse.pending => mouse.failed

(* What a driver promises of a setting it caches: see SettingCache. *)
Sends ==
  CASE mouse.kind \in AlwaysSent   -> "always"
    [] mouse.kind = "legacy"       -> "changes"
    [] mouse.kind = "bootloader"   -> "never"

Cache == INSTANCE SettingCache
  WITH Choices <- Settings, Writable <- Values, Nothing <- PowerOn, InitialChoice <- Default,
       want <- mouse.cfg, has <- mouse.hw, owed <- mouse.pending, astray <- mouse.astray,
       sent <- mouse.old, sends <- Sends

(* Claims, commits, reboots and reconfigurations, in any order and failing *)
(* anywhere, amount to the six steps of SettingCache: a debt ends only     *)
(* with the device holding the last choice, or for a driver that sends     *)
(* changes only with the choice it delivered last, and a forced commit on  *)
(* resume never wipes a device that owes nothing.                          *)
DeliversLastChoice == Cache!Spec

(* "The mouse is always released properly" (librazer.h:467): no call ever  *)
(* writes to, releases or closes a handle that is already closed.          *)
ReleasedProperly == ~mouse.bad

(* What the claim count promises its holders: they own an open handle on   *)
(* every interface, and while there is no holder there is no handle.       *)
ClaimOwnsHandle == mouse.claims > 0 <=> mouse.open
=============================================================================
