------------------------------ MODULE MouseOps ------------------------------
(***************************************************************************)
(* One struct razer_mouse and the USB context below it, as pure functions  *)
(* from a mouse to the set of results a library call may return:           *)
(* claiming and releasing the USB interfaces with a reference count        *)
(* (librazer.c), the reconnect guard that follows a device through a       *)
(* firmware reboot (librazer.c), and the commit-pending protocol of the    *)
(* drivers (hw_deathadder.c is the one translated).                        *)
(*                                                                         *)
(* A result is a record [err, m]: whether the call reports an error, and   *)
(* the mouse it leaves behind.  Every failure libusb can report is a       *)
(* result of its own.                                                      *)
(***************************************************************************)
EXTENDS Integers, FiniteSets

CONSTANTS
  NrInterfaces,   \* interfaces the driver registered (razer_usb_add_used_interface)
  Values,         \* settings a driver can encode (the scan frequency, for one)
  BadValue,       \* a setting the setter stores and the commit cannot encode
  PowerOn,        \* what the device holds after it lost power or rebooted
  Kinds,          \* the kinds of mouse a run looks at, some of AllKinds
  ConfigFlaps,    \* TRUE: the USB configuration may refuse to settle
  ShortWrites     \* TRUE: libusb may report a transfer of 0 bytes

ASSUME InterfacesAssumption == NrInterfaces \in Nat \ {0}
ASSUME ValuesAssumption ==
  /\ Values # {}
  /\ BadValue \notin Values
  /\ PowerOn \notin Values \cup {BadValue}
ASSUME FlagsAssumption == {ConfigFlaps, ShortWrites} \subseteq BOOLEAN

(* How a mouse takes a commit: a DeathAdder Black Edition just takes it, a *)
(* Classic and a 3500 reboot if their frequency changes, a Classic with    *)
(* firmware older than 1.25 (legacy) reboots as well and is sent the       *)
(* frequency in no other case, and one that is in its bootloader is sent   *)
(* nothing at all.  (The table of devices has the bootloader's entry       *)
(* commented out, librazer.c:272; its driver knows it.)                    *)
AllKinds    == {"black", "classic", "legacy", "bootloader"}
AlwaysSent  == {"black", "classic"}
Rebooting   == {"classic", "legacy"}

ASSUME KindsAssumption == Kinds # {} /\ Kinds \subseteq AllKinds

Interfaces == 1 .. NrInterfaces
Settings   == Values \cup {BadValue}

(* struct razer_mouse, its usb_ctx and the device they stand for. *)
Mouse == [ kind     : Kinds,              \* type, fw_version and in_bootloader
           claims   : Nat,                \* claim_count
           open     : BOOLEAN,            \* usb_ctx->h is an open handle
           detached : SUBSET Interfaces,  \* kernel driver detached
           present  : BOOLEAN,            \* the device is on the bus
           cfg      : Settings,           \* the driver's copy of the setting
           old      : Settings,           \* old_frequency: last one committed
           pending  : BOOLEAN,            \* commit_pending
           hw       : Values \cup {PowerOn},
           lost     : BOOLEAN,            \* device reset since the last commit
           astray   : BOOLEAN,            \* device reset, or a commit failed half
                                          \*   way, since it was last sent the setting
           failed   : BOOLEAN,            \* the last commit returned an error
           bad      : BOOLEAN ]           \* a closed handle was used

Result(e, n) == [err |-> e, m |-> n]

(* One step of a function after another, the first error ends it. *)
Then(results, F(_)) == UNION {IF r.err THEN {r} ELSE F(r.m) : r \in results}

-----------------------------------------------------------------------------
(* razer_generic_usb_claim.  Drivers are detached interface by interface   *)
(* and no error path attaches them again.  The last alternative is the     *)
(* loop giving up after ten rounds: err still holds the 0 of the last      *)
(* libusb call, so the function closes the handle and reports success.     *)
UsbClaim(m) ==
  {Result(TRUE, m)}
  \cup IF ~m.present THEN {} ELSE
       LET Detached == [m EXCEPT !.detached = Interfaces]
       IN  {Result(TRUE, [m EXCEPT !.detached = @ \cup 1 .. i]) : i \in Interfaces}
           \cup {Result(FALSE, [Detached EXCEPT !.open = TRUE])}
           \cup IF ConfigFlaps THEN {Result(FALSE, Detached)} ELSE {}

(* razer_generic_usb_release: give the interfaces back to the kernel and   *)
(* close the handle.  Attaching is assumed to work on an open handle.      *)
UsbRelease(m) ==
  IF m.open THEN [m EXCEPT !.open = FALSE, !.detached = {}]
            ELSE [m EXCEPT !.bad = TRUE]

(* razer_usb_reconnect_guard_wait(guard, 0).  The device does not go away  *)
(* and is reclaimed, or it comes back under a new address, holding kept,   *)
(* and is reclaimed, or it does not come back within three seconds.        *)
GuardWait(m, kept) ==
  LET r == UsbRelease(m)
  IN  UsbClaim(r)
      \cup UsbClaim([r EXCEPT !.detached = {}, !.present = TRUE, !.hw = kept])
      \cup {Result(TRUE, [r EXCEPT !.present = FALSE, !.detached = {}, !.hw = v])
              : v \in {kept, PowerOn}}

(* One control transfer; taken is the mouse once the device has taken it.  *)
(* When libusb has transferred less than all of it deathadder_usb_write    *)
(* returns what libusb returned, which for no byte at all is 0, success.   *)
UsbWrite(m, taken) ==
  {Result(TRUE, IF m.open THEN m ELSE [m EXCEPT !.bad = TRUE])}
  \cup IF m.present /\ m.open
       THEN {Result(FALSE, taken)} \cup (IF ShortWrites THEN {Result(FALSE, m)} ELSE {})
       ELSE {}

SendSetting(m) == UsbWrite(m, [m EXCEPT !.hw = m.cfg])
SendOther(m)   == UsbWrite(m, m)

(* Faulty variant: the committed frequency is not remembered. *)
CommittedKeepsOld(m) == {Result(FALSE, [m EXCEPT !.lost = FALSE])}

(* What is left to do once the device accepted the settings. *)
Committed(m) == {Result(FALSE, [m EXCEPT !.old = m.cfg, !.lost = FALSE])}

(* The setting went out: the device is where its driver believes it to be. *)
Delivered(m) == {Result(FALSE, [m EXCEPT !.astray = FALSE])}

(* Faulty variant: the settings are not written again after the reboot. *)
ModernCommitOnce(m) ==
  LET Reboot(n)  == GuardWait(n, PowerOn)
      Changed(n) == IF n.kind \in Rebooting /\ n.cfg # n.old THEN Reboot(n) ELSE {Result(FALSE, n)}
  IN  Then(Then(Then(SendSetting(m), Changed), Delivered), Committed)

(* All settings in one transfer; the guard follows a changed frequency     *)
(* through the reboot, and the transfer is then repeated.                  *)
ModernCommit(m) ==
  LET Reboot(n)  == Then(GuardWait(n, PowerOn), SendSetting)
      Changed(n) == IF n.kind \in Rebooting /\ n.cfg # n.old THEN Reboot(n) ELSE {Result(FALSE, n)}
  IN  Then(Then(Then(SendSetting(m), Changed), Delivered), Committed)

(* Firmware older than 1.25: the frequency is sent if it changed, and the  *)
(* reboot that follows is how the device takes it up; the LEDs and the     *)
(* resolution are sent in any case.  An error after the frequency went out *)
(* leaves the device with a frequency that old_frequency knows nothing of. *)
LegacyCommit(m) ==
  LET Reboot(n) == GuardWait(n, n.hw)
      Others(n) == Then(SendOther(n), SendOther)
      Strays(r) == IF r.err THEN Result(TRUE, [r.m EXCEPT !.astray = @ \/ r.m.hw # r.m.old]) ELSE r
      Changed   == {Strays(r) : r \in Then(Then(SendSetting(m), Reboot), Others)}
  IN  Then(IF m.cfg # m.old THEN Then(Changed, Delivered) ELSE Others(m), Committed)

(* deathadder_do_commit.  An unknown frequency ends in -EINVAL before the  *)
(* first transfer.                                                         *)
DoCommit(m) ==
  CASE m.kind = "bootloader"                       -> {Result(FALSE, m)}
    [] m.kind # "bootloader" /\ m.cfg = BadValue   -> {Result(TRUE, m)}
    [] m.kind = "legacy" /\ m.cfg # BadValue       -> LegacyCommit(m)
    [] m.kind \in AlwaysSent /\ m.cfg # BadValue   -> ModernCommit(m)

(* Faulty variant: commit_pending is cleared whether or not it worked. *)
CommitForgets(m, force) ==
  IF m.claims = 0 THEN {Result(TRUE, m)}
  ELSE IF m.pending \/ force
       THEN {Result(r.err, [r.m EXCEPT !.pending = FALSE, !.failed = r.err]) : r \in DoCommit(m)}
       ELSE {Result(FALSE, m)}

(* deathadder_commit *)
Commit(m, force) ==
  IF m.claims = 0 THEN {Result(TRUE, m)}
  ELSE IF m.pending \/ force
       THEN {IF r.err THEN Result(TRUE, [r.m EXCEPT !.failed = TRUE])
                      ELSE Result(FALSE, [r.m EXCEPT !.pending = FALSE, !.failed = FALSE])
               : r \in DoCommit(m)}
       ELSE {Result(FALSE, m)}

(* deathadder_set_freq: only stores the value, and only while claimed. *)
SetFreq(m, v) ==
  IF m.claims = 0 THEN Result(TRUE, m)
                  ELSE Result(FALSE, [m EXCEPT !.cfg = v, !.pending = TRUE])

-----------------------------------------------------------------------------
(* mouse_default_claim and razer_generic_usb_claim_refcount *)
MouseClaim(m) ==
  IF m.claims > 0
  THEN {Result(FALSE, [m EXCEPT !.claims = @ + 1])}
  ELSE {IF r.err THEN r ELSE Result(FALSE, [r.m EXCEPT !.claims = 1]) : r \in UsbClaim(m)}

(* Faulty variants: no look at a count of 0; the handle kept. *)
ReleaseUnchecked(m) ==
  IF m.claims = 1 THEN UsbRelease([m EXCEPT !.claims = 0]) ELSE [m EXCEPT !.claims = @ - 1]
ReleaseKeepsHandle(m) == IF m.claims = 0 THEN m ELSE [m EXCEPT !.claims = @ - 1]

(* razer_generic_usb_release_refcount *)
ReleaseRefcount(m) ==
  CASE m.claims = 0 -> m
    [] m.claims = 1 -> UsbRelease([m EXCEPT !.claims = 0])
    [] OTHER        -> [m EXCEPT !.claims = @ - 1]

(* Faulty variant: the last release does not commit. *)
ReleaseUncommitted(m) == {Result(FALSE, ReleaseRefcount(m))}

(* mouse_default_release: the last release commits first. *)
MouseRelease(m) ==
  {Result(r.err, ReleaseRefcount(r.m))
     : r \in IF m.claims = 1 THEN Commit(m, FALSE) ELSE {Result(FALSE, m)}}

(* One round of razer_reconfig_mice: claim, forced commit, release.  The   *)
(* release's own result is dropped.                                        *)
Reconfig(m) ==
  LET Released(r) == {Result(r.err, s.m) : s \in MouseRelease(r.m)}
      Forced(c)   == UNION {Released(r) : r \in Commit(c.m, TRUE)}
  IN  UNION {IF c.err THEN {c} ELSE Forced(c) : c \in MouseClaim(m)}

(* Faulty variant: claims survive the struct. *)
ReleaseNone(m) == {m}

(* The loop of razer_free_mouse that drops the claims still held. *)
ReleaseAll(m) ==
  IF m.claims = 0 THEN {m}
                  ELSE {r.m : r \in MouseRelease([m EXCEPT !.claims = 1])}

(* The driver's init has claimed the device, committed its defaults and    *)
(* released it; had is what the device had before.                         *)
Initialised(k, default, had) ==
  [ kind |-> k, claims |-> 0, open |-> FALSE, detached |-> {}, present |-> TRUE,
    cfg |-> default, old |-> default, pending |-> FALSE,
    hw |-> IF k \in AlwaysSent THEN default ELSE had,
    lost |-> FALSE, astray |-> k \notin AlwaysSent, failed |-> FALSE, bad |-> FALSE ]

(* The first commit of the profile emulation: a claim, without which there *)
(* is no mouse, the same settings again and a release, whose error is      *)
(* dropped.                                                                *)
EmulationStarted(m) ==
  UNION {{r.m : r \in MouseRelease(SetFreq(c.m, m.cfg).m)} : c \in {c \in MouseClaim(m) : ~c.err}}

(* mouse_new, without (razerd -p) and with the profile emulation. *)
NewMouse(default, had) ==
  UNION {LET m == Initialised(k, default, had) IN {m} \cup EmulationStarted(m) : k \in Kinds}
=============================================================================
