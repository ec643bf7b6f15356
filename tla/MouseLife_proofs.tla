-------------------------- MODULE MouseLife_proofs --------------------------
(***************************************************************************)
(* Proofs about MouseLife, for any number of interfaces, any settings, any *)
(* nesting of claims and any kinds of mouse.                               *)
(*                                                                         *)
(* The argument: every step that calls the driver is an attempt in the     *)
(* sense of MouseOps_proofs, and attempts keep Core and ClaimCore.         *)
(***************************************************************************)
EXTENDS MouseLife, MouseOps_proofs

-----------------------------------------------------------------------------
(* The inductive invariant.                                                *)
IInv == exists \in BOOLEAN /\ Core(mouse) /\ ClaimCore(mouse)

(* Every step that calls a driver or the USB layer is an attempt.          *)
LEMMA CallsAreAttempts ==
  ASSUME IInv, Claim \/ Release \/ Reconfigure \/ Free
  PROVE  /\ mouse' \in Mouse
         /\ Tries(mouse, mouse') \/ Delivers(mouse, mouse')
         /\ ClaimCore(mouse')
<1>1. mouse \in Mouse /\ ClaimCore(mouse)
  BY DEF IInv, Core
<1>2. CASE Claim
  <2>1. PICK r \in MouseClaim(mouse) : mouse' = r.m
    BY <1>2 DEF Claim
  <2>2. r.m \in Mouse /\ Tries(mouse, r.m) /\ ClaimCore(r.m)
    BY <1>1, MouseClaimEffect
  <2>3. QED
    BY <2>1, <2>2
<1>3. CASE Release
  <2>1. PICK r \in MouseRelease(mouse) : mouse' = r.m
    BY <1>3 DEF Release
  <2>2. QED
    BY <1>1, <2>1, MouseReleaseEffect
<1>4. CASE Reconfigure
  <2>1. PICK r \in Reconfig(mouse) : mouse' = r.m
    BY <1>4 DEF Reconfigure
  <2>2. QED
    BY <1>1, <2>1, ReconfigEffect
<1>5. CASE Free
  BY <1>1, <1>5, ReleaseAllEffect DEF Free
<1>6. QED
  BY <1>2, <1>3, <1>4, <1>5

(* IInv holds initially and every step keeps it.                           *)
LEMMA IInvInductive ==
  /\ Init => IInv
  /\ IInv /\ [Next]_vars => IInv'
<1>1. Init => IInv
  <2> SUFFICES ASSUME Init PROVE IInv
    OBVIOUS
  <2>1. PICK had \in Values \cup {PowerOn} : mouse \in NewMouse(Default, had)
    BY DEF Init
  <2>2. Core(mouse) /\ ClaimCore(mouse)
    BY <2>1, DefaultAssumption, NewMouseEffect
  <2>3. QED
    BY <2>2 DEF Init, IInv
<1>2. IInv /\ [Next]_vars => IInv'
  <2> SUFFICES ASSUME IInv, [Next]_vars PROVE IInv'
    OBVIOUS
  <2>0. mouse \in Mouse /\ Core(mouse) /\ ClaimCore(mouse) /\ exists \in BOOLEAN
    BY DEF IInv, Core
  <2>1. CASE Claim \/ Release \/ Reconfigure \/ Free
    <3>1. /\ mouse' \in Mouse
          /\ Tries(mouse, mouse') \/ Delivers(mouse, mouse')
          /\ ClaimCore(mouse')
      BY <2>1, CallsAreAttempts
    <3>2. Core(mouse')
      BY <2>0, <3>1, AttemptKeepsCore
    <3>3. exists' \in BOOLEAN
      BY <2>0, <2>1 DEF Claim, Release, Reconfigure, Free
    <3>4. QED
      BY <3>1, <3>2, <3>3 DEF IInv, Core, ClaimCore
  <2>2. ASSUME NEW v \in Settings, Set(v) PROVE IInv'
    <3>1. \/ mouse' = mouse
          \/ /\ mouse.claims # 0
             /\ mouse' = [mouse EXCEPT !.cfg = v, !.pending = TRUE]
             /\ mouse' \in Mouse
      BY <2>0, <2>2, SetFreqEffect DEF Set
    <3>2. exists' = exists
      BY <2>2 DEF Set
    <3>3. QED
      BY <2>0, <3>1, <3>2 DEF IInv, Core, ClaimCore, Mouse
  <2>3. CASE New
    <3>1. PICK n \in NewMouse(Default, mouse.hw) : mouse' = [n EXCEPT !.bad = @ \/ mouse.bad]
      BY <2>3 DEF New
    <3>2. mouse.bad \in BOOLEAN /\ mouse.hw \in Values \cup {PowerOn}
      BY <2>0 DEF Mouse
    <3>3. n \in Mouse /\ Core(n) /\ ClaimCore(n)
      BY <3>1, <3>2, DefaultAssumption, NewMouseEffect
    <3>4. Core(mouse') /\ ClaimCore(mouse')
      BY <3>1, <3>2, <3>3 DEF Core, ClaimCore, Mouse
    <3>5. QED
      BY <2>3, <3>4 DEF New, IInv, Core, ClaimCore
  <2>4. CASE Unplug
    BY <2>0, <2>4 DEF Unplug, IInv, Core, ClaimCore, Mouse
  <2>5. CASE Plug
    BY <2>0, <2>5 DEF Plug, IInv, Core, ClaimCore, Mouse
  <2>6. CASE Suspend
    BY <2>0, <2>6 DEF Suspend, IInv, Core, ClaimCore, Mouse
  <2>7. CASE UNCHANGED vars
    BY <2>0, <2>7 DEF vars, IInv, Core, ClaimCore
  <2>8. QED
    BY <2>1, <2>2, <2>3, <2>4, <2>5, <2>6, <2>7 DEF Next
<1>3. QED
  BY <1>1, <1>2

(* The invariant holds in every reachable state.                           *)
THEOREM Invariance == Spec => []IInv
  BY IInvInductive, PTL DEF Spec

(* The types are kept.                                                     *)
THEOREM TypeCorrect == Spec => []TypeOK
<1>1. IInv => TypeOK
  BY DEF IInv, Core, TypeOK
<1>2. QED
  BY <1>1, Invariance, PTL

(* Nobody holds a claim: no handle is open.  (librazer.c, the refcount.)   *)
THEOREM NoHandleLeaks == Spec => []NoHandleLeak
<1>1. IInv => NoHandleLeak
  BY DEF IInv, ClaimCore, NoHandleLeak
<1>2. QED
  BY <1>1, Invariance, PTL

(* No setting is dropped on the way to the device, if a transfer of no     *)
(* bytes never counts as a success, but for a legacy DeathAdder that was   *)
(* reset or whose commit failed half way, and for one in its bootloader.   *)
(* (deathadder_commit, deathadder_do_commit.)                              *)
THEOREM NoSettingLost ==
  ASSUME ~ShortWrites
  PROVE  Spec => []NoLostSetting
<1>1. IInv => NoLostSetting
  <2> SUFFICES ASSUME IInv, mouse.hw # mouse.cfg, ~mouse.pending, ~mouse.lost
               PROVE  mouse.kind \notin AlwaysSent /\ mouse.astray
    BY DEF NoLostSetting
  <2>1. mouse \in Mouse /\ Core(mouse)
    BY DEF IInv, Core
  <2>2. QED
    BY <2>1, KindOf DEF Core
<1>2. QED
  BY <1>1, Invariance, PTL

(* A settled mouse is never rebooted by a forced commit.                   *)
(* (deathadder_do_commit.)                                                 *)
THEOREM SettledNotRebooted == Spec => []RebootOnlyWhenOwed
<1>1. IInv => RebootOnlyWhenOwed
  BY DEF IInv, Core, RebootOnlyWhenOwed, Rebooting
<1>2. QED
  BY <1>1, Invariance, PTL

(* After the last release only a failed commit explains a debt.            *)
(* (mouse_default_release.)                                                *)
THEOREM LastReleaseCommits == Spec => []CommittedByLastRelease
<1>1. IInv => CommittedByLastRelease
  BY DEF IInv, ClaimCore, CommittedByLastRelease
<1>2. QED
  BY <1>1, Invariance, PTL

-----------------------------------------------------------------------------
(* An attempt is a delivery, a debt settled without one, a try or nothing  *)
(* to SettingCache.                                                        *)
LEMMA AttemptMaps ==
  ASSUME ~ShortWrites, Core(mouse), Tries(mouse, mouse') \/ Delivers(mouse, mouse')
  PROVE  Cache!Deliver \/ Cache!Settle \/ Cache!Try \/ UNCHANGED Cache!cvars
<1>0. mouse \in Mouse
  BY DEF Core
<1>1. mouse'.kind = mouse.kind /\ mouse'.cfg = mouse.cfg
  BY DEF Tries, Delivers, Settles
<1>2. Sends' = Sends
  BY <1>1 DEF Sends
<1>3. CASE Delivers(mouse, mouse')
  <2>1. CASE Sent(mouse)
    <3>1. mouse.kind # "bootloader" /\ (Sends = "always" \/ (Sends = "changes" /\ mouse.cfg # mouse.old))
      BY <2>1 DEF Sent, Sends, AlwaysSent
    <3>2. Cache!Deliver
      BY <1>1, <1>2, <1>3, <2>1, <3>1 DEF Delivers, Settles, Cache!Deliver
    <3>3. QED
      BY <3>2
  <2>2. CASE ~Sent(mouse)
    <3>1. (Sends = "changes" /\ mouse.cfg = mouse.old) \/ Sends = "never"
      BY <1>0, <2>2, KindOf DEF Sent, Sends, AlwaysSent
    <3>2. mouse'.old = mouse.old
      <4>1. mouse.kind = "bootloader" \/ mouse.cfg = mouse.old
        BY <1>0, <2>2, KindOf DEF Sent
      <4>2. QED
        BY <1>3, <4>1 DEF Delivers, Settles
    <3>3. Cache!Settle
      BY <1>1, <1>2, <1>3, <2>2, <3>1, <3>2 DEF Delivers, Settles, Cache!Settle
    <3>4. QED
      BY <3>3
  <2>3. QED
    BY <2>1, <2>2
<1>4. CASE Tries(mouse, mouse')
  <2>1. mouse'.pending = mouse.pending /\ mouse'.old = mouse.old
    BY <1>4 DEF Tries
  <2>2. CASE mouse'.hw = mouse.hw /\ mouse'.astray = mouse.astray
    BY <1>1, <1>2, <2>1, <2>2 DEF Cache!cvars
  <2>3. CASE ~(mouse'.hw = mouse.hw /\ mouse'.astray = mouse.astray)
    <3>1. Sent(mouse)
      BY <1>4, <2>3 DEF Tries
    <3>2. mouse'.hw # mouse.hw
      <4>1. CASE mouse.kind = "legacy"
        BY <1>4, <2>3, <4>1 DEF Core, Tries
      <4>2. CASE mouse.kind # "legacy"
        BY <1>4, <2>3, <4>2 DEF Tries
      <4>3. QED
        BY <4>1, <4>2
    <3>3. \/ mouse.cfg \in Values /\ mouse'.hw = mouse.cfg
          \/ mouse.pending /\ mouse'.hw = PowerOn
      <4>1. mouse.kind # "bootloader"
        BY <3>1 DEF Sent, AlwaysSent
      <4>2. QED
        BY <1>4, <3>2, <4>1 DEF Core, Tries
    <3>4. CASE mouse.kind \in AlwaysSent
      <4>1. Sends = "always" /\ mouse.kind # "legacy"
        BY <3>4 DEF Sends, AlwaysSent
      <4>2. mouse'.astray = mouse.astray
        BY <1>4, <4>1 DEF Tries
      <4>3. Cache!Try
        BY <1>1, <1>2, <2>1, <3>3, <4>1, <4>2 DEF Cache!Try
      <4>4. QED
        BY <4>3
    <3>5. CASE mouse.kind = "legacy"
      <4>1. Sends = "changes" /\ mouse.cfg # mouse.old
        BY <3>1, <3>5 DEF Sends, AlwaysSent, Sent
      <4>2. mouse'.astray
        BY <1>4, <3>2, <3>5 DEF Tries
      <4>3. mouse'.astray = TRUE
        <5>1. mouse'.astray \in BOOLEAN
          BY <1>0, <1>4 DEF Tries, Mouse
        <5>2. QED
          BY <4>2, <5>1
      <4>4. Cache!Try
        BY <1>1, <1>2, <2>1, <3>3, <4>1, <4>3 DEF Cache!Try
      <4>5. QED
        BY <4>4
    <3>6. QED
      BY <1>0, <3>1, <3>4, <3>5 DEF Sent
  <2>4. QED
    BY <2>2, <2>3
<1>5. QED
  BY <1>3, <1>4

(* A fresh mouse is a fresh driver to SettingCache.                        *)
LEMMA FreshMaps ==
  ASSUME ~ShortWrites, NEW n \in Mouse,
         n.cfg = Default /\ n.old = Default,
         n.kind \in AlwaysSent => ~n.astray /\ (n.hw = Default \/ ShortWrites),
         n.kind \notin AlwaysSent => n.astray
  PROVE  /\ mouse = n => Cache!Init
         /\ mouse' = n => Cache!Init'
<1>1. n.hw \in Values \cup {PowerOn} /\ n.pending \in BOOLEAN /\ n.astray \in BOOLEAN
  BY DEF Mouse
<1>2. n.kind \in AlwaysSent \/ n.kind = "legacy" \/ n.kind = "bootloader"
  BY KindOf
<1>3. mouse = n => Cache!Init
  <2> SUFFICES ASSUME mouse = n PROVE Cache!Init
    OBVIOUS
  <2>1. Sends \in {"always", "changes", "never"} /\ (Sends = "always" <=> n.kind \in AlwaysSent)
    BY <1>2 DEF Sends, AlwaysSent
  <2>2. mouse.astray = (Sends # "always")
    BY <1>1, <2>1
  <2>3. QED
    BY <1>1, <2>1, <2>2 DEF Cache!Init
<1>4. mouse' = n => Cache!Init'
  <2> SUFFICES ASSUME mouse' = n PROVE Cache!Init'
    OBVIOUS
  <2>1. Sends' \in {"always", "changes", "never"} /\ (Sends' = "always" <=> n.kind \in AlwaysSent)
    BY <1>2 DEF Sends, AlwaysSent
  <2>2. mouse'.astray = (Sends' # "always")
    BY <1>1, <2>1
  <2>3. QED
    BY <1>1, <2>1, <2>2 DEF Cache!Init
<1>5. QED
  BY <1>3, <1>4

(* MouseLife implements SettingCache, if a transfer of no bytes never      *)
(* counts as a success.                                                    *)
THEOREM Refinement ==
  ASSUME ~ShortWrites
  PROVE  Spec => DeliversLastChoice
<1>1. Init => Cache!Init
  <2> SUFFICES ASSUME Init PROVE Cache!Init
    OBVIOUS
  <2>1. PICK had \in Values \cup {PowerOn} : mouse \in NewMouse(Default, had)
    BY DEF Init
  <2>2. /\ mouse \in Mouse /\ mouse.cfg = Default /\ mouse.old = Default
        /\ mouse.kind \in AlwaysSent => ~mouse.astray /\ (mouse.hw = Default \/ ShortWrites)
        /\ mouse.kind \notin AlwaysSent => mouse.astray
    BY <2>1, DefaultAssumption, NewMouseEffect
  <2>3. QED
    BY <2>2, FreshMaps
<1>2. IInv /\ [Next]_vars => [Cache!Next]_Cache!cvars
  <2> SUFFICES ASSUME IInv, [Next]_vars PROVE [Cache!Next]_Cache!cvars
    OBVIOUS
  <2>0. mouse \in Mouse /\ Core(mouse)
    BY DEF IInv, Core
  <2>1. CASE Claim \/ Release \/ Reconfigure \/ Free
    BY <2>0, <2>1, CallsAreAttempts, AttemptMaps DEF Cache!Next
  <2>2. ASSUME NEW v \in Settings, Set(v) PROVE [Cache!Next]_Cache!cvars
    <3>1. mouse' = mouse \/ mouse' = [mouse EXCEPT !.cfg = v, !.pending = TRUE]
      BY <2>0, <2>2, SetFreqEffect DEF Set
    <3>2. CASE mouse' = mouse
      BY <3>2 DEF Sends, Cache!cvars
    <3>3. CASE mouse' = [mouse EXCEPT !.cfg = v, !.pending = TRUE]
      BY <2>0, <2>2, <3>3 DEF Mouse, Sends, Cache!Next, Cache!Choose
    <3>4. QED
      BY <3>1, <3>2, <3>3
  <2>3. CASE New
    <3>1. PICK n \in NewMouse(Default, mouse.hw) : mouse' = [n EXCEPT !.bad = @ \/ mouse.bad]
      BY <2>3 DEF New
    <3>2. mouse.bad \in BOOLEAN /\ mouse.hw \in Values \cup {PowerOn}
      BY <2>0 DEF Mouse
    <3>3. /\ n \in Mouse /\ n.cfg = Default /\ n.old = Default
          /\ n.kind \in AlwaysSent => ~n.astray /\ (n.hw = Default \/ ShortWrites)
          /\ n.kind \notin AlwaysSent => n.astray
      BY <3>1, <3>2, DefaultAssumption, NewMouseEffect
    <3> DEFINE p == [n EXCEPT !.bad = @ \/ mouse.bad]
    <3>4. /\ p \in Mouse /\ p.cfg = Default /\ p.old = Default
          /\ p.kind \in AlwaysSent => ~p.astray /\ (p.hw = Default \/ ShortWrites)
          /\ p.kind \notin AlwaysSent => p.astray
      BY <3>2, <3>3 DEF Mouse
    <3>5. mouse' = p
      BY <3>1
    <3> HIDE DEF p
    <3>6. Cache!Init'
      BY <3>4, <3>5, FreshMaps
    <3>7. QED
      BY <3>6 DEF Cache!Next, Cache!Replace
  <2>4. CASE Unplug
    BY <2>0, <2>4 DEF Unplug, Mouse, Sends, Cache!Next, Cache!Forget
  <2>5. CASE Plug
    BY <2>0, <2>5 DEF Plug, Mouse, Sends, Cache!cvars
  <2>6. CASE Suspend
    BY <2>0, <2>6 DEF Suspend, Mouse, Sends, Cache!Next, Cache!Forget
  <2>7. CASE UNCHANGED vars
    BY <2>7 DEF vars, Sends, Cache!cvars
  <2>8. QED
    BY <2>1, <2>2, <2>3, <2>4, <2>5, <2>6, <2>7 DEF Next
<1>3. QED
  BY <1>1, <1>2, Invariance, PTL DEF Spec, DeliversLastChoice, Cache!Spec

-----------------------------------------------------------------------------
(* No library call uses a closed handle, and claims own an open one, if    *)
(* no kind of mouse reboots and claims that succeed open the handle.       *)
(* (razer_generic_usb_claim_refcount, razer_generic_usb_release_refcount.) *)
THEOREM HandlesOwned ==
  ASSUME Kinds \cap Rebooting = {}, ~ConfigFlaps
  PROVE  Spec => [](ReleasedProperly /\ ClaimOwnsHandle)
<1>1. Init => Handle(mouse)
  BY DefaultAssumption, NewMouseEffect DEF Init
<1>2. IInv /\ Handle(mouse) /\ [Next]_vars => Handle(mouse)'
  <2> SUFFICES ASSUME IInv, Handle(mouse), [Next]_vars PROVE Handle(mouse')
    BY DEF Handle
  <2>0. mouse \in Mouse /\ mouse.kind \notin Rebooting
    BY KindOf DEF IInv, Core
  <2>1. CASE Claim
    BY <2>0, <2>1, MouseClaimKeepsHandle DEF Claim
  <2>2. CASE Release
    BY <2>0, <2>2, MouseReleaseKeepsHandle DEF Release
  <2>3. CASE Reconfigure
    BY <2>0, <2>3, ReconfigKeepsHandle DEF Reconfigure
  <2>4. CASE Free
    BY <2>0, <2>4, ReleaseAllKeepsHandle DEF Free
  <2>5. ASSUME NEW v \in Settings, Set(v) PROVE Handle(mouse')
    <3>1. mouse' = mouse \/ mouse' = [mouse EXCEPT !.cfg = v, !.pending = TRUE]
      BY <2>0, <2>5, SetFreqEffect DEF Set
    <3>2. QED
      BY <2>0, <3>1 DEF Handle, Mouse
  <2>6. CASE New
    <3>1. PICK n \in NewMouse(Default, mouse.hw) : mouse' = [n EXCEPT !.bad = @ \/ mouse.bad]
      BY <2>6 DEF New
    <3>2. ~mouse.bad /\ mouse.hw \in Values \cup {PowerOn}
      BY <2>0 DEF Mouse, Handle
    <3>3. n \in Mouse /\ Handle(n)
      BY <3>1, <3>2, DefaultAssumption, NewMouseEffect
    <3>4. QED
      BY <3>1, <3>2, <3>3 DEF Handle, Mouse
  <2>7. CASE Unplug \/ Plug \/ Suspend
    BY <2>0, <2>7 DEF Unplug, Plug, Suspend, Handle, Mouse
  <2>8. CASE UNCHANGED vars
    BY <2>8 DEF vars
  <2>9. QED
    BY <2>1, <2>2, <2>3, <2>4, <2>5, <2>6, <2>7, <2>8 DEF Next
<1>3. IInv /\ Handle(mouse) => ReleasedProperly /\ ClaimOwnsHandle
  BY DEF IInv, Core, Mouse, Handle, ReleasedProperly, ClaimOwnsHandle
<1>4. QED
  BY <1>1, <1>2, <1>3, Invariance, PTL DEF Spec
=============================================================================
