------------------------------ MODULE ProfileEmu ------------------------------
(***************************************************************************)
(* Profile emulation (librazer/profile_emulation.c): profiles kept in      *)
(* software above a driver that knows one hardware profile.  The driver is *)
(* the Viper's (hw_viper.c), which has no commit callback: every setter    *)
(* writes to the device at once, and only its first axis has a mapping.    *)
(*                                                                         *)
(* A call that writes may fail before the device took the setting or       *)
(* after it (the answer is read back and may be lost), and a commit of     *)
(* several settings may fail between them.                                 *)
(***************************************************************************)
CONSTANTS
  Profiles, FirstProfile,   \* emulated profiles; the one active at the start
  Axes, MainAxis,           \* supported axes; the one with mappings of its own
  Freqs, DefaultFreq,       \* frequencies the driver can set
  UnknownFreq, BadFreq,     \* "driver's default", and a value it refuses
  Mappings, DefaultMapping, \* resolution mappings, shared by all profiles
  Resolutions, StageOf,     \* resolutions; what each mapping has at first
  NoMapping, PowerOn        \* NULL; what the device has after a power loss

ASSUME ProfilesAssumption == FirstProfile \in Profiles
ASSUME AxesAssumption == MainAxis \in Axes
ASSUME FreqsAssumption ==
  /\ DefaultFreq \in Freqs
  /\ UnknownFreq \notin Freqs /\ BadFreq \notin Freqs \cup {UnknownFreq}
ASSUME MappingsAssumption ==
  /\ DefaultMapping \in Mappings /\ NoMapping \notin Mappings
  /\ StageOf \in [Mappings -> Resolutions]
ASSUME PowerOnAssumption == PowerOn \notin Freqs \cup Resolutions

VARIABLES
  data,     \* emu->data: each profile's frequency and mapping per axis
  active,   \* emu->active_profile
  res,      \* the resolution of each mapping (struct razer_mouse_dpimapping)
  hw,       \* the driver's current_freq and current_dpimapping, and the device
  failed,   \* ghost: the last call that wrote, or should have, returned an error
  lost      \* ghost: the device lost power since the last complete commit

vars == <<data, active, res, hw, failed, lost>>

AnyFreq  == Freqs \cup {UnknownFreq, BadFreq}
Settings == [freq : AnyFreq, dpi : [Axes -> Mappings \cup {NoMapping}]]
Hardware == [ freq    : Freqs,                       \* current_freq
              mapping : Mappings,                    \* current_dpimapping
              devFreq : Freqs \cup {PowerOn},
              devRes  : Resolutions \cup {PowerOn} ]

Result(err, h)  == [err |-> err, hw |-> h]

-----------------------------------------------------------------------------
(* The driver.                                                             *)

(* viper_set_freq takes an unknown frequency for its default. *)
Encoded(f) == IF f = UnknownFreq THEN DefaultFreq ELSE f

(* One command to the device (razer_chroma_ext_send): not taken, taken     *)
(* with the answer lost or spoilt, taken.                                  *)
Sent(before, after) == {Result(TRUE, before), Result(TRUE, after), Result(FALSE, after)}

(* viper_send_set_resolution: the current mapping's resolution. *)
SendResolution(h, r) == Sent(h, [h EXCEPT !.devRes = r[h.mapping]])

(* Faulty variant: the driver keeps the value it was given. *)
DriverKeepsFreq(h, f) ==
  IF Encoded(f) \notin Freqs THEN {Result(TRUE, h)}
  ELSE LET n == [h EXCEPT !.freq = f]
       IN  Sent(n, [n EXCEPT !.devFreq = Encoded(f)])

(* viper_set_freq: the driver's copy is changed before the device is. *)
DriverSetFreq(h, f) ==
  IF Encoded(f) \notin Freqs THEN {Result(TRUE, h)}
  ELSE LET n == [h EXCEPT !.freq = Encoded(f)]
       IN  Sent(n, [n EXCEPT !.devFreq = n.freq])

(* viper_set_dpimapping for the main axis; it refuses every other one. *)
DriverSetMapping(h, d, r) == SendResolution([h EXCEPT !.mapping = d], r)

-----------------------------------------------------------------------------
(* The emulation.                                                          *)

(* A mapping for an axis the driver refuses makes the commit stop there,   *)
(* after the main axis and before the frequency.                           *)
Refused(s) == \E a \in Axes \ {MainAxis} : s.dpi[a] # NoMapping

(* Faulty variant: an error of a mapping is logged, and the commit goes on. *)
CommitGoesOn(s, h, r) ==
  {Result(TRUE, h)}
  \cup UNION {DriverSetFreq(m.hw, s.freq) : m \in DriverSetMapping(h, s.dpi[MainAxis], r)}

(* mouse_profemu_commit: claim, every axis that has a mapping in their     *)
(* order (the main axis is the first and has one from the start), the      *)
(* frequency; the first error ends it.                                     *)
HwCommit(s, h, r) ==
  LET mapped == DriverSetMapping(h, s.dpi[MainAxis], r)
  IN  {Result(TRUE, h)}
      \cup {m \in mapped : m.err}
      \cup UNION {IF Refused(s) THEN {Result(TRUE, m.hw)} ELSE DriverSetFreq(m.hw, s.freq)
                    : m \in {m \in mapped : ~m.err}}

(* The commit of profile p, the last thing a call does. *)
Commit(p) ==
  \E c \in HwCommit(data'[p], hw, res) :
    /\ hw' = c.hw
    /\ failed' = c.err
    /\ lost' = (lost /\ c.err)

(* The end of every setter: only the active profile is in the hardware. *)
CommitIfActive(p) == IF p = active THEN Commit(p) ELSE UNCHANGED <<hw, failed, lost>>

-----------------------------------------------------------------------------
(* razer_mouse_init_profile_emulation, after its commit succeeded: with an *)
(* error there is no mouse.                                                *)
Init ==
  LET initial == [freq |-> DefaultFreq,
                  dpi  |-> [a \in Axes |-> IF a = MainAxis THEN DefaultMapping ELSE NoMapping]]
  IN  /\ data = [p \in Profiles |-> initial]
      /\ active = FirstProfile
      /\ res = StageOf
      /\ hw = [freq |-> DefaultFreq, mapping |-> DefaultMapping,
               devFreq |-> DefaultFreq, devRes |-> StageOf[DefaultMapping]]
      /\ failed = FALSE /\ lost = FALSE

(* mouse_profemu_set_freq stores any value. *)
SetFreq(p, f) ==
  /\ data' = [data EXCEPT ![p].freq = f]
  /\ CommitIfActive(p)
  /\ UNCHANGED <<active, res>>

(* mouse_profemu_set_dpimapping for one axis, refused by the driver or not. *)
SetAxisMapping(p, a, d) ==
  /\ data' = [data EXCEPT ![p].dpi[a] = d]
  /\ CommitIfActive(p)
  /\ UNCHANGED <<active, res>>

(* mouse_profemu_set_dpimapping without an axis: all that have a mapping. *)
SetAllMappings(p, d) ==
  /\ data' = [data EXCEPT ![p].dpi =
                [a \in Axes |-> IF @[a] = NoMapping THEN NoMapping ELSE d]]
  /\ CommitIfActive(p)
  /\ UNCHANGED <<active, res>>

(* mouse_profemu_set_active: the profile is active whether or not its      *)
(* commit succeeds, and asking again for it does nothing.                  *)
SetActive(p) ==
  /\ active' = p
  /\ UNCHANGED <<data, res>>
  /\ IF p = active THEN UNCHANGED <<hw, failed, lost>> ELSE Commit(p)

(* Faulty variant: a mapping in use is not sent. *)
ChangeUnsent(d, v) ==
  /\ res' = [res EXCEPT ![d] = v]
  /\ UNCHANGED <<data, active, hw, failed, lost>>

(* viper_change_dpimapping: the mapping is changed for every profile that  *)
(* uses it, and sent if the driver uses it.                                *)
ChangeMapping(d, v) ==
  /\ res' = [res EXCEPT ![d] = v]
  /\ IF d = hw.mapping
     THEN \E c \in SendResolution(hw, res') : hw' = c.hw /\ failed' = (failed \/ c.err)
     ELSE UNCHANGED <<hw, failed>>
  /\ UNCHANGED <<data, active, lost>>

(* The host suspends and the device loses power. *)
Suspend ==
  /\ hw' = [hw EXCEPT !.devFreq = PowerOn, !.devRes = PowerOn]
  /\ lost' = TRUE
  /\ UNCHANGED <<data, active, res, failed>>

Next ==
  \/ \E p \in Profiles, f \in AnyFreq : SetFreq(p, f)
  \/ \E p \in Profiles, a \in Axes, d \in Mappings : SetAxisMapping(p, a, d)
  \/ \E p \in Profiles, d \in Mappings : SetAllMappings(p, d)
  \/ \E p \in Profiles : SetActive(p)
  \/ \E d \in Mappings, v \in Resolutions : ChangeMapping(d, v)
  \/ Suspend

Spec == Init /\ [][Next]_vars

-----------------------------------------------------------------------------
(* The device has what the active profile says. *)
Applied ==
  /\ hw.devFreq = Encoded(data[active].freq)
  /\ hw.devRes = res[data[active].dpi[MainAxis]]

(* Every field keeps its type; mouse_profemu's arrays hold what setters put in. *)
TypeOK ==
  /\ data \in [Profiles -> Settings]
  /\ \A p \in Profiles : data[p].dpi[MainAxis] \in Mappings
  /\ active \in Profiles
  /\ res \in [Mappings -> Resolutions]
  /\ hw \in Hardware
  /\ {failed, lost} \subseteq BOOLEAN

(* Whatever profiles are edited, selected and share mappings, the device   *)
(* has the settings of the active one, unless a call said that it failed   *)
(* or the device forgot (profile_emulation.c, hw_viper.c).                 *)
ActiveApplied == failed \/ lost \/ Applied

(* A profile with a setting the driver refuses is never taken for applied: *)
(* the call that made it active, or edited it, returned an error           *)
(* (mouse_profemu_commit stops at the first error and returns it).         *)
RefusedReported ==
  (Refused(data[active]) \/ Encoded(data[active].freq) \notin Freqs) => failed
=============================================================================
