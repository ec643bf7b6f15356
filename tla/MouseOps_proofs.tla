--------------------------- MODULE MouseOps_proofs ---------------------------
(***************************************************************************)
(* What the calls of MouseOps do to a mouse, for any number of interfaces, *)
(* any settings and any kinds of mouse.  The proofs about one mouse        *)
(* (MouseLife_proofs) and about the daemon's mice (Razerd_proofs) rest on  *)
(* these lemmas.                                                           *)
(*                                                                         *)
(* Every call, failing or not, relates the mouse it gets and a mouse it    *)
(* may return by Tries or by Delivers, two relations that compose.  Tries  *)
(* keeps what is owed and wipes the device only if the frequency differs   *)
(* from the committed one; Delivers ends with the device holding the       *)
(* cached setting, if this kind of mouse is sent it.  Both preserve Core.  *)
(***************************************************************************)
EXTENDS MouseOps, TLAPS

(* A successful commit sends the setting: always, or if it changed.        *)
Sent(m) ==
  \/ m.kind \in AlwaysSent
  \/ m.kind = "legacy" /\ m.cfg # m.old

(* No operation but SetFreq changes the cached setting, and none the kind. *)
Tries(m, n) ==
  /\ n.kind = m.kind /\ n.cfg = m.cfg /\ n.old = m.old
  /\ n.pending = m.pending /\ n.lost = m.lost
  /\ \/ n.hw = m.hw
     \/ Sent(m) /\ m.cfg \in Values /\ n.hw = m.cfg
     \/ Sent(m) /\ m.cfg # m.old /\ n.hw = PowerOn
  /\ \/ n.astray = m.astray /\ (m.kind = "legacy" => n.hw = m.hw \/ n.astray)
     \/ n.astray /\ m.kind = "legacy" /\ Sent(m) /\ n.hw # m.old

(* What a commit that succeeded leaves, in all but commit_pending, which   *)
(* deathadder_commit clears.                                               *)
Settles(m, n) ==
  /\ n.kind = m.kind /\ n.cfg = m.cfg
  /\ m.kind # "bootloader" => m.cfg \in Values /\ n.old = m.cfg /\ ~n.lost
  /\ m.kind = "bootloader" => n.old = m.old /\ n.lost = m.lost
  /\ Sent(m)  => (n.hw = m.cfg \/ ShortWrites) /\ ~n.astray
  /\ ~Sent(m) => n.hw = m.hw /\ n.astray = m.astray

Delivers(m, n) == Settles(m, n) /\ ~n.pending

Core(m) ==
  /\ m \in Mouse
  /\ m.kind # "bootloader" /\ m.cfg # m.old => m.pending
  /\ m.kind \in AlwaysSent /\ m.hw # m.cfg => m.pending \/ m.lost \/ ShortWrites
  /\ m.kind = "legacy" /\ m.hw # m.old => m.astray \/ ShortWrites
  /\ m.kind = "bootloader" => m.astray

(* The part of the invariant that speaks of the claims. *)
ClaimCore(m) ==
  /\ m.claims = 0 => ~m.open
  /\ m.claims = 0 /\ m.pending => m.failed

(* Everything but the handle and what the device holds is as it was. *)
Untouched(m, n) ==
  /\ n \in Mouse
  /\ n.kind = m.kind /\ n.cfg = m.cfg /\ n.old = m.old /\ n.pending = m.pending
  /\ n.lost = m.lost /\ n.astray = m.astray
  /\ n.claims = m.claims /\ n.failed = m.failed

(* What deathadder_do_commit may return. *)
Outcome(m, r) ==
  /\ r.m \in Mouse /\ r.err \in BOOLEAN
  /\ r.m.claims = m.claims /\ r.m.failed = m.failed /\ r.m.pending = m.pending
  /\ r.err => Tries(m, r.m)
  /\ ~r.err => Settles(m, r.m)

-----------------------------------------------------------------------------
(* Every kind of mouse is one of the four.                                 *)
LEMMA KindOf ==
  ASSUME NEW m \in Mouse
  PROVE  /\ m.kind \in AlwaysSent \/ m.kind = "legacy" \/ m.kind = "bootloader"
         /\ m.kind \in AlwaysSent => m.kind # "legacy" /\ m.kind # "bootloader"
         /\ m.kind \in Kinds
  BY KindsAssumption DEF Mouse, AllKinds, AlwaysSent

(* Tries and Delivers compose: any number of attempts is one attempt.      *)
LEMMA AttemptsCompose ==
  ASSUME NEW m \in Mouse, NEW n \in Mouse, NEW p \in Mouse,
         Tries(m, n) \/ Delivers(m, n), Tries(n, p) \/ Delivers(n, p)
  PROVE  Tries(m, p) \/ Delivers(m, p)
<1>1. CASE Tries(m, n) /\ Tries(n, p)
  <2>1. n.kind = m.kind /\ n.cfg = m.cfg /\ n.old = m.old
    BY <1>1 DEF Tries
  <2>2. Sent(n) <=> Sent(m)
    BY <2>1 DEF Sent
  <2>3. CASE m.kind = "legacy"
    <3>1. m.old # PowerOn
      BY ValuesAssumption DEF Mouse, Settings
    <3>2. Sent(m) => m.cfg # m.old
      BY <2>3 DEF Sent, AlwaysSent
    <3>3. CASE n.astray = m.astray /\ (n.hw = m.hw \/ n.astray)
      BY <1>1, <2>1, <2>2, <2>3, <3>1, <3>2, <3>3 DEF Tries
    <3>4. CASE n.astray /\ Sent(m) /\ n.hw # m.old
      BY <1>1, <2>1, <2>2, <2>3, <3>1, <3>2, <3>4 DEF Tries
    <3>5. QED
      BY <1>1, <2>3, <3>3, <3>4 DEF Tries
  <2>4. CASE m.kind # "legacy"
    BY <1>1, <2>1, <2>2, <2>4 DEF Tries
  <2>5. QED
    BY <2>3, <2>4
<1>2. CASE Tries(m, n) /\ Delivers(n, p)
  BY <1>2, KindOf DEF Tries, Delivers, Settles, Sent
<1>3. CASE Delivers(m, n) /\ Tries(n, p)
  BY <1>3, KindOf DEF Tries, Delivers, Settles, Sent
<1>4. CASE Delivers(m, n) /\ Delivers(n, p)
  BY <1>4, KindOf DEF Delivers, Settles, Sent
<1>5. QED
  BY <1>1, <1>2, <1>3, <1>4

(* An attempt, failed or not, keeps the books of what is owed.             *)
LEMMA AttemptKeepsCore ==
  ASSUME NEW m \in Mouse, NEW n \in Mouse, Core(m), Tries(m, n) \/ Delivers(m, n)
  PROVE  Core(n)
<1>1. CASE Tries(m, n)
  BY <1>1, KindOf DEF Core, Tries, Sent
<1>2. CASE Delivers(m, n)
  BY <1>2, KindOf DEF Core, Delivers, Settles, Sent
<1>3. QED
  BY <1>1, <1>2

(* Claiming interfaces touches nothing but the handle and the drivers.     *)
LEMMA UsbClaimEffect ==
  ASSUME NEW m \in Mouse, NEW r \in UsbClaim(m)
  PROVE  /\ Untouched(m, r.m) /\ r.err \in BOOLEAN
         /\ r.m.hw = m.hw /\ r.m.bad = m.bad
         /\ r.err => r.m.open = m.open
         /\ ~r.err /\ ~ConfigFlaps => r.m.open
<1>1. \A i \in Interfaces : 1 .. i \subseteq Interfaces
  BY InterfacesAssumption DEF Interfaces
<1>2. CASE r = Result(TRUE, m)
  BY <1>2 DEF Result, Untouched, Mouse
<1>3. CASE \E i \in Interfaces : r = Result(TRUE, [m EXCEPT !.detached = @ \cup 1 .. i])
  BY <1>1, <1>3 DEF Result, Untouched, Mouse
<1>4. CASE r = Result(FALSE, [[m EXCEPT !.detached = Interfaces] EXCEPT !.open = TRUE])
  BY <1>4 DEF Result, Untouched, Mouse
<1>5. CASE ConfigFlaps /\ r = Result(FALSE, [m EXCEPT !.detached = Interfaces])
  BY <1>5, FlagsAssumption DEF Result, Untouched, Mouse
<1>6. QED
  BY <1>2, <1>3, <1>4, <1>5 DEF UsbClaim

(* Releasing them closes the handle.                                       *)
LEMMA UsbReleaseEffect ==
  ASSUME NEW m \in Mouse
  PROVE  /\ Untouched(m, UsbRelease(m))
         /\ UsbRelease(m).hw = m.hw /\ ~UsbRelease(m).open
         /\ m.open => UsbRelease(m).bad = m.bad
  BY DEF UsbRelease, Untouched, Mouse

(* What leaves the device alone as well is a try.                          *)
LEMMA UntouchedTries ==
  ASSUME NEW m \in Mouse, NEW n, Untouched(m, n), n.hw = m.hw
  PROVE  n \in Mouse /\ Tries(m, n) /\ n.claims = m.claims /\ n.failed = m.failed
  BY DEF Untouched, Tries

(* Nothing touched by one step nor by the next is untouched by both.       *)
LEMMA UntouchedComposes ==
  ASSUME NEW m, NEW n, NEW p, Untouched(m, n), Untouched(n, p)
  PROVE  Untouched(m, p)
  BY DEF Untouched

(* The guard changes at most what the device holds, and the handle.        *)
LEMMA GuardWaitEffect ==
  ASSUME NEW m \in Mouse, NEW kept \in Values \cup {PowerOn}, NEW r \in GuardWait(m, kept)
  PROVE  /\ Untouched(m, r.m) /\ r.err \in BOOLEAN
         /\ r.m.hw = m.hw \/ r.m.hw = kept \/ (r.err /\ r.m.hw = PowerOn)
<1> DEFINE n == UsbRelease(m)
           back == [n EXCEPT !.detached = {}, !.present = TRUE, !.hw = kept]
           gone(v) == [n EXCEPT !.present = FALSE, !.detached = {}, !.hw = v]
<1>1. Untouched(m, n) /\ n.hw = m.hw
  BY UsbReleaseEffect
<1>2. n \in Mouse
  BY <1>1 DEF Untouched
<1>3. Untouched(n, back) /\ back.hw = kept
  <2> HIDE DEF n
  <2> QED
    BY <1>2 DEF Untouched, Mouse
<1>4. \A v \in {kept, PowerOn} : Untouched(n, gone(v)) /\ gone(v).hw = v
  <2> HIDE DEF n
  <2> QED
    BY <1>2 DEF Untouched, Mouse
<1>5. \/ r \in UsbClaim(n)
      \/ r \in UsbClaim(back)
      \/ \E v \in {kept, PowerOn} : r = Result(TRUE, gone(v))
  BY Zenon DEF GuardWait
<1> HIDE DEF n, back, gone
<1>6. CASE r \in UsbClaim(n)
  <2>1. Untouched(n, r.m) /\ r.err \in BOOLEAN /\ r.m.hw = n.hw
    BY <1>2, <1>6, UsbClaimEffect
  <2>2. Untouched(m, r.m)
    BY <1>1, <2>1, UntouchedComposes
  <2>3. QED
    BY <1>1, <2>1, <2>2
<1>7. CASE r \in UsbClaim(back)
  <2>1. back \in Mouse
    BY <1>3 DEF Untouched
  <2>2. Untouched(back, r.m) /\ r.err \in BOOLEAN /\ r.m.hw = back.hw
    BY <2>1, <1>7, UsbClaimEffect
  <2>3. Untouched(n, r.m)
    BY <1>3, <2>2, UntouchedComposes
  <2>4. Untouched(m, r.m)
    BY <1>1, <2>3, UntouchedComposes
  <2>5. QED
    BY <1>3, <2>2, <2>4
<1>8. ASSUME NEW v \in {kept, PowerOn}, r = Result(TRUE, gone(v))
      PROVE  /\ Untouched(m, r.m) /\ r.err \in BOOLEAN
             /\ r.m.hw = kept \/ (r.err /\ r.m.hw = PowerOn)
  <2>1. Untouched(n, gone(v)) /\ gone(v).hw = v
    BY <1>4, <1>8
  <2>2. Untouched(m, gone(v))
    BY <1>1, <2>1, UntouchedComposes
  <2>3. r.m = gone(v) /\ r.err = TRUE
    BY <1>8 DEF Result
  <2>4. QED
    BY <2>1, <2>2, <2>3
<1>9. QED
  BY <1>5, <1>6, <1>7, <1>8

(* One transfer of the setting.                                            *)
LEMMA SendSettingEffect ==
  ASSUME NEW m \in Mouse, NEW r \in SendSetting(m), m.cfg \in Values
  PROVE  /\ Untouched(m, r.m) /\ r.err \in BOOLEAN
         /\ r.m.open = m.open
         /\ r.m.hw = m.hw \/ r.m.hw = m.cfg
         /\ ~r.err => r.m.hw = m.cfg \/ ShortWrites
         /\ m.open => r.m.bad = m.bad
<1>1. CASE r = Result(TRUE, IF m.open THEN m ELSE [m EXCEPT !.bad = TRUE])
  BY <1>1 DEF Result, Untouched, Mouse
<1>2. CASE r = Result(FALSE, [m EXCEPT !.hw = m.cfg])
  BY <1>2 DEF Result, Untouched, Mouse
<1>3. CASE r = Result(FALSE, m) /\ ShortWrites
  BY <1>3 DEF Result, Untouched, Mouse
<1>4. QED
  BY <1>1, <1>2, <1>3 DEF SendSetting, UsbWrite

(* One transfer of anything else.                                          *)
LEMMA SendOtherEffect ==
  ASSUME NEW m \in Mouse, NEW r \in SendOther(m)
  PROVE  Untouched(m, r.m) /\ r.err \in BOOLEAN /\ r.m.hw = m.hw
<1>1. CASE r = Result(TRUE, IF m.open THEN m ELSE [m EXCEPT !.bad = TRUE])
  BY <1>1 DEF Result, Untouched, Mouse
<1>2. CASE r = Result(FALSE, m)
  BY <1>2 DEF Result, Untouched
<1>3. QED
  BY <1>1, <1>2 DEF SendOther, UsbWrite

(* All settings in one transfer, twice if the mouse reboots between.       *)
LEMMA ModernCommitEffect ==
  ASSUME NEW m \in Mouse, NEW r \in ModernCommit(m), m.kind \in AlwaysSent, m.cfg \in Values
  PROVE  Outcome(m, r)
<1> DEFINE Reboot(n)  == Then(GuardWait(n, PowerOn), SendSetting)
           Changed(n) == IF n.kind \in Rebooting /\ n.cfg # n.old THEN Reboot(n) ELSE {Result(FALSE, n)}
           Near(n) == \/ n.hw = m.hw \/ n.hw = m.cfg
                      \/ m.cfg # m.old /\ n.hw = PowerOn
<1>1. r \in Then(Then(Then(SendSetting(m), Changed), Delivered), Committed)
  BY Zenon DEF ModernCommit
<1>2. PICK d \in Then(Then(SendSetting(m), Changed), Delivered) :
        r \in IF d.err THEN {d} ELSE Committed(d.m)
  BY <1>1, Zenon DEF Then
<1>3. PICK c \in Then(SendSetting(m), Changed) : d \in IF c.err THEN {c} ELSE Delivered(c.m)
  BY <1>2, Zenon DEF Then
<1>4. PICK s \in SendSetting(m) : c \in IF s.err THEN {s} ELSE Changed(s.m)
  BY <1>3, Zenon DEF Then
<1>5. Sent(m)
  BY DEF Sent
<1>6. /\ Untouched(m, s.m) /\ s.err \in BOOLEAN
      /\ s.m.hw = m.hw \/ s.m.hw = m.cfg
      /\ ~s.err => s.m.hw = m.cfg \/ ShortWrites
  BY SendSettingEffect
<1>7. /\ Untouched(m, c.m) /\ c.err \in BOOLEAN /\ Near(c.m)
      /\ ~c.err => c.m.hw = m.cfg \/ ShortWrites
  <2>1. CASE s.err
    BY <1>4, <1>6, <2>1
  <2>2. CASE ~s.err /\ ~(s.m.kind \in Rebooting /\ s.m.cfg # s.m.old)
    <3>1. c = Result(FALSE, s.m)
      BY <1>4, <2>2
    <3>2. c.m = s.m /\ c.err = FALSE
      BY <3>1 DEF Result
    <3>3. QED
      BY <1>6, <2>2, <3>2
  <2>3. CASE ~s.err /\ s.m.kind \in Rebooting /\ s.m.cfg # s.m.old
    <3>1. c \in Then(GuardWait(s.m, PowerOn), SendSetting)
      BY <1>4, <2>3, Zenon
    <3>2. PICK g \in GuardWait(s.m, PowerOn) : c \in IF g.err THEN {g} ELSE SendSetting(g.m)
      BY <3>1, Zenon DEF Then
    <3>3. s.m \in Mouse /\ s.m.cfg = m.cfg /\ s.m.old = m.old
      BY <1>6 DEF Untouched
    <3>4. /\ Untouched(s.m, g.m) /\ g.err \in BOOLEAN
          /\ g.m.hw = s.m.hw \/ g.m.hw = PowerOn
      BY <3>2, <3>3, GuardWaitEffect
    <3>5. Untouched(m, g.m)
      BY <1>6, <3>4, UntouchedComposes
    <3>6. Near(g.m)
      BY <1>6, <2>3, <3>3, <3>4
    <3> HIDE DEF Near
    <3>7. CASE g.err
      <4>1. c = g
        BY <3>2, <3>7
      <4>2. QED
        BY <3>4, <3>5, <3>6, <3>7, <4>1
    <3>8. CASE ~g.err
      <4>1. c \in SendSetting(g.m) /\ g.m \in Mouse /\ g.m.cfg = m.cfg
        BY <3>2, <3>5, <3>8 DEF Untouched
      <4>2. /\ Untouched(g.m, c.m) /\ c.err \in BOOLEAN
            /\ c.m.hw = g.m.hw \/ c.m.hw = m.cfg
            /\ ~c.err => c.m.hw = m.cfg \/ ShortWrites
        BY <4>1, SendSettingEffect
      <4>3. Untouched(m, c.m)
        BY <3>5, <4>2, UntouchedComposes
      <4>4. Near(c.m)
        BY <3>6, <4>2 DEF Near
      <4>5. QED
        BY <4>2, <4>3, <4>4
    <3>9. QED
      BY <3>7, <3>8
  <2>4. QED
    BY <2>1, <2>2, <2>3
<1> HIDE DEF Reboot, Changed
<1>8. CASE c.err
  <2>1. d = c /\ r = c
    BY <1>2, <1>3, <1>8
  <2>2. m.kind # "legacy"
    BY DEF AlwaysSent
  <2>3. Tries(m, c.m) /\ c.m \in Mouse
    BY <1>5, <1>7, <2>2 DEF Tries, Untouched
  <2>4. QED
    BY <1>7, <1>8, <2>1, <2>3 DEF Outcome, Untouched
<1>9. CASE ~c.err
  <2>1. d = Result(FALSE, [c.m EXCEPT !.astray = FALSE])
    BY <1>3, <1>9 DEF Delivered
  <2>2. d.err = FALSE /\ d.m = [c.m EXCEPT !.astray = FALSE]
    BY <2>1 DEF Result
  <2>3. r = Result(FALSE, [d.m EXCEPT !.old = d.m.cfg, !.lost = FALSE])
    BY <1>2, <2>2 DEF Committed
  <2>4. r.err = FALSE /\ r.m = [d.m EXCEPT !.old = d.m.cfg, !.lost = FALSE]
    BY <2>3 DEF Result
  <2>5. c.m \in Mouse /\ c.m.cfg = m.cfg
    BY <1>7 DEF Untouched
  <2>6. r.m = [c.m EXCEPT !.astray = FALSE, !.old = c.m.cfg, !.lost = FALSE]
    BY <2>2, <2>4, <2>5 DEF Mouse
  <2>7. /\ r.m \in Mouse /\ r.m.hw = c.m.hw /\ ~r.m.astray /\ ~r.m.lost
        /\ r.m.old = m.cfg /\ r.m.cfg = m.cfg /\ r.m.kind = c.m.kind
        /\ r.m.claims = c.m.claims /\ r.m.failed = c.m.failed /\ r.m.pending = c.m.pending
    BY <2>5, <2>6 DEF Mouse
  <2>8. r.m.hw = m.cfg \/ ShortWrites
    BY <1>7, <1>9, <2>7
  <2>9. r.m.kind = m.kind
    BY <1>7, <2>7 DEF Untouched
  <2>10. Settles(m, r.m)
    BY <1>5, <2>7, <2>8, <2>9, KindOf DEF Settles
  <2>11. r.m.claims = m.claims /\ r.m.failed = m.failed /\ r.m.pending = m.pending
    BY <1>7, <2>7 DEF Untouched
  <2>12. QED
    BY <2>4, <2>7, <2>10, <2>11 DEF Outcome
<1>10. QED
  BY <1>7, <1>8, <1>9

(* Everything else the old firmware is sent.                               *)
LEMMA OthersEffect ==
  ASSUME NEW m \in Mouse, NEW r \in Then(SendOther(m), SendOther)
  PROVE  Untouched(m, r.m) /\ r.err \in BOOLEAN /\ r.m.hw = m.hw
<1>1. PICK s \in SendOther(m) : r \in IF s.err THEN {s} ELSE SendOther(s.m)
  BY Zenon DEF Then
<1>2. Untouched(m, s.m) /\ s.err \in BOOLEAN /\ s.m.hw = m.hw
  BY SendOtherEffect
<1>3. CASE s.err
  BY <1>1, <1>2, <1>3
<1>4. CASE ~s.err
  <2>1. r \in SendOther(s.m) /\ s.m \in Mouse
    BY <1>1, <1>2, <1>4 DEF Untouched
  <2>2. Untouched(s.m, r.m) /\ r.err \in BOOLEAN /\ r.m.hw = s.m.hw
    BY <2>1, SendOtherEffect
  <2>3. Untouched(m, r.m)
    BY <1>2, <2>2, UntouchedComposes
  <2>4. QED
    BY <1>2, <2>2, <2>3
<1>5. QED
  BY <1>3, <1>4

(* The last step of a commit. *)
LEMMA CommittedEffect ==
  ASSUME NEW m \in Mouse, NEW r \in Committed(m)
  PROVE  /\ r.err = FALSE /\ r.m \in Mouse
         /\ r.m.kind = m.kind /\ r.m.cfg = m.cfg /\ r.m.old = m.cfg /\ r.m.hw = m.hw
         /\ ~r.m.lost /\ r.m.astray = m.astray
         /\ r.m.claims = m.claims /\ r.m.failed = m.failed /\ r.m.pending = m.pending
<1>1. r.m = [m EXCEPT !.old = m.cfg, !.lost = FALSE] /\ r.err = FALSE
  BY DEF Committed, Result
<1>2. QED
  BY <1>1 DEF Mouse

(* Firmware older than 1.25: the frequency only if it changed.             *)
LEMMA LegacyCommitEffect ==
  ASSUME NEW m \in Mouse, NEW r \in LegacyCommit(m), m.kind = "legacy", m.cfg \in Values
  PROVE  Outcome(m, r)
<1> DEFINE Reboot(n) == GuardWait(n, n.hw)
           Others(n) == Then(SendOther(n), SendOther)
           Strays(x) == IF x.err THEN Result(TRUE, [x.m EXCEPT !.astray = @ \/ x.m.hw # x.m.old]) ELSE x
           Changed   == {Strays(x) : x \in Then(Then(SendSetting(m), Reboot), Others)}
           Sendings  == IF m.cfg # m.old THEN Then(Changed, Delivered) ELSE Others(m)
<1>1. r \in Then(Sendings, Committed)
  BY Zenon DEF LegacyCommit
<1>2. PICK d \in Sendings : r \in IF d.err THEN {d} ELSE Committed(d.m)
  BY <1>1, Zenon DEF Then
<1>3. CASE m.cfg = m.old
  <2>1. d \in Then(SendOther(m), SendOther)
    BY <1>3
  <2> HIDE DEF Reboot, Others, Strays, Changed, Sendings
  <2>2. Untouched(m, d.m) /\ d.err \in BOOLEAN /\ d.m.hw = m.hw
    BY <2>1, OthersEffect
  <2>3. CASE d.err
    <3>1. r = d
      BY <1>2, <2>3
    <3>2. Tries(m, d.m)
      BY <2>2, UntouchedTries
    <3>3. QED
      BY <2>2, <2>3, <3>1, <3>2 DEF Outcome, Untouched
  <2>4. CASE ~d.err
    <3>1. r \in Committed(d.m) /\ d.m \in Mouse
      BY <1>2, <2>2, <2>4 DEF Untouched
    <3>2. /\ r.err = FALSE /\ r.m \in Mouse
          /\ r.m.kind = d.m.kind /\ r.m.cfg = d.m.cfg /\ r.m.old = d.m.cfg /\ r.m.hw = d.m.hw
          /\ ~r.m.lost /\ r.m.astray = d.m.astray
          /\ r.m.claims = d.m.claims /\ r.m.failed = d.m.failed /\ r.m.pending = d.m.pending
      BY <3>1, CommittedEffect
    <3>3. ~Sent(m)
      BY <1>3 DEF Sent, AlwaysSent
    <3>4. Settles(m, r.m)
      BY <2>2, <3>2, <3>3 DEF Settles, Untouched
    <3>5. QED
      BY <2>2, <3>2, <3>4 DEF Outcome, Untouched
  <2>5. QED
    BY <2>3, <2>4
<1>4. CASE m.cfg # m.old
  <2>1. d \in Then(Changed, Delivered)
    BY <1>4
  <2>2. PICK q \in Changed : d \in IF q.err THEN {q} ELSE Delivered(q.m)
    BY <2>1, Zenon DEF Then
  <2>3. PICK x \in Then(Then(SendSetting(m), Reboot), Others) : q = Strays(x)
    OBVIOUS
  <2>4. PICK g \in Then(SendSetting(m), Reboot) : x \in IF g.err THEN {g} ELSE Others(g.m)
    BY <2>3, Zenon DEF Then
  <2>5. PICK s \in SendSetting(m) : g \in IF s.err THEN {s} ELSE Reboot(s.m)
    BY <2>4, Zenon DEF Then
  <2>6. Sent(m)
    BY <1>4 DEF Sent
  <2>7. /\ Untouched(m, s.m) /\ s.err \in BOOLEAN
        /\ s.m.hw = m.hw \/ s.m.hw = m.cfg
        /\ ~s.err => s.m.hw = m.cfg \/ ShortWrites
    BY SendSettingEffect
  <2>8. /\ Untouched(m, g.m) /\ g.err \in BOOLEAN
        /\ g.m.hw = m.hw \/ g.m.hw = m.cfg \/ g.m.hw = PowerOn
        /\ ~g.err => g.m.hw = m.cfg \/ ShortWrites
    <3>1. CASE s.err
      BY <2>5, <2>7, <3>1
    <3>2. CASE ~s.err
      <4>1. g \in GuardWait(s.m, s.m.hw) /\ s.m \in Mouse /\ s.m.hw \in Values \cup {PowerOn}
        <5>1. g \in GuardWait(s.m, s.m.hw) /\ s.m \in Mouse
          BY <2>5, <2>7, <3>2 DEF Untouched
        <5>2. QED
          BY <5>1 DEF Mouse
      <4>2. /\ Untouched(s.m, g.m) /\ g.err \in BOOLEAN
            /\ g.m.hw = s.m.hw \/ (g.err /\ g.m.hw = PowerOn)
        BY <4>1, GuardWaitEffect
      <4>3. Untouched(m, g.m)
        BY <2>7, <4>2, UntouchedComposes
      <4>4. QED
        BY <2>7, <3>2, <4>2, <4>3
    <3>3. QED
      BY <3>1, <3>2
  <2>9. /\ Untouched(m, x.m) /\ x.err \in BOOLEAN
        /\ x.m.hw = m.hw \/ x.m.hw = m.cfg \/ x.m.hw = PowerOn
        /\ ~x.err => x.m.hw = m.cfg \/ ShortWrites
    <3>1. CASE g.err
      BY <2>4, <2>8, <3>1
    <3>2. CASE ~g.err
      <4>1. x \in Then(SendOther(g.m), SendOther) /\ g.m \in Mouse
        BY <2>4, <2>8, <3>2 DEF Untouched
      <4>2. Untouched(g.m, x.m) /\ x.err \in BOOLEAN /\ x.m.hw = g.m.hw
        BY <4>1, OthersEffect
      <4>3. Untouched(m, x.m)
        BY <2>8, <4>2, UntouchedComposes
      <4>4. QED
        BY <2>8, <3>2, <4>2, <4>3
    <3>3. QED
      BY <3>1, <3>2
  <2>10. /\ x.m \in Mouse /\ x.m.kind = m.kind /\ x.m.cfg = m.cfg /\ x.m.old = m.old
         /\ x.m.pending = m.pending /\ x.m.lost = m.lost /\ x.m.astray = m.astray
         /\ x.m.claims = m.claims /\ x.m.failed = m.failed
    BY <2>9 DEF Untouched
  <2>11. CASE x.err
    <3>1. q = Result(TRUE, [x.m EXCEPT !.astray = @ \/ x.m.hw # x.m.old])
      BY <2>3, <2>11
    <3>2. q.err = TRUE /\ q.m = [x.m EXCEPT !.astray = x.m.astray \/ x.m.hw # x.m.old]
      BY <3>1 DEF Result
    <3> HIDE DEF Reboot, Others, Strays, Changed, Sendings
    <3>3. /\ q.m \in Mouse /\ q.m.kind = x.m.kind /\ q.m.cfg = x.m.cfg /\ q.m.old = x.m.old
          /\ q.m.pending = x.m.pending /\ q.m.lost = x.m.lost /\ q.m.hw = x.m.hw
          /\ q.m.claims = x.m.claims /\ q.m.failed = x.m.failed
      BY <2>10, <3>2 DEF Mouse
    <3>4. /\ q.m.astray <=> x.m.astray \/ x.m.hw # x.m.old
          /\ q.m.astray \in BOOLEAN /\ m.astray \in BOOLEAN
      BY <2>10, <3>2, <3>3 DEF Mouse
    <3>5. Tries(m, q.m)
      <4>1. CASE q.m.hw # m.old
        <5>1. q.m.astray
          BY <2>10, <3>3, <3>4, <4>1
        <5>2. QED
          BY <1>4, <2>6, <2>9, <2>10, <3>3, <4>1, <5>1 DEF Tries
      <4>2. CASE q.m.hw = m.old
        <5>1. q.m.astray = m.astray
          BY <2>10, <3>3, <3>4, <4>2
        <5>2. q.m.hw = m.hw
          <6>1. m.old # PowerOn
            BY ValuesAssumption DEF Mouse, Settings
          <6>2. QED
            BY <1>4, <2>9, <3>3, <4>2, <6>1
        <5>3. QED
          BY <2>10, <3>3, <5>1, <5>2 DEF Tries
      <4>3. QED
        BY <4>1, <4>2
    <3>6. d = q /\ r = q
      BY <1>2, <2>2, <3>2
    <3>7. QED
      BY <2>10, <3>2, <3>3, <3>5, <3>6 DEF Outcome
  <2>12. CASE ~x.err
    <3>1. q = x
      BY <2>3, <2>12
    <3> HIDE DEF Reboot, Others, Strays, Changed, Sendings
    <3>2. d = Result(FALSE, [x.m EXCEPT !.astray = FALSE])
      BY <2>2, <2>12, <3>1 DEF Delivered
    <3>3. d.err = FALSE /\ d.m = [x.m EXCEPT !.astray = FALSE]
      BY <3>2 DEF Result
    <3>4. /\ d.m \in Mouse /\ d.m.kind = x.m.kind /\ d.m.cfg = x.m.cfg
          /\ d.m.pending = x.m.pending /\ d.m.hw = x.m.hw /\ ~d.m.astray
          /\ d.m.claims = x.m.claims /\ d.m.failed = x.m.failed
      BY <2>10, <3>3 DEF Mouse
    <3>5. r \in Committed(d.m)
      BY <1>2, <3>3
    <3>6. /\ r.err = FALSE /\ r.m \in Mouse
          /\ r.m.kind = d.m.kind /\ r.m.cfg = d.m.cfg /\ r.m.old = d.m.cfg /\ r.m.hw = d.m.hw
          /\ ~r.m.lost /\ r.m.astray = d.m.astray
          /\ r.m.claims = d.m.claims /\ r.m.failed = d.m.failed /\ r.m.pending = d.m.pending
      BY <3>4, <3>5, CommittedEffect
    <3>7. r.m.hw = m.cfg \/ ShortWrites
      BY <2>9, <2>12, <3>4, <3>6
    <3>8. ~r.m.astray /\ ~r.m.lost
      BY <3>4, <3>6
    <3>9. r.m.kind = m.kind /\ r.m.cfg = m.cfg /\ r.m.old = m.cfg
      BY <2>10, <3>4, <3>6
    <3>10. Settles(m, r.m)
      BY <2>6, <3>7, <3>8, <3>9 DEF Settles
    <3>11. r.m.claims = m.claims /\ r.m.failed = m.failed /\ r.m.pending = m.pending
      BY <2>10, <3>4, <3>6
    <3>12. QED
      BY <3>6, <3>10, <3>11 DEF Outcome
  <2>13. QED
    BY <2>9, <2>11, <2>12
<1>5. QED
  BY <1>3, <1>4

(* What deathadder_do_commit does: an error is a try, success a delivery   *)
(* in all but commit_pending, which the caller clears.                     *)
LEMMA DoCommitEffect ==
  ASSUME NEW m \in Mouse, NEW r \in DoCommit(m)
  PROVE  Outcome(m, r)
<1>1. CASE m.kind = "bootloader"
  <2>1. r = Result(FALSE, m)
    BY <1>1, Zenon DEF DoCommit, AlwaysSent
  <2>2. r.err = FALSE /\ r.m = m
    BY <2>1 DEF Result
  <2>3. ~Sent(m)
    BY <1>1 DEF Sent, AlwaysSent
  <2>4. Settles(m, m)
    BY <1>1, <2>3 DEF Settles
  <2>5. QED
    BY <2>2, <2>4 DEF Outcome
<1>2. CASE m.kind # "bootloader" /\ m.cfg = BadValue
  <2>1. r = Result(TRUE, m)
    BY <1>2, KindOf DEF DoCommit
  <2>2. QED
    BY <2>1 DEF Result, Tries, Outcome
<1>3. CASE m.kind = "legacy" /\ m.cfg # BadValue
  <2>1. r \in LegacyCommit(m)
    BY <1>3, KindOf DEF DoCommit
  <2>2. m.cfg \in Values
    BY <1>3 DEF Mouse, Settings
  <2>3. QED
    BY <1>3, <2>1, <2>2, LegacyCommitEffect
<1>4. CASE m.kind \in AlwaysSent /\ m.cfg # BadValue
  <2>1. r \in ModernCommit(m)
    BY <1>4, KindOf DEF DoCommit
  <2>2. m.cfg \in Values
    BY <1>4 DEF Mouse, Settings
  <2>3. QED
    BY <1>4, <2>1, <2>2, ModernCommitEffect
<1>5. QED
  BY <1>1, <1>2, <1>3, <1>4, KindOf

(* A commit either tries or delivers; one that is pending and fails says   *)
(* so, and nothing but an error leaves a debt.                             *)
LEMMA CommitEffect ==
  ASSUME NEW m \in Mouse, NEW force \in BOOLEAN, NEW r \in Commit(m, force)
  PROVE  /\ r.m \in Mouse /\ r.err \in BOOLEAN
         /\ r.m.claims = m.claims
         /\ Tries(m, r.m) \/ Delivers(m, r.m)
         /\ m.claims # 0 /\ r.m.pending => r.m.failed
         /\ m.claims = 0 => r.m = m
<1>1. CASE m.claims = 0
  <2>1. r = Result(TRUE, m)
    BY <1>1, Zenon DEF Commit
  <2>2. QED
    BY <1>1, <2>1 DEF Result, Tries
<1>2. CASE m.claims # 0 /\ ~(m.pending \/ force)
  <2>1. r = Result(FALSE, m)
    BY <1>2, Zenon DEF Commit
  <2>2. QED
    BY <1>2, <2>1 DEF Result, Tries
<1>3. CASE m.claims # 0 /\ (m.pending \/ force)
  <2>1. PICK d \in DoCommit(m) :
          r = IF d.err THEN Result(TRUE, [d.m EXCEPT !.failed = TRUE])
              ELSE Result(FALSE, [d.m EXCEPT !.pending = FALSE, !.failed = FALSE])
    BY <1>3 DEF Commit
  <2>2. /\ d.m \in Mouse /\ d.err \in BOOLEAN
        /\ d.m.claims = m.claims
        /\ d.err => Tries(m, d.m)
        /\ ~d.err => Settles(m, d.m)
    BY DoCommitEffect DEF Outcome
  <2>3. CASE d.err
    <3>1. r.m = [d.m EXCEPT !.failed = TRUE] /\ r.err = TRUE
      BY <2>1, <2>3 DEF Result
    <3>2. /\ r.m \in Mouse /\ r.m.kind = d.m.kind /\ r.m.cfg = d.m.cfg /\ r.m.old = d.m.old
          /\ r.m.hw = d.m.hw /\ r.m.lost = d.m.lost /\ r.m.astray = d.m.astray
          /\ r.m.pending = d.m.pending /\ r.m.claims = d.m.claims /\ r.m.failed
      BY <2>2, <3>1 DEF Mouse
    <3>3. Tries(m, r.m)
      BY <2>2, <2>3, <3>2 DEF Tries
    <3>4. QED
      BY <1>3, <2>2, <3>1, <3>2, <3>3
  <2>4. CASE ~d.err
    <3>1. r.m = [d.m EXCEPT !.pending = FALSE, !.failed = FALSE] /\ r.err = FALSE
      BY <2>1, <2>4 DEF Result
    <3>2. /\ r.m \in Mouse /\ r.m.kind = d.m.kind /\ r.m.cfg = d.m.cfg /\ r.m.old = d.m.old
          /\ r.m.hw = d.m.hw /\ r.m.lost = d.m.lost /\ r.m.astray = d.m.astray
          /\ ~r.m.pending /\ r.m.claims = d.m.claims
      BY <2>2, <3>1 DEF Mouse
    <3>3. Settles(m, r.m)
      BY <2>2, <2>4, <3>2 DEF Settles
    <3>4. QED
      BY <1>3, <2>2, <3>1, <3>2, <3>3 DEF Delivers
  <2>5. QED
    BY <2>3, <2>4
<1>4. QED
  BY <1>1, <1>2, <1>3

(* Claiming a mouse: the first claim claims the interfaces, an error       *)
(* leaves the count alone.                                                 *)
LEMMA MouseClaimEffect ==
  ASSUME NEW m \in Mouse, NEW r \in MouseClaim(m)
  PROVE  /\ r.m \in Mouse /\ r.err \in BOOLEAN
         /\ Tries(m, r.m)
         /\ r.m.claims = IF r.err THEN m.claims ELSE m.claims + 1
         /\ r.m.failed = m.failed
         /\ r.err => r.m.open = m.open
         /\ ClaimCore(m) => ClaimCore(r.m)
<1>1. CASE m.claims > 0
  <2>1. r = Result(FALSE, [m EXCEPT !.claims = @ + 1])
    BY <1>1 DEF MouseClaim
  <2>2. QED
    BY <1>1, <2>1 DEF Result, Tries, Mouse, ClaimCore
<1>2. CASE m.claims = 0
  <2>1. PICK c \in UsbClaim(m) :
          r = IF c.err THEN c ELSE Result(FALSE, [c.m EXCEPT !.claims = 1])
    <3>1. ~(m.claims > 0)
      BY <1>2
    <3>2. QED
      BY <3>1, Zenon DEF MouseClaim
  <2>0. Untouched(m, c.m) /\ c.err \in BOOLEAN /\ c.m.hw = m.hw /\ (c.err => c.m.open = m.open)
    BY UsbClaimEffect
  <2>2. /\ c.m \in Mouse /\ c.err \in BOOLEAN
        /\ c.m.claims = m.claims /\ c.m.failed = m.failed
        /\ Tries(m, c.m)
        /\ c.err => c.m.open = m.open
    BY <2>0, UntouchedTries
  <2>3. CASE c.err
    BY <2>1, <2>2, <2>3 DEF Tries, ClaimCore
  <2>4. CASE ~c.err
    BY <1>2, <2>1, <2>2, <2>4 DEF Result, Tries, Mouse, ClaimCore
  <2>5. QED
    BY <2>2, <2>3, <2>4
<1>3. QED
  BY <1>1, <1>2 DEF Mouse

(* Giving up one claim; the last one closes the handle.                    *)
LEMMA ReleaseRefcountEffect ==
  ASSUME NEW m \in Mouse
  PROVE  /\ ReleaseRefcount(m) \in Mouse
         /\ Tries(m, ReleaseRefcount(m))
         /\ ReleaseRefcount(m).failed = m.failed
         /\ ReleaseRefcount(m).claims = IF m.claims = 0 THEN 0 ELSE m.claims - 1
         /\ m.claims = 1 => ~ReleaseRefcount(m).open
         /\ m.claims = 0 => ReleaseRefcount(m) = m
<1>1. CASE m.claims = 0
  BY <1>1 DEF ReleaseRefcount, Tries
<1>2. CASE m.claims = 1
  <2> DEFINE n == [m EXCEPT !.claims = 0]
  <2>1. n \in Mouse /\ n.claims = 0 /\ n.failed = m.failed /\ Tries(m, n)
    BY DEF Mouse, Tries
  <2>2. ReleaseRefcount(m) = UsbRelease(n)
    BY <1>2 DEF ReleaseRefcount
  <2> HIDE DEF n
  <2>3. Untouched(n, UsbRelease(n)) /\ UsbRelease(n).hw = n.hw /\ ~UsbRelease(n).open
    BY <2>1, UsbReleaseEffect
  <2>4. /\ UsbRelease(n) \in Mouse
        /\ UsbRelease(n).claims = 0 /\ UsbRelease(n).failed = m.failed
        /\ Tries(m, UsbRelease(n))
    BY <2>1, <2>3 DEF Tries, Untouched
  <2>5. QED
    BY <1>2, <2>2, <2>3, <2>4
<1>3. CASE m.claims > 1
  <2>1. ReleaseRefcount(m) = [m EXCEPT !.claims = @ - 1]
    BY <1>3 DEF ReleaseRefcount
  <2>2. QED
    BY <1>3, <2>1 DEF Mouse, Tries
<1>4. QED
  BY <1>1, <1>2, <1>3 DEF Mouse

(* Releasing: the last release commits; it never leaves a debt that no     *)
(* error explains, nor an open handle.                                     *)
LEMMA MouseReleaseEffect ==
  ASSUME NEW m \in Mouse, NEW r \in MouseRelease(m)
  PROVE  /\ r.m \in Mouse /\ r.err \in BOOLEAN
         /\ Tries(m, r.m) \/ Delivers(m, r.m)
         /\ r.m.claims = IF m.claims = 0 THEN 0 ELSE m.claims - 1
         /\ ClaimCore(m) => ClaimCore(r.m)
<1>1. PICK c \in IF m.claims = 1 THEN Commit(m, FALSE) ELSE {Result(FALSE, m)} :
        r = Result(c.err, ReleaseRefcount(c.m))
  BY Zenon DEF MouseRelease
<1>2. /\ c.m \in Mouse /\ c.err \in BOOLEAN
      /\ c.m.claims = m.claims
      /\ Tries(m, c.m) \/ Delivers(m, c.m)
      /\ m.claims = 1 /\ c.m.pending => c.m.failed
      /\ m.claims # 1 => c.m = m
  <2>1. CASE m.claims = 1
    <3>1. c \in Commit(m, FALSE)
      BY <1>1, <2>1
    <3>2. /\ c.m \in Mouse /\ c.err \in BOOLEAN
          /\ c.m.claims = m.claims
          /\ Tries(m, c.m) \/ Delivers(m, c.m)
          /\ m.claims # 0 /\ c.m.pending => c.m.failed
      BY <3>1, CommitEffect
    <3>3. QED
      BY <2>1, <3>2
  <2>2. CASE m.claims # 1
    <3>1. c = Result(FALSE, m)
      BY <1>1, <2>2
    <3>2. QED
      BY <2>2, <3>1 DEF Result, Tries
  <2>3. QED
    BY <2>1, <2>2
<1> DEFINE n == ReleaseRefcount(c.m)
<1>3. /\ n \in Mouse /\ Tries(c.m, n) /\ n.failed = c.m.failed
      /\ n.claims = IF c.m.claims = 0 THEN 0 ELSE c.m.claims - 1
      /\ c.m.claims = 1 => ~n.open
      /\ c.m.claims = 0 => n = c.m
  BY <1>2, ReleaseRefcountEffect
<1>4. r.m = n /\ r.err = c.err
  BY <1>1 DEF Result
<1> HIDE DEF n
<1>5. Tries(m, n) \/ Delivers(m, n)
  BY <1>2, <1>3, AttemptsCompose
<1>6. ClaimCore(m) => ClaimCore(n)
  <2>1. CASE m.claims = 0
    BY <1>2, <1>3, <2>1 DEF ClaimCore
  <2>2. CASE m.claims = 1
    BY <1>2, <1>3, <2>2 DEF ClaimCore, Tries
  <2>3. CASE m.claims > 1
    BY <1>2, <1>3, <2>3 DEF ClaimCore, Mouse
  <2>4. QED
    BY <2>1, <2>2, <2>3 DEF Mouse
<1>7. QED
  BY <1>2, <1>3, <1>4, <1>5, <1>6

(* Claim, forced commit, release: one attempt.                             *)
LEMMA ReconfigEffect ==
  ASSUME NEW m \in Mouse, NEW r \in Reconfig(m)
  PROVE  /\ r.m \in Mouse
         /\ Tries(m, r.m) \/ Delivers(m, r.m)
         /\ r.m.claims = m.claims
         /\ ClaimCore(m) => ClaimCore(r.m)
<1>1. PICK c \in MouseClaim(m) :
        \/ c.err /\ r = c
        \/ ~c.err /\ \E f \in Commit(c.m, TRUE) : \E s \in MouseRelease(f.m) : r = Result(f.err, s.m)
  <2>1. PICK c \in MouseClaim(m) :
          r \in IF c.err THEN {c}
                ELSE UNION {{Result(f.err, s.m) : s \in MouseRelease(f.m)} : f \in Commit(c.m, TRUE)}
    BY Zenon DEF Reconfig
  <2>2. QED
    BY <2>1
<1>2. /\ c.m \in Mouse /\ c.err \in BOOLEAN /\ Tries(m, c.m)
      /\ c.m.claims = IF c.err THEN m.claims ELSE m.claims + 1
      /\ c.m.failed = m.failed
      /\ c.err => c.m.open = m.open
  BY MouseClaimEffect
<1>3. CASE c.err /\ r = c
  BY <1>2, <1>3 DEF ClaimCore, Tries
<1>4. CASE ~c.err /\ \E f \in Commit(c.m, TRUE) : \E s \in MouseRelease(f.m) : r = Result(f.err, s.m)
  <2>1. PICK f \in Commit(c.m, TRUE) : \E s \in MouseRelease(f.m) : r = Result(f.err, s.m)
    BY <1>4
  <2>2. /\ f.m \in Mouse /\ f.m.claims = c.m.claims
        /\ Tries(c.m, f.m) \/ Delivers(c.m, f.m)
        /\ c.m.claims # 0 /\ f.m.pending => f.m.failed
    BY <1>2, CommitEffect
  <2>3. PICK s \in MouseRelease(f.m) : r = Result(f.err, s.m)
    BY <2>1
  <2>4. /\ s.m \in Mouse
        /\ Tries(f.m, s.m) \/ Delivers(f.m, s.m)
        /\ s.m.claims = IF f.m.claims = 0 THEN 0 ELSE f.m.claims - 1
        /\ ClaimCore(f.m) => ClaimCore(s.m)
    BY <2>2, MouseReleaseEffect
  <2>5. r.m = s.m
    BY <2>3 DEF Result
  <2>6. f.m.claims = m.claims + 1
    BY <1>2, <1>4, <2>2
  <2>7. ClaimCore(f.m)
    BY <2>6 DEF ClaimCore, Mouse
  <2>8. Tries(m, f.m) \/ Delivers(m, f.m)
    BY <1>2, <2>2, AttemptsCompose
  <2>9. Tries(m, s.m) \/ Delivers(m, s.m)
    BY <2>2, <2>4, <2>8, AttemptsCompose
  <2>10. s.m.claims = m.claims
    BY <2>4, <2>6 DEF Mouse
  <2>11. QED
    BY <2>4, <2>5, <2>7, <2>9, <2>10
<1>5. QED
  BY <1>1, <1>3, <1>4

(* Storing a setting: only while claimed.                                  *)
LEMMA SetFreqEffect ==
  ASSUME NEW m \in Mouse, NEW v \in Settings
  PROVE  \/ SetFreq(m, v).m = m
         \/ /\ m.claims # 0
            /\ SetFreq(m, v).m = [m EXCEPT !.cfg = v, !.pending = TRUE]
            /\ SetFreq(m, v).m \in Mouse
<1>1. CASE m.claims = 0
  BY <1>1, Zenon DEF SetFreq, Result
<1>2. CASE m.claims # 0
  <2>1. SetFreq(m, v).m = [m EXCEPT !.cfg = v, !.pending = TRUE]
    BY <1>2 DEF SetFreq, Result
  <2>2. [m EXCEPT !.cfg = v, !.pending = TRUE] \in Mouse
    BY DEF Mouse
  <2>3. QED
    BY <1>2, <2>1, <2>2
<1>3. QED
  BY <1>1, <1>2

(* The release loop of razer_free_mouse is an attempt as well.             *)
LEMMA ReleaseAllEffect ==
  ASSUME NEW m \in Mouse, NEW n \in ReleaseAll(m), ClaimCore(m)
  PROVE  /\ n \in Mouse
         /\ Tries(m, n) \/ Delivers(m, n)
         /\ n.claims = 0
         /\ ClaimCore(n)
<1>1. CASE m.claims = 0
  BY <1>1 DEF ReleaseAll, Tries
<1>2. CASE m.claims # 0
  <2> DEFINE one == [m EXCEPT !.claims = 1]
  <2>1. one \in Mouse /\ one.claims = 1 /\ Tries(m, one) /\ ClaimCore(one)
    BY DEF Mouse, Tries, ClaimCore
  <2>2. PICK r \in MouseRelease(one) : n = r.m
    BY <1>2 DEF ReleaseAll
  <2> HIDE DEF one
  <2>3. /\ r.m \in Mouse /\ (Tries(one, r.m) \/ Delivers(one, r.m))
        /\ r.m.claims = 0 /\ ClaimCore(r.m)
    BY <2>1, MouseReleaseEffect
  <2>4. Tries(m, r.m) \/ Delivers(m, r.m)
    BY <2>1, <2>3, AttemptsCompose
  <2>5. QED
    BY <2>2, <2>3, <2>4
<1>3. QED
  BY <1>1, <1>2

-----------------------------------------------------------------------------
(* Handles.  If the mouse does not reboot, and if a successful claim leaves    *)
(* the handle open, claims and the open handle go together.                *)
Handle(m) == (m.claims # 0 <=> m.open) /\ ~m.bad

(* Without a reboot all transfers of a commit find the handle open.        *)
LEMMA ModernCommitKeepsOpen ==
  ASSUME NEW m \in Mouse, NEW r \in ModernCommit(m),
         m.kind \notin Rebooting, m.cfg \in Values, m.open
  PROVE  r.m.open = m.open /\ r.m.bad = m.bad
<1> DEFINE Reboot(n)  == Then(GuardWait(n, PowerOn), SendSetting)
           Changed(n) == IF n.kind \in Rebooting /\ n.cfg # n.old THEN Reboot(n) ELSE {Result(FALSE, n)}
<1>1. r \in Then(Then(Then(SendSetting(m), Changed), Delivered), Committed)
  BY Zenon DEF ModernCommit
<1>2. PICK d \in Then(Then(SendSetting(m), Changed), Delivered) :
        r \in IF d.err THEN {d} ELSE Committed(d.m)
  BY <1>1, Zenon DEF Then
<1>3. PICK c \in Then(SendSetting(m), Changed) : d \in IF c.err THEN {c} ELSE Delivered(c.m)
  BY <1>2, Zenon DEF Then
<1>4. PICK s \in SendSetting(m) : c \in IF s.err THEN {s} ELSE Changed(s.m)
  BY <1>3, Zenon DEF Then
<1>5. Untouched(m, s.m) /\ s.m.open = m.open /\ s.m.bad = m.bad
  BY SendSettingEffect
<1>6. c.m = s.m
  <2>1. s.m.kind = m.kind
    BY <1>5 DEF Untouched
  <2>2. Changed(s.m) = {Result(FALSE, s.m)}
    BY <2>1, Zenon
  <2> HIDE DEF Reboot, Changed
  <2>3. c = s \/ c = Result(FALSE, s.m)
    BY <1>4, <2>2
  <2>4. QED
    BY <2>3 DEF Result
<1> HIDE DEF Reboot, Changed
<1>7. c.m \in Mouse /\ c.m.open = m.open /\ c.m.bad = m.bad
  <2>1. s.m \in Mouse
    BY <1>5 DEF Untouched
  <2>2. QED
    BY <1>5, <1>6, <2>1, Zenon
<1>8. d.m \in Mouse /\ d.m.open = m.open /\ d.m.bad = m.bad
  <2>1. d.m = c.m \/ d.m = [c.m EXCEPT !.astray = FALSE]
    <3>1. CASE c.err
      BY <1>3, <3>1
    <3>2. CASE ~c.err
      <4>1. d = Result(FALSE, [c.m EXCEPT !.astray = FALSE])
        BY <1>3, <3>2 DEF Delivered
      <4>2. QED
        BY <4>1 DEF Result
    <3>3. QED
      BY <3>1, <3>2
  <2>2. QED
    BY <1>7, <2>1 DEF Mouse
<1>9. r.m = d.m \/ r.m = [d.m EXCEPT !.old = d.m.cfg, !.lost = FALSE]
  BY <1>2 DEF Committed, Result
<1>10. QED
  BY <1>8, <1>9 DEF Mouse

(* A commit uses the handle its caller's claim keeps open.                 *)
LEMMA CommitKeepsHandle ==
  ASSUME NEW m \in Mouse, NEW force \in BOOLEAN, NEW r \in Commit(m, force),
         m.kind \notin Rebooting, Handle(m)
  PROVE  Handle(r.m)
<1>1. CASE ~(m.claims # 0 /\ (m.pending \/ force))
  <2>1. r.m = m
    <3>1. r = Result(TRUE, m) \/ r = Result(FALSE, m)
      BY <1>1, Zenon DEF Commit
    <3>2. QED
      BY <3>1 DEF Result
  <2>2. QED
    BY <2>1
<1>2. CASE m.claims # 0 /\ (m.pending \/ force)
  <2>1. PICK d \in DoCommit(m) :
          r = IF d.err THEN Result(TRUE, [d.m EXCEPT !.failed = TRUE])
              ELSE Result(FALSE, [d.m EXCEPT !.pending = FALSE, !.failed = FALSE])
    BY <1>2 DEF Commit
  <2>2. d.m \in Mouse /\ d.m.claims = m.claims
    BY DoCommitEffect DEF Outcome
  <2>3. d.m.open = m.open /\ d.m.bad = m.bad
    <3>1. CASE m.kind = "bootloader" \/ m.cfg = BadValue
      <4>1. d = Result(FALSE, m) \/ d = Result(TRUE, m)
        BY <3>1, KindOf DEF DoCommit
      <4>2. QED
        BY <4>1 DEF Result
    <3>2. CASE m.kind # "bootloader" /\ m.cfg # BadValue
      <4>1. m.cfg \in Values /\ m.open
        BY <1>2, <3>2 DEF Mouse, Settings, Handle
      <4>2. m.kind \in AlwaysSent
        BY <3>2, KindOf DEF Rebooting
      <4>3. d \in ModernCommit(m)
        BY <3>2, <4>2, KindOf DEF DoCommit
      <4>4. QED
        BY <4>1, <4>2, <4>3, ModernCommitKeepsOpen
    <3>3. QED
      BY <3>1, <3>2
  <2>4. r.m.open = d.m.open /\ r.m.bad = d.m.bad /\ r.m.claims = d.m.claims
    BY <2>1, <2>2 DEF Result, Mouse
  <2>5. QED
    BY <2>2, <2>3, <2>4 DEF Handle
<1>3. QED
  BY <1>1, <1>2

(* The first claim opens the handle.                                       *)
LEMMA MouseClaimKeepsHandle ==
  ASSUME NEW m \in Mouse, NEW r \in MouseClaim(m), ~ConfigFlaps, Handle(m)
  PROVE  Handle(r.m)
<1>1. CASE m.claims > 0
  <2>1. r = Result(FALSE, [m EXCEPT !.claims = @ + 1])
    BY <1>1 DEF MouseClaim
  <2>2. QED
    BY <1>1, <2>1 DEF Result, Mouse, Handle
<1>2. CASE m.claims = 0
  <2>1. PICK c \in UsbClaim(m) :
          r = IF c.err THEN c ELSE Result(FALSE, [c.m EXCEPT !.claims = 1])
    <3>1. ~(m.claims > 0)
      BY <1>2
    <3>2. QED
      BY <3>1, Zenon DEF MouseClaim
  <2>2. /\ c.m \in Mouse /\ c.m.claims = m.claims /\ c.m.bad = m.bad
        /\ c.err => c.m.open = m.open
        /\ ~c.err => c.m.open
    BY UsbClaimEffect DEF Untouched
  <2>3. QED
    BY <1>2, <2>1, <2>2 DEF Result, Mouse, Handle
<1>3. QED
  BY <1>1, <1>2 DEF Mouse

(* The last release closes it, and closes an open one.                     *)
LEMMA MouseReleaseKeepsHandle ==
  ASSUME NEW m \in Mouse, NEW r \in MouseRelease(m), m.kind \notin Rebooting, Handle(m)
  PROVE  Handle(r.m)
<1>1. PICK c \in IF m.claims = 1 THEN Commit(m, FALSE) ELSE {Result(FALSE, m)} :
        r = Result(c.err, ReleaseRefcount(c.m))
  BY Zenon DEF MouseRelease
<1>2. c.m \in Mouse /\ Handle(c.m)
  <2>1. CASE m.claims = 1
    <3>1. c \in Commit(m, FALSE)
      BY <1>1, <2>1
    <3>2. c.m \in Mouse
      BY <3>1, CommitEffect
    <3>3. Handle(c.m)
      BY <3>1, CommitKeepsHandle
    <3>4. QED
      BY <3>2, <3>3
  <2>2. CASE m.claims # 1
    <3>1. c.m = m
      BY <1>1, <2>2 DEF Result
    <3>2. QED
      BY <3>1
  <2>3. QED
    BY <2>1, <2>2
<1>3. \A n \in Mouse : Handle(n) => Handle(ReleaseRefcount(n))
  <2> SUFFICES ASSUME NEW n \in Mouse, Handle(n) PROVE Handle(ReleaseRefcount(n))
    OBVIOUS
  <2>1. CASE n.claims = 0
    <3>1. ReleaseRefcount(n) = n
      BY <2>1, ReleaseRefcountEffect
    <3>2. QED
      BY <3>1
  <2>2. CASE n.claims = 1
    <3>1. ReleaseRefcount(n) = [[[n EXCEPT !.claims = 0] EXCEPT !.open = FALSE] EXCEPT !.detached = {}]
      BY <2>2 DEF ReleaseRefcount, UsbRelease, Handle, Mouse
    <3>2. QED
      BY <3>1 DEF Handle, Mouse
  <2>3. CASE n.claims > 1
    <3>1. ReleaseRefcount(n) = [n EXCEPT !.claims = @ - 1]
      BY <2>3 DEF ReleaseRefcount
    <3>2. QED
      BY <2>3, <3>1 DEF Handle, Mouse
  <2>4. QED
    BY <2>1, <2>2, <2>3 DEF Mouse
<1>4. r.m = ReleaseRefcount(c.m)
  BY <1>1 DEF Result
<1>5. QED
  BY <1>2, <1>3, <1>4

(* Claim, forced commit, release: the handle is where it was.              *)
LEMMA ReconfigKeepsHandle ==
  ASSUME NEW m \in Mouse, NEW r \in Reconfig(m),
         m.kind \notin Rebooting, ~ConfigFlaps, Handle(m)
  PROVE  Handle(r.m)
<1>1. PICK c \in MouseClaim(m) :
        r \in IF c.err THEN {c}
              ELSE UNION {{Result(f.err, s.m) : s \in MouseRelease(f.m)} : f \in Commit(c.m, TRUE)}
  BY Zenon DEF Reconfig
<1>2. c.m \in Mouse /\ Handle(c.m)
  BY MouseClaimKeepsHandle, MouseClaimEffect
<1>0. c.m.kind = m.kind
  <2>1. Tries(m, c.m)
    BY MouseClaimEffect
  <2>2. QED
    BY <2>1 DEF Tries
<1>3. CASE c.err
  BY <1>1, <1>2, <1>3
<1>4. CASE ~c.err
  <2>1. PICK f \in Commit(c.m, TRUE) : \E s \in MouseRelease(f.m) : r = Result(f.err, s.m)
    BY <1>1, <1>4
  <2>2. f.m \in Mouse
    BY <1>2, CommitEffect
  <2>3. Handle(f.m)
    BY <1>0, <1>2, CommitKeepsHandle
  <2>0. f.m.kind = m.kind
    <3>1. Tries(c.m, f.m) \/ Delivers(c.m, f.m)
      BY <1>2, CommitEffect
    <3>2. QED
      BY <1>0, <3>1 DEF Tries, Delivers, Settles
  <2>4. PICK s \in MouseRelease(f.m) : r = Result(f.err, s.m)
    BY <2>1
  <2>5. Handle(s.m)
    BY <2>0, <2>2, <2>3, MouseReleaseKeepsHandle
  <2>6. QED
    BY <2>4, <2>5 DEF Result
<1>5. QED
  BY <1>3, <1>4

(* The release loop of razer_free_mouse closes an open handle.             *)
LEMMA ReleaseAllKeepsHandle ==
  ASSUME NEW m \in Mouse, NEW n \in ReleaseAll(m), m.kind \notin Rebooting, Handle(m)
  PROVE  Handle(n)
<1>1. CASE m.claims = 0
  BY <1>1 DEF ReleaseAll
<1>2. CASE m.claims # 0
  <2> DEFINE one == [m EXCEPT !.claims = 1]
  <2>1. one \in Mouse /\ one.kind = m.kind /\ Handle(one)
    BY <1>2 DEF Mouse, Handle
  <2>2. PICK r \in MouseRelease(one) : n = r.m
    BY <1>2 DEF ReleaseAll
  <2> HIDE DEF one
  <2>3. QED
    BY <2>1, <2>2, MouseReleaseKeepsHandle
<1>3. QED
  BY <1>1, <1>2

-----------------------------------------------------------------------------
(* What the driver's init leaves: settled, for a mouse that is sent its    *)
(* default.                                                                *)
LEMMA InitialisedEffect ==
  ASSUME NEW k \in Kinds, NEW default \in Values, NEW had \in Values \cup {PowerOn}
  PROVE  LET m == Initialised(k, default, had)
         IN  /\ m \in Mouse /\ Core(m) /\ ClaimCore(m) /\ Handle(m)
             /\ m.kind = k /\ m.claims = 0 /\ m.cfg = default /\ m.old = default
             /\ k \in AlwaysSent => m.hw = default /\ ~m.astray
             /\ k \notin AlwaysSent => m.astray
<1> DEFINE m == Initialised(k, default, had)
<1>1. m \in Mouse
  BY DEF Initialised, Mouse, Settings, Interfaces
<1>2. /\ m.kind = k /\ m.claims = 0 /\ m.cfg = default /\ m.old = default
      /\ ~m.open /\ ~m.pending /\ ~m.bad
  BY DEF Initialised
<1>3. /\ k \in AlwaysSent => m.hw = default /\ ~m.astray
      /\ k \notin AlwaysSent => m.astray
  BY DEF Initialised
<1> HIDE DEF m
<1>4. Core(m) /\ ClaimCore(m) /\ Handle(m)
  BY <1>1, <1>2, <1>3, KindOf DEF Core, ClaimCore, Handle, AlwaysSent
<1>5. QED
  BY <1>1, <1>2, <1>3, <1>4 DEF m

(* The profile emulation stores a setting while it holds the only claim.   *)
LEMMA EmulationStores ==
  ASSUME NEW m \in Mouse, m.claims = 0, m.cfg = m.old, NEW c \in MouseClaim(m), ~c.err
  PROVE  LET p == SetFreq(c.m, m.cfg).m
         IN  /\ p \in Mouse /\ p.claims = 1
             /\ p.kind = m.kind /\ p.cfg = m.cfg /\ p.old = m.old
             /\ p.hw = m.hw /\ p.astray = m.astray
             /\ p.open = c.m.open /\ p.bad = c.m.bad
<1>1. /\ c.m \in Mouse /\ Tries(m, c.m) /\ c.m.claims = 1
  BY MouseClaimEffect
<1>2. c.m.kind = m.kind /\ c.m.cfg = m.cfg /\ c.m.old = m.old
  BY <1>1 DEF Tries
<1>3. c.m.hw = m.hw /\ c.m.astray = m.astray
  <2>1. PICK u \in UsbClaim(m) : c = IF u.err THEN u ELSE Result(FALSE, [u.m EXCEPT !.claims = 1])
    <3>1. ~(m.claims > 0)
      OBVIOUS
    <3>2. QED
      BY <3>1, Zenon DEF MouseClaim
  <2>2. Untouched(m, u.m) /\ u.m.hw = m.hw
    BY UsbClaimEffect
  <2>3. u.m \in Mouse /\ u.m.astray = m.astray
    BY <2>2 DEF Untouched
  <2>4. c.m = [u.m EXCEPT !.claims = 1]
    BY <2>1 DEF Result
  <2>5. QED
    BY <2>2, <2>3, <2>4 DEF Mouse
<1>4. SetFreq(c.m, m.cfg).m = [c.m EXCEPT !.cfg = m.cfg, !.pending = TRUE]
  BY <1>1 DEF SetFreq, Result
<1>5. m.cfg \in Settings
  BY DEF Mouse
<1>6. QED
  BY <1>1, <1>2, <1>3, <1>4, <1>5 DEF Mouse

(* A mouse fresh from mouse_new, with or without the profile emulation.    *)
LEMMA NewMouseEffect ==
  ASSUME NEW default \in Values, NEW had \in Values \cup {PowerOn},
         NEW n \in NewMouse(default, had)
  PROVE  /\ n \in Mouse /\ Core(n) /\ ClaimCore(n)
         /\ n.claims = 0 /\ n.cfg = default /\ n.old = default
         /\ n.kind \in AlwaysSent => ~n.astray /\ (n.hw = default \/ ShortWrites)
         /\ n.kind \notin AlwaysSent => n.astray
         /\ Kinds \cap Rebooting = {} /\ ~ConfigFlaps => Handle(n)
<1>1. PICK k \in Kinds : n \in {Initialised(k, default, had)} \cup EmulationStarted(Initialised(k, default, had))
  BY Zenon DEF NewMouse
<1> DEFINE m == Initialised(k, default, had)
<1>2. /\ m \in Mouse /\ Core(m) /\ ClaimCore(m) /\ Handle(m)
      /\ m.kind = k /\ m.claims = 0 /\ m.cfg = default /\ m.old = default
      /\ k \in AlwaysSent => m.hw = default /\ ~m.astray
      /\ k \notin AlwaysSent => m.astray
  BY InitialisedEffect
<1>3. n = m \/ n \in EmulationStarted(m)
  BY <1>1
<1> HIDE DEF m
<1>4. CASE n = m
  BY <1>2, <1>4
<1>5. CASE n \in EmulationStarted(m)
  <2>1. PICK c \in MouseClaim(m) : ~c.err /\ \E r \in MouseRelease(SetFreq(c.m, m.cfg).m) : n = r.m
    BY <1>5 DEF EmulationStarted
  <2> DEFINE p == SetFreq(c.m, m.cfg).m
  <2>2. PICK r \in MouseRelease(p) : n = r.m
    BY <2>1
  <2>3. /\ p \in Mouse /\ p.claims = 1
        /\ p.kind = m.kind /\ p.cfg = m.cfg /\ p.old = m.old
        /\ p.hw = m.hw /\ p.astray = m.astray
        /\ p.open = c.m.open /\ p.bad = c.m.bad
    BY <1>2, <2>1, EmulationStores
  <2> HIDE DEF p
  <2>4. Core(p) /\ ClaimCore(p)
    BY <1>2, <2>3, KindOf DEF Core, ClaimCore, AlwaysSent
  <2>5. /\ n \in Mouse /\ n.claims = 0 /\ ClaimCore(n)
        /\ Tries(p, n) \/ Delivers(p, n)
    BY <2>2, <2>3, <2>4, MouseReleaseEffect
  <2>6. Core(n)
    BY <2>3, <2>4, <2>5, AttemptKeepsCore
  <2>7. n.kind = k /\ n.cfg = default /\ n.old = default
    BY <1>2, <2>3, <2>5 DEF Tries, Delivers, Settles
  <2>8. k \in AlwaysSent => ~n.astray /\ (n.hw = default \/ ShortWrites)
    <3> SUFFICES ASSUME k \in AlwaysSent PROVE ~n.astray /\ (n.hw = default \/ ShortWrites)
      OBVIOUS
    <3>1. k # "legacy" /\ Sent(p) /\ p.cfg = p.old
      BY <1>2, <2>3 DEF AlwaysSent, Sent
    <3>2. CASE Tries(p, n)
      BY <1>2, <2>3, <3>1, <3>2 DEF Tries
    <3>3. CASE Delivers(p, n)
      BY <1>2, <2>3, <3>1, <3>3 DEF Delivers, Settles
    <3>4. QED
      BY <2>5, <3>2, <3>3
  <2>9. k \notin AlwaysSent => n.astray
    <3> SUFFICES ASSUME k \notin AlwaysSent PROVE n.astray
      OBVIOUS
    <3>1. ~Sent(p) /\ p.astray
      BY <1>2, <2>3 DEF Sent
    <3>2. QED
      BY <2>5, <3>1 DEF Tries, Delivers, Settles
  <2>10. Kinds \cap Rebooting = {} /\ ~ConfigFlaps => Handle(n)
    <3> SUFFICES ASSUME Kinds \cap Rebooting = {}, ~ConfigFlaps PROVE Handle(n)
      OBVIOUS
    <3>1. Handle(c.m) /\ c.m.claims = 1
      BY <1>2, <2>1, MouseClaimKeepsHandle, MouseClaimEffect
    <3>2. Handle(p)
      BY <2>3, <3>1 DEF Handle
    <3>3. p.kind \notin Rebooting
      BY <1>2, <2>3
    <3>4. QED
      BY <2>2, <2>3, <3>2, <3>3, MouseReleaseKeepsHandle
  <2>11. QED
    BY <2>5, <2>6, <2>7, <2>8, <2>9, <2>10
<1>6. QED
  BY <1>3, <1>4, <1>5
=============================================================================
