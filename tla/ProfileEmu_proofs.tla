-------------------------- MODULE ProfileEmu_proofs --------------------------
(***************************************************************************)
(* What holds of ProfileEmu for any number of profiles, axes, mappings,    *)
(* frequencies and resolutions.                                            *)
(***************************************************************************)
EXTENDS ProfileEmu, TLAPS

(* The mapping the driver uses is the active profile's unless a call has   *)
(* failed: without it a changed mapping might not be sent, so the checked  *)
(* invariants are not inductive by themselves.                             *)
Settled ==
  ~failed => /\ ~Refused(data[active])
             /\ Encoded(data[active].freq) \in Freqs
             /\ hw.mapping = data[active].dpi[MainAxis]
             /\ lost \/ Applied

IInv == TypeOK /\ Settled

(* What one command to the device leaves behind, for SendResolution. *)
LEMMA Sending ==
  ASSUME NEW h \in Hardware, NEW r \in [Mappings -> Resolutions],
         NEW c \in SendResolution(h, r)
  PROVE  /\ c.hw \in Hardware /\ c.err \in BOOLEAN
         /\ c.hw.mapping = h.mapping /\ c.hw.devFreq = h.devFreq
         /\ ~c.err => c.hw.devRes = r[h.mapping]
  <1> DEFINE n == [h EXCEPT !.devRes = r[h.mapping]]
  <1>1. /\ n \in Hardware /\ n.mapping = h.mapping /\ n.devFreq = h.devFreq
        /\ n.devRes = r[h.mapping]
    BY DEF Hardware
  <1>2. c = Result(TRUE, h) \/ c = Result(TRUE, n) \/ c = Result(FALSE, n)
    BY DEF SendResolution, Sent
  <1> HIDE DEF n
  <1>3. (c.err = TRUE /\ c.hw \in {h, n}) \/ (c.err = FALSE /\ c.hw = n)
    BY <1>2 DEF Result
  <1> QED BY <1>1, <1>3

(* The same for the driver's viper_set_freq. *)
LEMMA SettingFreq ==
  ASSUME NEW h \in Hardware, NEW f \in AnyFreq, NEW c \in DriverSetFreq(h, f)
  PROVE  /\ c.hw \in Hardware /\ c.err \in BOOLEAN
         /\ c.hw.mapping = h.mapping /\ c.hw.devRes = h.devRes
         /\ ~c.err => Encoded(f) \in Freqs /\ c.hw.devFreq = Encoded(f)
  <1>1. CASE Encoded(f) \notin Freqs
    <2>1. c = Result(TRUE, h)
      BY <1>1 DEF DriverSetFreq
    <2> QED BY <2>1 DEF Result
  <1>2. CASE Encoded(f) \in Freqs
    <2> DEFINE n == [h EXCEPT !.freq = Encoded(f)]
               w == [n EXCEPT !.devFreq = n.freq]
    <2>1. n \in Hardware /\ n.mapping = h.mapping /\ n.devRes = h.devRes /\ n.freq = Encoded(f)
      BY <1>2 DEF Hardware
    <2>2. c = Result(TRUE, n) \/ c = Result(TRUE, w) \/ c = Result(FALSE, w)
      BY <1>2 DEF DriverSetFreq, Sent
    <2> HIDE DEF n
    <2>3. /\ w \in Hardware /\ w.mapping = h.mapping /\ w.devRes = h.devRes
          /\ w.devFreq = Encoded(f)
      BY <2>1, <1>2 DEF Hardware
    <2> HIDE DEF w
    <2>4. (c.err = TRUE /\ c.hw \in {n, w}) \/ (c.err = FALSE /\ c.hw = w)
      BY <2>2 DEF Result
    <2> QED BY <1>2, <2>1, <2>3, <2>4
  <1> QED BY <1>1, <1>2

(* A commit that returns no error has put the whole profile in the device: *)
(* no step of mouse_profemu_commit can fail unnoticed.                     *)
LEMMA Committing ==
  ASSUME NEW s \in Settings, s.dpi[MainAxis] \in Mappings,
         NEW h \in Hardware, NEW r \in [Mappings -> Resolutions],
         NEW c \in HwCommit(s, h, r)
  PROVE  /\ c.hw \in Hardware /\ c.err \in BOOLEAN
         /\ ~c.err => /\ ~Refused(s) /\ Encoded(s.freq) \in Freqs
                      /\ c.hw.mapping = s.dpi[MainAxis]
                      /\ c.hw.devFreq = Encoded(s.freq)
                      /\ c.hw.devRes = r[s.dpi[MainAxis]]
  <1> DEFINE n == [h EXCEPT !.mapping = s.dpi[MainAxis]]
             mapped == DriverSetMapping(h, s.dpi[MainAxis], r)
  <1>1. n \in Hardware /\ n.mapping = s.dpi[MainAxis]
    BY DEF Hardware
  <1>2. ASSUME NEW m \in mapped
        PROVE  /\ m.hw \in Hardware /\ m.err \in BOOLEAN
               /\ m.hw.mapping = s.dpi[MainAxis]
               /\ ~m.err => m.hw.devRes = r[s.dpi[MainAxis]]
    <2>1. m \in SendResolution(n, r)
      BY DEF DriverSetMapping
    <2> HIDE DEF n
    <2> QED BY <2>1, <1>1, Sending
  <1>3. \/ c = Result(TRUE, h)
        \/ c \in mapped /\ c.err
        \/ \E m \in mapped : ~m.err /\ Refused(s) /\ c = Result(TRUE, m.hw)
        \/ \E m \in mapped : ~m.err /\ ~Refused(s) /\ c \in DriverSetFreq(m.hw, s.freq)
    BY DEF HwCommit
  <1> HIDE DEF mapped
  <1>4. CASE c = Result(TRUE, h)
    BY <1>4 DEF Result
  <1>5. CASE c \in mapped /\ c.err
    BY <1>5, <1>2
  <1>6. CASE \E m \in mapped : ~m.err /\ Refused(s) /\ c = Result(TRUE, m.hw)
    BY <1>6, <1>2 DEF Result
  <1>7. CASE \E m \in mapped : ~m.err /\ ~Refused(s) /\ c \in DriverSetFreq(m.hw, s.freq)
    <2> PICK m \in mapped : ~m.err /\ ~Refused(s) /\ c \in DriverSetFreq(m.hw, s.freq)
      BY <1>7
    <2>1. s.freq \in AnyFreq
      BY DEF Settings
    <2> QED BY <1>2, <2>1, SettingFreq
  <1> QED BY <1>3, <1>4, <1>5, <1>6, <1>7

-----------------------------------------------------------------------------
(* The end of a setter of profile p, and of a switch to it, once data' and *)
(* active' are what they are.                                              *)
LEMMA CommitStep ==
  ASSUME IInv, NEW p \in Profiles, Commit(p),
         data' \in [Profiles -> Settings],
         \A q \in Profiles : data'[q].dpi[MainAxis] \in Mappings,
         active' = p, res' = res
  PROVE  IInv'
  <1> PICK c \in HwCommit(data'[p], hw, res) :
             hw' = c.hw /\ failed' = c.err /\ lost' = (lost /\ c.err)
    BY DEF Commit
  <1>1. data'[p] \in Settings /\ hw \in Hardware /\ res \in [Mappings -> Resolutions]
    BY DEF IInv, TypeOK
  <1>2. /\ c.hw \in Hardware /\ c.err \in BOOLEAN
        /\ ~c.err => /\ ~Refused(data'[p]) /\ Encoded(data'[p].freq) \in Freqs
                     /\ c.hw.mapping = data'[p].dpi[MainAxis]
                     /\ c.hw.devFreq = Encoded(data'[p].freq)
                     /\ c.hw.devRes = res[data'[p].dpi[MainAxis]]
    BY <1>1, Committing
  <1>3. lost' \in BOOLEAN
    BY <1>2 DEF IInv, TypeOK
  <1>4. TypeOK'
    BY <1>2, <1>3 DEF IInv, TypeOK
  <1>5. Settled'
    BY <1>2 DEF Settled, Applied
  <1> QED BY <1>4, <1>5 DEF IInv

(* A setter that edits profile p, active or not. *)
LEMMA EditStep ==
  ASSUME IInv, NEW p \in Profiles, NEW s \in Settings, s.dpi[MainAxis] \in Mappings,
         data' = [data EXCEPT ![p] = s], CommitIfActive(p),
         active' = active, res' = res
  PROVE  IInv'
  <1>1. /\ data' \in [Profiles -> Settings]
        /\ \A q \in Profiles : data'[q] = IF q = p THEN s ELSE data[q]
    BY DEF IInv, TypeOK
  <1>2. \A q \in Profiles : data'[q].dpi[MainAxis] \in Mappings
    BY <1>1 DEF IInv, TypeOK
  <1>3. CASE p = active
    BY <1>1, <1>2, <1>3, CommitStep DEF CommitIfActive
  <1>4. CASE p # active
    <2>1. UNCHANGED <<hw, failed, lost>> /\ data'[active] = data[active]
      BY <1>1, <1>4 DEF CommitIfActive, IInv, TypeOK
    <2>2. TypeOK'
      BY <1>1, <1>2, <2>1 DEF IInv, TypeOK
    <2>3. Settled'
      BY <2>1 DEF IInv, Settled, Applied
    <2> QED BY <2>2, <2>3 DEF IInv
  <1> QED BY <1>3, <1>4

(* The strengthened invariant is inductive. *)
LEMMA Initially == Init => IInv
  <1> SUFFICES ASSUME Init PROVE IInv
    OBVIOUS
  <1> USE ProfilesAssumption, AxesAssumption, FreqsAssumption, MappingsAssumption
  <1> DEFINE initial == [freq |-> DefaultFreq,
                         dpi  |-> [a \in Axes |-> IF a = MainAxis THEN DefaultMapping
                                                  ELSE NoMapping]]
  <1>1. /\ data = [p \in Profiles |-> initial] /\ active = FirstProfile
        /\ initial \in Settings
    BY DEF Init, Settings, AnyFreq
  <1>2. /\ initial.dpi[MainAxis] = DefaultMapping /\ initial.freq = DefaultFreq
        /\ ~Refused(initial)
    BY DEF Refused
  <1>3. Encoded(DefaultFreq) = DefaultFreq
    BY DEF Encoded
  <1>4. hw \in Hardware /\ hw.mapping = DefaultMapping /\ hw.devFreq = DefaultFreq
    BY DEF Init, Hardware
  <1>5. hw.devRes = res[DefaultMapping]
    BY DEF Init
  <1> HIDE DEF initial
  <1>6. TypeOK
    BY <1>1, <1>2, <1>4 DEF Init, TypeOK
  <1>7. Settled
    BY <1>1, <1>2, <1>3, <1>4, <1>5 DEF Settled, Applied
  <1> QED BY <1>6, <1>7 DEF IInv

LEMMA Inductive == IInv /\ [Next]_vars => IInv'
  <1> SUFFICES ASSUME IInv, [Next]_vars PROVE IInv'
    OBVIOUS
  <1> USE AxesAssumption
  <1>1. ASSUME NEW p \in Profiles, NEW f \in AnyFreq, SetFreq(p, f) PROVE IInv'
    <2> DEFINE s == [data[p] EXCEPT !.freq = f]
    <2>1. s \in Settings /\ s.dpi[MainAxis] \in Mappings /\ data' = [data EXCEPT ![p] = s]
      BY <1>1 DEF SetFreq, IInv, TypeOK, Settings
    <2> HIDE DEF s
    <2> QED BY <1>1, <2>1, EditStep DEF SetFreq
  <1>2. ASSUME NEW p \in Profiles, NEW a \in Axes, NEW d \in Mappings, SetAxisMapping(p, a, d)
        PROVE  IInv'
    <2> DEFINE s == [data[p] EXCEPT !.dpi[a] = d]
    <2>1. data[p] \in Settings /\ data[p].dpi[MainAxis] \in Mappings
      BY DEF IInv, TypeOK
    <2>2. s \in Settings /\ s.dpi[MainAxis] \in Mappings
      BY <2>1 DEF Settings
    <2>3. data' = [data EXCEPT ![p] = s]
      BY <1>2 DEF SetAxisMapping, IInv, TypeOK
    <2> HIDE DEF s
    <2> QED BY <1>2, <2>2, <2>3, EditStep DEF SetAxisMapping
  <1>3. ASSUME NEW p \in Profiles, NEW d \in Mappings, SetAllMappings(p, d) PROVE IInv'
    <2> DEFINE t == [a \in Axes |-> IF data[p].dpi[a] = NoMapping THEN NoMapping ELSE d]
               s == [data[p] EXCEPT !.dpi = t]
    <2>1. data[p] \in Settings /\ data[p].dpi[MainAxis] \in Mappings
      BY DEF IInv, TypeOK
    <2>2. t \in [Axes -> Mappings \cup {NoMapping}] /\ t[MainAxis] = d
      BY <2>1, MappingsAssumption
    <2>3. data' = [data EXCEPT ![p] = s]
      BY <1>3 DEF SetAllMappings, IInv, TypeOK
    <2> HIDE DEF t
    <2>4. s \in Settings /\ s.dpi[MainAxis] \in Mappings
      BY <2>1, <2>2 DEF Settings
    <2> HIDE DEF s
    <2> QED BY <1>3, <2>3, <2>4, EditStep DEF SetAllMappings
  <1>4. ASSUME NEW p \in Profiles, SetActive(p) PROVE IInv'
    <2>1. CASE p = active
      BY <1>4, <2>1 DEF SetActive, IInv, TypeOK, Settled, Applied
    <2>2. CASE p # active
      BY <1>4, <2>2, CommitStep DEF SetActive, IInv, TypeOK
    <2> QED BY <2>1, <2>2
  <1>5. ASSUME NEW d \in Mappings, NEW v \in Resolutions, ChangeMapping(d, v) PROVE IInv'
    <2>1. /\ res' = [res EXCEPT ![d] = v] /\ res' \in [Mappings -> Resolutions]
          /\ UNCHANGED <<data, active, lost>>
          /\ hw \in Hardware
      BY <1>5 DEF ChangeMapping, IInv, TypeOK
    <2>2. CASE d = hw.mapping
      <3> PICK c \in SendResolution(hw, res') : hw' = c.hw /\ failed' = (failed \/ c.err)
        BY <1>5, <2>2 DEF ChangeMapping
      <3>1. /\ c.hw \in Hardware /\ c.err \in BOOLEAN
            /\ c.hw.mapping = hw.mapping /\ c.hw.devFreq = hw.devFreq
            /\ ~c.err => c.hw.devRes = res'[hw.mapping]
        BY <2>1, Sending
      <3>2. failed' \in BOOLEAN
        BY <3>1 DEF IInv, TypeOK
      <3>3. TypeOK'
        BY <2>1, <3>1, <3>2 DEF IInv, TypeOK
      <3>4. Settled'
        BY <2>1, <3>1 DEF IInv, Settled, Applied
      <3> QED BY <3>3, <3>4 DEF IInv
    <2>3. CASE d # hw.mapping
      <3>1. UNCHANGED <<hw, failed>>
        BY <1>5, <2>3 DEF ChangeMapping
      <3>2. TypeOK'
        BY <2>1, <3>1 DEF IInv, TypeOK
      <3>3. \A e \in Mappings : e # d => res'[e] = res[e]
        BY <2>1 DEF IInv, TypeOK
      <3>4. Settled'
        BY <2>1, <2>3, <3>1, <3>3 DEF IInv, TypeOK, Settled, Applied, Hardware
      <3> QED BY <3>2, <3>4 DEF IInv
    <2> QED BY <2>2, <2>3
  <1>6. ASSUME Suspend PROVE IInv'
    <2>1. hw' \in Hardware /\ hw'.mapping = hw.mapping
      BY <1>6 DEF Suspend, IInv, TypeOK, Hardware
    <2>2. TypeOK'
      BY <1>6, <2>1 DEF Suspend, IInv, TypeOK
    <2>3. Settled'
      BY <1>6, <2>1 DEF Suspend, IInv, Settled
    <2> QED BY <2>2, <2>3 DEF IInv
  <1>7. ASSUME UNCHANGED vars PROVE IInv'
    BY <1>7 DEF vars, IInv, TypeOK, Settled, Applied
  <1> QED BY <1>1, <1>2, <1>3, <1>4, <1>5, <1>6, <1>7 DEF Next

(* No order of edits, switches, shared mappings, failures and power losses *)
(* breaks the invariant.                                                   *)
THEOREM Invariance == Spec => []IInv
  BY Initially, Inductive, PTL DEF Spec

(* Every field keeps its type. *)
THEOREM TypeCorrect == Spec => []TypeOK
  <1>1. IInv => TypeOK
    BY DEF IInv
  <1> QED BY Invariance, <1>1, PTL

(* The device has the active profile's settings, unless a call failed or   *)
(* the device forgot (mouse_profemu_commit and its callers).               *)
THEOREM ActiveIsApplied == Spec => []ActiveApplied
  <1>1. IInv => ActiveApplied
    BY DEF IInv, Settled, ActiveApplied
  <1> QED BY Invariance, <1>1, PTL

(* A profile the driver refuses is active only after a call that failed. *)
THEOREM RefusalsReported == Spec => []RefusedReported
  <1>1. IInv => RefusedReported
    BY DEF IInv, Settled, RefusedReported
  <1> QED BY Invariance, <1>1, PTL
=============================================================================
