------------------------------ MODULE Drivers ------------------------------
(***************************************************************************)
(* A mouse, its driver in librazer, and the clients of razerd that change  *)
(* its settings: does the device do what the driver says it does?          *)
(*                                                                         *)
(* The driver keeps a copy of every setting (cache), because most devices  *)
(* cannot be read back.  One event of razerd's loop at a time is worked on *)
(* (call): the probe of a new mouse, a client's command, the release that  *)
(* ends them and may write what was deferred, or COMMAND_PRIV_RECONFIGMICE. *)
(* Each of its USB transfers is a step of its own, so that a transfer can  *)
(* fail, or the device lose its settings, between any two.                 *)
(*                                                                         *)
(* Every driver here has one profile, so that razerd, unless it is started *)
(* with -p, puts the profile emulation (ProfileEmu) between the clients'   *)
(* pointer commands and the driver.                                        *)
(*                                                                         *)
(* doubt says why the device may differ from the driver's copy:            *)
(*   none       it does not                                                *)
(*   owed       the driver took a value that it has not sent yet           *)
(*   told       it was not sent, and the client's command failed           *)
(*   swallowed  it was not sent, and razerd ignored the error              *)
(*   ignored    the device refused it and the driver did not notice        *)
(*   lost       the device lost its settings since                         *)
(*   unsent     the driver never sent it after it found the mouse          *)
(***************************************************************************)
EXTENDS AtOnceDrivers, DeferringDrivers

CONSTANTS
  Drivers,        \* the drivers a run looks at
  AskedFreqs,     \* frequencies, resolutions, modes and colours that clients
  AskedRes,       \*   ask for (bounds)
  AskedModes,
  AskedColours,
  PowerOn,        \* what the device does before it was told anything
  MaxFaults       \* transfers that fail, and losses of power (bound)

ExtDrivers == {"Viper", "Basilisk", "MambaWireless", "Lancehead", "NagaV2", "DeathAdderV2",
               "DeathAdderElite", "Orochi", "Abyssus"}
PacketDrivers    == {"MambaTE", "Diamondback"}
AtOnce           == ExtDrivers \cup PacketDrivers \cup {"DAChroma", "Essential"}
DeferringDrivers == {"Krait", "DA2013", "Taipan", "Naga"}

ASSUME DriversAssumption ==
  /\ Drivers \subseteq AtOnce \cup DeferringDrivers
  /\ AskedFreqs \subseteq Nat
  /\ AskedRes \subseteq Nat
  /\ AskedModes \subseteq LedModes
  /\ MaxFaults \in Nat

VARIABLES
  driver,   \* which one
  emulated, \* profile_emu_enabled
  topic,    \* "pointer" or a LED: what this behaviour's clients change
  listed,   \* the mouse is in mice_list
  cache,    \* the driver's copy
  dev,      \* what the device does
  doubt,
  pending,  \* commit_pending
  held,     \* a privileged client claims the mouse
  call,     \* what razerd is doing
  faults

vars == <<driver, emulated, topic, listed, cache, dev, doubt, pending, held, call, faults>>

-----------------------------------------------------------------------------
(* The drivers by name.                                                    *)

LedsOf(d) ==
  CASE d \in PacketDrivers \cup {"Orochi", "Abyssus"} -> {"logo"}
    [] d = "Naga"                                     -> Leds
    [] d = "Krait"                                    -> {}
    [] OTHER                                          -> {"scroll", "logo"}

Initial ==
  CASE driver = "Viper"           -> ViperInit
    [] driver = "Basilisk"        -> BasiliskInit
    [] driver = "MambaWireless"   -> MambaWirelessInit
    [] driver = "Lancehead"       -> LanceheadInit
    [] driver = "NagaV2"          -> NagaV2Init
    [] driver = "DeathAdderV2"    -> DeathAdderV2Init
    [] driver = "DeathAdderElite" -> DeathAdderEliteInit
    [] driver = "Orochi"          -> OrochiInit
    [] driver = "Abyssus"         -> AbyssusInit
    [] driver = "MambaTE"         -> MambaInit
    [] driver = "Diamondback"     -> DiamondInit
    [] driver = "DAChroma"        -> DAChromaInit
    [] driver = "Essential"       -> EssentialInit
    [] driver = "Krait"           -> KraitInit
    [] driver = "DA2013"          -> DA2013Init
    [] driver = "Taipan"          -> TaipanInit
    [] driver = "Naga"            -> NagaInit

PointerCall(cb) ==
  CASE driver = "Viper"           -> ViperPointer(cache, cb)
    [] driver = "Basilisk"        -> BasiliskPointer(cache, cb)
    [] driver = "MambaWireless"   -> MambaWirelessPointer(cache, cb)
    [] driver = "Lancehead"       -> LanceheadPointer(cache, cb)
    [] driver = "NagaV2"          -> NagaV2Pointer(cache, cb)
    [] driver = "DeathAdderV2"    -> DeathAdderV2Pointer(cache, cb)
    [] driver = "DeathAdderElite" -> DeathAdderElitePointer(cache, cb)
    [] driver = "Orochi"          -> OrochiPointer(cache, cb)
    [] driver = "Abyssus"         -> AbyssusPointer(cache, cb)
    [] driver = "MambaTE"         -> MambaPointer(cache, cb)
    [] driver = "Diamondback"     -> DiamondPointer(cache, cb)
    [] driver = "DAChroma"        -> DAChromaPointer(cache, cb)
    [] driver = "Essential"       -> EssentialPointer(cache, cb)
    [] driver = "Krait"           -> KraitCall(cache, cb)
    [] driver = "DA2013"          -> DA2013Call(cache, cb)
    [] driver = "Taipan"          -> TaipanCall(cache, cb)
    [] driver = "Naga"            -> NagaCall(cache, cb)

LedCall(cb) ==
  CASE driver = "Viper"           -> ViperLeds(cache, cb)
    [] driver = "Basilisk"        -> BasiliskLeds(cache, cb)
    [] driver = "MambaWireless"   -> MambaWirelessLeds(cache, cb)
    [] driver = "Lancehead"       -> LanceheadLeds(cache, cb)
    [] driver = "NagaV2"          -> NagaV2Leds(cache, cb)
    [] driver = "DeathAdderV2"    -> DeathAdderV2Leds(cache, cb)
    [] driver = "DeathAdderElite" -> DeathAdderEliteLeds(cache, cb)
    [] driver = "Orochi"          -> OrochiLeds(cache, cb)
    [] driver = "Abyssus"         -> AbyssusLeds(cache, cb)
    [] driver = "MambaTE"         -> MambaLeds(cache, cb)
    [] driver = "Diamondback"     -> DiamondLeds(cache, cb)
    [] driver = "DAChroma"        -> DAChromaLeds(cache, cb)
    [] driver = "Essential"       -> EssentialLeds(cache, cb)
    [] driver = "DA2013"          -> DA2013Call(cache, cb)
    [] driver = "Taipan"          -> TaipanCall(cache, cb)
    [] driver = "Naga"            -> NagaCall(cache, cb)

Effect(cb) == IF cb.op \in {"freq", "mapping", "change"} THEN PointerCall(cb) ELSE LedCall(cb)

Defers == driver \in DeferringDrivers

CommitOf(c) ==
  CASE driver = "Krait"  -> KraitCommit(c)
    [] driver = "DA2013" -> DA2013Commit(c)
    [] driver = "Taipan" -> TaipanCommit(c)
    [] driver = "Naga"   -> NagaCommit(c)
    [] OTHER             -> <<>>

Fates(cmd) ==
  CASE driver \in ExtDrivers    -> ExtFates
    [] driver = "MambaTE"       -> MambaFates(cmd)
    [] driver = "Diamondback"   -> DiamondFates(cmd)
    [] driver = "DAChroma"      -> DAChromaFates(cmd)
    [] driver = "Essential"     -> EssentialFates(cmd)
    [] driver = "Krait"         -> KraitFates(cmd)
    [] driver = "DA2013"        -> DA2013Fates(cmd)
    [] driver = "Taipan"        -> TaipanFates(cmd)
    [] driver = "Naga"          -> NagaFates(cmd)

(* What the device may do when it follows the driver's copy.  The effect   *)
(* of an extended driver's LED is that of its mode or static, because a    *)
(* new colour is sent as a static effect whatever the mode.                *)
Follows(c, i) ==
  CASE Defers                    -> {DeferExpected(c)[i]}
    [] driver \in PacketDrivers  -> {PacketExpected(c)[i]}
    [] driver = "DAChroma"       -> IF i[2] = "mode" THEN {c.mode[i[1]]} ELSE {ExtExpected(c)[i]}
    [] OTHER                     -> IF i[2] = "mode" THEN {ExtExpected(c)[i], "static"}
                                                     ELSE {ExtExpected(c)[i]}

-----------------------------------------------------------------------------
(* Steps of a call.                                                        *)

NoCall == [kind |-> "none", cmds |-> <<>>, cbs |-> <<>>]

Idle == call.kind = "none"

WriteItems(cmds) == UNION {DOMAIN cmds[k] : k \in DOMAIN cmds}

Become(items, why) == [i \in Items |-> IF i \in items THEN why ELSE doubt[i]]

(* m->release(): the last claim to go writes what is pending.              *)
Releasing(pend, c) ==
  IF Defers /\ pend /\ ~held
  THEN [NoCall EXCEPT !.kind = "release", !.cmds = CommitOf(c)]
  ELSE NoCall

Init ==
  /\ driver \in Drivers
  /\ emulated \in BOOLEAN
  /\ topic \in {"pointer"} \cup LedsOf(driver)
  /\ listed = FALSE
  /\ cache = Initial.cache
  /\ dev = [i \in Items |-> PowerOn]
  /\ doubt = [i \in Items |-> "unsent"]
  /\ pending = FALSE
  /\ held = FALSE
  /\ call = NoCall
  /\ faults = 0

(* mouse_profemu_commit: the driver's setters for each axis whose mapping  *)
(* the profile has, and for the frequency.  Each axis that has mappings of *)
(* its own has one from the start; a client may have given one, odd, to an *)
(* axis for which the driver takes none, whichever it is.                  *)
ProfileCommit(first, second, odd, freq) ==
  LET Map(axis, m) == <<[op |-> "mapping", axis |-> axis, mapping |-> m]>>
  IN  IF driver = "Krait" THEN Map("all", first)
      ELSE Map("first", first)
           \o (IF Defers THEN Map("second", second) ELSE <<>>)
           \o (IF odd = "none" THEN <<>> ELSE Map(IF Defers THEN "wheel" ELSE "second", odd))
           \o <<[op |-> "freq", freq |-> freq]>>

(* Faulty variant: the emulation commits nothing when it starts.           *)
ProbeUncommitted ==
  /\ Idle /\ ~listed
  /\ cache' = Initial.cache
  /\ call' = [NoCall EXCEPT !.kind = "probe", !.cmds = Initial.cmds]
  /\ doubt' = [i \in Items |-> "unsent"]
  /\ UNCHANGED <<driver, emulated, topic, listed, dev, pending, held, faults>>

(* mouse_new calls the driver's init; the profile emulation then claims    *)
(* the mouse, sets what it read from the driver, and releases the mouse.   *)
Probe ==
  /\ Idle /\ ~listed
  /\ cache' = Initial.cache
  /\ call' = [ kind |-> "probe", cmds |-> Initial.cmds,
               cbs  |-> IF emulated
                        THEN ProfileCommit("initial", "initial", "none", Initial.cache.freq)
                        ELSE <<>> ]
  /\ doubt' = [i \in Items |-> "unsent"]
  /\ UNCHANGED <<driver, emulated, topic, listed, dev, pending, held, faults>>

(* A command of a client: claim, the driver's callbacks, release.          *)
Command(cbs) ==
  /\ Idle /\ listed
  /\ call' = [NoCall EXCEPT !.kind = "command", !.cbs = cbs]
  /\ UNCHANGED <<driver, emulated, topic, listed, cache, dev, doubt, pending, held, faults>>

(* SETFREQ, SETDPIMAPPING and SETACTIVEPROF with the profile emulation:    *)
(* what becomes the active profile is committed; a change of another       *)
(* profile reaches no callback.                                            *)
ProfileCommand ==
  /\ topic = "pointer" /\ emulated
  /\ \/ Command(<<>>)
     \/ \E first, second \in Mappings, freq \in AskedFreqs \cup {Initial.cache.freq} :
          \E odd \in {"none", first} : Command(ProfileCommit(first, second, odd, freq))

(* The same without the emulation. *)
SetFreqCommand ==
  /\ topic = "pointer" /\ ~emulated /\ driver # "Krait"
  /\ \E f \in AskedFreqs : Command(<<[op |-> "freq", freq |-> f]>>)

SetDpiMapping ==
  /\ topic = "pointer" /\ ~emulated
  /\ \E m \in Mappings, axis \in IF Defers THEN {"first", "second", "wheel", "all"}
                                            ELSE {"first", "second", "all"} :
        Command(<<[op |-> "mapping", axis |-> axis, mapping |-> m]>>)

(* The deferring drivers' mappings have no change callback.                *)
ChangeDpiMapping ==
  /\ topic = "pointer" /\ ~Defers
  /\ \E m \in Mappings, d \in Dims, r \in AskedRes :
        Command(<<[op |-> "change", mapping |-> m, dim |-> d, res |-> r]>>)

(* The callbacks for what differs from the LED's state as it was read when *)
(* the command came; a driver without set_mode and change_color has the    *)
(* first only.                                                             *)
SetLed ==
  /\ topic # "pointer"
  /\ \E on \in BOOLEAN, mode \in AskedModes, colour \in AskedColours :
       LET If(differs, cb) == IF differs THEN <<cb>> ELSE <<>>
           toggle == If(on # cache.on[topic], [op |-> "toggle", led |-> topic, on |-> on])
           look   == If(mode # cache.mode[topic], [op |-> "mode", led |-> topic, mode |-> mode])
           tint   == If(colour # cache.colour[topic],
                        [op |-> "colour", led |-> topic, colour |-> colour])
       IN  Command(IF Defers THEN toggle ELSE toggle \o look \o tint)

(* The rest of the call after an error: nothing more is sent.  razerd      *)
(* releases the mouse and answers; a failed probe drops it.  The answer    *)
(* tells of what an at-once driver has not sent, and a deferring driver    *)
(* may send it in the release, whose own errors razerd and the emulation   *)
(* ignore.                                                                 *)
Abort(dbt, pend) ==
  LET why == IF call.kind = "release" THEN "swallowed" ELSE IF call.kind = "probe" THEN "unsent"
             ELSE IF Defers THEN "owed" ELSE "told"
  IN  /\ call' = IF call.kind \in {"probe", "release"} THEN NoCall ELSE Releasing(pend, cache)
      /\ listed' = (listed \/ call.kind = "release")
      /\ doubt' = [i \in Items |-> IF dbt[i] = "owed" THEN why ELSE dbt[i]]

RunCallback ==
  /\ call.kind \in {"probe", "command"} /\ call.cmds = <<>> /\ call.cbs # <<>>
  /\ LET r == Effect(Head(call.cbs))
     IN  IF r.err
         THEN /\ Abort(doubt, pending)
              /\ UNCHANGED <<cache, pending>>
         ELSE /\ cache' = r.cache
              /\ doubt' = Become(r.owed, "owed")
              /\ pending' = (pending \/ r.defer)
              /\ call' = [call EXCEPT !.cmds = r.cmds, !.cbs = Tail(@)]
              /\ UNCHANGED listed
  /\ UNCHANGED <<driver, emulated, topic, dev, held, faults>>

(* The commit finds no encoding for the frequency that is stored.          *)
Unencodable(cmd) == Freq \in DOMAIN cmd /\ cmd[Freq] \notin SupportedFreqs

Encode ==
  /\ call.cmds # <<>> /\ Unencodable(Head(call.cmds))
  /\ Abort(doubt, pending)
  /\ UNCHANGED <<driver, emulated, topic, cache, dev, pending, held, faults>>

Transfer ==
  /\ call.cmds # <<>> /\ ~Unencodable(Head(call.cmds))
  /\ \E fate \in Fates(Head(call.cmds)) :
       LET cmd == Head(call.cmds)
       IN  /\ fate # "done" => faults < MaxFaults
           /\ faults' = IF fate = "done" THEN faults ELSE faults + 1
           /\ dev' = IF fate \in {"done", "spoilt"} THEN With(cmd, dev) ELSE dev
           /\ CASE fate = "done"    -> /\ doubt' = Become(DOMAIN cmd, "none")
                                       /\ call' = [call EXCEPT !.cmds = Tail(@)]
                                       /\ UNCHANGED listed
                [] fate = "ignored" -> /\ doubt' = Become({i \in DOMAIN cmd : doubt[i] # "none"},
                                                          "ignored")
                                       /\ call' = [call EXCEPT !.cmds = Tail(@)]
                                       /\ UNCHANGED listed
                [] OTHER            -> Abort(doubt, pending)
  /\ UNCHANGED <<driver, emulated, topic, cache, pending, held>>

(* The driver's init and the emulation are through: the emulation's        *)
(* release, if it has anything to write, comes before the mouse is listed. *)
FinishProbe ==
  /\ call.kind = "probe" /\ call.cmds = <<>> /\ call.cbs = <<>>
  /\ call' = Releasing(pending, cache)
  /\ listed' = (call' = NoCall)
  /\ UNCHANGED <<driver, emulated, topic, cache, dev, doubt, pending, held, faults>>

FinishCommand ==
  /\ call.kind = "command" /\ call.cmds = <<>> /\ call.cbs = <<>>
  /\ call' = Releasing(pending, cache)
  /\ UNCHANGED <<driver, emulated, topic, listed, cache, dev, doubt, pending, held, faults>>

FinishRelease ==
  /\ call.kind = "release" /\ call.cmds = <<>>
  /\ pending' = FALSE
  /\ listed' = TRUE
  /\ call' = NoCall
  /\ UNCHANGED <<driver, emulated, topic, cache, dev, doubt, held, faults>>

(* Faulty variant: what is not pending is not written again.               *)
ReconfigPending ==
  /\ Idle /\ listed
  /\ call' = [NoCall EXCEPT !.kind = "reconfig", !.cmds = IF pending THEN CommitOf(cache) ELSE <<>>]
  /\ UNCHANGED <<driver, emulated, topic, listed, cache, dev, doubt, pending, held, faults>>

(* COMMAND_PRIV_RECONFIGMICE: a forced commit, for a driver that has one.  *)
Reconfig ==
  /\ Idle /\ listed
  /\ call' = [NoCall EXCEPT !.kind = "reconfig", !.cmds = CommitOf(cache)]
  /\ UNCHANGED <<driver, emulated, topic, listed, cache, dev, doubt, pending, held, faults>>

FinishReconfig ==
  /\ call.kind = "reconfig" /\ call.cmds = <<>>
  /\ pending' = (pending /\ ~Defers)
  /\ call' = NoCall
  /\ UNCHANGED <<driver, emulated, topic, listed, cache, dev, doubt, held, faults>>

(* COMMAND_PRIV_CLAIM and COMMAND_PRIV_RELEASE. *)
Hold ==
  /\ Idle /\ listed /\ ~held
  /\ held' = TRUE
  /\ UNCHANGED <<driver, emulated, topic, listed, cache, dev, doubt, pending, call, faults>>

Unhold ==
  /\ Idle /\ held
  /\ held' = FALSE
  /\ call' = IF Defers /\ pending THEN [NoCall EXCEPT !.kind = "release", !.cmds = CommitOf(cache)]
             ELSE NoCall
  /\ UNCHANGED <<driver, emulated, topic, listed, cache, dev, doubt, pending, faults>>

(* The device loses its settings: the transfer of the moment fails.        *)
PowerLoss ==
  /\ faults < MaxFaults
  /\ Idle \/ call.cmds # <<>>
  /\ faults' = faults + 1
  /\ dev' = [i \in Items |-> PowerOn]
  /\ LET dbt == [i \in Items |-> IF doubt[i] = "owed" THEN "owed" ELSE "lost"]
     IN  IF Idle THEN doubt' = dbt /\ UNCHANGED <<listed, call>> ELSE Abort(dbt, pending)
  /\ UNCHANGED <<driver, emulated, topic, cache, pending, held>>

(* The mouse is unplugged, or the daemon stops and leaves it as it is.     *)
Remove ==
  /\ Idle /\ listed
  /\ listed' = FALSE /\ pending' = FALSE /\ held' = FALSE
  /\ doubt' = [i \in Items |-> "unsent"]
  /\ dev' \in {dev, [i \in Items |-> PowerOn]}
  /\ UNCHANGED <<driver, emulated, topic, cache, call, faults>>

Next ==
  \/ Probe \/ FinishProbe
  \/ ProfileCommand \/ SetFreqCommand \/ SetDpiMapping \/ ChangeDpiMapping \/ SetLed
  \/ RunCallback \/ Encode \/ Transfer \/ FinishCommand \/ FinishRelease
  \/ Reconfig \/ FinishReconfig \/ Hold \/ Unhold
  \/ PowerLoss \/ Remove

Spec == Init /\ [][Next]_vars

-----------------------------------------------------------------------------
(* Properties.                                                             *)

(* The types, and with them what a driver must not store: a frequency no   *)
(* at-once driver can encode.                                              *)
TypeOK ==
  /\ driver \in Drivers
  /\ topic \in {"pointer"} \cup LedsOf(driver)
  /\ emulated \in BOOLEAN /\ listed \in BOOLEAN /\ pending \in BOOLEAN /\ held \in BOOLEAN
  /\ cache.freq \in AskedFreqs \cup {500, 1000}
  /\ ~Defers => cache.freq \in SupportedFreqs
  /\ \A l \in Leds : cache.mode[l] \in LedModes
  /\ doubt \in [Items -> {"none", "owed", "told", "swallowed", "ignored", "lost", "unsent"}]
  /\ call.kind \in {"none", "probe", "command", "release", "reconfig"}
  /\ faults \in 0..MaxFaults

(* Between two calls as in the middle of one, the device does what the     *)
(* driver's copy says, in every setting for which there is no reason to    *)
(* doubt it: no callback stores one value and sends another, or sends only *)
(* a part, or leaves to a later call what this one must undo.              *)
DeviceAgrees ==
  \A i \in Items : doubt[i] = "none" => dev[i] \in Follows(cache, i)

(* When razerd waits for its next event and nobody else claims the mouse,  *)
(* no accepted setting is left over: it was sent, or the command that set  *)
(* it failed, or the release's commit failed; and then it is still         *)
(* pending, so that the next release tries again.                          *)
NothingForgotten ==
  \A i \in Items : /\ Idle /\ ~held => doubt[i] # "owed"
                   /\ Defers /\ doubt[i] \in {"owed", "swallowed"} => pending

(* As long as no transfer fails and no power is lost, only one thing keeps *)
(* an accepted setting from the device: a frequency the commit cannot      *)
(* encode; and that is the only setting it keeps back.                     *)
OnlyFreqIsStuck ==
  faults = 0 => \A i \in Items : /\ doubt[i] \notin {"told", "ignored", "lost"}
                                 /\ doubt[i] = "swallowed" => i = Freq /\ ~Encodable(cache)

(* A mouse that is listed was sent every setting it has, or the release at *)
(* the end of its probe failed and what was not sent is still pending.     *)
(* The exceptions are the Essential's effects, and, in a razerd that was   *)
(* started without the profile emulation (-p), all of the Krait and the    *)
(* DeathAdder 2013: their own drivers send nothing.  (mouse_new, the       *)
(* drivers' init, mouse_profemu_commit.)                                   *)
Settable ==
  (IF driver = "Krait" THEN {Res} ELSE {Freq, Res})
    \cup LedsOf(driver) \X (IF Defers THEN {"light"} ELSE Parts)
Unprobed ==
  CASE driver \in {"Krait", "DA2013"} /\ ~emulated -> Items
    [] driver = "Essential"                        -> Leds \X {"mode", "colour"}
    [] OTHER                                       -> {}
ProbeConfigures ==
  listed => \A i \in Settable \ Unprobed : doubt[i] = "unsent" => pending

(* When the forced commit of a reconfiguration has gone through, the       *)
(* device has every setting that the commit writes, whatever was lost      *)
(* before; unless it refused one and the driver did not notice.            *)
ReconfigRestores ==
  [][FinishReconfig =>
       \A i \in WriteItems(CommitOf(cache)) : doubt'[i] \in {"none", "ignored"}]_vars
=============================================================================
