--------------------------- MODULE ProfileDrivers ---------------------------
(***************************************************************************)
(* The drivers of the mice that keep several profiles in memory of their   *)
(* own: Boomslang CE, Copperhead, Lachesis, and the two that speak the     *)
(* Synapse protocol, Imperator and Lachesis 5600.                          *)
(*                                                                         *)
(* The driver's copy (cache) is read from the mouse when it is found.      *)
(* Setters change the copy and mark the commit as pending; the commit      *)
(* writes every item of the mouse's memory from the copy.  Each item is    *)
(* one exchange with the mouse, its read-back included.                    *)
(*                                                                         *)
(* Abstracted: two of a profile's mappings are kept, with one dimension;   *)
(* one LED; and a button map is one value.                                 *)
(***************************************************************************)
EXTENDS Integers, Sequences, SequencesExt, TLC

CONSTANT NrProfiles      \* the code has 5 (bound)
ASSUME ProfilesAssumption == NrProfiles \in Nat \ {0, 1}

Profiles == 0 .. NrProfiles - 1
Stages   == 0 .. 1

Colours  == {"black", "green", "white"}

Synapse == {"Imperator", "Lachesis5600"}

(* The items of the mouse's memory. *)
Active     == <<"active", 0>>
Lights     == <<"lights", 0>>
Mapped     == <<"mapped", 0>>
Global     == <<"global", 0>>
Profile(p) == <<"profile", p>>
Name(p)    == <<"name", p>>

(* One exchange for each profile, and two. *)
Each(op(_)) == [k \in 1 .. NrProfiles |-> op(k - 1)]
EachTwo(one(_), other(_)) ==
  [k \in 1 .. 2 * NrProfiles |-> IF k % 2 = 1 THEN one(k \div 2) ELSE other(k \div 2 - 1)]

(* What a driver does to the mouse, one exchange at a time. *)
Query     == <<"query", 0>>
Read(i)   == <<"read", i>>
Turn(p)   == <<"turn", p>>      \* make the mouse use profile p
Write(i)  == <<"write", i>>

(* A setting that has one value for the whole mouse is kept in each of its *)
(* profiles' entries.                                                      *)
Everywhere(v) == [p \in Profiles |-> v]

(* The copy that a driver starts with; what the reads will fill in is      *)
(* unknown (0), and a mapping stands for none.                             *)
Zeroed ==
  [ active  |-> 0,
    freq    |-> Everywhere(0),
    sel     |-> Everywhere(0),
    res     |-> Everywhere([m \in Stages |-> 0]),
    led     |-> Everywhere(FALSE),
    colour  |-> Everywhere("black"),
    buttons |-> Everywhere("zeroed"),
    name    |-> Everywhere("none") ]

-----------------------------------------------------------------------------
(* Boomslang CE: the frequency and a mapping of fixed resolution per       *)
(* profile, 400 DPI encoded as 4, the next as 3.  What is no frequency is  *)
(* written as 125 Hz.                                                      *)

SlowFreqCode(f)   == CASE f = 1000 -> 1 [] f = 500 -> 2 [] OTHER -> 3
SlowFreqOf(code)  == CASE code = 1 -> 1000 [] code = 2 -> 500 [] code = 3 -> 125

(* The LEDs are not read: they are on. *)
BoomslangBlank == [Zeroed EXCEPT !.freq = Everywhere(1000), !.led = Everywhere(TRUE),
                                 !.buttons = Everywhere("default")]

BoomslangWire(c, i) ==
  CASE i[1] = "active"  -> c.active + 1
    [] i[1] = "lights"  -> c.led[0]
    [] i[1] = "profile" -> [sel |-> 4 - c.sel[i[2]], freq |-> SlowFreqCode(c.freq[i[2]]),
                            buttons |-> c.buttons[i[2]]]

(* The copy after item i was read as v. *)
BoomslangTook(c, i, v) ==
  CASE i[1] = "active"  -> [c EXCEPT !.active = v - 1]
    [] i[1] = "profile" -> [c EXCEPT !.sel[i[2]] = 4 - v.sel, !.freq[i[2]] = SlowFreqOf(v.freq),
                                     !.buttons[i[2]] = v.buttons]

BoomslangReads == <<Read(Active)>> \o Each(LAMBDA p : Read(Profile(p)))

BoomslangCommit ==
  Each(LAMBDA p : Write(Profile(p))) \o <<Write(Active), Write(Lights)>>

(* The error of the command that makes the mouse store an uploaded profile *)
(* is ignored.                                                             *)
BoomslangFates(i) ==
  {"done", "lost", "spoilt"} \cup (IF i[1] = "profile" THEN {"ignored"} ELSE {})

-----------------------------------------------------------------------------
(* Copperhead: the same without LEDs.                                      *)

CopperheadBlank == [Zeroed EXCEPT !.freq = Everywhere(125)]

CopperheadWire(c, i)    == BoomslangWire(c, i)
CopperheadTook(c, i, v) == BoomslangTook(c, i, v)

CopperheadReads == <<Read(Active)>> \o Each(LAMBDA p : Read(Profile(p)))

CopperheadCommit == Each(LAMBDA p : Write(Profile(p))) \o <<Write(Active)>>

CopperheadFates(i) ==
  {"done", "lost", "spoilt"} \cup (IF i[1] = "profile" THEN {"ignored"} ELSE {})

-----------------------------------------------------------------------------
(* Lachesis: five mappings for the whole mouse, whose resolutions are      *)
(* bytes in steps of 125 DPI; what is no frequency is written as 1000 Hz.  *)

(* Faulty variant: 125 Hz has no code.                                     *)
LachesisFreqCodeFast(f) == IF f = 500 THEN 2 ELSE 1

LachesisFreqCode(f) == CASE f = 500 -> 2 [] f = 125 -> 3 [] OTHER -> 1

LachesisDpi(r)    == ((r \div 125) - 1) % 256
LachesisRes(code) == (code + 1) * 125

LachesisBlank == Zeroed

LachesisWire(c, i) ==
  CASE i[1] = "active"  -> c.active + 1
    [] i[1] = "lights"  -> c.led[0]
    [] i[1] = "mapped"  -> [m \in Stages |-> LachesisDpi(c.res[0][m])]
    [] i[1] = "profile" -> [sel |-> c.sel[i[2]] + 1, freq |-> LachesisFreqCode(c.freq[i[2]]),
                            buttons |-> c.buttons[i[2]]]

LachesisTook(c, i, v) ==
  CASE i[1] = "active"  -> [c EXCEPT !.active = v - 1]
    [] i[1] = "lights"  -> [c EXCEPT !.led = Everywhere(v)]
    [] i[1] = "mapped"  -> [c EXCEPT !.res = Everywhere([m \in Stages |-> LachesisRes(v[m])])]
    [] i[1] = "profile" -> [c EXCEPT !.sel[i[2]] = v.sel - 1, !.freq[i[2]] = SlowFreqOf(v.freq),
                                     !.buttons[i[2]] = v.buttons]

(* Faulty variant: the profile in use is asked for after the reading.      *)
LachesisReadsLate ==
  <<Query, Query>> \o EachTwo(LAMBDA p : Turn(p), LAMBDA p : Read(Profile(p)))
  \o <<Read(Active), Write(Active), Read(Lights), Read(Mapped)>>

(* A profile is read while the mouse uses it; then it gets its own again.  *)
LachesisReads ==
  <<Query, Query, Read(Active)>> \o EachTwo(LAMBDA p : Turn(p), LAMBDA p : Read(Profile(p)))
  \o <<Write(Active), Read(Lights), Read(Mapped)>>

LachesisCommit ==
  Each(LAMBDA p : Write(Profile(p))) \o <<Write(Lights), Write(Active), Write(Mapped)>>

(* A profile the mouse refuses ends the commit, and no error is returned.  *)
LachesisFates(i) ==
  {"done", "lost", "spoilt"} \cup (IF i[1] = "profile" THEN {"refused"} ELSE {})

-----------------------------------------------------------------------------
(* Synapse: mappings of its own, LED and colour per profile, and a name;   *)
(* the frequency is the whole mouse's.  The global item repeats what the   *)
(* profile in use has selected.  Resolutions are bytes in steps of 100     *)
(* DPI, times 4.                                                           *)

SynapseFreqCode(f)  == CASE f = 500 -> 2 [] f = 125 -> 8 [] OTHER -> 1
SynapseFreqOf(code) == CASE code = 1 -> 1000 [] code = 2 -> 500 [] OTHER -> 125

SynapseDpi(r)    == (((r \div 100) - 1) * 4) % 256
SynapseRes(code) == ((code \div 4) + 1) * 100

SynapseDpis(c, p) == [k \in 1..2 |-> SynapseDpi(c.res[p][k - 1])]

(* A mapping's number is ten times its profile's and its own. *)
SynapseBlank == [Zeroed EXCEPT !.sel = [p \in Profiles |-> 10 * p]]

SynapseWire(c, i) ==
  LET p == i[2]
  IN  CASE i[1] = "profile" -> [sel |-> (c.sel[p] % 10) + 1, dpis |-> SynapseDpis(c, p),
                                led |-> c.led[p], colour |-> c.colour[p],
                                buttons |-> c.buttons[p]]
        [] i[1] = "name"    -> c.name[p]
        [] i[1] = "global"  -> [active |-> c.active + 1, freq |-> SynapseFreqCode(c.freq[0]),
                                sel |-> (c.sel[c.active] % 10) + 1,
                                dpi |-> SynapseDpis(c, c.active)[(c.sel[c.active] % 10) + 1]]

(* A mouse without coloured LEDs (Imperator) is sent no colours. *)
ImperatorWire(c, i) ==
  IF i[1] = "profile" THEN [SynapseWire(c, i) EXCEPT !.colour = "black"] ELSE SynapseWire(c, i)

(* A mapping that the mouse's profile has not is given 5600 DPI.           *)
SynapseTook(c, i, v) ==
  LET p == i[2]
  IN  CASE i[1] = "global"  -> [c EXCEPT !.active = v.active - 1,
                                         !.freq = Everywhere(SynapseFreqOf(v.freq))]
        [] i[1] = "name"    -> [c EXCEPT !.name[p] = v]
        [] i[1] = "profile" ->
             [c EXCEPT !.sel[p] = 10 * p + v.sel - 1,
                       !.res[p] = [m \in Stages |-> IF m + 1 > Len(v.dpis) THEN 5600
                                                    ELSE SynapseRes(v.dpis[m + 1])],
                       !.led[p] = v.led, !.colour[p] = v.colour, !.buttons[p] = v.buttons]

SynapseReads ==
  <<Query, Read(Global)>> \o Each(LAMBDA p : Read(Name(p)))
  \o Each(LAMBDA p : Read(Profile(p)))

(* Faulty variant: the global item is not written.                         *)
SynapseCommitStale ==
  Each(LAMBDA p : Write(Profile(p))) \o Each(LAMBDA p : Write(Name(p)))

SynapseCommit ==
  Each(LAMBDA p : Write(Profile(p))) \o Each(LAMBDA p : Write(Name(p)))
  \o <<Write(Global)>>

(* Whether the mouse took what it was sent is not looked at. *)
SynapseFates(i) == {"done", "lost", "spoilt", "ignored"}

-----------------------------------------------------------------------------
(* The setters.  A call cb of one names the profile and the new value; it  *)
(* returns the changed copy and the items that the mouse is owed now.      *)

Refused(c)        == [err |-> TRUE,  cache |-> c, owed |-> {}]
Changed(c, items) == [err |-> FALSE, cache |-> c, owed |-> items]

(* The older three drivers store any value. *)
PlainSetting(c, cb) ==
  LET p == cb.profile
  IN  CASE cb.op = "active"  -> Changed([c EXCEPT !.active = p], {Active})
        [] cb.op = "freq"    -> Changed([c EXCEPT !.freq[p] = cb.value], {Profile(p)})
        [] cb.op = "mapping" -> Changed([c EXCEPT !.sel[p] = cb.value], {Profile(p)})
        [] cb.op = "buttons" -> Changed([c EXCEPT !.buttons[p] = cb.value], {Profile(p)})

PlainLed(c, cb) == Changed([c EXCEPT !.led = Everywhere(cb.value)], {Lights})

BoomslangSetting(c, cb) == PlainSetting(c, cb)
BoomslangLed(c, cb)     == PlainLed(c, cb)
BoomslangCall(c, cb)    == IF cb.op = "led" THEN BoomslangLed(c, cb) ELSE BoomslangSetting(c, cb)

CopperheadSetting(c, cb) == PlainSetting(c, cb)
CopperheadCall(c, cb)    == CopperheadSetting(c, cb)

LachesisSetting(c, cb) == PlainSetting(c, cb)
LachesisLed(c, cb)     == PlainLed(c, cb)

(* lachesis_dpimapping_modify: a mapping of the whole mouse, unchecked. *)
LachesisModify(c, cb) ==
  Changed([c EXCEPT !.res = Everywhere([@[0] EXCEPT ![cb.mapping] = cb.value])], {Mapped})

LachesisCall(c, cb) ==
  CASE cb.op = "led"        -> LachesisLed(c, cb)
    [] cb.op = "resolution" -> LachesisModify(c, cb)
    [] OTHER                -> LachesisSetting(c, cb)

SynapseActive(c, cb) == Changed([c EXCEPT !.active = cb.profile], {Global})
SynapseFreq(c, cb)   == Changed([c EXCEPT !.freq = Everywhere(cb.value)], {Global})

(* Faulty variant: any profile's mapping will do.                          *)
SynapseMappingUnmasked(c, cb) ==
  Changed([c EXCEPT !.sel[cb.profile] = cb.value], {Profile(cb.profile), Global})

(* The mapping must be one of the profile's own (profile_mask). *)
SynapseMapping(c, cb) ==
  IF cb.value \div 10 # cb.profile THEN Refused(c)
  ELSE Changed([c EXCEPT !.sel[cb.profile] = cb.value], {Profile(cb.profile), Global})

SynapseModify(c, cb) ==
  LET p == cb.mapping \div 10
  IN  Changed([c EXCEPT !.res[p][cb.mapping % 10] = cb.value], {Profile(p), Global})

SynapseLed(c, cb)     == Changed([c EXCEPT !.led[cb.profile] = cb.value], {Profile(cb.profile)})
SynapseColour(c, cb)  == Changed([c EXCEPT !.colour[cb.profile] = cb.value], {Profile(cb.profile)})
SynapseButtons(c, cb) == Changed([c EXCEPT !.buttons[cb.profile] = cb.value], {Profile(cb.profile)})

(* A name that does not fit is cut, kept all the same, and an error. *)
SynapseName(c, cb) ==
  [Changed([c EXCEPT !.name[cb.profile] = IF cb.value = "long" THEN "cut" ELSE cb.value],
           {Name(cb.profile)}) EXCEPT !.err = (cb.value = "long")]

SynapseCall(c, cb) ==
  CASE cb.op = "active"     -> SynapseActive(c, cb)
    [] cb.op = "freq"       -> SynapseFreq(c, cb)
    [] cb.op = "mapping"    -> SynapseMapping(c, cb)
    [] cb.op = "resolution" -> SynapseModify(c, cb)
    [] cb.op = "led"        -> SynapseLed(c, cb)
    [] cb.op = "colour"     -> SynapseColour(c, cb)
    [] cb.op = "buttons"    -> SynapseButtons(c, cb)
    [] cb.op = "name"       -> SynapseName(c, cb)
=============================================================================
