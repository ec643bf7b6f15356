--------------------------- MODULE AtOnceDrivers ---------------------------
(***************************************************************************)
(* The drivers without a commit callback: each setter changes the driver's *)
(* copy and writes to the device before it returns.                        *)
(*                                                                         *)
(* Nine of them send their commands through hw_chroma_extended.c and       *)
(* differ in stages, limits and LEDs.  Four build packets of their own:    *)
(* the Mamba Tournament Edition and the Diamondback Chroma write a LED's   *)
(* state, mode and colour in one command, the DeathAdder Chroma writes     *)
(* them in three, and the DeathAdder Essential has its own packets for     *)
(* everything but the effects.                                             *)
(***************************************************************************)
EXTENDS DriverTypes

ScrollAndLogo == <<"scroll", "logo">>
LogoOnly      == <<"logo">>

-----------------------------------------------------------------------------
(* The pointer.  All thirteen drivers are alike but for the resolution     *)
(* they take for an unknown one and the highest they accept.               *)

SetFrequency(c) == Sets(Freq, c.freq)

(* Faulty variant: the frequency is not checked.                           *)
SetFreqUnchecked(c, f) ==
  LET n == [c EXCEPT !.freq = IF f = 0 THEN 500 ELSE f] IN Send(n, <<SetFrequency(n)>>)

SetFreq(c, f) ==
  LET freq == IF f = 0 THEN 500 ELSE f       \* RAZER_MOUSE_FREQ_UNKNOWN
      n    == [c EXCEPT !.freq = freq]
  IN  IF freq \notin SupportedFreqs THEN Refuse(c) ELSE Send(n, <<SetFrequency(n)>>)

(* Only the first axis has mappings. *)
SetMapping(c, axis, m) ==
  LET n == [c EXCEPT !.cur = [a \in Dims |-> m]]
  IN  IF axis = "second" THEN Refuse(c) ELSE Send(n, <<SetResolution(n)>>)

(* Faulty variant: a changed resolution is sent before it is stored.       *)
ChangeSentFirst(c, m, dim, v, unknown, max) ==
  LET r == IF v = 0 THEN unknown ELSE v
      n == [c EXCEPT !.res[m][dim] = r]
  IN  IF r < 100 \/ r > max THEN Refuse(c)
      ELSE IF m = c.cur.x THEN Send(n, <<SetResolution(c)>>) ELSE Stored(n)

(* A changed mapping is sent if it is the current one. *)
Change(c, m, dim, v, unknown, max) ==
  LET r == IF v = 0 THEN unknown ELSE v      \* RAZER_MOUSE_RES_UNKNOWN
      n == [c EXCEPT !.res[m][dim] = r]
  IN  IF r < 100 \/ r > max THEN Refuse(c)
      ELSE IF m = c.cur.x THEN Send(n, <<SetResolution(n)>>) ELSE Stored(n)

Pointer(c, cb, unknown, max) ==
  CASE cb.op = "freq"    -> SetFreq(c, cb.freq)
    [] cb.op = "mapping" -> SetMapping(c, cb.axis, cb.mapping)
    [] cb.op = "change"  -> Change(c, cb.mapping, cb.dim, cb.res, unknown, max)

-----------------------------------------------------------------------------
(* The effects of hw_chroma_extended.c.                                    *)

ExtFates == {"lost", "spoilt", "done"}

ExtBrightness(c, l) == Sets(<<l, "light">>, c.on[l])

ExtStatic(c, l) == With(Sets(<<l, "mode">>, "static"), Sets(<<l, "colour">>, c.colour[l]))

(* The effect of the stored mode; one the device has not is sent as static. *)
ExtShown(mode) == IF mode \in {"spectrum", "breathing"} THEN mode ELSE "static"

ExtEffect(c, l) ==
  CASE c.mode[l] = "spectrum"  -> Sets(<<l, "mode">>, "spectrum")
    [] c.mode[l] = "breathing" -> With(Sets(<<l, "mode">>, "breathing"),
                                       Sets(<<l, "colour">>, c.colour[l]))
    [] OTHER                   -> ExtStatic(c, l)

(* A LED that is turned on gets its brightness and then its effect. *)
ExtToggle(c, l, on) ==
  LET n == [c EXCEPT !.on[l] = on]
  IN  Send(n, <<ExtBrightness(n, l)>> \o (IF on THEN <<ExtEffect(n, l)>> ELSE <<>>))

(* The colour goes out as a static effect, and the mode is kept. *)
ExtColour(c, l, v) ==
  LET n == [c EXCEPT !.colour[l] = v] IN Send(n, <<ExtStatic(n, l)>>)

ExtMode(c, l, v) ==
  LET n == [c EXCEPT !.mode[l] = v] IN Send(n, <<ExtEffect(n, l)>>)

ExtLeds(c, cb) ==
  CASE cb.op = "toggle" -> ExtToggle(c, cb.led, cb.on)
    [] cb.op = "mode"   -> ExtMode(c, cb.led, cb.mode)
    [] cb.op = "colour" -> ExtColour(c, cb.led, cb.colour)

(* What the device should show. *)
ExtExpected(c) ==
  [i \in Items |->
     CASE i = Freq          -> c.freq
       [] i = Res           -> Resolution(c)
       [] i[2] = "light"    -> c.on[i[1]]
       [] i[2] = "mode"     -> ExtShown(c.mode[i[1]])
       [] OTHER             -> c.colour[i[1]]]

(* Hand-shake, resolution, frequency, and for each LED brightness and      *)
(* colour.                                                                 *)
ExtInit(initial, other, leds) ==
  LET c == Defaults(500, [initial |-> initial, other |-> other], "static", "white")
      Led(l) == <<ExtBrightness(c, l), ExtStatic(c, l)>>
  IN  [cache |-> c,
       cmds  |-> <<Query, SetResolution(c), SetFrequency(c)>> \o Led(leds[1])
                 \o (IF Len(leds) = 2 THEN Led(leds[2]) ELSE <<>>)]

(* The nine drivers: stages, LEDs, what an unknown resolution becomes and *)
(* the highest one.                                                        *)

ViperInit == ExtInit(1600, 400, ScrollAndLogo)
ViperPointer(c, cb) == Pointer(c, cb, 1600, 20000)
ViperLeds(c, cb) == ExtLeds(c, cb)

BasiliskInit == ExtInit(1600, 400, ScrollAndLogo)
BasiliskPointer(c, cb) == Pointer(c, cb, 1600, 20000)
BasiliskLeds(c, cb) == ExtLeds(c, cb)

MambaWirelessInit == ExtInit(1800, 450, ScrollAndLogo)
MambaWirelessPointer(c, cb) == Pointer(c, cb, 1600, 20000)
MambaWirelessLeds(c, cb) == ExtLeds(c, cb)

LanceheadInit == ExtInit(1800, 400, ScrollAndLogo)
LanceheadPointer(c, cb) == Pointer(c, cb, 1600, 20000)
LanceheadLeds(c, cb) == ExtLeds(c, cb)

NagaV2Init == ExtInit(1600, 400, ScrollAndLogo)
NagaV2Pointer(c, cb) == Pointer(c, cb, 1600, 20000)
NagaV2Leds(c, cb) == ExtLeds(c, cb)

DeathAdderV2Init == ExtInit(1800, 400, ScrollAndLogo)
DeathAdderV2Pointer(c, cb) == Pointer(c, cb, 1800, 20000)
DeathAdderV2Leds(c, cb) == ExtLeds(c, cb)

DeathAdderEliteInit == ExtInit(1800, 400, ScrollAndLogo)
DeathAdderElitePointer(c, cb) == Pointer(c, cb, 1800, 16000)
DeathAdderEliteLeds(c, cb) == ExtLeds(c, cb)

OrochiInit == ExtInit(1800, 450, LogoOnly)
OrochiPointer(c, cb) == Pointer(c, cb, 1800, 8200)
OrochiLeds(c, cb) == ExtLeds(c, cb)

AbyssusInit == ExtInit(800, 400, LogoOnly)
AbyssusPointer(c, cb) == Pointer(c, cb, 800, 7200)
AbyssusLeds(c, cb) == ExtLeds(c, cb)

-----------------------------------------------------------------------------
(* Packets of their own.  A refused command is logged and the call goes on *)
(* as if it had been taken; so does one of which no byte was transferred.  *)

MambaFates(cmd)    == AllFates
DiamondFates(cmd)  == AllFates
DAChromaFates(cmd) == AllFates

(* Hand-shake, resolution, firmware, serial number, frequency. *)
MambaGreeting(c)     == <<Query, SetResolution(c), Query, Query, SetFrequency(c)>>
DiamondGreeting(c)   == MambaGreeting(c)
DAChromaGreeting(c)  == <<Query, SetResolution(c), Query, Query, SetFrequency(c)>>
EssentialGreeting(c) == <<Query, SetResolution(c), Query, Query, SetFrequency(c)>>

-----------------------------------------------------------------------------
(* Mamba Tournament Edition and Diamondback Chroma: one LED, whose state,  *)
(* mode and colour are one packet.  A LED that is off has its mode zeroed. *)

PacketMode(c, l) == IF c.on[l] THEN c.mode[l] ELSE "dark"

MambaPacket(c, l) ==
  With(Sets(<<l, "light">>, c.on[l]),
       With(Sets(<<l, "mode">>, PacketMode(c, l)), Sets(<<l, "colour">>, c.colour[l])))

MambaToggle(c, l, on) == LET n == [c EXCEPT !.on[l] = on] IN Send(n, <<MambaPacket(n, l)>>)

MambaMode(c, l, v) ==
  LET n == [c EXCEPT !.mode[l] = v]
  IN  IF v \notin LedModes THEN Refuse(c) ELSE Send(n, <<MambaPacket(n, l)>>)

(* There is no colour to choose while the LED runs through the spectrum. *)
MambaColour(c, l, v) ==
  LET n == [c EXCEPT !.colour[l] = v]
  IN  IF c.mode[l] = "spectrum" THEN Refuse(c) ELSE Send(n, <<MambaPacket(n, l)>>)

MambaLeds(c, cb) ==
  CASE cb.op = "toggle" -> MambaToggle(c, cb.led, cb.on)
    [] cb.op = "mode"   -> MambaMode(c, cb.led, cb.mode)
    [] cb.op = "colour" -> MambaColour(c, cb.led, cb.colour)

MambaPointer(c, cb) == Pointer(c, cb, 1800, 10000)

MambaInit ==
  LET c == Defaults(500, [initial |-> 1800, other |-> 800], "static", "green")
  IN  [cache |-> c, cmds |-> MambaGreeting(c)
                             \o <<MambaPacket(c, "logo"), MambaPacket(c, "logo")>>]

(* The Diamondback's file is the Mamba's with other names and limits. *)

DiamondPacket(c, l)     == MambaPacket(c, l)
DiamondToggle(c, l, on) == MambaToggle(c, l, on)
DiamondMode(c, l, v)    == MambaMode(c, l, v)
DiamondColour(c, l, v)  == MambaColour(c, l, v)

DiamondLeds(c, cb) ==
  CASE cb.op = "toggle" -> DiamondToggle(c, cb.led, cb.on)
    [] cb.op = "mode"   -> DiamondMode(c, cb.led, cb.mode)
    [] cb.op = "colour" -> DiamondColour(c, cb.led, cb.colour)

DiamondPointer(c, cb) == Pointer(c, cb, 1800, 16000)

DiamondInit ==
  LET c == Defaults(500, [initial |-> 1800, other |-> 800], "static", "green")
  IN  [cache |-> c, cmds |-> DiamondGreeting(c)
                             \o <<DiamondPacket(c, "logo"), DiamondPacket(c, "logo")>>]

PacketExpected(c) ==
  [ExtExpected(c) EXCEPT ![<<"logo", "mode">>] = PacketMode(c, "logo")]

-----------------------------------------------------------------------------
(* DeathAdder Chroma: a command for each of state, mode and colour.        *)

DAChromaState(c, l) == Sets(<<l, "light">>, c.on[l])
DAChromaShow(c, l)  == Sets(<<l, "mode">>, c.mode[l])
DAChromaTint(c, l)  == Sets(<<l, "colour">>, c.colour[l])

DAChromaToggle(c, l, on) == LET n == [c EXCEPT !.on[l] = on] IN Send(n, <<DAChromaState(n, l)>>)

DAChromaMode(c, l, v) ==
  LET n == [c EXCEPT !.mode[l] = v]
  IN  IF v \notin {"static", "spectrum", "breathing"} THEN Refuse(c)
      ELSE Send(n, <<DAChromaShow(n, l)>>)

DAChromaColour(c, l, v) ==
  LET n == [c EXCEPT !.colour[l] = v]
  IN  IF c.mode[l] = "spectrum" THEN Refuse(c) ELSE Send(n, <<DAChromaTint(n, l)>>)

DAChromaLeds(c, cb) ==
  CASE cb.op = "toggle" -> DAChromaToggle(c, cb.led, cb.on)
    [] cb.op = "mode"   -> DAChromaMode(c, cb.led, cb.mode)
    [] cb.op = "colour" -> DAChromaColour(c, cb.led, cb.colour)

DAChromaPointer(c, cb) == Pointer(c, cb, 1800, 10000)

DAChromaInit ==
  LET c == Defaults(500, [initial |-> 1800, other |-> 800], "spectrum", "green")
      Led(l) == <<DAChromaState(c, l), DAChromaShow(c, l), DAChromaTint(c, l)>>
  IN  [cache |-> c, cmds |-> DAChromaGreeting(c) \o Led("scroll") \o Led("logo")]

-----------------------------------------------------------------------------
(* DeathAdder Essential: brightness in its own packets, the effects        *)
(* through hw_chroma_extended.c, and none of them when it starts.          *)

EssentialFates(cmd) ==
  IF \E l \in Leds : <<l, "mode">> \in DOMAIN cmd THEN ExtFates ELSE AllFates

EssentialState(c, l) == Sets(<<l, "light">>, c.on[l])

EssentialToggle(c, l, on) == LET n == [c EXCEPT !.on[l] = on] IN Send(n, <<EssentialState(n, l)>>)

EssentialLeds(c, cb) ==
  CASE cb.op = "toggle" -> EssentialToggle(c, cb.led, cb.on)
    [] cb.op = "mode"   -> ExtMode(c, cb.led, cb.mode)
    [] cb.op = "colour" -> ExtColour(c, cb.led, cb.colour)

EssentialPointer(c, cb) == Pointer(c, cb, 1800, 6400)

EssentialInit ==
  LET c == Defaults(500, [initial |-> 1800, other |-> 800], "static", "white")
  IN  [cache |-> c, cmds |-> EssentialGreeting(c)
                             \o <<EssentialState(c, "scroll"), EssentialState(c, "logo")>>]
=============================================================================
