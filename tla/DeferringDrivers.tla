-------------------------- MODULE DeferringDrivers --------------------------
(***************************************************************************)
(* The simple drivers with a commit callback (Krait, DeathAdder 2013,      *)
(* Taipan, Naga): a setter only changes the driver's copy and marks the    *)
(* commit as pending; the commit writes everything, resolution first, then *)
(* the LEDs, then the frequency.  Their mappings cannot be changed, and    *)
(* their LEDs have no mode and no colour.                                  *)
(***************************************************************************)
EXTENDS DriverTypes

(* An unknown frequency is the fastest; one without an encoding ends the   *)
(* commit.                                                                 *)
Encoded(f)     == IF f = 0 THEN 1000 ELSE f
Encodable(c)   == Encoded(c.freq) \in SupportedFreqs
CommitFreq(c)  == Sets(Freq, Encoded(c.freq))
CommitLed(c, l) == Sets(<<l, "light">>, c.on[l])

(* set_freq stores any value. *)
DeferFreq(c, f) == Deferred([c EXCEPT !.freq = f], {Freq})

(* set_dpimapping: one of the two axes, both, or -EINVAL for the wheel. *)
DeferMapping(c, axis, m) ==
  CASE axis = "wheel" -> Refuse(c)
    [] axis = "all"   -> Deferred([c EXCEPT !.cur = [a \in Dims |-> m]], {Res})
    [] OTHER          -> Deferred([c EXCEPT !.cur[IF axis = "first" THEN "x" ELSE "y"] = m], {Res})

(* Faulty variant: the commit is not marked as pending.                    *)
DeferToggleUnmarked(c, l, on) ==
  [Deferred([c EXCEPT !.on[l] = on], {<<l, "light">>}) EXCEPT !.defer = FALSE]

DeferToggle(c, l, on) == Deferred([c EXCEPT !.on[l] = on], {<<l, "light">>})

DeferCall(c, cb) ==
  CASE cb.op = "freq"    -> DeferFreq(c, cb.freq)
    [] cb.op = "mapping" -> DeferMapping(c, cb.axis, cb.mapping)
    [] cb.op = "toggle"  -> DeferToggle(c, cb.led, cb.on)

DeferExpected(c) ==
  [i \in Items |->
     CASE i = Freq       -> Encoded(c.freq)
       [] i = Res        -> Resolution(c)
       [] i[2] = "light" -> c.on[i[1]]
       [] i[2] = "mode"  -> c.mode[i[1]]
       [] OTHER          -> c.colour[i[1]]]

(* Krait: two resolutions and nothing else; what they are before the first *)
(* commit is the device's affair.                                          *)
KraitFates(cmd) == AllFates
KraitCommit(c)  == <<SetResolution(c)>>
KraitCall(c, cb) ==
  Deferred([c EXCEPT !.cur = [a \in Dims |-> cb.mapping]], {Res})
KraitInit ==
  [cache |-> Defaults(1000, [initial |-> 1600, other |-> 400], "static", "white"), cmds |-> <<>>]

(* DeathAdder 2013: each command is sent three times, and nothing when the *)
(* driver starts but a query for the firmware version.                     *)
DA2013Fates(cmd) == AllFates
DA2013Commit(c) ==
  <<SetResolution(c), CommitLed(c, "scroll"), CommitLed(c, "logo"), CommitFreq(c)>>
DA2013Toggle(c, l, on) == DeferToggle(c, l, on)
DA2013Call(c, cb) ==
  IF cb.op = "toggle" THEN DA2013Toggle(c, cb.led, cb.on) ELSE DeferCall(c, cb)
DA2013Init ==
  [cache |-> Defaults(1000, [initial |-> 1000, other |-> 100], "static", "white"), cmds |-> <<>>]

(* Taipan: writes its defaults when it starts; the firmware version may    *)
(* stay unread.                                                            *)
TaipanFates(cmd) == AllFates
TaipanCommit(c) ==
  <<SetResolution(c), CommitLed(c, "scroll"), CommitLed(c, "logo"), CommitFreq(c)>>
TaipanToggle(c, l, on) == DeferToggle(c, l, on)
TaipanCall(c, cb) ==
  IF cb.op = "toggle" THEN TaipanToggle(c, cb.led, cb.on) ELSE DeferCall(c, cb)
TaipanInit ==
  LET c == Defaults(1000, [initial |-> 1000, other |-> 100], "static", "white")
  IN  [cache |-> c, cmds |-> TaipanCommit(c)]

(* Naga (the 2014 model, which alone has the thumb grid): no mouse without *)
(* a firmware version.                                                     *)
NagaFates(cmd) == AllFates
(* Faulty variant: the frequency goes out first. *)
NagaCommitFreqFirst(c) ==
  <<CommitFreq(c), SetResolution(c), CommitLed(c, "scroll"), CommitLed(c, "logo"),
    CommitLed(c, "thumb")>>

NagaCommit(c) ==
  <<SetResolution(c), CommitLed(c, "scroll"), CommitLed(c, "logo"), CommitLed(c, "thumb"),
    CommitFreq(c)>>
NagaToggle(c, l, on) == DeferToggle(c, l, on)
NagaCall(c, cb) ==
  IF cb.op = "toggle" THEN NagaToggle(c, cb.led, cb.on) ELSE DeferCall(c, cb)
NagaInit ==
  LET c == Defaults(1000, [initial |-> 1000, other |-> 100], "static", "white")
  IN  [cache |-> c, cmds |-> <<Query>> \o NagaCommit(c)]
=============================================================================
