--------------------------- MODULE InitialConfig ---------------------------
(***************************************************************************)
(* What razer.conf says of a mouse, and what librazer makes of it when it  *)
(* has found the mouse: the first section that fits is chosen, and its     *)
(* items go one by one through the setters of the driver.  For the mice of *)
(* ProfileDrivers.                                                         *)
(*                                                                         *)
(* A file is a sequence of sections.  A section's name is a pattern: it is *)
(* represented by the set of mice that it fits.  An item has the number of *)
(* a profile, from 1, or 0 if it names none, and a value.                  *)
(***************************************************************************)
EXTENDS ProfileDrivers

(* The setters by the driver's name. *)
Setter(d, c, cb) ==
  CASE d = "Boomslang"  -> BoomslangCall(c, cb)
    [] d = "Copperhead" -> CopperheadCall(c, cb)
    [] d = "Lachesis"   -> LachesisCall(c, cb)
    [] OTHER            -> SynapseCall(c, cb)

-----------------------------------------------------------------------------
(* The items of the first section that fits, and of those of the same      *)
(* name; none, if the first is disabled.                                   *)
ToApply(file, d) ==
  LET fitting == SelectSeq(file, LAMBDA s : d \in s.fits)
      same    == SelectSeq(file, LAMBDA s : s.fits = fitting[1].fits)
  IN  IF fitting = <<>> THEN <<>>
      ELSE IF fitting[1].disabled THEN <<>>
      ELSE FlattenSeq([k \in DOMAIN same |-> same[k].items])

-----------------------------------------------------------------------------
(* What an item does: it changes something, or nothing, or is an error.    *)
Done(r)    == [error |-> r.err, cache |-> r.cache, owed |-> r.owed]
Ignored(c) == [error |-> FALSE, cache |-> c, owed |-> {}]
Wrong(c)   == [error |-> TRUE,  cache |-> c, owed |-> {}]

(* Faulty variant: profiles counted from 1 here too.                       *)
MeantFromOne(c, it) == IF it.profile = 0 THEN c.active + 1 ELSE it.profile

(* Without a number it is the profile in use. *)
Meant(c, it) == IF it.profile = 0 THEN c.active ELSE it.profile - 1

ProfileItem(d, c, it) ==
  IF it.value \notin 1 .. NrProfiles THEN Wrong(c)
  ELSE Done(Setter(d, c, [op |-> "active", profile |-> it.value - 1]))

(* The mappings of a profile, and of the whole mouse, by their numbers     *)
(* (supported_dpimappings).                                                *)
Own(d, p)     == IF d \in Synapse THEN {10 * p + m : m \in Stages} ELSE Stages
MappingsOf(d) == UNION {Own(d, p) : p \in Profiles}

ResOf(d, c, m) ==
  CASE d \in {"Boomslang", "Copperhead"} -> 400 * (m + 1)
    [] d = "Lachesis"                    -> c.res[0][m]
    [] OTHER                             -> c.res[m \div 10][m % 10]

(* The first mapping with that resolution or, under 100, of that number:   *)
(* whosever it is.                                                         *)
ResItem(d, c, it) ==
  LET p     == Meant(c, it)
      named == {m \in MappingsOf(d) :
                  IF it.value >= 100 THEN ResOf(d, c, m) = it.value ELSE m = it.value}
      found == CHOOSE m \in named : \A other \in named : m <= other
  IN  IF p \notin Profiles \/ it.value < 1 THEN Wrong(c)
      ELSE IF named = {} THEN Ignored(c)
      ELSE Done(Setter(d, c, [op |-> "mapping", profile |-> p, value |-> found]))

(* Synapse profiles have no frequency of their own. *)
FreqItem(d, c, it) ==
  LET p == Meant(c, it)
  IN  IF p \notin Profiles \/ it.value \notin {125, 500, 1000} THEN Wrong(c)
      ELSE IF d \in Synapse THEN Ignored(c)
      ELSE Done(Setter(d, c, [op |-> "freq", profile |-> p, value |-> it.value]))

(* The LEDs of the profile or, where profiles have none, those of the      *)
(* mouse.  None of these drivers lets a LED's mode be set.                 *)
HasLeds(d, it) == d \in {"Boomslang", "Lachesis"} \/ (d \in Synapse /\ it.profile # 0)

LedItem(d, c, it) ==
  IF it.profile \notin 0 .. NrProfiles \/ it.value \notin BOOLEAN THEN Wrong(c)
  ELSE IF ~HasLeds(d, it) THEN Ignored(c)
  ELSE Done(Setter(d, c, [op |-> "led", profile |-> it.profile - 1, value |-> it.value]))

ColourItem(d, c, it) ==
  IF it.profile \notin 0 .. NrProfiles \/ it.value \notin Colours THEN Wrong(c)
  ELSE IF ~HasLeds(d, it) \/ d # "Lachesis5600" THEN Ignored(c)
  ELSE Done(Setter(d, c, [op |-> "colour", profile |-> it.profile - 1, value |-> it.value]))

ModeItem(d, c, it) ==
  IF it.profile \notin 0 .. NrProfiles THEN Wrong(c) ELSE Ignored(c)

ApplyItem(d, c, it) ==
  CASE it.item = "profile" -> ProfileItem(d, c, it)
    [] it.item = "res"     -> ResItem(d, c, it)
    [] it.item = "freq"    -> FreqItem(d, c, it)
    [] it.item = "led"     -> LedItem(d, c, it)
    [] it.item = "color"   -> ColourItem(d, c, it)
    [] it.item = "mode"    -> ModeItem(d, c, it)
    [] OTHER               -> Ignored(c)
=============================================================================
