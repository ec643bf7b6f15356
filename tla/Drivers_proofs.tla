--------------------------- MODULE Drivers_proofs ---------------------------
(***************************************************************************)
(* What holds of Drivers for every number of faults, and whatever the      *)
(* frequencies, resolutions, modes and colours that clients ask for.       *)
(***************************************************************************)
EXTENDS Drivers, TLAPS, SequenceTheorems

Colours == AskedColours \cup {"white", "green"}

Choices == [Dims -> Mappings]
Stages  == [Mappings -> [Dims -> Nat]]
Lights  == [Leds -> BOOLEAN]
Modes   == [Leds -> LedModes]
Tints   == [Leds -> Colours]

Caches ==
  [ freq : AskedFreqs \cup {500, 1000}, cur : Choices, res : Stages,
    on : Lights, mode : Modes, colour : Tints ]

(* A driver's copy.  The at-once drivers keep one mapping for both axes;   *)
(* were it not so, a changed resolution might not be sent.                 *)
Sane(c) ==
  /\ c \in Caches
  /\ ~Defers => c.freq \in SupportedFreqs /\ c.cur["x"] = c.cur["y"]

(* The commands that make the device follow copy c. *)
CommandsFor(c) ==
  UNION {{f \in [D -> UNION {Follows(c, i) : i \in Items}] : \A i \in D : f[i] \in Follows(c, i)}
         : D \in SUBSET Items}

(* The callbacks that a command or a probe may have. *)
PointerCallbacks ==
  [op : {"freq"}, freq : IF driver = "Krait" THEN {} ELSE AskedFreqs \cup {500, 1000}]
    \cup [op : {"mapping"}, axis : {"first", "second", "wheel", "all"}, mapping : Mappings]
    \cup (IF Defers THEN {}
          ELSE [op : {"change"}, mapping : Mappings, dim : Dims, res : AskedRes])

LedCallbacks ==
  [op : {"toggle"}, led : {topic}, on : BOOLEAN]
    \cup (IF Defers THEN {}
          ELSE [op : {"mode"}, led : {topic}, mode : AskedModes]
                 \cup [op : {"colour"}, led : {topic}, colour : AskedColours])

Callbacks == PointerCallbacks \cup (IF topic = "pointer" THEN {} ELSE LedCallbacks)

Pointing(cb) == cb.op \in {"freq", "mapping", "change"}

(* The items that a commit writes. *)
Committable ==
  CASE driver = "Krait"              -> {Res}
    [] driver \in {"DA2013", "Taipan"} -> {Freq, Res} \cup {"scroll", "logo"} \X {"light"}
    [] driver = "Naga"               -> {Freq, Res} \cup Leds \X {"light"}
    [] OTHER                         -> {}

(* What a callback's result r must be, from copy c, so that nothing that   *)
(* the device was told becomes wrong unnoticed, and nothing that it is now *)
(* owed is forgotten.                                                      *)
Sound(c, r) ==
  ~r.err =>
    /\ Sane(r.cache)
    /\ r.cmds \in Seq(CommandsFor(r.cache))
    /\ \A i \in Items : i \notin r.owed => Follows(c, i) \subseteq Follows(r.cache, i)
    /\ IF Defers THEN r.defer /\ r.cmds = <<>> /\ r.owed \subseteq Committable
                 ELSE r.owed \subseteq WriteItems(r.cmds)

-----------------------------------------------------------------------------
(* Commands.                                                               *)

LEMMA CommandsForIs ==
  ASSUME NEW c, NEW D \in SUBSET Items, NEW f,
         f = [i \in D |-> f[i]], \A i \in D : f[i] \in Follows(c, i)
  PROVE  f \in CommandsFor(c)
  <1>1. f \in [D -> UNION {Follows(c, i) : i \in Items}]
    OBVIOUS
  <1> QED BY <1>1 DEF CommandsFor

LEMMA CommandParts ==
  ASSUME NEW c, NEW f \in CommandsFor(c)
  PROVE  /\ f = [i \in DOMAIN f |-> f[i]] /\ DOMAIN f \subseteq Items
         /\ \A i \in DOMAIN f : f[i] \in Follows(c, i)
  BY DEF CommandsFor

LEMMA SetsCommand ==
  ASSUME NEW c, NEW i \in Items, NEW v \in Follows(c, i)
  PROVE  Sets(i, v) \in CommandsFor(c)
  BY CommandsForIs DEF Sets

LEMMA WithCommand ==
  ASSUME NEW c, NEW f \in CommandsFor(c), NEW g \in CommandsFor(c)
  PROVE  With(f, g) \in CommandsFor(c)
  <1> DEFINE h == With(f, g)
             D == DOMAIN f \cup DOMAIN g
  <1>1. /\ DOMAIN f \subseteq Items /\ DOMAIN g \subseteq Items
        /\ \A i \in DOMAIN f : f[i] \in Follows(c, i)
        /\ \A i \in DOMAIN g : g[i] \in Follows(c, i)
    BY CommandParts
  <1>2. h = [i \in D |-> h[i]] /\ \A i \in D : h[i] \in Follows(c, i)
    BY <1>1 DEF With
  <1>3. D \in SUBSET Items
    BY <1>1
  <1> HIDE DEF h, D
  <1>4. h \in CommandsFor(c)
    BY <1>2, <1>3, CommandsForIs
  <1> QED BY <1>4 DEF h

LEMMA QueryCommand == ASSUME NEW c PROVE Query \in CommandsFor(c)
  <1>1. Query = [i \in {} |-> Query[i]] /\ \A i \in {} : Query[i] \in Follows(c, i)
    BY DEF Query
  <1> QED BY <1>1, CommandsForIs

(* What the items of a device that follows copy c are. *)
LEMMA FollowsIs ==
  ASSUME NEW c, ~Defers
  PROVE  /\ Follows(c, Freq) = {c.freq} /\ Follows(c, Res) = {Resolution(c)}
         /\ \A l \in Leds : /\ Follows(c, <<l, "light">>) = {c.on[l]}
                            /\ Follows(c, <<l, "colour">>) = {c.colour[l]}
                            /\ Follows(c, <<l, "mode">>) =
                                 CASE driver \in PacketDrivers ->
                                        {IF l = "logo" THEN PacketMode(c, l) ELSE ExtShown(c.mode[l])}
                                   [] driver = "DAChroma" -> {c.mode[l]}
                                   [] OTHER -> {ExtShown(c.mode[l]), "static"}
  <1>1. driver \in PacketDrivers => driver # "DAChroma"
    BY DEF PacketDrivers
  <1>2. /\ Freq \in Items /\ Res \in Items /\ Leds \X Parts \subseteq Items
        /\ Freq # Res /\ \A l \in Leds, p \in Parts : <<l, p>> # Freq /\ <<l, p>> # Res
    BY DEF Items, Freq, Res, Leds, Parts
  <1>3. /\ ExtExpected(c)[Freq] = c.freq /\ ExtExpected(c)[Res] = Resolution(c)
        /\ \A l \in Leds : /\ ExtExpected(c)[<<l, "light">>] = c.on[l]
                           /\ ExtExpected(c)[<<l, "mode">>] = ExtShown(c.mode[l])
                           /\ ExtExpected(c)[<<l, "colour">>] = c.colour[l]
    <2>1. ExtExpected(c)[Freq] = c.freq
      BY <1>2 DEF ExtExpected, Freq, Res
    <2>2. ExtExpected(c)[Res] = Resolution(c)
      BY <1>2 DEF ExtExpected, Freq, Res
    <2>3. ASSUME NEW l \in Leds, NEW p \in Parts
          PROVE  ExtExpected(c)[<<l, p>>] = CASE p = "light" -> c.on[l]
                                              [] p = "mode"  -> ExtShown(c.mode[l])
                                              [] OTHER       -> c.colour[l]
      BY <1>2 DEF ExtExpected, Freq, Res
    <2> QED BY <2>1, <2>2, <2>3 DEF Parts
  <1>4. /\ PacketExpected(c)[Freq] = c.freq /\ PacketExpected(c)[Res] = Resolution(c)
        /\ \A l \in Leds : /\ PacketExpected(c)[<<l, "light">>] = c.on[l]
                           /\ PacketExpected(c)[<<l, "mode">>] =
                                IF l = "logo" THEN PacketMode(c, l) ELSE ExtShown(c.mode[l])
                           /\ PacketExpected(c)[<<l, "colour">>] = c.colour[l]
    <2>1. \A i \in Items : PacketExpected(c)[i] = IF i = <<"logo", "mode">> THEN PacketMode(c, "logo")
                                                  ELSE ExtExpected(c)[i]
      BY DEF PacketExpected, ExtExpected
    <2>2. Freq # <<"logo", "mode">> /\ Res # <<"logo", "mode">>
      BY DEF Freq, Res
    <2> QED BY <1>2, <1>3, <2>1, <2>2 DEF Parts
  <1> QED BY <1>1, <1>2, <1>3, <1>4 DEF Follows, Freq, Res

LEMMA FollowsDeferred ==
  ASSUME NEW c, Defers
  PROVE  /\ Follows(c, Freq) = {Encoded(c.freq)} /\ Follows(c, Res) = {Resolution(c)}
         /\ \A l \in Leds : /\ Follows(c, <<l, "light">>) = {c.on[l]}
                            /\ Follows(c, <<l, "mode">>) = {c.mode[l]}
                            /\ Follows(c, <<l, "colour">>) = {c.colour[l]}
  <1>1. Freq \in Items /\ Res \in Items /\ Leds \X Parts \subseteq Items
    BY DEF Items
  <1>2. DeferExpected(c)[Freq] = Encoded(c.freq) /\ DeferExpected(c)[Res] = Resolution(c)
    BY <1>1 DEF DeferExpected, Freq, Res
  <1>3. ASSUME NEW l \in Leds, NEW p \in Parts
        PROVE  DeferExpected(c)[<<l, p>>] = CASE p = "light" -> c.on[l]
                                              [] p = "mode"  -> c.mode[l]
                                              [] OTHER       -> c.colour[l]
    BY <1>1 DEF DeferExpected, Freq, Res, Leds
  <1>4. \A i \in Items : Follows(c, i) = {DeferExpected(c)[i]}
    BY DEF Follows, Defers, DeferringDrivers, PacketDrivers
  <1> QED BY <1>1, <1>2, <1>3, <1>4 DEF Parts

(* The same, an item at a time. *)
LEMMA FollowsFreq ==
  ASSUME NEW c
  PROVE  Follows(c, Freq) = {IF Defers THEN Encoded(c.freq) ELSE c.freq}
  <1>1. CASE Defers
    BY <1>1, FollowsDeferred
  <1>2. CASE ~Defers
    BY <1>2, FollowsIs
  <1> QED BY <1>1, <1>2

LEMMA FollowsRes ==
  ASSUME NEW c
  PROVE  Follows(c, Res) = {Resolution(c)}
  <1>1. CASE Defers
    BY <1>1, FollowsDeferred
  <1>2. CASE ~Defers
    BY <1>2, FollowsIs
  <1> QED BY <1>1, <1>2

LEMMA FollowsLed ==
  ASSUME NEW c, NEW l \in Leds
  PROVE  /\ Follows(c, <<l, "light">>) = {c.on[l]}
         /\ Follows(c, <<l, "colour">>) = {c.colour[l]}
  <1>1. CASE Defers
    BY <1>1, FollowsDeferred
  <1>2. CASE ~Defers
    BY <1>2, FollowsIs
  <1> QED BY <1>1, <1>2

LEMMA FollowsMode ==
  ASSUME NEW c, NEW l \in Leds
  PROVE  Follows(c, <<l, "mode">>) =
           IF Defers THEN {c.mode[l]}
           ELSE IF driver \in PacketDrivers
                THEN {IF l = "logo" THEN PacketMode(c, l) ELSE ExtShown(c.mode[l])}
                ELSE IF driver = "DAChroma" THEN {c.mode[l]} ELSE {ExtShown(c.mode[l]), "static"}
  <1>1. CASE Defers
    BY <1>1, FollowsDeferred
  <1>2. CASE ~Defers
    <2>1. driver \in PacketDrivers => driver # "DAChroma"
      BY DEF PacketDrivers
    <2> QED BY <1>2, <2>1, FollowsIs
  <1> QED BY <1>1, <1>2

-----------------------------------------------------------------------------
(* Results of callbacks.                                                   *)

LEMMA RefuseSound == ASSUME NEW c PROVE Sound(c, Refuse(c))
  BY DEF Sound, Refuse

(* A changed copy n of which one or two commands are sent. *)
LEMMA SendSound ==
  ASSUME ~Defers, NEW c, NEW n, Sane(n), NEW cmds \in Seq(CommandsFor(n)),
         \A i \in Items : i \notin WriteItems(cmds) => Follows(c, i) \subseteq Follows(n, i)
  PROVE  Sound(c, Send(n, cmds))
  BY DEF Sound, Send, WriteItems

LEMMA OneOf == ASSUME NEW f PROVE WriteItems(<<f>>) = DOMAIN f
  BY DEF WriteItems

LEMMA ItemsAre ==
  /\ Freq \in Items /\ Res \in Items
  /\ \A l \in Leds, p \in Parts : <<l, p>> \in Items /\ <<l, p>> # Freq /\ <<l, p>> # Res
  /\ \A i \in Items : i = Freq \/ i = Res \/ \E l \in Leds, p \in Parts : i = <<l, p>>
  BY DEF Items, Freq, Res, Leds, Parts

(* The fields of a copy. *)
LEMMA CacheParts ==
  ASSUME NEW c \in Caches
  PROVE  /\ c.freq \in AskedFreqs \cup {500, 1000}
         /\ c.cur \in [Dims -> Mappings] /\ c.res \in [Mappings -> [Dims -> Nat]]
         /\ c.on \in [Leds -> BOOLEAN] /\ c.mode \in [Leds -> LedModes]
         /\ c.colour \in [Leds -> Colours]
  BY DEF Caches, Choices, Stages, Lights, Modes, Tints

LEMMA SameLight ==
  ASSUME NEW c, NEW n, NEW l \in Leds, c.on[l] = n.on[l]
  PROVE  Follows(c, <<l, "light">>) = Follows(n, <<l, "light">>)
  <1>1. Follows(c, <<l, "light">>) = {c.on[l]} /\ Follows(n, <<l, "light">>) = {n.on[l]}
    BY FollowsLed
  <1> QED BY <1>1

LEMMA SameColour ==
  ASSUME NEW c, NEW n, NEW l \in Leds, c.colour[l] = n.colour[l]
  PROVE  Follows(c, <<l, "colour">>) = Follows(n, <<l, "colour">>)
  <1>1. /\ Follows(c, <<l, "colour">>) = {c.colour[l]}
        /\ Follows(n, <<l, "colour">>) = {n.colour[l]}
    BY FollowsLed
  <1> QED BY <1>1

(* A LED's mode also depends, for two drivers, on whether it is on. *)
LEMMA SameMode ==
  ASSUME NEW c, NEW n, NEW l \in Leds, c.mode[l] = n.mode[l],
         driver \in PacketDrivers => c.on[l] = n.on[l]
  PROVE  Follows(c, <<l, "mode">>) = Follows(n, <<l, "mode">>)
  <1> DEFINE Shows(d) ==
        IF Defers THEN {d.mode[l]}
        ELSE IF driver \in PacketDrivers
             THEN {IF l = "logo" THEN PacketMode(d, l) ELSE ExtShown(d.mode[l])}
             ELSE IF driver = "DAChroma" THEN {d.mode[l]} ELSE {ExtShown(d.mode[l]), "static"}
  <1>1. Follows(c, <<l, "mode">>) = Shows(c) /\ Follows(n, <<l, "mode">>) = Shows(n)
    BY FollowsMode
  <1>2. driver \in PacketDrivers => PacketMode(c, l) = PacketMode(n, l)
    BY DEF PacketMode
  <1>3. Shows(c) = Shows(n)
    BY <1>2
  <1> HIDE DEF Shows
  <1> QED BY <1>1, <1>3

LEMMA SameRes ==
  ASSUME NEW c, NEW n, Resolution(c) = Resolution(n)
  PROVE  Follows(c, Res) = Follows(n, Res)
  BY FollowsRes

LEMMA SameFreq ==
  ASSUME NEW c, NEW n, c.freq = n.freq
  PROVE  Follows(c, Freq) = Follows(n, Freq)
  BY FollowsFreq

LEMMA ByItem ==
  ASSUME NEW S, Freq \in S, Res \in S,
         \A l \in Leds : <<l, "light">> \in S /\ <<l, "mode">> \in S /\ <<l, "colour">> \in S
  PROVE  Items \subseteq S
  <1>1. ASSUME NEW i \in Items PROVE i \in S
    <2>1. CASE i = Freq \/ i = Res
      BY <2>1
    <2>2. CASE \E l \in Leds, p \in Parts : i = <<l, p>>
      <3>1. PICK l \in Leds, p \in Parts : i = <<l, p>>
        BY <2>2
      <3>2. <<l, "light">> \in S /\ <<l, "mode">> \in S /\ <<l, "colour">> \in S
        OBVIOUS
      <3>3. p = "light" \/ p = "mode" \/ p = "colour"
        BY DEF Parts
      <3> QED BY <3>1, <3>2, <3>3
    <2> QED BY <2>1, <2>2, ItemsAre
  <1> QED BY <1>1

LEMMA LedItems ==
  ASSUME NEW l \in Leds
  PROVE  <<l, "light">> \in Items /\ <<l, "mode">> \in Items /\ <<l, "colour">> \in Items
  BY ItemsAre DEF Parts

(* From copy c to copy n, only the items in X change. *)
Only(c, n, X) == \A i \in Items \ X : Follows(c, i) = Follows(n, i)

LEMMA OnlyIs ==
  ASSUME NEW c, NEW n, NEW X,
         Freq \in X \/ c.freq = n.freq,
         Res \in X \/ Resolution(c) = Resolution(n),
         \A l \in Leds : /\ <<l, "light">> \in X \/ c.on[l] = n.on[l]
                         /\ <<l, "mode">> \in X \/ /\ c.mode[l] = n.mode[l]
                                                   /\ driver \in PacketDrivers => c.on[l] = n.on[l]
                         /\ <<l, "colour">> \in X \/ c.colour[l] = n.colour[l]
  PROVE  Only(c, n, X)
  <1> DEFINE S == {i \in Items : i \in X \/ Follows(c, i) = Follows(n, i)}
  <1>1. Freq \in S
    BY SameFreq, ItemsAre
  <1>2. Res \in S
    BY SameRes, ItemsAre
  <1>3. ASSUME NEW l \in Leds
        PROVE  <<l, "light">> \in S /\ <<l, "mode">> \in S /\ <<l, "colour">> \in S
    <2>0. <<l, "light">> \in Items /\ <<l, "mode">> \in Items /\ <<l, "colour">> \in Items
      BY LedItems
    <2>1. <<l, "light">> \in S
      <3>1. CASE <<l, "light">> \in X
        BY <3>1, <2>0
      <3>2. CASE c.on[l] = n.on[l]
        BY <3>2, SameLight, <2>0
      <3> QED BY <3>1, <3>2
    <2>2. <<l, "mode">> \in S
      <3>1. CASE <<l, "mode">> \in X
        BY <3>1, <2>0
      <3>2. CASE c.mode[l] = n.mode[l] /\ (driver \in PacketDrivers => c.on[l] = n.on[l])
        BY <3>2, SameMode, <2>0
      <3> QED BY <3>1, <3>2
    <2>3. <<l, "colour">> \in S
      <3>1. CASE <<l, "colour">> \in X
        BY <3>1, <2>0
      <3>2. CASE c.colour[l] = n.colour[l]
        BY <3>2, SameColour, <2>0
      <3> QED BY <3>1, <3>2
    <2> QED BY <2>1, <2>2, <2>3
  <1> HIDE DEF S
  <1>4. Items \subseteq S
    BY <1>1, <1>2, <1>3, ByItem
  <1> QED BY <1>4 DEF S, Only

(* Copies that differ in one field. *)
LEMMA FreqChanged ==
  ASSUME NEW c, Sane(c), NEW f \in AskedFreqs \cup {500, 1000}, ~Defers => f \in SupportedFreqs,
         NEW n, n = [c EXCEPT !.freq = f]
  PROVE  Sane(n) /\ n.freq = f /\ Only(c, n, {Freq})
  <1>1. /\ n \in Caches /\ n.freq = f
        /\ n.cur = c.cur /\ n.res = c.res /\ n.on = c.on /\ n.mode = c.mode /\ n.colour = c.colour
    BY DEF Sane, Caches
  <1>2. Sane(n)
    BY <1>1 DEF Sane
  <1>3. Resolution(c) = Resolution(n)
    BY <1>1 DEF Resolution
  <1>4. Only(c, n, {Freq})
    BY <1>1, <1>3, OnlyIs
  <1> QED BY <1>1, <1>2, <1>4

LEMMA MappingChanged ==
  ASSUME NEW c, Sane(c), NEW cur \in [Dims -> Mappings], ~Defers => cur["x"] = cur["y"],
         NEW n, n = [c EXCEPT !.cur = cur]
  PROVE  Sane(n) /\ Only(c, n, {Res})
  <1>1. /\ n \in Caches /\ n.freq = c.freq
        /\ n.cur = cur /\ n.res = c.res /\ n.on = c.on /\ n.mode = c.mode /\ n.colour = c.colour
    <2>1. cur \in Choices
      BY DEF Choices
    <2> QED BY <2>1 DEF Sane, Caches
  <1>2. Sane(n)
    BY <1>1 DEF Sane
  <1>4. Only(c, n, {Res})
    BY <1>1, OnlyIs
  <1> QED BY <1>1, <1>2, <1>4

LEMMA NewStages ==
  ASSUME NEW c \in Caches, NEW res \in Stages
  PROVE  [c EXCEPT !.res = res] \in Caches
  BY DEF Caches

LEMMA StageChanged ==
  ASSUME NEW c, Sane(c), NEW m \in Mappings, NEW d \in Dims, NEW r \in Nat,
         NEW n, n = [c EXCEPT !.res[m][d] = r]
  PROVE  /\ Sane(n) /\ Only(c, n, {Res})
         /\ ~Defers /\ m # c.cur["x"] => Only(c, n, {})
  <1>0. c \in Caches /\ c.res \in [Mappings -> [Dims -> Nat]]
    BY CacheParts DEF Sane
  <1>1. n.res = [c.res EXCEPT ![m][d] = r]
    BY <1>0 DEF Caches
  <1>2. n.res \in [Mappings -> [Dims -> Nat]] /\ \A k \in Mappings : k # m => n.res[k] = c.res[k]
    BY <1>0, <1>1
  <1>3. /\ n.freq = c.freq /\ n.cur = c.cur /\ n.on = c.on /\ n.mode = c.mode
        /\ n.colour = c.colour
    BY <1>0 DEF Caches
  <1>4. n = [c EXCEPT !.res = n.res]
    BY <1>0, <1>1 DEF Caches
  <1>5. n \in Caches
    <2>1. n.res \in Stages
      BY <1>2 DEF Stages
    <2>2. [c EXCEPT !.res = n.res] \in Caches
      BY <1>0, <2>1, NewStages
    <2> QED BY <1>4, <2>2
  <1>6. Sane(n)
    BY <1>3, <1>5 DEF Sane
  <1>7. Only(c, n, {Res})
    BY <1>3, OnlyIs
  <1>8. ASSUME ~Defers, m # c.cur["x"]
        PROVE  Only(c, n, {})
    <2>1. c.cur \in [Dims -> Mappings] /\ \A a \in Dims : c.cur[a] = c.cur["x"]
      BY <1>0, <1>8, CacheParts DEF Sane, Dims
    <2>2. Resolution(c) = Resolution(n)
      BY <1>2, <1>3, <1>8, <2>1 DEF Resolution
    <2> QED BY <1>3, <2>2, OnlyIs
  <1> QED BY <1>6, <1>7, <1>8

LEMMA LightChanged ==
  ASSUME NEW c, Sane(c), NEW l \in Leds, NEW v \in BOOLEAN,
         NEW n, n = [c EXCEPT !.on[l] = v]
  PROVE  /\ Sane(n) /\ Only(c, n, {<<l, "light">>, <<l, "mode">>})
         /\ driver \notin PacketDrivers => Only(c, n, {<<l, "light">>})
  <1>0. c \in Caches /\ c.on \in [Leds -> BOOLEAN]
    BY CacheParts DEF Sane
  <1>1. n.on = [c.on EXCEPT ![l] = v] /\ n = [c EXCEPT !.on = n.on]
    BY <1>0 DEF Caches
  <1>2. n.on \in [Leds -> BOOLEAN] /\ \A k \in Leds : k # l => c.on[k] = n.on[k]
    BY <1>0, <1>1
  <1>3. /\ n \in Caches /\ n.freq = c.freq
        /\ n.cur = c.cur /\ n.res = c.res /\ n.mode = c.mode /\ n.colour = c.colour
    <2>1. n.on \in Lights
      BY <1>2 DEF Lights
    <2> QED BY <1>0, <1>1, <2>1 DEF Caches
  <1>4. Sane(n)
    BY <1>3 DEF Sane
  <1>5. Resolution(c) = Resolution(n)
    BY <1>3 DEF Resolution
  <1>6. Only(c, n, {<<l, "light">>, <<l, "mode">>})
    BY <1>2, <1>3, <1>5, OnlyIs
  <1>7. driver \notin PacketDrivers => Only(c, n, {<<l, "light">>})
    BY <1>2, <1>3, <1>5, OnlyIs
  <1> QED BY <1>4, <1>6, <1>7

LEMMA ModeChanged ==
  ASSUME NEW c, Sane(c), NEW l \in Leds, NEW v \in LedModes,
         NEW n, n = [c EXCEPT !.mode[l] = v]
  PROVE  Sane(n) /\ Only(c, n, {<<l, "mode">>})
  <1>0. c \in Caches /\ c.mode \in [Leds -> LedModes]
    BY CacheParts DEF Sane
  <1>1. n.mode = [c.mode EXCEPT ![l] = v] /\ n = [c EXCEPT !.mode = n.mode]
    BY <1>0 DEF Caches
  <1>2. n.mode \in [Leds -> LedModes] /\ \A k \in Leds : k # l => c.mode[k] = n.mode[k]
    BY <1>0, <1>1
  <1>3. /\ n \in Caches /\ n.freq = c.freq
        /\ n.cur = c.cur /\ n.res = c.res /\ n.on = c.on /\ n.colour = c.colour
    <2>1. n.mode \in Modes
      BY <1>2 DEF Modes
    <2> QED BY <1>0, <1>1, <2>1 DEF Caches
  <1>4. Sane(n)
    BY <1>3 DEF Sane
  <1>5. Resolution(c) = Resolution(n)
    BY <1>3 DEF Resolution
  <1>6. Only(c, n, {<<l, "mode">>})
    BY <1>2, <1>3, <1>5, OnlyIs
  <1> QED BY <1>4, <1>6

LEMMA ColourChanged ==
  ASSUME NEW c, Sane(c), NEW l \in Leds, NEW v \in Colours,
         NEW n, n = [c EXCEPT !.colour[l] = v]
  PROVE  Sane(n) /\ Only(c, n, {<<l, "colour">>})
  <1>0. c \in Caches /\ c.colour \in [Leds -> Colours]
    BY CacheParts DEF Sane
  <1>1. n.colour = [c.colour EXCEPT ![l] = v] /\ n = [c EXCEPT !.colour = n.colour]
    BY <1>0 DEF Caches
  <1>2. n.colour \in [Leds -> Colours] /\ \A k \in Leds : k # l => c.colour[k] = n.colour[k]
    BY <1>0, <1>1
  <1>3. /\ n \in Caches /\ n.freq = c.freq
        /\ n.cur = c.cur /\ n.res = c.res /\ n.on = c.on /\ n.mode = c.mode
    <2>1. n.colour \in Tints
      BY <1>2 DEF Tints
    <2> QED BY <1>0, <1>1, <2>1 DEF Caches
  <1>4. Sane(n)
    BY <1>3 DEF Sane
  <1>5. Resolution(c) = Resolution(n)
    BY <1>3 DEF Resolution
  <1>6. Only(c, n, {<<l, "colour">>})
    BY <1>2, <1>3, <1>5, OnlyIs
  <1> QED BY <1>4, <1>6

-----------------------------------------------------------------------------
(* The callbacks of the drivers that write at once.                        *)

LEMMA OnlySound ==
  ASSUME ~Defers, NEW c, NEW n, NEW X, Sane(n), Only(c, n, X),
         NEW cmds \in Seq(CommandsFor(n)), X \subseteq WriteItems(cmds)
  PROVE  Sound(c, Send(n, cmds))
  <1>1. \A i \in Items : i \notin WriteItems(cmds) => Follows(c, i) \subseteq Follows(n, i)
    BY DEF Only
  <1> QED BY <1>1, SendSound

LEMMA StoredSound ==
  ASSUME ~Defers, NEW c, NEW n, Sane(n), Only(c, n, {})
  PROVE  Sound(c, Stored(n))
  BY EmptySeq DEF Sound, Stored, Only

LEMMA OneCommand ==
  ASSUME NEW S, NEW f \in S
  PROVE  <<f>> \in Seq(S)
  OBVIOUS

LEMMA OneThenOthers ==
  ASSUME NEW S, NEW f \in S, NEW t \in Seq(S)
  PROVE  <<f>> \o t \in Seq(S) /\ DOMAIN f \subseteq WriteItems(<<f>> \o t)
  <1> DEFINE s == <<f>>
  <1>1. s \in Seq(S) /\ Len(s) = 1 /\ s[1] = f
    OBVIOUS
  <1> HIDE DEF s
  <1>2. /\ s \o t \in Seq(S) /\ Len(s \o t) = 1 + Len(t) /\ (s \o t)[1] = f
    BY <1>1, ConcatProperties, LenProperties
  <1>3. 1 \in DOMAIN (s \o t)
    BY <1>2, LenProperties
  <1>4. DOMAIN f \subseteq WriteItems(s \o t)
    BY <1>2, <1>3 DEF WriteItems
  <1> QED BY <1>2, <1>4 DEF s

(* Each command of one item. *)
LEMMA FrequencyCommand ==
  ASSUME NEW c, ~Defers
  PROVE  SetFrequency(c) \in CommandsFor(c) /\ DOMAIN SetFrequency(c) = {Freq}
  <1>1. Freq \in Items /\ c.freq \in Follows(c, Freq)
    BY FollowsFreq, ItemsAre
  <1>2. Sets(Freq, c.freq) \in CommandsFor(c)
    BY <1>1, SetsCommand
  <1> QED BY <1>2 DEF SetFrequency, Sets

LEMMA ResolutionCommand ==
  ASSUME NEW c
  PROVE  SetResolution(c) \in CommandsFor(c) /\ DOMAIN SetResolution(c) = {Res}
  <1>1. Res \in Items /\ Resolution(c) \in Follows(c, Res)
    BY FollowsRes, ItemsAre
  <1>2. Sets(Res, Resolution(c)) \in CommandsFor(c)
    BY <1>1, SetsCommand
  <1> QED BY <1>2 DEF SetResolution, Sets

LEMMA LightCommand ==
  ASSUME NEW c, NEW l \in Leds
  PROVE  /\ Sets(<<l, "light">>, c.on[l]) \in CommandsFor(c)
         /\ DOMAIN Sets(<<l, "light">>, c.on[l]) = {<<l, "light">>}
  <1>1. <<l, "light">> \in Items /\ c.on[l] \in Follows(c, <<l, "light">>)
    BY FollowsLed, LedItems
  <1>2. Sets(<<l, "light">>, c.on[l]) \in CommandsFor(c)
    BY <1>1, SetsCommand
  <1> QED BY <1>2 DEF Sets

LEMMA TintCommand ==
  ASSUME NEW c, NEW l \in Leds
  PROVE  /\ Sets(<<l, "colour">>, c.colour[l]) \in CommandsFor(c)
         /\ DOMAIN Sets(<<l, "colour">>, c.colour[l]) = {<<l, "colour">>}
  <1>1. <<l, "colour">> \in Items /\ c.colour[l] \in Follows(c, <<l, "colour">>)
    BY FollowsLed, LedItems
  <1>2. Sets(<<l, "colour">>, c.colour[l]) \in CommandsFor(c)
    BY <1>1, SetsCommand
  <1> QED BY <1>2 DEF Sets

LEMMA ShowCommand ==
  ASSUME NEW c, NEW l \in Leds, NEW v \in Follows(c, <<l, "mode">>)
  PROVE  /\ Sets(<<l, "mode">>, v) \in CommandsFor(c)
         /\ DOMAIN Sets(<<l, "mode">>, v) = {<<l, "mode">>}
  <1>1. <<l, "mode">> \in Items
    BY LedItems
  <1>2. Sets(<<l, "mode">>, v) \in CommandsFor(c)
    BY <1>1, SetsCommand
  <1> QED BY <1>2 DEF Sets

LEMMA WithDomain == ASSUME NEW f, NEW g PROVE DOMAIN With(f, g) = DOMAIN f \cup DOMAIN g
  BY DEF With

(* What a callback's arguments are. *)
LEMMA PointerCallback ==
  ASSUME NEW cb \in Callbacks, Pointing(cb)
  PROVE  \/ driver # "Krait" /\ cb.op = "freq" /\ cb.freq \in AskedFreqs \cup {500, 1000}
         \/ cb.op = "mapping" /\ cb.mapping \in Mappings
                              /\ cb.axis \in {"first", "second", "wheel", "all"}
         \/ ~Defers /\ cb.op = "change" /\ cb.mapping \in Mappings /\ cb.dim \in Dims
                                        /\ cb.res \in AskedRes
  <1>1. cb \in PointerCallbacks
    BY DEF Callbacks, LedCallbacks, Pointing
  <1> QED BY <1>1 DEF PointerCallbacks

LEMMA LedCallback ==
  ASSUME NEW cb \in Callbacks, ~Pointing(cb)
  PROVE  /\ topic # "pointer" /\ cb.led = topic
         /\ \/ cb.op = "toggle" /\ cb.on \in BOOLEAN
            \/ ~Defers /\ cb.op = "mode" /\ cb.mode \in LedModes
            \/ ~Defers /\ cb.op = "colour" /\ cb.colour \in Colours
  <1>1. topic # "pointer" /\ cb \in LedCallbacks
    BY DEF Callbacks, PointerCallbacks, Pointing
  <1> QED BY <1>1, DriversAssumption DEF LedCallbacks, Colours

LEMMA SetFreqSound ==
  ASSUME ~Defers, NEW c, Sane(c), NEW f \in AskedFreqs \cup {500, 1000}
  PROVE  Sound(c, SetFreq(c, f))
  <1> DEFINE freq == IF f = 0 THEN 500 ELSE f
             n    == [c EXCEPT !.freq = freq]
  <1>1. CASE freq \notin SupportedFreqs
    BY <1>1, RefuseSound DEF SetFreq
  <1>2. CASE freq \in SupportedFreqs
    <2>1. freq \in AskedFreqs \cup {500, 1000}
      OBVIOUS
    <2> HIDE DEF freq
    <2>2. Sane(n) /\ Only(c, n, {Freq})
      BY <1>2, <2>1, FreqChanged
    <2> HIDE DEF n
    <2>3. SetFrequency(n) \in CommandsFor(n) /\ DOMAIN SetFrequency(n) = {Freq}
      BY FrequencyCommand
    <2>4. <<SetFrequency(n)>> \in Seq(CommandsFor(n)) /\ WriteItems(<<SetFrequency(n)>>) = {Freq}
      BY <2>3, OneCommand, OneOf
    <2>5. Sound(c, Send(n, <<SetFrequency(n)>>))
      BY <2>2, <2>4, OnlySound
    <2>6. SetFreq(c, f) = Send(n, <<SetFrequency(n)>>)
      BY <1>2 DEF SetFreq, n, freq
    <2> QED BY <2>5, <2>6
  <1> QED BY <1>1, <1>2

LEMMA SendsResolution ==
  ASSUME ~Defers, NEW c, NEW n, Sane(n), Only(c, n, {Res})
  PROVE  Sound(c, Send(n, <<SetResolution(n)>>))
  <1>1. SetResolution(n) \in CommandsFor(n) /\ DOMAIN SetResolution(n) = {Res}
    BY ResolutionCommand
  <1>2. <<SetResolution(n)>> \in Seq(CommandsFor(n)) /\ WriteItems(<<SetResolution(n)>>) = {Res}
    BY <1>1, OneCommand, OneOf
  <1> QED BY <1>2, OnlySound

LEMMA SetMappingSound ==
  ASSUME ~Defers, NEW c, Sane(c), NEW axis, NEW m \in Mappings
  PROVE  Sound(c, SetMapping(c, axis, m))
  <1> DEFINE cur == [a \in Dims |-> m]
             n   == [c EXCEPT !.cur = cur]
  <1>1. cur \in [Dims -> Mappings] /\ cur["x"] = cur["y"]
    BY DEF Dims
  <1>2. SetMapping(c, axis, m) = IF axis = "second" THEN Refuse(c) ELSE Send(n, <<SetResolution(n)>>)
    BY DEF SetMapping
  <1> HIDE DEF cur
  <1>3. Sane(n) /\ Only(c, n, {Res})
    BY <1>1, MappingChanged
  <1> HIDE DEF n
  <1> QED BY <1>2, <1>3, SendsResolution, RefuseSound

LEMMA ChangeSound ==
  ASSUME ~Defers, NEW c, Sane(c), NEW m \in Mappings, NEW d \in Dims, NEW v \in AskedRes,
         NEW unknown \in Nat, NEW max
  PROVE  Sound(c, Change(c, m, d, v, unknown, max))
  <1> DEFINE r == IF v = 0 THEN unknown ELSE v
             n == [c EXCEPT !.res[m][d] = r]
  <1>1. r \in Nat
    BY DriversAssumption
  <1>2. \/ Change(c, m, d, v, unknown, max) = Refuse(c)
        \/ Change(c, m, d, v, unknown, max) = Send(n, <<SetResolution(n)>>)
        \/ m # c.cur["x"] /\ Change(c, m, d, v, unknown, max) = Stored(n)
    BY DEF Change
  <1> HIDE DEF r
  <1>3. Sane(n) /\ Only(c, n, {Res}) /\ (m # c.cur["x"] => Only(c, n, {}))
    BY <1>1, StageChanged
  <1> HIDE DEF n
  <1> QED BY <1>2, <1>3, SendsResolution, RefuseSound, StoredSound

LEMMA PointerSound ==
  ASSUME ~Defers, NEW cb \in Callbacks, Pointing(cb), NEW c, Sane(c),
         NEW unknown \in Nat, NEW max
  PROVE  Sound(c, Pointer(c, cb, unknown, max))
  BY PointerCallback, SetFreqSound, SetMappingSound, ChangeSound DEF Pointer

(* The effects of hw_chroma_extended.c. *)
Extended == ~Defers /\ driver \notin PacketDrivers /\ driver # "DAChroma"

LEMMA ExtendedMode ==
  ASSUME Extended, NEW c, NEW l \in Leds
  PROVE  Follows(c, <<l, "mode">>) = {ExtShown(c.mode[l]), "static"}
  BY FollowsMode DEF Extended

LEMMA StaticCommand ==
  ASSUME Extended, NEW c, NEW l \in Leds
  PROVE  /\ ExtStatic(c, l) \in CommandsFor(c)
         /\ DOMAIN ExtStatic(c, l) = {<<l, "mode">>, <<l, "colour">>}
  <1> DEFINE f == Sets(<<l, "mode">>, "static")
             g == Sets(<<l, "colour">>, c.colour[l])
  <1>1. "static" \in Follows(c, <<l, "mode">>)
    BY ExtendedMode
  <1>2. f \in CommandsFor(c) /\ DOMAIN f = {<<l, "mode">>}
    BY <1>1, ShowCommand
  <1>3. g \in CommandsFor(c) /\ DOMAIN g = {<<l, "colour">>}
    BY TintCommand
  <1>4. ExtStatic(c, l) = With(f, g)
    BY DEF ExtStatic
  <1> HIDE DEF f, g
  <1>5. With(f, g) \in CommandsFor(c)
    BY <1>2, <1>3, WithCommand
  <1>6. DOMAIN With(f, g) = DOMAIN f \cup DOMAIN g
    BY WithDomain
  <1> QED BY <1>2, <1>3, <1>4, <1>5, <1>6

LEMMA EffectCommand ==
  ASSUME Extended, NEW c, NEW l \in Leds
  PROVE  ExtEffect(c, l) \in CommandsFor(c) /\ <<l, "mode">> \in DOMAIN ExtEffect(c, l)
  <1>1. CASE c.mode[l] = "spectrum"
    <2>1. "spectrum" \in Follows(c, <<l, "mode">>)
      BY <1>1, ExtendedMode DEF ExtShown
    <2>2. ExtEffect(c, l) = Sets(<<l, "mode">>, "spectrum")
      BY <1>1 DEF ExtEffect
    <2> QED BY <2>1, <2>2, ShowCommand
  <1>2. CASE c.mode[l] = "breathing"
    <2> DEFINE f == Sets(<<l, "mode">>, "breathing")
               g == Sets(<<l, "colour">>, c.colour[l])
    <2>1. "breathing" \in Follows(c, <<l, "mode">>)
      BY <1>2, ExtendedMode DEF ExtShown
    <2>2. f \in CommandsFor(c) /\ DOMAIN f = {<<l, "mode">>}
      BY <2>1, ShowCommand
    <2>3. g \in CommandsFor(c)
      BY TintCommand
    <2>4. ExtEffect(c, l) = With(f, g)
      BY <1>2 DEF ExtEffect
    <2> HIDE DEF f, g
    <2>5. With(f, g) \in CommandsFor(c)
      BY <2>2, <2>3, WithCommand
    <2>6. DOMAIN With(f, g) = DOMAIN f \cup DOMAIN g
      BY WithDomain
    <2> QED BY <2>2, <2>4, <2>5, <2>6
  <1>3. CASE c.mode[l] \notin {"spectrum", "breathing"}
    <2>1. ExtEffect(c, l) = ExtStatic(c, l)
      BY <1>3 DEF ExtEffect
    <2> QED BY <2>1, StaticCommand
  <1> QED BY <1>1, <1>2, <1>3

LEMMA ExtToggleSound ==
  ASSUME Extended, NEW c, Sane(c), NEW l \in Leds, NEW on \in BOOLEAN
  PROVE  Sound(c, ExtToggle(c, l, on))
  <1> DEFINE n == [c EXCEPT !.on[l] = on]
             f == ExtBrightness(n, l)
             g == ExtEffect(n, l)
  <1>1. Sane(n) /\ Only(c, n, {<<l, "light">>})
    BY LightChanged DEF Extended
  <1>2. ExtToggle(c, l, on) = Send(n, <<f>> \o (IF on THEN <<g>> ELSE <<>>))
    BY DEF ExtToggle
  <1> HIDE DEF n
  <1>3. f \in CommandsFor(n) /\ DOMAIN f = {<<l, "light">>}
    BY LightCommand DEF ExtBrightness
  <1>4. g \in CommandsFor(n)
    BY EffectCommand
  <1> HIDE DEF f, g
  <1> DEFINE t == IF on THEN <<g>> ELSE <<>>
  <1>5. t \in Seq(CommandsFor(n))
    BY <1>4, OneCommand, EmptySeq
  <1> HIDE DEF t
  <1>6. <<f>> \o t \in Seq(CommandsFor(n)) /\ {<<l, "light">>} \subseteq WriteItems(<<f>> \o t)
    BY <1>3, <1>5, OneThenOthers
  <1>7. ExtToggle(c, l, on) = Send(n, <<f>> \o t)
    BY <1>2 DEF t
  <1> QED BY <1>1, <1>6, <1>7, OnlySound DEF Extended

LEMMA ExtModeSound ==
  ASSUME Extended, NEW c, Sane(c), NEW l \in Leds, NEW v \in LedModes
  PROVE  Sound(c, ExtMode(c, l, v))
  <1> DEFINE n == [c EXCEPT !.mode[l] = v]
             g == ExtEffect(n, l)
  <1>1. Sane(n) /\ Only(c, n, {<<l, "mode">>})
    BY ModeChanged
  <1>2. ExtMode(c, l, v) = Send(n, <<g>>)
    BY DEF ExtMode
  <1> HIDE DEF n
  <1>3. g \in CommandsFor(n) /\ <<l, "mode">> \in DOMAIN g
    BY EffectCommand
  <1> HIDE DEF g
  <1>4. <<g>> \in Seq(CommandsFor(n)) /\ {<<l, "mode">>} \subseteq WriteItems(<<g>>)
    BY <1>3, OneCommand, OneOf
  <1> QED BY <1>1, <1>2, <1>4, OnlySound DEF Extended

LEMMA ExtColourSound ==
  ASSUME Extended, NEW c, Sane(c), NEW l \in Leds, NEW v \in Colours
  PROVE  Sound(c, ExtColour(c, l, v))
  <1> DEFINE n == [c EXCEPT !.colour[l] = v]
             g == ExtStatic(n, l)
  <1>1. Sane(n) /\ Only(c, n, {<<l, "colour">>})
    BY ColourChanged
  <1>2. ExtColour(c, l, v) = Send(n, <<g>>)
    BY DEF ExtColour
  <1> HIDE DEF n
  <1>3. g \in CommandsFor(n) /\ <<l, "colour">> \in DOMAIN g
    BY StaticCommand
  <1> HIDE DEF g
  <1>4. <<g>> \in Seq(CommandsFor(n)) /\ {<<l, "colour">>} \subseteq WriteItems(<<g>>)
    BY <1>3, OneCommand, OneOf
  <1> QED BY <1>1, <1>2, <1>4, OnlySound DEF Extended

(* The LED that a behaviour's callbacks change is one the driver has. *)
LEMMA TopicIsLed ==
  ASSUME topic \in {"pointer"} \cup LedsOf(driver), topic # "pointer"
  PROVE  topic \in Leds /\ (driver \in PacketDrivers => topic = "logo")
  BY DEF LedsOf, Leds, PacketDrivers

LEMMA ExtLedsSound ==
  ASSUME Extended, topic \in Leds, NEW cb \in Callbacks, ~Pointing(cb), NEW c, Sane(c)
  PROVE  Sound(c, ExtLeds(c, cb))
  BY LedCallback, ExtToggleSound, ExtModeSound, ExtColourSound DEF ExtLeds

LEMMA EssentialSound ==
  ASSUME Extended, topic \in Leds, NEW cb \in Callbacks, ~Pointing(cb), NEW c, Sane(c)
  PROVE  Sound(c, EssentialLeds(c, cb))
  <1>1. ASSUME NEW l \in Leds, NEW on \in BOOLEAN
        PROVE  Sound(c, EssentialToggle(c, l, on))
    <2> DEFINE n == [c EXCEPT !.on[l] = on]
               f == EssentialState(n, l)
    <2>1. Sane(n) /\ Only(c, n, {<<l, "light">>})
      BY LightChanged DEF Extended
    <2>2. EssentialToggle(c, l, on) = Send(n, <<f>>)
      BY DEF EssentialToggle
    <2> HIDE DEF n
    <2>3. f \in CommandsFor(n) /\ DOMAIN f = {<<l, "light">>}
      BY LightCommand DEF EssentialState
    <2> HIDE DEF f
    <2>4. <<f>> \in Seq(CommandsFor(n)) /\ {<<l, "light">>} \subseteq WriteItems(<<f>>)
      BY <2>3, OneCommand, OneOf
    <2> QED BY <2>1, <2>2, <2>4, OnlySound DEF Extended
  <1> QED BY <1>1, LedCallback, ExtModeSound, ExtColourSound DEF EssentialLeds

(* The Mamba Tournament Edition and the Diamondback Chroma: one packet for *)
(* all of a LED.                                                           *)
LEMMA PacketCommand ==
  ASSUME ~Defers, driver \in PacketDrivers, NEW c
  PROVE  /\ MambaPacket(c, "logo") \in CommandsFor(c)
         /\ DOMAIN MambaPacket(c, "logo") =
              {<<"logo", "light">>, <<"logo", "mode">>, <<"logo", "colour">>}
  <1> DEFINE f == Sets(<<"logo", "light">>, c.on["logo"])
             g == Sets(<<"logo", "mode">>, PacketMode(c, "logo"))
             h == Sets(<<"logo", "colour">>, c.colour["logo"])
  <1>0. "logo" \in Leds
    BY DEF Leds
  <1>1. f \in CommandsFor(c) /\ DOMAIN f = {<<"logo", "light">>}
    BY <1>0, LightCommand
  <1>2. g \in CommandsFor(c) /\ DOMAIN g = {<<"logo", "mode">>}
    <2>1. PacketMode(c, "logo") \in Follows(c, <<"logo", "mode">>)
      BY <1>0, FollowsMode
    <2> QED BY <1>0, <2>1, ShowCommand
  <1>3. h \in CommandsFor(c) /\ DOMAIN h = {<<"logo", "colour">>}
    BY <1>0, TintCommand
  <1>4. MambaPacket(c, "logo") = With(f, With(g, h))
    BY DEF MambaPacket
  <1> HIDE DEF f, g, h
  <1>5. With(g, h) \in CommandsFor(c) /\ DOMAIN With(g, h) = DOMAIN g \cup DOMAIN h
    BY <1>2, <1>3, WithCommand, WithDomain
  <1>6. With(f, With(g, h)) \in CommandsFor(c)
    BY <1>1, <1>5, WithCommand
  <1>7. DOMAIN With(f, With(g, h)) = DOMAIN f \cup DOMAIN With(g, h)
    BY WithDomain
  <1> QED BY <1>1, <1>2, <1>3, <1>4, <1>5, <1>6, <1>7

LEMMA SendsPacket ==
  ASSUME ~Defers, driver \in PacketDrivers, NEW c, NEW n, NEW X, Sane(n), Only(c, n, X),
         X \subseteq {<<"logo", "light">>, <<"logo", "mode">>, <<"logo", "colour">>}
  PROVE  Sound(c, Send(n, <<MambaPacket(n, "logo")>>))
  <1> DEFINE f == MambaPacket(n, "logo")
  <1>1. f \in CommandsFor(n) /\ X \subseteq DOMAIN f
    BY PacketCommand
  <1> HIDE DEF f
  <1>2. <<f>> \in Seq(CommandsFor(n)) /\ X \subseteq WriteItems(<<f>>)
    BY <1>1, OneCommand, OneOf
  <1>3. Sound(c, Send(n, <<f>>))
    BY <1>2, OnlySound
  <1> QED BY <1>3 DEF f

LEMMA MambaLedsSound ==
  ASSUME ~Defers, driver \in PacketDrivers, topic = "logo", NEW cb \in Callbacks,
         ~Pointing(cb), NEW c, Sane(c)
  PROVE  Sound(c, MambaLeds(c, cb))
  <1>0. "logo" \in Leds
    BY DEF Leds
  <1>1. ASSUME NEW on \in BOOLEAN PROVE Sound(c, MambaToggle(c, "logo", on))
    <2> DEFINE n == [c EXCEPT !.on["logo"] = on]
    <2>1. Sane(n) /\ Only(c, n, {<<"logo", "light">>, <<"logo", "mode">>})
      BY <1>0, LightChanged
    <2>2. MambaToggle(c, "logo", on) = Send(n, <<MambaPacket(n, "logo")>>)
      BY DEF MambaToggle
    <2> HIDE DEF n
    <2> QED BY <2>1, <2>2, SendsPacket
  <1>2. ASSUME NEW v \in LedModes PROVE Sound(c, MambaMode(c, "logo", v))
    <2> DEFINE n == [c EXCEPT !.mode["logo"] = v]
    <2>1. Sane(n) /\ Only(c, n, {<<"logo", "mode">>})
      BY <1>0, ModeChanged
    <2>2. MambaMode(c, "logo", v) = Send(n, <<MambaPacket(n, "logo")>>)
      BY DEF MambaMode
    <2> HIDE DEF n
    <2> QED BY <2>1, <2>2, SendsPacket
  <1>3. ASSUME NEW v \in Colours PROVE Sound(c, MambaColour(c, "logo", v))
    <2> DEFINE n == [c EXCEPT !.colour["logo"] = v]
    <2>1. Sane(n) /\ Only(c, n, {<<"logo", "colour">>})
      BY <1>0, ColourChanged
    <2>2. \/ MambaColour(c, "logo", v) = Refuse(c)
          \/ MambaColour(c, "logo", v) = Send(n, <<MambaPacket(n, "logo")>>)
      BY DEF MambaColour
    <2> HIDE DEF n
    <2> QED BY <2>1, <2>2, SendsPacket, RefuseSound
  <1>4. /\ cb.led = "logo"
        /\ \/ cb.op = "toggle" /\ cb.on \in BOOLEAN
           \/ cb.op = "mode" /\ cb.mode \in LedModes
           \/ cb.op = "colour" /\ cb.colour \in Colours
    BY LedCallback
  <1> QED BY <1>1, <1>2, <1>3, <1>4 DEF MambaLeds

LEMMA DiamondLedsAre == \A c, cb : DiamondLeds(c, cb) = MambaLeds(c, cb)
  BY DEF DiamondLeds, MambaLeds, DiamondToggle, DiamondMode, DiamondColour

(* The DeathAdder Chroma: a command for each part of a LED. *)
LEMMA DAChromaShows ==
  ASSUME ~Defers, driver = "DAChroma", NEW c, NEW l \in Leds
  PROVE  Follows(c, <<l, "mode">>) = {c.mode[l]}
  BY FollowsMode DEF PacketDrivers

LEMMA SendsOne ==
  ASSUME ~Defers, NEW c, NEW n, NEW i, Sane(n), Only(c, n, {i}), NEW f \in CommandsFor(n), i \in DOMAIN f
  PROVE  Sound(c, Send(n, <<f>>))
  <1>1. <<f>> \in Seq(CommandsFor(n)) /\ {i} \subseteq WriteItems(<<f>>)
    BY OneCommand, OneOf
  <1> QED BY <1>1, OnlySound

LEMMA DAChromaLedsSound ==
  ASSUME ~Defers, driver = "DAChroma", topic \in Leds,
         NEW cb \in Callbacks, ~Pointing(cb), NEW c, Sane(c)
  PROVE  Sound(c, DAChromaLeds(c, cb))
  <1>1. ASSUME NEW l \in Leds, NEW on \in BOOLEAN PROVE Sound(c, DAChromaToggle(c, l, on))
    <2> DEFINE n == [c EXCEPT !.on[l] = on]
    <2>1. Sane(n) /\ Only(c, n, {<<l, "light">>})
      BY LightChanged DEF PacketDrivers
    <2>2. DAChromaToggle(c, l, on) = Send(n, <<DAChromaState(n, l)>>)
      BY DEF DAChromaToggle
    <2> HIDE DEF n
    <2>3. DAChromaState(n, l) \in CommandsFor(n) /\ <<l, "light">> \in DOMAIN DAChromaState(n, l)
      BY LightCommand DEF DAChromaState
    <2> QED BY <2>1, <2>2, <2>3, SendsOne
  <1>2. ASSUME NEW l \in Leds, NEW v \in LedModes PROVE Sound(c, DAChromaMode(c, l, v))
    <2> DEFINE n == [c EXCEPT !.mode[l] = v]
    <2>1. Sane(n) /\ Only(c, n, {<<l, "mode">>})
      BY ModeChanged
    <2>2. \/ DAChromaMode(c, l, v) = Refuse(c)
          \/ DAChromaMode(c, l, v) = Send(n, <<DAChromaShow(n, l)>>)
      BY DEF DAChromaMode
    <2> HIDE DEF n
    <2>3. n.mode[l] \in Follows(n, <<l, "mode">>)
      BY DAChromaShows
    <2>4. /\ Sets(<<l, "mode">>, n.mode[l]) \in CommandsFor(n)
          /\ DOMAIN Sets(<<l, "mode">>, n.mode[l]) = {<<l, "mode">>}
      BY <2>3, ShowCommand
    <2>5. DAChromaShow(n, l) \in CommandsFor(n) /\ <<l, "mode">> \in DOMAIN DAChromaShow(n, l)
      BY <2>4 DEF DAChromaShow
    <2> QED BY <2>1, <2>2, <2>5, SendsOne, RefuseSound
  <1>3. ASSUME NEW l \in Leds, NEW v \in Colours PROVE Sound(c, DAChromaColour(c, l, v))
    <2> DEFINE n == [c EXCEPT !.colour[l] = v]
    <2>1. Sane(n) /\ Only(c, n, {<<l, "colour">>})
      BY ColourChanged
    <2>2. \/ DAChromaColour(c, l, v) = Refuse(c)
          \/ DAChromaColour(c, l, v) = Send(n, <<DAChromaTint(n, l)>>)
      BY DEF DAChromaColour
    <2> HIDE DEF n
    <2>3. DAChromaTint(n, l) \in CommandsFor(n) /\ <<l, "colour">> \in DOMAIN DAChromaTint(n, l)
      BY TintCommand DEF DAChromaTint
    <2> QED BY <2>1, <2>2, <2>3, SendsOne, RefuseSound
  <1> QED BY <1>1, <1>2, <1>3, LedCallback DEF DAChromaLeds

-----------------------------------------------------------------------------
(* The callbacks of the drivers that defer.                                *)

LEMMA DeferredSound ==
  ASSUME Defers, NEW c, NEW n, NEW X, Sane(n), Only(c, n, X), X \subseteq Committable
  PROVE  Sound(c, Deferred(n, X))
  BY EmptySeq DEF Sound, Deferred, Only

LEMMA DeferFreqSound ==
  ASSUME Defers, driver # "Krait", NEW c, Sane(c),
         NEW f \in AskedFreqs \cup {500, 1000}
  PROVE  Sound(c, DeferFreq(c, f))
  <1> DEFINE n == [c EXCEPT !.freq = f]
  <1>1. Sane(n) /\ Only(c, n, {Freq})
    BY FreqChanged
  <1>2. DeferFreq(c, f) = Deferred(n, {Freq})
    BY DEF DeferFreq
  <1>3. {Freq} \subseteq Committable
    BY DEF Committable, Defers, DeferringDrivers
  <1> HIDE DEF n
  <1> QED BY <1>1, <1>2, <1>3, DeferredSound

LEMMA DeferCurSound ==
  ASSUME Defers, NEW c, Sane(c), NEW cur \in [Dims -> Mappings]
  PROVE  Sound(c, Deferred([c EXCEPT !.cur = cur], {Res}))
  <1> DEFINE n == [c EXCEPT !.cur = cur]
  <1>1. Sane(n) /\ Only(c, n, {Res})
    BY MappingChanged
  <1>3. {Res} \subseteq Committable
    BY DEF Committable, Defers, DeferringDrivers
  <1> HIDE DEF n
  <1>2. Sound(c, Deferred(n, {Res}))
    BY <1>1, <1>3, DeferredSound
  <1> QED BY <1>2 DEF n

LEMMA DeferMappingSound ==
  ASSUME Defers, NEW c, Sane(c), NEW axis, NEW m \in Mappings
  PROVE  Sound(c, DeferMapping(c, axis, m))
  <1>1. CASE axis = "wheel"
    BY <1>1, RefuseSound DEF DeferMapping
  <1>2. CASE axis = "all"
    <2>1. DeferMapping(c, axis, m) = Deferred([c EXCEPT !.cur = [a \in Dims |-> m]], {Res})
      BY <1>2 DEF DeferMapping
    <2> QED BY <2>1, DeferCurSound
  <1>3. CASE axis \notin {"wheel", "all"}
    <2> DEFINE a   == IF axis = "first" THEN "x" ELSE "y"
               cur == [c.cur EXCEPT ![a] = m]
    <2>1. c.cur \in [Dims -> Mappings]
      BY CacheParts DEF Sane
    <2>2. cur \in [Dims -> Mappings]
      BY <2>1
    <2>3. DeferMapping(c, axis, m) = Deferred([c EXCEPT !.cur[a] = m], {Res})
      BY <1>3 DEF DeferMapping
    <2>4. [c EXCEPT !.cur[a] = m] = [c EXCEPT !.cur = cur]
      OBVIOUS
    <2> QED BY <2>2, <2>3, <2>4, DeferCurSound
  <1> QED BY <1>1, <1>2, <1>3

LEMMA DeferToggleSound ==
  ASSUME Defers, NEW c, Sane(c), NEW l \in LedsOf(driver), NEW on \in BOOLEAN
  PROVE  Sound(c, DeferToggle(c, l, on))
  <1> DEFINE n == [c EXCEPT !.on[l] = on]
  <1>0. l \in Leds /\ {<<l, "light">>} \subseteq Committable
    BY DEF LedsOf, Leds, Committable, Defers, DeferringDrivers, PacketDrivers
  <1>1. driver \notin PacketDrivers
    BY DEF Defers, DeferringDrivers, PacketDrivers
  <1>2. Sane(n) /\ Only(c, n, {<<l, "light">>})
    BY <1>0, <1>1, LightChanged
  <1>3. DeferToggle(c, l, on) = Deferred(n, {<<l, "light">>})
    BY DEF DeferToggle
  <1> HIDE DEF n
  <1> QED BY <1>0, <1>2, <1>3, DeferredSound

LEMMA KraitSound ==
  ASSUME Defers, driver = "Krait", NEW cb \in Callbacks, Pointing(cb), NEW c, Sane(c)
  PROVE  Sound(c, KraitCall(c, cb))
  <1>1. cb.mapping \in Mappings
    BY PointerCallback
  <1>2. [a \in Dims |-> cb.mapping] \in [Dims -> Mappings]
    BY <1>1
  <1>3. KraitCall(c, cb) = Deferred([c EXCEPT !.cur = [a \in Dims |-> cb.mapping]], {Res})
    BY DEF KraitCall
  <1> QED BY <1>2, <1>3, DeferCurSound

LEMMA DeferPointerSound ==
  ASSUME Defers, NEW cb \in Callbacks, Pointing(cb), NEW c, Sane(c)
  PROVE  (cb.op # "toggle" /\ Sound(c, DeferCall(c, cb))) \/ driver = "Krait"
  BY PointerCallback, DeferFreqSound, DeferMappingSound DEF DeferCall

LEMMA DeferLedSound ==
  ASSUME Defers, topic \in LedsOf(driver), NEW cb \in Callbacks, ~Pointing(cb), NEW c, Sane(c)
  PROVE  cb.op = "toggle" /\ Sound(c, DeferToggle(c, cb.led, cb.on))
  BY LedCallback, DeferToggleSound

-----------------------------------------------------------------------------
(* All seventeen drivers.                                                  *)

LEMMA WhichDefer ==
  /\ driver \in AtOnce => ~Defers
  /\ driver \in DeferringDrivers => Defers
  /\ driver \in ExtDrivers \cup {"Essential"} => Extended
  BY DEF AtOnce, ExtDrivers, PacketDrivers, DeferringDrivers, Defers, Extended

LEMMA EffectSound ==
  ASSUME driver \in Drivers, topic \in {"pointer"} \cup LedsOf(driver),
         NEW cb \in Callbacks, Sane(cache)
  PROVE  Sound(cache, Effect(cb))
  <1>0. driver \in AtOnce \cup DeferringDrivers
    BY DriversAssumption
  <1>e. Effect(cb) = IF Pointing(cb) THEN PointerCall(cb) ELSE LedCall(cb)
    BY DEF Effect, Pointing
  <1>1. CASE Pointing(cb) /\ driver \in AtOnce
    <2>1. ASSUME NEW unknown \in Nat, NEW max PROVE Sound(cache, Pointer(cache, cb, unknown, max))
      BY <1>1, WhichDefer, PointerSound
    <2>2. CASE driver \in {"Viper", "Basilisk", "MambaWireless", "Lancehead", "NagaV2"}
      <3>1. PointerCall(cb) = Pointer(cache, cb, 1600, 20000)
        BY <2>2 DEF PointerCall, ViperPointer, BasiliskPointer, MambaWirelessPointer,
                    LanceheadPointer, NagaV2Pointer
      <3> QED BY <1>1, <2>1, <3>1, <1>e
    <2>3. CASE driver = "DeathAdderV2"
      <3>1. PointerCall(cb) = Pointer(cache, cb, 1800, 20000)
        BY <2>3 DEF PointerCall, DeathAdderV2Pointer
      <3> QED BY <1>1, <2>1, <3>1, <1>e
    <2>4. CASE driver \in {"DeathAdderElite", "Diamondback"}
      <3>1. PointerCall(cb) = Pointer(cache, cb, 1800, 16000)
        BY <2>4 DEF PointerCall, DeathAdderElitePointer, DiamondPointer
      <3> QED BY <1>1, <2>1, <3>1, <1>e
    <2>5. CASE driver = "Orochi"
      <3>1. PointerCall(cb) = Pointer(cache, cb, 1800, 8200)
        BY <2>5 DEF PointerCall, OrochiPointer
      <3> QED BY <1>1, <2>1, <3>1, <1>e
    <2>6. CASE driver = "Abyssus"
      <3>1. PointerCall(cb) = Pointer(cache, cb, 800, 7200)
        BY <2>6 DEF PointerCall, AbyssusPointer
      <3> QED BY <1>1, <2>1, <3>1, <1>e
    <2>7. CASE driver \in {"MambaTE", "DAChroma"}
      <3>1. PointerCall(cb) = Pointer(cache, cb, 1800, 10000)
        BY <2>7 DEF PointerCall, MambaPointer, DAChromaPointer
      <3> QED BY <1>1, <2>1, <3>1, <1>e
    <2>8. CASE driver = "Essential"
      <3>1. PointerCall(cb) = Pointer(cache, cb, 1800, 6400)
        BY <2>8 DEF PointerCall, EssentialPointer
      <3> QED BY <1>1, <2>1, <3>1, <1>e
    <2> QED BY <1>1, <2>2, <2>3, <2>4, <2>5, <2>6, <2>7, <2>8 DEF AtOnce, ExtDrivers, PacketDrivers
  <1>2. CASE Pointing(cb) /\ driver \in DeferringDrivers
    <2>1. Defers
      BY <1>2, WhichDefer
    <2>2. CASE driver = "Krait"
      <3>1. PointerCall(cb) = KraitCall(cache, cb)
        BY <2>2 DEF PointerCall
      <3> QED BY <1>2, <2>1, <2>2, <3>1, KraitSound, <1>e
    <2>3. CASE driver \in {"DA2013", "Taipan", "Naga"}
      <3>1. cb.op # "toggle" /\ Sound(cache, DeferCall(cache, cb))
        BY <1>2, <2>1, <2>3, DeferPointerSound
      <3>2. PointerCall(cb) = DeferCall(cache, cb)
        BY <2>3, <3>1 DEF PointerCall, DA2013Call, TaipanCall, NagaCall
      <3> QED BY <1>2, <3>1, <3>2, <1>e
    <2> QED BY <1>2, <2>2, <2>3 DEF DeferringDrivers
  <1>3. CASE ~Pointing(cb) /\ driver \in AtOnce
    <2>0. topic \in Leds /\ (driver \in PacketDrivers => topic = "logo") /\ ~Defers
      BY <1>3, LedCallback, TopicIsLed, WhichDefer
    <2>1. CASE driver \in ExtDrivers
      <3>1. LedCall(cb) = ExtLeds(cache, cb)
        BY <2>1 DEF LedCall, ExtDrivers, ViperLeds, BasiliskLeds, MambaWirelessLeds, LanceheadLeds,
                    NagaV2Leds, DeathAdderV2Leds, DeathAdderEliteLeds, OrochiLeds, AbyssusLeds
      <3>2. Extended
        BY <2>1, WhichDefer
      <3> QED BY <1>3, <2>0, <3>1, <3>2, ExtLedsSound, <1>e
    <2>2. CASE driver \in PacketDrivers
      <3>1. LedCall(cb) = MambaLeds(cache, cb)
        BY <2>2, DiamondLedsAre DEF LedCall, PacketDrivers
      <3> QED BY <1>3, <2>0, <2>2, <3>1, MambaLedsSound, <1>e
    <2>3. CASE driver = "DAChroma"
      <3>1. LedCall(cb) = DAChromaLeds(cache, cb)
        BY <2>3 DEF LedCall
      <3> QED BY <1>3, <2>0, <2>3, <3>1, DAChromaLedsSound, <1>e
    <2>4. CASE driver = "Essential"
      <3>1. LedCall(cb) = EssentialLeds(cache, cb)
        BY <2>4 DEF LedCall
      <3>2. Extended
        BY <2>4, WhichDefer
      <3> QED BY <1>3, <2>0, <3>1, <3>2, EssentialSound, <1>e
    <2> QED BY <1>3, <2>1, <2>2, <2>3, <2>4 DEF AtOnce
  <1>4. CASE ~Pointing(cb) /\ driver \in DeferringDrivers
    <2>0. topic \in LedsOf(driver) /\ Defers
      BY <1>4, LedCallback, WhichDefer
    <2>1. cb.op = "toggle" /\ Sound(cache, DeferToggle(cache, cb.led, cb.on))
      BY <1>4, <2>0, DeferLedSound
    <2>2. driver # "Krait"
      BY <1>4, LedCallback DEF LedsOf, PacketDrivers
    <2>3. LedCall(cb) = DeferToggle(cache, cb.led, cb.on)
      BY <1>4, <2>1, <2>2 DEF LedCall, DeferringDrivers, DA2013Call, TaipanCall, NagaCall,
                              DA2013Toggle, TaipanToggle, NagaToggle
    <2> QED BY <1>4, <2>1, <2>3, <1>e
  <1> QED BY <1>0, <1>1, <1>2, <1>3, <1>4

-----------------------------------------------------------------------------
(* What a driver sends when it starts and when it commits.                 *)

LEMMA CommitCommand ==
  ASSUME Defers, NEW c
  PROVE  /\ SetResolution(c) \in CommandsFor(c) /\ CommitFreq(c) \in CommandsFor(c)
         /\ \A l \in Leds : CommitLed(c, l) \in CommandsFor(c)
  <1>1. Encoded(c.freq) \in Follows(c, Freq) /\ Freq \in Items
    BY FollowsFreq, ItemsAre
  <1>2. CommitFreq(c) \in CommandsFor(c)
    BY <1>1, SetsCommand DEF CommitFreq
  <1> QED BY <1>2, ResolutionCommand, LightCommand DEF CommitLed

LEMMA CommitsSound ==
  ASSUME Defers, NEW c
  PROVE  /\ KraitCommit(c) \in Seq(CommandsFor(c)) /\ DA2013Commit(c) \in Seq(CommandsFor(c))
         /\ TaipanCommit(c) \in Seq(CommandsFor(c)) /\ NagaCommit(c) \in Seq(CommandsFor(c))
  <1> DEFINE S == CommandsFor(c)
  <1>1. /\ SetResolution(c) \in S /\ CommitFreq(c) \in S
        /\ CommitLed(c, "scroll") \in S /\ CommitLed(c, "logo") \in S /\ CommitLed(c, "thumb") \in S
    BY CommitCommand DEF Leds
  <1> HIDE DEF S
  <1>2. /\ KraitCommit(c) \in Seq(S) /\ DA2013Commit(c) \in Seq(S)
        /\ TaipanCommit(c) \in Seq(S) /\ NagaCommit(c) \in Seq(S)
    BY <1>1 DEF KraitCommit, DA2013Commit, TaipanCommit, NagaCommit
  <1> QED BY <1>2 DEF S

LEMMA CommitSound == ASSUME NEW c PROVE CommitOf(c) \in Seq(CommandsFor(c))
  <1>1. CASE driver \notin DeferringDrivers
    BY <1>1, EmptySeq DEF CommitOf, DeferringDrivers
  <1>2. CASE driver \in DeferringDrivers
    <2>1. CommitOf(c) \in {KraitCommit(c), DA2013Commit(c), TaipanCommit(c), NagaCommit(c)}
      BY <1>2 DEF CommitOf, DeferringDrivers
    <2> QED BY <1>2, <2>1, WhichDefer, CommitsSound
  <1> QED BY <1>1, <1>2

LEMMA DefaultsSane ==
  ASSUME NEW freq \in {500, 1000}, NEW one \in Nat, NEW two \in Nat, NEW mode \in LedModes,
         NEW colour \in {"white", "green"}
  PROVE  Sane(Defaults(freq, [initial |-> one, other |-> two], mode, colour))
  <1> DEFINE stages == [initial |-> one, other |-> two]
             c == Defaults(freq, stages, mode, colour)
  <1>1. \A m \in Mappings : stages[m] \in Nat
    BY DEF Mappings
  <1> HIDE DEF stages
  <1>2. /\ [a \in Dims |-> "initial"] \in Choices
        /\ [m \in Mappings |-> [a \in Dims |-> stages[m]]] \in Stages
        /\ [l \in Leds |-> TRUE] \in Lights /\ [l \in Leds |-> mode] \in Modes
        /\ [l \in Leds |-> colour] \in Tints
    BY <1>1 DEF Mappings, Choices, Stages, Lights, Modes, Tints, Colours
  <1>3. c \in Caches
    BY <1>2 DEF Defaults, Caches
  <1>4. c.freq = freq /\ c.cur["x"] = "initial" /\ c.cur["y"] = "initial"
    BY DEF Defaults, Dims
  <1>5. Sane(c)
    BY <1>3, <1>4 DEF Sane, SupportedFreqs
  <1> QED BY <1>5 DEF stages

(* A driver's start. *)
GoodStart(s) == Sane(s.cache) /\ s.cmds \in Seq(CommandsFor(s.cache))

LEMMA GreetingSound ==
  ASSUME NEW c, ~Defers
  PROVE  /\ <<Query, SetResolution(c), SetFrequency(c)>> \in Seq(CommandsFor(c))
         /\ <<Query, SetResolution(c), Query, Query, SetFrequency(c)>> \in Seq(CommandsFor(c))
  <1>1. /\ Query \in CommandsFor(c) /\ SetResolution(c) \in CommandsFor(c)
        /\ SetFrequency(c) \in CommandsFor(c)
    BY QueryCommand, ResolutionCommand, FrequencyCommand
  <1> QED BY <1>1

LEMMA ExtInitSound ==
  ASSUME Extended, NEW one \in Nat, NEW two \in Nat, NEW leds \in {ScrollAndLogo, LogoOnly}
  PROVE  GoodStart(ExtInit(one, two, leds))
  <1> DEFINE c == Defaults(500, [initial |-> one, other |-> two], "static", "white")
             S == CommandsFor(c)
             Led(l) == <<ExtBrightness(c, l), ExtStatic(c, l)>>
             greeting == <<Query, SetResolution(c), SetFrequency(c)>>
             rest == IF Len(leds) = 2 THEN Led(leds[2]) ELSE <<>>
  <1>1. Sane(c)
    BY DefaultsSane DEF LedModes
  <1>2. greeting \in Seq(S)
    BY GreetingSound DEF Extended
  <1>3. leds[1] \in Leds /\ (Len(leds) = 2 => leds[2] \in Leds)
    BY DEF ScrollAndLogo, LogoOnly, Leds
  <1>4. ExtInit(one, two, leds) = [cache |-> c, cmds |-> greeting \o Led(leds[1]) \o rest]
    BY DEF ExtInit
  <1> HIDE DEF c
  <1>5. ASSUME NEW l \in Leds PROVE Led(l) \in Seq(S)
    <2>1. ExtBrightness(c, l) \in S /\ ExtStatic(c, l) \in S
      BY LightCommand, StaticCommand DEF ExtBrightness
    <2> QED BY <2>1
  <1>6. rest \in Seq(S)
    BY <1>3, <1>5, EmptySeq
  <1>7. Led(leds[1]) \in Seq(S)
    BY <1>3, <1>5
  <1> HIDE DEF greeting, rest, Led, S
  <1>8. greeting \o Led(leds[1]) \o rest \in Seq(S)
    BY <1>2, <1>6, <1>7, ConcatProperties
  <1> QED BY <1>1, <1>4, <1>8 DEF GoodStart, S

LEMMA PacketInitSound ==
  ASSUME ~Defers, driver \in PacketDrivers
  PROVE  GoodStart(MambaInit) /\ GoodStart(DiamondInit)
  <1> DEFINE c == Defaults(500, [initial |-> 1800, other |-> 800], "static", "green")
             S == CommandsFor(c)
             greeting == <<Query, SetResolution(c), Query, Query, SetFrequency(c)>>
             packets == <<MambaPacket(c, "logo"), MambaPacket(c, "logo")>>
  <1>1. Sane(c)
    BY DefaultsSane DEF LedModes
  <1>2. /\ MambaInit = [cache |-> c, cmds |-> greeting \o packets]
        /\ DiamondInit = [cache |-> c, cmds |-> greeting \o packets]
    BY DEF MambaInit, DiamondInit, MambaGreeting, DiamondGreeting, DiamondPacket
  <1>3. greeting \in Seq(S)
    BY GreetingSound
  <1> HIDE DEF c
  <1>4. MambaPacket(c, "logo") \in S
    BY PacketCommand
  <1>5. packets \in Seq(S)
    BY <1>4
  <1> HIDE DEF greeting, packets, S
  <1>6. greeting \o packets \in Seq(S)
    BY <1>3, <1>5, ConcatProperties
  <1> QED BY <1>1, <1>2, <1>6 DEF GoodStart, S

LEMMA DAChromaInitSound ==
  ASSUME ~Defers, driver = "DAChroma"
  PROVE  GoodStart(DAChromaInit)
  <1> DEFINE c == Defaults(500, [initial |-> 1800, other |-> 800], "spectrum", "green")
             S == CommandsFor(c)
             greeting == <<Query, SetResolution(c), Query, Query, SetFrequency(c)>>
             Led(l) == <<DAChromaState(c, l), DAChromaShow(c, l), DAChromaTint(c, l)>>
  <1>1. Sane(c)
    BY DefaultsSane DEF LedModes
  <1>2. DAChromaInit = [cache |-> c, cmds |-> greeting \o Led("scroll") \o Led("logo")]
    BY DEF DAChromaInit, DAChromaGreeting
  <1>3. greeting \in Seq(S)
    BY GreetingSound
  <1> HIDE DEF c
  <1>4. ASSUME NEW l \in Leds PROVE Led(l) \in Seq(S)
    <2>1. c.mode[l] \in Follows(c, <<l, "mode">>)
      BY DAChromaShows
    <2>2. Sets(<<l, "mode">>, c.mode[l]) \in S
      BY <2>1, ShowCommand
    <2>3. DAChromaState(c, l) \in S /\ DAChromaShow(c, l) \in S /\ DAChromaTint(c, l) \in S
      BY <2>2, LightCommand, TintCommand DEF DAChromaState, DAChromaShow, DAChromaTint
    <2> QED BY <2>3
  <1>5. Led("scroll") \in Seq(S) /\ Led("logo") \in Seq(S)
    BY <1>4 DEF Leds
  <1> HIDE DEF greeting, Led, S
  <1>6. greeting \o Led("scroll") \o Led("logo") \in Seq(S)
    BY <1>3, <1>5, ConcatProperties
  <1> QED BY <1>1, <1>2, <1>6 DEF GoodStart, S

LEMMA EssentialInitSound ==
  ASSUME ~Defers, driver = "Essential"
  PROVE  GoodStart(EssentialInit)
  <1> DEFINE c == Defaults(500, [initial |-> 1800, other |-> 800], "static", "white")
             S == CommandsFor(c)
             greeting == <<Query, SetResolution(c), Query, Query, SetFrequency(c)>>
             states == <<EssentialState(c, "scroll"), EssentialState(c, "logo")>>
  <1>1. Sane(c)
    BY DefaultsSane DEF LedModes
  <1>2. EssentialInit = [cache |-> c, cmds |-> greeting \o states]
    BY DEF EssentialInit, EssentialGreeting
  <1>3. greeting \in Seq(S)
    BY GreetingSound
  <1> HIDE DEF c
  <1>4. EssentialState(c, "scroll") \in S /\ EssentialState(c, "logo") \in S
    BY LightCommand DEF EssentialState, Leds
  <1>5. states \in Seq(S)
    BY <1>4
  <1> HIDE DEF greeting, states, S
  <1>6. greeting \o states \in Seq(S)
    BY <1>3, <1>5, ConcatProperties
  <1> QED BY <1>1, <1>2, <1>6 DEF GoodStart, S

LEMMA DeferInitSound ==
  ASSUME Defers
  PROVE  /\ GoodStart(KraitInit) /\ GoodStart(DA2013Init)
         /\ GoodStart(TaipanInit) /\ GoodStart(NagaInit)
  <1> DEFINE k == Defaults(1000, [initial |-> 1600, other |-> 400], "static", "white")
             c == Defaults(1000, [initial |-> 1000, other |-> 100], "static", "white")
  <1>1. Sane(k) /\ Sane(c)
    BY DefaultsSane DEF LedModes
  <1>2. /\ KraitInit = [cache |-> k, cmds |-> <<>>] /\ DA2013Init = [cache |-> c, cmds |-> <<>>]
        /\ TaipanInit = [cache |-> c, cmds |-> TaipanCommit(c)]
        /\ NagaInit = [cache |-> c, cmds |-> <<Query>> \o NagaCommit(c)]
    BY DEF KraitInit, DA2013Init, TaipanInit, NagaInit
  <1> HIDE DEF k, c
  <1>3. <<Query>> \o NagaCommit(c) \in Seq(CommandsFor(c))
    BY QueryCommand, CommitsSound, OneThenOthers
  <1> QED BY <1>1, <1>2, <1>3, CommitsSound, EmptySeq DEF GoodStart

LEMMA InitialSound ==
  ASSUME driver \in Drivers
  PROVE  GoodStart(Initial)
  <1>0. driver \in AtOnce \cup DeferringDrivers
    BY DriversAssumption
  <1>1. CASE driver \in DeferringDrivers
    <2>1. Initial \in {KraitInit, DA2013Init, TaipanInit, NagaInit}
      BY <1>1 DEF Initial, DeferringDrivers
    <2> QED BY <1>1, <2>1, WhichDefer, DeferInitSound
  <1>2. CASE driver \in PacketDrivers
    <2>1. Initial \in {MambaInit, DiamondInit}
      BY <1>2 DEF Initial, PacketDrivers
    <2>2. ~Defers
      BY <1>2, WhichDefer DEF AtOnce
    <2> QED BY <1>2, <2>1, <2>2, PacketInitSound
  <1>3. CASE driver = "DAChroma"
    <2>1. Initial = DAChromaInit /\ ~Defers
      BY <1>3, WhichDefer DEF Initial, AtOnce
    <2> QED BY <1>3, <2>1, DAChromaInitSound
  <1>4. CASE driver = "Essential"
    <2>1. Initial = EssentialInit /\ ~Defers
      BY <1>4, WhichDefer DEF Initial, AtOnce
    <2> QED BY <1>4, <2>1, EssentialInitSound
  <1>5. CASE driver \in ExtDrivers
    <2>1. \E one \in Nat, two \in Nat, leds \in {ScrollAndLogo, LogoOnly} :
            Initial = ExtInit(one, two, leds)
      <3>1. Initial \in {ExtInit(1600, 400, ScrollAndLogo), ExtInit(1800, 450, ScrollAndLogo),
                         ExtInit(1800, 400, ScrollAndLogo), ExtInit(1800, 450, LogoOnly),
                         ExtInit(800, 400, LogoOnly)}
        BY <1>5 DEF Initial, ExtDrivers, ViperInit, BasiliskInit, MambaWirelessInit, LanceheadInit,
             NagaV2Init, DeathAdderV2Init, DeathAdderEliteInit, OrochiInit, AbyssusInit
      <3> QED BY <3>1
    <2>2. Extended
      BY <1>5, WhichDefer
    <2> QED BY <2>1, <2>2, ExtInitSound
  <1> QED BY <1>0, <1>1, <1>2, <1>3, <1>4, <1>5 DEF AtOnce

-----------------------------------------------------------------------------
(* The inductive invariant: whatever is still to be sent is what the copy  *)
(* says, so that a command that arrives late or twice does no harm.        *)

Doubts == {"none", "owed", "told", "swallowed", "ignored", "lost", "unsent"}

Calls(c) ==
  [kind : {"none", "probe", "command", "release", "reconfig"},
   cmds : Seq(CommandsFor(c)), cbs : Seq(Callbacks)]

IInv ==
  /\ TypeOK
  /\ Sane(cache)
  /\ call \in Calls(cache)
  /\ Items \subseteq DOMAIN dev
  /\ DeviceAgrees

(* The driver stays what it is, and so do the operators that depend on it. *)
LEMMA SameDriver ==
  ASSUME UNCHANGED <<driver, emulated, topic>>
  PROVE  /\ CommandsFor(cache)' = CommandsFor(cache')
         /\ Sane(cache)' <=> Sane(cache')
         /\ Callbacks' = Callbacks
         /\ Defers' <=> Defers
         /\ \A i \in Items : Follows(cache, i)' = Follows(cache', i)
         /\ LedsOf(driver)' = LedsOf(driver)
  <1>1. Defers' <=> Defers
    BY DEF Defers
  <1>2. \A i : Follows(cache, i)' = Follows(cache', i)
    BY <1>1 DEF Follows
  <1>3. CommandsFor(cache)' = CommandsFor(cache')
    BY <1>2 DEF CommandsFor
  <1>4. Sane(cache)' <=> Sane(cache')
    BY <1>1 DEF Sane
  <1>5. Callbacks' = Callbacks
    BY <1>1 DEF Callbacks, PointerCallbacks, LedCallbacks
  <1> QED BY <1>1, <1>2, <1>3, <1>4, <1>5

LEMMA KeepsIInv ==
  ASSUME IInv, UNCHANGED <<driver, emulated, topic>>,
         listed' \in BOOLEAN, pending' \in BOOLEAN, held' \in BOOLEAN, faults' \in 0..MaxFaults,
         Sane(cache'), call' \in Calls(cache'), Items \subseteq DOMAIN dev',
         doubt' \in [Items -> Doubts],
         \A i \in Items : doubt'[i] = "none" => dev'[i] \in Follows(cache', i)
  PROVE  IInv'
  <1>1. cache'.freq \in AskedFreqs \cup {500, 1000} /\ (\A l \in Leds : cache'.mode[l] \in LedModes)
    BY CacheParts DEF Sane
  <1>2. call'.kind \in {"none", "probe", "command", "release", "reconfig"}
    BY DEF Calls
  <1>3. driver \in Drivers /\ emulated \in BOOLEAN /\ topic \in {"pointer"} \cup LedsOf(driver)
    BY DEF IInv, TypeOK
  <1>4. (~Defers)' => cache'.freq \in SupportedFreqs
    BY SameDriver DEF Sane
  <1>5. TypeOK'
    BY <1>1, <1>2, <1>3, <1>4, SameDriver DEF TypeOK, Doubts
  <1>6. Sane(cache)' /\ DeviceAgrees'
    BY SameDriver DEF DeviceAgrees
  <1>7. (call \in Calls(cache))'
    <2>1. CommandsFor(cache)' = CommandsFor(cache') /\ Callbacks' = Callbacks
      BY SameDriver
    <2> QED BY <2>1 DEF Calls
  <1> QED BY <1>5, <1>6, <1>7 DEF IInv

(* What a call becomes. *)
LEMMA NewCall ==
  ASSUME NEW c
  PROVE  /\ NoCall \in Calls(c)
         /\ \A k \in {"probe", "release", "reconfig"}, s \in Seq(CommandsFor(c)) :
              [NoCall EXCEPT !.kind = k, !.cmds = s] \in Calls(c)
         /\ \A s \in Seq(Callbacks) : [NoCall EXCEPT !.kind = "command", !.cbs = s] \in Calls(c)
  BY EmptySeq DEF NoCall, Calls

LEMMA ReleasingCall ==
  ASSUME NEW pend, NEW c
  PROVE  Releasing(pend, c) \in Calls(c)
  BY NewCall, CommitSound DEF Releasing

(* The callbacks of the emulation's commit are those of the pointer. *)
LEMMA ProfileCallbacks ==
  ASSUME NEW first \in Mappings, NEW second \in Mappings,
         NEW odd \in Mappings \cup {"none"},
         NEW freq \in AskedFreqs \cup {500, 1000}
  PROVE  ProfileCommit(first, second, odd, freq) \in Seq(Callbacks)
  <1> DEFINE Map(axis, m) == <<[op |-> "mapping", axis |-> axis, mapping |-> m]>>
             S == Callbacks
  <1>1. \A axis \in {"first", "second", "wheel", "all"}, m \in Mappings :
          [op |-> "mapping", axis |-> axis, mapping |-> m] \in S
    BY DEF Callbacks, PointerCallbacks
  <1>2. driver # "Krait" => [op |-> "freq", freq |-> freq] \in S
    BY DEF Callbacks, PointerCallbacks
  <1>3. ProfileCommit(first, second, odd, freq) =
          IF driver = "Krait" THEN Map("all", first)
          ELSE Map("first", first)
               \o (IF Defers THEN Map("second", second) ELSE <<>>)
               \o (IF odd = "none" THEN <<>> ELSE Map(IF Defers THEN "wheel" ELSE "second", odd))
               \o <<[op |-> "freq", freq |-> freq]>>
    BY DEF ProfileCommit
  <1> HIDE DEF S
  <1>4. \A axis \in {"first", "second", "wheel", "all"}, m \in Mappings : Map(axis, m) \in Seq(S)
    <2> TAKE axis \in {"first", "second", "wheel", "all"}, m \in Mappings
    <2>1. [op |-> "mapping", axis |-> axis, mapping |-> m] \in S
      BY <1>1
    <2> QED BY <2>1, OneCommand
  <1> HIDE DEF Map
  <1>5. (IF Defers THEN Map("second", second) ELSE <<>>) \in Seq(S)
    BY <1>4, EmptySeq
  <1>6. (IF odd = "none" THEN <<>> ELSE Map(IF Defers THEN "wheel" ELSE "second", odd)) \in Seq(S)
    BY <1>4, EmptySeq
  <1>7. driver # "Krait" => <<[op |-> "freq", freq |-> freq]>> \in Seq(S)
    BY <1>2, OneCommand
  <1>8. Map("all", first) \in Seq(S) /\ Map("first", first) \in Seq(S)
    BY <1>4
  <1>9. ProfileCommit(first, second, odd, freq) \in Seq(S)
    BY <1>3, <1>5, <1>6, <1>7, <1>8, ConcatProperties
  <1> QED BY <1>9 DEF S

LEMMA RestOfCall ==
  ASSUME NEW c, NEW k \in Calls(c), k.cmds # <<>>
  PROVE  Head(k.cmds) \in CommandsFor(c) /\ [k EXCEPT !.cmds = Tail(@)] \in Calls(c)
  <1>1. k.cmds \in Seq(CommandsFor(c))
    BY DEF Calls
  <1>2. Head(k.cmds) \in CommandsFor(c) /\ Tail(k.cmds) \in Seq(CommandsFor(c))
    BY <1>1, HeadTailProperties
  <1> QED BY <1>2 DEF Calls

(* An aborted call clears no doubt. *)
LEMMA AbortKeeps ==
  ASSUME IInv, NEW dbt \in [Items -> Doubts], NEW pend, Abort(dbt, pend)
  PROVE  /\ call' \in Calls(cache) /\ doubt' \in [Items -> Doubts] /\ listed' \in BOOLEAN
         /\ \A i \in Items : doubt'[i] = "none" => dbt[i] = "none"
  <1>0. listed' \in BOOLEAN
    BY DEF Abort
  <1>1. call' \in Calls(cache)
    BY NewCall, ReleasingCall DEF Abort
  <1>2. PICK why \in {"swallowed", "unsent", "owed", "told"} :
          doubt' = [i \in Items |-> IF dbt[i] = "owed" THEN why ELSE dbt[i]]
    BY DEF Abort
  <1> QED BY <1>0, <1>1, <1>2 DEF Doubts

LEMMA BecomeIs ==
  ASSUME IInv, NEW items, NEW why \in Doubts
  PROVE  /\ Become(items, why) \in [Items -> Doubts]
         /\ \A i \in Items : Become(items, why)[i] = IF i \in items THEN why ELSE doubt[i]
  BY DEF Become, IInv, TypeOK, Doubts

LEMMA ProbeKeeps == ASSUME IInv, Probe PROVE IInv'
  <1>1. Sane(cache') /\ Initial.cmds \in Seq(CommandsFor(cache'))
    BY InitialSound DEF GoodStart, Probe, IInv, TypeOK
  <1>2. call' \in Calls(cache')
    <2>1. Initial.cache.freq \in AskedFreqs \cup {500, 1000}
      BY InitialSound, CacheParts DEF GoodStart, Sane, IInv, TypeOK
    <2>4. "initial" \in Mappings
      BY DEF Mappings
    <2>2. ProfileCommit("initial", "initial", "none", Initial.cache.freq) \in Seq(Callbacks)
      <3> DEFINE f == Initial.cache.freq
      <3>1. f \in AskedFreqs \cup {500, 1000}
        BY <2>1
      <3> HIDE DEF f
      <3>2. ProfileCommit("initial", "initial", "none", f) \in Seq(Callbacks)
        <4>1. \A freq \in AskedFreqs \cup {500, 1000} :
                ProfileCommit("initial", "initial", "none", freq) \in Seq(Callbacks)
          BY <2>4, ProfileCallbacks
        <4> QED BY <3>1, <4>1
      <3> QED BY <3>2 DEF f
    <2>5. (IF emulated THEN ProfileCommit("initial", "initial", "none", Initial.cache.freq)
                      ELSE <<>>) \in Seq(Callbacks)
      BY <2>2, EmptySeq, Zenon
    <2>3. PICK cbs \in Seq(Callbacks) : call' = [kind |-> "probe", cmds |-> Initial.cmds, cbs |-> cbs]
      BY <2>5, Zenon DEF Probe
    <2> QED BY <1>1, <2>3 DEF Calls
  <1>3. doubt' \in [Items -> Doubts] /\ \A i \in Items : doubt'[i] # "none"
    BY DEF Probe, Doubts
  <1>4. UNCHANGED <<driver, emulated, topic, listed, dev, pending, held, faults>>
    BY DEF Probe
  <1>5. listed' \in BOOLEAN /\ pending' \in BOOLEAN /\ held' \in BOOLEAN /\ faults' \in 0..MaxFaults
        /\ Items \subseteq DOMAIN dev'
    BY <1>4 DEF IInv, TypeOK
  <1> QED BY <1>1, <1>2, <1>3, <1>4, <1>5, KeepsIInv

(* Steps that leave the copy, the device and the doubts alone. *)
LEMMA QuietKeeps ==
  ASSUME IInv, UNCHANGED <<driver, emulated, topic, cache, dev, doubt, faults>>,
         listed' \in BOOLEAN, pending' \in BOOLEAN, held' \in BOOLEAN, call' \in Calls(cache)
  PROVE  IInv'
  <1>1. /\ Sane(cache') /\ call' \in Calls(cache') /\ Items \subseteq DOMAIN dev'
        /\ doubt' \in [Items -> Doubts] /\ faults' \in 0..MaxFaults
        /\ \A i \in Items : doubt'[i] = "none" => dev'[i] \in Follows(cache', i)
    BY DEF IInv, TypeOK, DeviceAgrees, Doubts
  <1> QED BY <1>1, KeepsIInv

LEMMA CommandKeeps ==
  ASSUME IInv, NEW cbs \in Seq(Callbacks), Command(cbs)
  PROVE  IInv'
  <1>1. call' \in Calls(cache)
    BY NewCall DEF Command
  <1>2. UNCHANGED <<driver, emulated, topic, listed, cache, dev, doubt, pending, held, faults>>
    BY DEF Command
  <1>3. listed' \in BOOLEAN /\ pending' \in BOOLEAN /\ held' \in BOOLEAN
    BY <1>2 DEF IInv, TypeOK
  <1> QED BY <1>1, <1>2, <1>3, QuietKeeps

(* The callbacks of each command are among those the driver has. *)
LEMMA ProfileCommandKeeps == ASSUME IInv, ProfileCommand PROVE IInv'
  <1>1. CASE Command(<<>>)
    BY <1>1, EmptySeq, CommandKeeps
  <1>2. CASE \E first, second \in Mappings, freq \in AskedFreqs \cup {Initial.cache.freq} :
               \E odd \in {"none", first} : Command(ProfileCommit(first, second, odd, freq))
    <2>6. PICK first \in Mappings, second \in Mappings, freq \in AskedFreqs \cup {Initial.cache.freq} :
            \E odd \in {"none", first} : Command(ProfileCommit(first, second, odd, freq))
      BY <1>2
    <2>1. PICK odd \in Mappings \cup {"none"} : Command(ProfileCommit(first, second, odd, freq))
      BY <2>6
    <2>2. Initial.cache.freq \in AskedFreqs \cup {500, 1000}
      BY InitialSound, CacheParts DEF GoodStart, Sane, IInv, TypeOK
    <2>5. freq \in AskedFreqs \cup {500, 1000}
      BY <2>2
    <2>3. ProfileCommit(first, second, odd, freq) \in Seq(Callbacks)
      BY <2>5, ProfileCallbacks
    <2> DEFINE cbs == ProfileCommit(first, second, odd, freq)
    <2>4. Command(cbs) /\ cbs \in Seq(Callbacks)
      BY <2>1, <2>3
    <2> HIDE DEF cbs
    <2> QED BY <2>4, CommandKeeps
  <1> QED BY <1>1, <1>2 DEF ProfileCommand

LEMMA PointerCommandsKeep ==
  ASSUME IInv, SetFreqCommand \/ SetDpiMapping \/ ChangeDpiMapping
  PROVE  IInv'
  <1>1. CASE SetFreqCommand
    <2>1. PICK f \in AskedFreqs : Command(<<[op |-> "freq", freq |-> f]>>)
      BY <1>1 DEF SetFreqCommand
    <2>2. [op |-> "freq", freq |-> f] \in Callbacks
      BY <1>1 DEF SetFreqCommand, Callbacks, PointerCallbacks
    <2>3. <<[op |-> "freq", freq |-> f]>> \in Seq(Callbacks)
      BY <2>2, OneCommand
    <2> QED BY <2>1, <2>3, CommandKeeps
  <1>2. CASE SetDpiMapping
    <2>1. PICK m \in Mappings, axis \in {"first", "second", "wheel", "all"} :
            Command(<<[op |-> "mapping", axis |-> axis, mapping |-> m]>>)
      BY <1>2 DEF SetDpiMapping
    <2>2. [op |-> "mapping", axis |-> axis, mapping |-> m] \in Callbacks
      BY <1>2 DEF SetDpiMapping, Callbacks, PointerCallbacks
    <2>3. <<[op |-> "mapping", axis |-> axis, mapping |-> m]>> \in Seq(Callbacks)
      BY <2>2, OneCommand
    <2> QED BY <2>1, <2>3, CommandKeeps
  <1>3. CASE ChangeDpiMapping
    <2>1. PICK m \in Mappings, d \in Dims, r \in AskedRes :
            Command(<<[op |-> "change", mapping |-> m, dim |-> d, res |-> r]>>)
      BY <1>3 DEF ChangeDpiMapping
    <2>2. [op |-> "change", mapping |-> m, dim |-> d, res |-> r] \in Callbacks
      BY <1>3 DEF ChangeDpiMapping, Callbacks, PointerCallbacks
    <2>3. <<[op |-> "change", mapping |-> m, dim |-> d, res |-> r]>> \in Seq(Callbacks)
      BY <2>2, OneCommand
    <2> QED BY <2>1, <2>3, CommandKeeps
  <1> QED BY <1>1, <1>2, <1>3

LEMMA SetLedKeeps == ASSUME IInv, SetLed PROVE IInv'
  <1> DEFINE If(differs, cb) == IF differs THEN <<cb>> ELSE <<>>
             S == Callbacks
  <1>1. PICK on \in BOOLEAN, mode \in AskedModes, colour \in AskedColours :
          \E toggle \in {If(on # cache.on[topic], [op |-> "toggle", led |-> topic, on |-> on])},
             look \in {If(mode # cache.mode[topic], [op |-> "mode", led |-> topic, mode |-> mode])},
             tint \in {If(colour # cache.colour[topic],
                          [op |-> "colour", led |-> topic, colour |-> colour])} :
            Command(IF Defers THEN toggle ELSE toggle \o look \o tint)
    BY DEF SetLed
  <1>2. /\ [op |-> "toggle", led |-> topic, on |-> on] \in S
        /\ ~Defers => /\ [op |-> "mode", led |-> topic, mode |-> mode] \in S
                      /\ [op |-> "colour", led |-> topic, colour |-> colour] \in S
    BY DEF SetLed, Callbacks, LedCallbacks
  <1>3. PICK toggle, look, tint :
          /\ toggle = If(on # cache.on[topic], [op |-> "toggle", led |-> topic, on |-> on])
          /\ look = If(mode # cache.mode[topic], [op |-> "mode", led |-> topic, mode |-> mode])
          /\ tint = If(colour # cache.colour[topic],
                       [op |-> "colour", led |-> topic, colour |-> colour])
          /\ Command(IF Defers THEN toggle ELSE toggle \o look \o tint)
    BY <1>1
  <1> HIDE DEF S
  <1>4. toggle \in Seq(S) /\ (~Defers => look \in Seq(S) /\ tint \in Seq(S))
    BY <1>2, <1>3, OneCommand, EmptySeq
  <1> HIDE DEF If
  <1>5. (IF Defers THEN toggle ELSE toggle \o look \o tint) \in Seq(S)
    BY <1>4, ConcatProperties
  <1>6. (IF Defers THEN toggle ELSE toggle \o look \o tint) \in Seq(Callbacks)
    BY <1>5 DEF S
  <1> QED BY <1>3, <1>6, CommandKeeps

LEMMA RunCallbackKeeps == ASSUME IInv, RunCallback PROVE IInv'
  <1> DEFINE r == Effect(Head(call.cbs))
  <1>0. UNCHANGED <<driver, emulated, topic, dev, held, faults>>
    BY DEF RunCallback
  <1>1. Head(call.cbs) \in Callbacks /\ Tail(call.cbs) \in Seq(Callbacks)
    <2>1. call.cbs \in Seq(Callbacks) /\ call.cbs # <<>>
      BY DEF IInv, Calls, RunCallback
    <2> QED BY <2>1, HeadTailProperties
  <1>2. Sound(cache, r)
    BY <1>1, EffectSound DEF IInv, TypeOK
  <1>3. CASE r.err
    <2>1. Abort(doubt, pending) /\ UNCHANGED <<cache, pending>>
      BY <1>3 DEF RunCallback
    <2>2. /\ call' \in Calls(cache) /\ doubt' \in [Items -> Doubts] /\ listed' \in BOOLEAN
          /\ \A i \in Items : doubt'[i] = "none" => doubt[i] = "none"
      BY <2>1, AbortKeeps DEF IInv, TypeOK, Doubts
    <2> HIDE DEF r
    <2> QED BY <1>0, <2>1, <2>2, KeepsIInv DEF IInv, TypeOK, DeviceAgrees
  <1>4. CASE ~r.err
    <2>1. /\ cache' = r.cache /\ doubt' = Become(r.owed, "owed")
          /\ pending' = (pending \/ r.defer) /\ listed' = listed
          /\ call' = [call EXCEPT !.cmds = r.cmds, !.cbs = Tail(@)]
      BY <1>4 DEF RunCallback
    <2> HIDE DEF r
    <2>2. /\ Sane(cache') /\ r.cmds \in Seq(CommandsFor(cache'))
          /\ \A i \in Items : i \notin r.owed => Follows(cache, i) \subseteq Follows(cache', i)
      BY <1>2, <1>4, <2>1 DEF Sound
    <2>3. call' \in Calls(cache')
      BY <1>1, <2>1, <2>2 DEF IInv, Calls
    <2>4. /\ doubt' \in [Items -> Doubts]
          /\ \A i \in Items : doubt'[i] = IF i \in r.owed THEN "owed" ELSE doubt[i]
      BY <2>1, BecomeIs DEF Doubts
    <2>5. ASSUME NEW i \in Items, doubt'[i] = "none"
          PROVE  dev'[i] \in Follows(cache', i)
      <3>1. doubt[i] = "none" /\ i \notin r.owed
        BY <2>4, <2>5
      <3> QED BY <1>0, <2>2, <3>1 DEF IInv, DeviceAgrees
    <2>6. /\ listed' \in BOOLEAN /\ pending' \in BOOLEAN /\ held' \in BOOLEAN
          /\ faults' \in 0..MaxFaults /\ Items \subseteq DOMAIN dev'
      BY <1>0, <2>1 DEF IInv, TypeOK
    <2> QED BY <1>0, <2>2, <2>3, <2>4, <2>5, <2>6, KeepsIInv
  <1> QED BY <1>3, <1>4

LEMMA EncodeKeeps == ASSUME IInv, Encode PROVE IInv'
  <1>1. Abort(doubt, pending)
        /\ UNCHANGED <<driver, emulated, topic, cache, dev, pending, held, faults>>
    BY DEF Encode
  <1>2. /\ call' \in Calls(cache) /\ doubt' \in [Items -> Doubts] /\ listed' \in BOOLEAN
        /\ \A i \in Items : doubt'[i] = "none" => doubt[i] = "none"
    BY <1>1, AbortKeeps DEF IInv, TypeOK, Doubts
  <1> QED BY <1>1, <1>2, KeepsIInv DEF IInv, TypeOK, DeviceAgrees

(* A device that was told something for the copy agrees with it in that. *)
LEMMA ToldAgrees ==
  ASSUME IInv, NEW cmd \in CommandsFor(cache)
  PROVE  /\ Items \subseteq DOMAIN With(cmd, dev)
         /\ \A i \in Items : /\ i \in DOMAIN cmd => With(cmd, dev)[i] \in Follows(cache, i)
                             /\ doubt[i] = "none" => With(cmd, dev)[i] \in Follows(cache, i)
  <1>1. \A i \in DOMAIN cmd : cmd[i] \in Follows(cache, i)
    BY CommandParts
  <1>2. Items \subseteq DOMAIN dev /\ \A i \in Items : doubt[i] = "none" => dev[i] \in Follows(cache, i)
    BY DEF IInv, DeviceAgrees
  <1> QED BY <1>1, <1>2 DEF With

LEMMA TransferKeeps == ASSUME IInv, Transfer PROVE IInv'
  <1> DEFINE cmd == Head(call.cmds)
  <1>0. /\ UNCHANGED <<driver, emulated, topic, cache, pending, held>> /\ call.cmds # <<>>
        /\ call \in Calls(cache) /\ Sane(cache') /\ faults \in 0..MaxFaults
        /\ listed \in BOOLEAN /\ pending' \in BOOLEAN /\ held' \in BOOLEAN
    BY DEF Transfer, IInv, TypeOK
  <1>1. PICK fate \in Fates(cmd) :
          /\ fate # "done" => faults < MaxFaults
          /\ faults' = IF fate = "done" THEN faults ELSE faults + 1
          /\ dev' = IF fate \in {"done", "spoilt"} THEN With(cmd, dev) ELSE dev
          /\ CASE fate = "done"    -> /\ doubt' = Become(DOMAIN cmd, "none")
                                      /\ call' = [call EXCEPT !.cmds = Tail(@)]
                                      /\ UNCHANGED listed
               [] fate = "ignored" -> /\ doubt' = Become({i \in DOMAIN cmd : doubt[i] # "none"},
                                                         "ignored")
                                      /\ call' = [call EXCEPT !.cmds = Tail(@)]
                                      /\ UNCHANGED listed
               [] OTHER            -> Abort(doubt, pending)
    BY DEF Transfer
  <1>2. cmd \in CommandsFor(cache) /\ [call EXCEPT !.cmds = Tail(@)] \in Calls(cache)
    BY <1>0, RestOfCall
  <1> HIDE DEF cmd
  <1>3. /\ Items \subseteq DOMAIN With(cmd, dev) /\ Items \subseteq DOMAIN dev
        /\ \A i \in Items : /\ i \in DOMAIN cmd => With(cmd, dev)[i] \in Follows(cache, i)
                            /\ doubt[i] = "none" => /\ With(cmd, dev)[i] \in Follows(cache, i)
                                                    /\ dev[i] \in Follows(cache, i)
    BY <1>2, ToldAgrees DEF IInv, DeviceAgrees
  <1>4. faults' \in 0..MaxFaults /\ Items \subseteq DOMAIN dev'
    BY <1>0, <1>1, <1>3, DriversAssumption
  <1>5. /\ call' \in Calls(cache) /\ doubt' \in [Items -> Doubts] /\ listed' \in BOOLEAN
        /\ \A i \in Items : doubt'[i] = "none" => dev'[i] \in Follows(cache, i)
    <2>1. CASE fate = "done"
      <3>1. /\ doubt' \in [Items -> Doubts]
            /\ \A i \in Items : doubt'[i] = IF i \in DOMAIN cmd THEN "none" ELSE doubt[i]
        BY <1>1, <2>1, BecomeIs DEF Doubts
      <3>2. dev' = With(cmd, dev) /\ call' = [call EXCEPT !.cmds = Tail(@)] /\ listed' = listed
        BY <1>1, <2>1
      <3> QED BY <1>0, <1>2, <1>3, <3>1, <3>2
    <2>2. CASE fate = "ignored"
      <3>1. doubt' = Become({i \in DOMAIN cmd : doubt[i] # "none"}, "ignored")
        BY <1>1, <2>2
      <3>2. /\ doubt' \in [Items -> Doubts]
            /\ \A i \in Items : doubt'[i] = "none" => doubt[i] = "none"
        BY <3>1, BecomeIs DEF Doubts
      <3>3. dev' = dev /\ call' = [call EXCEPT !.cmds = Tail(@)] /\ listed' = listed
        BY <1>1, <2>2
      <3> QED BY <1>0, <1>2, <1>3, <3>2, <3>3
    <2>3. CASE fate \notin {"done", "ignored"}
      <3>1. Abort(doubt, pending) /\ dev' \in {With(cmd, dev), dev}
        BY <1>1, <2>3
      <3>2. /\ call' \in Calls(cache) /\ doubt' \in [Items -> Doubts] /\ listed' \in BOOLEAN
            /\ \A i \in Items : doubt'[i] = "none" => doubt[i] = "none"
        BY <3>1, AbortKeeps DEF IInv, TypeOK, Doubts
      <3> QED BY <1>3, <3>1, <3>2
    <2> QED BY <2>1, <2>2, <2>3
  <1> QED BY <1>0, <1>4, <1>5, KeepsIInv

LEMMA FinishesKeep ==
  ASSUME IInv, FinishProbe \/ FinishCommand \/ FinishRelease \/ FinishReconfig
  PROVE  IInv'
  <1>1. UNCHANGED <<driver, emulated, topic, cache, dev, doubt, faults>>
    BY DEF FinishProbe, FinishCommand, FinishRelease, FinishReconfig
  <1>2. listed' \in BOOLEAN /\ pending' \in BOOLEAN /\ held' \in BOOLEAN
    <2>1. listed \in BOOLEAN /\ pending \in BOOLEAN /\ held \in BOOLEAN
      BY DEF IInv, TypeOK
    <2>2. (pending /\ ~Defers) \in BOOLEAN
      OBVIOUS
    <2>3. FinishProbe => listed' \in BOOLEAN /\ pending' \in BOOLEAN /\ held' \in BOOLEAN
      BY <2>1 DEF FinishProbe
    <2>4. FinishCommand => listed' \in BOOLEAN /\ pending' \in BOOLEAN /\ held' \in BOOLEAN
      BY <2>1 DEF FinishCommand
    <2>5. FinishRelease => listed' \in BOOLEAN /\ pending' \in BOOLEAN /\ held' \in BOOLEAN
      BY <2>1 DEF FinishRelease
    <2>6. FinishReconfig => listed' \in BOOLEAN /\ pending' \in BOOLEAN /\ held' \in BOOLEAN
      BY <2>1, <2>2 DEF FinishReconfig
    <2> QED BY <2>3, <2>4, <2>5, <2>6
  <1>3. call' \in Calls(cache)
    BY NewCall, ReleasingCall DEF FinishProbe, FinishCommand, FinishRelease, FinishReconfig
  <1> QED BY <1>1, <1>2, <1>3, QuietKeeps

LEMMA PrivilegedKeep ==
  ASSUME IInv, Reconfig \/ Hold \/ Unhold
  PROVE  IInv'
  <1>1. UNCHANGED <<driver, emulated, topic, cache, dev, doubt, faults>>
    BY DEF Reconfig, Hold, Unhold
  <1>2. listed' \in BOOLEAN /\ pending' \in BOOLEAN /\ held' \in BOOLEAN
    <2>1. listed \in BOOLEAN /\ pending \in BOOLEAN /\ held \in BOOLEAN
      BY DEF IInv, TypeOK
    <2> QED BY <2>1 DEF Reconfig, Hold, Unhold
  <1>3. call' \in Calls(cache)
    BY NewCall, CommitSound DEF Reconfig, Hold, Unhold, IInv
  <1> QED BY <1>1, <1>2, <1>3, QuietKeeps

LEMMA PowerLossKeeps == ASSUME IInv, PowerLoss PROVE IInv'
  <1> DEFINE dbt == [i \in Items |-> IF doubt[i] = "owed" THEN "owed" ELSE "lost"]
  <1>0. /\ UNCHANGED <<driver, emulated, topic, cache, pending, held>>
        /\ listed \in BOOLEAN /\ pending' \in BOOLEAN /\ held' \in BOOLEAN /\ Sane(cache')
    BY DEF PowerLoss, IInv, TypeOK
  <1>1. faults' \in 0..MaxFaults /\ Items \subseteq DOMAIN dev'
    BY DriversAssumption DEF PowerLoss, IInv, TypeOK
  <1>2. dbt \in [Items -> Doubts] /\ \A i \in Items : dbt[i] # "none"
    BY DEF Doubts
  <1>3. (doubt' = dbt /\ UNCHANGED <<listed, call>>) \/ Abort(dbt, pending)
    BY DEF PowerLoss
  <1> HIDE DEF dbt
  <1>4. /\ call' \in Calls(cache) /\ doubt' \in [Items -> Doubts] /\ listed' \in BOOLEAN
        /\ \A i \in Items : doubt'[i] # "none"
    BY <1>0, <1>2, <1>3, AbortKeeps DEF IInv
  <1> QED BY <1>0, <1>1, <1>4, KeepsIInv

LEMMA RemoveKeeps == ASSUME IInv, Remove PROVE IInv'
  <1>1. /\ UNCHANGED <<driver, emulated, topic, cache, call, faults>>
        /\ listed' = FALSE /\ pending' = FALSE /\ held' = FALSE
        /\ dev' \in {dev, [i \in Items |-> PowerOn]}
    BY DEF Remove
  <1>3. /\ Sane(cache') /\ call' \in Calls(cache') /\ faults' \in 0..MaxFaults
        /\ Items \subseteq DOMAIN dev'
    BY <1>1 DEF IInv, TypeOK
  <1>2. doubt' \in [Items -> Doubts] /\ \A i \in Items : doubt'[i] # "none"
    BY DEF Remove, Doubts
  <1> QED BY <1>1, <1>2, <1>3, KeepsIInv

(* The inductive invariant holds: of every driver, for any number of       *)
(* faults, whatever values the clients ask for.                            *)
THEOREM Invariance == Spec => []IInv
  <1>1. Init => IInv
    <2> SUFFICES ASSUME Init PROVE IInv
      OBVIOUS
    <2>1. Sane(cache)
      BY InitialSound DEF Init, GoodStart
    <2>2. cache.freq \in AskedFreqs \cup {500, 1000} /\ (\A l \in Leds : cache.mode[l] \in LedModes)
          /\ (~Defers => cache.freq \in SupportedFreqs)
      BY <2>1, CacheParts DEF Sane
    <2>3. call.kind = "none"
      BY DEF Init, NoCall
    <2>4. TypeOK
      <3>1. listed \in BOOLEAN /\ pending \in BOOLEAN /\ held \in BOOLEAN
        BY DEF Init
      <3>4. faults \in 0..MaxFaults
        BY DriversAssumption DEF Init
      <3>2. doubt \in [Items -> Doubts]
        BY DEF Init, Doubts
      <3>3. driver \in Drivers /\ emulated \in BOOLEAN /\ topic \in {"pointer"} \cup LedsOf(driver)
        BY DEF Init
      <3> QED BY <2>2, <2>3, <3>1, <3>2, <3>3, <3>4 DEF TypeOK, Doubts
    <2>5. call \in Calls(cache)
      BY NewCall DEF Init
    <2> QED BY <2>1, <2>4, <2>5 DEF Init, IInv, DeviceAgrees
  <1>2. IInv /\ [Next]_vars => IInv'
    <2> SUFFICES ASSUME IInv, [Next]_vars PROVE IInv'
      OBVIOUS
    <2>1. CASE Next
      BY <2>1, ProbeKeeps, FinishesKeep, ProfileCommandKeeps, PointerCommandsKeep, SetLedKeeps, RunCallbackKeeps,
         EncodeKeeps, TransferKeeps, PrivilegedKeep, PowerLossKeeps, RemoveKeeps DEF Next
    <2>2. CASE UNCHANGED vars
      BY <2>2, QuietKeeps DEF vars, IInv, TypeOK
    <2> QED BY <2>1, <2>2
  <1> QED BY <1>1, <1>2, PTL DEF Spec

(* No driver that writes at once stores a frequency it cannot encode, and  *)
(* every part of the state keeps its type.                                 *)
THEOREM TypeCorrect == Spec => []TypeOK
  <1>1. IInv => TypeOK
    BY DEF IInv
  <1> QED BY <1>1, Invariance, PTL

(* Where nothing speaks against it, the device does what its driver says,  *)
(* in the middle of a call as between two.                                 *)
THEOREM DeviceFollows == Spec => []DeviceAgrees
  <1>1. IInv => DeviceAgrees
    BY DEF IInv
  <1> QED BY <1>1, Invariance, PTL

-----------------------------------------------------------------------------
(* What is owed is still to be sent.                                       *)

LEMMA WriteItemsOf ==
  ASSUME NEW S, NEW s \in Seq(S), s # <<>>
  PROVE  WriteItems(s) = DOMAIN Head(s) \cup WriteItems(Tail(s))
  <1>1. /\ DOMAIN s = 1..Len(s) /\ Len(s) \in Nat \ {0} /\ Tail(s) \in Seq(S)
        /\ Len(Tail(s)) = Len(s) - 1 /\ \A k \in 1..Len(Tail(s)) : Tail(s)[k] = s[k+1]
        /\ Head(s) = s[1]
    BY HeadTailProperties, LenProperties, EmptySeq
  <1>2. DOMAIN Tail(s) = 1..Len(Tail(s))
    BY <1>1, LenProperties
  <1>3. ASSUME NEW i \in WriteItems(s) PROVE i \in DOMAIN Head(s) \cup WriteItems(Tail(s))
    <2>1. PICK k \in 1..Len(s) : i \in DOMAIN s[k]
      BY <1>1, <1>3 DEF WriteItems
    <2>2. CASE k = 1
      BY <1>1, <2>1, <2>2
    <2>3. CASE k # 1
      <3>1. k - 1 \in 1..Len(Tail(s)) /\ Tail(s)[k-1] = s[(k-1)+1] /\ (k-1)+1 = k
        BY <1>1, <2>1, <2>3
      <3>2. k - 1 \in DOMAIN Tail(s) /\ i \in DOMAIN Tail(s)[k-1]
        BY <1>2, <2>1, <3>1
      <3> QED BY <3>2 DEF WriteItems
    <2> QED BY <2>2, <2>3
  <1>4. ASSUME NEW i \in WriteItems(Tail(s)) PROVE i \in WriteItems(s)
    <2>1. PICK k \in 1..Len(Tail(s)) : i \in DOMAIN Tail(s)[k]
      BY <1>2, <1>4 DEF WriteItems
    <2>2. k + 1 \in DOMAIN s /\ i \in DOMAIN s[k+1]
      BY <1>1, <2>1
    <2> QED BY <2>2 DEF WriteItems
  <1>5. DOMAIN Head(s) \subseteq WriteItems(s)
    <2>1. 1 \in DOMAIN s /\ s[1] = Head(s)
      BY <1>1
    <2> QED BY <2>1 DEF WriteItems
  <1> QED BY <1>3, <1>4, <1>5

LEMMA NothingWritten == WriteItems(<<>>) = {}
  BY DEF WriteItems

LEMMA CommitWrites == ASSUME NEW c PROVE WriteItems(CommitOf(c)) = Committable
  <1> DEFINE led(l) == CommitLed(c, l)
  <1>0. /\ DOMAIN SetResolution(c) = {Res} /\ DOMAIN CommitFreq(c) = {Freq}
        /\ \A l : DOMAIN led(l) = {<<l, "light">>}
    BY DEF SetResolution, CommitFreq, CommitLed, Sets
  <1> HIDE DEF led
  <1>1. CASE driver = "Krait"
    <2>1. CommitOf(c) = <<SetResolution(c)>>
      BY <1>1 DEF CommitOf, KraitCommit
    <2> QED BY <1>0, <1>1, <2>1, OneOf DEF Committable
  <1>2. CASE driver \in {"DA2013", "Taipan"}
    <2> DEFINE s == <<SetResolution(c), led("scroll"), led("logo"), CommitFreq(c)>>
    <2>1. CommitOf(c) = s
      BY <1>2 DEF CommitOf, DA2013Commit, TaipanCommit, led
    <2>2. /\ DOMAIN s = {1, 2, 3, 4} /\ s[1] = SetResolution(c) /\ s[2] = led("scroll")
          /\ s[3] = led("logo") /\ s[4] = CommitFreq(c)
      OBVIOUS
    <2> HIDE DEF s
    <2>3. WriteItems(s) = {Res, <<"scroll", "light">>, <<"logo", "light">>, Freq}
      <3>1. WriteItems(s) = DOMAIN s[1] \cup DOMAIN s[2] \cup DOMAIN s[3] \cup DOMAIN s[4]
        BY <2>2 DEF WriteItems
      <3>2. /\ DOMAIN s[1] = {Res} /\ DOMAIN s[2] = {<<"scroll", "light">>}
            /\ DOMAIN s[3] = {<<"logo", "light">>} /\ DOMAIN s[4] = {Freq}
        BY <1>0, <2>2
      <3> QED BY <3>1, <3>2
    <2>4. Committable = {Freq, Res} \cup {"scroll", "logo"} \X {"light"}
      BY <1>2 DEF Committable
    <2> QED BY <2>1, <2>3, <2>4
  <1>3. CASE driver = "Naga"
    <2> DEFINE s == <<SetResolution(c), led("scroll"), led("logo"), led("thumb"), CommitFreq(c)>>
    <2>1. CommitOf(c) = s
      BY <1>3 DEF CommitOf, NagaCommit, led
    <2>2. /\ DOMAIN s = {1, 2, 3, 4, 5} /\ s[1] = SetResolution(c) /\ s[2] = led("scroll")
          /\ s[3] = led("logo") /\ s[4] = led("thumb") /\ s[5] = CommitFreq(c)
      OBVIOUS
    <2> HIDE DEF s
    <2>3. WriteItems(s) = {Res, <<"scroll", "light">>, <<"logo", "light">>, <<"thumb", "light">>, Freq}
      <3>1. WriteItems(s) = DOMAIN s[1] \cup DOMAIN s[2] \cup DOMAIN s[3] \cup DOMAIN s[4]
                            \cup DOMAIN s[5]
        BY <2>2 DEF WriteItems
      <3>2. /\ DOMAIN s[1] = {Res} /\ DOMAIN s[2] = {<<"scroll", "light">>}
            /\ DOMAIN s[3] = {<<"logo", "light">>} /\ DOMAIN s[4] = {<<"thumb", "light">>}
            /\ DOMAIN s[5] = {Freq}
        BY <1>0, <2>2
      <3> QED BY <3>1, <3>2
    <2>4. Committable = {Freq, Res} \cup Leds \X {"light"}
      BY <1>3 DEF Committable
    <2> QED BY <2>1, <2>3, <2>4 DEF Leds
  <1>4. CASE driver \notin DeferringDrivers
    BY <1>4, NothingWritten DEF CommitOf, Committable, DeferringDrivers
  <1> QED BY <1>1, <1>2, <1>3, <1>4 DEF DeferringDrivers

(* For doubts dbt, a call k, a pending commit pend and a claim h: what is  *)
(* owed is in the commands of the call or, for a driver that defers, will  *)
(* be in the next commit's; a reconfiguration has settled, or has yet to   *)
(* send, all that the commit writes.                                       *)
Owes(dbt, k, pend, h) ==
  /\ ~Defers => \A i \in Items : dbt[i] = "owed" => i \in WriteItems(k.cmds)
  /\ Defers => \A i \in Items : dbt[i] \in {"owed", "swallowed"} =>
                 /\ pend /\ i \in Committable
                 /\ k.kind \in {"release", "reconfig"} => i \in WriteItems(k.cmds)
  /\ k.kind = "none" /\ ~h => \A i \in Items : dbt[i] # "owed"
  /\ k.kind = "none" => k.cmds = <<>>
  /\ k.kind = "reconfig" => \A i \in Committable : \/ dbt[i] \in {"none", "ignored"}
                                                   \/ i \in WriteItems(k.cmds)

Owing == Owes(doubt, call, pending, held)

LEMMA CommittableItems == Committable \subseteq Items
  BY ItemsAre DEF Committable, Leds, Parts

LEMMA SameOwing ==
  ASSUME UNCHANGED <<driver, emulated, topic>>
  PROVE  Committable' = Committable /\ (Owing' <=> Owes(doubt', call', pending', held'))
  <1>1. Committable' = Committable /\ (Defers' <=> Defers)
    BY DEF Committable, Defers
  <1> QED BY <1>1 DEF Owing, Owes

(* What a release starts with. *)
LEMMA ReleasingIs ==
  ASSUME NEW c, NEW pend
  PROVE  \/ /\ Defers /\ pend /\ ~held
            /\ Releasing(pend, c).kind = "release"
            /\ WriteItems(Releasing(pend, c).cmds) = Committable
         \/ ~(Defers /\ pend /\ ~held) /\ Releasing(pend, c) = NoCall
  <1>1. CASE Defers /\ pend /\ ~held
    <2>1. Releasing(pend, c) = [NoCall EXCEPT !.kind = "release", !.cmds = CommitOf(c)]
      BY <1>1 DEF Releasing
    <2>2. Releasing(pend, c).kind = "release" /\ Releasing(pend, c).cmds = CommitOf(c)
      BY <2>1 DEF NoCall
    <2> QED BY <1>1, <2>2, CommitWrites
  <1>2. CASE ~(Defers /\ pend /\ ~held)
    BY <1>2 DEF Releasing
  <1> QED BY <1>1, <1>2

LEMMA NoCallIs == NoCall.kind = "none" /\ NoCall.cmds = <<>> /\ WriteItems(NoCall.cmds) = {}
  BY NothingWritten DEF NoCall

LEMMA ReleasingOwes ==
  ASSUME NEW dbt \in [Items -> Doubts], NEW pend, NEW c,
         ~Defers => \A i \in Items : dbt[i] # "owed",
         Defers => \A i \in Items : dbt[i] \in {"owed", "swallowed"} => pend /\ i \in Committable
  PROVE  Owes(dbt, Releasing(pend, c), pend, held)
  <1> DEFINE k == Releasing(pend, c)
  <1>1. CASE Defers /\ pend /\ ~held
    <2>1. k.kind = "release" /\ WriteItems(k.cmds) = Committable
      BY <1>1, ReleasingIs
    <2> HIDE DEF k
    <2> QED BY <1>1, <2>1 DEF Owes, k
  <1>2. CASE ~(Defers /\ pend /\ ~held)
    <2>1. k.kind = "none" /\ k.cmds = <<>>
      BY <1>2, ReleasingIs, NoCallIs
    <2> HIDE DEF k
    <2>2. ~held => \A i \in Items : dbt[i] # "owed"
      BY <1>2
    <2> QED BY <2>1, <2>2 DEF Owes, k
  <1> QED BY <1>1, <1>2

(* An aborted call: of the doubts dbt, none is owed or swallowed that was  *)
(* not.                                                                    *)
LEMMA AbortOwes ==
  ASSUME IInv, Owing, NEW dbt \in [Items -> Doubts], Abort(dbt, pending), UNCHANGED held,
         \A i \in Items : dbt[i] \in {"owed", "swallowed"} => doubt[i] = dbt[i]
  PROVE  Owes(doubt', call', pending, held')
  <1>0. Owes(doubt, call, pending, held)
    BY DEF Owing
  <1> DEFINE why == IF call.kind = "release" THEN "swallowed"
                    ELSE IF call.kind = "probe" THEN "unsent" ELSE IF Defers THEN "owed" ELSE "told"
  <1>1. doubt' = [i \in Items |-> IF dbt[i] = "owed" THEN why ELSE dbt[i]]
    BY DEF Abort
  <1>9. /\ why \in {"swallowed", "unsent", "owed", "told"}
        /\ call.kind = "release" => why = "swallowed"
        /\ call.kind = "probe" => why = "unsent"
        /\ ~Defers => why # "owed"
    OBVIOUS
  <1> HIDE DEF why
  <1>2. /\ doubt' \in [Items -> Doubts]
        /\ \A i \in Items : doubt'[i] = IF dbt[i] = "owed" THEN why ELSE dbt[i]
    BY <1>1, <1>9 DEF Doubts
  <1>3. ~Defers => \A i \in Items : doubt'[i] # "owed"
    BY <1>2, <1>9
  <1>4. Defers => \A i \in Items : doubt'[i] \in {"owed", "swallowed"} => pending /\ i \in Committable
    BY <1>0, <1>2 DEF Owes
  <1>5. CASE call.kind \in {"probe", "release"}
    <2>1. call' = NoCall
      BY <1>5 DEF Abort
    <2>2. \A i \in Items : doubt'[i] # "owed"
      <3>1. why # "owed"
        BY <1>5, <1>9
      <3> QED BY <1>2, <3>1
    <2> QED BY <1>4, <2>1, <2>2, NoCallIs DEF Owes
  <1>6. CASE call.kind \notin {"probe", "release"}
    <2>1. call' = Releasing(pending, cache)
      BY <1>6 DEF Abort
    <2>2. Owes(doubt', Releasing(pending, cache), pending, held)
      BY <1>2, <1>3, <1>4, ReleasingOwes
    <2> QED BY <2>1, <2>2
  <1> QED BY <1>5, <1>6

LEMMA RunCallbackOwes == ASSUME IInv, Owing, RunCallback PROVE Owing'
  <1> DEFINE r == Effect(Head(call.cbs))
  <1>0. UNCHANGED <<driver, emulated, topic, held>> /\ call.kind \in {"probe", "command"} /\ call.cmds = <<>>
        /\ Owes(doubt, call, pending, held)
    BY DEF RunCallback, Owing
  <1>1. Head(call.cbs) \in Callbacks
    <2>1. call.cbs \in Seq(Callbacks) /\ call.cbs # <<>>
      BY DEF IInv, Calls, RunCallback
    <2> QED BY <2>1, HeadTailProperties
  <1>2. Sound(cache, r)
    BY <1>1, EffectSound DEF IInv, TypeOK
  <1>3. CASE r.err
    <2>1. Abort(doubt, pending) /\ UNCHANGED pending
      BY <1>3 DEF RunCallback
    <2>2. Owes(doubt', call', pending, held')
      BY <1>0, <2>1, AbortOwes DEF IInv, TypeOK, Doubts
    <2> QED BY <1>0, <2>1, <2>2, SameOwing
  <1>4. CASE ~r.err
    <2>1. /\ doubt' = Become(r.owed, "owed") /\ pending' = (pending \/ r.defer)
          /\ call' = [call EXCEPT !.cmds = r.cmds, !.cbs = Tail(@)]
      BY <1>4 DEF RunCallback
    <2> HIDE DEF r
    <2>2. call'.kind \in {"probe", "command"} /\ call'.cmds = r.cmds
      BY <1>0, <2>1 DEF IInv, Calls
    <2>3. \A i \in Items : doubt'[i] = IF i \in r.owed THEN "owed" ELSE doubt[i]
      BY <2>1, BecomeIs DEF Doubts
    <2>4. ~Defers => \A i \in Items : doubt'[i] = "owed" => i \in WriteItems(call'.cmds)
      <3> SUFFICES ASSUME ~Defers, NEW i \in Items, doubt'[i] = "owed"
                   PROVE  i \in WriteItems(call'.cmds)
        OBVIOUS
      <3>1. doubt[i] # "owed"
        BY <1>0, NothingWritten DEF Owes
      <3> QED BY <1>2, <1>4, <2>2, <2>3, <3>1 DEF Sound
    <2>5. Defers => \A i \in Items : doubt'[i] \in {"owed", "swallowed"} =>
                      pending' /\ i \in Committable
      <3> SUFFICES ASSUME Defers, NEW i \in Items, doubt'[i] \in {"owed", "swallowed"}
                   PROVE  pending' /\ i \in Committable
        OBVIOUS
      <3>1. r.defer /\ r.owed \subseteq Committable
        BY <1>2, <1>4 DEF Sound
      <3>2. CASE i \in r.owed
        BY <2>1, <3>1, <3>2
      <3>3. CASE i \notin r.owed
        <4>1. doubt[i] \in {"owed", "swallowed"}
          BY <2>3, <3>3
        <4> QED BY <1>0, <2>1, <4>1 DEF Owes
      <3> QED BY <3>2, <3>3
    <2>6. Owes(doubt', call', pending', held')
      BY <2>2, <2>4, <2>5 DEF Owes
    <2> QED BY <1>0, <2>6, SameOwing
  <1> QED BY <1>3, <1>4

(* One command less to send: its items are no longer owed.                 *)
LEMMA SentOwes ==
  ASSUME IInv, Owing, call.cmds # <<>>, UNCHANGED <<driver, emulated, topic, pending, held>>,
         call' = [call EXCEPT !.cmds = Tail(@)],
         \A i \in Items : i \in DOMAIN Head(call.cmds) => doubt'[i] \in {"none", "ignored"},
         \A i \in Items : i \notin DOMAIN Head(call.cmds) => doubt'[i] = doubt[i]
  PROVE  Owing'
  <1>1. Owes(doubt, call, pending, held)
    BY DEF Owing
  <1>2. call'.kind = call.kind /\ call'.cmds = Tail(call.cmds)
    BY DEF IInv, Calls
  <1>3. call.cmds \in Seq(CommandsFor(cache))
    BY DEF IInv, Calls
  <1>4. WriteItems(call.cmds) = DOMAIN Head(call.cmds) \cup WriteItems(call'.cmds)
    BY <1>2, <1>3, WriteItemsOf
  <1>5. call.kind # "none"
    BY <1>1 DEF Owes
  <1>6. ~Defers => \A i \in Items : doubt'[i] = "owed" => i \in WriteItems(call'.cmds)
    <2> SUFFICES ASSUME ~Defers, NEW i \in Items, doubt'[i] = "owed"
                 PROVE  i \in WriteItems(call'.cmds)
      OBVIOUS
    <2>1. i \notin DOMAIN Head(call.cmds) /\ doubt[i] = "owed"
      OBVIOUS
    <2>2. i \in WriteItems(call.cmds)
      BY <1>1, <2>1 DEF Owes
    <2> QED BY <1>4, <2>1, <2>2
  <1>7. Defers => \A i \in Items : doubt'[i] \in {"owed", "swallowed"} =>
                    /\ pending /\ i \in Committable
                    /\ call'.kind \in {"release", "reconfig"} => i \in WriteItems(call'.cmds)
    <2> SUFFICES ASSUME Defers, NEW i \in Items, doubt'[i] \in {"owed", "swallowed"}
                 PROVE  /\ pending /\ i \in Committable
                        /\ call'.kind \in {"release", "reconfig"} => i \in WriteItems(call'.cmds)
      OBVIOUS
    <2>1. i \notin DOMAIN Head(call.cmds) /\ doubt[i] \in {"owed", "swallowed"}
      OBVIOUS
    <2>2. /\ pending /\ i \in Committable
          /\ call.kind \in {"release", "reconfig"} => i \in WriteItems(call.cmds)
      BY <1>1, <2>1 DEF Owes
    <2> QED BY <1>2, <1>4, <2>1, <2>2
  <1>9. call'.kind = "reconfig" => \A i \in Committable : \/ doubt'[i] \in {"none", "ignored"}
                                                          \/ i \in WriteItems(call'.cmds)
    <2> SUFFICES ASSUME call'.kind = "reconfig", NEW i \in Committable,
                        doubt'[i] \notin {"none", "ignored"}
                 PROVE  i \in WriteItems(call'.cmds)
      OBVIOUS
    <2>1. i \in Items /\ i \notin DOMAIN Head(call.cmds) /\ doubt[i] = doubt'[i]
      BY CommittableItems
    <2>2. i \in WriteItems(call.cmds)
      BY <1>1, <1>2, <2>1 DEF Owes
    <2> QED BY <1>4, <2>1, <2>2
  <1>10. Owes(doubt', call', pending', held')
    BY <1>2, <1>5, <1>6, <1>7, <1>9 DEF Owes
  <1> QED BY <1>10, SameOwing

LEMMA TransferOwes == ASSUME IInv, Owing, Transfer PROVE Owing'
  <1> DEFINE cmd == Head(call.cmds)
  <1>0. UNCHANGED <<driver, emulated, topic, pending, held>> /\ call.cmds # <<>>
    BY DEF Transfer
  <1>1. \/ doubt' = Become(DOMAIN cmd, "none") /\ call' = [call EXCEPT !.cmds = Tail(@)]
        \/ /\ doubt' = Become({i \in DOMAIN cmd : doubt[i] # "none"}, "ignored")
           /\ call' = [call EXCEPT !.cmds = Tail(@)]
        \/ Abort(doubt, pending)
    BY DEF Transfer
  <1> HIDE DEF cmd
  <1>2. CASE doubt' = Become(DOMAIN cmd, "none") /\ call' = [call EXCEPT !.cmds = Tail(@)]
    <2>1. \A i \in Items : doubt'[i] = IF i \in DOMAIN cmd THEN "none" ELSE doubt[i]
      BY <1>2, BecomeIs DEF Doubts
    <2> QED BY <1>0, <1>2, <2>1, SentOwes DEF cmd
  <1>3. CASE /\ doubt' = Become({i \in DOMAIN cmd : doubt[i] # "none"}, "ignored")
             /\ call' = [call EXCEPT !.cmds = Tail(@)]
    <2>1. \A i \in Items : doubt'[i] = IF i \in {j \in DOMAIN cmd : doubt[j] # "none"}
                                       THEN "ignored" ELSE doubt[i]
      BY <1>3, BecomeIs DEF Doubts
    <2>2. /\ \A i \in Items : i \in DOMAIN cmd => doubt'[i] \in {"none", "ignored"}
          /\ \A i \in Items : i \notin DOMAIN cmd => doubt'[i] = doubt[i]
      BY <2>1
    <2> QED BY <1>0, <1>3, <2>2, SentOwes DEF cmd
  <1>4. CASE Abort(doubt, pending)
    <2>1. Owes(doubt', call', pending, held')
      BY <1>0, <1>4, AbortOwes DEF IInv, TypeOK, Doubts
    <2> QED BY <1>0, <2>1, SameOwing
  <1> QED BY <1>1, <1>2, <1>3, <1>4

LEMMA EncodeOwes == ASSUME IInv, Owing, Encode PROVE Owing'
  <1>1. Abort(doubt, pending) /\ UNCHANGED <<driver, emulated, topic, pending, held>>
    BY DEF Encode
  <1>2. Owes(doubt', call', pending', held')
    BY <1>1, AbortOwes DEF IInv, TypeOK, Doubts
  <1> QED BY <1>1, <1>2, SameOwing

LEMMA ProbeOwes == ASSUME IInv, Owing, Probe PROVE Owing'
  <1>1. UNCHANGED <<driver, emulated, topic>> /\ \A i \in Items : doubt'[i] = "unsent"
    BY DEF Probe
  <1>2. call'.kind = "probe"
    BY DEF Probe, NoCall
  <1>3. Owes(doubt', call', pending', held')
    BY <1>1, <1>2 DEF Owes
  <1> QED BY <1>1, <1>3, SameOwing

LEMMA CommandOwes == ASSUME IInv, Owing, NEW cbs, Command(cbs) PROVE Owing'
  <1>0. UNCHANGED <<driver, emulated, topic, doubt, pending, held>> /\ Owes(doubt, call, pending, held)
    BY DEF Command, Owing
  <1>1. call.kind = "none" /\ call.cmds = <<>>
    BY <1>0 DEF Command, Idle, Owes
  <1>2. call'.kind = "command" /\ call'.cmds = <<>>
    BY DEF Command, NoCall
  <1>3. Owes(doubt', call', pending', held')
    BY <1>0, <1>1, <1>2 DEF Owes
  <1> QED BY <1>0, <1>3, SameOwing

LEMMA FinishOwes == ASSUME IInv, Owing, FinishProbe \/ FinishCommand PROVE Owing'
  <1>0. /\ UNCHANGED <<driver, emulated, topic, doubt, pending, held>> /\ Owes(doubt, call, pending, held)
        /\ call.cmds = <<>> /\ call' = Releasing(pending, cache)
    BY DEF FinishProbe, FinishCommand, Owing
  <1>1. /\ ~Defers => \A i \in Items : doubt[i] # "owed"
        /\ Defers => \A i \in Items : doubt[i] \in {"owed", "swallowed"} => pending /\ i \in Committable
    BY <1>0, NothingWritten DEF Owes
  <1>2. Owes(doubt, Releasing(pending, cache), pending, held)
    BY <1>1, ReleasingOwes DEF IInv, TypeOK, Doubts
  <1>3. Owes(doubt', call', pending', held')
    BY <1>0, <1>2
  <1> QED BY <1>0, <1>3, SameOwing

(* The commit of a release or a reconfiguration has left nothing owed. *)
LEMMA CommittedOwes ==
  ASSUME IInv, Owing, FinishRelease \/ FinishReconfig
  PROVE  Owing'
  <1>0. /\ UNCHANGED <<driver, emulated, topic, doubt, held>> /\ Owes(doubt, call, pending, held)
        /\ call.cmds = <<>> /\ call.kind \in {"release", "reconfig"} /\ call' = NoCall
    BY DEF FinishRelease, FinishReconfig, Owing
  <1>1. \A i \in Items : doubt[i] # "owed"
    BY <1>0, NothingWritten DEF Owes
  <1>2. Defers => \A i \in Items : doubt[i] \notin {"owed", "swallowed"}
    BY <1>0, NothingWritten DEF Owes
  <1>3. Owes(doubt', call', pending', held')
    BY <1>0, <1>1, <1>2, NoCallIs DEF Owes
  <1> QED BY <1>0, <1>3, SameOwing

LEMMA ReconfigOwes == ASSUME IInv, Owing, Reconfig PROVE Owing'
  <1>0. UNCHANGED <<driver, emulated, topic, doubt, pending, held>> /\ Owes(doubt, call, pending, held)
    BY DEF Reconfig, Owing
  <1>1. call.kind = "none" /\ call.cmds = <<>>
    BY <1>0 DEF Reconfig, Idle, Owes
  <1>2. call'.kind = "reconfig" /\ call'.cmds = CommitOf(cache)
    BY DEF Reconfig, NoCall
  <1>3. WriteItems(call'.cmds) = Committable
    BY <1>2, CommitWrites
  <1>4. ~Defers => \A i \in Items : doubt[i] # "owed"
    BY <1>0, <1>1, NothingWritten DEF Owes
  <1>5. Owes(doubt', call', pending', held')
    BY <1>0, <1>2, <1>3, <1>4 DEF Owes
  <1> QED BY <1>0, <1>5, SameOwing

LEMMA HoldOwes == ASSUME IInv, Owing, Hold PROVE Owing'
  <1>0. UNCHANGED <<driver, emulated, topic, doubt, pending, call>> /\ Owes(doubt, call, pending, held)
        /\ call.kind = "none" /\ held' = TRUE
    BY DEF Hold, Owing, Idle
  <1>1. Owes(doubt', call', pending', held')
    BY <1>0 DEF Owes
  <1> QED BY <1>0, <1>1, SameOwing

LEMMA UnholdOwes == ASSUME IInv, Owing, Unhold PROVE Owing'
  <1>0. UNCHANGED <<driver, emulated, topic, doubt, pending>> /\ Owes(doubt, call, pending, held)
        /\ call.kind = "none" /\ held' = FALSE
    BY DEF Unhold, Owing, Idle
  <1>1. CASE Defers /\ pending
    <2>1. call'.kind = "release" /\ call'.cmds = CommitOf(cache)
      BY <1>1 DEF Unhold, NoCall
    <2>2. WriteItems(call'.cmds) = Committable
      BY <2>1, CommitWrites
    <2>3. Owes(doubt', call', pending', held')
      BY <1>0, <1>1, <2>1, <2>2 DEF Owes
    <2> QED BY <1>0, <2>3, SameOwing
  <1>2. CASE ~(Defers /\ pending)
    <2>1. call' = NoCall
      BY <1>2 DEF Unhold
    <2>2. \A i \in Items : doubt[i] # "owed"
      BY <1>0, <1>2, NothingWritten DEF Owes
    <2>3. Owes(doubt', call', pending', held')
      BY <1>0, <2>1, <2>2, NoCallIs DEF Owes
    <2> QED BY <1>0, <2>3, SameOwing
  <1> QED BY <1>1, <1>2

LEMMA PowerLossOwes == ASSUME IInv, Owing, PowerLoss PROVE Owing'
  <1> DEFINE dbt == [i \in Items |-> IF doubt[i] = "owed" THEN "owed" ELSE "lost"]
  <1>0. UNCHANGED <<driver, emulated, topic, pending, held>> /\ Owes(doubt, call, pending, held)
    BY DEF PowerLoss, Owing
  <1>1. /\ dbt \in [Items -> Doubts]
        /\ \A i \in Items : dbt[i] = IF doubt[i] = "owed" THEN "owed" ELSE "lost"
    BY DEF Doubts
  <1>2. \/ Idle /\ doubt' = dbt /\ UNCHANGED call
        \/ Abort(dbt, pending)
    BY DEF PowerLoss
  <1> HIDE DEF dbt
  <1>3. CASE Idle /\ doubt' = dbt /\ UNCHANGED call
    <2>1. Owes(doubt', call', pending', held')
      BY <1>0, <1>1, <1>3 DEF Owes, Idle
    <2> QED BY <1>0, <2>1, SameOwing
  <1>4. CASE Abort(dbt, pending)
    <2>1. \A i \in Items : dbt[i] \in {"owed", "swallowed"} => doubt[i] = dbt[i]
      BY <1>1
    <2>2. Owes(doubt', call', pending', held')
      BY <1>0, <1>1, <1>4, <2>1, AbortOwes
    <2> QED BY <1>0, <2>2, SameOwing
  <1> QED BY <1>2, <1>3, <1>4

LEMMA RemoveOwes == ASSUME IInv, Owing, Remove PROVE Owing'
  <1>0. UNCHANGED <<driver, emulated, topic, call>> /\ Owes(doubt, call, pending, held)
        /\ call.kind = "none" /\ \A i \in Items : doubt'[i] = "unsent"
    BY DEF Remove, Owing, Idle
  <1>1. Owes(doubt', call', pending', held')
    BY <1>0 DEF Owes
  <1> QED BY <1>0, <1>1, SameOwing

LEMMA OwingInvariance == Spec => [](IInv /\ Owing)
  <1>1. Init => Owing
    <2> SUFFICES ASSUME Init PROVE Owing
      OBVIOUS
    <2>1. call = NoCall /\ \A i \in Items : doubt[i] = "unsent"
      BY DEF Init
    <2> QED BY <2>1, NoCallIs DEF Owing, Owes
  <1>2. IInv /\ Owing /\ [Next]_vars => Owing'
    <2> SUFFICES ASSUME IInv, Owing, [Next]_vars PROVE Owing'
      OBVIOUS
    <2>1. CASE \/ ProfileCommand \/ SetFreqCommand \/ SetDpiMapping \/ ChangeDpiMapping
               \/ SetLed
      BY <2>1, CommandOwes
         DEF ProfileCommand, SetFreqCommand, SetDpiMapping, ChangeDpiMapping, SetLed
    <2>2. CASE UNCHANGED vars
      <3>1. UNCHANGED <<driver, emulated, topic, doubt, call, pending, held>>
        BY <2>2 DEF vars
      <3> QED BY <3>1, SameOwing DEF Owing
    <2> QED BY <2>1, <2>2, ProbeOwes, RunCallbackOwes, EncodeOwes, TransferOwes,
               FinishOwes, CommittedOwes, ReconfigOwes, HoldOwes, UnholdOwes,
               PowerLossOwes, RemoveOwes DEF Next
  <1> QED BY <1>1, <1>2, Invariance, PTL DEF Spec

(* Between two events, when nobody claims the mouse, no accepted setting   *)
(* is left over unless its command failed or its commit did; and what a    *)
(* deferring driver still owes stays pending.                              *)
THEOREM NothingOwed == Spec => []NothingForgotten
  <1>1. Owing => NothingForgotten
    BY DEF Owing, Owes, NothingForgotten, Idle
  <1> QED BY <1>1, OwingInvariance, PTL

(* A reconfiguration that went through has given the device everything its *)
(* commit writes.                                                          *)
THEOREM Restored == Spec => ReconfigRestores
  <1>1. IInv /\ Owing /\ [Next]_vars =>
          [FinishReconfig =>
             \A i \in WriteItems(CommitOf(cache)) : doubt'[i] \in {"none", "ignored"}]_vars
    <2> SUFFICES ASSUME Owing, FinishReconfig, NEW i \in WriteItems(CommitOf(cache))
                 PROVE  doubt'[i] \in {"none", "ignored"}
      OBVIOUS
    <2>1. /\ Owes(doubt, call, pending, held) /\ doubt' = doubt
          /\ call.kind = "reconfig" /\ call.cmds = <<>>
      BY DEF Owing, FinishReconfig
    <2>2. i \in Committable
      BY CommitWrites
    <2> QED BY <2>1, <2>2, NothingWritten DEF Owes
  <1> QED BY <1>1, OwingInvariance, PTL DEF Spec, ReconfigRestores

-----------------------------------------------------------------------------
(* Without a fault only a frequency gets stuck: it is the last thing that  *)
(* a commit sends.                                                         *)

FreqLast(cmds) ==
  \A k \in 1..Len(cmds) :
    Freq \in DOMAIN cmds[k] => k = Len(cmds) /\ DOMAIN cmds[k] = {Freq}

Stuck ==
  /\ OnlyFreqIsStuck
  /\ Defers => FreqLast(call.cmds)

LEMMA CommitsFreqLast ==
  ASSUME NEW c
  PROVE  FreqLast(CommitOf(c)) /\ FreqLast(NagaCommit(c)) /\ FreqLast(TaipanCommit(c))
  <1> DEFINE r == SetResolution(c)
             f == CommitFreq(c)
             led(l) == CommitLed(c, l)
  <1>0. DOMAIN r = {Res} /\ DOMAIN f = {Freq} /\ \A l : DOMAIN led(l) = {<<l, "light">>}
    BY DEF SetResolution, CommitFreq, CommitLed, Sets
  <1>1. Freq # Res /\ Freq # <<"scroll", "light">> /\ Freq # <<"logo", "light">>
        /\ Freq # <<"thumb", "light">>
    BY DEF Freq, Res
  <1>2. /\ KraitCommit(c) = <<r>> /\ DA2013Commit(c) = <<r, led("scroll"), led("logo"), f>>
        /\ TaipanCommit(c) = <<r, led("scroll"), led("logo"), f>>
        /\ NagaCommit(c) = <<r, led("scroll"), led("logo"), led("thumb"), f>>
    BY DEF KraitCommit, DA2013Commit, TaipanCommit, NagaCommit
  <1> HIDE DEF r, f, led
  <1>3. FreqLast(<<r>>)
    BY <1>0, <1>1 DEF FreqLast
  <1>4. FreqLast(<<r, led("scroll"), led("logo"), f>>)
    <2> DEFINE s == <<r, led("scroll"), led("logo"), f>>
    <2>1. Len(s) = 4 /\ s[1] = r /\ s[2] = led("scroll") /\ s[3] = led("logo") /\ s[4] = f
      OBVIOUS
    <2> HIDE DEF s
    <2>2. \A k \in 1..3 : Freq \notin DOMAIN s[k]
      <3> SUFFICES ASSUME NEW k \in 1..3 PROVE Freq \notin DOMAIN s[k]
        OBVIOUS
      <3>1. k = 1 \/ k = 2 \/ k = 3
        OBVIOUS
      <3> QED BY <1>0, <1>1, <2>1, <3>1
    <2>3. \A k \in 1..4 : Freq \in DOMAIN s[k] => k = 4
      BY <2>2
    <2>4. FreqLast(s)
      BY <1>0, <2>1, <2>3 DEF FreqLast
    <2> QED BY <2>4 DEF s
  <1>5. FreqLast(<<r, led("scroll"), led("logo"), led("thumb"), f>>)
    <2> DEFINE s == <<r, led("scroll"), led("logo"), led("thumb"), f>>
    <2>1. /\ Len(s) = 5 /\ s[1] = r /\ s[2] = led("scroll") /\ s[3] = led("logo")
          /\ s[4] = led("thumb") /\ s[5] = f
      OBVIOUS
    <2> HIDE DEF s
    <2>2. \A k \in 1..4 : Freq \notin DOMAIN s[k]
      <3> SUFFICES ASSUME NEW k \in 1..4 PROVE Freq \notin DOMAIN s[k]
        OBVIOUS
      <3>1. k = 1 \/ k = 2 \/ k = 3 \/ k = 4
        OBVIOUS
      <3> QED BY <1>0, <1>1, <2>1, <3>1
    <2>3. \A k \in 1..5 : Freq \in DOMAIN s[k] => k = 5
      BY <2>2
    <2>4. FreqLast(s)
      BY <1>0, <2>1, <2>3 DEF FreqLast
    <2> QED BY <2>4 DEF s
  <1>6. FreqLast(<<>>)
    BY DEF FreqLast
  <1>7. CommitOf(c) \in {KraitCommit(c), DA2013Commit(c), TaipanCommit(c), NagaCommit(c), <<>>}
    BY DEF CommitOf
  <1> QED BY <1>2, <1>3, <1>4, <1>5, <1>6, <1>7

LEMMA TailFreqLast ==
  ASSUME NEW S, NEW s \in Seq(S), s # <<>>, FreqLast(s)
  PROVE  FreqLast(Tail(s))
  <1>1. /\ Len(s) \in Nat \ {0} /\ Len(Tail(s)) = Len(s) - 1
        /\ \A k \in 1..Len(Tail(s)) : Tail(s)[k] = s[k+1]
    BY HeadTailProperties, LenProperties, EmptySeq
  <1> SUFFICES ASSUME NEW k \in 1..Len(Tail(s)), Freq \in DOMAIN Tail(s)[k]
               PROVE  k = Len(Tail(s)) /\ DOMAIN Tail(s)[k] = {Freq}
    BY DEF FreqLast
  <1>2. k + 1 \in 1..Len(s) /\ Tail(s)[k] = s[k+1]
    BY <1>1
  <1>3. k + 1 = Len(s) /\ DOMAIN s[k+1] = {Freq}
    BY <1>2 DEF FreqLast
  <1>4. k = Len(Tail(s))
    <2>1. Len(s) \in Nat \ {0} /\ Len(Tail(s)) = Len(s) - 1 /\ k \in Int
      BY <1>1
    <2> QED BY <1>3, <2>1
  <1>5. DOMAIN Tail(s)[k] = {Freq}
    BY <1>2, <1>3
  <1> QED BY <1>4, <1>5

LEMMA StartFreqLast ==
  ASSUME driver \in Drivers, Defers
  PROVE  FreqLast(Initial.cmds)
  <1> DEFINE c == Defaults(1000, [initial |-> 1000, other |-> 100], "static", "white")
             t == NagaCommit(c)
             s == <<Query>>
  <1>1. Initial \in {KraitInit, DA2013Init, TaipanInit, NagaInit}
    BY DEF Initial, Defers, DeferringDrivers
  <1>2. /\ KraitInit.cmds = <<>> /\ DA2013Init.cmds = <<>> /\ TaipanInit.cmds = TaipanCommit(c)
        /\ NagaInit.cmds = s \o t
    BY DEF KraitInit, DA2013Init, TaipanInit, NagaInit
  <1> HIDE DEF c
  <1>3. s \in Seq(CommandsFor(c)) /\ t \in Seq(CommandsFor(c)) /\ FreqLast(t)
    BY QueryCommand, OneCommand, CommitsSound, CommitsFreqLast
  <1>4. Len(s) = 1 /\ s[1] = Query /\ DOMAIN Query = {}
    BY DEF Query
  <1> HIDE DEF s, t
  <1>5. FreqLast(s \o t)
    <2>0. /\ Len(s \o t) = Len(s) + Len(t)
          /\ \A k \in 1..Len(s) + Len(t) : (s \o t)[k] = IF k <= Len(s) THEN s[k] ELSE t[k - Len(s)]
      BY <1>3, ConcatProperties
    <2>1. Len(t) \in Nat /\ Len(s \o t) = 1 + Len(t)
          /\ \A k \in 1..(1 + Len(t)) : (s \o t)[k] = IF k <= 1 THEN s[k] ELSE t[k - 1]
      BY <1>3, <1>4, <2>0, LenProperties
    <2> SUFFICES ASSUME NEW k \in 1..(1 + Len(t)), Freq \in DOMAIN (s \o t)[k]
                 PROVE  k = 1 + Len(t) /\ DOMAIN (s \o t)[k] = {Freq}
      BY <2>1 DEF FreqLast
    <2>2. k # 1
      BY <1>4, <2>1
    <2>3. k - 1 \in 1..Len(t) /\ (s \o t)[k] = t[k - 1]
      BY <2>1, <2>2
    <2>4. k - 1 = Len(t) /\ DOMAIN t[k - 1] = {Freq}
      BY <1>3, <2>3 DEF FreqLast
    <2> QED BY <2>1, <2>3, <2>4
  <1>6. FreqLast(<<>>)
    BY DEF FreqLast
  <1> QED BY <1>1, <1>2, <1>5, <1>6, CommitsFreqLast

LEMMA SameStuck ==
  ASSUME UNCHANGED <<driver, emulated, topic>>
  PROVE  Stuck' <=> /\ faults' = 0 =>
                         \A i \in Items : /\ doubt'[i] \notin {"told", "ignored", "lost"}
                                          /\ doubt'[i] = "swallowed" => i = Freq /\ ~Encodable(cache')
                    /\ Defers => FreqLast(call'.cmds)
  BY DEF Stuck, OnlyFreqIsStuck, Defers, FreqLast

LEMMA EmptyFreqLast == FreqLast(<<>>)
  BY DEF FreqLast

LEMMA ReleasingFreqLast == ASSUME NEW pend, NEW c PROVE FreqLast(Releasing(pend, c).cmds)
  <1>1. CASE Releasing(pend, c) = NoCall
    BY <1>1, NoCallIs, EmptyFreqLast
  <1>2. CASE Releasing(pend, c) = [NoCall EXCEPT !.kind = "release", !.cmds = CommitOf(c)]
    <2>1. Releasing(pend, c).cmds = CommitOf(c)
      BY <1>2 DEF NoCall
    <2> QED BY <2>1, CommitsFreqLast
  <1> QED BY <1>1, <1>2 DEF Releasing

LEMMA AbortFreqLast == ASSUME NEW dbt, Abort(dbt, pending) PROVE FreqLast(call'.cmds)
  <1>1. call' = NoCall \/ call' = Releasing(pending, cache)
    BY DEF Abort
  <1> QED BY <1>1, NoCallIs, EmptyFreqLast, ReleasingFreqLast

(* Without a fault, a step that spoils no doubt and keeps the frequency as *)
(* hard to encode as it was.                                               *)
LEMMA QuietStuck ==
  ASSUME Stuck, UNCHANGED <<driver, emulated, topic, faults>>, Defers => FreqLast(call'.cmds),
         \A i \in Items : doubt'[i] \in {"none", "owed", "unsent"} \/ doubt'[i] = doubt[i],
         Encodable(cache') => \/ Encodable(cache)
                              \/ \A i \in Items : doubt'[i] # "swallowed"
  PROVE  Stuck'
  BY SameStuck DEF Stuck, OnlyFreqIsStuck

LEMMA RunCallbackStuck == ASSUME IInv, Owing, Stuck, RunCallback PROVE Stuck'
  <1> DEFINE r == Effect(Head(call.cbs))
  <1>0. /\ UNCHANGED <<driver, emulated, topic, faults>> /\ call.cmds = <<>>
        /\ Owes(doubt, call, pending, held)
    BY DEF RunCallback, Owing
  <1>1. Head(call.cbs) \in Callbacks
    <2>1. call.cbs \in Seq(Callbacks) /\ call.cbs # <<>>
      BY DEF IInv, Calls, RunCallback
    <2> QED BY <2>1, HeadTailProperties
  <1>2. Sound(cache, r)
    BY <1>1, EffectSound DEF IInv, TypeOK
  <1>3. CASE r.err
    <2>1. Abort(doubt, pending) /\ UNCHANGED cache
      BY <1>3 DEF RunCallback
    <2>2. FreqLast(call'.cmds)
      BY <2>1, AbortFreqLast
    <2>3. ~Defers => \A i \in Items : doubt[i] # "owed"
      BY <1>0, NothingWritten DEF Owes
    <2>4. \A i \in Items : doubt'[i] \in {"owed", "unsent"} \/ doubt'[i] = doubt[i]
      <3> SUFFICES ASSUME NEW i \in Items, doubt'[i] # doubt[i] PROVE doubt'[i] \in {"owed", "unsent"}
        OBVIOUS
      <3>1. doubt[i] = "owed"
        BY <2>1 DEF Abort
      <3>2. Defers /\ call.kind # "release"
        BY <2>3, <3>1 DEF RunCallback
      <3> QED BY <2>1, <3>1, <3>2 DEF Abort
    <2> QED BY <1>0, <2>1, <2>2, <2>4, QuietStuck
  <1>4. CASE ~r.err
    <2>1. /\ doubt' = Become(r.owed, "owed") /\ cache' = r.cache
          /\ call' = [call EXCEPT !.cmds = r.cmds, !.cbs = Tail(@)]
      BY <1>4 DEF RunCallback
    <2> HIDE DEF r
    <2>2. call'.cmds = r.cmds
      BY <2>1 DEF IInv, Calls
    <2>3. \A i \in Items : doubt'[i] = IF i \in r.owed THEN "owed" ELSE doubt[i]
      BY <2>1, BecomeIs DEF Doubts
    <2>4. Defers => FreqLast(call'.cmds)
      BY <1>2, <1>4, <2>2, EmptyFreqLast DEF Sound
    <2>5. ASSUME Freq \notin r.owed
          PROVE  Encodable(cache') => Encodable(cache)
      <3>1. Follows(cache, Freq) \subseteq Follows(cache', Freq)
        BY <1>2, <1>4, <2>1, <2>5, ItemsAre DEF Sound
      <3>2. CASE Defers
        <4>1. Encoded(cache.freq) = Encoded(cache'.freq)
          BY <3>1, <3>2, FollowsFreq
        <4> QED BY <4>1 DEF Encodable
      <3>3. CASE ~Defers
        <4>1. cache.freq = cache'.freq
          BY <3>1, <3>3, FollowsFreq
        <4> QED BY <4>1 DEF Encodable
      <3> QED BY <3>2, <3>3
    <2>6. CASE faults' # 0
      BY <1>0, <2>4, <2>6, SameStuck
    <2>7. CASE faults' = 0
      <3>1. \A i \in Items : doubt[i] = "swallowed" => i = Freq
        BY <1>0, <2>7 DEF Stuck, OnlyFreqIsStuck
      <3>2. Encodable(cache') => \/ Encodable(cache)
                                 \/ \A i \in Items : doubt'[i] # "swallowed"
        BY <2>3, <2>5, <3>1
      <3> QED BY <1>0, <2>3, <2>4, <3>2, QuietStuck
    <2> QED BY <2>6, <2>7
  <1> QED BY <1>3, <1>4

(* Only a commit meets a frequency that has no encoding, and then nothing  *)
(* else is left to send.                                                   *)
LEMMA EncodeStuck == ASSUME IInv, Owing, Stuck, Encode PROVE Stuck'
  <1> DEFINE cmd == Head(call.cmds)
  <1>0. /\ UNCHANGED <<driver, emulated, topic, cache, faults>> /\ call.cmds # <<>>
        /\ Abort(doubt, pending) /\ Owes(doubt, call, pending, held)
        /\ Freq \in DOMAIN cmd /\ cmd[Freq] \notin SupportedFreqs
    BY DEF Encode, Unencodable, Owing
  <1>1. call.cmds \in Seq(CommandsFor(cache)) /\ cmd \in CommandsFor(cache)
    BY <1>0, RestOfCall DEF IInv, Calls
  <1>2. cmd[Freq] \in Follows(cache, Freq)
    BY <1>0, <1>1, CommandParts
  <1>3. Defers
    <2> SUFFICES ASSUME ~Defers PROVE FALSE
      OBVIOUS
    <2>1. cmd[Freq] = cache.freq
      BY <1>2, FollowsFreq
    <2> QED BY <1>0, <2>1 DEF IInv, Sane
  <1>4. ~Encodable(cache)
    <2>1. cmd[Freq] = Encoded(cache.freq)
      BY <1>2, <1>3, FollowsFreq
    <2> QED BY <1>0, <2>1 DEF Encodable
  <1>5. WriteItems(call.cmds) = {Freq}
    <2>1. /\ Len(call.cmds) \in Nat \ {0} /\ Tail(call.cmds) \in Seq(CommandsFor(cache))
          /\ Len(Tail(call.cmds)) = Len(call.cmds) - 1 /\ cmd = call.cmds[1]
      BY <1>0, <1>1, HeadTailProperties, LenProperties, EmptySeq
    <2>2. 1 \in 1..Len(call.cmds)
      BY <2>1
    <2>3. 1 = Len(call.cmds) /\ DOMAIN cmd = {Freq}
      BY <1>0, <1>3, <2>1, <2>2 DEF Stuck, FreqLast
    <2>4. Tail(call.cmds) = <<>>
      <3>1. Len(Tail(call.cmds)) = 0
        BY <2>1, <2>3
      <3> QED BY <2>1, <3>1, EmptySeq
    <2> QED BY <1>0, <1>1, <2>3, <2>4, WriteItemsOf, NothingWritten
  <1>6. doubt' = [i \in Items |-> IF doubt[i] = "owed"
                                  THEN IF call.kind = "release" THEN "swallowed"
                                       ELSE IF call.kind = "probe" THEN "unsent" ELSE "owed"
                                  ELSE doubt[i]]
    BY <1>0, <1>3 DEF Abort
  <1>7. call.kind = "release" => \A i \in Items : doubt[i] = "owed" => i = Freq
    BY <1>0, <1>3, <1>5 DEF Owes
  <1>8. faults = 0 => \A i \in Items : /\ doubt'[i] \notin {"told", "ignored", "lost"}
                                       /\ doubt'[i] = "swallowed" => i = Freq /\ ~Encodable(cache)
    BY <1>4, <1>6, <1>7 DEF Stuck, OnlyFreqIsStuck
  <1>9. FreqLast(call'.cmds)
    BY <1>0, AbortFreqLast
  <1> QED BY <1>0, <1>8, <1>9, SameStuck

LEMMA TransferStuck == ASSUME IInv, Stuck, Transfer PROVE Stuck'
  <1> DEFINE cmd == Head(call.cmds)
  <1>0. /\ UNCHANGED <<driver, emulated, topic, cache>> /\ call.cmds # <<>> /\ faults \in 0..MaxFaults
        /\ call \in Calls(cache)
    BY DEF Transfer, IInv, TypeOK
  <1>1. PICK fate \in Fates(cmd) :
          /\ faults' = IF fate = "done" THEN faults ELSE faults + 1
          /\ fate = "done" => /\ doubt' = Become(DOMAIN cmd, "none")
                              /\ call' = [call EXCEPT !.cmds = Tail(@)]
          /\ call' = [call EXCEPT !.cmds = Tail(@)] \/ Abort(doubt, pending)
    BY DEF Transfer
  <1> HIDE DEF cmd
  <1>2. Defers => FreqLast(call'.cmds)
    <2>1. CASE call' = [call EXCEPT !.cmds = Tail(@)]
      <3>1. call.cmds \in Seq(CommandsFor(cache)) /\ call'.cmds = Tail(call.cmds)
        BY <1>0, <2>1 DEF Calls
      <3> QED BY <1>0, <3>1, TailFreqLast DEF Stuck
    <2>2. CASE Abort(doubt, pending)
      BY <2>2, AbortFreqLast
    <2> QED BY <1>1, <2>1, <2>2
  <1>3. CASE fate = "done"
    <2>1. \A i \in Items : doubt'[i] = IF i \in DOMAIN cmd THEN "none" ELSE doubt[i]
      BY <1>1, <1>3, BecomeIs DEF Doubts
    <2>2. faults' = faults
      BY <1>1, <1>3
    <2> QED BY <1>0, <1>2, <2>1, <2>2, QuietStuck
  <1>4. CASE fate # "done"
    <2>1. faults' # 0
      BY <1>0, <1>1, <1>4
    <2> QED BY <1>0, <1>2, <2>1, SameStuck
  <1> QED BY <1>3, <1>4

LEMMA PowerLossStuck == ASSUME IInv, Stuck, PowerLoss PROVE Stuck'
  <1>1. UNCHANGED <<driver, emulated, topic>> /\ faults' = faults + 1 /\ faults \in 0..MaxFaults
    BY DEF PowerLoss, IInv, TypeOK
  <1>2. faults' # 0
    BY <1>1
  <1>3. UNCHANGED call \/ \E dbt : Abort(dbt, pending)
    BY DEF PowerLoss
  <1>4. Defers => FreqLast(call'.cmds)
    BY <1>3, AbortFreqLast DEF Stuck
  <1> QED BY <1>1, <1>2, <1>4, SameStuck

LEMMA ProbeStuck == ASSUME IInv, Stuck, Probe PROVE Stuck'
  <1>1. UNCHANGED <<driver, emulated, topic>> /\ \A i \in Items : doubt'[i] = "unsent"
    BY DEF Probe
  <1>2. call'.cmds = Initial.cmds
    BY DEF Probe, NoCall
  <1>3. Defers => FreqLast(call'.cmds)
    BY <1>2, StartFreqLast DEF IInv, TypeOK
  <1> QED BY <1>1, <1>3, SameStuck

(* The other steps start, end or leave alone what is being sent. *)
LEMMA OthersStuck ==
  ASSUME IInv, Stuck, UNCHANGED <<driver, emulated, topic, cache, faults>>,
         \A i \in Items : doubt'[i] = "unsent" \/ doubt'[i] = doubt[i],
         call'.cmds \in {call.cmds, <<>>, CommitOf(cache)}
  PROVE  Stuck'
  <1>1. Defers => FreqLast(call'.cmds)
    BY EmptyFreqLast, CommitsFreqLast DEF Stuck
  <1> QED BY <1>1, QuietStuck

LEMMA CommandStuck == ASSUME IInv, Stuck, NEW cbs, Command(cbs) PROVE Stuck'
  <1>1. UNCHANGED <<driver, emulated, topic, cache, faults, doubt>> /\ call'.cmds = <<>>
    BY DEF Command, NoCall
  <1> QED BY <1>1, OthersStuck

(* OnlyFreqIsStuck, for all deferring and at-once drivers: without a fault  *)
(* only an unencodable frequency is kept back, and it keeps nothing else.  *)
THEOREM FreqStuck == Spec => []OnlyFreqIsStuck
  <1>1. Init => Stuck
    <2> SUFFICES ASSUME Init PROVE Stuck
      OBVIOUS
    <2>1. call = NoCall /\ \A i \in Items : doubt[i] = "unsent"
      BY DEF Init
    <2> QED BY <2>1, NoCallIs, EmptyFreqLast DEF Stuck, OnlyFreqIsStuck
  <1>2. IInv /\ Owing /\ Stuck /\ [Next]_vars => Stuck'
    <2> SUFFICES ASSUME IInv, Owing, Stuck, [Next]_vars PROVE Stuck'
      OBVIOUS
    <2>1. CASE \/ ProfileCommand \/ SetFreqCommand \/ SetDpiMapping \/ ChangeDpiMapping
               \/ SetLed
      BY <2>1, CommandStuck
         DEF ProfileCommand, SetFreqCommand, SetDpiMapping, ChangeDpiMapping, SetLed
    <2>2. CASE FinishRelease \/ FinishReconfig
      <3>1. UNCHANGED <<driver, emulated, topic, cache, faults, doubt>> /\ call'.cmds = <<>>
        BY <2>2, NoCallIs DEF FinishRelease, FinishReconfig
      <3> QED BY <3>1, OthersStuck
    <2>3. CASE FinishProbe \/ FinishCommand
      <3>1. UNCHANGED <<driver, emulated, topic, cache, faults, doubt>> /\ FreqLast(call'.cmds)
        BY <2>3, ReleasingFreqLast DEF FinishProbe, FinishCommand
      <3> QED BY <3>1, QuietStuck
    <2>4. CASE Reconfig \/ Hold \/ Unhold
      <3>1. UNCHANGED <<driver, emulated, topic, cache, faults, doubt>>
            /\ call'.cmds \in {call.cmds, <<>>, CommitOf(cache)}
        <4>1. CASE Reconfig
          BY <4>1 DEF Reconfig, NoCall
        <4>2. CASE Hold
          BY <4>2 DEF Hold
        <4>3. CASE Unhold
          BY <4>3 DEF Unhold, NoCall
        <4> QED BY <2>4, <4>1, <4>2, <4>3
      <3> QED BY <3>1, OthersStuck
    <2>5. CASE Remove
      <3>1. UNCHANGED <<driver, emulated, topic, cache, faults, call>> /\ \A i \in Items : doubt'[i] = "unsent"
        BY <2>5 DEF Remove
      <3> QED BY <3>1, OthersStuck
    <2>6. CASE UNCHANGED vars
      <3>1. UNCHANGED <<driver, emulated, topic, cache, faults, doubt, call>>
        BY <2>6 DEF vars
      <3> QED BY <3>1, OthersStuck
    <2> QED BY <2>1, <2>2, <2>3, <2>4, <2>5, <2>6, ProbeStuck, RunCallbackStuck, EncodeStuck,
               TransferStuck, PowerLossStuck DEF Next
  <1>3. Stuck => OnlyFreqIsStuck
    BY DEF Stuck
  <1> QED BY <1>1, <1>2, <1>3, OwingInvariance, PTL DEF Spec

-----------------------------------------------------------------------------
(* A probe sends every setting of the mouse.                               *)

LEMMA ConcatWrites ==
  ASSUME NEW S, NEW s \in Seq(S), NEW t \in Seq(S)
  PROVE  s \o t \in Seq(S) /\ WriteItems(s) \cup WriteItems(t) \subseteq WriteItems(s \o t)
  <1>1. /\ s \o t \in Seq(S) /\ Len(s) \in Nat /\ Len(t) \in Nat
        /\ DOMAIN s = 1..Len(s) /\ DOMAIN t = 1..Len(t)
        /\ DOMAIN (s \o t) = 1..(Len(s) + Len(t))
        /\ \A k \in 1..Len(s) + Len(t) : (s \o t)[k] = IF k <= Len(s) THEN s[k] ELSE t[k - Len(s)]
    BY ConcatProperties, LenProperties
  <1>2. ASSUME NEW i \in WriteItems(s) PROVE i \in WriteItems(s \o t)
    <2>1. PICK k \in 1..Len(s) : i \in DOMAIN s[k]
      BY <1>1, <1>2 DEF WriteItems
    <2>2. k \in DOMAIN (s \o t) /\ (s \o t)[k] = s[k]
      BY <1>1
    <2> QED BY <2>1, <2>2 DEF WriteItems
  <1>3. ASSUME NEW i \in WriteItems(t) PROVE i \in WriteItems(s \o t)
    <2>1. PICK k \in 1..Len(t) : i \in DOMAIN t[k]
      BY <1>1, <1>3 DEF WriteItems
    <2>2. Len(s) + k \in 1..(Len(s) + Len(t)) /\ ~(Len(s) + k <= Len(s)) /\ (Len(s) + k) - Len(s) = k
      BY <1>1
    <2>3. Len(s) + k \in DOMAIN (s \o t) /\ (s \o t)[Len(s) + k] = t[k]
      BY <1>1, <2>2
    <2> QED BY <2>1, <2>3 DEF WriteItems
  <1> QED BY <1>1, <1>2, <1>3

LEMMA TwoOf ==
  ASSUME NEW a, NEW b
  PROVE  WriteItems(<<a, b>>) = DOMAIN a \cup DOMAIN b
  <1> DEFINE s == <<a, b>>
  <1>1. DOMAIN s = {1, 2} /\ s[1] = a /\ s[2] = b
    OBVIOUS
  <1> HIDE DEF s
  <1>2. WriteItems(s) = DOMAIN a \cup DOMAIN b
    BY <1>1 DEF WriteItems
  <1> QED BY <1>2 DEF s

LEMMA ThreeOf ==
  ASSUME NEW a, NEW b, NEW d
  PROVE  WriteItems(<<a, b, d>>) = DOMAIN a \cup DOMAIN b \cup DOMAIN d
  <1> DEFINE s == <<a, b, d>>
  <1>1. DOMAIN s = {1, 2, 3} /\ s[1] = a /\ s[2] = b /\ s[3] = d
    OBVIOUS
  <1> HIDE DEF s
  <1>2. WriteItems(s) = DOMAIN a \cup DOMAIN b \cup DOMAIN d
    BY <1>1 DEF WriteItems
  <1> QED BY <1>2 DEF s

LEMMA FiveOf ==
  ASSUME NEW a, NEW b, NEW d, NEW e, NEW f
  PROVE  WriteItems(<<a, b, d, e, f>>) = DOMAIN a \cup DOMAIN b \cup DOMAIN d \cup DOMAIN e \cup DOMAIN f
  <1> DEFINE s == <<a, b, d, e, f>>
  <1>1. DOMAIN s = {1, 2, 3, 4, 5} /\ s[1] = a /\ s[2] = b /\ s[3] = d /\ s[4] = e /\ s[5] = f
    OBVIOUS
  <1> HIDE DEF s
  <1>2. WriteItems(s) = DOMAIN a \cup DOMAIN b \cup DOMAIN d \cup DOMAIN e \cup DOMAIN f
    BY <1>1 DEF WriteItems
  <1> QED BY <1>2 DEF s

LEMMA GreetingWrites ==
  ASSUME NEW c
  PROVE  /\ WriteItems(<<Query, SetResolution(c), SetFrequency(c)>>) = {Freq, Res}
         /\ WriteItems(<<Query, SetResolution(c), Query, Query, SetFrequency(c)>>) = {Freq, Res}
  <1>1. /\ DOMAIN SetResolution(c) = {Res} /\ DOMAIN SetFrequency(c) = {Freq} /\ DOMAIN Query = {}
    BY DEF SetResolution, SetFrequency, Sets, Query
  <1> DEFINE q == Query
             r == SetResolution(c)
             f == SetFrequency(c)
  <1> HIDE DEF q, r, f
  <1>2. WriteItems(<<q, r, f>>) = DOMAIN q \cup DOMAIN r \cup DOMAIN f
    BY ThreeOf
  <1>3. WriteItems(<<q, r, q, q, f>>) = DOMAIN q \cup DOMAIN r \cup DOMAIN q \cup DOMAIN q \cup DOMAIN f
    BY FiveOf
  <1>4. DOMAIN r = {Res} /\ DOMAIN f = {Freq} /\ DOMAIN q = {}
    BY <1>1 DEF q, r, f
  <1>5. WriteItems(<<q, r, f>>) = {Freq, Res} /\ WriteItems(<<q, r, q, q, f>>) = {Freq, Res}
    BY <1>2, <1>3, <1>4
  <1> QED BY <1>5 DEF q, r, f

Part(l) == {<<l, "light">>, <<l, "mode">>, <<l, "colour">>}

LEMMA ExtInitWrites ==
  ASSUME Extended, NEW one, NEW two, NEW leds \in {ScrollAndLogo, LogoOnly}
  PROVE  /\ {Freq, Res} \cup Part("logo") \subseteq WriteItems(ExtInit(one, two, leds).cmds)
         /\ leds = ScrollAndLogo => Part("scroll") \subseteq WriteItems(ExtInit(one, two, leds).cmds)
  <1> DEFINE c == Defaults(500, [initial |-> one, other |-> two], "static", "white")
             S == CommandsFor(c)
             Led(l) == <<ExtBrightness(c, l), ExtStatic(c, l)>>
             greeting == <<Query, SetResolution(c), SetFrequency(c)>>
             rest == IF Len(leds) = 2 THEN Led(leds[2]) ELSE <<>>
             cmds == greeting \o Led(leds[1]) \o rest
  <1>2. ExtInit(one, two, leds).cmds = cmds
    BY DEF ExtInit
  <1> HIDE DEF c
  <1>0. ~Defers
    BY DEF Extended
  <1>1. greeting \in Seq(S) /\ WriteItems(greeting) = {Freq, Res}
    BY <1>0, GreetingSound, GreetingWrites, Zenon
  <1>3. ASSUME NEW l \in Leds PROVE Led(l) \in Seq(S) /\ WriteItems(Led(l)) = Part(l)
    <2>1. /\ ExtBrightness(c, l) \in S /\ DOMAIN ExtBrightness(c, l) = {<<l, "light">>}
          /\ ExtStatic(c, l) \in S /\ DOMAIN ExtStatic(c, l) = {<<l, "mode">>, <<l, "colour">>}
      BY LightCommand, StaticCommand DEF ExtBrightness
    <2>2. WriteItems(Led(l)) = DOMAIN ExtBrightness(c, l) \cup DOMAIN ExtStatic(c, l)
      BY TwoOf, Zenon
    <2>3. Led(l) \in Seq(S)
      BY <2>1
    <2> HIDE DEF Led, S
    <2>4. WriteItems(Led(l)) = Part(l)
      BY <2>1, <2>2 DEF Part
    <2> QED BY <2>3, <2>4
  <1>4. "logo" \in Leds /\ "scroll" \in Leds
    BY DEF Leds
  <1>5. CASE leds = ScrollAndLogo
    <2>1. leds[1] = "scroll" /\ leds[2] = "logo" /\ Len(leds) = 2
      BY <1>5 DEF ScrollAndLogo
    <2>2. rest = Led("logo") /\ Led(leds[1]) = Led("scroll")
      BY <2>1
    <2>3. /\ rest \in Seq(S) /\ WriteItems(rest) = Part("logo")
          /\ Led(leds[1]) \in Seq(S) /\ WriteItems(Led(leds[1])) = Part("scroll")
      BY <1>3, <1>4, <2>2
    <2> HIDE DEF greeting, Led, rest, S
    <2>4. /\ greeting \o Led(leds[1]) \in Seq(S)
          /\ {Freq, Res} \cup Part("scroll") \subseteq WriteItems(greeting \o Led(leds[1]))
      BY <1>1, <2>3, ConcatWrites
    <2>5. {Freq, Res} \cup Part("scroll") \cup Part("logo") \subseteq WriteItems(cmds)
      BY <2>3, <2>4, ConcatWrites
    <2> QED BY <1>2, <2>5
  <1>6. CASE leds = LogoOnly
    <2>1. leds[1] = "logo" /\ Len(leds) = 1
      BY <1>6 DEF LogoOnly
    <2>2. rest = <<>> /\ Led(leds[1]) = Led("logo")
      BY <2>1
    <2>3. rest \in Seq(S) /\ Led(leds[1]) \in Seq(S) /\ WriteItems(Led(leds[1])) = Part("logo")
      BY <1>3, <1>4, <2>2, EmptySeq
    <2> HIDE DEF greeting, Led, rest, S
    <2>4. /\ greeting \o Led(leds[1]) \in Seq(S)
          /\ {Freq, Res} \cup Part("logo") \subseteq WriteItems(greeting \o Led(leds[1]))
      BY <1>1, <2>3, ConcatWrites
    <2>5. {Freq, Res} \cup Part("logo") \subseteq WriteItems(cmds)
      BY <2>3, <2>4, ConcatWrites
    <2>6. leds # ScrollAndLogo
      BY <2>1 DEF ScrollAndLogo
    <2> QED BY <1>2, <2>5, <2>6
  <1> QED BY <1>5, <1>6

LEMMA PacketInitWrites ==
  ASSUME ~Defers, driver \in PacketDrivers
  PROVE  /\ {Freq, Res} \cup Part("logo") \subseteq WriteItems(MambaInit.cmds)
         /\ DiamondInit.cmds = MambaInit.cmds
  <1> DEFINE c == Defaults(500, [initial |-> 1800, other |-> 800], "static", "green")
             S == CommandsFor(c)
             greeting == <<Query, SetResolution(c), Query, Query, SetFrequency(c)>>
             packets == <<MambaPacket(c, "logo"), MambaPacket(c, "logo")>>
  <1>1. MambaInit.cmds = greeting \o packets /\ DiamondInit.cmds = greeting \o packets
    BY DEF MambaInit, DiamondInit, MambaGreeting, DiamondGreeting, DiamondPacket
  <1> HIDE DEF c
  <1>2. greeting \in Seq(S) /\ WriteItems(greeting) = {Freq, Res}
    BY GreetingSound, GreetingWrites, Zenon
  <1>3. MambaPacket(c, "logo") \in S /\ DOMAIN MambaPacket(c, "logo") = Part("logo")
    BY PacketCommand DEF Part
  <1>4. packets \in Seq(S) /\ WriteItems(packets) = Part("logo")
    <2>1. WriteItems(packets) = DOMAIN MambaPacket(c, "logo") \cup DOMAIN MambaPacket(c, "logo")
      BY TwoOf, Zenon
    <2>2. packets \in Seq(S)
      BY <1>3
    <2> QED BY <1>3, <2>1, <2>2
  <1> HIDE DEF greeting, packets, S
  <1> QED BY <1>1, <1>2, <1>4, ConcatWrites

LEMMA DAChromaInitWrites ==
  ASSUME ~Defers, driver = "DAChroma"
  PROVE  {Freq, Res} \cup Part("logo") \cup Part("scroll") \subseteq WriteItems(DAChromaInit.cmds)
  <1> DEFINE c == Defaults(500, [initial |-> 1800, other |-> 800], "spectrum", "green")
             S == CommandsFor(c)
             greeting == <<Query, SetResolution(c), Query, Query, SetFrequency(c)>>
             Led(l) == <<DAChromaState(c, l), DAChromaShow(c, l), DAChromaTint(c, l)>>
  <1>1. DAChromaInit.cmds = greeting \o Led("scroll") \o Led("logo")
    BY DEF DAChromaInit, DAChromaGreeting
  <1> HIDE DEF c
  <1>2. greeting \in Seq(S) /\ WriteItems(greeting) = {Freq, Res}
    BY GreetingSound, GreetingWrites, Zenon
  <1>3. ASSUME NEW l \in Leds PROVE Led(l) \in Seq(S) /\ WriteItems(Led(l)) = Part(l)
    <2>1. c.mode[l] \in Follows(c, <<l, "mode">>)
      BY DAChromaShows
    <2>2. Sets(<<l, "mode">>, c.mode[l]) \in S
      BY <2>1, ShowCommand
    <2>3. DAChromaState(c, l) \in S /\ DAChromaShow(c, l) \in S /\ DAChromaTint(c, l) \in S
      BY <2>2, LightCommand, TintCommand DEF DAChromaState, DAChromaShow, DAChromaTint
    <2>4. /\ DOMAIN DAChromaState(c, l) = {<<l, "light">>}
          /\ DOMAIN DAChromaShow(c, l) = {<<l, "mode">>}
          /\ DOMAIN DAChromaTint(c, l) = {<<l, "colour">>}
      BY DEF DAChromaState, DAChromaShow, DAChromaTint, Sets
    <2> DEFINE s == DAChromaState(c, l)
               e == DAChromaShow(c, l)
               t == DAChromaTint(c, l)
    <2> HIDE DEF s, e, t
    <2>0. WriteItems(<<s, e, t>>) = DOMAIN s \cup DOMAIN e \cup DOMAIN t
      BY ThreeOf
    <2>5. WriteItems(Led(l)) =
            DOMAIN DAChromaState(c, l) \cup DOMAIN DAChromaShow(c, l) \cup DOMAIN DAChromaTint(c, l)
      BY <2>0 DEF s, e, t
    <2>6. Led(l) \in Seq(S)
      BY <2>3
    <2> HIDE DEF Led, S
    <2>7. WriteItems(Led(l)) = Part(l)
      BY <2>4, <2>5 DEF Part
    <2> QED BY <2>6, <2>7
  <1>4. /\ Led("scroll") \in Seq(S) /\ WriteItems(Led("scroll")) = Part("scroll")
        /\ Led("logo") \in Seq(S) /\ WriteItems(Led("logo")) = Part("logo")
    BY <1>3 DEF Leds
  <1> HIDE DEF greeting, Led, S
  <1>5. /\ greeting \o Led("scroll") \in Seq(S)
        /\ {Freq, Res} \cup Part("scroll") \subseteq WriteItems(greeting \o Led("scroll"))
    BY <1>2, <1>4, ConcatWrites
  <1> QED BY <1>1, <1>4, <1>5, ConcatWrites

LEMMA EssentialInitWrites ==
  ASSUME ~Defers, driver = "Essential"
  PROVE  {Freq, Res, <<"scroll", "light">>, <<"logo", "light">>} \subseteq WriteItems(EssentialInit.cmds)
  <1> DEFINE c == Defaults(500, [initial |-> 1800, other |-> 800], "static", "white")
             S == CommandsFor(c)
             greeting == <<Query, SetResolution(c), Query, Query, SetFrequency(c)>>
             states == <<EssentialState(c, "scroll"), EssentialState(c, "logo")>>
  <1>1. EssentialInit.cmds = greeting \o states
    BY DEF EssentialInit, EssentialGreeting
  <1> HIDE DEF c
  <1>2. greeting \in Seq(S) /\ WriteItems(greeting) = {Freq, Res}
    BY GreetingSound, GreetingWrites, Zenon
  <1>3. EssentialState(c, "scroll") \in S /\ EssentialState(c, "logo") \in S
    BY LightCommand DEF EssentialState, Leds
  <1>4. /\ DOMAIN EssentialState(c, "scroll") = {<<"scroll", "light">>}
        /\ DOMAIN EssentialState(c, "logo") = {<<"logo", "light">>}
    BY DEF EssentialState, Sets
  <1>5. states \in Seq(S)
    BY <1>3
  <1>6. WriteItems(states) = {<<"scroll", "light">>} \cup {<<"logo", "light">>}
    <2>1. WriteItems(states) =
            DOMAIN EssentialState(c, "scroll") \cup DOMAIN EssentialState(c, "logo")
      BY TwoOf, Zenon
    <2> QED BY <1>4, <2>1
  <1> HIDE DEF greeting, states, S
  <1> QED BY <1>1, <1>2, <1>5, <1>6, ConcatWrites

LEMMA DeferInitWrites ==
  ASSUME driver \in {"Taipan", "Naga"}
  PROVE  Committable \subseteq WriteItems(Initial.cmds)
  <1> DEFINE c == Defaults(1000, [initial |-> 1000, other |-> 100], "static", "white")
  <1>0. Defers
    BY DEF Defers, DeferringDrivers
  <1>1. CASE driver = "Taipan"
    <2>1. Initial = TaipanInit /\ CommitOf(c) = TaipanCommit(c)
      BY <1>1 DEF Initial, CommitOf
    <2>2. Initial.cmds = CommitOf(c)
      BY <2>1 DEF TaipanInit
    <2> QED BY <2>2, CommitWrites
  <1>2. CASE driver = "Naga"
    <2>1. Initial = NagaInit /\ CommitOf(c) = NagaCommit(c)
      BY <1>2 DEF Initial, CommitOf
    <2>2. Initial.cmds = <<Query>> \o CommitOf(c)
      BY <2>1 DEF NagaInit
    <2> HIDE DEF c
    <2>3. <<Query>> \in Seq(CommandsFor(c)) /\ CommitOf(c) \in Seq(CommandsFor(c))
      BY QueryCommand, OneCommand, CommitSound
    <2> QED BY <2>2, <2>3, CommitWrites, ConcatWrites
  <1> QED BY <1>1, <1>2

(* A setting of a LED that was probed is one of the three parts of it. *)
LEMMA SettableOf ==
  /\ LedsOf(driver) = {"logo"} /\ ~Defers => Settable = {Freq, Res} \cup Part("logo")
  /\ LedsOf(driver) = {"scroll", "logo"} /\ ~Defers =>
       Settable = {Freq, Res} \cup Part("scroll") \cup Part("logo")
  <1>1. \A l : {l} \X Parts = Part(l)
    BY DEF Part, Parts
  <1>2. {"scroll", "logo"} \X Parts = Part("scroll") \cup Part("logo")
    BY DEF Part, Parts
  <1>3. ~Defers => Settable = {Freq, Res} \cup LedsOf(driver) \X Parts
    BY DEF Settable, Defers, DeferringDrivers
  <1> QED BY <1>1, <1>2, <1>3

(* Those that the Krait and the DeathAdder 2013 get are written by the     *)
(* commit of the emulation's release.                                      *)
Silent == emulated /\ driver \in {"Krait", "DA2013"}

LEMMA SilentCommits ==
  ASSUME Silent
  PROVE  Defers /\ Settable \ Unprobed \subseteq Committable
  <1>1. Defers
    BY DEF Silent, Defers, DeferringDrivers
  <1>2. CASE driver = "Krait"
    <2>1. LedsOf(driver) = {}
      BY <1>2 DEF LedsOf, PacketDrivers
    <2> QED BY <1>1, <1>2, <2>1 DEF Settable, Committable
  <1>3. CASE driver = "DA2013"
    <2>1. LedsOf(driver) = {"scroll", "logo"}
      BY <1>3 DEF LedsOf, PacketDrivers
    <2> QED BY <1>1, <1>3, <2>1 DEF Settable, Committable
  <1> QED BY <1>1, <1>2, <1>3 DEF Silent

LEMMA InitialWrites ==
  ASSUME driver \in Drivers, ~Silent
  PROVE  Settable \ Unprobed \subseteq WriteItems(Initial.cmds)
  <1>0. driver \in AtOnce \cup DeferringDrivers
    BY DriversAssumption
  <1>1. CASE driver \in {"Krait", "DA2013"}
    <2>1. Unprobed = Items /\ LedsOf(driver) \subseteq Leds
      BY <1>1 DEF Silent, Unprobed, LedsOf, PacketDrivers, Leds
    <2> QED BY <2>1 DEF Settable, Items, Parts
  <1>2. CASE driver \in {"Taipan", "Naga"}
    <2>1. Defers /\ Settable = {Freq, Res} \cup LedsOf(driver) \X {"light"}
      BY <1>2 DEF Defers, DeferringDrivers, Settable
    <2>2. CASE driver = "Taipan"
      <3>1. LedsOf(driver) = {"scroll", "logo"}
        BY <2>2 DEF LedsOf, PacketDrivers
      <3>2. Settable \subseteq Committable
        BY <2>1, <2>2, <3>1 DEF Committable
      <3> QED BY <1>2, <3>2, DeferInitWrites
    <2>3. CASE driver = "Naga"
      <3>1. LedsOf(driver) = Leds
        BY <2>3 DEF LedsOf, PacketDrivers
      <3>2. Settable \subseteq Committable
        BY <2>1, <2>3, <3>1 DEF Committable, Leds
      <3> QED BY <1>2, <3>2, DeferInitWrites
    <2> QED BY <1>2, <2>2, <2>3
  <1>3. CASE driver \in PacketDrivers
    <2>0. ~Defers
      BY <1>3, WhichDefer DEF AtOnce
    <2>1. LedsOf(driver) = {"logo"}
      BY <1>3 DEF LedsOf, PacketDrivers
    <2>2. Initial \in {MambaInit, DiamondInit}
      BY <1>3 DEF Initial, PacketDrivers
    <2> QED BY <1>3, <2>0, <2>1, <2>2, PacketInitWrites, SettableOf
  <1>4. CASE driver = "DAChroma"
    <2>1. Initial = DAChromaInit /\ ~Defers /\ LedsOf(driver) = {"scroll", "logo"}
      BY <1>4, WhichDefer DEF Initial, AtOnce, LedsOf, PacketDrivers
    <2> QED BY <1>4, <2>1, DAChromaInitWrites, SettableOf
  <1>5. CASE driver = "Essential"
    <2>1. Initial = EssentialInit /\ ~Defers /\ LedsOf(driver) = {"scroll", "logo"}
      BY <1>5, WhichDefer DEF Initial, AtOnce, LedsOf, PacketDrivers
    <2>2. Unprobed = Leds \X {"mode", "colour"}
      BY <1>5 DEF Unprobed
    <2>3. Settable \ Unprobed \subseteq {Freq, Res, <<"scroll", "light">>, <<"logo", "light">>}
      BY <2>1, <2>2, SettableOf DEF Part, Leds
    <2> QED BY <1>5, <2>1, <2>3, EssentialInitWrites
  <1>6. CASE driver \in ExtDrivers
    <2>1. Extended /\ ~Defers
      BY <1>6, WhichDefer DEF Extended
    <2>2. CASE driver \in {"Orochi", "Abyssus"}
      <3>1. Initial \in {ExtInit(1800, 450, LogoOnly), ExtInit(800, 400, LogoOnly)}
        BY <2>2 DEF Initial, OrochiInit, AbyssusInit
      <3>2. LedsOf(driver) = {"logo"}
        BY <2>2 DEF LedsOf, PacketDrivers
      <3>3. {Freq, Res} \cup Part("logo") \subseteq WriteItems(Initial.cmds)
        <4>1. \A one, two : {Freq, Res} \cup Part("logo")
                               \subseteq WriteItems(ExtInit(one, two, LogoOnly).cmds)
          BY <2>1, ExtInitWrites
        <4> QED BY <3>1, <4>1
      <3> QED BY <2>1, <3>2, <3>3, SettableOf
    <2>3. CASE driver \notin {"Orochi", "Abyssus"}
      <3>1. Initial \in {ExtInit(1600, 400, ScrollAndLogo), ExtInit(1800, 450, ScrollAndLogo),
                         ExtInit(1800, 400, ScrollAndLogo)}
        BY <1>6, <2>3 DEF Initial, ExtDrivers, ViperInit, BasiliskInit, MambaWirelessInit,
           LanceheadInit, NagaV2Init, DeathAdderV2Init, DeathAdderEliteInit
      <3>2. LedsOf(driver) = {"scroll", "logo"}
        <4>1. /\ driver \notin PacketDrivers \cup {"Orochi", "Abyssus"}
              /\ driver # "Naga" /\ driver # "Krait"
          BY <1>6, <2>3 DEF ExtDrivers, PacketDrivers
        <4> QED BY <4>1 DEF LedsOf
      <3>3. {Freq, Res} \cup Part("scroll") \cup Part("logo") \subseteq WriteItems(Initial.cmds)
        <4>1. \A one, two : {Freq, Res} \cup Part("scroll") \cup Part("logo")
                               \subseteq WriteItems(ExtInit(one, two, ScrollAndLogo).cmds)
          BY <2>1, ExtInitWrites
        <4> QED BY <3>1, <4>1
      <3> QED BY <2>1, <3>2, <3>3, SettableOf
    <2> QED BY <2>2, <2>3
  <1> QED BY <1>0, <1>1, <1>2, <1>3, <1>4, <1>5, <1>6 DEF AtOnce, DeferringDrivers

(* What the device was not sent, call it m, and the call k, of a mouse     *)
(* that is listed or not (l), pending or not (p), held or not (h).  Of a   *)
(* silent driver it is sent by the release; of the others, by the probe.   *)
Missing == {i \in Settable \ Unprobed : doubt[i] = "unsent"}

Conf(l, k, m, p, h) ==
  /\ h \/ k.kind \in {"command", "reconfig"} => l
  /\ k.kind = "probe" => ~l /\ (IF Silent THEN p \/ k.cbs # <<>> ELSE m \subseteq WriteItems(k.cmds))
  /\ l \/ k.kind = "release" => m = {} \/ (Silent /\ p)
  /\ Silent /\ k.kind \in {"release", "reconfig"} => m \subseteq WriteItems(k.cmds)

Configured == Conf(listed, call, Missing, pending, held)

LEMMA SameConf ==
  ASSUME UNCHANGED <<driver, emulated>>
  PROVE  /\ Missing' = {i \in Settable \ Unprobed : doubt'[i] = "unsent"}
         /\ Configured' <=> Conf(listed', call', Missing', pending', held')
         /\ Silent' <=> Silent
  <1>1. Settable' = Settable /\ Unprobed' = Unprobed /\ (Silent' <=> Silent)
    BY DEF Settable, Unprobed, LedsOf, Defers, Silent
  <1> QED BY <1>1 DEF Missing, Configured, Conf

LEMMA SettableItems == Settable \subseteq Items
  <1>1. LedsOf(driver) \subseteq Leds
    BY DEF LedsOf, Leds
  <1> QED BY <1>1 DEF Settable, Items, Parts

(* A step that makes nothing unsent. *)
LEMMA MissingLess ==
  ASSUME UNCHANGED <<driver, emulated>>,
         \A i \in Items : doubt'[i] = "unsent" => doubt[i] = "unsent"
  PROVE  Missing' \subseteq Missing
  BY SameConf, SettableItems DEF Missing

(* Releasing after everything was sent, or is pending. *)
LEMMA ReleasingConf ==
  ASSUME NEW c, NEW p \in BOOLEAN, NEW m \in SUBSET (Settable \ Unprobed), NEW l \in BOOLEAN,
         held => l, m = {} \/ (Silent /\ p),
         Releasing(p, c) = NoCall => l
  PROVE  Conf(l, Releasing(p, c), m, p, held)
  <1> DEFINE k == Releasing(p, c)
  <1>1. \/ k.kind = "release" /\ WriteItems(k.cmds) = Committable
        \/ k = NoCall
    BY ReleasingIs
  <1> HIDE DEF k
  <1>2. CASE k.kind = "release" /\ WriteItems(k.cmds) = Committable
    <2>1. Silent => m \subseteq WriteItems(k.cmds)
      BY <1>2, SilentCommits
    <2>2. Conf(l, k, m, p, held)
      BY <1>2, <2>1 DEF Conf
    <2> QED BY <2>2 DEF k
  <1>3. CASE k = NoCall
    <2>1. k.kind = "none" /\ l
      BY <1>3, NoCallIs DEF k
    <2>2. Conf(l, k, m, p, held)
      BY <2>1 DEF Conf
    <2> QED BY <2>2 DEF k
  <1> QED BY <1>1, <1>2, <1>3

LEMMA AbortConfigured ==
  ASSUME IInv, Owing, Configured, UNCHANGED <<driver, emulated, pending, held>>,
         NEW dbt, Abort(dbt, pending), call.kind # "none",
         \A i \in Items : dbt[i] = "unsent" => doubt[i] = "unsent"
  PROVE  Configured'
  <1>0. Conf(listed, call, Missing, pending, held) /\ listed \in BOOLEAN /\ pending \in BOOLEAN
    BY DEF Configured, IInv, TypeOK
  <1>1. listed' = (listed \/ call.kind = "release")
        /\ call' = IF call.kind \in {"probe", "release"} THEN NoCall ELSE Releasing(pending, cache)
    BY DEF Abort
  <1>2. CASE call.kind = "probe"
    <2>1. ~listed /\ ~held /\ ~listed' /\ call'.kind = "none"
      BY <1>0, <1>1, <1>2, NoCallIs DEF Conf
    <2>2. Conf(listed', call', Missing', pending', held')
      BY <2>1 DEF Conf
    <2> QED BY <2>2, SameConf
  <1>3. CASE call.kind # "probe"
    <2>1. \A i \in Items : doubt'[i] = "unsent" => doubt[i] = "unsent"
      BY <1>3 DEF Abort
    <2>2. Missing' \subseteq Missing /\ Missing' \subseteq Settable \ Unprobed
      BY <2>1, MissingLess, SameConf
    <2>3. CASE call.kind = "release"
      <3>1. listed' /\ call'.kind = "none"
        BY <1>1, <2>3, NoCallIs
      <3>2. Conf(listed', call', Missing', pending', held')
        BY <1>0, <2>2, <2>3, <3>1 DEF Conf
      <3> QED BY <3>2, SameConf
    <2>4. CASE call.kind # "release"
      <3>1. listed /\ listed'
        <4>1. call.kind \in {"command", "reconfig"}
          BY <1>3, <2>4 DEF IInv, TypeOK
        <4> QED BY <1>0, <1>1, <4>1 DEF Conf
      <3>2. Missing' = {} \/ (Silent /\ pending)
        BY <1>0, <2>2, <3>1 DEF Conf
      <3>3. Conf(TRUE, Releasing(pending, cache), Missing', pending, held)
        BY <1>0, <2>2, <3>2, ReleasingConf
      <3>4. call' = Releasing(pending, cache) /\ listed' = TRUE
        BY <1>0, <1>1, <1>3, <2>4, <3>1
      <3>5. Conf(listed', call', Missing', pending', held')
        BY <3>3, <3>4
      <3> QED BY <3>5, SameConf
    <2> QED BY <2>3, <2>4
  <1> QED BY <1>2, <1>3

LEMMA CallUnderWay == ASSUME Owing, call.cmds # <<>> PROVE call.kind # "none"
  BY DEF Owing, Owes

LEMMA TransferConfigured == ASSUME IInv, Owing, Configured, Transfer PROVE Configured'
  <1> DEFINE cmd == Head(call.cmds)
  <1>0. /\ UNCHANGED <<driver, emulated, pending, held>> /\ call.cmds # <<>>
        /\ call \in Calls(cache)
    BY DEF Transfer, IInv
  <1>1. PICK fate \in Fates(cmd) :
          \/ /\ doubt' = Become(DOMAIN cmd, "none")
             /\ call' = [call EXCEPT !.cmds = Tail(@)] /\ listed' = listed
          \/ /\ doubt' = Become({i \in DOMAIN cmd : doubt[i] # "none"}, "ignored")
             /\ call' = [call EXCEPT !.cmds = Tail(@)] /\ listed' = listed
          \/ Abort(doubt, pending)
    BY DEF Transfer
  <1>2. CASE Abort(doubt, pending)
    BY <1>0, <1>2, AbortConfigured, CallUnderWay
  <1>3. CASE /\ call' = [call EXCEPT !.cmds = Tail(@)] /\ listed' = listed
             /\ \A i \in Items : doubt'[i] = "unsent" => doubt[i] = "unsent" /\ i \notin DOMAIN cmd
    <2>1. /\ call.cmds \in Seq(CommandsFor(cache)) /\ call'.kind = call.kind
          /\ call'.cmds = Tail(call.cmds) /\ call'.cbs = call.cbs
      BY <1>0, <1>3 DEF Calls
    <2>2. WriteItems(call.cmds) = DOMAIN cmd \cup WriteItems(call'.cmds)
      BY <1>0, <2>1, WriteItemsOf
    <2>3. \A i \in Missing' : i \in Missing /\ i \notin DOMAIN cmd
      BY <1>0, <1>3, SameConf, SettableItems DEF Missing
    <2>4. Conf(listed, call, Missing, pending, held)
      BY DEF Configured
    <2>5. Missing \subseteq WriteItems(call.cmds) => Missing' \subseteq WriteItems(call'.cmds)
      BY <2>2, <2>3
    <2>6. Missing = {} => Missing' = {}
      BY <2>3
    <2>7. Conf(listed', call', Missing', pending', held')
      BY <1>0, <1>3, <2>1, <2>4, <2>5, <2>6 DEF Conf
    <2> QED BY <1>0, <2>7, SameConf
  <1>4. ASSUME doubt' = Become(DOMAIN cmd, "none"), NEW i \in Items, doubt'[i] = "unsent"
        PROVE  doubt[i] = "unsent" /\ i \notin DOMAIN cmd
    BY <1>4 DEF Become
  <1>5. ASSUME doubt' = Become({j \in DOMAIN cmd : doubt[j] # "none"}, "ignored"),
               NEW i \in Items, doubt'[i] = "unsent"
        PROVE  doubt[i] = "unsent" /\ i \notin DOMAIN cmd
    BY <1>5 DEF Become
  <1> QED BY <1>1, <1>2, <1>3, <1>4, <1>5

(* A step that starts, ends or goes on with nothing. *)
LEMMA QuietConfigured ==
  ASSUME Configured, UNCHANGED <<driver, emulated, listed, pending>>, held' => listed,
         \A i \in Items : doubt'[i] = "unsent" => doubt[i] = "unsent",
         call'.kind = "none" \/ (call'.kind = "command" /\ listed)
  PROVE  Configured'
  <1>1. Conf(listed, call, Missing, pending, held) /\ Missing' \subseteq Missing
    BY MissingLess DEF Configured
  <1>2. Conf(listed', call', Missing', pending', held')
    BY <1>1 DEF Conf
  <1> QED BY <1>2, SameConf

LEMMA PowerLossConfigured == ASSUME IInv, Owing, Configured, PowerLoss PROVE Configured'
  <1> DEFINE dbt == [i \in Items |-> IF doubt[i] = "owed" THEN "owed" ELSE "lost"]
  <1>0. UNCHANGED <<driver, emulated, pending, held>> /\ \A i \in Items : dbt[i] # "unsent"
    BY DEF PowerLoss
  <1>1. CASE Idle
    <2>1. doubt' = dbt /\ UNCHANGED <<listed, call>> /\ call.kind = "none"
      BY <1>1 DEF PowerLoss, Idle
    <2>2. held => listed
      BY DEF Configured, Conf
    <2> QED BY <1>0, <2>1, <2>2, QuietConfigured
  <1>2. CASE ~Idle
    <2>1. Abort(dbt, pending) /\ call.kind # "none"
      BY <1>2 DEF PowerLoss, Idle
    <2> HIDE DEF dbt
    <2> QED BY <1>0, <2>1, AbortConfigured
  <1> QED BY <1>1, <1>2

LEMMA RunCallbackConfigured == ASSUME IInv, Owing, Configured, RunCallback PROVE Configured'
  <1> DEFINE r == Effect(Head(call.cbs))
  <1>0. /\ UNCHANGED <<driver, emulated, held>> /\ call.kind \in {"probe", "command"}
        /\ call.cmds = <<>>
    BY DEF RunCallback
  <1>1. CASE r.err
    <2>1. Abort(doubt, pending) /\ UNCHANGED pending
      BY <1>1 DEF RunCallback
    <2> QED BY <1>0, <2>1, AbortConfigured
  <1>2. CASE ~r.err
    <2>0. Sound(cache, r)
      <3>1. call.cbs \in Seq(Callbacks) /\ call.cbs # <<>>
        BY DEF IInv, Calls, RunCallback
      <3>2. Head(call.cbs) \in Callbacks
        BY <3>1, HeadTailProperties
      <3> QED BY <3>2, EffectSound DEF IInv, TypeOK
    <2>1. /\ doubt' = Become(r.owed, "owed") /\ call' = [call EXCEPT !.cmds = r.cmds, !.cbs = Tail(@)]
          /\ listed' = listed /\ pending' = (pending \/ r.defer)
      BY <1>2 DEF RunCallback
    <2> HIDE DEF r
    <2>2. call'.kind = call.kind
      BY <2>1 DEF IInv, Calls
    <2>3. \A i \in Items : doubt'[i] = "unsent" => doubt[i] = "unsent"
      BY <2>1 DEF Become
    <2>4. Missing' \subseteq Missing /\ Conf(listed, call, Missing, pending, held)
      BY <1>0, <2>3, MissingLess DEF Configured
    <2>5. Silent => pending'
      <3>1. Silent => r.defer
        BY <1>2, <2>0, SilentCommits DEF Sound
      <3> QED BY <2>1, <3>1
    <2>6. call.kind = "probe" /\ ~Silent => Missing' = {}
      BY <1>0, <2>4, NothingWritten DEF Conf
    <2>7. Conf(listed', call', Missing', pending', held')
      BY <1>0, <2>1, <2>2, <2>4, <2>5, <2>6 DEF Conf
    <2> QED BY <1>0, <2>7, SameConf
  <1> QED BY <1>1, <1>2

LEMMA FinishesConfigured ==
  ASSUME IInv, Configured, FinishProbe \/ FinishCommand \/ FinishRelease \/ FinishReconfig
  PROVE  Configured'
  <1>0. /\ UNCHANGED <<driver, emulated, doubt, held>> /\ call.cmds = <<>>
        /\ Conf(listed, call, Missing, pending, held)
        /\ listed \in BOOLEAN /\ pending \in BOOLEAN /\ held \in BOOLEAN
    BY DEF FinishProbe, FinishCommand, FinishRelease, FinishReconfig, Configured, IInv, TypeOK
  <1>1. Missing' = Missing /\ Missing \subseteq Settable \ Unprobed
    BY <1>0, SameConf DEF Missing
  <1>2. CASE FinishProbe \/ FinishCommand
    <2>1. call' = Releasing(pending, cache) /\ pending' = pending
      BY <1>2 DEF FinishProbe, FinishCommand
    <2>2. Missing = {} \/ (Silent /\ pending)
      <3>1. FinishProbe => call.kind = "probe" /\ call.cbs = <<>>
        BY DEF FinishProbe
      <3>2. FinishCommand => call.kind = "command"
        BY DEF FinishCommand
      <3> QED BY <1>0, <1>2, <3>1, <3>2, NothingWritten DEF Conf
    <2>3. listed' \in BOOLEAN /\ (held => listed') /\ (call' = NoCall => listed')
      <3>1. CASE FinishProbe
        <4>1. ~held
          BY <1>0, <3>1 DEF FinishProbe, Conf
        <4> QED BY <3>1, <4>1 DEF FinishProbe
      <3>2. CASE FinishCommand
        BY <1>0, <3>2 DEF FinishCommand, Conf
      <3> QED BY <1>2, <3>1, <3>2
    <2>4. Conf(listed', Releasing(pending, cache), Missing, pending, held)
      BY <1>0, <1>1, <2>1, <2>2, <2>3, ReleasingConf
    <2>5. Conf(listed', call', Missing', pending', held')
      BY <1>0, <1>1, <2>1, <2>4
    <2> QED BY <1>0, <2>5, SameConf
  <1>3. CASE FinishRelease \/ FinishReconfig
    <2>1. call.kind \in {"release", "reconfig"} /\ call' = NoCall /\ listed' = TRUE
      <3>1. FinishRelease => call.kind = "release" /\ call' = NoCall /\ listed' = TRUE
        BY DEF FinishRelease
      <3>2. FinishReconfig => call.kind = "reconfig" /\ call' = NoCall /\ listed' = listed
        BY DEF FinishReconfig
      <3> QED BY <1>0, <1>3, <3>1, <3>2 DEF Conf
    <2>2. Missing = {}
      <3>1. listed \/ call.kind = "release"
        BY <1>0, <2>1 DEF Conf
      <3> QED BY <1>0, <2>1, <3>1, NothingWritten DEF Conf
    <2>3. Conf(listed', call', Missing', pending', held')
      BY <1>1, <2>1, <2>2, NoCallIs DEF Conf
    <2> QED BY <1>0, <2>3, SameConf
  <1> QED BY <1>2, <1>3

LEMMA PrivilegedConfigured ==
  ASSUME IInv, Configured, Reconfig \/ Hold \/ Unhold
  PROVE  Configured'
  <1>0. /\ UNCHANGED <<driver, emulated, doubt, listed, pending>>
        /\ Conf(listed, call, Missing, pending, held)
    BY DEF Reconfig, Hold, Unhold, Configured
  <1>1. Missing' = Missing /\ Missing \subseteq Settable \ Unprobed
    BY <1>0, SameConf DEF Missing
  <1>2. CASE Hold
    <2>1. listed /\ call'.kind = "none"
      BY <1>2 DEF Hold, Idle
    <2> QED BY <1>0, <2>1, QuietConfigured
  <1>3. CASE Unhold /\ ~(Defers /\ pending)
    <2>1. ~held' /\ call'.kind = "none"
      BY <1>3, NoCallIs DEF Unhold
    <2> QED BY <1>0, <2>1, QuietConfigured
  <1>4. CASE Reconfig \/ (Unhold /\ Defers /\ pending)
    <2>1. listed /\ call'.kind \in {"release", "reconfig"} /\ call'.cmds = CommitOf(cache)
          /\ (held' => listed)
      <3>1. CASE Reconfig
        BY <3>1 DEF Reconfig, NoCall
      <3>2. CASE Unhold /\ Defers /\ pending
        <4>1. held /\ ~held' /\ call' = [NoCall EXCEPT !.kind = "release", !.cmds = CommitOf(cache)]
          BY <3>2 DEF Unhold
        <4> QED BY <1>0, <4>1 DEF Conf, NoCall
      <3> QED BY <1>4, <3>1, <3>2
    <2>2. Silent => Missing' \subseteq WriteItems(call'.cmds)
      BY <1>1, <2>1, CommitWrites, SilentCommits
    <2>3. Conf(listed', call', Missing', pending', held')
      BY <1>0, <1>1, <2>1, <2>2 DEF Conf
    <2> QED BY <1>0, <2>3, SameConf
  <1> QED BY <1>2, <1>3, <1>4

LEMMA ProbeConfigured == ASSUME IInv, Configured, Probe PROVE Configured'
  <1>1. UNCHANGED <<driver, emulated, listed, held>> /\ ~listed
    BY DEF Probe
  <1>2. call'.kind = "probe" /\ call'.cmds = Initial.cmds
    BY DEF Probe
  <1>3. ~Silent => Missing' \subseteq WriteItems(Initial.cmds)
    BY <1>1, SameConf, InitialWrites DEF IInv, TypeOK
  <1>4. Silent => call'.cbs # <<>>
    <2> SUFFICES ASSUME Silent PROVE call'.cbs # <<>>
      OBVIOUS
    <2>1. call'.cbs = ProfileCommit("initial", "initial", "none", Initial.cache.freq)
      BY DEF Probe, Silent
    <2> DEFINE f == Initial.cache.freq
    <2> HIDE DEF f
    <2>2. ProfileCommit("initial", "initial", "none", f) # <<>>
      BY DEF ProfileCommit
    <2> QED BY <2>1, <2>2 DEF f
  <1>5. ~held
    BY <1>1 DEF Configured, Conf
  <1>6. Conf(listed', call', Missing', pending', held')
    BY <1>1, <1>2, <1>3, <1>4, <1>5 DEF Conf
  <1> QED BY <1>1, <1>6, SameConf

(* ProbeConfigures, for any asked values and any faults, with the profile  *)
(* emulation and without: a mouse that is listed has been sent every       *)
(* setting it has, or the emulation's release failed and is owed.          *)
THEOREM ProbeSends == Spec => []ProbeConfigures
  <1>1. Init => Configured
    <2> SUFFICES ASSUME Init PROVE Configured
      OBVIOUS
    <2>1. listed = FALSE /\ held = FALSE /\ call.kind = "none"
      BY NoCallIs DEF Init
    <2> QED BY <2>1 DEF Configured, Conf
  <1>2. IInv /\ Owing /\ Configured /\ [Next]_vars => Configured'
    <2> SUFFICES ASSUME IInv, Owing, Configured, [Next]_vars PROVE Configured'
      OBVIOUS
    <2>1. CASE \/ ProfileCommand \/ SetFreqCommand \/ SetDpiMapping \/ ChangeDpiMapping
               \/ SetLed
      <3>1. PICK cbs : Command(cbs)
        BY <2>1 DEF ProfileCommand, SetFreqCommand, SetDpiMapping, ChangeDpiMapping, SetLed
      <3>2. /\ UNCHANGED <<driver, emulated, listed, pending, held, doubt>> /\ listed
            /\ call'.kind = "command"
        BY <3>1 DEF Command, NoCall
      <3> QED BY <3>2, QuietConfigured
    <2>2. CASE Remove
      <3>1. UNCHANGED <<driver, emulated, call>> /\ ~listed' /\ ~held' /\ call.kind = "none"
        BY <2>2 DEF Remove, Idle
      <3>2. Conf(listed', call', Missing', pending', held')
        BY <3>1 DEF Conf
      <3> QED BY <3>1, <3>2, SameConf
    <2>3. CASE Encode
      <3>1. Abort(doubt, pending) /\ UNCHANGED <<driver, emulated, pending, held>> /\ call.cmds # <<>>
        BY <2>3 DEF Encode
      <3> QED BY <3>1, AbortConfigured, CallUnderWay
    <2>4. CASE UNCHANGED vars
      <3>1. UNCHANGED <<driver, emulated, listed, doubt, call, pending, held>>
        BY <2>4 DEF vars
      <3>2. Missing' = Missing
        BY <3>1, SameConf DEF Missing
      <3>3. Conf(listed', call', Missing', pending', held')
        BY <3>1, <3>2 DEF Configured
      <3> QED BY <3>1, <3>3, SameConf
    <2> QED BY <2>1, <2>2, <2>3, <2>4, ProbeConfigured, FinishesConfigured, PrivilegedConfigured,
               RunCallbackConfigured, TransferConfigured, PowerLossConfigured DEF Next
  <1>3. Configured => ProbeConfigures
    BY DEF Configured, Conf, Missing, ProbeConfigures
  <1> QED BY <1>1, <1>2, <1>3, OwingInvariance, PTL DEF Spec

=============================================================================
