---------------------------- MODULE DriverTypes ----------------------------
(***************************************************************************)
(* What the mouse drivers of librazer have in common: the settings a       *)
(* driver keeps a copy of (struct <driver>_drv_data), the items of the     *)
(* device its commands write, and the result of a callback.                *)
(*                                                                         *)
(* A command is a function from the items it writes to their values; a     *)
(* query writes none.  Two of a driver's resolution mappings are kept: the *)
(* one it starts with and another one.                                     *)
(***************************************************************************)
EXTENDS Naturals, Sequences

Mappings == {"initial", "other"}
Dims     == {"x", "y"}
Leds     == {"scroll", "logo", "thumb"}
Parts    == {"light", "mode", "colour"}

Freq  == <<"mouse", "freq">>
Res   == <<"mouse", "res">>
Items == {Freq, Res} \cup Leds \X Parts

SupportedFreqs == {125, 500, 1000}
LedModes       == {"static", "spectrum", "breathing", "wave", "reaction"}

(* The driver's copy before a client changed anything. *)
Defaults(freq, stages, mode, colour) ==
  [ freq   |-> freq,
    cur    |-> [a \in Dims |-> "initial"],                   \* current_dpimapping
    res    |-> [m \in Mappings |-> [a \in Dims |-> stages[m]]],
    on     |-> [l \in Leds |-> TRUE],
    mode   |-> [l \in Leds |-> mode],
    colour |-> [l \in Leds |-> colour] ]

(* The resolutions in use: each axis takes its dimension of its mapping. *)
Resolution(c) == [a \in Dims |-> c.res[c.cur[a]][a]]

(* What a callback returns: an error and nothing changed; or the changed   *)
(* copy, the commands it sends, and the items the device is now owed.      *)
Refuse(c)        == [err |-> TRUE,  cache |-> c, cmds |-> <<>>, owed |-> {}, defer |-> FALSE]
Stored(c)        == [err |-> FALSE, cache |-> c, cmds |-> <<>>, owed |-> {}, defer |-> FALSE]
Send(c, cmds)    == [err |-> FALSE, cache |-> c, cmds |-> cmds,
                     owed |-> UNION {DOMAIN cmds[k] : k \in DOMAIN cmds}, defer |-> FALSE]
Deferred(c, owe) == [err |-> FALSE, cache |-> c, cmds |-> <<>>, owed |-> owe, defer |-> TRUE]

(* The command that sets item i to v, and f with what g has besides. *)
Sets(i, v) == [j \in {i} |-> v]
With(f, g) == [j \in DOMAIN f \cup DOMAIN g |-> IF j \in DOMAIN f THEN f[j] ELSE g[j]]

Query == [i \in {} |-> TRUE]

SetResolution(c) == Sets(Res, Resolution(c))

(* How a command may end: not taken and an error; taken and an error (the  *)
(* answer is lost or spoilt); taken; not taken and no error.               *)
AllFates == {"lost", "spoilt", "done", "ignored"}
=============================================================================
