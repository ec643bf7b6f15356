------------------------------ MODULE Profiles ------------------------------
(***************************************************************************)
(* A mouse with profiles in its own memory, its driver, and the clients of *)
(* razerd that change the profiles: is what nobody changed still there,    *)
(* and would the next daemon find what this one reports?                   *)
(*                                                                         *)
(* As in Drivers one event of razerd's loop is worked on at a time, and    *)
(* each exchange with the mouse is a step.  The memory outlives the        *)
(* daemon: a driver reads it, and writes it back, whenever it finds the    *)
(* mouse.                                                                  *)
(***************************************************************************)
EXTENDS InitialConfig

CONSTANTS
  Drivers,      \* the drivers a run looks at
  AskedFreqs,   \* frequencies and resolutions clients ask for (bounds)
  AskedRes,
  Files,        \* the configuration files there may be
  MaxFaults     \* exchanges that fail, and crashes (bound)

ASSUME DriversAssumption ==
  /\ Drivers \subseteq {"Boomslang", "Copperhead", "Lachesis"} \cup Synapse
  /\ AskedFreqs \subseteq Nat /\ AskedRes \subseteq Nat
  /\ MaxFaults \in Nat

(* The parser takes numbers for profiles and resolutions. *)
ASSUME FilesAssumption ==
  \A f \in Files, d \in Drivers :
    LET plan == ToApply(f, d)
    IN  /\ plan \in Seq({plan[k] : k \in DOMAIN plan})
        /\ \A k \in DOMAIN plan : /\ plan[k].profile \in Int
                                  /\ plan[k].item = "res" => plan[k].value \in Int

VARIABLES
  driver,
  topic,     \* the kind of setting that this behaviour's clients change (bound)
  file,      \* the daemon's configuration
  listed,    \* the mouse is in mice_list
  cache,     \* the driver's copy
  mem,       \* the mouse's memory
  doubt,     \* why an item may differ from the copy, see TypeOK
  pending,   \* commit_pending
  held,      \* a privileged client claims the mouse
  call,      \* what razerd is doing, and the exchanges left
  first,     \* the memory at the beginning
  touched,   \* items that somebody changed on purpose
  misread,   \* a driver took a wrong answer for a profile
  fresh,     \* nobody changed anything since the configuration was applied
  faults

vars == <<driver, topic, file, listed, cache, mem, doubt, pending, held, call, first, touched, misread,
          fresh, faults>>
ghosts == <<first, touched, misread, fresh>>
setting == <<driver, topic, file>>

-----------------------------------------------------------------------------
(* The drivers by name.                                                    *)

Wire(d, c, i) ==
  CASE d = "Boomslang"  -> BoomslangWire(c, i)
    [] d = "Copperhead" -> CopperheadWire(c, i)
    [] d = "Lachesis"   -> LachesisWire(c, i)
    [] d = "Imperator"  -> ImperatorWire(c, i)
    [] OTHER            -> SynapseWire(c, i)

Took(d, c, i, v) ==
  CASE d = "Boomslang"  -> BoomslangTook(c, i, v)
    [] d = "Copperhead" -> CopperheadTook(c, i, v)
    [] d = "Lachesis"   -> LachesisTook(c, i, v)
    [] OTHER            -> SynapseTook(c, i, v)

Reads(d) ==
  CASE d = "Boomslang"  -> BoomslangReads
    [] d = "Copperhead" -> CopperheadReads
    [] d = "Lachesis"   -> LachesisReads
    [] OTHER            -> SynapseReads

CommitOf(d) ==
  CASE d = "Boomslang"  -> BoomslangCommit
    [] d = "Copperhead" -> CopperheadCommit
    [] d = "Lachesis"   -> LachesisCommit
    [] OTHER            -> SynapseCommit

WriteFates(d, i) ==
  CASE d = "Boomslang"  -> BoomslangFates(i)
    [] d = "Copperhead" -> CopperheadFates(i)
    [] d = "Lachesis"   -> LachesisFates(i)
    [] OTHER            -> SynapseFates(i)

Effect(cb) == Setter(driver, cache, cb)

Blank(d) ==
  CASE d = "Boomslang"  -> BoomslangBlank
    [] d = "Copperhead" -> CopperheadBlank
    [] d = "Lachesis"   -> LachesisBlank
    [] OTHER            -> SynapseBlank

(* What the commit writes. *)
Items(d) ==
  LET own == {Profile(p) : p \in Profiles}
  IN  CASE d = "Boomslang"  -> own \cup {Active, Lights}
        [] d = "Copperhead" -> own \cup {Active}
        [] d = "Lachesis"   -> own \cup {Active, Lights, Mapped}
        [] OTHER            -> own \cup {Name(p) : p \in Profiles} \cup {Global}

(* Memories the mouse may come with: any profile in use, the profiles      *)
(* unlike each other, and the last Synapse profile with one mapping only.  *)
ShippedCopy(d, active) ==
  [ active  |-> active,
    freq    |-> [p \in Profiles |-> IF d \in Synapse \/ p = 0 THEN 500 ELSE 1000],
    sel     |-> [p \in Profiles |-> IF d \notin Synapse THEN (p + 1) % 2
                                   ELSE IF p = 0 THEN 1 ELSE 10 * p],
    res     |-> [p \in Profiles |-> [m \in Stages |-> 500 * (m + 1)
                                                   + IF d \in Synapse THEN 100 * p ELSE 0]],
    led     |-> [p \in Profiles |-> d \in Synapse /\ p = 0],
    colour  |-> Everywhere("green"),
    buttons |-> [p \in Profiles |-> IF p = 0 THEN "swapped" ELSE "default"],
    name    |-> Everywhere("short") ]

Shipped(d, active) ==
  LET c == ShippedCopy(d, active)
  IN  [i \in Items(d) |-> IF d \in Synapse /\ i = Profile(NrProfiles - 1)
                         THEN [Wire(d, c, i) EXCEPT !.dpis = <<@[1]>>]
                         ELSE Wire(d, c, i)]

Topics(d) ==
  {"active", "freq", "mapping", "buttons"}
    \cup (IF d = "Copperhead" THEN {} ELSE {"led"})
    \cup (IF d \in {"Lachesis"} \cup Synapse THEN {"resolution"} ELSE {})
    \cup (IF d \in Synapse THEN {"name"} ELSE {})
    \cup (IF d = "Lachesis5600" THEN {"colour"} ELSE {})

-----------------------------------------------------------------------------
(* Steps of a call.                                                        *)

NoCall == [kind |-> "none", ops |-> <<>>]
Idle   == call.kind = "none"

Become(items, why) == [i \in Items(driver) |-> IF i \in items THEN why ELSE doubt[i]]

Unsent == [i \in Items(driver) |-> "unsent"]

(* m->release(): the last claim to go commits what is pending. *)
Releasing(pend, hold) ==
  IF pend /\ ~hold THEN [kind |-> "release", ops |-> CommitOf(driver)] ELSE NoCall

Init ==
  /\ driver \in Drivers
  /\ topic \in Topics(driver)
  /\ file \in Files
  /\ listed = FALSE
  /\ cache = Blank(driver)
  /\ \E a \in Profiles : mem = Shipped(driver, a)
  /\ first = mem
  /\ doubt = Unsent
  /\ pending = FALSE /\ held = FALSE
  /\ call = NoCall
  /\ touched = {} /\ misread = FALSE /\ fresh = FALSE /\ faults = 0

(* mouse_new: read the memory, then write it. *)
Probe ==
  /\ Idle /\ ~listed
  /\ cache' = Blank(driver)
  /\ doubt' = Unsent
  /\ call' = [kind |-> "probe", ops |-> Reads(driver)]
  /\ UNCHANGED <<setting, listed, mem, pending, held, ghosts, faults>>

(* The end of a call by an error: a probe drops the mouse, razerd ignores  *)
(* that of a release, and what is not written stays pending.               *)
Abort(dbt) ==
  /\ call' = NoCall
  /\ doubt' = [i \in Items(driver) |-> IF dbt[i] = "owed" THEN "swallowed" ELSE dbt[i]]

Fault == faults < MaxFaults /\ faults' = faults + 1

OneLess == [call EXCEPT !.ops = Tail(@)]

(* The reads over, the probe goes on with the initial commit. *)
AfterRead ==
  IF Len(call.ops) = 1 THEN [call EXCEPT !.ops = CommitOf(driver)] ELSE OneLess

Doing(op) == call.kind # "configure" /\ call.ops # <<>> /\ Head(call.ops)[1] = op

ReadItem ==
  /\ Doing("read")
  /\ LET i == Head(call.ops)[2] IN cache' = Took(driver, cache, i, mem[i])
  /\ call' = AfterRead
  /\ UNCHANGED <<setting, listed, mem, doubt, pending, held, ghosts, faults>>

(* Another profile's configuration is read.  The Boomslang's driver ends   *)
(* the probe, the others take it.                                          *)
Misread ==
  /\ Doing("read") /\ Head(call.ops)[2][1] = "profile"
  /\ Fault
  /\ \E q \in Profiles \ {Head(call.ops)[2][2]} :
       LET i == Head(call.ops)[2]
       IN  IF driver = "Boomslang"
           THEN Abort(doubt) /\ UNCHANGED <<cache, misread>>
           ELSE /\ cache' = Took(driver, cache, i, mem[Profile(q)])
                /\ misread' = TRUE
                /\ call' = AfterRead
                /\ UNCHANGED doubt
  /\ UNCHANGED <<setting, listed, mem, pending, held, first, touched, fresh>>

(* A profile's checksum is wrong: the Copperhead's driver goes on with its *)
(* defaults.                                                               *)
Unreadable ==
  /\ Doing("read") /\ Head(call.ops)[2][1] = "profile" /\ driver = "Copperhead"
  /\ Fault
  /\ misread' = TRUE
  /\ call' = AfterRead
  /\ UNCHANGED <<setting, listed, cache, mem, doubt, pending, held, first, touched, fresh>>

(* A query, or the Lachesis turned to a profile for a while. *)
Pass ==
  /\ Doing("query") \/ Doing("turn")
  /\ mem' = IF Doing("turn") THEN [mem EXCEPT ![Active] = Head(call.ops)[2] + 1] ELSE mem
  /\ call' = OneLess
  /\ UNCHANGED <<setting, listed, cache, doubt, pending, held, ghosts, faults>>

FailedExchange ==
  /\ Doing("read") \/ Doing("query") \/ Doing("turn")
  /\ Fault
  /\ Abort(doubt)
  /\ UNCHANGED <<setting, listed, cache, mem, pending, held, ghosts>>

(* A commit that ends without an error, here or in FinishCommit.  A new    *)
(* mouse is then claimed, and configured.                                  *)
Committed ==
  /\ call' = IF call.kind = "probe" THEN [kind |-> "configure", ops |-> ToApply(file, driver)]
             ELSE NoCall
  /\ pending' = FALSE
  /\ listed' = TRUE

WriteItem ==
  /\ Doing("write")
  /\ LET i == Head(call.ops)[2]
     IN \E fate \in WriteFates(driver, i) :
          /\ IF fate = "done" THEN UNCHANGED faults ELSE Fault
          /\ mem' = IF fate \in {"done", "spoilt"} THEN [mem EXCEPT ![i] = Wire(driver, cache, i)] ELSE mem
          /\ CASE fate = "done"    -> /\ doubt' = Become({i}, "none")
                                      /\ call' = OneLess
                                      /\ UNCHANGED <<listed, pending>>
               [] fate = "ignored" -> /\ doubt' = Become({i}, "ignored")
                                      /\ call' = OneLess
                                      /\ UNCHANGED <<listed, pending>>
               [] fate = "refused" -> /\ doubt' = [j \in Items(driver) |->
                                           IF \E k \in DOMAIN call.ops : call.ops[k] = Write(j)
                                           THEN "ignored" ELSE doubt[j]]
                                      /\ Committed
               [] OTHER            -> Abort(doubt) /\ UNCHANGED <<listed, pending>>
  /\ UNCHANGED <<setting, cache, held, ghosts>>

FinishCommit ==
  /\ call.kind \notin {"none", "configure"} /\ call.ops = <<>>
  /\ Committed
  /\ UNCHANGED <<setting, cache, mem, doubt, held, ghosts, faults>>

(* A setter's result r is in the copy, an error's too, and owed. *)
Taken(r) ==
  /\ cache' = r.cache
  /\ pending' = (pending \/ r.owed # {})
  /\ doubt' = Become(r.owed, "owed")
  /\ touched' = touched \cup r.owed

(* mouse_apply_one_config: the items of the file, up to the first error.   *)
ConfigureItem ==
  /\ call.kind = "configure" /\ call.ops # <<>>
  /\ LET r == ApplyItem(driver, cache, Head(call.ops))
     IN  /\ Taken(r)
         /\ call' = IF r.error THEN [call EXCEPT !.ops = <<>>] ELSE OneLess
  /\ UNCHANGED <<setting, listed, mem, held, first, misread, fresh, faults>>

(* mouse_apply_initial_config gives the mouse back. *)
Configured ==
  /\ call.kind = "configure" /\ call.ops = <<>>
  /\ call' = Releasing(pending, held)
  /\ fresh' = TRUE
  /\ UNCHANGED <<setting, listed, cache, mem, doubt, pending, held, first, touched, misread, faults>>

(* A command: claim, the setter, release. *)
Command(r) ==
  /\ Idle /\ listed
  /\ Taken(r)
  /\ call' = Releasing(pending', held)
  /\ fresh' = FALSE
  /\ UNCHANGED <<setting, listed, mem, held, first, misread, faults>>

Set(op, p, v) == Command(Effect([op |-> op, profile |-> p, value |-> v]))

ActiveCommand ==
  /\ topic = "active"
  /\ \E p \in Profiles : Command(Effect([op |-> "active", profile |-> p]))

FreqCommand ==
  /\ topic = "freq"
  /\ \E p \in Profiles, f \in AskedFreqs : Set("freq", p, f)

(* Mappings are named by their number among all of the mouse's. *)
MappingNrs == MappingsOf(driver)

MappingCommand ==
  /\ topic = "mapping"
  /\ \E p \in Profiles, m \in MappingNrs : Set("mapping", p, m)

ResolutionCommand ==
  /\ topic = "resolution"
  /\ \E m \in MappingNrs, r \in AskedRes :
       Command(Effect([op |-> "resolution", mapping |-> m, value |-> r]))

LedCommand ==
  /\ topic = "led"
  /\ \E p \in Profiles, on \in BOOLEAN : Set("led", p, on)

ColourCommand ==
  /\ topic = "colour"
  /\ \E p \in Profiles, v \in {"green", "white"} : Set("colour", p, v)

ButtonCommand ==
  /\ topic = "buttons"
  /\ \E p \in Profiles, b \in {"default", "swapped"} : Set("buttons", p, b)

(* COMMAND_SETPROFNAME does not claim the mouse, and the setter wants it   *)
(* claimed: unless a privileged client holds it, the name is refused and   *)
(* nothing changes.                                                        *)
NameCommand ==
  /\ topic = "name" /\ held
  /\ \E p \in Profiles, n \in {"short", "long"} : Set("name", p, n)

(* COMMAND_PRIV_RECONFIGMICE: a forced commit. *)
Reconfig ==
  /\ Idle /\ listed
  /\ call' = [kind |-> "reconfig", ops |-> CommitOf(driver)]
  /\ UNCHANGED <<setting, listed, cache, mem, doubt, pending, held, ghosts, faults>>

Hold ==
  /\ Idle /\ listed /\ ~held
  /\ held' = TRUE
  /\ UNCHANGED <<setting, listed, cache, mem, doubt, pending, call, ghosts, faults>>

Unhold ==
  /\ Idle /\ held
  /\ held' = FALSE
  /\ call' = Releasing(pending, FALSE)
  /\ UNCHANGED <<setting, listed, cache, mem, doubt, pending, ghosts, faults>>

(* The profile button of the mouse: no driver notices it. *)
ProfileButton ==
  LET i == IF driver \in Synapse THEN Global ELSE Active
  IN  /\ Idle /\ listed /\ topic = "active"
      /\ \E p \in Profiles :
           mem' = [mem EXCEPT ![i] =
                     IF driver \in Synapse
                     THEN LET w == mem[Profile(p)]
                          IN [@ EXCEPT !.active = p + 1, !.sel = w.sel, !.dpi = w.dpis[w.sel]]
                     ELSE p + 1]
      /\ doubt' = Become({i}, "turned")
      /\ touched' = touched \cup {i}
      /\ fresh' = FALSE
      /\ UNCHANGED <<setting, listed, cache, pending, held, call, first, misread, faults>>

(* The mouse is unplugged or the daemon ends, at rest or in the middle of  *)
(* a call.                                                                 *)
Unplug ==
  /\ listed \/ ~Idle
  /\ IF Idle THEN UNCHANGED faults ELSE Fault
  /\ listed' = FALSE /\ pending' = FALSE /\ held' = FALSE
  /\ call' = NoCall
  /\ doubt' = Unsent
  /\ fresh' = FALSE
  /\ UNCHANGED <<setting, cache, mem, first, touched, misread>>

Next ==
  \/ Probe \/ ReadItem \/ Misread \/ Unreadable \/ Pass \/ FailedExchange
  \/ WriteItem \/ FinishCommit \/ ConfigureItem \/ Configured
  \/ ActiveCommand \/ FreqCommand \/ MappingCommand \/ ResolutionCommand
  \/ LedCommand \/ ColourCommand \/ ButtonCommand \/ NameCommand
  \/ Reconfig \/ Hold \/ Unhold \/ ProfileButton \/ Unplug

Spec == Init /\ [][Next]_vars

-----------------------------------------------------------------------------
(* Properties.                                                             *)

(* A driver's copy.  A frequency is what somebody asked for, or unknown    *)
(* until it is read.                                                       *)
IsCopy(d, c) ==
  /\ c \in [ active : Profiles, freq : [Profiles -> Nat], sel : [Profiles -> Nat],
             res : [Profiles -> [Stages -> Nat]], led : [Profiles -> BOOLEAN],
             colour : [Profiles -> Colours],
             buttons : [Profiles -> {"zeroed", "default", "swapped"}],
             name : [Profiles -> {"none", "short", "cut"}] ]
  /\ \A p \in Profiles : c.sel[p] \in Own(d, p)

Freqs == AskedFreqs \cup {125, 500, 1000}

(* What the mouse's memory may have as item i: every code is one that the  *)
(* driver can read.                                                        *)
SynapseDpiCodes == {4 * k : k \in 0 .. 63}

SynapseWords ==
  { w \in [ sel : 1..2, dpis : [1..1 -> SynapseDpiCodes] \cup [1..2 -> SynapseDpiCodes],
            led : BOOLEAN, colour : Colours, buttons : {"zeroed", "default", "swapped"} ] :
      w.sel \in DOMAIN w.dpis }

IsWord(d, i, v) ==
  CASE i[1] = "active" -> v \in 1 .. NrProfiles
    [] i[1] = "lights" -> v \in BOOLEAN
    [] i[1] = "mapped" -> v \in [Stages -> 0..255]
    [] i[1] = "global" -> v \in [ active : 1 .. NrProfiles, freq : {1, 2, 8}, sel : 1..2,
                                 dpi : SynapseDpiCodes ]
    [] i[1] = "name"   -> v \in {"none", "short", "cut"}
    [] OTHER -> IF d \in Synapse THEN v \in SynapseWords /\ (d = "Imperator" => v.colour = "black")
                ELSE v \in [ sel : IF d = "Lachesis" THEN 1..2 ELSE 3..4, freq : 1..3,
                             buttons : {"zeroed", "default", "swapped"} ]

(* The types.  doubt: the item was written (none), it was changed and is   *)
(* not written yet (owed), its write failed in a release (swallowed), the  *)
(* mouse refused it and the driver did not notice (ignored), its button    *)
(* changed it (turned), or it was not written since the mouse was found.   *)
TypeOK ==
  /\ driver \in Drivers /\ topic \in Topics(driver)
  /\ IsCopy(driver, cache)
  /\ \A p \in Profiles : cache.freq[p] \in Freqs \cup IF listed THEN {} ELSE {0}
  /\ DOMAIN mem = Items(driver) /\ DOMAIN first = Items(driver)
  /\ \A i \in Items(driver) : IsWord(driver, i, mem[i]) /\ IsWord(driver, i, first[i])
  /\ doubt \in [Items(driver) -> {"none", "owed", "swallowed", "ignored", "turned", "unsent"}]
  /\ DOMAIN call = {"kind", "ops"}
  /\ call.kind \in {"none", "probe", "configure", "release", "reconfig"}
  /\ {listed, pending, held, misread, fresh} \subseteq BOOLEAN
  /\ touched \subseteq Items(driver)
  /\ faults \in 0..MaxFaults

(* What there is no reason to doubt is in the mouse's memory as the copy   *)
(* has it, also the selection of the profile in use that Synapse keeps     *)
(* twice.  What is owed is written before razerd waits again, unless a     *)
(* privileged client holds the mouse, and stays pending until it is.       *)
MemoryAgrees ==
  \A i \in Items(driver) :
    /\ doubt[i] = "none" => mem[i] = Wire(driver, cache, i)
    /\ Idle /\ ~held => doubt[i] # "owed"
    /\ doubt[i] \in {"owed", "swallowed"} => pending

(* What an item means to the user: of a profile with mappings of its own   *)
(* the resolution in use, for the driver may add mappings.                 *)
Meaning(d, i, v) ==
  CASE d \in Synapse /\ i[1] = "profile" ->
         <<v.dpis[v.sel], v.sel, v.led, v.colour, v.buttons>>
    [] OTHER -> v

(* The memory keeps what nobody changed, through any number of probes,     *)
(* commits of something else, failures and daemons that end in the middle: *)
(* unless a driver took a wrong answer, which the Boomslang's never does.  *)
(* The Boomslang's LEDs are not read, and the Lachesis may be left on the  *)
(* profile that was read last.                                             *)
UntouchedKept ==
  ~misread =>
    \A i \in Items(driver) \ touched :
      \/ Meaning(driver, i, mem[i]) = Meaning(driver, i, first[i])
      \/ driver = "Boomslang" /\ i = Lights
      \/ driver = "Lachesis" /\ i = Active /\ (faults > 0 \/ ~Idle)

(* What the wire can say: not a frequency of 250 Hz, nor resolutions       *)
(* between its steps or beyond a byte.                                     *)
Sayable ==
  /\ \A p \in Profiles : cache.freq[p] \in {125, 500, 1000}
  /\ driver = "Lachesis" => \A m \in Stages : cache.res[0][m] \in {125 * k : k \in 1..256}
  /\ driver \in Synapse  => \A p \in Profiles, m \in Stages :
                              cache.res[p][m] \in {100 * k : k \in 1..64}

(* What a daemon finds that starts now and reads the memory: each field is *)
(* taken from the item that has it.  (The Boomslang's LEDs cannot be read, *)
(* they are taken as they are.)                                            *)
Found ==
  LET from(i) == Took(driver, Blank(driver), i, mem[i])
      own(p)  == from(Profile(p))
  IN  [ active  |-> from(IF driver \in Synapse THEN Global ELSE Active).active,
        freq    |-> [p \in Profiles |-> IF driver \in Synapse THEN from(Global).freq[p]
                                       ELSE own(p).freq[p]],
        sel     |-> [p \in Profiles |-> own(p).sel[p]],
        res     |-> [p \in Profiles |-> IF driver = "Lachesis" THEN from(Mapped).res[p]
                                       ELSE own(p).res[p]],
        led     |-> [p \in Profiles |-> IF driver \in {"Boomslang", "Lachesis"} THEN mem[Lights]
                                       ELSE own(p).led[p]],
        colour  |-> [p \in Profiles |-> own(p).colour[p]],
        buttons |-> [p \in Profiles |-> own(p).buttons[p]],
        name    |-> [p \in Profiles |-> IF driver \in Synapse THEN from(Name(p)).name[p]
                                       ELSE Blank(driver).name[p]] ]

Written == listed /\ Idle /\ \A i \in Items(driver) : doubt[i] = "none"

(* When a mouse is at rest and everything was written, a daemon that       *)
(* starts now and reads the memory reports what this one does.             *)
NextDaemonFinds == Written /\ Sayable => Found = cache

(* What of the configuration should be in force: the items that fit the    *)
(* mouse, up to the first error, and if two are about the same the later   *)
(* one.  For Synapse it is an error too to name a resolution that another  *)
(* profile before this one has, or that only another one has.  (Where that *)
(* matters a file of Files names the profile.)                             *)
Offers(d, c, p, it) == \E m \in Own(d, p) : it.value \in {m, ResOf(d, c, m)}
IsError(d, c, it) ==
  \/ it.item = "profile" /\ it.value \notin 1 .. NrProfiles
  \/ it.item \in {"res", "freq", "led", "mode", "color"} /\ it.profile \notin 0 .. NrProfiles
  \/ it.item = "freq" /\ it.value \notin {125, 500, 1000}
  \/ it.item = "res" /\ it.value < 1
  \/ it.item = "led" /\ it.value \notin BOOLEAN
  \/ it.item = "color" /\ it.value \notin Colours
  \/ /\ d \in Synapse /\ it.item = "res"
     /\ \E q \in Profiles \ {it.profile - 1} :
          Offers(d, c, q, it) /\ (q + 1 < it.profile \/ ~Offers(d, c, it.profile - 1, it))
SameSubject(d, it, other) ==
  /\ it.item = other.item
  /\ it.item = "profile" \/ it.profile = other.profile \/ 0 \in {it.profile, other.profile}
     \/ (it.item = "led" /\ d \notin Synapse)
InForce(d, c, plan) ==
  LET carried == {k \in DOMAIN plan : \A j \in 1 .. k : ~IsError(d, c, plan[j])}
  IN  {k \in carried : \A j \in carried : j > k => ~SameSubject(d, plan[k], plan[j])}

(* A mouse with that copy does what the item says, if it can. *)
Obeys(d, c, it) ==
  LET p     == it.profile - 1
      named == it.profile # 0
  IN  /\ it.item = "profile"        => c.active = it.value - 1
      /\ it.item = "freq" /\ named  => d \in Synapse \/ c.freq[p] = it.value
      /\ it.item = "led" /\ named   => d = "Copperhead" \/ c.led[p] = it.value
      /\ it.item = "color" /\ named => d # "Lachesis5600" \/ c.colour[p] = it.value
      /\ it.item = "res" /\ named /\ Offers(d, c, p, it) =>
                                      it.value \in {c.sel[p], ResOf(d, c, c.sel[p])}

(* A mouse that was found, and that nobody changed since, keeps in its     *)
(* memory what the configuration file says: whatever an earlier daemon or  *)
(* the mouse's button had put there, whatever was misread, and wherever    *)
(* the last daemon ended; unless an exchange failed that wrote it.         *)
ConfigTakesHold ==
  fresh /\ Written =>
    LET plan == ToApply(file, driver)
    IN  \A k \in InForce(driver, Found, plan) : Obeys(driver, Found, plan[k])
=============================================================================
