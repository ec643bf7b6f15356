--------------------------- MODULE Profiles_proofs ---------------------------
(***************************************************************************)
(* What holds of Profiles for any two or more profiles, any number of      *)
(* faults, and whatever the files and what clients ask for: the memory     *)
(* follows the copy, it keeps what nobody changed, the next daemon finds   *)
(* what this one reports, and (for at most ten profiles) what the          *)
(* configuration file says is in force once it has been written.           *)
(*                                                                         *)
(* First the invariant, then the operators of ProfileDrivers and           *)
(* InitialConfig (what the plans of a driver hold, what a reading takes,   *)
(* what a setter owes), then each action; the configuration file is last.  *)
(***************************************************************************)
EXTENDS Profiles, WellFoundedInduction, TLAPS

-----------------------------------------------------------------------------
(* The invariant.                                                          *)

(* The exchanges of a plan, and those that razerd has left. *)
OpsOf(s) == {s[k] : k \in DOMAIN s}
Left == OpsOf(call.ops)

(* The items that a probe reads. *)
Readable(d) == Items(d) \ (IF d = "Boomslang" THEN {Lights} ELSE {})

(* The exchanges of a probe's first half, and of a commit. *)
ReadOps(d) ==
  {Read(i) : i \in Readable(d)} \cup (IF d \in {"Boomslang", "Copperhead"} THEN {} ELSE {Query})
    \cup (IF d = "Lachesis" THEN {Turn(p) : p \in Profiles} \cup {Write(Active)} ELSE {})

WriteOps(d) == {Write(i) : i \in Items(d)}

(* The Lachesis is turned to its profiles between the read of the profile  *)
(* in use and its restoration.                                             *)
TurnsBack(s) ==
  \A j, k \in DOMAIN s :
    j < k => /\ s[j] \in {Turn(p) : p \in Profiles} \cup {Write(Active)} => s[k] # Read(Active)
             /\ s[j] = Write(Active) => s[k] \in {Read(Lights), Read(Mapped)}

(* A Lachesis that will be turned away will be turned back. *)
Returns(s) == (\E p \in Profiles : Turn(p) \in OpsOf(s)) => Write(Active) \in OpsOf(s)

(* A rest of a probe's reads, which a read ends, and of a commit's writes. *)
IsReads(d, s) ==
  /\ s \in Seq(ReadOps(d)) /\ s # <<>> /\ s[Len(s)] \in {Read(i) : i \in Readable(d)}
  /\ d = "Lachesis" => TurnsBack(s) /\ Returns(s)

IsWrites(d, s) == s \in Seq(WriteOps(d))

(* razerd reads the mouse, or writes it. *)
IsReading == call.kind = "probe" /\ IsReads(driver, call.ops)
IsWriting == call.kind \in {"probe", "release", "reconfig"} /\ IsWrites(driver, call.ops)

(* Where razerd is. *)
Whereabouts ==
  /\ call.kind = "none" => call.ops = <<>>
  /\ call.kind = "probe" => ~listed /\ ~held /\ (IsReading \/ IsWriting)
  /\ call.kind = "configure" => listed /\ ~held
  /\ call.kind \in {"release", "reconfig"} => listed /\ IsWriting
  /\ held => listed

(* The item that has profile p's frequency. *)
FreqItemOf(d, p) == IF d \in Synapse THEN Global ELSE Profile(p)
(* A frequency is unknown only until it is read.  (The Copperhead's has a  *)
(* default.)                                                               *)
FreqsRead == call.kind = "probe" =>
  \A p \in Profiles : cache.freq[p] \in Freqs \/ (driver # "Copperhead" /\ Read(FreqItemOf(driver, p)) \in Left)

(* What the fields of a copy keep that are not a profile's own. *)
Shape(d, c) ==
  /\ d \in {"Boomslang", "Lachesis"} => \A p \in Profiles : c.led[p] = c.led[0]
  /\ d = "Lachesis" => \A p \in Profiles : c.res[p] = c.res[0]
  /\ d = "Copperhead" => c.led = Zeroed.led
  /\ d \in {"Boomslang", "Copperhead"} => c.res = Zeroed.res
  /\ d # "Lachesis5600" => c.colour = Zeroed.colour
  /\ d \notin Synapse => c.name = Zeroed.name
  /\ d \in Synapse => \A p \in Profiles : c.freq[p] = c.freq[0]

(* Until the reads are over nothing was written, but that the Lachesis was *)
(* turned back.                                                            *)
Untold ==
  IsReading => \A i \in Items(driver) :
    \/ doubt[i] = "unsent"
    \/ doubt[i] = "none" /\ driver = "Lachesis" /\ i = Active /\ Left \subseteq {Read(Lights), Read(Mapped)}

(* What is owed is among the writes left, or pending. *)
Owing ==
  \A i \in Items(driver) : doubt[i] \in {"owed", "swallowed"} =>
     pending /\ (IsWriting => Write(i) \in Left)

(* What copy c says of item i, is what the memory word v says. *)
Tells(d, c, i, v) ==
  IF i = Global /\ d \in Synapse THEN c.active = v.active - 1 /\ SynapseFreqCode(c.freq[0]) = v.freq
  ELSE Meaning(d, i, Wire(d, c, i)) = Meaning(d, i, v)

(* The copy has the item: it was read. *)
HasCopy(i) == listed \/ (call.kind = "probe" /\ Read(i) \notin Left)

(* The Lachesis is on the profile that is being read. *)
Turned == IsReading /\ Read(Active) \notin Left /\ Write(Active) \in Left

(* The items that may change of themselves, see UntouchedKept. *)
Excused(i) ==
  \/ driver = "Boomslang" /\ i = Lights
  \/ driver = "Lachesis" /\ i = Active /\ faults > 0

(* What nobody changed is in the memory as at the beginning, and the copy  *)
(* says so too.                                                            *)
KeptInMemory ==
  \A i \in Items(driver) \ touched :
    \/ Meaning(driver, i, mem[i]) = Meaning(driver, i, first[i])
    \/ Excused(i) \/ (driver = "Lachesis" /\ i = Active /\ Turned)

KeptInCopy ==
  \A i \in Items(driver) \ touched : HasCopy(i) => Tells(driver, cache, i, first[i]) \/ Excused(i)

(* What a Synapse profile's word selects, and its resolution. *)
Chosen(v) == <<v.sel, v.dpis[v.sel]>>

(* The global item repeats what is chosen. *)
ChosenKept ==
  driver \in Synapse /\ Global \notin touched =>
    \A p \in Profiles :
      LET i == Profile(p)
      IN  /\ Chosen(mem[i]) = Chosen(first[i])
          /\ HasCopy(i) => Chosen(Wire(driver, cache, i)) = Chosen(first[i])

(* So it did at the beginning. *)
FirstFits ==
  driver \in Synapse =>
    Chosen(first[Profile(first[Global].active - 1)]) = <<first[Global].sel, first[Global].dpi>>

Keeping == FirstFits /\ (~misread => KeptInMemory /\ KeptInCopy /\ ChosenKept)

(* The inductive invariant.                                                *)
IInv ==
  /\ TypeOK /\ Whereabouts /\ FreqsRead /\ Shape(driver, cache) /\ MemoryAgrees /\ Untold /\ Owing /\ Keeping

-----------------------------------------------------------------------------
(* Sequences of operations.                                                *)

LEMMA TailIs ==
  ASSUME NEW S, NEW s \in Seq(S), s # <<>>
  PROVE  /\ Head(s) \in S /\ Head(s) = s[1] /\ Len(s) \in Nat \ {0}
         /\ Tail(s) \in Seq(S) /\ Len(Tail(s)) = Len(s) - 1
         /\ \A k \in 1 .. Len(s) - 1 : Tail(s)[k] = s[k + 1]
  OBVIOUS

LEMMA OpsOfTail ==
  ASSUME NEW S, NEW s \in Seq(S), s # <<>>
  PROVE  /\ OpsOf(s) = {Head(s)} \cup OpsOf(Tail(s))
         /\ OpsOf(s) \subseteq S
<1> DEFINE t == Tail(s)
           n == Len(s)
<1>1. /\ Head(s) = s[1] /\ n \in Nat \ {0} /\ t \in Seq(S) /\ Len(t) = n - 1
      /\ \A k \in 1 .. n - 1 : t[k] = s[k + 1]
  BY TailIs
<1>2. DOMAIN s = 1 .. n /\ DOMAIN t = 1 .. n - 1
  BY <1>1
<1>3. ASSUME NEW k \in 1 .. n PROVE s[k] \in {s[1]} \cup {t[j] : j \in 1 .. n - 1}
  <2>1. CASE k = 1
    BY <2>1
  <2>2. CASE k # 1
    <3>1. k - 1 \in 1 .. n - 1 /\ k = (k - 1) + 1
      BY <2>2, <1>1, <1>3
    <3>2. t[k - 1] = s[k]
      BY <3>1, <1>1
    <3> QED
      BY <3>1, <3>2
  <2> QED
    BY <2>1, <2>2
<1>4. \A k \in 1 .. n - 1 : k + 1 \in 1 .. n
  BY <1>1
<1>5. 1 \in 1 .. n
  BY <1>1
<1>6. OpsOf(s) = {s[k] : k \in 1 .. n} /\ OpsOf(t) = {t[k] : k \in 1 .. n - 1}
  BY <1>2 DEF OpsOf
<1> HIDE DEF n, t
<1>7. OpsOf(s) = {s[1]} \cup OpsOf(t)
  BY <1>1, <1>3, <1>4, <1>5, <1>6
<1>8. OpsOf(s) \subseteq S
  BY <1>6 DEF n
<1> QED
  BY <1>1, <1>7, <1>8 DEF t

LEMMA OpsOfConcat ==
  ASSUME NEW S, NEW s \in Seq(S), NEW t \in Seq(S)
  PROVE  /\ s \o t \in Seq(S) /\ Len(s \o t) = Len(s) + Len(t)
         /\ \A k \in 1 .. Len(s) : (s \o t)[k] = s[k]
         /\ \A k \in 1 .. Len(t) : (s \o t)[Len(s) + k] = t[k]
         /\ OpsOf(s) \subseteq OpsOf(s \o t) /\ OpsOf(t) \subseteq OpsOf(s \o t)
<1>1. /\ s \o t \in Seq(S) /\ Len(s \o t) = Len(s) + Len(t)
      /\ \A k \in 1 .. Len(s) : (s \o t)[k] = s[k]
      /\ \A k \in 1 .. Len(t) : (s \o t)[Len(s) + k] = t[k]
      /\ Len(s) \in Nat /\ Len(t) \in Nat
  OBVIOUS
<1> DEFINE u == s \o t
<1>2. DOMAIN s = 1 .. Len(s) /\ DOMAIN t = 1 .. Len(t) /\ DOMAIN u = 1 .. Len(s) + Len(t)
  BY <1>1
<1> HIDE DEF u
<1>3. \A k \in 1 .. Len(s) : k \in 1 .. Len(s) + Len(t)
  BY <1>1
<1>4. \A k \in 1 .. Len(t) : Len(s) + k \in 1 .. Len(s) + Len(t)
  BY <1>1
<1>5. OpsOf(s) \subseteq OpsOf(u)
  BY <1>1, <1>2, <1>3 DEF OpsOf, u
<1>6. OpsOf(t) \subseteq OpsOf(u)
  BY <1>1, <1>2, <1>4 DEF OpsOf, u
<1> QED
  BY <1>1, <1>5, <1>6 DEF u

-----------------------------------------------------------------------------
(* The plans: what a probe reads and what a commit writes.                 *)

DriverNames == {"Boomslang", "Copperhead", "Lachesis", "Imperator", "Lachesis5600"}

LEMMA DriversNamed == Drivers \subseteq DriverNames
  BY DriversAssumption DEF DriverNames, Synapse

LEMMA ProfilesAre == /\ NrProfiles \in Nat /\ NrProfiles >= 2
                     /\ Profiles \subseteq Nat /\ 0 \in Profiles /\ NrProfiles - 1 \in Profiles
                     /\ NrProfiles - 1 # 0
                     /\ \A k \in 1 .. NrProfiles : k - 1 \in Profiles
                     /\ \A p \in Profiles : p + 1 \in 1 .. NrProfiles /\ (p + 1) - 1 = p
  BY ProfilesAssumption DEF Profiles

(* The items by driver, and that they differ. *)
LEMMA ItemsAre ==
  ASSUME NEW d \in DriverNames
  PROVE  /\ d = "Boomslang" => Items(d) = {Profile(p) : p \in Profiles} \cup {Active, Lights}
         /\ d = "Copperhead" => Items(d) = {Profile(p) : p \in Profiles} \cup {Active}
         /\ d = "Lachesis" => Items(d) = {Profile(p) : p \in Profiles} \cup {Active, Lights, Mapped}
         /\ d \in Synapse => Items(d) = {Profile(p) : p \in Profiles} \cup {Name(p) : p \in Profiles}
                                          \cup {Global}
  BY DEF DriverNames, Items, Synapse

LEMMA ItemsDiffer ==
  /\ Active # Lights /\ Active # Mapped /\ Lights # Mapped
  /\ Active[1] = "active" /\ Lights[1] = "lights" /\ Mapped[1] = "mapped" /\ Global[1] = "global"
  /\ \A p : Profile(p)[1] = "profile" /\ Profile(p)[2] = p /\ Name(p)[1] = "name" /\ Name(p)[2] = p
  /\ \A p : Profile(p) \notin {Active, Lights, Mapped, Global} /\ Name(p) # Global
  /\ \A p, q : Profile(p) # Name(q) /\ (Profile(p) = Profile(q) => p = q)
               /\ (Name(p) = Name(q) => p = q)
  BY DEF Active, Lights, Mapped, Global, Profile, Name

LEMMA OpsDiffer ==
  /\ \A i, j : Read(i) # Write(j) /\ (Read(i) = Read(j) => i = j) /\ (Write(i) = Write(j) => i = j)
  /\ \A i, p : Read(i) # Turn(p) /\ Write(i) # Turn(p) /\ Read(i) # Query /\ Write(i) # Query
  /\ \A i : Read(i)[1] = "read" /\ Read(i)[2] = i /\ Write(i)[1] = "write" /\ Write(i)[2] = i
  /\ \A p : Turn(p)[1] = "turn" /\ Turn(p)[2] = p /\ Turn(p) # Query
  /\ Query[1] = "query"
  BY DEF Read, Write, Turn, Query

LEMMA EachIs ==
  ASSUME NEW S, NEW f \in [1 .. NrProfiles -> S]
  PROVE  /\ f \in Seq(S) /\ Len(f) = NrProfiles
         /\ \A p \in Profiles : f[p + 1] \in OpsOf(f)
<1>1. NrProfiles \in Nat /\ \A p \in Profiles : p + 1 \in 1 .. NrProfiles
  BY ProfilesAre
<1>2. f \in Seq(S) /\ Len(f) = NrProfiles
  BY <1>1
<1> QED
  BY <1>1, <1>2 DEF OpsOf

LEMMA EachReadsProfiles ==
  ASSUME NEW S, \A p \in Profiles : Read(Profile(p)) \in S, NEW f, f = Each(LAMBDA p : Read(Profile(p)))
  PROVE  /\ f \in Seq(S) /\ Len(f) = NrProfiles
         /\ \A k \in 1 .. NrProfiles : f[k] = Read(Profile(k - 1))
         /\ \A p \in Profiles : Read(Profile(p)) \in OpsOf(f)
<1>1. f = [k \in 1 .. NrProfiles |-> Read(Profile(k - 1))]
  BY DEF Each
<1>2. f \in [1 .. NrProfiles -> S] /\ \A k \in 1 .. NrProfiles : f[k] = Read(Profile(k - 1))
  BY <1>1, ProfilesAre
<1>3. \A p \in Profiles : f[p + 1] = Read(Profile(p))
  BY <1>2, ProfilesAre
<1> QED
  BY <1>2, <1>3, EachIs

LEMMA EachReadsNames ==
  ASSUME NEW S, \A p \in Profiles : Read(Name(p)) \in S, NEW f, f = Each(LAMBDA p : Read(Name(p)))
  PROVE  /\ f \in Seq(S) /\ Len(f) = NrProfiles
         /\ \A k \in 1 .. NrProfiles : f[k] = Read(Name(k - 1))
         /\ \A p \in Profiles : Read(Name(p)) \in OpsOf(f)
<1>1. f = [k \in 1 .. NrProfiles |-> Read(Name(k - 1))]
  BY DEF Each
<1>2. f \in [1 .. NrProfiles -> S] /\ \A k \in 1 .. NrProfiles : f[k] = Read(Name(k - 1))
  BY <1>1, ProfilesAre
<1>3. \A p \in Profiles : f[p + 1] = Read(Name(p))
  BY <1>2, ProfilesAre
<1> QED
  BY <1>2, <1>3, EachIs

LEMMA EachWritesProfiles ==
  ASSUME NEW S, \A p \in Profiles : Write(Profile(p)) \in S, NEW f, f = Each(LAMBDA p : Write(Profile(p)))
  PROVE  /\ f \in Seq(S) /\ Len(f) = NrProfiles
         /\ \A k \in 1 .. NrProfiles : f[k] = Write(Profile(k - 1))
         /\ \A p \in Profiles : Write(Profile(p)) \in OpsOf(f)
<1>1. f = [k \in 1 .. NrProfiles |-> Write(Profile(k - 1))]
  BY DEF Each
<1>2. f \in [1 .. NrProfiles -> S] /\ \A k \in 1 .. NrProfiles : f[k] = Write(Profile(k - 1))
  BY <1>1, ProfilesAre
<1>3. \A p \in Profiles : f[p + 1] = Write(Profile(p))
  BY <1>2, ProfilesAre
<1> QED
  BY <1>2, <1>3, EachIs

LEMMA EachWritesNames ==
  ASSUME NEW S, \A p \in Profiles : Write(Name(p)) \in S, NEW f, f = Each(LAMBDA p : Write(Name(p)))
  PROVE  /\ f \in Seq(S) /\ Len(f) = NrProfiles
         /\ \A k \in 1 .. NrProfiles : f[k] = Write(Name(k - 1))
         /\ \A p \in Profiles : Write(Name(p)) \in OpsOf(f)
<1>1. f = [k \in 1 .. NrProfiles |-> Write(Name(k - 1))]
  BY DEF Each
<1>2. f \in [1 .. NrProfiles -> S] /\ \A k \in 1 .. NrProfiles : f[k] = Write(Name(k - 1))
  BY <1>1, ProfilesAre
<1>3. \A p \in Profiles : f[p + 1] = Write(Name(p))
  BY <1>2, ProfilesAre
<1> QED
  BY <1>2, <1>3, EachIs

(* The last of a concatenation's operations is the last of its second part. *)
LEMMA LastOfConcat ==
  ASSUME NEW S, NEW s \in Seq(S), NEW t \in Seq(S), t # <<>>
  PROVE  /\ s \o t # <<>> /\ (s \o t)[Len(s \o t)] = t[Len(t)]
<1>1. Len(t) \in 1 .. Len(t) /\ Len(s \o t) = Len(s) + Len(t) /\ Len(t) > 0 /\ Len(s) >= 0
      /\ Len(s) \in Nat /\ Len(t) \in Nat
  OBVIOUS
<1>2. (s \o t)[Len(s) + Len(t)] = t[Len(t)]
  BY <1>1, OpsOfConcat
<1>3. Len(s \o t) > 0
  BY <1>1
<1> QED
  BY <1>1, <1>2, <1>3

LEMMA FunctionIsSeq ==
  ASSUME NEW S, NEW n \in Nat, NEW f \in [1 .. n -> S]
  PROVE  f \in Seq(S) /\ Len(f) = n /\ DOMAIN f = 1 .. n
  OBVIOUS

LEMMA EachTwoIs ==
  ASSUME NEW S, \A p \in Profiles : Turn(p) \in S /\ Read(Profile(p)) \in S,
         NEW f, f = EachTwo(LAMBDA p : Turn(p), LAMBDA p : Read(Profile(p)))
  PROVE  /\ f \in Seq(S) /\ Len(f) = 2 * NrProfiles
         /\ \A k \in 1 .. 2 * NrProfiles :
              f[k] \in {Turn(p) : p \in Profiles} \cup {Read(Profile(p)) : p \in Profiles}
         /\ \A p \in Profiles : Read(Profile(p)) \in OpsOf(f)
<1> DEFINE n == 2 * NrProfiles
<1>1. f = [k \in 1 .. n |-> IF k % 2 = 1 THEN Turn(k \div 2) ELSE Read(Profile(k \div 2 - 1))]
  BY DEF EachTwo
<1>2. NrProfiles \in Nat /\ n \in Nat
  <2>1. NrProfiles \in Nat
    BY ProfilesAre
  <2> QED
    BY <2>1
<1>3. ASSUME NEW k \in 1 .. n
      PROVE  IF k % 2 = 1 THEN k \div 2 \in Profiles ELSE k \div 2 - 1 \in Profiles
  BY <1>2 DEF Profiles
<1>4. \A k \in 1 .. n : IF k % 2 = 1 THEN f[k] = Turn(k \div 2) ELSE f[k] = Read(Profile(k \div 2 - 1))
  BY <1>1
<1> HIDE DEF n
<1>5. \A k \in 1 .. n : f[k] \in {Turn(p) : p \in Profiles} \cup {Read(Profile(p)) : p \in Profiles}
  BY <1>3, <1>4
<1>6. \A k \in 1 .. n : f[k] \in S
  BY <1>5
<1>7. f \in [1 .. n -> S]
  BY <1>1, <1>6
<1>8. f \in Seq(S) /\ Len(f) = n
  <2>1. n \in Nat
    BY <1>2
  <2>2. \A g \in [1 .. n -> S] : g \in Seq(S) /\ Len(g) = n
    BY <2>1, FunctionIsSeq
  <2> QED
    BY <1>7, <2>2, Zenon
<1>9. ASSUME NEW p \in Profiles PROVE Read(Profile(p)) \in OpsOf(f)
  <2>1. \E k \in 1 .. n : k % 2 # 1 /\ k \div 2 - 1 = p
    <3>1. 2 * p + 2 \in 1 .. n /\ (2 * p + 2) % 2 # 1 /\ (2 * p + 2) \div 2 - 1 = p
      BY <1>2 DEF n, Profiles
    <3> QED
      BY <3>1
  <2>2. PICK k \in 1 .. n : k % 2 # 1 /\ k \div 2 - 1 = p
    BY <2>1
  <2>3. f[k] = Read(Profile(k \div 2 - 1))
    BY <2>2, <1>4
  <2>4. f[k] = Read(Profile(p))
    BY <2>2, <2>3
  <2> QED
    BY <2>4, <1>7 DEF OpsOf
<1> QED
  BY <1>5, <1>8, <1>9 DEF n

LEMMA LachesisReadsFit ==
  /\ LachesisReads \in Seq(ReadOps("Lachesis")) /\ LachesisReads # <<>>
  /\ LachesisReads[Len(LachesisReads)] = Read(Mapped)
  /\ TurnsBack(LachesisReads) /\ Write(Active) \in OpsOf(LachesisReads)
  /\ \A i \in Readable("Lachesis") : Read(i) \in OpsOf(LachesisReads)
<1> DEFINE S == ReadOps("Lachesis")
           a == <<Query, Query, Read(Active)>>
           b == EachTwo(LAMBDA p : Turn(p), LAMBDA p : Read(Profile(p)))
           c == <<Write(Active), Read(Lights), Read(Mapped)>>
           n == 2 * NrProfiles
           s == LachesisReads
<1>1. Readable("Lachesis") = {Profile(p) : p \in Profiles} \cup {Active, Lights, Mapped}
  BY ItemsAre DEF Readable, DriverNames
<1>2. /\ Query \in S /\ Read(Active) \in S /\ Write(Active) \in S /\ Read(Lights) \in S /\ Read(Mapped) \in S
      /\ \A p \in Profiles : Turn(p) \in S /\ Read(Profile(p)) \in S
  BY <1>1 DEF ReadOps
<1> HIDE DEF S
<1>3. a \in Seq(S) /\ Len(a) = 3 /\ a[1] = Query /\ a[2] = Query /\ a[3] = Read(Active)
  BY <1>2
<1>4. c \in Seq(S) /\ Len(c) = 3 /\ c[1] = Write(Active) /\ c[2] = Read(Lights) /\ c[3] = Read(Mapped)
      /\ c # <<>>
  BY <1>2
<1> HIDE DEF a, c
<1>5. /\ b \in Seq(S) /\ Len(b) = n
      /\ \A k \in 1 .. n : b[k] \in {Turn(p) : p \in Profiles} \cup {Read(Profile(p)) : p \in Profiles}
      /\ \A p \in Profiles : Read(Profile(p)) \in OpsOf(b)
  BY <1>2, EachTwoIs
<1> HIDE DEF b
<1>6. s = a \o b \o c
  BY DEF LachesisReads, a, b, c
<1> DEFINE ab == a \o b
<1>7. /\ ab \in Seq(S) /\ Len(ab) = 3 + n
      /\ \A k \in 1 .. 3 : ab[k] = a[k]
      /\ \A k \in 1 .. n : ab[3 + k] = b[k]
      /\ OpsOf(a) \subseteq OpsOf(ab) /\ OpsOf(b) \subseteq OpsOf(ab)
  <2>1. /\ ab \in Seq(S) /\ Len(ab) = Len(a) + Len(b)
        /\ \A k \in 1 .. Len(a) : ab[k] = a[k]
        /\ \A k \in 1 .. Len(b) : ab[Len(a) + k] = b[k]
        /\ OpsOf(a) \subseteq OpsOf(ab) /\ OpsOf(b) \subseteq OpsOf(ab)
    BY <1>3, <1>5, OpsOfConcat
  <2> QED
    BY <2>1, <1>3, <1>5, Zenon
<1> HIDE DEF ab
<1>8. s = ab \o c
  BY <1>6 DEF ab
<1>9. NrProfiles \in Nat /\ n \in Nat
  BY ProfilesAre
<1>10. /\ s \in Seq(S) /\ Len(s) = 6 + n
       /\ \A k \in 1 .. 3 + n : s[k] = ab[k]
       /\ \A k \in 1 .. 3 : s[3 + n + k] = c[k]
       /\ OpsOf(ab) \subseteq OpsOf(s) /\ OpsOf(c) \subseteq OpsOf(s)
  <2> HIDE DEF n
  <2>1. /\ s \in Seq(S) /\ Len(s) = (3 + n) + 3
        /\ \A k \in 1 .. 3 + n : s[k] = ab[k]
        /\ \A k \in 1 .. 3 : s[(3 + n) + k] = c[k]
        /\ OpsOf(ab) \subseteq OpsOf(s) /\ OpsOf(c) \subseteq OpsOf(s)
    <3>1. /\ ab \o c \in Seq(S) /\ Len(ab \o c) = Len(ab) + Len(c)
          /\ \A k \in 1 .. Len(ab) : (ab \o c)[k] = ab[k]
          /\ \A k \in 1 .. Len(c) : (ab \o c)[Len(ab) + k] = c[k]
          /\ OpsOf(ab) \subseteq OpsOf(ab \o c) /\ OpsOf(c) \subseteq OpsOf(ab \o c)
      <4>1. ab \in Seq(S) /\ c \in Seq(S)
        BY <1>4, <1>7
      <4> QED
        BY <4>1, OpsOfConcat
    <3>2. ab \o c = s
      BY <1>8
    <3> HIDE DEF s
    <3>3. /\ s \in Seq(S) /\ Len(s) = Len(ab) + Len(c)
          /\ \A k \in 1 .. Len(ab) : s[k] = ab[k]
          /\ \A k \in 1 .. Len(c) : s[Len(ab) + k] = c[k]
          /\ OpsOf(ab) \subseteq OpsOf(s) /\ OpsOf(c) \subseteq OpsOf(s)
      BY <3>1, <3>2, Zenon
    <3> QED
      BY <3>3, <1>4, <1>7, Zenon
  <2> QED
    BY <2>1, <1>9
<1> HIDE DEF n
<1>11. s # <<>> /\ s[Len(s)] = Read(Mapped)
  <2> HIDE DEF s
  <2>1. s # <<>> /\ s[Len(s)] = c[Len(c)]
    BY <1>4, <1>7, <1>8, LastOfConcat
  <2> QED
    BY <2>1, <1>4
<1> HIDE DEF s
<1>12. s[1] = Query /\ s[2] = Query /\ s[3] = Read(Active)
  <2>1. 1 \in 1 .. 3 + n /\ 2 \in 1 .. 3 + n /\ 3 \in 1 .. 3 + n
    BY <1>9
  <2> QED
    BY <2>1, <1>3, <1>7, <1>10
<1>13. \A k \in 4 .. 3 + n : s[k] \in {Turn(p) : p \in Profiles} \cup {Read(Profile(p)) : p \in Profiles}
  <2> SUFFICES ASSUME NEW k \in 4 .. 3 + n
               PROVE s[k] \in {Turn(p) : p \in Profiles} \cup {Read(Profile(p)) : p \in Profiles}
    OBVIOUS
  <2>1. k - 3 \in 1 .. n /\ k \in 1 .. 3 + n /\ k = 3 + (k - 3)
    BY <1>9
  <2>2. s[k] = b[k - 3]
    BY <2>1, <1>7, <1>10
  <2> QED
    BY <2>1, <2>2, <1>5
<1>14. s[4 + n] = Write(Active) /\ s[5 + n] = Read(Lights) /\ s[6 + n] = Read(Mapped)
  <2>1. 3 + n + 1 = 4 + n /\ 3 + n + 2 = 5 + n /\ 3 + n + 3 = 6 + n
    BY <1>9
  <2> QED
    BY <2>1, <1>10, <1>4
<1>15. TurnsBack(s)
  <2>1. DOMAIN s = 1 .. 6 + n
    BY <1>10, <1>9
  <2> DEFINE T == {Turn(p) : p \in Profiles}
             P == {Read(Profile(p)) : p \in Profiles}
  <2>2. /\ Query \notin T \cup {Write(Active)} /\ Read(Active) \notin T \cup {Write(Active)} \cup P
        /\ Write(Active) \notin T \cup P /\ Read(Lights) # Write(Active)
        /\ Read(Lights) # Read(Active) /\ Read(Mapped) # Read(Active) /\ Read(Active) # Write(Active)
        /\ Query # Write(Active)
    BY OpsDiffer, ItemsDiffer
  <2> HIDE DEF T, P
  <2>3. ASSUME NEW j \in 1 .. 6 + n, NEW k \in 1 .. 6 + n, j < k
        PROVE  /\ s[j] \in T \cup {Write(Active)} => s[k] # Read(Active)
               /\ s[j] = Write(Active) => s[k] \in {Read(Lights), Read(Mapped)}
    <3>1. CASE j <= 3
      <4>1. j = 1 \/ j = 2 \/ j = 3
        BY <3>1
      <4> QED
        BY <4>1, <1>12, <2>2
    <3>2. CASE j > 3
      <4>1. \/ k \in 4 .. 3 + n
            \/ k = 4 + n \/ k = 5 + n \/ k = 6 + n
        BY <3>2, <2>3, <1>9
      <4>2. s[k] # Read(Active)
        BY <4>1, <1>13, <1>14, <2>2 DEF T, P
      <4>3. CASE j \in 4 .. 3 + n
        BY <4>3, <4>2, <1>13, <2>2 DEF T, P
      <4>4. CASE j \notin 4 .. 3 + n
        <5>1. k = 5 + n \/ k = 6 + n
          BY <4>4, <3>2, <2>3, <1>9
        <5> QED
          BY <5>1, <4>2, <1>14
      <4> QED
        BY <4>3, <4>4
    <3> QED
      BY <3>1, <3>2, <1>9
  <2> QED
    BY <2>1, <2>3 DEF TurnsBack, T
<1>16. ASSUME NEW i \in Readable("Lachesis") PROVE Read(i) \in OpsOf(s)
  <2>1. Read(Active) \in OpsOf(a) /\ Read(Lights) \in OpsOf(c) /\ Read(Mapped) \in OpsOf(c)
    BY <1>3, <1>4 DEF OpsOf
  <2> QED
    BY <2>1, <1>1, <1>5, <1>7, <1>10
<1>17. Write(Active) \in OpsOf(s)
  <2>1. Write(Active) \in OpsOf(c)
    BY <1>4 DEF OpsOf
  <2> QED
    BY <2>1, <1>10
<1> QED
  BY <1>10, <1>11, <1>15, <1>16, <1>17 DEF S, s

LEMMA BoomslangReadsFit ==
  ASSUME NEW d \in {"Boomslang", "Copperhead"}, NEW s, s = <<Read(Active)>> \o Each(LAMBDA p : Read(Profile(p)))
  PROVE  /\ s \in Seq(ReadOps(d)) /\ s # <<>>
         /\ s[Len(s)] = Read(Profile(NrProfiles - 1))
         /\ \A i \in Readable(d) : Read(i) \in OpsOf(s)
<1> DEFINE S == ReadOps(d)
           a == <<Read(Active)>>
           b == Each(LAMBDA p : Read(Profile(p)))
<1>1. Readable(d) = {Profile(p) : p \in Profiles} \cup {Active}
  BY ItemsAre, ItemsDiffer DEF Readable, DriverNames
<1>2. Read(Active) \in S /\ \A p \in Profiles : Read(Profile(p)) \in S
  BY <1>1 DEF ReadOps
<1> HIDE DEF S
<1>3. a \in Seq(S) /\ Read(Active) \in OpsOf(a)
  BY <1>2 DEF OpsOf
<1>4. /\ b \in Seq(S) /\ Len(b) = NrProfiles
      /\ \A k \in 1 .. NrProfiles : b[k] = Read(Profile(k - 1))
      /\ \A p \in Profiles : Read(Profile(p)) \in OpsOf(b)
  BY <1>2, EachReadsProfiles
<1>5. s = a \o b
  OBVIOUS
<1> HIDE DEF a, b
<1>6. NrProfiles \in 1 .. NrProfiles /\ NrProfiles > 0
  BY ProfilesAre
<1>7. b # <<>>
  BY <1>4, <1>6
<1>8. s # <<>> /\ s[Len(s)] = b[Len(b)]
  BY <1>3, <1>4, <1>5, <1>7, LastOfConcat
<1>9. s \in Seq(S) /\ OpsOf(a) \subseteq OpsOf(s) /\ OpsOf(b) \subseteq OpsOf(s)
  BY <1>3, <1>4, <1>5, OpsOfConcat
<1>10. \A i \in Readable(d) : Read(i) \in OpsOf(s)
  BY <1>1, <1>3, <1>4, <1>9
<1> QED
  BY <1>4, <1>6, <1>8, <1>9, <1>10 DEF S

LEMMA SynapseReadsFit ==
  ASSUME NEW d \in Synapse
  PROVE  /\ SynapseReads \in Seq(ReadOps(d)) /\ SynapseReads # <<>>
         /\ SynapseReads[Len(SynapseReads)] = Read(Profile(NrProfiles - 1))
         /\ \A i \in Readable(d) : Read(i) \in OpsOf(SynapseReads)
<1> DEFINE S == ReadOps(d)
           a == <<Query, Read(Global)>>
           b == Each(LAMBDA p : Read(Name(p)))
           c == Each(LAMBDA p : Read(Profile(p)))
           s == SynapseReads
<1>1. Readable(d) = {Profile(p) : p \in Profiles} \cup {Name(p) : p \in Profiles} \cup {Global}
  BY ItemsAre DEF Readable, DriverNames, Synapse
<1>2. /\ Query \in S /\ Read(Global) \in S
      /\ \A p \in Profiles : Read(Name(p)) \in S /\ Read(Profile(p)) \in S
  BY <1>1 DEF ReadOps, Synapse
<1> HIDE DEF S
<1>3. a \in Seq(S) /\ Read(Global) \in OpsOf(a)
  <2>1. a \in Seq(S) /\ Len(a) = 2 /\ a[2] = Read(Global)
    BY <1>2
  <2> QED
    BY <2>1 DEF OpsOf
<1>4. b \in Seq(S) /\ \A p \in Profiles : Read(Name(p)) \in OpsOf(b)
  BY <1>2, EachReadsNames
<1>5. /\ c \in Seq(S) /\ Len(c) = NrProfiles
      /\ \A k \in 1 .. NrProfiles : c[k] = Read(Profile(k - 1))
      /\ \A p \in Profiles : Read(Profile(p)) \in OpsOf(c)
  BY <1>2, EachReadsProfiles
<1>6. s = a \o b \o c
  BY DEF SynapseReads
<1> HIDE DEF a, b, c, s
<1> DEFINE ab == a \o b
<1>7. ab \in Seq(S) /\ OpsOf(a) \subseteq OpsOf(ab) /\ OpsOf(b) \subseteq OpsOf(ab)
  BY <1>3, <1>4, OpsOfConcat
<1>8. s = ab \o c
  BY <1>6
<1> HIDE DEF ab
<1>9. NrProfiles \in 1 .. NrProfiles /\ NrProfiles > 0
  BY ProfilesAre
<1>10. c # <<>>
  BY <1>5, <1>9
<1>11. s # <<>> /\ s[Len(s)] = c[Len(c)]
  BY <1>5, <1>7, <1>8, <1>10, LastOfConcat
<1>12. s \in Seq(S) /\ OpsOf(ab) \subseteq OpsOf(s) /\ OpsOf(c) \subseteq OpsOf(s)
  BY <1>5, <1>7, <1>8, OpsOfConcat
<1>13. \A i \in Readable(d) : Read(i) \in OpsOf(s)
  BY <1>1, <1>3, <1>4, <1>5, <1>7, <1>12
<1> QED
  BY <1>5, <1>9, <1>11, <1>12, <1>13 DEF S, s

LEMMA ReadsFit ==
  ASSUME NEW d \in DriverNames
  PROVE  IsReads(d, Reads(d)) /\ \A i \in Readable(d) : Read(i) \in OpsOf(Reads(d))
<1>1. NrProfiles - 1 \in Profiles
  BY ProfilesAre
<1>2. CASE d \in {"Boomslang", "Copperhead"}
  <2>1. Reads(d) = <<Read(Active)>> \o Each(LAMBDA p : Read(Profile(p)))
    BY <1>2 DEF Reads, BoomslangReads, CopperheadReads
  <2>2. /\ Reads(d) \in Seq(ReadOps(d)) /\ Reads(d) # <<>>
        /\ Reads(d)[Len(Reads(d))] = Read(Profile(NrProfiles - 1))
        /\ \A i \in Readable(d) : Read(i) \in OpsOf(Reads(d))
    BY <1>2, <2>1, BoomslangReadsFit
  <2>3. Profile(NrProfiles - 1) \in Readable(d)
    BY <1>1, <1>2, ItemsAre, ItemsDiffer DEF Readable
  <2> QED
    BY <1>2, <2>2, <2>3 DEF IsReads
<1>3. CASE d = "Lachesis"
  <2>1. Reads(d) = LachesisReads
    BY <1>3 DEF Reads
  <2>2. Mapped \in Readable(d)
    BY <1>3, ItemsAre, ItemsDiffer DEF Readable
  <2> QED
    BY <1>3, <2>1, <2>2, LachesisReadsFit DEF IsReads, Returns
<1>4. CASE d \in Synapse
  <2>1. Reads(d) = SynapseReads
    BY <1>4 DEF Reads, Synapse
  <2>2. Profile(NrProfiles - 1) \in Readable(d)
    BY <1>1, <1>4, ItemsAre, ItemsDiffer DEF Readable, Synapse
  <2> QED
    BY <1>4, <2>1, <2>2, SynapseReadsFit DEF IsReads, Synapse
<1> QED
  BY <1>2, <1>3, <1>4 DEF DriverNames, Synapse

LEMMA CommitFits ==
  ASSUME NEW d \in DriverNames
  PROVE  IsWrites(d, CommitOf(d)) /\ \A i \in Items(d) : Write(i) \in OpsOf(CommitOf(d))
<1> DEFINE S == WriteOps(d)
           a == Each(LAMBDA p : Write(Profile(p)))
<1>1. \A i \in Items(d) : Write(i) \in S
  BY DEF WriteOps
<1>2. \A p \in Profiles : Profile(p) \in Items(d)
  BY ItemsAre DEF DriverNames, Synapse
<1> HIDE DEF S
<1>3. a \in Seq(S) /\ \A p \in Profiles : Write(Profile(p)) \in OpsOf(a)
  BY <1>1, <1>2, EachWritesProfiles
<1> SUFFICES CommitOf(d) \in Seq(S) /\ \A i \in Items(d) : Write(i) \in OpsOf(CommitOf(d))
  BY DEF IsWrites, S
<1>4. CASE d = "Boomslang"
  <2> DEFINE b == <<Write(Active), Write(Lights)>>
  <2>1. Items(d) = {Profile(p) : p \in Profiles} \cup {Active, Lights}
    BY <1>4, ItemsAre
  <2>2. b \in Seq(S) /\ Len(b) = 2 /\ b[1] = Write(Active) /\ b[2] = Write(Lights)
    BY <1>1, <2>1
  <2>3. CommitOf(d) = a \o b
    BY <1>4 DEF CommitOf, BoomslangCommit
  <2> HIDE DEF a, b
  <2>4. Write(Active) \in OpsOf(b) /\ Write(Lights) \in OpsOf(b)
    BY <2>2 DEF OpsOf
  <2> QED
    BY <1>3, <2>1, <2>2, <2>3, <2>4, OpsOfConcat
<1>5. CASE d = "Copperhead"
  <2> DEFINE b == <<Write(Active)>>
  <2>1. Items(d) = {Profile(p) : p \in Profiles} \cup {Active}
    BY <1>5, ItemsAre
  <2>2. b \in Seq(S) /\ Len(b) = 1 /\ b[1] = Write(Active)
    BY <1>1, <2>1
  <2>3. CommitOf(d) = a \o b
    BY <1>5 DEF CommitOf, CopperheadCommit
  <2> HIDE DEF a, b
  <2>4. Write(Active) \in OpsOf(b)
    BY <2>2 DEF OpsOf
  <2> QED
    BY <1>3, <2>1, <2>2, <2>3, <2>4, OpsOfConcat
<1>6. CASE d = "Lachesis"
  <2> DEFINE b == <<Write(Lights), Write(Active), Write(Mapped)>>
  <2>1. Items(d) = {Profile(p) : p \in Profiles} \cup {Active, Lights, Mapped}
    BY <1>6, ItemsAre
  <2>2. b \in Seq(S) /\ Len(b) = 3 /\ b[1] = Write(Lights) /\ b[2] = Write(Active) /\ b[3] = Write(Mapped)
    BY <1>1, <2>1
  <2>3. CommitOf(d) = a \o b
    BY <1>6 DEF CommitOf, LachesisCommit
  <2> HIDE DEF a, b
  <2>4. Write(Active) \in OpsOf(b) /\ Write(Lights) \in OpsOf(b) /\ Write(Mapped) \in OpsOf(b)
    BY <2>2 DEF OpsOf
  <2> QED
    BY <1>3, <2>1, <2>2, <2>3, <2>4, OpsOfConcat
<1>7. CASE d \in Synapse
  <2> DEFINE b == Each(LAMBDA p : Write(Name(p)))
             c == <<Write(Global)>>
  <2>1. Items(d) = {Profile(p) : p \in Profiles} \cup {Name(p) : p \in Profiles} \cup {Global}
    BY <1>7, ItemsAre
  <2>2. \A p \in Profiles : Write(Name(p)) \in S
    BY <1>1, <2>1
  <2>3. b \in Seq(S) /\ \A p \in Profiles : Write(Name(p)) \in OpsOf(b)
    BY <2>2, EachWritesNames
  <2>4. c \in Seq(S) /\ Len(c) = 1 /\ c[1] = Write(Global)
    BY <1>1, <2>1
  <2>5. CommitOf(d) = a \o b \o c
    BY <1>7 DEF CommitOf, SynapseCommit, Synapse
  <2> HIDE DEF a, b, c
  <2> DEFINE ab == a \o b
  <2>6. ab \in Seq(S) /\ OpsOf(a) \subseteq OpsOf(ab) /\ OpsOf(b) \subseteq OpsOf(ab)
    BY <1>3, <2>3, OpsOfConcat
  <2>7. CommitOf(d) = ab \o c
    BY <2>5
  <2> HIDE DEF ab
  <2>8. Write(Global) \in OpsOf(c)
    BY <2>4 DEF OpsOf
  <2>9. CommitOf(d) \in Seq(S) /\ OpsOf(ab) \subseteq OpsOf(CommitOf(d)) /\ OpsOf(c) \subseteq OpsOf(CommitOf(d))
    BY <2>4, <2>6, <2>7, OpsOfConcat
  <2> QED
    BY <1>3, <2>1, <2>3, <2>6, <2>8, <2>9
<1> QED
  BY <1>4, <1>5, <1>6, <1>7 DEF DriverNames, Synapse

(* What is left of a plan after an exchange is still one. *)
LEMMA ReadsGoOn ==
  ASSUME NEW d, NEW s, IsReads(d, s)
  PROVE  /\ Head(s) \in ReadOps(d) /\ OpsOf(s) = {Head(s)} \cup OpsOf(Tail(s)) /\ OpsOf(s) \subseteq ReadOps(d)
         /\ Len(s) # 1 => IsReads(d, Tail(s))
         /\ Len(s) = 1 => OpsOf(s) = {Head(s)} /\ Head(s) \in {Read(i) : i \in Readable(d)}
<1> DEFINE S == ReadOps(d)
           n == Len(s)
           t == Tail(s)
<1>1. s \in Seq(S) /\ s # <<>> /\ s[n] \in {Read(i) : i \in Readable(d)}
  BY DEF IsReads
<1> HIDE DEF S
<1>2. /\ Head(s) \in S /\ Head(s) = s[1] /\ n \in Nat \ {0}
      /\ t \in Seq(S) /\ Len(t) = n - 1
      /\ \A k \in 1 .. n - 1 : t[k] = s[k + 1]
  BY <1>1, TailIs
<1>3. OpsOf(s) = {Head(s)} \cup OpsOf(t) /\ OpsOf(s) \subseteq S
  BY <1>1, OpsOfTail
<1>4. DOMAIN s = 1 .. n /\ DOMAIN t = 1 .. n - 1
  BY <1>1, <1>2
<1> HIDE DEF n, t
<1>5. ASSUME n # 1 PROVE IsReads(d, t)
  <2>1. n - 1 \in 1 .. n - 1 /\ (n - 1) + 1 = n /\ n - 1 > 0
    BY <1>2, <1>5
  <2>2. t[n - 1] = s[n]
    BY <2>1, <1>2
  <2>3. t # <<>>
    BY <2>1, <1>2
  <2>4. ASSUME d = "Lachesis" PROVE TurnsBack(t)
    <3>1. TurnsBack(s)
      BY <2>4 DEF IsReads
    <3>2. ASSUME NEW j \in 1 .. n - 1, NEW k \in 1 .. n - 1, j < k
          PROVE  /\ t[j] \in {Turn(p) : p \in Profiles} \cup {Write(Active)} => t[k] # Read(Active)
                 /\ t[j] = Write(Active) => t[k] \in {Read(Lights), Read(Mapped)}
      <4>1. j + 1 \in 1 .. n /\ k + 1 \in 1 .. n /\ j + 1 < k + 1
        BY <1>2, <3>2
      <4>2. t[j] = s[j + 1] /\ t[k] = s[k + 1]
        BY <1>2
      <4>3. /\ s[j + 1] \in {Turn(p) : p \in Profiles} \cup {Write(Active)} => s[k + 1] # Read(Active)
            /\ s[j + 1] = Write(Active) => s[k + 1] \in {Read(Lights), Read(Mapped)}
        BY <3>1, <4>1, <1>4 DEF TurnsBack
      <4> QED
        BY <4>2, <4>3
    <3> QED
      BY <3>2, <1>4 DEF TurnsBack
  <2>5. ASSUME d = "Lachesis" PROVE Returns(t)
    <3>1. ASSUME NEW p \in Profiles, Turn(p) \in OpsOf(t) PROVE Write(Active) \in OpsOf(t)
      <4>1. TurnsBack(s) /\ Write(Active) \in OpsOf(s)
        BY <2>5, <3>1, <1>3 DEF IsReads, Returns
      <4>2. PICK k \in 1 .. n - 1 : t[k] = Turn(p)
        BY <3>1, <1>4 DEF OpsOf
      <4>3. 1 \in 1 .. n /\ k + 1 \in 1 .. n /\ 1 < k + 1
        BY <1>2
      <4>4. s[k + 1] = Turn(p)
        BY <1>2, <4>2
      <4>5. s[1] = Write(Active) => s[k + 1] \in {Read(Lights), Read(Mapped)}
        BY <4>1, <4>3, <1>4 DEF TurnsBack
      <4>6. Head(s) # Write(Active)
        BY <4>4, <4>5, <1>2, OpsDiffer
      <4> QED
        BY <4>1, <4>6, <1>3
    <3> QED
      BY <3>1 DEF Returns
  <2> QED
    BY <1>1, <1>2, <2>2, <2>3, <2>4, <2>5 DEF IsReads, S, n
<1>6. ASSUME n = 1 PROVE OpsOf(s) = {Head(s)} /\ Head(s) \in {Read(i) : i \in Readable(d)}
  BY <1>1, <1>2, <1>4, <1>6 DEF OpsOf
<1> QED
  BY <1>2, <1>3, <1>5, <1>6 DEF S, n, t

LEMMA WritesGoOn ==
  ASSUME NEW d, NEW s, IsWrites(d, s), s # <<>>
  PROVE  /\ Head(s) \in WriteOps(d) /\ OpsOf(s) = {Head(s)} \cup OpsOf(Tail(s))
         /\ IsWrites(d, Tail(s))
<1> DEFINE S == WriteOps(d)
<1>1. s \in Seq(S)
  BY DEF IsWrites
<1> HIDE DEF S
<1>2. Head(s) \in S /\ Tail(s) \in Seq(S) /\ OpsOf(s) = {Head(s)} \cup OpsOf(Tail(s))
  BY <1>1, TailIs, OpsOfTail
<1> QED
  BY <1>2 DEF S, IsWrites

(* What comes after the head of the Lachesis's plan. *)
LEMMA AfterHead ==
  ASSUME NEW s, IsReads("Lachesis", s)
  PROVE  /\ Head(s) \in {Turn(p) : p \in Profiles} \cup {Write(Active)} => Read(Active) \notin OpsOf(Tail(s))
         /\ Head(s) = Write(Active) => OpsOf(Tail(s)) \subseteq {Read(Lights), Read(Mapped)}
<1> DEFINE S == ReadOps("Lachesis")
           n == Len(s)
           t == Tail(s)
<1>1. s \in Seq(S) /\ s # <<>> /\ TurnsBack(s)
  BY DEF IsReads
<1> HIDE DEF S
<1>2. /\ Head(s) = s[1] /\ n \in Nat \ {0}
      /\ t \in Seq(S) /\ Len(t) = n - 1
      /\ \A k \in 1 .. n - 1 : t[k] = s[k + 1]
  BY <1>1, TailIs
<1>3. DOMAIN s = 1 .. n /\ DOMAIN t = 1 .. n - 1
  BY <1>1, <1>2
<1> HIDE DEF n, t
<1>4. ASSUME NEW k \in 1 .. n - 1
      PROVE  /\ s[1] \in {Turn(p) : p \in Profiles} \cup {Write(Active)} => t[k] # Read(Active)
             /\ s[1] = Write(Active) => t[k] \in {Read(Lights), Read(Mapped)}
  <2>1. 1 \in 1 .. n /\ k + 1 \in 1 .. n /\ 1 < k + 1
    BY <1>2
  <2>2. t[k] = s[k + 1]
    BY <1>2
  <2>3. /\ s[1] \in {Turn(p) : p \in Profiles} \cup {Write(Active)} => s[k + 1] # Read(Active)
        /\ s[1] = Write(Active) => s[k + 1] \in {Read(Lights), Read(Mapped)}
    BY <2>1, <1>1, <1>3 DEF TurnsBack
  <2> QED
    BY <2>2, <2>3
<1> QED
  BY <1>2, <1>3, <1>4 DEF OpsOf, t

-----------------------------------------------------------------------------
(* A driver's copy and the words of the mouse's memory.                    *)

IsRecord(c) ==
  c = [active |-> c.active, freq |-> c.freq, sel |-> c.sel, res |-> c.res, led |-> c.led,
       colour |-> c.colour, buttons |-> c.buttons, name |-> c.name]

Presets == {"zeroed", "default", "swapped"}
Names   == {"none", "short", "cut"}

(* Function g is f with x at p, and has its values in T. *)
IsPut(f, p, x, g, T) ==
  /\ g \in [Profiles -> T]
  /\ \A q \in Profiles : g[q] = IF q = p THEN x ELSE f[q]

LEMMA CopyIs ==
  ASSUME NEW d, NEW c
  PROVE  IsCopy(d, c) <=>
           /\ IsRecord(c)
           /\ c.active \in Profiles /\ c.freq \in [Profiles -> Nat] /\ c.sel \in [Profiles -> Nat]
           /\ c.res \in [Profiles -> [Stages -> Nat]] /\ c.led \in [Profiles -> BOOLEAN]
           /\ c.colour \in [Profiles -> Colours] /\ c.buttons \in [Profiles -> Presets]
           /\ c.name \in [Profiles -> Names]
           /\ \A p \in Profiles : c.sel[p] \in Own(d, p)
<1>1. ASSUME IsCopy(d, c)
      PROVE  /\ IsRecord(c)
             /\ c.active \in Profiles /\ c.freq \in [Profiles -> Nat] /\ c.sel \in [Profiles -> Nat]
             /\ c.res \in [Profiles -> [Stages -> Nat]] /\ c.led \in [Profiles -> BOOLEAN]
             /\ c.colour \in [Profiles -> Colours] /\ c.buttons \in [Profiles -> Presets]
             /\ c.name \in [Profiles -> Names]
             /\ \A p \in Profiles : c.sel[p] \in Own(d, p)
  BY <1>1 DEF IsCopy, IsRecord, Presets, Names
<1>2. ASSUME /\ IsRecord(c)
             /\ c.active \in Profiles /\ c.freq \in [Profiles -> Nat] /\ c.sel \in [Profiles -> Nat]
             /\ c.res \in [Profiles -> [Stages -> Nat]] /\ c.led \in [Profiles -> BOOLEAN]
             /\ c.colour \in [Profiles -> Colours] /\ c.buttons \in [Profiles -> Presets]
             /\ c.name \in [Profiles -> Names]
             /\ \A p \in Profiles : c.sel[p] \in Own(d, p)
      PROVE  IsCopy(d, c)
  BY <1>2 DEF IsCopy, IsRecord, Presets, Names
<1> QED
  BY <1>1, <1>2

LEMMA StagesAre == Stages = {0, 1}
  BY DEF Stages

LEMMA OwnIs ==
  /\ \A d : d \in Synapse => \A p \in Profiles : Own(d, p) = {10 * p, 10 * p + 1}
  /\ \A d : d \notin Synapse => \A p : Own(d, p) = {0, 1}
<1>1. ASSUME NEW p \in Profiles PROVE {10 * p + m : m \in Stages} = {10 * p, 10 * p + 1}
  <2>1. p \in Nat
    BY ProfilesAre
  <2>2. {10 * p + m : m \in Stages} = {10 * p + 0, 10 * p + 1}
    BY StagesAre
  <2> QED
    BY <2>1, <2>2
<1> QED
  BY <1>1, StagesAre DEF Own

LEMMA SlowFreqs ==
  /\ \A f \in Nat : SlowFreqCode(f) \in 1 .. 3
  /\ \A code \in 1 .. 3 : SlowFreqOf(code) \in {125, 500, 1000} /\ SlowFreqCode(SlowFreqOf(code)) = code
  /\ \A f \in {125, 500, 1000} : SlowFreqOf(SlowFreqCode(f)) = f
  BY DEF SlowFreqCode, SlowFreqOf

LEMMA LachesisCodes ==
  /\ \A f \in Nat : LachesisFreqCode(f) \in 1 .. 3
  /\ \A code \in 1 .. 3 : LachesisFreqCode(SlowFreqOf(code)) = code
  /\ \A f \in {125, 500, 1000} : SlowFreqOf(LachesisFreqCode(f)) = f
  /\ \A r \in Nat : LachesisDpi(r) \in 0 .. 255
  /\ \A code \in 0 .. 255 : LachesisRes(code) \in Nat /\ LachesisDpi(LachesisRes(code)) = code
  /\ \A k \in 1 .. 256 : LachesisRes(LachesisDpi(125 * k)) = 125 * k
<1>1. /\ \A f \in Nat : LachesisFreqCode(f) \in 1 .. 3
      /\ \A code \in 1 .. 3 : LachesisFreqCode(SlowFreqOf(code)) = code
      /\ \A f \in {125, 500, 1000} : SlowFreqOf(LachesisFreqCode(f)) = f
  BY DEF LachesisFreqCode, SlowFreqOf
<1>2. \A r \in Nat : LachesisDpi(r) \in 0 .. 255
  BY DEF LachesisDpi
<1>3. \A code \in 0 .. 255 : LachesisRes(code) \in Nat /\ LachesisDpi(LachesisRes(code)) = code
  BY DEF LachesisDpi, LachesisRes
<1>4. \A k \in 1 .. 256 : LachesisRes(LachesisDpi(125 * k)) = 125 * k
  BY DEF LachesisDpi, LachesisRes
<1> QED
  BY <1>1, <1>2, <1>3, <1>4

LEMMA SynapseCodes ==
  /\ \A f \in Nat : SynapseFreqCode(f) \in {1, 2, 8}
  /\ \A code : SynapseFreqOf(code) \in {125, 500, 1000}
  /\ \A code \in {1, 2, 8} : SynapseFreqCode(SynapseFreqOf(code)) = code
  /\ \A f \in {125, 500, 1000} : SynapseFreqOf(SynapseFreqCode(f)) = f
  /\ \A r \in Nat : SynapseDpi(r) \in SynapseDpiCodes
  /\ \A code \in SynapseDpiCodes : SynapseRes(code) \in Nat /\ SynapseDpi(SynapseRes(code)) = code
  /\ \A k \in 1 .. 64 : SynapseRes(SynapseDpi(100 * k)) = 100 * k
<1>1. /\ \A f \in Nat : SynapseFreqCode(f) \in {1, 2, 8}
      /\ \A code : SynapseFreqOf(code) \in {125, 500, 1000}
      /\ \A code \in {1, 2, 8} : SynapseFreqCode(SynapseFreqOf(code)) = code
      /\ \A f \in {125, 500, 1000} : SynapseFreqOf(SynapseFreqCode(f)) = f
  BY DEF SynapseFreqCode, SynapseFreqOf
<1>2. \A r \in Nat : SynapseDpi(r) \in SynapseDpiCodes
  <2> SUFFICES ASSUME NEW r \in Nat PROVE \E k \in 0 .. 63 : SynapseDpi(r) = 4 * k
    BY DEF SynapseDpiCodes
  <2>1. (((r \div 100) - 1) % 64) \in 0 .. 63 /\ SynapseDpi(r) = 4 * (((r \div 100) - 1) % 64)
    BY DEF SynapseDpi
  <2> QED
    BY <2>1
<1>3. \A code \in SynapseDpiCodes : SynapseRes(code) \in Nat /\ SynapseDpi(SynapseRes(code)) = code
  BY DEF SynapseDpi, SynapseRes, SynapseDpiCodes
<1>4. \A k \in 1 .. 64 : SynapseRes(SynapseDpi(100 * k)) = 100 * k
  BY DEF SynapseDpi, SynapseRes
<1> QED
  BY <1>1, <1>2, <1>3, <1>4

(* The older drivers' words. *)
Older == {"Boomslang", "Copperhead", "Lachesis"}
SelCode(d, sel)  == IF d = "Lachesis" THEN sel + 1 ELSE 4 - sel
SelOf(d, code)   == IF d = "Lachesis" THEN code - 1 ELSE 4 - code
FreqCode(d, f)   == IF d = "Lachesis" THEN LachesisFreqCode(f) ELSE SlowFreqCode(f)

LEMMA OlderCodes ==
  ASSUME NEW d \in Older
  PROVE  /\ \A sel \in {0, 1} : SelOf(d, SelCode(d, sel)) = sel
         /\ \A f \in Nat : FreqCode(d, f) \in 1 .. 3
         /\ \A code \in 1 .. 3 : SlowFreqOf(code) \in {125, 500, 1000} /\ FreqCode(d, SlowFreqOf(code)) = code
         /\ \A f \in {125, 500, 1000} : SlowFreqOf(FreqCode(d, f)) = f
<1>1. \A sel \in {0, 1} : SelOf(d, SelCode(d, sel)) = sel
  BY DEF SelOf, SelCode
<1> QED
  BY <1>1, SlowFreqs, LachesisCodes DEF FreqCode

LEMMA ActiveWire ==
  ASSUME NEW d \in Older, NEW c
  PROVE  Wire(d, c, Active) = c.active + 1
  BY DEF Wire, BoomslangWire, CopperheadWire, LachesisWire, Active, Older

LEMMA LightsWire ==
  ASSUME NEW d \in Older, NEW c
  PROVE  Wire(d, c, Lights) = c.led[0]
  BY DEF Wire, BoomslangWire, CopperheadWire, LachesisWire, Lights, Older

LEMMA OlderWire ==
  ASSUME NEW d \in Older, NEW c, NEW p
  PROVE  Wire(d, c, Profile(p)) =
           [sel |-> SelCode(d, c.sel[p]), freq |-> FreqCode(d, c.freq[p]), buttons |-> c.buttons[p]]
  BY DEF Wire, BoomslangWire, CopperheadWire, LachesisWire, Profile, Older, SelCode, FreqCode

LEMMA OlderWireKept ==
  ASSUME NEW d \in Older, NEW r, NEW c, NEW p,
         r.sel[p] = c.sel[p], r.freq[p] = c.freq[p], r.buttons[p] = c.buttons[p]
  PROVE  Wire(d, r, Profile(p)) = Wire(d, c, Profile(p))
<1> DEFINE w == [sel |-> SelCode(d, c.sel[p]), freq |-> FreqCode(d, c.freq[p]), buttons |-> c.buttons[p]]
<1>1. Wire(d, c, Profile(p)) = w
  BY OlderWire
<1>2. Wire(d, r, Profile(p)) =
        [sel |-> SelCode(d, r.sel[p]), freq |-> FreqCode(d, r.freq[p]), buttons |-> r.buttons[p]]
  BY OlderWire
<1> QED
  BY <1>1, <1>2

LEMMA MappedWire ==
  ASSUME NEW c
  PROVE  Wire("Lachesis", c, Mapped) = [m \in Stages |-> LachesisDpi(c.res[0][m])]
  BY DEF Wire, LachesisWire, Mapped

LEMMA ProfileWire ==
  ASSUME NEW d \in Synapse, NEW c, NEW p
  PROVE  Wire(d, c, Profile(p)) =
           [sel |-> (c.sel[p] % 10) + 1, dpis |-> SynapseDpis(c, p), led |-> c.led[p],
            colour |-> IF d = "Imperator" THEN "black" ELSE c.colour[p], buttons |-> c.buttons[p]]
  BY DEF Wire, ImperatorWire, SynapseWire, Synapse, Profile

LEMMA NameWire ==
  ASSUME NEW d \in Synapse, NEW c, NEW p
  PROVE  Wire(d, c, Name(p)) = c.name[p]
  BY DEF Wire, ImperatorWire, SynapseWire, Synapse, Name

LEMMA GlobalWire ==
  ASSUME NEW d \in Synapse, NEW c
  PROVE  Wire(d, c, Global) =
           [active |-> c.active + 1, freq |-> SynapseFreqCode(c.freq[0]),
            sel |-> (c.sel[c.active] % 10) + 1,
            dpi |-> SynapseDpis(c, c.active)[(c.sel[c.active] % 10) + 1]]
  BY DEF Wire, ImperatorWire, SynapseWire, Synapse, Global

LEMMA ProfileWireKept ==
  ASSUME NEW d \in Synapse, NEW r, NEW c, NEW p,
         r.sel[p] = c.sel[p], r.res[p] = c.res[p], r.led[p] = c.led[p], r.colour[p] = c.colour[p],
         r.buttons[p] = c.buttons[p]
  PROVE  Wire(d, r, Profile(p)) = Wire(d, c, Profile(p))
<1> DEFINE w == [sel |-> (c.sel[p] % 10) + 1, dpis |-> SynapseDpis(c, p), led |-> c.led[p],
                 colour |-> IF d = "Imperator" THEN "black" ELSE c.colour[p], buttons |-> c.buttons[p]]
<1>1. Wire(d, c, Profile(p)) = w
  BY ProfileWire
<1>2. Wire(d, r, Profile(p)) =
        [sel |-> (r.sel[p] % 10) + 1, dpis |-> SynapseDpis(r, p), led |-> r.led[p],
         colour |-> IF d = "Imperator" THEN "black" ELSE r.colour[p], buttons |-> r.buttons[p]]
  BY ProfileWire
<1>3. SynapseDpis(r, p) = SynapseDpis(c, p)
  BY DEF SynapseDpis
<1> QED
  BY <1>1, <1>2, <1>3

(* What a reading changes. *)
LEMMA PlainTookActive ==
  ASSUME NEW d \in Older, NEW c, IsRecord(c), NEW v,
         NEW r, r = Took(d, c, Active, v)
  PROVE  /\ IsRecord(r) /\ r.active = v - 1 /\ r.freq = c.freq /\ r.sel = c.sel /\ r.res = c.res
         /\ r.led = c.led /\ r.colour = c.colour /\ r.buttons = c.buttons /\ r.name = c.name
<1>1. r = [c EXCEPT !.active = v - 1]
  BY DEF Took, BoomslangTook, CopperheadTook, LachesisTook, Active, Older
<1> QED
  BY <1>1 DEF IsRecord

LEMMA PlainTookProfile ==
  ASSUME NEW d \in Older, NEW c, IsRecord(c), NEW v, NEW p \in Profiles,
         NEW r, r = Took(d, c, Profile(p), v), NEW sel, sel = IF d = "Lachesis" THEN v.sel - 1 ELSE 4 - v.sel,
         c.freq \in [Profiles -> Nat], c.sel \in [Profiles -> Nat], c.buttons \in [Profiles -> Presets],
         SlowFreqOf(v.freq) \in Nat, sel \in Nat, v.buttons \in Presets
  PROVE  /\ IsRecord(r) /\ r.active = c.active /\ r.res = c.res
         /\ r.led = c.led /\ r.colour = c.colour /\ r.name = c.name
         /\ IsPut(c.freq, p, SlowFreqOf(v.freq), r.freq, Nat)
         /\ IsPut(c.sel, p, sel, r.sel, Nat)
         /\ IsPut(c.buttons, p, v.buttons, r.buttons, Presets)
<1>1. r = [c EXCEPT !.sel[p] = sel, !.freq[p] = SlowFreqOf(v.freq), !.buttons[p] = v.buttons]
  BY DEF Took, BoomslangTook, CopperheadTook, LachesisTook, Profile, Older
<1>2. /\ r.active = c.active /\ r.res = c.res /\ r.led = c.led /\ r.colour = c.colour /\ r.name = c.name
      /\ r.freq = [c.freq EXCEPT ![p] = SlowFreqOf(v.freq)] /\ r.sel = [c.sel EXCEPT ![p] = sel]
      /\ r.buttons = [c.buttons EXCEPT ![p] = v.buttons]
  BY <1>1 DEF IsRecord
<1>3. IsRecord(r)
  BY <1>1 DEF IsRecord
<1>4. IsPut(c.freq, p, SlowFreqOf(v.freq), r.freq, Nat)
  BY <1>2 DEF IsPut
<1>5. IsPut(c.sel, p, sel, r.sel, Nat)
  BY <1>2 DEF IsPut
<1>6. IsPut(c.buttons, p, v.buttons, r.buttons, Presets)
  BY <1>2 DEF IsPut
<1> QED
  BY <1>2, <1>3, <1>4, <1>5, <1>6

LEMMA LachesisTookLights ==
  ASSUME NEW c, IsRecord(c), NEW v \in BOOLEAN, NEW r, r = Took("Lachesis", c, Lights, v)
  PROVE  /\ IsRecord(r) /\ r.active = c.active /\ r.freq = c.freq /\ r.sel = c.sel /\ r.res = c.res
         /\ r.colour = c.colour /\ r.buttons = c.buttons /\ r.name = c.name
         /\ r.led \in [Profiles -> BOOLEAN] /\ \A p \in Profiles : r.led[p] = v
<1>1. r = [c EXCEPT !.led = Everywhere(v)]
  BY DEF Took, LachesisTook, Lights
<1>2. /\ IsRecord(r) /\ r.active = c.active /\ r.freq = c.freq /\ r.sel = c.sel /\ r.res = c.res
      /\ r.colour = c.colour /\ r.buttons = c.buttons /\ r.name = c.name /\ r.led = Everywhere(v)
  BY <1>1 DEF IsRecord
<1> QED
  BY <1>2 DEF Everywhere

LEMMA LachesisTookMapped ==
  ASSUME NEW c, IsRecord(c), NEW v, NEW r, r = Took("Lachesis", c, Mapped, v),
         \A m \in Stages : LachesisRes(v[m]) \in Nat
  PROVE  /\ IsRecord(r) /\ r.active = c.active /\ r.freq = c.freq /\ r.sel = c.sel /\ r.led = c.led
         /\ r.colour = c.colour /\ r.buttons = c.buttons /\ r.name = c.name
         /\ r.res \in [Profiles -> [Stages -> Nat]]
         /\ \A p \in Profiles : r.res[p] = r.res[0] /\ \A m \in Stages : r.res[p][m] = LachesisRes(v[m])
<1> DEFINE x == [m \in Stages |-> LachesisRes(v[m])]
<1>1. r = [c EXCEPT !.res = Everywhere(x)]
  BY DEF Took, LachesisTook, Mapped
<1>2. x \in [Stages -> Nat] /\ \A m \in Stages : x[m] = LachesisRes(v[m])
  OBVIOUS
<1> HIDE DEF x
<1>3. /\ IsRecord(r) /\ r.active = c.active /\ r.freq = c.freq /\ r.sel = c.sel /\ r.led = c.led
      /\ r.colour = c.colour /\ r.buttons = c.buttons /\ r.name = c.name /\ r.res = Everywhere(x)
  BY <1>1 DEF IsRecord
<1>4. r.res \in [Profiles -> [Stages -> Nat]] /\ \A p \in Profiles : r.res[p] = x
  BY <1>2, <1>3 DEF Everywhere
<1> QED
  BY <1>2, <1>3, <1>4, ProfilesAre

(* The resolutions that a profile's word gives. *)
ResFrom(v) == [m \in Stages |-> IF m + 1 > Len(v.dpis) THEN 5600 ELSE SynapseRes(v.dpis[m + 1])]

LEMMA SynapseTookGlobal ==
  ASSUME NEW d \in Synapse, NEW c, IsRecord(c), NEW v, NEW r, r = Took(d, c, Global, v),
         SynapseFreqOf(v.freq) \in Nat
  PROVE  /\ IsRecord(r) /\ r.active = v.active - 1 /\ r.sel = c.sel /\ r.res = c.res /\ r.led = c.led
         /\ r.colour = c.colour /\ r.buttons = c.buttons /\ r.name = c.name
         /\ r.freq \in [Profiles -> Nat] /\ \A p \in Profiles : r.freq[p] = SynapseFreqOf(v.freq)
<1>1. r = [c EXCEPT !.active = v.active - 1, !.freq = Everywhere(SynapseFreqOf(v.freq))]
  BY DEF Took, Synapse, SynapseTook, Global
<1>2. /\ IsRecord(r) /\ r.active = v.active - 1 /\ r.sel = c.sel /\ r.res = c.res /\ r.led = c.led
      /\ r.colour = c.colour /\ r.buttons = c.buttons /\ r.name = c.name
      /\ r.freq = Everywhere(SynapseFreqOf(v.freq))
  BY <1>1 DEF IsRecord
<1> QED
  BY <1>2 DEF Everywhere

LEMMA SynapseTookName ==
  ASSUME NEW d \in Synapse, NEW c, IsRecord(c), NEW v \in Names, NEW p \in Profiles,
         NEW r, r = Took(d, c, Name(p), v), c.name \in [Profiles -> Names]
  PROVE  /\ IsRecord(r) /\ r.active = c.active /\ r.freq = c.freq /\ r.sel = c.sel /\ r.res = c.res
         /\ r.led = c.led /\ r.colour = c.colour /\ r.buttons = c.buttons
         /\ IsPut(c.name, p, v, r.name, Names)
<1>1. r = [c EXCEPT !.name[p] = v]
  BY DEF Took, Synapse, SynapseTook, Name
<1>2. /\ IsRecord(r) /\ r.active = c.active /\ r.freq = c.freq /\ r.sel = c.sel /\ r.res = c.res
      /\ r.led = c.led /\ r.colour = c.colour /\ r.buttons = c.buttons
      /\ r.name = [c.name EXCEPT ![p] = v]
  BY <1>1 DEF IsRecord
<1> QED
  BY <1>2 DEF IsPut

LEMMA SynapseTookProfile ==
  ASSUME NEW d \in Synapse, NEW c, IsRecord(c), NEW v, NEW p \in Profiles,
         NEW r, r = Took(d, c, Profile(p), v),
         c.sel \in [Profiles -> Nat], c.res \in [Profiles -> [Stages -> Nat]], c.led \in [Profiles -> BOOLEAN],
         c.colour \in [Profiles -> Colours], c.buttons \in [Profiles -> Presets],
         10 * p + v.sel - 1 \in Nat, ResFrom(v) \in [Stages -> Nat], v.led \in BOOLEAN, v.colour \in Colours,
         v.buttons \in Presets
  PROVE  /\ IsRecord(r) /\ r.active = c.active /\ r.freq = c.freq /\ r.name = c.name
         /\ IsPut(c.sel, p, 10 * p + v.sel - 1, r.sel, Nat)
         /\ IsPut(c.res, p, ResFrom(v), r.res, [Stages -> Nat])
         /\ IsPut(c.led, p, v.led, r.led, BOOLEAN)
         /\ IsPut(c.colour, p, v.colour, r.colour, Colours)
         /\ IsPut(c.buttons, p, v.buttons, r.buttons, Presets)
<1>1. r = SynapseTook(c, Profile(p), v)
  BY DEF Took, Synapse
<1>2. Profile(p)[1] = "profile" /\ Profile(p)[2] = p
  BY DEF Profile
<1>3. r = [c EXCEPT !.sel[p] = 10 * p + v.sel - 1, !.res[p] = ResFrom(v),
                    !.led[p] = v.led, !.colour[p] = v.colour, !.buttons[p] = v.buttons]
  BY <1>1, <1>2 DEF SynapseTook, ResFrom
<1>4. c = [active |-> c.active, freq |-> c.freq, sel |-> c.sel, res |-> c.res, led |-> c.led,
           colour |-> c.colour, buttons |-> c.buttons, name |-> c.name]
  BY DEF IsRecord
<1>5. /\ r.active = c.active /\ r.freq = c.freq /\ r.name = c.name
      /\ r.sel = [c.sel EXCEPT ![p] = 10 * p + v.sel - 1] /\ r.res = [c.res EXCEPT ![p] = ResFrom(v)]
      /\ r.led = [c.led EXCEPT ![p] = v.led] /\ r.colour = [c.colour EXCEPT ![p] = v.colour]
      /\ r.buttons = [c.buttons EXCEPT ![p] = v.buttons]
  BY <1>3, <1>4
<1>6. IsRecord(r)
  BY <1>3, <1>4 DEF IsRecord
<1>7. IsPut(c.sel, p, 10 * p + v.sel - 1, r.sel, Nat)
  BY <1>5 DEF IsPut
<1>8. IsPut(c.res, p, ResFrom(v), r.res, [Stages -> Nat])
  BY <1>5 DEF IsPut
<1>9. IsPut(c.led, p, v.led, r.led, BOOLEAN)
  BY <1>5 DEF IsPut
<1>10. IsPut(c.colour, p, v.colour, r.colour, Colours)
  BY <1>5 DEF IsPut
<1>11. IsPut(c.buttons, p, v.buttons, r.buttons, Presets)
  BY <1>5 DEF IsPut
<1> QED
  BY <1>5, <1>6, <1>7, <1>8, <1>9, <1>10, <1>11

(* An item of copy r that says the same in copy c. *)
Same(d, r, c, j) ==
  IF j = Global /\ d \in Synapse THEN r.active = c.active /\ r.freq[0] = c.freq[0]
  ELSE Wire(d, r, j) = Wire(d, c, j)

(* The copy r after item i of copy c was read as v. *)
TookFits(d, c, i, v, r) ==
  /\ IsCopy(d, r) /\ Shape(d, r) /\ Tells(d, r, i, v)
  /\ \A j \in Items(d) \ {i} : Same(d, r, c, j)
  /\ \A p \in Profiles : r.freq[p] = c.freq[p] \/ r.freq[p] \in {125, 500, 1000}
  /\ \A p \in Profiles : i = FreqItemOf(d, p) => r.freq[p] \in {125, 500, 1000}

LEMMA OlderItems ==
  ASSUME NEW d \in Older
  PROVE  /\ d \in DriverNames /\ d \notin Synapse
         /\ \A j \in Items(d) : \/ j = Active \/ j = Lights \/ (j = Mapped /\ d = "Lachesis")
                               \/ \E p \in Profiles : j = Profile(p)
         /\ \A j \in Readable(d) : \/ j = Active \/ ((j = Lights \/ j = Mapped) /\ d = "Lachesis")
                                  \/ \E p \in Profiles : j = Profile(p)
         /\ Readable(d) \subseteq Items(d)
<1>1. d \in DriverNames /\ d \notin Synapse
  BY DEF Older, DriverNames, Synapse
<1> QED
  BY <1>1, ItemsAre, ItemsDiffer DEF Readable, Older

LEMMA OlderSame ==
  ASSUME NEW d \in Older, NEW r, NEW c
  PROVE  /\ \A j, v : Tells(d, r, j, v) <=> Wire(d, r, j) = v
         /\ \A j : Same(d, r, c, j) <=> Wire(d, r, j) = Wire(d, c, j)
         /\ \A p : FreqItemOf(d, p) = Profile(p)
         /\ \A p : Own(d, p) = {0, 1}
  BY OlderItems, OwnIs DEF Tells, Meaning, Same, FreqItemOf

LEMMA OlderWordIs ==
  ASSUME NEW d \in Older, NEW p, NEW v
  PROVE  IsWord(d, Profile(p), v) <=>
           v \in [sel : IF d = "Lachesis" THEN 1..2 ELSE 3..4, freq : 1 .. 3, buttons : Presets]
  BY OlderItems, ItemsDiffer DEF IsWord, Presets

LEMMA OlderTookActive ==
  ASSUME NEW d \in Older, NEW c, NEW v, IsCopy(d, c), Shape(d, c), IsWord(d, Active, v)
  PROVE  TookFits(d, c, Active, v, Took(d, c, Active, v))
<1> DEFINE r == Took(d, c, Active, v)
<1>1. v - 1 \in Profiles /\ (v - 1) + 1 = v
  <2>1. v \in 1 .. NrProfiles
    BY ItemsDiffer DEF IsWord
  <2> QED
    BY <2>1, ProfilesAre
<1>2. /\ IsRecord(r) /\ r.active = v - 1 /\ r.freq = c.freq /\ r.sel = c.sel /\ r.res = c.res
      /\ r.led = c.led /\ r.colour = c.colour /\ r.buttons = c.buttons /\ r.name = c.name
  <2>1. IsRecord(c)
    BY CopyIs
  <2> QED
    BY <2>1, PlainTookActive
<1> HIDE DEF r
<1>3. IsCopy(d, r)
  BY <1>1, <1>2, CopyIs
<1>4. Shape(d, r)
  BY <1>2 DEF Shape
<1>5. Wire(d, r, Active) = v
  BY <1>1, <1>2, ActiveWire
<1>6. ASSUME NEW j \in Items(d) \ {Active} PROVE Wire(d, r, j) = Wire(d, c, j)
  <2>1. CASE j = Lights
    BY <1>2, <2>1, LightsWire
  <2>2. CASE j = Mapped /\ d = "Lachesis"
    BY <1>2, <2>2, MappedWire
  <2>3. ASSUME NEW p, j = Profile(p) PROVE Wire(d, r, j) = Wire(d, c, j)
    BY <1>2, <2>3, OlderWireKept
  <2> QED
    BY <1>6, <2>1, <2>2, <2>3, OlderItems
<1>7. \A p \in Profiles : r.freq[p] = c.freq[p] /\ Active # FreqItemOf(d, p)
  BY <1>2, OlderSame, ItemsDiffer
<1> QED
  BY <1>3, <1>4, <1>5, <1>6, <1>7, OlderSame DEF TookFits, r

LEMMA OlderTookProfile ==
  ASSUME NEW d \in Older, NEW c, NEW v, NEW p \in Profiles, IsCopy(d, c), Shape(d, c), IsWord(d, Profile(p), v)
  PROVE  TookFits(d, c, Profile(p), v, Took(d, c, Profile(p), v))
<1> DEFINE r == Took(d, c, Profile(p), v)
           sel == SelOf(d, v.sel)
<1>1. /\ v.sel \in IF d = "Lachesis" THEN 1..2 ELSE 3..4
      /\ v.freq \in 1 .. 3 /\ v.buttons \in Presets
      /\ v = [sel |-> v.sel, freq |-> v.freq, buttons |-> v.buttons]
  BY OlderWordIs
<1>2. /\ sel \in {0, 1} /\ sel \in Nat /\ SelCode(d, sel) = v.sel
      /\ sel = IF d = "Lachesis" THEN v.sel - 1 ELSE 4 - v.sel
      /\ SlowFreqOf(v.freq) \in {125, 500, 1000} /\ FreqCode(d, SlowFreqOf(v.freq)) = v.freq
  <2>1. sel \in {0, 1} /\ SelCode(d, sel) = v.sel
    BY <1>1 DEF SelOf, SelCode
  <2> QED
    BY <1>1, <2>1, OlderCodes DEF SelOf
<1> HIDE DEF sel
<1>3. /\ c.freq \in [Profiles -> Nat] /\ c.sel \in [Profiles -> Nat] /\ c.buttons \in [Profiles -> Presets]
      /\ IsRecord(c) /\ \A q \in Profiles : c.sel[q] \in {0, 1}
  BY CopyIs, OlderSame
<1>4. SlowFreqOf(v.freq) \in Nat
  BY <1>2
<1>5. /\ IsRecord(r) /\ r.active = c.active /\ r.res = c.res
      /\ r.led = c.led /\ r.colour = c.colour /\ r.name = c.name
      /\ IsPut(c.freq, p, SlowFreqOf(v.freq), r.freq, Nat)
      /\ IsPut(c.sel, p, sel, r.sel, Nat)
      /\ IsPut(c.buttons, p, v.buttons, r.buttons, Presets)
  BY <1>1, <1>2, <1>3, <1>4, PlainTookProfile
<1> HIDE DEF r
<1>6. /\ r.freq \in [Profiles -> Nat] /\ r.sel \in [Profiles -> Nat] /\ r.buttons \in [Profiles -> Presets]
      /\ \A q \in Profiles : /\ r.freq[q] = IF q = p THEN SlowFreqOf(v.freq) ELSE c.freq[q]
                             /\ r.sel[q] = IF q = p THEN sel ELSE c.sel[q]
                             /\ r.buttons[q] = IF q = p THEN v.buttons ELSE c.buttons[q]
  BY <1>5 DEF IsPut
<1>7. IsCopy(d, r)
  <2>1. \A q \in Profiles : r.sel[q] \in Own(d, q)
    BY <1>2, <1>3, <1>6, OlderSame
  <2>2. /\ r.active \in Profiles /\ r.res \in [Profiles -> [Stages -> Nat]] /\ r.led \in [Profiles -> BOOLEAN]
        /\ r.colour \in [Profiles -> Colours] /\ r.name \in [Profiles -> Names]
    BY <1>5, CopyIs
  <2> QED
    BY <1>5, <1>6, <2>1, <2>2, CopyIs
<1>8. Shape(d, r)
  BY <1>5, OlderItems DEF Shape
<1>9. Wire(d, r, Profile(p)) = v
  <2>1. r.sel[p] = sel /\ r.freq[p] = SlowFreqOf(v.freq) /\ r.buttons[p] = v.buttons
    BY <1>6
  <2>2. Wire(d, r, Profile(p)) = [sel |-> SelCode(d, sel), freq |-> FreqCode(d, SlowFreqOf(v.freq)),
                                  buttons |-> v.buttons]
    BY <2>1, OlderWire
  <2> QED
    BY <1>1, <1>2, <2>2
<1>10. ASSUME NEW j \in Items(d) \ {Profile(p)} PROVE Wire(d, r, j) = Wire(d, c, j)
  <2>1. CASE j = Lights \/ j = Active
    BY <1>5, <2>1, ActiveWire, LightsWire
  <2>2. CASE j = Mapped /\ d = "Lachesis"
    BY <1>5, <2>2, MappedWire
  <2>3. ASSUME NEW q \in Profiles, j = Profile(q) PROVE Wire(d, r, j) = Wire(d, c, j)
    <3>1. r.sel[q] = c.sel[q] /\ r.freq[q] = c.freq[q] /\ r.buttons[q] = c.buttons[q]
      BY <1>6, <1>10, <2>3
    <3> QED
      BY <2>3, <3>1, OlderWireKept
  <2> QED
    BY <1>10, <2>1, <2>2, <2>3, OlderItems
<1>11. \A q \in Profiles : Profile(p) = FreqItemOf(d, q) => q = p
  BY OlderSame, ItemsDiffer
<1> QED
  BY <1>2, <1>6, <1>7, <1>8, <1>9, <1>10, <1>11, OlderSame DEF TookFits, r

LEMMA LachesisTookRest ==
  ASSUME NEW c, NEW i \in {Lights, Mapped}, NEW v, IsCopy("Lachesis", c), Shape("Lachesis", c),
         IsWord("Lachesis", i, v)
  PROVE  TookFits("Lachesis", c, i, v, Took("Lachesis", c, i, v))
<1> DEFINE d == "Lachesis"
           r == Took(d, c, i, v)
<1>1. d \in Older /\ d \notin Synapse /\ IsCopy(d, c) /\ Shape(d, c)
  BY DEF Older, Synapse
<1>2. \A p \in Profiles : i # FreqItemOf(d, p)
  BY <1>1, OlderSame, ItemsDiffer
<1>3. IsRecord(c)
  BY CopyIs
<1>4. ASSUME i = Lights PROVE TookFits(d, c, i, v, r)
  <2>1. v \in BOOLEAN
    BY <1>4, ItemsDiffer DEF IsWord
  <2>2. /\ IsRecord(r) /\ r.active = c.active /\ r.freq = c.freq /\ r.sel = c.sel /\ r.res = c.res
        /\ r.colour = c.colour /\ r.buttons = c.buttons /\ r.name = c.name
        /\ r.led \in [Profiles -> BOOLEAN] /\ \A p \in Profiles : r.led[p] = v
    BY <1>3, <1>4, <2>1, LachesisTookLights
  <2> HIDE DEF r
  <2>3. IsCopy(d, r)
    BY <2>2, <1>1, CopyIs
  <2>4. Shape(d, r)
    BY <2>2, <1>1, ProfilesAre DEF Shape
  <2>5. Wire(d, r, i) = v
    BY <1>1, <1>4, <2>2, LightsWire, ProfilesAre
  <2>6. ASSUME NEW j \in Items(d) \ {i} PROVE Wire(d, r, j) = Wire(d, c, j)
    <3>1. CASE j = Active
      BY <1>1, <2>2, <3>1, ActiveWire
    <3>2. CASE j = Mapped
      BY <2>2, <3>2, MappedWire
    <3>3. ASSUME NEW q, j = Profile(q) PROVE Wire(d, r, j) = Wire(d, c, j)
      BY <1>1, <2>2, <3>3, OlderWireKept
    <3> QED
      BY <1>1, <1>4, <2>6, <3>1, <3>2, <3>3, OlderItems
  <2> QED
    BY <1>1, <1>2, <2>2, <2>3, <2>4, <2>5, <2>6, OlderSame DEF TookFits, r
<1>5. ASSUME i = Mapped PROVE TookFits(d, c, i, v, r)
  <2>0. v \in [Stages -> 0 .. 255]
    BY <1>5, ItemsDiffer DEF IsWord
  <2>1. \A m \in Stages : LachesisRes(v[m]) \in Nat /\ LachesisDpi(LachesisRes(v[m])) = v[m]
    <3>1. \A m \in Stages : v[m] \in 0 .. 255
      BY <2>0
    <3>2. \A code \in 0 .. 255 : LachesisRes(code) \in Nat /\ LachesisDpi(LachesisRes(code)) = code
      BY LachesisCodes
    <3> QED
      BY <3>1, <3>2
  <2>2. /\ IsRecord(r) /\ r.active = c.active /\ r.freq = c.freq /\ r.sel = c.sel /\ r.led = c.led
        /\ r.colour = c.colour /\ r.buttons = c.buttons /\ r.name = c.name
        /\ r.res \in [Profiles -> [Stages -> Nat]]
        /\ \A p \in Profiles : r.res[p] = r.res[0] /\ \A m \in Stages : r.res[p][m] = LachesisRes(v[m])
    BY <1>3, <1>5, <2>1, LachesisTookMapped
  <2> HIDE DEF r
  <2>3. IsCopy(d, r)
    BY <2>2, <1>1, CopyIs
  <2>4. Shape(d, r)
    BY <2>2, <1>1 DEF Shape
  <2>5. Wire(d, r, i) = v
    <3>1. \A m \in Stages : r.res[0][m] = LachesisRes(v[m])
      BY <2>2, ProfilesAre
    <3>2. Wire(d, r, i) = [m \in Stages |-> LachesisDpi(r.res[0][m])]
      BY <1>5, MappedWire
    <3>3. \A m \in Stages : LachesisDpi(r.res[0][m]) = v[m]
      BY <2>1, <3>1
    <3>4. v = [m \in Stages |-> v[m]]
      BY <2>0
    <3> QED
      BY <3>2, <3>3, <3>4
  <2>6. ASSUME NEW j \in Items(d) \ {i} PROVE Wire(d, r, j) = Wire(d, c, j)
    <3>1. CASE j = Active \/ j = Lights
      BY <1>1, <2>2, <3>1, ActiveWire, LightsWire
    <3>2. ASSUME NEW q, j = Profile(q) PROVE Wire(d, r, j) = Wire(d, c, j)
      BY <1>1, <2>2, <3>2, OlderWireKept
    <3> QED
      BY <1>1, <1>5, <2>6, <3>1, <3>2, OlderItems
  <2> QED
    BY <1>1, <1>2, <2>2, <2>3, <2>4, <2>5, <2>6, OlderSame DEF TookFits, r
<1> QED
  BY <1>4, <1>5

LEMMA SynapseItems ==
  ASSUME NEW d \in Synapse
  PROVE  /\ d \in DriverNames /\ d \notin Older
         /\ \A j \in Items(d) : j = Global \/ \E p \in Profiles : j = Profile(p) \/ j = Name(p)
         /\ \A p \in Profiles : Profile(p) \in Items(d) /\ Name(p) \in Items(d)
         /\ Global \in Items(d) /\ Readable(d) = Items(d)
<1>1. d \in DriverNames /\ d \notin Older
  BY DEF Older, DriverNames, Synapse
<1> QED
  BY <1>1, ItemsAre, ItemsDiffer DEF Readable, Older

LEMMA SynapseTells ==
  ASSUME NEW d \in Synapse, NEW r, NEW v
  PROVE  /\ Tells(d, r, Global, v) <=> r.active = v.active - 1 /\ SynapseFreqCode(r.freq[0]) = v.freq
         /\ \A p : Tells(d, r, Name(p), v) <=> Wire(d, r, Name(p)) = v
         /\ \A p : Tells(d, r, Profile(p), v) <=> Meaning(d, Profile(p), Wire(d, r, Profile(p))) = Meaning(d, Profile(p), v)
  BY ItemsDiffer DEF Tells, Meaning

LEMMA SynapseMeaning ==
  ASSUME NEW d \in Synapse, NEW p, NEW v
  PROVE  Meaning(d, Profile(p), v) = <<v.dpis[v.sel], v.sel, v.led, v.colour, v.buttons>>
  BY ItemsDiffer DEF Meaning

LEMMA SynapseSame ==
  ASSUME NEW d \in Synapse, NEW r, NEW c
  PROVE  /\ Same(d, r, c, Global) <=> r.active = c.active /\ r.freq[0] = c.freq[0]
         /\ \A p : Same(d, r, c, Name(p)) <=> Wire(d, r, Name(p)) = Wire(d, c, Name(p))
         /\ \A p : Same(d, r, c, Profile(p)) <=> Wire(d, r, Profile(p)) = Wire(d, c, Profile(p))
         /\ \A p : FreqItemOf(d, p) = Global
  BY ItemsDiffer DEF Same, FreqItemOf

LEMMA SynapseWordIs ==
  ASSUME NEW d \in Synapse, NEW p, NEW v, IsWord(d, Profile(p), v)
  PROVE  /\ v.sel \in 1 .. 2 /\ v.led \in BOOLEAN /\ v.colour \in Colours /\ v.buttons \in Presets
         /\ Len(v.dpis) \in 1 .. 2 /\ v.sel <= Len(v.dpis)
         /\ \A k \in 1 .. Len(v.dpis) : v.dpis[k] \in SynapseDpiCodes
         /\ d = "Imperator" => v.colour = "black"
<1>1. v \in SynapseWords /\ (d = "Imperator" => v.colour = "black")
  BY ItemsDiffer DEF IsWord
<1>2. /\ v.sel \in 1 .. 2 /\ v.led \in BOOLEAN /\ v.colour \in Colours /\ v.buttons \in Presets
      /\ v.dpis \in [1..1 -> SynapseDpiCodes] \cup [1..2 -> SynapseDpiCodes] /\ v.sel \in DOMAIN v.dpis
  BY <1>1 DEF SynapseWords, Presets
<1>3. /\ \A f \in [1..1 -> SynapseDpiCodes] : Len(f) = 1 /\ DOMAIN f = 1..1 /\ \A k \in 1..1 : f[k] \in SynapseDpiCodes
      /\ \A f \in [1..2 -> SynapseDpiCodes] : Len(f) = 2 /\ DOMAIN f = 1..2 /\ \A k \in 1..2 : f[k] \in SynapseDpiCodes
  BY FunctionIsSeq
<1> DEFINE w == v.dpis
<1> HIDE DEF w
<1>4. CASE w \in [1..1 -> SynapseDpiCodes]
  <2>1. Len(w) = 1 /\ DOMAIN w = 1..1 /\ \A k \in 1..1 : w[k] \in SynapseDpiCodes
    BY <1>3, <1>4
  <2>2. v.sel \in 1 .. 1
    BY <1>2, <2>1 DEF w
  <2> QED
    BY <1>1, <1>2, <2>1, <2>2 DEF w
<1>5. CASE w \in [1..2 -> SynapseDpiCodes]
  <2>1. Len(w) = 2 /\ DOMAIN w = 1..2 /\ \A k \in 1..2 : w[k] \in SynapseDpiCodes
    BY <1>3, <1>5
  <2> QED
    BY <1>1, <1>2, <2>1 DEF w
<1> QED
  BY <1>2, <1>4, <1>5 DEF w

LEMMA ResFromIs ==
  ASSUME NEW d \in Synapse, NEW p, NEW v, IsWord(d, Profile(p), v)
  PROVE  /\ ResFrom(v) \in [Stages -> Nat]
         /\ v.sel - 1 \in Stages /\ SynapseDpi(ResFrom(v)[v.sel - 1]) = v.dpis[v.sel]
<1>1. /\ v.sel \in 1 .. 2 /\ Len(v.dpis) \in 1 .. 2 /\ v.sel <= Len(v.dpis)
      /\ \A k \in 1 .. Len(v.dpis) : v.dpis[k] \in SynapseDpiCodes
  BY SynapseWordIs
<1>2. \A code \in SynapseDpiCodes : SynapseRes(code) \in Nat /\ SynapseDpi(SynapseRes(code)) = code
  BY SynapseCodes
<1> DEFINE w == v.dpis
           n == Len(v.dpis)
<1> HIDE DEF w, n
<1>3. ASSUME NEW m \in Stages PROVE (IF m + 1 > n THEN 5600 ELSE SynapseRes(w[m + 1])) \in Nat
  <2>1. m + 1 \in 1 .. 2
    BY StagesAre
  <2>2. m + 1 <= n => m + 1 \in 1 .. n
    BY <1>1, <2>1 DEF n
  <2> QED
    BY <1>1, <1>2, <2>1, <2>2 DEF n, w
<1>4. ResFrom(v) \in [Stages -> Nat]
  BY <1>3 DEF ResFrom, n, w
<1>5. v.sel - 1 \in Stages /\ (v.sel - 1) + 1 = v.sel /\ v.sel \in 1 .. n /\ ~(v.sel > n)
  <2>1. n \in 1 .. 2 /\ v.sel \in 1 .. 2 /\ v.sel <= n
    BY <1>1 DEF n
  <2>2. v.sel - 1 \in {0, 1}
    BY <2>1
  <2> QED
    BY <2>1, <2>2, StagesAre
<1>6. ResFrom(v)[v.sel - 1] = IF (v.sel - 1) + 1 > n THEN 5600 ELSE SynapseRes(w[(v.sel - 1) + 1])
  BY <1>5 DEF ResFrom, n, w
<1>7. ResFrom(v)[v.sel - 1] = SynapseRes(w[v.sel])
  BY <1>5, <1>6
<1>8. w[v.sel] \in SynapseDpiCodes
  BY <1>1, <1>5 DEF n, w
<1> QED
  BY <1>2, <1>4, <1>5, <1>7, <1>8 DEF w

LEMMA SynapseTookGlobalFits ==
  ASSUME NEW d \in Synapse, NEW c, NEW v, IsCopy(d, c), Shape(d, c), IsWord(d, Global, v)
  PROVE  TookFits(d, c, Global, v, Took(d, c, Global, v))
<1> DEFINE r == Took(d, c, Global, v)
<1>1. v.active \in 1 .. NrProfiles /\ v.freq \in {1, 2, 8}
  BY ItemsDiffer DEF IsWord
<1>2. v.active - 1 \in Profiles
  BY <1>1, ProfilesAre
<1>3. /\ SynapseFreqOf(v.freq) \in {125, 500, 1000} /\ SynapseFreqOf(v.freq) \in Nat
      /\ SynapseFreqCode(SynapseFreqOf(v.freq)) = v.freq
  <2>1. SynapseFreqOf(v.freq) \in {125, 500, 1000} /\ SynapseFreqCode(SynapseFreqOf(v.freq)) = v.freq
    BY <1>1, SynapseCodes
  <2> QED
    BY <2>1
<1>4. IsRecord(c)
  BY CopyIs
<1>5. /\ IsRecord(r) /\ r.active = v.active - 1 /\ r.sel = c.sel /\ r.res = c.res /\ r.led = c.led
      /\ r.colour = c.colour /\ r.buttons = c.buttons /\ r.name = c.name
      /\ r.freq \in [Profiles -> Nat] /\ \A p \in Profiles : r.freq[p] = SynapseFreqOf(v.freq)
  BY <1>3, <1>4, SynapseTookGlobal
<1> HIDE DEF r
<1>6. IsCopy(d, r)
  BY <1>2, <1>5, CopyIs
<1>7. Shape(d, r)
  BY <1>5, ProfilesAre, SynapseItems DEF Shape, Older
<1>8. r.active = v.active - 1 /\ SynapseFreqCode(r.freq[0]) = v.freq
  BY <1>3, <1>5, ProfilesAre
<1>9. ASSUME NEW j \in Items(d) \ {Global} PROVE Same(d, r, c, j)
  <2>1. PICK p \in Profiles : j = Profile(p) \/ j = Name(p)
    BY <1>9, SynapseItems
  <2>2. CASE j = Profile(p)
    <3>1. Wire(d, r, Profile(p)) = Wire(d, c, Profile(p))
      BY <1>5, ProfileWireKept
    <3> QED
      BY <2>2, <3>1, SynapseSame
  <2>3. CASE j = Name(p)
    <3>1. Wire(d, r, Name(p)) = Wire(d, c, Name(p))
      BY <1>5, NameWire
    <3> QED
      BY <2>3, <3>1, SynapseSame
  <2> QED
    BY <2>1, <2>2, <2>3
<1>10. \A p \in Profiles : r.freq[p] \in {125, 500, 1000}
  BY <1>3, <1>5
<1>11. Tells(d, r, Global, v)
  BY <1>8, SynapseTells
<1> QED
  BY <1>6, <1>7, <1>9, <1>10, <1>11 DEF TookFits, r

LEMMA SynapseTookNameFits ==
  ASSUME NEW d \in Synapse, NEW c, NEW v, NEW p \in Profiles, IsCopy(d, c), Shape(d, c), IsWord(d, Name(p), v)
  PROVE  TookFits(d, c, Name(p), v, Took(d, c, Name(p), v))
<1> DEFINE r == Took(d, c, Name(p), v)
<1>1. v \in Names
  BY ItemsDiffer DEF IsWord, Names
<1>2. IsRecord(c) /\ c.name \in [Profiles -> Names]
  BY CopyIs
<1>3. /\ IsRecord(r) /\ r.active = c.active /\ r.freq = c.freq /\ r.sel = c.sel /\ r.res = c.res
      /\ r.led = c.led /\ r.colour = c.colour /\ r.buttons = c.buttons
      /\ IsPut(c.name, p, v, r.name, Names)
  BY <1>1, <1>2, SynapseTookName
<1> HIDE DEF r
<1>4. r.name \in [Profiles -> Names] /\ \A q \in Profiles : r.name[q] = IF q = p THEN v ELSE c.name[q]
  BY <1>3 DEF IsPut
<1>5. IsCopy(d, r)
  BY <1>3, <1>4, CopyIs
<1>6. Shape(d, r)
  BY <1>3 DEF Shape
<1>7. Wire(d, r, Name(p)) = v
  BY <1>4, NameWire
<1>8. ASSUME NEW j \in Items(d) \ {Name(p)} PROVE Same(d, r, c, j)
  <2>1. CASE j = Global
    BY <1>3, <2>1, SynapseSame
  <2>2. ASSUME NEW q \in Profiles, j = Profile(q) PROVE Same(d, r, c, j)
    <3>1. Wire(d, r, Profile(q)) = Wire(d, c, Profile(q))
      BY <1>3, ProfileWireKept
    <3> QED
      BY <2>2, <3>1, SynapseSame
  <2>3. ASSUME NEW q \in Profiles, j = Name(q) PROVE Same(d, r, c, j)
    <3>1. q # p
      BY <1>8, <2>3
    <3>2. Wire(d, r, Name(q)) = Wire(d, c, Name(q))
      BY <1>4, <3>1, NameWire
    <3> QED
      BY <2>3, <3>2, SynapseSame
  <2> QED
    BY <1>8, <2>1, <2>2, <2>3, SynapseItems
<1>9. \A q \in Profiles : r.freq[q] = c.freq[q] /\ Name(p) # FreqItemOf(d, q)
  BY <1>3, SynapseSame, ItemsDiffer
<1>10. Tells(d, r, Name(p), v)
  BY <1>7, SynapseTells
<1> QED
  BY <1>5, <1>6, <1>8, <1>9, <1>10 DEF TookFits, r

LEMMA SynapseTookProfileFits ==
  ASSUME NEW d \in Synapse, NEW c, NEW v, NEW p \in Profiles, IsCopy(d, c), Shape(d, c), IsWord(d, Profile(p), v)
  PROVE  TookFits(d, c, Profile(p), v, Took(d, c, Profile(p), v))
<1> DEFINE r == Took(d, c, Profile(p), v)
           sel == 10 * p + v.sel - 1
<1>1. /\ v.sel \in 1 .. 2 /\ v.led \in BOOLEAN /\ v.colour \in Colours /\ v.buttons \in Presets
      /\ d = "Imperator" => v.colour = "black"
  BY SynapseWordIs
<1>2. /\ sel \in Nat /\ sel \in {10 * p, 10 * p + 1} /\ (sel % 10) + 1 = v.sel
  <2>1. p \in Nat
    BY ProfilesAre
  <2> QED
    BY <1>1, <2>1
<1>3. /\ ResFrom(v) \in [Stages -> Nat]
      /\ v.sel - 1 \in Stages /\ SynapseDpi(ResFrom(v)[v.sel - 1]) = v.dpis[v.sel]
  BY ResFromIs
<1>4. /\ IsRecord(c) /\ c.sel \in [Profiles -> Nat] /\ c.res \in [Profiles -> [Stages -> Nat]]
      /\ c.led \in [Profiles -> BOOLEAN]
      /\ c.colour \in [Profiles -> Colours] /\ c.buttons \in [Profiles -> Presets]
      /\ \A q \in Profiles : c.sel[q] \in Own(d, q)
  BY CopyIs
<1>5. /\ IsRecord(r) /\ r.active = c.active /\ r.freq = c.freq /\ r.name = c.name
      /\ IsPut(c.sel, p, 10 * p + v.sel - 1, r.sel, Nat)
      /\ IsPut(c.res, p, ResFrom(v), r.res, [Stages -> Nat])
      /\ IsPut(c.led, p, v.led, r.led, BOOLEAN)
      /\ IsPut(c.colour, p, v.colour, r.colour, Colours)
      /\ IsPut(c.buttons, p, v.buttons, r.buttons, Presets)
  BY <1>1, <1>2, <1>3, <1>4, SynapseTookProfile
<1> HIDE DEF r, sel
<1>6. /\ r.sel \in [Profiles -> Nat] /\ r.res \in [Profiles -> [Stages -> Nat]]
      /\ r.led \in [Profiles -> BOOLEAN]
      /\ r.colour \in [Profiles -> Colours] /\ r.buttons \in [Profiles -> Presets]
      /\ \A q \in Profiles : /\ r.sel[q] = IF q = p THEN sel ELSE c.sel[q]
                             /\ r.res[q] = IF q = p THEN ResFrom(v) ELSE c.res[q]
                             /\ r.led[q] = IF q = p THEN v.led ELSE c.led[q]
                             /\ r.colour[q] = IF q = p THEN v.colour ELSE c.colour[q]
                             /\ r.buttons[q] = IF q = p THEN v.buttons ELSE c.buttons[q]
  BY <1>5 DEF IsPut, sel
<1>7. IsCopy(d, r)
  <2>1. \A q \in Profiles : r.sel[q] \in Own(d, q)
    BY <1>2, <1>4, <1>6, OwnIs
  <2>2. r.active \in Profiles /\ r.freq \in [Profiles -> Nat] /\ r.name \in [Profiles -> Names]
    BY <1>5, CopyIs
  <2> QED
    BY <1>5, <1>6, <2>1, <2>2, CopyIs
<1>8. r.sel[p] = sel /\ r.res[p] = ResFrom(v) /\ r.led[p] = v.led /\ r.colour[p] = v.colour
      /\ r.buttons[p] = v.buttons
  BY <1>6
<1>9. Meaning(d, Profile(p), Wire(d, r, Profile(p))) = Meaning(d, Profile(p), v)
  <2> DEFINE w == Wire(d, r, Profile(p))
  <2>1. w = [sel |-> (r.sel[p] % 10) + 1, dpis |-> SynapseDpis(r, p), led |-> r.led[p],
             colour |-> IF d = "Imperator" THEN "black" ELSE r.colour[p], buttons |-> r.buttons[p]]
    BY ProfileWire
  <2> HIDE DEF w
  <2>2. w.sel = v.sel /\ w.dpis = SynapseDpis(r, p) /\ w.led = v.led /\ w.colour = v.colour /\ w.buttons = v.buttons
    BY <1>1, <1>2, <1>8, <2>1
  <2>3. SynapseDpis(r, p)[v.sel] = SynapseDpi(r.res[p][v.sel - 1])
    BY <1>1 DEF SynapseDpis
  <2>4. w.dpis[w.sel] = v.dpis[v.sel]
    BY <1>3, <1>8, <2>2, <2>3
  <2>5. /\ Meaning(d, Profile(p), w) = <<w.dpis[w.sel], w.sel, w.led, w.colour, w.buttons>>
        /\ Meaning(d, Profile(p), v) = <<v.dpis[v.sel], v.sel, v.led, v.colour, v.buttons>>
    BY SynapseMeaning
  <2> QED
    BY <2>2, <2>4, <2>5 DEF w
<1>10. Tells(d, r, Profile(p), v)
  BY <1>9, SynapseTells
<1>11. Shape(d, r)
  <2>1. \A q \in Profiles : c.freq[q] = c.freq[0]
    BY DEF Shape
  <2>2. d \notin {"Boomslang", "Lachesis", "Copperhead"}
    BY DEF Synapse
  <2>3. d # "Lachesis5600" => r.colour = Zeroed.colour
    <3>1. ASSUME d # "Lachesis5600" PROVE r.colour = Zeroed.colour
      <4>1. d = "Imperator" /\ v.colour = "black"
        BY <1>1, <3>1 DEF Synapse
      <4>2. c.colour = Zeroed.colour
        BY <3>1 DEF Shape
      <4>3. Zeroed.colour = [q \in Profiles |-> "black"]
        BY DEF Zeroed, Everywhere
      <4>4. \A q \in Profiles : c.colour[q] = "black"
        BY <4>2, <4>3
      <4>5. \A q \in Profiles : r.colour[q] = "black"
        BY <1>6, <4>1, <4>4
      <4> QED
        BY <1>6, <4>3, <4>5
    <3> QED
      BY <3>1
  <2> QED
    BY <1>5, <2>1, <2>2, <2>3 DEF Shape
<1>12. ASSUME NEW j \in Items(d) \ {Profile(p)} PROVE Same(d, r, c, j)
  <2>1. CASE j = Global
    BY <1>5, <2>1, SynapseSame
  <2>2. ASSUME NEW q \in Profiles, j = Name(q) PROVE Same(d, r, c, j)
    <3>1. Wire(d, r, Name(q)) = Wire(d, c, Name(q))
      BY <1>5, NameWire
    <3> QED
      BY <2>2, <3>1, SynapseSame
  <2>3. ASSUME NEW q \in Profiles, j = Profile(q) PROVE Same(d, r, c, j)
    <3>1. q # p
      BY <1>12, <2>3
    <3>2. r.sel[q] = c.sel[q] /\ r.res[q] = c.res[q] /\ r.led[q] = c.led[q] /\ r.colour[q] = c.colour[q]
          /\ r.buttons[q] = c.buttons[q]
      BY <1>6, <3>1
    <3>3. Wire(d, r, Profile(q)) = Wire(d, c, Profile(q))
      BY <3>2, ProfileWireKept
    <3> QED
      BY <2>3, <3>3, SynapseSame
  <2> QED
    BY <1>12, <2>1, <2>2, <2>3, SynapseItems
<1>13. \A q \in Profiles : r.freq[q] = c.freq[q] /\ Profile(p) # FreqItemOf(d, q)
  BY <1>5, SynapseSame, ItemsDiffer
<1> QED
  BY <1>7, <1>10, <1>11, <1>12, <1>13 DEF TookFits, r

(* Whatever is read of an item, the copy has it and keeps the rest. *)
LEMMA Takes ==
  ASSUME NEW d \in DriverNames, NEW c, NEW i \in Readable(d), NEW v,
         IsCopy(d, c), Shape(d, c), IsWord(d, i, v)
  PROVE  TookFits(d, c, i, v, Took(d, c, i, v))
<1>1. d \in Older \/ d \in Synapse
  BY DEF DriverNames, Older, Synapse
<1>2. CASE d \in Older
  <2>1. \/ i = Active \/ ((i = Lights \/ i = Mapped) /\ d = "Lachesis")
        \/ \E p \in Profiles : i = Profile(p)
    BY <1>2, OlderItems
  <2>2. CASE i = Active
    BY <1>2, <2>2, OlderTookActive
  <2>3. CASE i \in {Lights, Mapped} /\ d = "Lachesis"
    BY <2>3, LachesisTookRest
  <2>4. ASSUME NEW p \in Profiles, i = Profile(p) PROVE TookFits(d, c, i, v, Took(d, c, i, v))
    BY <1>2, <2>4, OlderTookProfile
  <2> QED
    BY <2>1, <2>2, <2>3, <2>4
<1>3. CASE d \in Synapse
  <2>1. i = Global \/ \E p \in Profiles : i = Profile(p) \/ i = Name(p)
    BY <1>3, SynapseItems
  <2>2. CASE i = Global
    BY <1>3, <2>2, SynapseTookGlobalFits
  <2>3. ASSUME NEW p \in Profiles, i = Profile(p) PROVE TookFits(d, c, i, v, Took(d, c, i, v))
    BY <1>3, <2>3, SynapseTookProfileFits
  <2>4. ASSUME NEW p \in Profiles, i = Name(p) PROVE TookFits(d, c, i, v, Took(d, c, i, v))
    BY <1>3, <2>4, SynapseTookNameFits
  <2> QED
    BY <2>1, <2>2, <2>3, <2>4
<1> QED
  BY <1>1, <1>2, <1>3

(* What is written of a copy is a word that can be read.                   *)
LEMMA SynapseDpisAre ==
  ASSUME NEW c, NEW p \in Profiles, c.res \in [Profiles -> [Stages -> Nat]]
  PROVE  SynapseDpis(c, p) \in [1 .. 2 -> SynapseDpiCodes]
<1>1. ASSUME NEW k \in 1 .. 2 PROVE SynapseDpi(c.res[p][k - 1]) \in SynapseDpiCodes
  <2>1. k - 1 \in Stages
    BY StagesAre
  <2>2. c.res[p][k - 1] \in Nat
    BY <2>1
  <2> QED
    BY <2>2, SynapseCodes
<1> QED
  BY <1>1 DEF SynapseDpis

LEMMA SelIsStage ==
  ASSUME NEW d \in Synapse, NEW c, IsCopy(d, c), NEW p \in Profiles
  PROVE  (c.sel[p] % 10) + 1 \in 1 .. 2
<1>1. c.sel[p] \in {10 * p, 10 * p + 1} /\ p \in Nat
  BY CopyIs, OwnIs, ProfilesAre
<1> QED
  BY <1>1

LEMMA WireIsWord ==
  ASSUME NEW d \in DriverNames, NEW c, IsCopy(d, c), NEW i \in Items(d)
  PROVE  IsWord(d, i, Wire(d, c, i))
<1>1. d \in Older \/ d \in Synapse
  BY DEF DriverNames, Older, Synapse
<1>2. /\ c.active \in Profiles /\ c.freq \in [Profiles -> Nat] /\ c.sel \in [Profiles -> Nat]
      /\ c.res \in [Profiles -> [Stages -> Nat]] /\ c.led \in [Profiles -> BOOLEAN]
      /\ c.colour \in [Profiles -> Colours] /\ c.buttons \in [Profiles -> Presets]
      /\ c.name \in [Profiles -> Names]
      /\ \A p \in Profiles : c.sel[p] \in Own(d, p)
  BY CopyIs
<1>3. CASE d \in Older
  <2>1. CASE i = Active
    <3>1. c.active + 1 \in 1 .. NrProfiles
      BY <1>2, ProfilesAre
    <3>2. Wire(d, c, i) \in 1 .. NrProfiles
      BY <1>3, <2>1, <3>1, ActiveWire
    <3> QED
      BY <2>1, <3>2, ItemsDiffer DEF IsWord
  <2>2. CASE i = Lights
    <3>1. Wire(d, c, i) \in BOOLEAN
      <4>1. c.led[0] \in BOOLEAN
        BY <1>2, ProfilesAre
      <4>2. Wire(d, c, i) = c.led[0]
        BY <1>3, <2>2, LightsWire
      <4> QED
        BY <4>1, <4>2
    <3> QED
      BY <2>2, <3>1, ItemsDiffer DEF IsWord
  <2>3. CASE i = Mapped /\ d = "Lachesis"
    <3>1. \A r \in Nat : LachesisDpi(r) \in 0 .. 255
      BY LachesisCodes
    <3>2. \A m \in Stages : c.res[0][m] \in Nat
      BY <1>2, ProfilesAre
    <3>3. Wire(d, c, i) = [m \in Stages |-> LachesisDpi(c.res[0][m])]
      BY <2>3, MappedWire
    <3>4. Wire(d, c, i) \in [Stages -> 0 .. 255]
      BY <3>1, <3>2, <3>3
    <3> QED
      BY <2>3, <3>4, ItemsDiffer DEF IsWord
  <2>4. ASSUME NEW p \in Profiles, i = Profile(p) PROVE IsWord(d, i, Wire(d, c, i))
    <3>1. c.sel[p] \in {0, 1} /\ c.freq[p] \in Nat /\ c.buttons[p] \in Presets
      BY <1>2, <1>3, OlderSame
    <3>2. SelCode(d, c.sel[p]) \in IF d = "Lachesis" THEN 1..2 ELSE 3..4
      BY <3>1 DEF SelCode
    <3>3. FreqCode(d, c.freq[p]) \in 1 .. 3
      BY <1>3, <3>1, OlderCodes
    <3>4. Wire(d, c, i) = [sel |-> SelCode(d, c.sel[p]), freq |-> FreqCode(d, c.freq[p]), buttons |-> c.buttons[p]]
      BY <1>3, <2>4, OlderWire
    <3>5. Wire(d, c, i) \in [sel : IF d = "Lachesis" THEN 1..2 ELSE 3..4, freq : 1 .. 3, buttons : Presets]
      BY <3>1, <3>2, <3>3, <3>4
    <3> QED
      BY <1>3, <2>4, <3>5, OlderWordIs
  <2> QED
    BY <1>3, <2>1, <2>2, <2>3, <2>4, OlderItems
<1>4. CASE d \in Synapse
  <2>1. CASE i = Global
    <3> DEFINE a == c.active
               s == (c.sel[a] % 10) + 1
    <3>1. a \in Profiles /\ a + 1 \in 1 .. NrProfiles
      BY <1>2, ProfilesAre
    <3>2. s \in 1 .. 2
      BY <1>4, <3>1, SelIsStage
    <3>3. c.freq[0] \in Nat
      BY <1>2, ProfilesAre
    <3>4. SynapseFreqCode(c.freq[0]) \in {1, 2, 8}
      BY <3>3, SynapseCodes
    <3>5. Wire(d, c, i) = [active |-> a + 1, freq |-> SynapseFreqCode(c.freq[0]), sel |-> s,
                           dpi |-> SynapseDpis(c, a)[s]]
      BY <1>4, <2>1, GlobalWire
    <3> HIDE DEF s, a
    <3>6. SynapseDpis(c, a)[s] \in SynapseDpiCodes
      BY <1>2, <3>1, <3>2, SynapseDpisAre
    <3>7. Wire(d, c, i) \in [active : 1 .. NrProfiles, freq : {1, 2, 8}, sel : 1..2, dpi : SynapseDpiCodes]
      BY <3>1, <3>2, <3>4, <3>5, <3>6
    <3> QED
      BY <2>1, <3>7, ItemsDiffer DEF IsWord
  <2>2. ASSUME NEW p \in Profiles, i = Name(p) PROVE IsWord(d, i, Wire(d, c, i))
    <3>1. Wire(d, c, i) \in Names
      BY <1>2, <1>4, <2>2, NameWire
    <3> QED
      BY <2>2, <3>1, ItemsDiffer DEF IsWord, Names
  <2>3. ASSUME NEW p \in Profiles, i = Profile(p) PROVE IsWord(d, i, Wire(d, c, i))
    <3> DEFINE s == (c.sel[p] % 10) + 1
               k == IF d = "Imperator" THEN "black" ELSE c.colour[p]
               w == SynapseDpis(c, p)
    <3>1. s \in 1 .. 2
      BY <1>4, SelIsStage
    <3>2. w \in [1 .. 2 -> SynapseDpiCodes] /\ DOMAIN w = 1 .. 2
      BY <1>2, SynapseDpisAre
    <3>3. k \in Colours /\ (d = "Imperator" => k = "black")
      BY <1>2 DEF Colours
    <3>4. c.led[p] \in BOOLEAN /\ c.buttons[p] \in Presets
      BY <1>2
    <3>5. Wire(d, c, i) = [sel |-> s, dpis |-> w, led |-> c.led[p], colour |-> k, buttons |-> c.buttons[p]]
      BY <1>4, <2>3, ProfileWire
    <3> HIDE DEF s, k, w
    <3>6. Wire(d, c, i) \in SynapseWords
      BY <3>1, <3>2, <3>3, <3>4, <3>5 DEF SynapseWords, Presets
    <3>7. Wire(d, c, i).colour = k
      BY <3>5
    <3> QED
      BY <1>4, <2>3, <3>3, <3>6, <3>7, ItemsDiffer DEF IsWord
  <2> QED
    BY <1>4, <2>1, <2>2, <2>3, SynapseItems
<1> QED
  BY <1>1, <1>3, <1>4

(* The global item repeats what is chosen of the profile in use. *)
LEMMA GlobalSays ==
  ASSUME NEW d \in Synapse, NEW c, IsCopy(d, c), NEW v, IsWord(d, Global, v), Tells(d, c, Global, v),
         Chosen(Wire(d, c, Profile(v.active - 1))) = <<v.sel, v.dpi>>
  PROVE  Wire(d, c, Global) = v
<1> DEFINE a == c.active
           s == (c.sel[a] % 10) + 1
           w == Wire(d, c, Profile(a))
<1>1. /\ v.active \in 1 .. NrProfiles
      /\ v = [active |-> v.active, freq |-> v.freq, sel |-> v.sel, dpi |-> v.dpi]
  BY ItemsDiffer DEF IsWord
<1>2. a = v.active - 1 /\ SynapseFreqCode(c.freq[0]) = v.freq
  BY SynapseTells
<1>3. a + 1 = v.active
  BY <1>1, <1>2, ProfilesAre
<1>4. w.sel = s /\ w.dpis = SynapseDpis(c, a)
  BY ProfileWire
<1>5. Chosen(w) = <<v.sel, v.dpi>>
  BY <1>2
<1>6. Wire(d, c, Global) = [active |-> a + 1, freq |-> SynapseFreqCode(c.freq[0]), sel |-> s,
                            dpi |-> SynapseDpis(c, a)[s]]
  BY GlobalWire
<1> HIDE DEF s, a, w
<1>7. w.sel = v.sel /\ w.dpis[w.sel] = v.dpi
  BY <1>5 DEF Chosen
<1>8. s = v.sel /\ SynapseDpis(c, a)[s] = v.dpi
  BY <1>4, <1>7
<1> QED
  BY <1>1, <1>2, <1>3, <1>6, <1>8

(* Conversely, the global item that is written agrees with the profile's.  *)
LEMMA MeaningChosen ==
  ASSUME NEW d \in Synapse, NEW p, NEW v, NEW w,
         Meaning(d, Profile(p), v) = Meaning(d, Profile(p), w)
  PROVE  Chosen(v) = Chosen(w)
<1>1. <<v.dpis[v.sel], v.sel, v.led, v.colour, v.buttons>> = <<w.dpis[w.sel], w.sel, w.led, w.colour, w.buttons>>
  BY SynapseMeaning
<1> QED
  BY <1>1 DEF Chosen

(* What a driver begins with. *)
LEMMA BlankFits ==
  ASSUME NEW d \in DriverNames
  PROVE  /\ IsCopy(d, Blank(d)) /\ Shape(d, Blank(d))
         /\ \A p \in Profiles : Blank(d).freq[p] \in {0, 125, 500, 1000}
         /\ d = "Copperhead" => \A p \in Profiles : Blank(d).freq[p] = 125
<1> DEFINE b == Blank(d)
<1>1. /\ IsRecord(b) /\ b.active = 0
      /\ b.freq = Everywhere(IF d = "Boomslang" THEN 1000 ELSE IF d = "Copperhead" THEN 125 ELSE 0)
      /\ b.sel = (IF d \in Synapse THEN [p \in Profiles |-> 10 * p] ELSE Everywhere(0))
      /\ b.res = Everywhere([m \in Stages |-> 0])
      /\ b.led = Everywhere(IF d = "Boomslang" THEN TRUE ELSE FALSE) /\ b.colour = Everywhere("black")
      /\ b.buttons = Everywhere(IF d = "Boomslang" THEN "default" ELSE "zeroed")
      /\ b.name = Everywhere("none")
  <2>1. CASE d = "Boomslang"
    <3> DEFINE z == Zeroed
    <3>1. /\ z.active = 0 /\ z.sel = Everywhere(0) /\ z.res = Everywhere([m \in Stages |-> 0])
          /\ z.colour = Everywhere("black") /\ z.name = Everywhere("none")
      BY DEF Zeroed
    <3>2. IsRecord(z)
      BY DEF Zeroed, IsRecord
    <3> DEFINE f == Everywhere(1000)
               l == Everywhere(TRUE)
               u == Everywhere("default")
    <3>3. b = [z EXCEPT !.freq = f, !.led = l, !.buttons = u]
      BY <2>1 DEF Blank, BoomslangBlank
    <3> HIDE DEF z, b, f, l, u
    <3>4. /\ IsRecord(b) /\ b.active = z.active /\ b.freq = f /\ b.sel = z.sel /\ b.res = z.res
          /\ b.led = l /\ b.colour = z.colour /\ b.buttons = u
          /\ b.name = z.name
      BY <3>2, <3>3 DEF IsRecord
    <3> QED
      BY <2>1, <3>1, <3>4 DEF Synapse, f, l, u
  <2>2. CASE d = "Copperhead"
    BY <2>2 DEF Blank, CopperheadBlank, Zeroed, IsRecord, Synapse
  <2>3. CASE d = "Lachesis"
    BY <2>3 DEF Blank, LachesisBlank, Zeroed, IsRecord, Synapse
  <2>4. CASE d \in Synapse
    BY <2>4 DEF Blank, SynapseBlank, Zeroed, IsRecord, Synapse
  <2> QED
    BY <2>1, <2>2, <2>3, <2>4 DEF DriverNames, Synapse
<1> HIDE DEF b
<1>2. /\ b.active \in Profiles /\ b.freq \in [Profiles -> Nat]
      /\ \A p \in Profiles : b.freq[p] \in {0, 125, 500, 1000} /\ b.freq[p] = b.freq[0]
  BY <1>1, ProfilesAre DEF Everywhere
<1>3. b.sel \in [Profiles -> Nat] /\ \A p \in Profiles : b.sel[p] \in Own(d, p)
  <2>1. CASE d \in Synapse
    <3>1. \A p \in Profiles : p \in Nat /\ 10 * p \in Nat
      BY ProfilesAre
    <3>2. b.sel = [p \in Profiles |-> 10 * p]
      BY <1>1, <2>1
    <3>3. \A p \in Profiles : b.sel[p] = 10 * p
      BY <3>2
    <3>4. b.sel \in [Profiles -> Nat]
      BY <3>1, <3>2
    <3> QED
      BY <2>1, <3>3, <3>4, OwnIs
  <2>2. CASE d \notin Synapse
    <3>1. b.sel = Everywhere(0)
      BY <1>1, <2>2
    <3>2. b.sel \in [Profiles -> Nat] /\ \A p \in Profiles : b.sel[p] = 0
      BY <3>1 DEF Everywhere
    <3> QED
      BY <2>2, <3>2, OwnIs
  <2> QED
    BY <2>1, <2>2
<1>4. b.res \in [Profiles -> [Stages -> Nat]] /\ \A p \in Profiles : b.res[p] = b.res[0]
  BY <1>1, ProfilesAre DEF Everywhere
<1>5. /\ b.led \in [Profiles -> BOOLEAN] /\ \A p \in Profiles : b.led[p] = b.led[0]
  BY <1>1, ProfilesAre DEF Everywhere
<1>6. /\ b.colour \in [Profiles -> Colours] /\ b.buttons \in [Profiles -> Presets] /\ b.name \in [Profiles -> Names]
  BY <1>1 DEF Everywhere, Colours, Presets, Names
<1>7. IsCopy(d, b)
  BY <1>1, <1>2, <1>3, <1>4, <1>5, <1>6, CopyIs
<1>8. Shape(d, b)
  <2>1. b.colour = Zeroed.colour /\ b.name = Zeroed.name /\ b.res = Zeroed.res
    BY <1>1 DEF Zeroed
  <2>2. ASSUME d = "Copperhead" PROVE b.led = Zeroed.led
    <3>1. b.led = Everywhere(FALSE)
      BY <1>1, <2>2
    <3> QED
      BY <3>1 DEF Zeroed
  <2> QED
    BY <1>2, <1>4, <1>5, <2>1, <2>2 DEF Shape
<1>9. d = "Copperhead" => \A p \in Profiles : b.freq[p] = 125
  BY <1>1 DEF Everywhere
<1> QED
  BY <1>2, <1>7, <1>8, <1>9 DEF b

-----------------------------------------------------------------------------
(* The setters.                                                            *)

(* The calls that commands and the configuration make of driver d. *)
IsCall(d, cb) ==
  \/ cb.op = "active" /\ cb.profile \in Profiles
  \/ cb.op = "freq" /\ cb.profile \in Profiles /\ cb.value \in Freqs
  \/ cb.op = "mapping" /\ cb.profile \in Profiles /\ cb.value \in MappingsOf(d)
  \/ cb.op = "buttons" /\ cb.profile \in Profiles /\ cb.value \in {"default", "swapped"}
  \/ cb.op = "led" /\ cb.value \in BOOLEAN /\ d # "Copperhead" /\ (d \in Synapse => cb.profile \in Profiles)
  \/ cb.op = "resolution" /\ cb.mapping \in MappingsOf(d) /\ cb.value \in Nat /\ d \in {"Lachesis"} \cup Synapse
  \/ cb.op = "colour" /\ cb.profile \in Profiles /\ cb.value \in Colours /\ d = "Lachesis5600"
  \/ cb.op = "name" /\ cb.profile \in Profiles /\ cb.value \in {"short", "long"} /\ d \in Synapse

(* The result r of a setter that was given copy c: what is not owed, would *)
(* be written as before.                                                   *)
Sound(d, c, r) ==
  /\ IsCopy(d, r.cache) /\ Shape(d, r.cache)
  /\ \A p \in Profiles : r.cache.freq[p] = c.freq[p] \/ r.cache.freq[p] \in Freqs
  /\ r.owed \subseteq Items(d)
  /\ \A i \in Items(d) \ r.owed : Wire(d, r.cache, i) = Wire(d, c, i)
  /\ d \in Synapse /\ Global \notin r.owed =>
       \A p \in Profiles : Chosen(Wire(d, r.cache, Profile(p))) = Chosen(Wire(d, c, Profile(p)))

LEMMA NothingSound ==
  ASSUME NEW d, NEW c, IsCopy(d, c), Shape(d, c), NEW r, r.cache = c, r.owed = {}
  PROVE  Sound(d, c, r)
  BY DEF Sound

(* A copy that has other values of the right kind. *)
Fitting(d, k) ==
  /\ IsRecord(k)
  /\ k.active \in Profiles /\ k.freq \in [Profiles -> Nat] /\ k.sel \in [Profiles -> Nat]
  /\ k.res \in [Profiles -> [Stages -> Nat]] /\ k.led \in [Profiles -> BOOLEAN]
  /\ k.colour \in [Profiles -> Colours] /\ k.buttons \in [Profiles -> Presets]
  /\ k.name \in [Profiles -> Names]
  /\ \A p \in Profiles : k.sel[p] \in Own(d, p)

LEMMA CopyFits ==
  ASSUME NEW d, NEW c
  PROVE  IsCopy(d, c) <=> Fitting(d, c)
  BY CopyIs DEF Fitting

LEMMA OlderSound ==
  ASSUME NEW d \in Older, NEW c, NEW r, NEW k, k = r.cache, Fitting(d, k), Shape(d, k),
         \A p \in Profiles : k.freq[p] = c.freq[p] \/ k.freq[p] \in Freqs,
         r.owed \subseteq Items(d),
         Active \notin r.owed => k.active = c.active,
         Lights \notin r.owed => k.led[0] = c.led[0],
         Mapped \notin r.owed => k.res[0] = c.res[0],
         \A p \in Profiles : Profile(p) \notin r.owed =>
            k.sel[p] = c.sel[p] /\ k.freq[p] = c.freq[p] /\ k.buttons[p] = c.buttons[p]
  PROVE  Sound(d, c, r)
<1>1. ASSUME NEW i \in Items(d) \ r.owed PROVE Wire(d, k, i) = Wire(d, c, i)
  <2>1. CASE i = Active
    BY <1>1, <2>1, ActiveWire
  <2>2. CASE i = Lights
    BY <1>1, <2>2, LightsWire
  <2>3. CASE i = Mapped /\ d = "Lachesis"
    <3>1. k.res[0] = c.res[0]
      BY <1>1, <2>3
    <3>2. /\ Wire(d, k, i) = [m \in Stages |-> LachesisDpi(k.res[0][m])]
          /\ Wire(d, c, i) = [m \in Stages |-> LachesisDpi(c.res[0][m])]
      BY <2>3, MappedWire
    <3> QED
      BY <3>1, <3>2
  <2>4. ASSUME NEW p \in Profiles, i = Profile(p) PROVE Wire(d, k, i) = Wire(d, c, i)
    BY <1>1, <2>4, OlderWireKept
  <2> QED
    BY <1>1, <2>1, <2>2, <2>3, <2>4, OlderItems
<1>2. IsCopy(d, k)
  BY CopyFits
<1> QED
  BY <1>1, <1>2, OlderItems DEF Sound

LEMMA SynapseSound ==
  ASSUME NEW d \in Synapse, NEW c, NEW r, NEW k, k = r.cache, Fitting(d, k), Shape(d, k),
         \A p \in Profiles : k.freq[p] = c.freq[p] \/ k.freq[p] \in Freqs,
         r.owed \subseteq Items(d),
         Global \notin r.owed => k.active = c.active /\ k.freq[0] = c.freq[0] /\ k.sel = c.sel /\ k.res = c.res,
         \A p \in Profiles : Name(p) \notin r.owed => k.name[p] = c.name[p],
         \A p \in Profiles : Profile(p) \notin r.owed =>
            /\ k.sel[p] = c.sel[p] /\ k.res[p] = c.res[p] /\ k.led[p] = c.led[p] /\ k.colour[p] = c.colour[p]
            /\ k.buttons[p] = c.buttons[p]
  PROVE  Sound(d, c, r)
<1>1. ASSUME NEW i \in Items(d) \ r.owed PROVE Wire(d, k, i) = Wire(d, c, i)
  <2>1. CASE i = Global
    <3>1. k.active = c.active /\ k.freq[0] = c.freq[0] /\ k.sel = c.sel /\ k.res = c.res
      BY <1>1, <2>1
    <3>2. SynapseDpis(k, k.active) = SynapseDpis(c, c.active)
      BY <3>1 DEF SynapseDpis
    <3>3. /\ Wire(d, k, Global) =
              [active |-> k.active + 1, freq |-> SynapseFreqCode(k.freq[0]), sel |-> (k.sel[k.active] % 10) + 1,
               dpi |-> SynapseDpis(k, k.active)[(k.sel[k.active] % 10) + 1]]
          /\ Wire(d, c, Global) =
              [active |-> c.active + 1, freq |-> SynapseFreqCode(c.freq[0]), sel |-> (c.sel[c.active] % 10) + 1,
               dpi |-> SynapseDpis(c, c.active)[(c.sel[c.active] % 10) + 1]]
      BY GlobalWire
    <3> QED
      BY <2>1, <3>1, <3>2, <3>3
  <2>2. ASSUME NEW p \in Profiles, i = Name(p) PROVE Wire(d, k, i) = Wire(d, c, i)
    BY <1>1, <2>2, NameWire
  <2>3. ASSUME NEW p \in Profiles, i = Profile(p) PROVE Wire(d, k, i) = Wire(d, c, i)
    BY <1>1, <2>3, ProfileWireKept
  <2> QED
    BY <1>1, <2>1, <2>2, <2>3, SynapseItems
<1>2. ASSUME Global \notin r.owed, NEW p \in Profiles
      PROVE  Chosen(Wire(d, k, Profile(p))) = Chosen(Wire(d, c, Profile(p)))
  <2> DEFINE v == Wire(d, k, Profile(p))
             w == Wire(d, c, Profile(p))
  <2>1. k.sel = c.sel /\ k.res = c.res
    BY <1>2
  <2>2. v.sel = (k.sel[p] % 10) + 1 /\ v.dpis = SynapseDpis(k, p)
    BY ProfileWire
  <2>3. w.sel = (c.sel[p] % 10) + 1 /\ w.dpis = SynapseDpis(c, p)
    BY ProfileWire
  <2>4. SynapseDpis(k, p) = SynapseDpis(c, p)
    BY <2>1 DEF SynapseDpis
  <2> HIDE DEF v, w
  <2>5. v.sel = w.sel /\ v.dpis = w.dpis
    BY <2>1, <2>2, <2>3, <2>4
  <2>6. Chosen(v) = Chosen(w)
    BY <2>5 DEF Chosen
  <2> QED
    BY <2>6 DEF v, w
<1>3. IsCopy(d, k)
  BY CopyFits
<1> QED
  BY <1>1, <1>2, <1>3 DEF Sound

LEMMA FreqsAre == Freqs \subseteq Nat /\ {125, 500, 1000} \subseteq Freqs
  BY DriversAssumption DEF Freqs

LEMMA OlderMappings ==
  ASSUME NEW d \in Older
  PROVE  MappingsOf(d) = {0, 1} /\ MappingsOf(d) \subseteq Nat
<1>1. \A p \in Profiles : Own(d, p) = {0, 1}
  BY OlderSame
<1>2. MappingsOf(d) = {0, 1}
  BY <1>1, ProfilesAre DEF MappingsOf
<1> QED
  BY <1>2

LEMMA OlderActive ==
  ASSUME NEW d \in Older, NEW c, IsCopy(d, c), Shape(d, c), NEW cb, cb.op = "active", cb.profile \in Profiles,
         NEW r, r = Setter(d, c, cb)
  PROVE  Sound(d, c, r)
<1> DEFINE k == r.cache
<1>1. r.cache = [c EXCEPT !.active = cb.profile] /\ r.owed = {Active}
  BY DEF Setter, BoomslangCall, CopperheadCall, LachesisCall, BoomslangSetting, CopperheadSetting, LachesisSetting,
         PlainSetting, Changed, Older
<1>2. Fitting(d, c)
  BY CopyFits
<1> HIDE DEF k
<1>3. /\ IsRecord(k) /\ k.active = cb.profile /\ k.freq = c.freq /\ k.sel = c.sel /\ k.res = c.res /\ k.led = c.led /\ k.colour = c.colour /\ k.buttons = c.buttons /\ k.name = c.name
  BY <1>1, <1>2 DEF k, Fitting, IsRecord
<1>4. Fitting(d, k)
  BY <1>2, <1>3 DEF Fitting
<1>5. Shape(d, k)
  BY <1>3 DEF Shape
<1>6. r.owed \subseteq Items(d)
  BY <1>1, OlderItems, ItemsAre DEF Older
<1> QED
  BY <1>1, <1>3, <1>4, <1>5, <1>6, OlderSound DEF k

LEMMA OlderFreq ==
  ASSUME NEW d \in Older, NEW c, IsCopy(d, c), Shape(d, c), NEW cb, cb.op = "freq", cb.profile \in Profiles, cb.value \in Freqs,
         NEW r, r = Setter(d, c, cb)
  PROVE  Sound(d, c, r)
<1> DEFINE k == r.cache
           p == cb.profile
           x == cb.value
<1>1. r.cache = [c EXCEPT !.freq[p] = x] /\ r.owed = {Profile(p)}
  BY DEF Setter, BoomslangCall, CopperheadCall, LachesisCall, BoomslangSetting, CopperheadSetting, LachesisSetting,
         PlainSetting, Changed, Older
<1>2. Fitting(d, c) /\ x \in Nat
  <2>1. Fitting(d, c)
    BY CopyFits
  <2>2. cb.value \in Nat
    <3>1. cb.value \in Freqs
      OBVIOUS
    <3>2. Freqs \subseteq Nat
      BY FreqsAre
    <3> HIDE DEF k, p, x
    <3> QED  BY <3>1, <3>2, Zenon
  <2> QED  BY <2>1, <2>2
<1> HIDE DEF k, p, x
<1>3. /\ IsRecord(k) /\ k.active = c.active /\ k.sel = c.sel /\ k.res = c.res /\ k.led = c.led /\ k.colour = c.colour /\ k.buttons = c.buttons /\ k.name = c.name
      /\ k.freq = [c.freq EXCEPT ![p] = x]
  BY <1>1, <1>2 DEF k, Fitting, IsRecord
<1>4. p \in Profiles
  BY DEF p
<1>5. k.freq \in [Profiles -> Nat] /\ \A q \in Profiles : k.freq[q] = IF q = p THEN x ELSE c.freq[q]
  BY <1>2, <1>3, <1>4 DEF Fitting
<1>6. Fitting(d, k)
  BY <1>2, <1>3, <1>5 DEF Fitting
<1>7. Shape(d, k)
  BY <1>3, OlderItems DEF Shape
<1>8. \A q \in Profiles : Profile(q) \notin r.owed => q # p
  BY <1>1
<1>9. \A q \in Profiles : k.freq[q] = c.freq[q] \/ k.freq[q] \in Freqs
  BY <1>5 DEF x
<1>10. r.owed \subseteq Items(d)
  BY <1>1, <1>4, OlderItems, ItemsAre DEF Older
<1> QED
  BY <1>1, <1>3, <1>5, <1>6, <1>7, <1>8, <1>9, <1>10, ItemsDiffer, OlderSound DEF k

LEMMA OlderMapping ==
  ASSUME NEW d \in Older, NEW c, IsCopy(d, c), Shape(d, c), NEW cb, cb.op = "mapping", cb.profile \in Profiles, cb.value \in MappingsOf(d),
         NEW r, r = Setter(d, c, cb)
  PROVE  Sound(d, c, r)
<1> DEFINE k == r.cache
           p == cb.profile
           x == cb.value
<1>1. r.cache = [c EXCEPT !.sel[p] = x] /\ r.owed = {Profile(p)}
  BY DEF Setter, BoomslangCall, CopperheadCall, LachesisCall, BoomslangSetting, CopperheadSetting, LachesisSetting,
         PlainSetting, Changed, Older
<1>2. Fitting(d, c) /\ x \in Nat
  BY CopyFits, OlderMappings
<1> HIDE DEF k, p, x
<1>3. /\ IsRecord(k) /\ k.active = c.active /\ k.freq = c.freq /\ k.res = c.res /\ k.led = c.led /\ k.colour = c.colour /\ k.buttons = c.buttons /\ k.name = c.name
      /\ k.sel = [c.sel EXCEPT ![p] = x]
  BY <1>1, <1>2 DEF k, Fitting, IsRecord
<1>4. p \in Profiles
  BY DEF p
<1>5. k.sel \in [Profiles -> Nat] /\ \A q \in Profiles : k.sel[q] = IF q = p THEN x ELSE c.sel[q]
  BY <1>2, <1>3, <1>4 DEF Fitting
<1>6. Fitting(d, k)
  BY <1>2, <1>3, <1>5, OlderMappings, OlderSame DEF Fitting, x
<1>7. Shape(d, k)
  BY <1>3, OlderItems DEF Shape
<1>8. \A q \in Profiles : Profile(q) \notin r.owed => q # p
  BY <1>1
<1>9. \A q \in Profiles : k.freq[q] = c.freq[q] \/ k.freq[q] \in Freqs
  BY <1>3
<1>10. r.owed \subseteq Items(d)
  BY <1>1, <1>4, OlderItems, ItemsAre DEF Older
<1> QED
  BY <1>1, <1>3, <1>5, <1>6, <1>7, <1>8, <1>9, <1>10, ItemsDiffer, OlderSound DEF k

LEMMA OlderButtons ==
  ASSUME NEW d \in Older, NEW c, IsCopy(d, c), Shape(d, c), NEW cb, cb.op = "buttons", cb.profile \in Profiles, cb.value \in {"default", "swapped"},
         NEW r, r = Setter(d, c, cb)
  PROVE  Sound(d, c, r)
<1> DEFINE k == r.cache
           p == cb.profile
           x == cb.value
<1>1. r.cache = [c EXCEPT !.buttons[p] = x] /\ r.owed = {Profile(p)}
  BY DEF Setter, BoomslangCall, CopperheadCall, LachesisCall, BoomslangSetting, CopperheadSetting, LachesisSetting,
         PlainSetting, Changed, Older
<1>2. Fitting(d, c) /\ x \in Presets
  BY CopyFits DEF Presets
<1> HIDE DEF k, p, x
<1>3. /\ IsRecord(k) /\ k.active = c.active /\ k.freq = c.freq /\ k.sel = c.sel /\ k.res = c.res /\ k.led = c.led /\ k.colour = c.colour /\ k.name = c.name
      /\ k.buttons = [c.buttons EXCEPT ![p] = x]
  BY <1>1, <1>2 DEF k, Fitting, IsRecord
<1>4. p \in Profiles
  BY DEF p
<1>5. k.buttons \in [Profiles -> Presets] /\ \A q \in Profiles : k.buttons[q] = IF q = p THEN x ELSE c.buttons[q]
  BY <1>2, <1>3, <1>4 DEF Fitting
<1>6. Fitting(d, k)
  BY <1>2, <1>3, <1>5 DEF Fitting
<1>7. Shape(d, k)
  BY <1>3, OlderItems DEF Shape
<1>8. \A q \in Profiles : Profile(q) \notin r.owed => q # p
  BY <1>1
<1>9. \A q \in Profiles : k.freq[q] = c.freq[q] \/ k.freq[q] \in Freqs
  BY <1>3
<1>10. r.owed \subseteq Items(d)
  BY <1>1, <1>4, OlderItems, ItemsAre DEF Older
<1> QED
  BY <1>1, <1>3, <1>5, <1>6, <1>7, <1>8, <1>9, <1>10, ItemsDiffer, OlderSound DEF k

LEMMA OlderLed ==
  ASSUME NEW d \in Older, NEW c, IsCopy(d, c), Shape(d, c), NEW cb, cb.op = "led", cb.value \in BOOLEAN, d # "Copperhead",
         NEW r, r = Setter(d, c, cb)
  PROVE  Sound(d, c, r)
<1> DEFINE k == r.cache
           x == Everywhere(cb.value)
<1>1. r.cache = [c EXCEPT !.led = x] /\ r.owed = {Lights}
  BY DEF Setter, BoomslangCall, CopperheadCall, LachesisCall, BoomslangLed, LachesisLed, LachesisModify,
         PlainLed, Changed, Older
<1>2. Fitting(d, c)
  BY CopyFits
<1>3. x \in [Profiles -> BOOLEAN] /\ \A q \in Profiles : x[q] = x[0]
  BY ProfilesAre DEF Everywhere
<1> HIDE DEF k, x
<1>4. /\ IsRecord(k) /\ k.led = x /\ k.active = c.active /\ k.freq = c.freq /\ k.sel = c.sel /\ k.res = c.res /\ k.colour = c.colour /\ k.buttons = c.buttons /\ k.name = c.name
  BY <1>1, <1>2 DEF k, Fitting, IsRecord
<1>5. Fitting(d, k)
  BY <1>2, <1>3, <1>4 DEF Fitting
<1>6. Shape(d, k)
  BY <1>3, <1>4, OlderItems DEF Shape
<1>7. \A q \in Profiles : k.freq[q] = c.freq[q] \/ k.freq[q] \in Freqs
  BY <1>3, <1>4
<1>8. r.owed \subseteq Items(d)
  BY <1>1, OlderItems, ItemsAre DEF Older
<1> QED
  BY <1>1, <1>4, <1>5, <1>6, <1>7, <1>8, ItemsDiffer, OlderSound DEF k

LEMMA SynapseActiveSound ==
  ASSUME NEW d \in Synapse, NEW c, IsCopy(d, c), Shape(d, c), NEW cb, cb.op = "active", cb.profile \in Profiles,
         NEW r, r = Setter(d, c, cb)
  PROVE  Sound(d, c, r)
<1> DEFINE k == r.cache
           x == cb.profile
<1>1. r.cache = [c EXCEPT !.active = x] /\ r.owed = {Global}
  BY DEF Setter, SynapseCall, SynapseActive, SynapseFreq, SynapseModify, SynapseLed, SynapseColour, SynapseButtons,
         SynapseName, Changed, Synapse
<1>2. Fitting(d, c)
  BY CopyFits
<1>3. x \in Profiles
  OBVIOUS
<1> HIDE DEF k, x
<1>4. /\ IsRecord(k) /\ k.active = x /\ k.freq = c.freq /\ k.sel = c.sel /\ k.res = c.res /\ k.led = c.led /\ k.colour = c.colour /\ k.buttons = c.buttons /\ k.name = c.name
  BY <1>1, <1>2 DEF k, Fitting, IsRecord
<1>5. Fitting(d, k)
  BY <1>2, <1>3, <1>4 DEF Fitting
<1>6. Shape(d, k)
  BY <1>4 DEF Shape
<1>7. \A q \in Profiles : k.freq[q] = c.freq[q] \/ k.freq[q] \in Freqs
  BY <1>3, <1>4
<1>8. r.owed \subseteq Items(d)
  BY <1>1, SynapseItems
<1> QED
  BY <1>1, <1>4, <1>5, <1>6, <1>7, <1>8, ItemsDiffer, SynapseSound DEF k

LEMMA SynapseFreqSound ==
  ASSUME NEW d \in Synapse, NEW c, IsCopy(d, c), Shape(d, c), NEW cb, cb.op = "freq", cb.value \in Freqs,
         NEW r, r = Setter(d, c, cb)
  PROVE  Sound(d, c, r)
<1> DEFINE k == r.cache
           x == Everywhere(cb.value)
<1>1. r.cache = [c EXCEPT !.freq = x] /\ r.owed = {Global}
  BY DEF Setter, SynapseCall, SynapseActive, SynapseFreq, SynapseModify, SynapseLed, SynapseColour, SynapseButtons,
         SynapseName, Changed, Synapse
<1>2. Fitting(d, c)
  BY CopyFits
<1>3. /\ x \in [Profiles -> Nat]
      /\ \A q \in Profiles : x[q] = x[0] /\ x[q] \in Freqs
  <2>1. cb.value \in Nat
    <3>1. cb.value \in Freqs
      OBVIOUS
    <3>2. Freqs \subseteq Nat
      BY FreqsAre
    <3> QED  BY <3>1, <3>2, Zenon
  <2>2. x \in [Profiles -> Nat] /\ \A q \in Profiles : x[q] = cb.value
    BY <2>1 DEF Everywhere
  <2> QED
    BY <2>2, ProfilesAre
<1> HIDE DEF k, x
<1>4. /\ IsRecord(k) /\ k.freq = x /\ k.active = c.active /\ k.sel = c.sel /\ k.res = c.res /\ k.led = c.led /\ k.colour = c.colour /\ k.buttons = c.buttons /\ k.name = c.name
  BY <1>1, <1>2 DEF k, Fitting, IsRecord
<1>5. Fitting(d, k)
  BY <1>2, <1>3, <1>4 DEF Fitting
<1>6. Shape(d, k)
  BY <1>3, <1>4, SynapseItems DEF Shape, Older
<1>7. \A q \in Profiles : k.freq[q] = c.freq[q] \/ k.freq[q] \in Freqs
  BY <1>3, <1>4
<1>8. r.owed \subseteq Items(d)
  BY <1>1, SynapseItems
<1> QED
  BY <1>1, <1>4, <1>5, <1>6, <1>7, <1>8, ItemsDiffer, SynapseSound DEF k

LEMMA SynapseLedSound ==
  ASSUME NEW d \in Synapse, NEW c, IsCopy(d, c), Shape(d, c), NEW cb, cb.op = "led", cb.profile \in Profiles, cb.value \in BOOLEAN,
         NEW r, r = Setter(d, c, cb)
  PROVE  Sound(d, c, r)
<1> DEFINE k == r.cache
           p == cb.profile
           x == cb.value
<1>1. r.cache = [c EXCEPT !.led[p] = x] /\ r.owed = {Profile(p)}
  BY DEF Setter, SynapseCall, SynapseActive, SynapseFreq, SynapseModify, SynapseLed, SynapseColour, SynapseButtons,
         SynapseName, Changed, Synapse
<1>2. Fitting(d, c)
  BY CopyFits
<1>3. x \in BOOLEAN
  OBVIOUS
<1>4. p \in Profiles
  OBVIOUS
<1> HIDE DEF k, p, x
<1>5. /\ IsRecord(k) /\ k.active = c.active /\ k.freq = c.freq /\ k.sel = c.sel /\ k.res = c.res /\ k.colour = c.colour /\ k.buttons = c.buttons /\ k.name = c.name
      /\ k.led = [c.led EXCEPT ![p] = x]
  BY <1>1, <1>2 DEF k, Fitting, IsRecord
<1>6. /\ k.led \in [Profiles -> BOOLEAN] /\ \A q \in Profiles : k.led[q] = IF q = p THEN x ELSE c.led[q]
  BY <1>2, <1>3, <1>4, <1>5 DEF Fitting
<1>7. Fitting(d, k)
  BY <1>2, <1>5, <1>6 DEF Fitting
<1>8. Shape(d, k)
  BY <1>5, SynapseItems DEF Shape, Older
<1>9. \A q \in Profiles : Profile(q) \notin r.owed => q # p
  BY <1>1
<1>10. \A q \in Profiles : k.freq[q] = c.freq[q] \/ k.freq[q] \in Freqs
  BY <1>5
<1>11. r.owed \subseteq Items(d)
  BY <1>1, <1>4, SynapseItems
<1> QED
  BY <1>1, <1>5, <1>6, <1>7, <1>8, <1>9, <1>10, <1>11, ItemsDiffer, SynapseSound DEF k

LEMMA SynapseColourSound ==
  ASSUME NEW d \in Synapse, NEW c, IsCopy(d, c), Shape(d, c), NEW cb, cb.op = "colour", cb.profile \in Profiles, cb.value \in Colours, d = "Lachesis5600",
         NEW r, r = Setter(d, c, cb)
  PROVE  Sound(d, c, r)
<1> DEFINE k == r.cache
           p == cb.profile
           x == cb.value
<1>1. r.cache = [c EXCEPT !.colour[p] = x] /\ r.owed = {Profile(p)}
  BY DEF Setter, SynapseCall, SynapseActive, SynapseFreq, SynapseModify, SynapseLed, SynapseColour, SynapseButtons,
         SynapseName, Changed, Synapse
<1>2. Fitting(d, c)
  BY CopyFits
<1>3. x \in Colours
  OBVIOUS
<1>4. p \in Profiles
  OBVIOUS
<1> HIDE DEF k, p, x
<1>5. /\ IsRecord(k) /\ k.active = c.active /\ k.freq = c.freq /\ k.sel = c.sel /\ k.res = c.res /\ k.led = c.led /\ k.buttons = c.buttons /\ k.name = c.name
      /\ k.colour = [c.colour EXCEPT ![p] = x]
  BY <1>1, <1>2 DEF k, Fitting, IsRecord
<1>6. /\ k.colour \in [Profiles -> Colours] /\ \A q \in Profiles : k.colour[q] = IF q = p THEN x ELSE c.colour[q]
  BY <1>2, <1>3, <1>4, <1>5 DEF Fitting
<1>7. Fitting(d, k)
  BY <1>2, <1>5, <1>6 DEF Fitting
<1>8. Shape(d, k)
  BY <1>5, SynapseItems DEF Shape, Older
<1>9. \A q \in Profiles : Profile(q) \notin r.owed => q # p
  BY <1>1
<1>10. \A q \in Profiles : k.freq[q] = c.freq[q] \/ k.freq[q] \in Freqs
  BY <1>5
<1>11. r.owed \subseteq Items(d)
  BY <1>1, <1>4, SynapseItems
<1> QED
  BY <1>1, <1>5, <1>6, <1>7, <1>8, <1>9, <1>10, <1>11, ItemsDiffer, SynapseSound DEF k

LEMMA SynapseButtonsSound ==
  ASSUME NEW d \in Synapse, NEW c, IsCopy(d, c), Shape(d, c), NEW cb, cb.op = "buttons", cb.profile \in Profiles, cb.value \in {"default", "swapped"},
         NEW r, r = Setter(d, c, cb)
  PROVE  Sound(d, c, r)
<1> DEFINE k == r.cache
           p == cb.profile
           x == cb.value
<1>1. r.cache = [c EXCEPT !.buttons[p] = x] /\ r.owed = {Profile(p)}
  BY DEF Setter, SynapseCall, SynapseActive, SynapseFreq, SynapseModify, SynapseLed, SynapseColour, SynapseButtons,
         SynapseName, Changed, Synapse
<1>2. Fitting(d, c)
  BY CopyFits
<1>3. x \in Presets
  BY DEF Presets
<1>4. p \in Profiles
  OBVIOUS
<1> HIDE DEF k, p, x
<1>5. /\ IsRecord(k) /\ k.active = c.active /\ k.freq = c.freq /\ k.sel = c.sel /\ k.res = c.res /\ k.led = c.led /\ k.colour = c.colour /\ k.name = c.name
      /\ k.buttons = [c.buttons EXCEPT ![p] = x]
  BY <1>1, <1>2 DEF k, Fitting, IsRecord
<1>6. /\ k.buttons \in [Profiles -> Presets] /\ \A q \in Profiles : k.buttons[q] = IF q = p THEN x ELSE c.buttons[q]
  BY <1>2, <1>3, <1>4, <1>5 DEF Fitting
<1>7. Fitting(d, k)
  BY <1>2, <1>5, <1>6 DEF Fitting
<1>8. Shape(d, k)
  BY <1>5, SynapseItems DEF Shape, Older
<1>9. \A q \in Profiles : Profile(q) \notin r.owed => q # p
  BY <1>1
<1>10. \A q \in Profiles : k.freq[q] = c.freq[q] \/ k.freq[q] \in Freqs
  BY <1>5
<1>11. r.owed \subseteq Items(d)
  BY <1>1, <1>4, SynapseItems
<1> QED
  BY <1>1, <1>5, <1>6, <1>7, <1>8, <1>9, <1>10, <1>11, ItemsDiffer, SynapseSound DEF k

LEMMA SynapseNameSound ==
  ASSUME NEW d \in Synapse, NEW c, IsCopy(d, c), Shape(d, c), NEW cb, cb.op = "name", cb.profile \in Profiles, cb.value \in {"short", "long"},
         NEW r, r = Setter(d, c, cb)
  PROVE  Sound(d, c, r)
<1> DEFINE k == r.cache
           p == cb.profile
           x == IF cb.value = "long" THEN "cut" ELSE cb.value
<1>1. r.cache = [c EXCEPT !.name[p] = x] /\ r.owed = {Name(p)}
  <2>1. r = SynapseName(c, cb)
    BY DEF Setter, SynapseCall, Synapse
  <2>2. r = [Changed([c EXCEPT !.name[p] = x], {Name(p)}) EXCEPT !.err = (cb.value = "long")]
    BY <2>1 DEF SynapseName
  <2> DEFINE y == [c EXCEPT !.name[p] = x]
             z == {Name(p)}
             e == (cb.value = "long")
  <2>3. r = [Changed(y, z) EXCEPT !.err = e]
    BY <2>2
  <2> HIDE DEF y, z, e, p, x
  <2>4. r.cache = y /\ r.owed = z
    BY <2>3 DEF Changed
  <2> QED
    BY <2>4 DEF y, z
<1>2. Fitting(d, c)
  BY CopyFits
<1>3. x \in Names
  BY DEF Names
<1>4. p \in Profiles
  OBVIOUS
<1> HIDE DEF k, p, x
<1>5. /\ IsRecord(k) /\ k.active = c.active /\ k.freq = c.freq /\ k.sel = c.sel /\ k.res = c.res /\ k.led = c.led /\ k.colour = c.colour /\ k.buttons = c.buttons
      /\ k.name = [c.name EXCEPT ![p] = x]
  BY <1>1, <1>2 DEF k, Fitting, IsRecord
<1>6. /\ k.name \in [Profiles -> Names] /\ \A q \in Profiles : k.name[q] = IF q = p THEN x ELSE c.name[q]
  BY <1>2, <1>3, <1>4, <1>5 DEF Fitting
<1>7. Fitting(d, k)
  BY <1>2, <1>5, <1>6 DEF Fitting
<1>8. Shape(d, k)
  BY <1>5, SynapseItems DEF Shape, Older
<1>9. \A q \in Profiles : Name(q) \notin r.owed => q # p
  BY <1>1
<1>10. \A q \in Profiles : k.freq[q] = c.freq[q] \/ k.freq[q] \in Freqs
  BY <1>5
<1>11. r.owed \subseteq Items(d)
  BY <1>1, <1>4, SynapseItems
<1> QED
  BY <1>1, <1>5, <1>6, <1>7, <1>8, <1>9, <1>10, <1>11, ItemsDiffer, SynapseSound DEF k

LEMMA MappingsAre ==
  ASSUME NEW d \in Synapse, NEW m \in MappingsOf(d)
  PROVE  /\ m \in Nat /\ m \div 10 \in Profiles /\ m % 10 \in Stages
         /\ \A p \in Profiles : m \div 10 = p => m \in Own(d, p)
<1>1. PICK p \in Profiles : m \in Own(d, p)
  BY DEF MappingsOf
<1>2. p \in Nat /\ Own(d, p) = {10 * p, 10 * p + 1}
  BY OwnIs, ProfilesAre
<1>3. m \in Nat /\ m \div 10 = p /\ m % 10 \in {0, 1}
  BY <1>1, <1>2
<1> QED
  BY <1>1, <1>3, StagesAre

LEMMA SynapseMappingSound ==
  ASSUME NEW d \in Synapse, NEW c, IsCopy(d, c), Shape(d, c), NEW cb, cb.op = "mapping", cb.profile \in Profiles,
         cb.value \in MappingsOf(d), NEW r, r = Setter(d, c, cb)
  PROVE  Sound(d, c, r)
<1>1. r = SynapseMapping(c, cb)
  BY DEF Setter, SynapseCall, Synapse
<1>2. CASE cb.value \div 10 # cb.profile
  <2>1. r.cache = c /\ r.owed = {}
    BY <1>1, <1>2 DEF SynapseMapping, Refused
  <2> QED
    BY <2>1, NothingSound
<1>3. CASE cb.value \div 10 = cb.profile
  <2> DEFINE k == r.cache
             p == cb.profile
             x == cb.value
  <2>1. r.cache = [c EXCEPT !.sel[p] = x] /\ r.owed = {Profile(p), Global}
    BY <1>1, <1>3 DEF SynapseMapping, Changed
  <2>2. Fitting(d, c)
    BY CopyFits
  <2>3. x \in Nat /\ x \in Own(d, p)
    BY <1>3, MappingsAre
  <2>4. p \in Profiles
    OBVIOUS
  <2> HIDE DEF k, p, x
  <2>5. /\ IsRecord(k) /\ k.active = c.active /\ k.freq = c.freq /\ k.res = c.res /\ k.led = c.led /\ k.colour = c.colour /\ k.buttons = c.buttons /\ k.name = c.name
        /\ k.sel = [c.sel EXCEPT ![p] = x]
    BY <2>1, <2>2 DEF k, Fitting, IsRecord
  <2>6. /\ k.sel \in [Profiles -> Nat] /\ \A q \in Profiles : k.sel[q] = IF q = p THEN x ELSE c.sel[q]
    BY <2>2, <2>3, <2>4, <2>5 DEF Fitting
  <2>7. Fitting(d, k)
    BY <2>2, <2>3, <2>5, <2>6 DEF Fitting
  <2>8. Shape(d, k)
    BY <2>5, SynapseItems DEF Shape, Older
  <2>9. \A q \in Profiles : Profile(q) \notin r.owed => q # p
    BY <2>1
  <2>10. \A q \in Profiles : k.freq[q] = c.freq[q] \/ k.freq[q] \in Freqs
    BY <2>5
  <2>11. r.owed \subseteq Items(d)
    BY <2>1, <2>4, SynapseItems
  <2> QED
    BY <2>1, <2>5, <2>6, <2>7, <2>8, <2>9, <2>10, <2>11, ItemsDiffer, SynapseSound DEF k
<1> QED
  BY <1>2, <1>3

LEMMA SynapseResolutionSound ==
  ASSUME NEW d \in Synapse, NEW c, IsCopy(d, c), Shape(d, c), NEW cb, cb.op = "resolution", cb.mapping \in MappingsOf(d), cb.value \in Nat,
         NEW r, r = Setter(d, c, cb)
  PROVE  Sound(d, c, r)
<1> DEFINE k == r.cache
           p == cb.mapping \div 10
           x == [c.res[p] EXCEPT ![cb.mapping % 10] = cb.value]
<1>1. r.cache = [c EXCEPT !.res[p] = x] /\ r.owed = {Profile(p), Global}
  <2>1. r = SynapseModify(c, cb)
    BY DEF Setter, SynapseCall, Synapse
  <2>2. r.cache = [c EXCEPT !.res[p][cb.mapping % 10] = cb.value] /\ r.owed = {Profile(p), Global}
    BY <2>1 DEF SynapseModify, Changed
  <2> QED
    BY <2>2
<1>2. Fitting(d, c)
  BY CopyFits
<1>3. x \in [Stages -> Nat]
  BY <1>2, MappingsAre DEF Fitting
<1>4. p \in Profiles
  BY MappingsAre
<1> HIDE DEF k, p, x
<1>5. /\ IsRecord(k) /\ k.active = c.active /\ k.freq = c.freq /\ k.sel = c.sel /\ k.led = c.led /\ k.colour = c.colour /\ k.buttons = c.buttons /\ k.name = c.name
      /\ k.res = [c.res EXCEPT ![p] = x]
  BY <1>1, <1>2 DEF k, Fitting, IsRecord
<1>6. /\ k.res \in [Profiles -> [Stages -> Nat]] /\ \A q \in Profiles : k.res[q] = IF q = p THEN x ELSE c.res[q]
  BY <1>2, <1>3, <1>4, <1>5 DEF Fitting
<1>7. Fitting(d, k)
  BY <1>2, <1>5, <1>6 DEF Fitting
<1>8. Shape(d, k)
  BY <1>5, SynapseItems DEF Shape, Older
<1>9. \A q \in Profiles : Profile(q) \notin r.owed => q # p
  BY <1>1
<1>10. \A q \in Profiles : k.freq[q] = c.freq[q] \/ k.freq[q] \in Freqs
  BY <1>5
<1>11. r.owed \subseteq Items(d)
  BY <1>1, <1>4, SynapseItems
<1> QED
  BY <1>1, <1>5, <1>6, <1>7, <1>8, <1>9, <1>10, <1>11, ItemsDiffer, SynapseSound DEF k

LEMMA LachesisResolutionSound ==
  ASSUME NEW d, d = "Lachesis", NEW c, IsCopy(d, c), Shape(d, c), NEW cb, cb.op = "resolution", cb.mapping \in MappingsOf(d),
         cb.value \in Nat, NEW r, r = Setter(d, c, cb)
  PROVE  Sound(d, c, r)
<1> DEFINE k == r.cache
           y == [c.res[0] EXCEPT ![cb.mapping] = cb.value]
           x == Everywhere(y)
<1>0. d \in Older
  BY DEF Older
<1>1. r.cache = [c EXCEPT !.res = x] /\ r.owed = {Mapped}
  <2>1. r = LachesisModify(c, cb)
    BY DEF Setter, LachesisCall
  <2>2. r.cache = [c EXCEPT !.res = Everywhere([@[0] EXCEPT ![cb.mapping] = cb.value])] /\ r.owed = {Mapped}
    BY <2>1 DEF LachesisModify, Changed
  <2> QED
    BY <2>2
<1>2. Fitting(d, c)
  BY CopyFits
<1>3. x \in [Profiles -> [Stages -> Nat]] /\ \A q \in Profiles : x[q] = x[0]
  <2>1. c.res[0] \in [Stages -> Nat]
    BY <1>2, ProfilesAre DEF Fitting
  <2>2. y \in [Stages -> Nat]
    BY <2>1
  <2> QED
    BY <2>2, ProfilesAre DEF Everywhere
<1> HIDE DEF k, x, y
<1>4. /\ IsRecord(k) /\ k.res = x /\ k.active = c.active /\ k.freq = c.freq /\ k.sel = c.sel /\ k.led = c.led /\ k.colour = c.colour /\ k.buttons = c.buttons /\ k.name = c.name
  BY <1>1, <1>2 DEF k, Fitting, IsRecord
<1>5. Fitting(d, k)
  BY <1>2, <1>3, <1>4 DEF Fitting
<1>6. Shape(d, k)
  BY <1>3, <1>4 DEF Shape
<1>7. \A q \in Profiles : k.freq[q] = c.freq[q] \/ k.freq[q] \in Freqs
  BY <1>4
<1>8. r.owed \subseteq Items(d)
  BY <1>0, <1>1, OlderItems, ItemsAre
<1> QED
  BY <1>0, <1>1, <1>4, <1>5, <1>6, <1>7, <1>8, ItemsDiffer, OlderSound DEF k

(* Every call of a setter. *)
LEMMA SetterSound ==
  ASSUME NEW d \in DriverNames, NEW c, IsCopy(d, c), Shape(d, c), NEW cb, IsCall(d, cb)
  PROVE  Sound(d, c, Setter(d, c, cb))
<1>1. d \in Older \/ d \in Synapse
  BY DEF DriverNames, Older, Synapse
<1>2. d \in Older => d \notin Synapse
  BY OlderItems
<1>3. CASE cb.op = "active" /\ cb.profile \in Profiles
  BY <1>1, <1>3, OlderActive, SynapseActiveSound
<1>4. CASE cb.op = "freq" /\ cb.profile \in Profiles /\ cb.value \in Freqs
  BY <1>1, <1>4, OlderFreq, SynapseFreqSound
<1>5. CASE cb.op = "mapping" /\ cb.profile \in Profiles /\ cb.value \in MappingsOf(d)
  BY <1>1, <1>5, OlderMapping, SynapseMappingSound
<1>6. CASE cb.op = "buttons" /\ cb.profile \in Profiles /\ cb.value \in {"default", "swapped"}
  BY <1>1, <1>6, OlderButtons, SynapseButtonsSound
<1>7. CASE cb.op = "led" /\ cb.value \in BOOLEAN /\ d # "Copperhead" /\ (d \in Synapse => cb.profile \in Profiles)
  BY <1>1, <1>7, OlderLed, SynapseLedSound
<1>8. CASE /\ cb.op = "resolution" /\ cb.mapping \in MappingsOf(d) /\ cb.value \in Nat
           /\ d \in {"Lachesis"} \cup Synapse
  BY <1>8, LachesisResolutionSound, SynapseResolutionSound
<1>9. CASE cb.op = "colour" /\ cb.profile \in Profiles /\ cb.value \in Colours /\ d = "Lachesis5600"
  BY <1>9, SynapseColourSound DEF Synapse
<1>10. CASE cb.op = "name" /\ cb.profile \in Profiles /\ cb.value \in {"short", "long"} /\ d \in Synapse
  BY <1>10, SynapseNameSound
<1> QED
  BY <1>3, <1>4, <1>5, <1>6, <1>7, <1>8, <1>9, <1>10 DEF IsCall

-----------------------------------------------------------------------------
(* The items of the configuration.                                         *)

LEMMA LeastIs ==
  ASSUME NEW T, T \subseteq Nat, T # {}
  PROVE  \E x \in T : \A y \in T : x <= y
<1> DEFINE R == {s \in Nat \X Nat : s[1] < s[2]}
<1>1. IsWellFoundedOn(OpToRel(<, Nat), Nat)
  BY NatLessThanWellFounded
<1>2. OpToRel(<, Nat) = R
  BY Zenon DEF OpToRel
<1>3. IsWellFoundedOn(R, Nat)
  BY <1>1, <1>2, Zenon
<1>0. \A y, x \in Nat : y < x => <<y, x>> \in R
  OBVIOUS
<1> HIDE DEF R
<1>4. PICK x \in T : \A y \in T : ~ (<<y, x>> \in R)
  BY <1>3, WFMin
<1>5. ASSUME NEW y \in T PROVE x <= y
  <2>1. x \in Nat /\ y \in Nat
    OBVIOUS
  <2>2. ~ (y < x)
    BY <1>0, <1>4, <2>1
  <2> QED
    BY <2>1, <2>2
<1> QED
  BY <1>5

LEMMA MappingsAreNumbers ==
  ASSUME NEW d \in DriverNames
  PROVE  MappingsOf(d) \subseteq Nat
<1>1. d \in Older \/ d \in Synapse
  BY DEF DriverNames, Older, Synapse
<1> QED
  BY <1>1, OlderMappings, MappingsAre

LEMMA DoneSound ==
  ASSUME NEW d, NEW c, NEW r, Sound(d, c, r)
  PROVE  Sound(d, c, Done(r))
<1>1. Done(r).cache = r.cache /\ Done(r).owed = r.owed
  BY DEF Done
<1> QED
  BY <1>1 DEF Sound

LEMMA UndoneSound ==
  ASSUME NEW d, NEW c, IsCopy(d, c), Shape(d, c)
  PROVE  Sound(d, c, Wrong(c)) /\ Sound(d, c, Ignored(c))
<1>1. Wrong(c).cache = c /\ Wrong(c).owed = {} /\ Ignored(c).cache = c /\ Ignored(c).owed = {}
  BY DEF Wrong, Ignored
<1> QED
  BY <1>1, NothingSound

LEMMA ItemSound ==
  ASSUME NEW d \in DriverNames, NEW c, IsCopy(d, c), Shape(d, c), NEW it
  PROVE  Sound(d, c, ApplyItem(d, c, it))
<1>1. Sound(d, c, Wrong(c)) /\ Sound(d, c, Ignored(c))
  BY UndoneSound
<1>2. \A cb : IsCall(d, cb) => Sound(d, c, Done(Setter(d, c, cb)))
  BY SetterSound, DoneSound
<1>3. NrProfiles \in Nat /\ \A k \in 1 .. NrProfiles : k - 1 \in Profiles
  BY ProfilesAre
<1>4. Sound(d, c, ProfileItem(d, c, it))
  <2> DEFINE cb == [op |-> "active", profile |-> it.value - 1]
  <2>1. it.value \in 1 .. NrProfiles => IsCall(d, cb)
    BY <1>3 DEF IsCall
  <2> QED
    BY <1>1, <1>2, <2>1 DEF ProfileItem
<1>5. Sound(d, c, ResItem(d, c, it))
  <2> DEFINE p     == Meant(c, it)
             named == {m \in MappingsOf(d) :
                         IF it.value >= 100 THEN ResOf(d, c, m) = it.value ELSE m = it.value}
             found == CHOOSE m \in named : \A other \in named : m <= other
             cb    == [op |-> "mapping", profile |-> p, value |-> found]
  <2>1. named \subseteq MappingsOf(d) /\ MappingsOf(d) \subseteq Nat
    BY MappingsAreNumbers
  <2>2. ResItem(d, c, it) = IF p \notin Profiles \/ it.value < 1 THEN Wrong(c)
                            ELSE IF named = {} THEN Ignored(c) ELSE Done(Setter(d, c, cb))
    BY DEF ResItem
  <2> HIDE DEF named
  <2>3. ASSUME named # {} PROVE found \in MappingsOf(d)
    <3>1. \E m \in named : \A other \in named : m <= other
      BY <2>1, <2>3, LeastIs
    <3> QED
      BY <2>1, <3>1
  <2> HIDE DEF p, found
  <2>4. p \in Profiles /\ named # {} => IsCall(d, cb)
    BY <2>3 DEF IsCall
  <2> QED
    BY <1>1, <1>2, <2>2, <2>4
<1>6. Sound(d, c, FreqItem(d, c, it))
  <2> DEFINE cb == [op |-> "freq", profile |-> Meant(c, it), value |-> it.value]
  <2>1. Meant(c, it) \in Profiles /\ it.value \in {125, 500, 1000} => IsCall(d, cb)
    BY FreqsAre DEF IsCall
  <2> QED
    BY <1>1, <1>2, <2>1 DEF FreqItem
<1>7. HasLeds(d, it) /\ it.profile \in 0 .. NrProfiles =>
        d # "Copperhead" /\ (d \in Synapse => it.profile - 1 \in Profiles)
  <2>1. it.profile \in 0 .. NrProfiles /\ it.profile # 0 => it.profile \in 1 .. NrProfiles
    BY <1>3
  <2> QED
    BY <1>3, <2>1 DEF HasLeds, Synapse
<1>8. Sound(d, c, LedItem(d, c, it))
  <2> DEFINE cb == [op |-> "led", profile |-> it.profile - 1, value |-> it.value]
  <2>1. it.profile \in 0 .. NrProfiles /\ it.value \in BOOLEAN /\ HasLeds(d, it) => IsCall(d, cb)
    BY <1>7 DEF IsCall
  <2> QED
    BY <1>1, <1>2, <2>1 DEF LedItem
<1>9. Sound(d, c, ColourItem(d, c, it))
  <2> DEFINE cb == [op |-> "colour", profile |-> it.profile - 1, value |-> it.value]
  <2>1. it.profile \in 0 .. NrProfiles /\ it.value \in Colours /\ HasLeds(d, it) /\ d = "Lachesis5600" => IsCall(d, cb)
    BY <1>7 DEF IsCall, Synapse
  <2> QED
    BY <1>1, <1>2, <2>1 DEF ColourItem
<1>10. Sound(d, c, ModeItem(d, c, it))
  BY <1>1 DEF ModeItem
<1> QED
  BY <1>1, <1>4, <1>5, <1>6, <1>8, <1>9, <1>10 DEF ApplyItem

-----------------------------------------------------------------------------
(* Where razerd is, and how it goes on.                                    *)

LEMMA ReadsAreNotWrites ==
  ASSUME NEW d, NEW s, IsReads(d, s)
  PROVE  ~IsWrites(d, s)
<1>1. s \in Seq(ReadOps(d)) /\ s # <<>> /\ s[Len(s)] \in {Read(i) : i \in Readable(d)}
  BY DEF IsReads
<1>2. ASSUME s \in Seq(WriteOps(d)) PROVE FALSE
  <2> DEFINE W == WriteOps(d)
  <2>1. s \in Seq(W) /\ s # <<>>
    BY <1>1, <1>2
  <2> HIDE DEF W
  <2>2. s[Len(s)] \in W
    BY <2>1
  <2> QED
    BY <1>1, <2>2, OpsDiffer DEF W, WriteOps
<1> QED
  BY <1>2 DEF IsWrites

LEMMA Known ==
  ASSUME TypeOK
  PROVE  /\ driver \in DriverNames
         /\ Readable(driver) \subseteq Items(driver)
  BY DriversNamed DEF TypeOK, Readable

LEMMA ProfileOf ==
  ASSUME NEW d \in DriverNames, NEW i \in Items(d), i[1] = "profile"
  PROVE  i[2] \in Profiles /\ i = Profile(i[2])
<1>1. d \in {"Boomslang", "Copperhead", "Lachesis"} \/ d \in Synapse
  BY DEF DriverNames, Synapse
<1>2. \/ i \in {Active, Lights, Mapped, Global}
      \/ \E p \in Profiles : i = Profile(p) \/ i = Name(p)
  BY <1>1, ItemsAre
<1> QED
  BY <1>2, ItemsDiffer

LEMMA ProfileWords ==
  ASSUME NEW d, NEW p, NEW q, NEW v, IsWord(d, Profile(q), v)
  PROVE  IsWord(d, Profile(p), v)
<1>1. Profile(p)[1] = "profile" /\ Profile(q)[1] = "profile"
  BY ItemsDiffer
<1> QED
  BY <1>1 DEF IsWord

(* Exchanges other than writes are of a probe. *)
LEMMA AtReads ==
  ASSUME TypeOK, Whereabouts, NEW op \in {"read", "query", "turn"}, Doing(op)
  PROVE  /\ call.kind = "probe" /\ IsReading /\ ~listed /\ ~held
         /\ Head(call.ops) \in ReadOps(driver) /\ Head(call.ops) \in Left
<1>1. call.kind \notin {"configure", "none"} /\ call.ops # <<>> /\ Head(call.ops)[1] = op
  BY DEF Doing, Whereabouts
<1>2. IsReading \/ IsWriting
  BY <1>1 DEF Whereabouts, TypeOK
<1>3. ASSUME IsWriting PROVE FALSE
  <2>1. Head(call.ops) \in WriteOps(driver)
    BY <1>1, <1>3, WritesGoOn DEF IsWriting
  <2> QED
    BY <1>1, <2>1, OpsDiffer DEF WriteOps
<1>4. IsReading /\ call.kind = "probe"
  BY <1>2, <1>3 DEF IsReading
<1>5. Head(call.ops) \in ReadOps(driver) /\ Head(call.ops) \in OpsOf(call.ops)
  BY <1>4, ReadsGoOn DEF IsReading
<1> QED
  BY <1>4, <1>5 DEF Whereabouts, Left

LEMMA AtRead ==
  ASSUME TypeOK, Whereabouts, Doing("read"), NEW i, i = Head(call.ops)[2]
  PROVE  i \in Readable(driver) /\ Head(call.ops) = Read(i) /\ Read(i) \in Left
<1>1. Head(call.ops) \in ReadOps(driver) /\ Head(call.ops) \in Left /\ Head(call.ops)[1] = "read"
  BY AtReads DEF Doing
<1>2. PICK j \in Readable(driver) : Head(call.ops) = Read(j)
  BY <1>1, OpsDiffer DEF ReadOps
<1> QED
  BY <1>1, <1>2, OpsDiffer

LEMMA AtPass ==
  ASSUME TypeOK, Whereabouts, Doing("query") \/ Doing("turn")
  PROVE  /\ \A i : Head(call.ops) # Read(i) /\ Head(call.ops) # Write(i)
         /\ Doing("turn") => /\ driver = "Lachesis" /\ Head(call.ops)[2] \in Profiles
                             /\ Head(call.ops) = Turn(Head(call.ops)[2])
<1>1. Head(call.ops) \in ReadOps(driver) /\ Head(call.ops)[1] \in {"query", "turn"}
  BY AtReads DEF Doing
<1>2. \/ Head(call.ops) = Query
      \/ driver = "Lachesis" /\ \E p \in Profiles : Head(call.ops) = Turn(p)
  BY <1>1, OpsDiffer DEF ReadOps
<1>3. Doing("turn") => Head(call.ops)[1] = "turn"
  BY DEF Doing
<1> QED
  BY <1>2, <1>3, OpsDiffer

(* A write is of a commit, or puts the Lachesis back to its profile. *)
LEMMA AtWrite ==
  ASSUME TypeOK, Whereabouts, Doing("write"), NEW i, i = Head(call.ops)[2]
  PROVE  /\ i \in Items(driver) /\ Head(call.ops) = Write(i) /\ Write(i) \in Left
         /\ call.kind \in {"probe", "release", "reconfig"} /\ call.ops # <<>>
         /\ IsWriting \/ (IsReading /\ driver = "Lachesis" /\ i = Active)
<1>1. call.kind \notin {"configure", "none"} /\ call.ops # <<>> /\ Head(call.ops)[1] = "write"
  BY DEF Doing, Whereabouts
<1>2. IsReading \/ IsWriting
  BY <1>1 DEF Whereabouts, TypeOK
<1>3. CASE IsWriting
  <2>1. Head(call.ops) \in WriteOps(driver) /\ Head(call.ops) \in Left
    BY <1>1, <1>3, WritesGoOn DEF IsWriting, Left
  <2> QED
    BY <1>1, <1>3, <2>1, OpsDiffer DEF WriteOps, TypeOK
<1>4. CASE IsReading
  <2>1. Head(call.ops) \in ReadOps(driver) /\ Head(call.ops) \in Left
    BY <1>4, ReadsGoOn DEF IsReading, Left
  <2>2. driver = "Lachesis" /\ Head(call.ops) = Write(Active)
    BY <1>1, <2>1, OpsDiffer DEF ReadOps
  <2>3. Active \in Items(driver)
    BY <2>2, ItemsAre DEF DriverNames
  <2> QED
    BY <1>1, <1>4, <2>1, <2>2, <2>3, OpsDiffer DEF TypeOK
<1> QED
  BY <1>2, <1>3, <1>4

(* One exchange less. *)
LEMMA OneLessIs ==
  ASSUME TypeOK, call' = OneLess
  PROVE  call'.kind = call.kind /\ call'.ops = Tail(call.ops) /\ DOMAIN call' = {"kind", "ops"}
  BY DEF TypeOK, OneLess

LEMMA ReadsLess ==
  ASSUME TypeOK, IsReading, call' = OneLess, driver' = driver,
         \A i : Head(call.ops) # Read(i)
  PROVE  /\ IsReading' /\ Left = {Head(call.ops)} \cup Left'
         /\ call'.kind = "probe" /\ DOMAIN call' = {"kind", "ops"}
<1>1. call'.kind = call.kind /\ call'.ops = Tail(call.ops) /\ DOMAIN call' = {"kind", "ops"}
  BY OneLessIs
<1>2. IsReads(driver, call.ops) /\ call.kind = "probe"
  BY DEF IsReading
<1>3. Len(call.ops) # 1
  BY <1>2, ReadsGoOn
<1>4. IsReads(driver, Tail(call.ops)) /\ OpsOf(call.ops) = {Head(call.ops)} \cup OpsOf(Tail(call.ops))
  BY <1>2, <1>3, ReadsGoOn
<1> QED
  BY <1>1, <1>2, <1>4 DEF IsReading, Left

LEMMA WritesLess ==
  ASSUME TypeOK, IsWriting, call.ops # <<>>, call' = OneLess, driver' = driver
  PROVE  /\ IsWriting' /\ ~IsReading' /\ ~IsReading /\ Left = {Head(call.ops)} \cup Left'
         /\ call'.kind = call.kind /\ DOMAIN call' = {"kind", "ops"}
<1>1. call'.kind = call.kind /\ call'.ops = Tail(call.ops) /\ DOMAIN call' = {"kind", "ops"}
  BY OneLessIs
<1>2. IsWrites(driver, call.ops)
  BY DEF IsWriting
<1>3. IsWrites(driver, Tail(call.ops)) /\ OpsOf(call.ops) = {Head(call.ops)} \cup OpsOf(Tail(call.ops))
  BY <1>2, WritesGoOn
<1>4. ~IsReads(driver, call.ops) /\ ~IsReads(driver, Tail(call.ops))
  BY <1>2, <1>3, ReadsAreNotWrites
<1> QED
  BY <1>1, <1>3, <1>4 DEF IsWriting, IsReading, Left

(* After a read come other exchanges, or the commit. *)
LEMMA ReadOn ==
  ASSUME TypeOK, IsReading, NEW i, Head(call.ops) = Read(i), call' = AfterRead, driver' = driver
  PROVE  /\ call'.kind = "probe" /\ DOMAIN call' = {"kind", "ops"}
         /\ IsReading' \/ IsWriting'
         /\ \A j : Read(j) \in Left /\ j # i => Read(j) \in Left'
         /\ IsReading' => Left' \subseteq Left
         /\ Turned => Turned'
<1>1. IsReads(driver, call.ops) /\ call.kind = "probe"
  BY DEF IsReading
<1>2. CASE Len(call.ops) = 1
  <2>1. call' = [call EXCEPT !.ops = CommitOf(driver)]
    BY <1>2 DEF AfterRead
  <2>2. call'.kind = call.kind /\ call'.ops = CommitOf(driver) /\ DOMAIN call' = {"kind", "ops"}
    BY <2>1 DEF TypeOK
  <2>3. IsWrites(driver, CommitOf(driver))
    BY Known, CommitFits
  <2>4. ~IsReads(driver, CommitOf(driver))
    BY <2>3, ReadsAreNotWrites
  <2>5. Left = {Read(i)}
    BY <1>1, <1>2, ReadsGoOn DEF Left
  <2> QED
    BY <1>1, <2>2, <2>3, <2>4, <2>5, OpsDiffer DEF IsReading, IsWriting, Turned
<1>3. CASE Len(call.ops) # 1
  <2>1. call' = OneLess
    BY <1>3 DEF AfterRead
  <2>2. call'.kind = call.kind /\ call'.ops = Tail(call.ops) /\ DOMAIN call' = {"kind", "ops"}
    BY <2>1, OneLessIs
  <2>3. IsReads(driver, Tail(call.ops)) /\ OpsOf(call.ops) = {Read(i)} \cup OpsOf(Tail(call.ops))
    BY <1>1, <1>3, ReadsGoOn
  <2>4. IsReading' /\ Left = {Read(i)} \cup Left'
    BY <1>1, <2>2, <2>3 DEF IsReading, Left
  <2> QED
    BY <1>1, <2>2, <2>4, OpsDiffer DEF Turned
<1> QED
  BY <1>2, <1>3

-----------------------------------------------------------------------------
(* The steps of a probe.                                                   *)

(* All of the invariant but what a memory keeps. *)
Sane ==
  /\ TypeOK /\ Whereabouts /\ FreqsRead /\ Shape(driver, cache) /\ MemoryAgrees /\ Untold /\ Owing

LEMMA ReadingDoubts ==
  ASSUME Untold, IsReading, NEW i \in Items(driver)
  PROVE  doubt[i] \notin {"owed", "swallowed"}
  BY DEF Untold

LEMMA TakenIn ==
  ASSUME Sane, Doing("read"), NEW i, i = Head(call.ops)[2], NEW v, IsWord(driver, i, v),
         cache' = Took(driver, cache, i, v), call' = AfterRead,
         misread' \in BOOLEAN, faults' \in 0 .. MaxFaults,
         UNCHANGED <<setting, listed, mem, doubt, pending, held, first, touched, fresh>>
  PROVE  Sane' /\ TookFits(driver, cache, i, v, cache')
<1>1. /\ driver' = driver /\ topic' = topic /\ listed' = listed /\ mem' = mem /\ doubt' = doubt
      /\ pending' = pending /\ held' = held /\ first' = first /\ touched' = touched /\ fresh' = fresh
  BY DEF setting
<1>2. TypeOK /\ Whereabouts /\ FreqsRead /\ Shape(driver, cache) /\ MemoryAgrees /\ Untold /\ Owing
  BY DEF Sane
<1>3. driver \in DriverNames /\ i \in Readable(driver) /\ i \in Items(driver) /\ IsCopy(driver, cache)
      /\ Head(call.ops) = Read(i) /\ Read(i) \in Left
  BY <1>2, Known, AtRead DEF TypeOK
<1>4. call.kind = "probe" /\ IsReading /\ ~listed /\ ~held
  BY <1>2, AtReads
<1>5. TookFits(driver, cache, i, v, cache')
  BY <1>2, <1>3, Takes
<1>6. /\ call'.kind = "probe" /\ DOMAIN call' = {"kind", "ops"}
      /\ IsReading' \/ IsWriting'
      /\ \A j : Read(j) \in Left /\ j # i => Read(j) \in Left'
      /\ IsReading' => Left' \subseteq Left
  BY <1>1, <1>2, <1>3, <1>4, ReadOn
<1>7. /\ IsCopy(driver, cache') /\ Shape(driver, cache')
      /\ \A p \in Profiles : cache'.freq[p] = cache.freq[p] \/ cache'.freq[p] \in {125, 500, 1000}
      /\ \A p \in Profiles : i = FreqItemOf(driver, p) => cache'.freq[p] \in {125, 500, 1000}
  BY <1>5 DEF TookFits
<1>8. \A p \in Profiles : cache'.freq[p] \in Freqs \cup {0}
  BY <1>2, <1>4, <1>7, FreqsAre DEF TypeOK
<1>9. TypeOK'
  BY <1>1, <1>2, <1>4, <1>6, <1>7, <1>8 DEF TypeOK
<1>10. Whereabouts'
  BY <1>1, <1>4, <1>6 DEF Whereabouts
<1>11. FreqsRead'
  <2>1. ASSUME NEW p \in Profiles
        PROVE  cache'.freq[p] \in Freqs \/ (driver # "Copperhead" /\ Read(FreqItemOf(driver, p)) \in Left')
    <3>1. cache.freq[p] \in Freqs \/ (driver # "Copperhead" /\ Read(FreqItemOf(driver, p)) \in Left)
      BY <1>2, <1>4 DEF FreqsRead
    <3> QED
      BY <3>1, <1>6, <1>7, FreqsAre
  <2> QED
    BY <2>1, <1>1 DEF FreqsRead
<1>12. Shape(driver, cache)'
  BY <1>1, <1>7
<1>13. MemoryAgrees'
  <2>1. ASSUME NEW j \in Items(driver), doubt[j] = "none" PROVE mem[j] = Wire(driver, cache', j)
    <3>1. driver = "Lachesis" /\ j = Active /\ Left \subseteq {Read(Lights), Read(Mapped)}
      BY <1>2, <1>4, <2>1 DEF Untold
    <3>2. i # Active
      BY <1>3, <3>1, OpsDiffer, ItemsDiffer
    <3>3. Same(driver, cache', cache, Active)
      BY <1>5, <2>1, <3>1, <3>2 DEF TookFits
    <3>4. Wire(driver, cache', Active) = Wire(driver, cache, Active)
      BY <3>1, <3>3, OlderSame DEF Older
    <3>5. mem[j] = Wire(driver, cache, j)
      BY <1>2, <2>1 DEF MemoryAgrees
    <3> QED
      BY <3>1, <3>4, <3>5
  <2>2. \A j \in Items(driver) : doubt[j] \notin {"owed", "swallowed"}
    BY <1>2, <1>4, ReadingDoubts
  <2> QED
    BY <1>1, <2>1, <2>2 DEF MemoryAgrees
<1>14. Untold'
  BY <1>1, <1>2, <1>4, <1>6 DEF Untold
<1>15. Owing'
  BY <1>1, <1>2, <1>4, ReadingDoubts DEF Owing
<1> QED
  BY <1>5, <1>9, <1>10, <1>11, <1>12, <1>13, <1>14, <1>15 DEF Sane

LEMMA SaneIs ==
  IInv <=> Sane /\ Keeping
  BY DEF IInv, Sane

(* A copy that would write an item as another does, tells the same of it. *)
LEMMA SameTells ==
  ASSUME NEW d \in DriverNames, NEW r, NEW c, NEW j, NEW v, Same(d, r, c, j)
  PROVE  Tells(d, c, j, v) => Tells(d, r, j, v)
  BY DEF Same, Tells

LEMMA ReadItemKeeps ==
  ASSUME IInv, ReadItem
  PROVE  IInv'
<1> DEFINE i == Head(call.ops)[2]
<1>0. Sane /\ Keeping /\ TypeOK /\ Whereabouts /\ Untold
  BY SaneIs DEF Sane
<1>1. /\ Doing("read") /\ cache' = Took(driver, cache, i, mem[i]) /\ call' = AfterRead
      /\ UNCHANGED <<setting, listed, mem, doubt, pending, held, first, touched, misread, fresh, faults>>
  BY DEF ReadItem, ghosts
<1> HIDE DEF i
<1>2. /\ driver \in DriverNames /\ i \in Readable(driver) /\ i \in Items(driver)
      /\ Head(call.ops) = Read(i) /\ Read(i) \in Left
      /\ call.kind = "probe" /\ IsReading /\ ~listed
  BY <1>0, <1>1, Known, AtRead, AtReads DEF i
<1>3. IsWord(driver, i, mem[i]) /\ misread' \in BOOLEAN /\ faults' \in 0 .. MaxFaults
  BY <1>0, <1>1, <1>2 DEF TypeOK
<1>4. Sane' /\ TookFits(driver, cache, i, mem[i], cache')
  BY <1>0, <1>1, <1>3, TakenIn DEF i
<1>5. /\ driver' = driver /\ listed' = listed /\ mem' = mem /\ first' = first /\ touched' = touched
      /\ misread' = misread /\ faults' = faults
  BY <1>1 DEF setting
<1>6. /\ call'.kind = "probe"
      /\ \A j : Read(j) \in Left /\ j # i => Read(j) \in Left'
      /\ Turned => Turned'
  BY <1>0, <1>1, <1>2, <1>5, ReadOn
<1>7. Tells(driver, cache', i, mem[i]) /\ \A j \in Items(driver) \ {i} : Same(driver, cache', cache, j)
  BY <1>4 DEF TookFits
<1>8. FirstFits'
  BY <1>0, <1>5 DEF Keeping, FirstFits
<1>9. ASSUME ~misread PROVE KeptInMemory' /\ KeptInCopy' /\ ChosenKept'
  <2>1. KeptInMemory /\ KeptInCopy /\ ChosenKept
    BY <1>0, <1>9 DEF Keeping
  <2>2. KeptInMemory'
    BY <1>5, <1>6, <2>1 DEF KeptInMemory, Excused
  <2>3. ASSUME NEW j \in Items(driver) \ touched, HasCopy(j)' PROVE Tells(driver, cache', j, first[j]) \/ Excused(j)
    <3>1. CASE j = i
      <4>1. \/ Meaning(driver, i, mem[i]) = Meaning(driver, i, first[i])
            \/ Excused(i)
        BY <1>2, <2>1, <2>3, <3>1 DEF KeptInMemory, Turned
      <4>2. CASE i = Global /\ driver \in Synapse
        <5>1. Meaning(driver, i, mem[i]) = mem[i] /\ Meaning(driver, i, first[i]) = first[i]
          BY <4>2, ItemsDiffer DEF Meaning
        <5> QED
          BY <3>1, <4>1, <5>1, <1>7
      <4>3. CASE ~(i = Global /\ driver \in Synapse)
        BY <3>1, <4>1, <4>3, <1>7 DEF Tells
      <4> QED
        BY <4>2, <4>3
    <3>2. CASE j # i
      <4>1. HasCopy(j)
        BY <1>2, <1>5, <1>6, <2>3, <3>2 DEF HasCopy
      <4>2. Tells(driver, cache, j, first[j]) \/ Excused(j)
        BY <2>1, <2>3, <4>1 DEF KeptInCopy
      <4> QED
        BY <4>2, <1>2, <1>7, <2>3, <3>2, SameTells
    <3> QED
      BY <3>1, <3>2
  <2>4. KeptInCopy'
    BY <1>5, <2>3 DEF KeptInCopy, Excused
  <2>5. ASSUME driver \in Synapse, Global \notin touched, NEW p \in Profiles, HasCopy(Profile(p))'
        PROVE  Chosen(Wire(driver, cache', Profile(p))) = Chosen(first[Profile(p)])
    <3>1. Chosen(mem[Profile(p)]) = Chosen(first[Profile(p)])
      BY <2>1, <2>5 DEF ChosenKept
    <3>2. CASE Profile(p) = i
      <4>1. Meaning(driver, Profile(p), Wire(driver, cache', Profile(p))) = Meaning(driver, Profile(p), mem[i])
        BY <1>7, <3>2, ItemsDiffer DEF Tells
      <4>2. Chosen(Wire(driver, cache', Profile(p))) = Chosen(mem[i])
        BY <2>5, <4>1, MeaningChosen
      <4> QED
        BY <3>1, <3>2, <4>2
    <3>3. CASE Profile(p) # i
      <4>1. Profile(p) \in Items(driver)
        BY <2>5, SynapseItems
      <4>2. HasCopy(Profile(p))
        BY <1>2, <1>5, <1>6, <2>5, <3>3 DEF HasCopy
      <4>3. Chosen(Wire(driver, cache, Profile(p))) = Chosen(first[Profile(p)])
        BY <2>1, <2>5, <4>2 DEF ChosenKept
      <4>4. Wire(driver, cache', Profile(p)) = Wire(driver, cache, Profile(p))
        BY <1>7, <3>3, <4>1, ItemsDiffer DEF Same
      <4> QED
        BY <4>3, <4>4
    <3> QED
      BY <3>2, <3>3
  <2>6. ChosenKept'
    BY <1>5, <2>1, <2>5 DEF ChosenKept
  <2> QED
    BY <2>2, <2>4, <2>6
<1>10. Keeping'
  BY <1>5, <1>8, <1>9 DEF Keeping
<1> QED
  BY <1>4, <1>10 DEF IInv, Sane

(* What a step that changes neither copy nor memory leaves of it. *)
LEMMA KeepsOn ==
  ASSUME TypeOK, Keeping, UNCHANGED <<driver, cache, mem, first, touched, misread>>,
         faults > 0 => faults' > 0,
         \A j \in Items(driver) : HasCopy(j)' => HasCopy(j),
         Turned => Turned' \/ faults' > 0
  PROVE  Keeping'
<1>1. FirstFits'
  BY DEF Keeping, FirstFits
<1>2. ASSUME ~misread PROVE KeptInMemory' /\ KeptInCopy' /\ ChosenKept'
  <2>1. KeptInMemory /\ KeptInCopy /\ ChosenKept
    BY <1>2 DEF Keeping
  <2>2. KeptInMemory'
    BY <2>1 DEF KeptInMemory, Excused
  <2>3. KeptInCopy'
    BY <2>1 DEF KeptInCopy, Excused
  <2>4. ASSUME driver \in Synapse, NEW p \in Profiles PROVE Profile(p) \in Items(driver)
    BY <2>4, SynapseItems
  <2>5. ChosenKept'
    BY <2>1, <2>4 DEF ChosenKept
  <2> QED
    BY <2>2, <2>3, <2>5
<1> QED
  BY <1>1, <1>2 DEF Keeping

LEMMA MisledKeeps ==
  ASSUME Keeping, UNCHANGED <<driver, first>>, misread' = TRUE
  PROVE  Keeping'
  BY DEF Keeping, FirstFits

(* The end of a call by an error. *)
LEMMA Aborted ==
  ASSUME Sane, call.kind \in {"probe", "release", "reconfig"}, Abort(doubt),
         UNCHANGED <<setting, listed, cache, pending, held, first, touched, misread, fresh>>,
         faults' \in 0 .. MaxFaults, DOMAIN mem' = Items(driver),
         \A j \in Items(driver) : IsWord(driver, j, mem'[j]),
         \A j \in Items(driver) : doubt[j] = "none" => mem'[j] = Wire(driver, cache, j)
  PROVE  Sane' /\ \A j \in Items(driver) : HasCopy(j)' => HasCopy(j)
<1>1. TypeOK /\ Whereabouts /\ FreqsRead /\ Shape(driver, cache) /\ MemoryAgrees /\ Untold /\ Owing
  BY DEF Sane
<1>2. call'.kind = "none" /\ call'.ops = <<>> /\ DOMAIN call' = {"kind", "ops"}
  BY DEF Abort, NoCall
<1>3. doubt' = [i \in Items(driver) |-> IF doubt[i] = "owed" THEN "swallowed" ELSE doubt[i]]
  BY DEF Abort
<1>4. /\ doubt' \in [Items(driver) -> {"none", "owed", "swallowed", "ignored", "turned", "unsent"}]
      /\ \A j \in Items(driver) : /\ doubt'[j] # "owed"
                                  /\ doubt'[j] = "none" => doubt[j] = "none"
                                  /\ doubt'[j] = "swallowed" => doubt[j] \in {"owed", "swallowed"}
  BY <1>1, <1>3 DEF TypeOK
<1>5. /\ driver' = driver /\ topic' = topic /\ listed' = listed /\ cache' = cache
      /\ pending' = pending /\ held' = held /\ first' = first /\ touched' = touched /\ misread' = misread
      /\ fresh' = fresh
  BY DEF setting
<1>6. TypeOK'
  BY <1>1, <1>2, <1>4, <1>5 DEF TypeOK
<1>7. Whereabouts'
  BY <1>1, <1>2, <1>5 DEF Whereabouts
<1>8. FreqsRead' /\ Untold' /\ ~IsWriting'
  BY <1>2 DEF FreqsRead, Untold, IsReading, IsWriting
<1>9. Shape(driver, cache)'
  BY <1>1, <1>5
<1>10. MemoryAgrees'
  BY <1>1, <1>4, <1>5 DEF MemoryAgrees
<1>11. Owing'
  BY <1>1, <1>4, <1>5, <1>8 DEF Owing
<1>12. \A j \in Items(driver) : HasCopy(j)' => HasCopy(j)
  BY <1>2, <1>5 DEF HasCopy
<1> QED
  BY <1>6, <1>7, <1>8, <1>9, <1>10, <1>11, <1>12 DEF Sane

LEMMA Faulted ==
  ASSUME TypeOK, Fault
  PROVE  faults' \in 0 .. MaxFaults /\ faults' > 0
  BY DriversAssumption DEF TypeOK, Fault

(* The same with nothing written. *)
LEMMA AbortedKeeps ==
  ASSUME IInv, call.kind \in {"probe", "release", "reconfig"}, Abort(doubt), Fault,
         UNCHANGED <<setting, listed, cache, mem, pending, held, first, touched, misread, fresh>>
  PROVE  IInv'
<1>1. Sane /\ Keeping /\ TypeOK
  BY SaneIs DEF Sane
<1>2. faults' \in 0 .. MaxFaults /\ faults' > 0
  BY <1>1, Faulted
<1>3. /\ DOMAIN mem = Items(driver)
      /\ \A j \in Items(driver) : IsWord(driver, j, mem[j])
      /\ \A j \in Items(driver) : doubt[j] = "none" => mem[j] = Wire(driver, cache, j)
  BY <1>1 DEF Sane, TypeOK, MemoryAgrees
<1>4. Sane' /\ \A j \in Items(driver) : HasCopy(j)' => HasCopy(j)
  BY <1>1, <1>2, <1>3, Aborted
<1>5. Keeping'
  BY <1>1, <1>2, <1>4, KeepsOn DEF setting
<1> QED
  BY <1>4, <1>5 DEF IInv, Sane

LEMMA FailedExchangeKeeps ==
  ASSUME IInv, FailedExchange
  PROVE  IInv'
<1>1. TypeOK /\ Whereabouts
  BY DEF IInv
<1>2. call.kind = "probe"
  BY <1>1, AtReads DEF FailedExchange
<1> QED
  BY <1>2, AbortedKeeps DEF FailedExchange, ghosts

LEMMA MisreadKeeps ==
  ASSUME IInv, Misread
  PROVE  IInv'
<1> DEFINE i == Head(call.ops)[2]
<1>1. Sane /\ Keeping /\ TypeOK /\ Whereabouts
  BY SaneIs DEF Sane
<1>2. /\ Doing("read") /\ i[1] = "profile" /\ Fault
      /\ UNCHANGED <<setting, listed, mem, pending, held, first, touched, fresh>>
  BY DEF Misread
<1>3. PICK q \in Profiles \ {i[2]} :
        IF driver = "Boomslang" THEN Abort(doubt) /\ UNCHANGED <<cache, misread>>
        ELSE /\ cache' = Took(driver, cache, i, mem[Profile(q)])
             /\ misread' = TRUE
             /\ call' = AfterRead
             /\ UNCHANGED doubt
  BY DEF Misread
<1> HIDE DEF i
<1>4. /\ driver \in DriverNames /\ i \in Readable(driver) /\ i \in Items(driver) /\ call.kind = "probe"
  BY <1>1, <1>2, Known, AtRead, AtReads DEF i
<1>5. CASE driver = "Boomslang"
  BY <1>2, <1>3, <1>4, <1>5, AbortedKeeps
<1>6. CASE driver # "Boomslang"
  <2>1. Profile(q) \in Items(driver)
    BY <1>4, ItemsAre DEF DriverNames, Synapse
  <2>2. i = Profile(i[2])
    BY <1>2, <1>4, ProfileOf
  <2>3. IsWord(driver, i, mem[Profile(q)])
    BY <1>1, <2>1, <2>2, ProfileWords DEF TypeOK
  <2>4. misread' \in BOOLEAN /\ faults' \in 0 .. MaxFaults
    BY <1>1, <1>2, <1>3, <1>6, Faulted
  <2>5. Sane'
    BY <1>1, <1>2, <1>3, <1>6, <2>3, <2>4, TakenIn DEF i
  <2>6. Keeping'
    BY <1>1, <1>2, <1>3, <1>6, MisledKeeps DEF setting
  <2> QED
    BY <2>5, <2>6 DEF IInv, Sane
<1> QED
  BY <1>5, <1>6

LEMMA UnreadableKeeps ==
  ASSUME IInv, Unreadable
  PROVE  IInv'
<1> DEFINE i == Head(call.ops)[2]
<1>1. TypeOK /\ Whereabouts /\ FreqsRead /\ Shape(driver, cache) /\ MemoryAgrees /\ Untold /\ Owing /\ Keeping
  BY DEF IInv
<1>2. /\ Doing("read") /\ driver = "Copperhead" /\ Fault /\ misread' = TRUE /\ call' = AfterRead
      /\ driver' = driver /\ topic' = topic /\ listed' = listed /\ cache' = cache /\ mem' = mem
      /\ doubt' = doubt /\ pending' = pending /\ held' = held /\ first' = first /\ touched' = touched
      /\ fresh' = fresh
  BY DEF Unreadable, setting
<1> HIDE DEF i
<1>3. Head(call.ops) = Read(i) /\ call.kind = "probe" /\ IsReading /\ ~listed /\ ~held
  BY <1>1, <1>2, AtRead, AtReads DEF i
<1>4. faults' \in 0 .. MaxFaults
  BY <1>1, <1>2, Faulted
<1>5. /\ call'.kind = "probe" /\ DOMAIN call' = {"kind", "ops"}
      /\ IsReading' \/ IsWriting'
      /\ IsReading' => Left' \subseteq Left
  BY <1>1, <1>2, <1>3, ReadOn
<1>6. TypeOK'
  BY <1>1, <1>2, <1>4, <1>5 DEF TypeOK
<1>7. Whereabouts'
  BY <1>2, <1>3, <1>5 DEF Whereabouts
<1>8. FreqsRead'
  BY <1>1, <1>2, <1>3 DEF FreqsRead
<1>9. MemoryAgrees'
  BY <1>1, <1>2, <1>3, <1>5, ReadingDoubts DEF MemoryAgrees
<1>10. Untold'
  BY <1>1, <1>2, <1>3, <1>5 DEF Untold
<1>11. Owing'
  BY <1>1, <1>2, <1>3, ReadingDoubts DEF Owing
<1>12. Keeping'
  BY <1>1, <1>2, MisledKeeps
<1> QED
  BY <1>1, <1>2, <1>6, <1>7, <1>8, <1>9, <1>10, <1>11, <1>12 DEF IInv

LEMMA PassKeeps ==
  ASSUME IInv, Pass
  PROVE  IInv'
<1>1. TypeOK /\ Whereabouts /\ FreqsRead /\ Shape(driver, cache) /\ MemoryAgrees /\ Untold /\ Owing /\ Keeping
  BY DEF IInv
<1>2. /\ Doing("query") \/ Doing("turn")
      /\ mem' = IF Doing("turn") THEN [mem EXCEPT ![Active] = Head(call.ops)[2] + 1] ELSE mem
      /\ call' = OneLess
      /\ driver' = driver /\ topic' = topic /\ listed' = listed /\ cache' = cache
      /\ doubt' = doubt /\ pending' = pending /\ held' = held /\ first' = first /\ touched' = touched
      /\ misread' = misread /\ fresh' = fresh /\ faults' = faults
  BY DEF Pass, setting, ghosts
<1> DEFINE p == Head(call.ops)[2]
<1>3. /\ call.kind = "probe" /\ IsReading /\ ~listed /\ ~held /\ Head(call.ops) \in Left
      /\ \A i : Head(call.ops) # Read(i) /\ Head(call.ops) # Write(i)
      /\ Doing("turn") => driver = "Lachesis" /\ p \in Profiles /\ Head(call.ops) = Turn(p)
  BY <1>1, <1>2, AtReads, AtPass
<1>4. /\ IsReading' /\ Left = {Head(call.ops)} \cup Left'
      /\ call'.kind = "probe" /\ DOMAIN call' = {"kind", "ops"}
  BY <1>1, <1>2, <1>3, ReadsLess
<1> HIDE DEF p
<1>5. /\ DOMAIN mem' = Items(driver)
      /\ \A j \in Items(driver) : j # Active \/ ~Doing("turn") => mem'[j] = mem[j]
      /\ Doing("turn") => Active \in Items(driver) /\ mem'[Active] = p + 1 /\ p + 1 \in 1 .. NrProfiles
  <2>1. DOMAIN mem = Items(driver)
    BY <1>1 DEF TypeOK
  <2>2. CASE Doing("turn")
    <3>1. Active \in Items(driver)
      BY <1>3, <2>2, ItemsAre DEF DriverNames
    <3>2. p + 1 \in 1 .. NrProfiles
      BY <1>3, <2>2, ProfilesAre
    <3>3. mem' = [mem EXCEPT ![Active] = p + 1]
      BY <1>2, <2>2 DEF p
    <3> QED
      BY <2>1, <2>2, <3>1, <3>2, <3>3
  <2>3. CASE ~Doing("turn")
    BY <1>2, <2>1, <2>3
  <2> QED
    BY <2>2, <2>3
<1>6. \A j \in Items(driver) : IsWord(driver, j, mem'[j])
  <2>1. Doing("turn") => IsWord(driver, Active, mem'[Active])
    BY <1>5, ItemsDiffer DEF IsWord
  <2>2. \A j \in Items(driver) : IsWord(driver, j, mem[j])
    BY <1>1 DEF TypeOK
  <2> QED
    BY <1>5, <2>1, <2>2
<1>7. TypeOK'
  BY <1>1, <1>2, <1>3, <1>4, <1>5, <1>6 DEF TypeOK
<1>8. Whereabouts'
  BY <1>2, <1>3, <1>4 DEF Whereabouts
<1>9. FreqsRead'
  BY <1>1, <1>2, <1>3, <1>4 DEF FreqsRead
<1>10. MemoryAgrees'
  <2>1. ASSUME NEW j \in Items(driver), doubt[j] = "none" PROVE mem'[j] = Wire(driver, cache, j)
    <3>1. Left \subseteq {Read(Lights), Read(Mapped)}
      BY <1>1, <1>3, <2>1 DEF Untold
    <3> QED
      BY <3>1, <1>3
  <2> QED
    BY <2>1, <1>1, <1>2, <1>3, <1>4, ReadingDoubts DEF MemoryAgrees
<1>11. Untold'
  BY <1>1, <1>2, <1>3, <1>4 DEF Untold
<1>12. Owing'
  BY <1>1, <1>2, <1>3, ReadingDoubts DEF Owing
<1>13. FirstFits'
  BY <1>1, <1>2 DEF Keeping, FirstFits
<1>14. \A j \in Items(driver) : HasCopy(j)' => HasCopy(j)
  BY <1>2, <1>3, <1>4 DEF HasCopy
<1>15. Turned => Turned'
  BY <1>3, <1>4 DEF Turned
<1>16. Doing("turn") => Turned'
  <2>1. ASSUME Doing("turn") PROVE Turned'
    <3>1. IsReads("Lachesis", call.ops) /\ OpsOf(call.ops) = Left
      BY <1>3, <2>1 DEF IsReading, Left
    <3>2. call'.ops = Tail(call.ops)
      BY <1>1, <1>2, OneLessIs
    <3>3. Read(Active) \notin Left'
      BY <1>3, <2>1, <3>1, <3>2, AfterHead DEF Left
    <3>4. Write(Active) \in Left
      BY <1>3, <2>1, <3>1 DEF IsReads, Returns
    <3> QED
      BY <1>3, <1>4, <3>3, <3>4 DEF Turned
  <2> QED
    BY <2>1
<1>17. ASSUME ~misread PROVE KeptInMemory' /\ KeptInCopy' /\ ChosenKept'
  <2>1. KeptInMemory /\ KeptInCopy /\ ChosenKept
    BY <1>1, <1>17 DEF Keeping
  <2>2. ASSUME NEW j \in Items(driver) \ touched
        PROVE  \/ Meaning(driver, j, mem'[j]) = Meaning(driver, j, first[j])
               \/ Excused(j) \/ (driver = "Lachesis" /\ j = Active /\ Turned')
    <3>1. CASE j = Active /\ Doing("turn")
      BY <3>1, <1>3, <1>16
    <3>2. CASE ~(j = Active /\ Doing("turn"))
      <4>1. mem'[j] = mem[j]
        BY <1>5, <3>2, <2>2
      <4> QED
        BY <4>1, <1>15, <2>1, <2>2 DEF KeptInMemory
    <3> QED
      BY <3>1, <3>2
  <2>3. KeptInMemory'
    BY <1>2, <2>2 DEF KeptInMemory, Excused
  <2>4. KeptInCopy'
    BY <1>2, <1>14, <2>1 DEF KeptInCopy, Excused
  <2>5. ASSUME driver \in Synapse, NEW q \in Profiles
        PROVE  Profile(q) \in Items(driver) /\ mem'[Profile(q)] = mem[Profile(q)]
    BY <2>5, <1>5, SynapseItems, ItemsDiffer
  <2>6. ChosenKept'
    BY <1>2, <1>14, <2>1, <2>5 DEF ChosenKept
  <2> QED
    BY <2>3, <2>4, <2>6
<1>18. Keeping'
  BY <1>2, <1>13, <1>17 DEF Keeping
<1> QED
  BY <1>1, <1>2, <1>7, <1>8, <1>9, <1>10, <1>11, <1>12, <1>18 DEF IInv

LEMMA ProbeKeeps ==
  ASSUME IInv, Probe
  PROVE  IInv'
<1>1. TypeOK /\ Whereabouts /\ Keeping
  BY DEF IInv
<1>2. /\ call.kind = "none" /\ ~listed /\ cache' = Blank(driver)
      /\ doubt' = [i \in Items(driver) |-> "unsent"]
      /\ call' = [kind |-> "probe", ops |-> Reads(driver)]
      /\ driver' = driver /\ topic' = topic /\ listed' = listed /\ mem' = mem
      /\ pending' = pending /\ held' = held /\ first' = first /\ touched' = touched
      /\ misread' = misread /\ fresh' = fresh /\ faults' = faults
  BY DEF Probe, Idle, Unsent, setting, ghosts
<1>3. driver \in DriverNames /\ Readable(driver) \subseteq Items(driver)
  BY <1>1, Known
<1>4. /\ IsCopy(driver, cache') /\ Shape(driver, cache')
      /\ \A p \in Profiles : cache'.freq[p] \in {0, 125, 500, 1000}
      /\ driver = "Copperhead" => \A p \in Profiles : cache'.freq[p] = 125
  BY <1>2, <1>3, BlankFits
<1>5. IsReads(driver, Reads(driver)) /\ \A i \in Readable(driver) : Read(i) \in OpsOf(Reads(driver))
  BY <1>3, ReadsFit
<1>6. /\ call'.kind = "probe" /\ call'.ops = Reads(driver) /\ DOMAIN call' = {"kind", "ops"}
      /\ IsReading' /\ \A i \in Readable(driver) : Read(i) \in Left'
  BY <1>2, <1>5 DEF IsReading, Left
<1>7. doubt' \in [Items(driver) -> {"unsent"}] /\ \A i \in Items(driver) : doubt'[i] = "unsent"
  BY <1>2
<1>8. TypeOK'
  BY <1>1, <1>2, <1>4, <1>6, <1>7, FreqsAre DEF TypeOK
<1>9. Whereabouts'
  BY <1>1, <1>2, <1>6 DEF Whereabouts
<1>10. FreqsRead'
  <2>1. ASSUME NEW p \in Profiles PROVE FreqItemOf(driver, p) \in Readable(driver)
    BY <1>3, ItemsAre, ItemsDiffer DEF FreqItemOf, Readable, DriverNames, Synapse
  <2> QED
    BY <1>2, <1>4, <1>6, <2>1, FreqsAre DEF FreqsRead
<1>11. MemoryAgrees' /\ Untold' /\ Owing'
  BY <1>2, <1>6, <1>7 DEF MemoryAgrees, Untold, Owing, Idle
<1>12. Shape(driver, cache)'
  BY <1>2, <1>4
<1>13. FirstFits'
  BY <1>1, <1>2 DEF Keeping, FirstFits
<1>14. \A i \in Items(driver) : HasCopy(i)' => driver = "Boomslang" /\ i = Lights
  BY <1>2, <1>6 DEF HasCopy, Readable
<1>15. ASSUME ~misread PROVE KeptInMemory' /\ KeptInCopy' /\ ChosenKept'
  <2>1. KeptInMemory /\ ChosenKept /\ ~Turned
    BY <1>1, <1>2, <1>15 DEF Keeping, Turned, IsReading
  <2>2. KeptInMemory'
    BY <1>2, <2>1 DEF KeptInMemory, Excused
  <2>3. KeptInCopy'
    BY <1>2, <1>14 DEF KeptInCopy, Excused
  <2>4. ASSUME driver \in Synapse, NEW p \in Profiles PROVE ~HasCopy(Profile(p))'
    BY <1>14, <2>4, SynapseItems DEF Synapse
  <2>5. ChosenKept'
    BY <1>2, <2>1, <2>4 DEF ChosenKept
  <2> QED
    BY <2>2, <2>3, <2>5
<1>16. Keeping'
  BY <1>2, <1>13, <1>15 DEF Keeping
<1> QED
  BY <1>8, <1>9, <1>10, <1>11, <1>12, <1>16 DEF IInv

-----------------------------------------------------------------------------
(* The steps that change neither copy nor memory.                          *)

LEMMA ReleasingIs ==
  ASSUME TypeOK, NEW pend, NEW hold, NEW r, r = Releasing(pend, hold)
  PROVE  /\ DOMAIN r = {"kind", "ops"}
         /\ pend /\ ~hold => /\ r.kind = "release" /\ IsWrites(driver, r.ops)
                             /\ \A i \in Items(driver) : Write(i) \in OpsOf(r.ops)
         /\ ~(pend /\ ~hold) => r.kind = "none" /\ r.ops = <<>>
<1>1. IsWrites(driver, CommitOf(driver)) /\ \A i \in Items(driver) : Write(i) \in OpsOf(CommitOf(driver))
  BY Known, CommitFits
<1>2. CASE pend /\ ~hold
  BY <1>1, <1>2 DEF Releasing
<1>3. CASE ~(pend /\ ~hold)
  BY <1>3 DEF Releasing, NoCall
<1> QED
  BY <1>2, <1>3

(* A commit that begins, or razerd that waits again. *)
Begun ==
  /\ DOMAIN call' = {"kind", "ops"} /\ call'.kind \in {"none", "release", "reconfig"}
  /\ call'.kind = "none" => call'.ops = <<>>
  /\ call'.kind # "none" => IsWrites(driver', call'.ops) /\ \A i \in Items(driver') : Write(i) \in Left'

LEMMA BegunIs ==
  ASSUME Begun
  PROVE  /\ ~IsReading'
         /\ call'.kind # "none" => IsWriting'
         /\ IsWriting' => \A i \in Items(driver') : Write(i) \in Left'
  BY DEF Begun, IsReading, IsWriting

LEMMA RestKeeps ==
  ASSUME IInv, call.kind # "probe", listed, Begun,
         UNCHANGED <<setting, listed, cache, mem, doubt, pending, first, touched, misread, faults>>,
         held' \in BOOLEAN, fresh' \in BOOLEAN,
         call'.kind = "none" /\ ~held' => \A i \in Items(driver) : doubt[i] # "owed"
  PROVE  IInv'
<1>1. TypeOK /\ Whereabouts /\ FreqsRead /\ Shape(driver, cache) /\ MemoryAgrees /\ Untold /\ Owing /\ Keeping
  BY DEF IInv
<1>2. /\ driver' = driver /\ topic' = topic /\ listed' = listed /\ cache' = cache /\ mem' = mem
      /\ doubt' = doubt /\ pending' = pending /\ first' = first /\ touched' = touched
      /\ misread' = misread /\ faults' = faults
  BY DEF setting
<1>3. /\ ~IsReading'
      /\ call'.kind # "none" => IsWriting'
      /\ IsWriting' => \A i \in Items(driver) : Write(i) \in Left'
      /\ call'.kind \in {"none", "release", "reconfig"} /\ DOMAIN call' = {"kind", "ops"}
      /\ call'.kind = "none" => call'.ops = <<>>
  BY <1>2, BegunIs DEF Begun
<1>4. TypeOK'
  BY <1>1, <1>2, <1>3 DEF TypeOK
<1>5. Whereabouts'
  BY <1>2, <1>3 DEF Whereabouts
<1>6. FreqsRead' /\ Untold'
  BY <1>3 DEF FreqsRead, Untold
<1>7. Shape(driver, cache)'
  BY <1>1, <1>2
<1>8. MemoryAgrees'
  BY <1>1, <1>2, <1>3 DEF MemoryAgrees, Idle
<1>9. Owing'
  BY <1>1, <1>2, <1>3 DEF Owing
<1>10. ~Turned /\ \A j \in Items(driver) : HasCopy(j)' => HasCopy(j)
  BY <1>2 DEF Turned, IsReading, HasCopy
<1>11. Keeping'
  BY <1>1, <1>2, <1>10, KeepsOn
<1> QED
  BY <1>4, <1>5, <1>6, <1>7, <1>8, <1>9, <1>11 DEF IInv

LEMMA ReconfigKeeps ==
  ASSUME IInv, Reconfig
  PROVE  IInv'
<1>1. TypeOK
  BY DEF IInv
<1>2. /\ call.kind = "none" /\ listed /\ call' = [kind |-> "reconfig", ops |-> CommitOf(driver)]
      /\ UNCHANGED <<setting, listed, cache, mem, doubt, pending, first, touched, misread, faults>>
      /\ held' = held /\ fresh' = fresh /\ driver' = driver
  BY DEF Reconfig, Idle, ghosts, setting
<1>3. IsWrites(driver, CommitOf(driver)) /\ \A i \in Items(driver) : Write(i) \in OpsOf(CommitOf(driver))
  BY <1>1, Known, CommitFits
<1>4. Begun /\ call'.kind # "none"
  BY <1>2, <1>3 DEF Begun, Left
<1>5. held' \in BOOLEAN /\ fresh' \in BOOLEAN
  BY <1>1, <1>2 DEF TypeOK
<1> QED
  BY <1>2, <1>4, <1>5, RestKeeps

LEMMA HoldKeeps ==
  ASSUME IInv, Hold
  PROVE  IInv'
<1>1. TypeOK /\ Whereabouts
  BY DEF IInv
<1>2. /\ call.kind = "none" /\ listed /\ call' = call /\ held' = TRUE /\ fresh' = fresh /\ driver' = driver
      /\ UNCHANGED <<setting, listed, cache, mem, doubt, pending, first, touched, misread, faults>>
  BY DEF Hold, Idle, ghosts, setting
<1>3. Begun
  BY <1>1, <1>2 DEF Begun, TypeOK, Whereabouts
<1>4. held' \in BOOLEAN /\ fresh' \in BOOLEAN
  BY <1>1, <1>2 DEF TypeOK
<1> QED
  BY <1>2, <1>3, <1>4, RestKeeps

(* What a release does not have to write is not owed. *)
LEMMA Releases ==
  ASSUME TypeOK, Owing, driver' = driver, held' \in BOOLEAN, call' = Releasing(pending, held')
  PROVE  Begun /\ (call'.kind = "none" /\ ~held' => \A i \in Items(driver) : doubt[i] # "owed")
<1>1. /\ DOMAIN call' = {"kind", "ops"}
      /\ pending /\ ~held' => /\ call'.kind = "release" /\ IsWrites(driver, call'.ops)
                              /\ \A i \in Items(driver) : Write(i) \in OpsOf(call'.ops)
      /\ ~(pending /\ ~held') => call'.kind = "none" /\ call'.ops = <<>>
  BY ReleasingIs
<1>2. Begun
  BY <1>1 DEF Begun, Left
<1>3. call'.kind = "none" /\ ~held' => ~pending
  BY <1>1
<1> QED
  BY <1>2, <1>3 DEF Owing

LEMMA UnholdKeeps ==
  ASSUME IInv, Unhold
  PROVE  IInv'
<1>1. TypeOK /\ Whereabouts /\ Owing
  BY DEF IInv
<1>2. /\ call.kind = "none" /\ listed /\ held' = FALSE /\ fresh' = fresh /\ driver' = driver
      /\ call' = Releasing(pending, held')
      /\ UNCHANGED <<setting, listed, cache, mem, doubt, pending, first, touched, misread, faults>>
  BY <1>1 DEF Unhold, Idle, ghosts, setting, Whereabouts
<1>3. held' \in BOOLEAN /\ fresh' \in BOOLEAN
  BY <1>1, <1>2 DEF TypeOK
<1>4. Begun /\ (call'.kind = "none" /\ ~held' => \A i \in Items(driver) : doubt[i] # "owed")
  BY <1>1, <1>2, <1>3, Releases
<1> QED
  BY <1>2, <1>3, <1>4, RestKeeps

LEMMA ConfiguredKeeps ==
  ASSUME IInv, Configured
  PROVE  IInv'
<1>1. TypeOK /\ Whereabouts /\ Owing
  BY DEF IInv
<1>2. /\ call.kind = "configure" /\ listed /\ held' = held /\ fresh' = TRUE /\ driver' = driver
      /\ call' = Releasing(pending, held')
      /\ UNCHANGED <<setting, listed, cache, mem, doubt, pending, first, touched, misread, faults>>
  BY <1>1 DEF Configured, setting, Whereabouts
<1>3. held' \in BOOLEAN /\ fresh' \in BOOLEAN
  BY <1>1, <1>2 DEF TypeOK
<1>4. Begun /\ (call'.kind = "none" /\ ~held' => \A i \in Items(driver) : doubt[i] # "owed")
  BY <1>1, <1>2, <1>3, Releases
<1> QED
  BY <1>2, <1>3, <1>4, RestKeeps

LEMMA UnplugKeeps ==
  ASSUME IInv, Unplug
  PROVE  IInv'
<1>1. TypeOK /\ Whereabouts /\ Keeping /\ Shape(driver, cache)
  BY DEF IInv
<1>2. /\ driver' = driver /\ topic' = topic /\ listed' = FALSE /\ pending' = FALSE /\ held' = FALSE
      /\ call' = NoCall /\ doubt' = [i \in Items(driver) |-> "unsent"] /\ fresh' = FALSE
      /\ cache' = cache /\ mem' = mem /\ first' = first /\ touched' = touched /\ misread' = misread
      /\ IF Idle THEN faults' = faults ELSE Fault
  BY DEF Unplug, Unsent, setting
<1>3. faults' \in 0 .. MaxFaults /\ (faults > 0 => faults' > 0) /\ (~Idle => faults' > 0)
  BY <1>1, <1>2, Faulted DEF TypeOK
<1>4. call'.kind = "none" /\ call'.ops = <<>> /\ DOMAIN call' = {"kind", "ops"}
  BY <1>2 DEF NoCall
<1>5. doubt' \in [Items(driver) -> {"unsent"}] /\ \A i \in Items(driver) : doubt'[i] = "unsent"
  BY <1>2
<1>6. TypeOK'
  <2>1. \A p \in Profiles : cache.freq[p] \in Freqs \cup {0}
    BY <1>1 DEF TypeOK
  <2>2. misread \in BOOLEAN
    BY <1>1 DEF TypeOK
  <2>3. {listed', pending', held', misread', fresh'} \subseteq BOOLEAN
    BY <1>2, <2>2
  <2>4. \A p \in Profiles : cache'.freq[p] \in Freqs \cup IF listed' THEN {} ELSE {0}
    BY <1>2, <2>1
  <2>5. doubt' \in [Items(driver) -> {"none", "owed", "swallowed", "ignored", "turned", "unsent"}]
    BY <1>5
  <2> QED
    BY <1>1, <1>2, <1>3, <1>4, <2>3, <2>4, <2>5 DEF TypeOK
<1>7. Whereabouts' /\ FreqsRead' /\ Untold' /\ MemoryAgrees' /\ Owing'
  BY <1>2, <1>4, <1>5 DEF Whereabouts, FreqsRead, Untold, IsReading, MemoryAgrees, Owing
<1>8. Shape(driver, cache)'
  BY <1>1, <1>2
<1>9. \A j \in Items(driver) : HasCopy(j)' => HasCopy(j)
  BY <1>2, <1>4 DEF HasCopy
<1>10. Turned => faults' > 0
  BY <1>3 DEF Turned, IsReading, Idle
<1>11. Keeping'
  BY <1>1, <1>2, <1>3, <1>9, <1>10, KeepsOn
<1> QED
  BY <1>6, <1>7, <1>8, <1>11 DEF IInv

-----------------------------------------------------------------------------
(* The steps of a commit.                                                  *)

LEMMA WritingHasAll ==
  ASSUME TypeOK, Whereabouts, IsWriting
  PROVE  (\A i : Read(i) \notin Left) /\ (\A i : HasCopy(i)) /\ ~Turned
<1>1. IsWrites(driver, call.ops)
  BY DEF IsWriting
<1>2. \A i : Read(i) \notin Left
  <2>1. call.ops \in Seq(WriteOps(driver))
    BY <1>1 DEF IsWrites
  <2> DEFINE W == WriteOps(driver)
             s == call.ops
  <2>2. s \in Seq(W)
    BY <2>1
  <2> HIDE DEF W, s
  <2>3. OpsOf(s) \subseteq W
    BY <2>2 DEF OpsOf
  <2> QED
    BY <2>3, OpsDiffer DEF W, s, WriteOps, Left
<1>3. ~Turned
  BY <1>1, ReadsAreNotWrites DEF Turned, IsReading
<1>4. \A i : HasCopy(i)
  BY <1>2 DEF HasCopy, Whereabouts, IsWriting
<1> QED
  BY <1>2, <1>3, <1>4

(* What the driver would write of an item that nobody touched is what was  *)
(* there at the beginning.                                                 *)
LEMMA WireKept ==
  ASSUME TypeOK, Keeping, ~misread, NEW i \in Items(driver), HasCopy(i),
         driver \in Synapse => \A j : HasCopy(j)
  PROVE  /\ i \notin touched => \/ Meaning(driver, i, Wire(driver, cache, i)) = Meaning(driver, i, first[i])
                                \/ Excused(i)
         /\ driver \in Synapse /\ Global \notin touched =>
              \A p \in Profiles : Chosen(Wire(driver, cache, Profile(p))) = Chosen(first[Profile(p)])
<1>1. KeptInCopy /\ ChosenKept /\ FirstFits
  BY DEF Keeping
<1>2. ASSUME driver \in Synapse, Global \notin touched, NEW p \in Profiles
      PROVE  Chosen(Wire(driver, cache, Profile(p))) = Chosen(first[Profile(p)])
  BY <1>1, <1>2 DEF ChosenKept
<1>3. ASSUME i \notin touched
      PROVE  Meaning(driver, i, Wire(driver, cache, i)) = Meaning(driver, i, first[i]) \/ Excused(i)
  <2>1. Tells(driver, cache, i, first[i]) \/ Excused(i)
    BY <1>1, <1>3 DEF KeptInCopy
  <2>2. CASE i = Global /\ driver \in Synapse
    <3> DEFINE v == first[Global]
    <3>1. Tells(driver, cache, Global, v)
      BY <2>1, <2>2 DEF Excused, Synapse
    <3>2. IsWord(driver, Global, v) /\ IsCopy(driver, cache)
      BY <2>2 DEF TypeOK
    <3>3. v.active \in 1 .. NrProfiles
      BY <3>2, ItemsDiffer DEF IsWord
    <3>4. v.active - 1 \in Profiles
      BY <3>3, ProfilesAre
    <3>5. Chosen(first[Profile(v.active - 1)]) = <<v.sel, v.dpi>>
      BY <1>1, <2>2 DEF FirstFits
    <3> HIDE DEF v
    <3>6. Chosen(Wire(driver, cache, Profile(v.active - 1))) = <<v.sel, v.dpi>>
      BY <1>2, <1>3, <2>2, <3>4, <3>5
    <3>7. Wire(driver, cache, Global) = v
      BY <2>2, <3>1, <3>2, <3>6, GlobalSays
    <3> QED
      BY <2>2, <3>7 DEF v
  <2>3. CASE ~(i = Global /\ driver \in Synapse)
    BY <2>1, <2>3 DEF Tells
  <2> QED
    BY <2>2, <2>3
<1> QED
  BY <1>2, <1>3

LEMMA WrittenKeeps ==
  ASSUME TypeOK, Keeping, UNCHANGED <<driver, cache, first, touched, misread>>,
         faults > 0 => faults' > 0,
         NEW i \in Items(driver), HasCopy(i), driver \in Synapse => \A j : HasCopy(j),
         \A j \in Items(driver) : HasCopy(j)' => HasCopy(j),
         \A j \in Items(driver) : mem'[j] = mem[j] \/ (j = i /\ mem'[j] = Wire(driver, cache, j)),
         Turned => (i = Active /\ mem'[i] = Wire(driver, cache, i)) \/ faults' > 0
  PROVE  Keeping'
<1>1. FirstFits'
  BY DEF Keeping, FirstFits
<1>2. ASSUME ~misread PROVE KeptInMemory' /\ KeptInCopy' /\ ChosenKept'
  <2>1. KeptInMemory /\ KeptInCopy /\ ChosenKept
    BY <1>2 DEF Keeping
  <2>2. /\ i \notin touched => \/ Meaning(driver, i, Wire(driver, cache, i)) = Meaning(driver, i, first[i])
                               \/ Excused(i)
        /\ driver \in Synapse /\ Global \notin touched =>
             \A p \in Profiles : Chosen(Wire(driver, cache, Profile(p))) = Chosen(first[Profile(p)])
    BY <1>2, WireKept
  <2>3. \A j : Excused(j) => Excused(j)'
    BY DEF Excused
  <2>4. ASSUME NEW j \in Items(driver) \ touched
        PROVE  \/ Meaning(driver, j, mem'[j]) = Meaning(driver, j, first[j])
               \/ Excused(j)'
    <3>1. CASE mem'[j] = mem[j] /\ ~(j = i /\ mem'[j] = Wire(driver, cache, j))
      <4>1. \/ Meaning(driver, j, mem[j]) = Meaning(driver, j, first[j])
            \/ Excused(j) \/ (driver = "Lachesis" /\ j = Active /\ Turned)
        BY <2>1 DEF KeptInMemory
      <4> QED
        BY <3>1, <4>1, <2>3 DEF Excused
    <3>2. CASE j = i /\ mem'[j] = Wire(driver, cache, j)
      BY <3>2, <2>2, <2>3, <2>4
    <3> QED
      BY <3>1, <3>2
  <2>5. KeptInMemory'
    BY <2>4 DEF KeptInMemory
  <2>6. KeptInCopy'
    BY <2>1, <2>3 DEF KeptInCopy
  <2>7. ASSUME driver \in Synapse, Global \notin touched, NEW p \in Profiles
        PROVE  Chosen(mem'[Profile(p)]) = Chosen(first[Profile(p)])
    <3>1. Profile(p) \in Items(driver)
      BY <2>7, SynapseItems
    <3>2. mem'[Profile(p)] = mem[Profile(p)] \/ mem'[Profile(p)] = Wire(driver, cache, Profile(p))
      BY <3>1
    <3>3. Chosen(mem[Profile(p)]) = Chosen(first[Profile(p)])
      BY <2>1, <2>7 DEF ChosenKept
    <3> QED
      BY <2>2, <2>7, <3>2, <3>3
  <2>8. ASSUME driver \in Synapse, NEW p \in Profiles PROVE HasCopy(Profile(p))' => HasCopy(Profile(p))
    BY <2>8, SynapseItems
  <2>9. ChosenKept'
    BY <2>1, <2>7, <2>8 DEF ChosenKept
  <2> QED
    BY <2>5, <2>6, <2>9
<1> QED
  BY <1>1, <1>2 DEF Keeping

(* The end of a commit without an error. *)
LEMMA CommittedSane ==
  ASSUME Sane, IsWriting, Committed, mem' = mem,
         UNCHANGED <<setting, cache, held, first, touched, misread, fresh>>, faults' \in 0 .. MaxFaults,
         doubt' \in [Items(driver) -> {"none", "owed", "swallowed", "ignored", "turned", "unsent"}],
         \A i \in Items(driver) : /\ doubt'[i] \notin {"owed", "swallowed"}
                                  /\ doubt'[i] = "none" => doubt[i] = "none"
  PROVE  Sane'
<1>1. TypeOK /\ Whereabouts /\ FreqsRead /\ Shape(driver, cache) /\ MemoryAgrees /\ Untold /\ Owing
  BY DEF Sane
<1>2. /\ driver' = driver /\ topic' = topic /\ listed' = TRUE /\ pending' = FALSE /\ cache' = cache
      /\ held' = held /\ first' = first /\ touched' = touched /\ misread' = misread /\ fresh' = fresh
  BY DEF Committed, setting
<1>3. /\ DOMAIN call' = {"kind", "ops"}
      /\ call.kind = "probe" => call'.kind = "configure"
      /\ call.kind # "probe" => call'.kind = "none" /\ call'.ops = <<>>
  BY DEF Committed, NoCall
<1>4. \A p \in Profiles : cache.freq[p] \in Freqs
  <2>1. CASE call.kind = "probe"
    BY <1>1, <2>1, WritingHasAll DEF FreqsRead
  <2>2. CASE call.kind # "probe"
    BY <1>1, <2>2 DEF Whereabouts, IsWriting, TypeOK
  <2> QED
    BY <2>1, <2>2
<1>5. TypeOK'
  <2>1. {listed', pending', held', misread', fresh'} \subseteq BOOLEAN
    <3>1. held \in BOOLEAN /\ misread \in BOOLEAN /\ fresh \in BOOLEAN
      BY <1>1 DEF TypeOK
    <3> QED
      BY <3>1, <1>2
  <2>2. call'.kind \in {"none", "probe", "configure", "release", "reconfig"}
    BY <1>3
  <2> QED
    BY <1>1, <1>2, <1>3, <1>4, <2>1, <2>2 DEF TypeOK
<1>6. Whereabouts'
  BY <1>1, <1>2, <1>3 DEF Whereabouts
<1>7. FreqsRead' /\ Untold'
  BY <1>3 DEF FreqsRead, Untold, IsReading
<1>8. Shape(driver, cache)'
  BY <1>1, <1>2
<1>9. MemoryAgrees' /\ Owing'
  BY <1>1, <1>2 DEF MemoryAgrees, Owing
<1> QED
  BY <1>5, <1>6, <1>7, <1>8, <1>9 DEF Sane

LEMMA FinishCommitKeeps ==
  ASSUME IInv, FinishCommit
  PROVE  IInv'
<1>1. Sane /\ Keeping /\ TypeOK /\ Whereabouts /\ Owing
  BY SaneIs DEF Sane
<1>2. /\ call.kind \notin {"none", "configure"} /\ call.ops = <<>> /\ Committed
      /\ UNCHANGED <<setting, cache, mem, doubt, held, first, touched, misread, fresh, faults>>
  BY DEF FinishCommit, ghosts
<1>3. IsWriting
  BY <1>1, <1>2 DEF Whereabouts, TypeOK, IsReading, IsReads
<1>4. \A i : HasCopy(i)
  BY <1>1, <1>3, WritingHasAll
<1>5. Left = {}
  BY <1>2 DEF Left, OpsOf
<1>6. \A i \in Items(driver) : doubt[i] \notin {"owed", "swallowed"}
  BY <1>1, <1>3, <1>5 DEF Owing
<1>7. faults' \in 0 .. MaxFaults /\ doubt \in [Items(driver) -> {"none", "owed", "swallowed", "ignored", "turned", "unsent"}]
  BY <1>1, <1>2 DEF TypeOK
<1>8. Sane'
  BY <1>1, <1>2, <1>3, <1>6, <1>7, CommittedSane
<1>9. ~Turned
  BY <1>1, <1>3, WritingHasAll
<1>10. Keeping'
  BY <1>1, <1>2, <1>4, <1>9, KeepsOn DEF setting
<1> QED
  BY <1>8, <1>10 DEF IInv, Sane

LEMMA BecomeIs ==
  ASSUME TypeOK, NEW items, NEW why \in {"none", "owed", "ignored", "turned"}, NEW dbt, dbt = Become(items, why)
  PROVE  /\ dbt \in [Items(driver) -> {"none", "owed", "swallowed", "ignored", "turned", "unsent"}]
         /\ \A j \in Items(driver) : dbt[j] = IF j \in items THEN why ELSE doubt[j]
  BY DEF Become, TypeOK

(* After a write the commit goes on, or the probe of the Lachesis. *)
LEMMA WriteGoesOn ==
  ASSUME Sane, Doing("write"), NEW i, i = Head(call.ops)[2], NEW why \in {"none", "ignored"},
         call' = OneLess, doubt' = Become({i}, why), why = "ignored" => driver # "Lachesis",
         UNCHANGED <<setting, listed, pending, cache, held, first, touched, misread, fresh>>,
         faults' \in 0 .. MaxFaults, DOMAIN mem' = Items(driver),
         \A j \in Items(driver) : j # i => mem'[j] = mem[j],
         mem'[i] = mem[i] \/ mem'[i] = Wire(driver, cache, i),
         why = "none" => mem'[i] = Wire(driver, cache, i)
  PROVE  Sane' /\ (Turned => i = Active /\ why = "none") /\ \A j \in Items(driver) : HasCopy(j)' => HasCopy(j)
<1>1. TypeOK /\ Whereabouts /\ FreqsRead /\ Shape(driver, cache) /\ MemoryAgrees /\ Untold /\ Owing
  BY DEF Sane
<1>2. /\ driver' = driver /\ topic' = topic /\ listed' = listed /\ pending' = pending /\ cache' = cache
      /\ held' = held /\ first' = first /\ touched' = touched /\ misread' = misread /\ fresh' = fresh
  BY DEF setting
<1>3. /\ i \in Items(driver) /\ Head(call.ops) = Write(i) /\ Write(i) \in Left
      /\ call.kind \in {"probe", "release", "reconfig"} /\ call.ops # <<>>
      /\ IsWriting \/ (IsReading /\ driver = "Lachesis" /\ i = Active)
  BY <1>1, AtWrite
<1>4. /\ Left = {Write(i)} \cup Left' /\ call'.kind = call.kind /\ DOMAIN call' = {"kind", "ops"}
      /\ IsWriting => IsWriting' /\ ~IsReading' /\ ~IsReading
      /\ IsReading => IsReading'
  <2>1. CASE IsWriting
    BY <1>1, <1>2, <1>3, <2>1, WritesLess
  <2>2. CASE IsReading
    <3>1. \A j : Head(call.ops) # Read(j)
      BY <1>3, OpsDiffer
    <3>2. ~IsWriting
      BY <2>2, ReadsAreNotWrites DEF IsWriting, IsReading
    <3> QED
      BY <1>1, <1>2, <1>3, <2>2, <3>1, <3>2, ReadsLess DEF IsReading
  <2> QED
    BY <2>1, <2>2, <1>3
<1>5. IsReading' => ~IsWriting'
  BY ReadsAreNotWrites DEF IsReading, IsWriting
<1>6. /\ doubt' \in [Items(driver) -> {"none", "owed", "swallowed", "ignored", "turned", "unsent"}]
      /\ \A j \in Items(driver) : doubt'[j] = IF j = i THEN why ELSE doubt[j]
  BY <1>1, BecomeIs
<1>7. \A j \in Items(driver) : IsWord(driver, j, mem'[j])
  <2>1. IsWord(driver, i, Wire(driver, cache, i))
    BY <1>1, <1>3, Known, WireIsWord DEF TypeOK
  <2> QED
    BY <1>1, <1>3, <2>1 DEF TypeOK
<1>8. TypeOK'
  <2>1. /\ \A j \in Items(driver) : IsWord(driver', j, mem'[j]) /\ IsWord(driver', j, first'[j])
        /\ DOMAIN mem' = Items(driver') /\ DOMAIN first' = Items(driver')
    BY <1>1, <1>2, <1>7 DEF TypeOK
  <2>2. /\ driver' \in Drivers /\ topic' \in Topics(driver') /\ IsCopy(driver', cache')
        /\ \A p \in Profiles : cache'.freq[p] \in Freqs \cup IF listed' THEN {} ELSE {0}
        /\ {listed', pending', held', misread', fresh'} \subseteq BOOLEAN
        /\ touched' \subseteq Items(driver')
    BY <1>1, <1>2 DEF TypeOK
  <2>3. call'.kind \in {"none", "probe", "configure", "release", "reconfig"}
    BY <1>3, <1>4
  <2> QED
    BY <1>2, <1>4, <1>6, <2>1, <2>2, <2>3 DEF TypeOK
<1>9. Whereabouts'
  BY <1>1, <1>2, <1>3, <1>4 DEF Whereabouts
<1>10. \A j : Read(j) \in Left => Read(j) \in Left'
  BY <1>4, OpsDiffer
<1>11. FreqsRead'
  BY <1>1, <1>2, <1>4, <1>10 DEF FreqsRead
<1>12. Shape(driver, cache)'
  BY <1>1, <1>2
<1>13. MemoryAgrees'
  <2>1. ASSUME NEW j \in Items(driver), doubt'[j] = "none" PROVE mem'[j] = Wire(driver, cache, j)
    <3>1. CASE j = i
      BY <1>6, <2>1, <3>1
    <3>2. CASE j # i
      BY <1>1, <1>6, <2>1, <3>2 DEF MemoryAgrees
    <3> QED
      BY <3>1, <3>2
  <2>2. ASSUME NEW j \in Items(driver), doubt'[j] \in {"owed", "swallowed"} PROVE pending
    BY <1>1, <1>6, <2>2 DEF MemoryAgrees
  <2>3. call'.kind # "none"
    BY <1>3, <1>4
  <2> QED
    BY <1>2, <2>1, <2>2, <2>3 DEF MemoryAgrees, Idle
<1>14. Untold'
  <2>1. ASSUME IsReading', NEW j \in Items(driver)
        PROVE  \/ doubt'[j] = "unsent"
               \/ doubt'[j] = "none" /\ driver = "Lachesis" /\ j = Active /\ Left' \subseteq {Read(Lights), Read(Mapped)}
    <3>1. IsReading /\ driver = "Lachesis" /\ i = Active /\ why = "none"
      BY <1>3, <1>4, <2>1
    <3>2. Left' \subseteq {Read(Lights), Read(Mapped)}
      <4>1. IsReads("Lachesis", call.ops)
        BY <3>1 DEF IsReading
      <4>2. call'.ops = Tail(call.ops)
        BY <1>1, OneLessIs
      <4> QED
        BY <4>1, <4>2, <3>1, <1>3, AfterHead DEF Left
    <3> QED
      BY <1>1, <1>6, <3>1, <3>2 DEF Untold
  <2> QED
    BY <1>2, <2>1 DEF Untold
<1>15. Owing'
  <2>1. ASSUME NEW j \in Items(driver), doubt'[j] \in {"owed", "swallowed"}
        PROVE  pending /\ (IsWriting' => Write(j) \in Left')
    <3>1. j # i /\ doubt[j] \in {"owed", "swallowed"}
      BY <1>6, <2>1
    <3>2. IsWriting
      BY <1>1, <1>3, <3>1, ReadingDoubts
    <3>3. pending /\ Write(j) \in Left
      BY <1>1, <3>1, <3>2 DEF Owing
    <3> QED
      BY <1>4, <3>1, <3>3, OpsDiffer
  <2> QED
    BY <1>2, <2>1 DEF Owing
<1>16. Turned => i = Active /\ why = "none"
  BY <1>3, <1>4 DEF Turned
<1>17. \A j \in Items(driver) : HasCopy(j)' => HasCopy(j)
  BY <1>2, <1>4, <1>10 DEF HasCopy
<1> QED
  BY <1>8, <1>9, <1>11, <1>12, <1>13, <1>14, <1>15, <1>16, <1>17 DEF Sane

LEMMA FatesAre ==
  ASSUME NEW d \in DriverNames, NEW i, NEW fate \in WriteFates(d, i)
  PROVE  /\ fate \in {"done", "lost", "spoilt", "ignored", "refused"}
         /\ fate = "ignored" => d # "Lachesis"
         /\ fate = "refused" => d = "Lachesis" /\ i[1] = "profile"
<1>1. d \in {"Boomslang", "Copperhead", "Lachesis"} \/ d \in Synapse
  BY DEF DriverNames, Synapse
<1> QED
  BY <1>1 DEF WriteFates, BoomslangFates, CopperheadFates, LachesisFates, SynapseFates, Synapse

LEMMA WriteItemKeeps ==
  ASSUME IInv, WriteItem
  PROVE  IInv'
<1> DEFINE i == Head(call.ops)[2]
<1>1. Sane /\ Keeping /\ TypeOK /\ Whereabouts /\ Untold /\ Owing /\ MemoryAgrees
  BY SaneIs DEF Sane
<1>2. Doing("write") /\ UNCHANGED <<setting, cache, held, first, touched, misread, fresh>>
  BY DEF WriteItem, ghosts
<1>3. PICK fate \in WriteFates(driver, i) :
          /\ IF fate = "done" THEN UNCHANGED faults ELSE Fault
          /\ mem' = IF fate \in {"done", "spoilt"} THEN [mem EXCEPT ![i] = Wire(driver, cache, i)] ELSE mem
          /\ CASE fate = "done"    -> /\ doubt' = Become({i}, "none")
                                      /\ call' = OneLess
                                      /\ UNCHANGED <<listed, pending>>
               [] fate = "ignored" -> /\ doubt' = Become({i}, "ignored")
                                      /\ call' = OneLess
                                      /\ UNCHANGED <<listed, pending>>
               [] fate = "refused" -> /\ doubt' = [j \in Items(driver) |->
                                           IF \E k \in DOMAIN call.ops : call.ops[k] = Write(j)
                                           THEN "ignored" ELSE doubt[j]]
                                      /\ Committed
               [] OTHER            -> Abort(doubt) /\ UNCHANGED <<listed, pending>>
  BY DEF WriteItem
<1> HIDE DEF i
<1>4. driver \in DriverNames
  BY <1>1, Known
<1>5. /\ fate \in {"done", "lost", "spoilt", "ignored", "refused"}
      /\ fate = "ignored" => driver # "Lachesis"
      /\ fate = "refused" => driver = "Lachesis" /\ i[1] = "profile"
  BY <1>4, FatesAre
<1>6. /\ i \in Items(driver) /\ Head(call.ops) = Write(i) /\ Write(i) \in Left
      /\ call.kind \in {"probe", "release", "reconfig"}
      /\ IsWriting \/ (IsReading /\ driver = "Lachesis" /\ i = Active)
  BY <1>1, <1>2, AtWrite DEF i
<1>7. faults' \in 0 .. MaxFaults /\ (faults > 0 => faults' > 0) /\ (fate # "done" => faults' > 0)
  <2>1. CASE fate = "done"
    BY <1>1, <1>3, <2>1 DEF TypeOK
  <2>2. CASE fate # "done"
    BY <1>1, <1>3, <2>2, Faulted
  <2> QED
    BY <2>1, <2>2
<1>8. /\ DOMAIN mem' = Items(driver)
      /\ \A j \in Items(driver) : j # i => mem'[j] = mem[j]
      /\ mem'[i] = IF fate \in {"done", "spoilt"} THEN Wire(driver, cache, i) ELSE mem[i]
  <2>1. DOMAIN mem = Items(driver)
    BY <1>1 DEF TypeOK
  <2> DEFINE w == Wire(driver, cache, i)
  <2>2. mem' = IF fate \in {"done", "spoilt"} THEN [mem EXCEPT ![i] = w] ELSE mem
    BY <1>3
  <2> HIDE DEF w
  <2>3. /\ DOMAIN mem' = Items(driver)
        /\ \A j \in Items(driver) : j # i => mem'[j] = mem[j]
        /\ mem'[i] = IF fate \in {"done", "spoilt"} THEN w ELSE mem[i]
    BY <2>1, <2>2, <1>6
  <2> QED
    BY <2>3 DEF w
<1>9. HasCopy(i) /\ (driver \in Synapse => \A j : HasCopy(j))
  <2>1. CASE IsWriting
    BY <1>1, <2>1, WritingHasAll
  <2>2. CASE IsReading /\ driver = "Lachesis" /\ i = Active
    <3>1. IsReads("Lachesis", call.ops) /\ call.kind = "probe" /\ Head(call.ops) = Write(Active)
      BY <1>6, <2>2 DEF IsReading
    <3>2. Read(Active) \notin OpsOf(Tail(call.ops)) /\ OpsOf(call.ops) = {Head(call.ops)} \cup OpsOf(Tail(call.ops))
      BY <3>1, AfterHead, ReadsGoOn
    <3>3. Read(Active) \notin Left
      BY <3>1, <3>2, OpsDiffer DEF Left
    <3> QED
      BY <3>1, <3>3, <2>2 DEF HasCopy, Synapse
  <2> QED
    BY <1>6, <2>1, <2>2
<1>10. Sane' /\ (\A j \in Items(driver) : HasCopy(j)' => HasCopy(j)) /\ (Turned => (i = Active /\ mem'[i] = Wire(driver, cache, i)) \/ faults' > 0)
  <2>1. CASE fate = "done"
    <3>1. call' = OneLess /\ doubt' = Become({i}, "none") /\ UNCHANGED <<listed, pending>>
      BY <1>3, <2>1
    <3>2. mem'[i] = Wire(driver, cache, i)
      BY <1>8, <2>1
    <3> QED
      BY <1>1, <1>2, <1>7, <1>8, <3>1, <3>2, WriteGoesOn DEF i
  <2>2. CASE fate = "ignored"
    <3>1. call' = OneLess /\ doubt' = Become({i}, "ignored") /\ UNCHANGED <<listed, pending>>
      BY <1>3, <2>2
    <3>2. mem'[i] = mem[i]
      BY <1>8, <2>2
    <3> QED
      BY <1>1, <1>2, <1>5, <1>7, <1>8, <2>2, <3>1, <3>2, WriteGoesOn DEF i
  <2>3. CASE fate = "refused"
    <3>1. IsWriting
      BY <1>5, <1>6, <2>3, ItemsDiffer
    <3>2. Committed /\ doubt' = [j \in Items(driver) |-> IF \E k \in DOMAIN call.ops : call.ops[k] = Write(j)
                                                         THEN "ignored" ELSE doubt[j]]
      BY <1>3, <2>3
    <3>3. mem' = mem
      BY <1>3, <2>3
    <3>4. /\ doubt' \in [Items(driver) -> {"none", "owed", "swallowed", "ignored", "turned", "unsent"}]
          /\ \A j \in Items(driver) : /\ doubt'[j] # "ignored" => doubt'[j] = doubt[j] /\ Write(j) \notin Left
      <4>1. doubt \in [Items(driver) -> {"none", "owed", "swallowed", "ignored", "turned", "unsent"}]
        BY <1>1 DEF TypeOK
      <4>2. \A j : Write(j) \in Left => \E k \in DOMAIN call.ops : call.ops[k] = Write(j)
        BY DEF Left, OpsOf
      <4> QED
        BY <3>2, <4>1, <4>2
    <3>5. \A j \in Items(driver) : /\ doubt'[j] \notin {"owed", "swallowed"}
                                   /\ doubt'[j] = "none" => doubt[j] = "none"
      BY <1>1, <3>1, <3>4 DEF Owing
    <3>6. Sane'
      BY <1>1, <1>2, <1>7, <3>1, <3>2, <3>3, <3>4, <3>5, CommittedSane
    <3>7. ~Turned /\ \A j : HasCopy(j)
      BY <1>1, <3>1, WritingHasAll
    <3> QED
      BY <3>6, <3>7
  <2>4. CASE fate \in {"lost", "spoilt"}
    <3>1. Abort(doubt) /\ UNCHANGED <<listed, pending>>
      BY <1>3, <2>4
    <3>2. \A j \in Items(driver) : IsWord(driver, j, mem'[j])
      <4>1. IsWord(driver, i, Wire(driver, cache, i))
        BY <1>1, <1>4, <1>6, WireIsWord DEF TypeOK
      <4>2. \A j \in Items(driver) : IsWord(driver, j, mem[j])
        BY <1>1 DEF TypeOK
      <4> QED
        BY <1>6, <1>8, <4>1, <4>2
    <3>3. \A j \in Items(driver) : doubt[j] = "none" => mem'[j] = Wire(driver, cache, j)
      BY <1>1, <1>6, <1>8 DEF MemoryAgrees
    <3>4. Sane' /\ \A j \in Items(driver) : HasCopy(j)' => HasCopy(j)
      BY <1>1, <1>2, <1>6, <1>7, <1>8, <3>1, <3>2, <3>3, Aborted
    <3> QED
      BY <3>4, <1>7, <2>4
  <2> QED
    BY <1>5, <2>1, <2>2, <2>3, <2>4
<1>11. \A j \in Items(driver) : mem'[j] = mem[j] \/ (j = i /\ mem'[j] = Wire(driver, cache, j))
  BY <1>8
<1>12. Keeping'
  BY <1>1, <1>2, <1>6, <1>7, <1>9, <1>10, <1>11, WrittenKeeps DEF setting
<1> QED
  BY <1>10, <1>12 DEF IInv, Sane

-----------------------------------------------------------------------------
(* The steps that change the copy.                                         *)

LEMMA TakenKeeps ==
  ASSUME IInv, listed, call.kind \in {"none", "configure"}, NEW r, Sound(driver, cache, r), Taken(r),
         UNCHANGED <<setting, listed, mem, held, first, misread, faults>>, fresh' \in BOOLEAN,
         \/ call'.kind = "configure" /\ DOMAIN call' = {"kind", "ops"} /\ call.kind = "configure"
         \/ Begun /\ (call'.kind = "none" => ~pending' \/ held)
  PROVE  IInv'
<1>1. TypeOK /\ Whereabouts /\ FreqsRead /\ Shape(driver, cache) /\ MemoryAgrees /\ Untold /\ Owing /\ Keeping
  BY DEF IInv
<1>2. /\ driver' = driver /\ topic' = topic /\ listed' = listed /\ mem' = mem /\ held' = held
      /\ first' = first /\ misread' = misread /\ faults' = faults
  BY DEF setting
<1>3. /\ IsCopy(driver, r.cache) /\ Shape(driver, r.cache)
      /\ \A p \in Profiles : r.cache.freq[p] = cache.freq[p] \/ r.cache.freq[p] \in Freqs
      /\ r.owed \subseteq Items(driver)
      /\ \A i \in Items(driver) \ r.owed : Wire(driver, r.cache, i) = Wire(driver, cache, i)
      /\ driver \in Synapse /\ Global \notin r.owed =>
           \A p \in Profiles : Chosen(Wire(driver, r.cache, Profile(p))) = Chosen(Wire(driver, cache, Profile(p)))
  BY DEF Sound
<1>4. /\ cache' = r.cache /\ pending' \in BOOLEAN
      /\ pending' <=> (pending \/ r.owed # {})
      /\ doubt' = Become(r.owed, "owed")
      /\ touched' = touched \cup r.owed
  BY DEF Taken
<1>5. /\ doubt' \in [Items(driver) -> {"none", "owed", "swallowed", "ignored", "turned", "unsent"}]
      /\ \A j \in Items(driver) : doubt'[j] = IF j \in r.owed THEN "owed" ELSE doubt[j]
  BY <1>1, <1>4, BecomeIs
<1>6. /\ DOMAIN call' = {"kind", "ops"} /\ call'.kind \in {"none", "configure", "release", "reconfig"}
      /\ call'.kind = "none" => call'.ops = <<>> /\ (~pending' \/ held)
      /\ call'.kind \in {"release", "reconfig"} => IsWriting'
      /\ IsWriting' => \A i \in Items(driver) : Write(i) \in Left'
      /\ ~IsReading' /\ (call'.kind = "configure" => call.kind = "configure")
  <2>1. CASE call'.kind = "configure"
    BY <2>1 DEF IsWriting, IsReading, Begun
  <2>2. CASE call'.kind # "configure"
    BY <2>2, <1>2, BegunIs DEF Begun
  <2> QED
    BY <2>1, <2>2
<1>7. ASSUME NEW j \in Items(driver), doubt'[j] \in {"owed", "swallowed"} PROVE pending'
  <2>1. CASE j \in r.owed
    BY <1>4, <2>1
  <2>2. CASE j \notin r.owed
    BY <1>1, <1>4, <1>5, <1>7, <2>2 DEF Owing
  <2> QED
    BY <2>1, <2>2
<1>8. TypeOK'
  <2>1. {listed', pending', held', misread', fresh'} \subseteq BOOLEAN
    <3>1. listed \in BOOLEAN /\ held \in BOOLEAN /\ misread \in BOOLEAN
      BY <1>1 DEF TypeOK
    <3> QED
      BY <3>1, <1>2, <1>4
  <2>2. \A p \in Profiles : cache'.freq[p] \in Freqs
    BY <1>1, <1>3, <1>4 DEF TypeOK
  <2>3. touched' \subseteq Items(driver)
    BY <1>1, <1>3, <1>4 DEF TypeOK
  <2>4. call'.kind \in {"none", "probe", "configure", "release", "reconfig"}
    BY <1>6
  <2> QED
    BY <1>1, <1>2, <1>3, <1>4, <1>5, <1>6, <2>1, <2>2, <2>3, <2>4 DEF TypeOK
<1>9. Whereabouts'
  BY <1>1, <1>2, <1>6 DEF Whereabouts
<1>10. FreqsRead' /\ Untold'
  BY <1>6 DEF FreqsRead, Untold
<1>11. Shape(driver, cache)'
  BY <1>2, <1>3, <1>4
<1>12. MemoryAgrees'
  <2>1. ASSUME NEW j \in Items(driver), doubt'[j] = "none" PROVE mem[j] = Wire(driver, r.cache, j)
    BY <1>1, <1>3, <1>5, <2>1 DEF MemoryAgrees
  <2>2. ASSUME call'.kind = "none", ~held, NEW j \in Items(driver) PROVE doubt'[j] # "owed"
    BY <1>6, <1>7, <2>2
  <2> QED
    BY <1>2, <1>4, <1>7, <2>1, <2>2 DEF MemoryAgrees, Idle
<1>13. Owing'
  BY <1>2, <1>6, <1>7 DEF Owing
<1>14. FirstFits'
  BY <1>1, <1>2 DEF Keeping, FirstFits
<1>15. ASSUME ~misread PROVE KeptInMemory' /\ KeptInCopy' /\ ChosenKept'
  <2>1. KeptInMemory /\ KeptInCopy /\ ChosenKept /\ ~Turned
    BY <1>1, <1>15 DEF Keeping, Turned, IsReading
  <2>2. \A j : HasCopy(j)
    BY DEF HasCopy
  <2>3. KeptInMemory'
    BY <1>2, <1>4, <2>1 DEF KeptInMemory, Excused
  <2>4. ASSUME NEW j \in Items(driver) \ touched' PROVE Tells(driver, r.cache, j, first[j]) \/ Excused(j)
    <3>1. j \notin touched /\ j \notin r.owed
      BY <1>4, <2>4
    <3>2. Tells(driver, cache, j, first[j]) \/ Excused(j)
      BY <2>1, <2>2, <3>1 DEF KeptInCopy
    <3>3. Wire(driver, r.cache, j) = Wire(driver, cache, j)
      BY <1>3, <3>1
    <3>4. CASE j = Global /\ driver \in Synapse
      <4> DEFINE k == r.cache
                 a == SynapseDpis(cache, cache.active)[(cache.sel[cache.active] % 10) + 1]
                 b == SynapseDpis(k, k.active)[(k.sel[k.active] % 10) + 1]
                 s == (cache.sel[cache.active] % 10) + 1
                 t == (k.sel[k.active] % 10) + 1
      <4>1. /\ Wire(driver, cache, Global) =
                 [active |-> cache.active + 1, freq |-> SynapseFreqCode(cache.freq[0]), sel |-> s, dpi |-> a]
            /\ Wire(driver, k, Global) =
                 [active |-> k.active + 1, freq |-> SynapseFreqCode(k.freq[0]), sel |-> t, dpi |-> b]
        BY <3>4, GlobalWire
      <4> HIDE DEF k, a, b, s, t
      <4>2. Wire(driver, k, Global) = Wire(driver, cache, Global)
        BY <3>3, <3>4 DEF k
      <4>3. k.active + 1 = cache.active + 1 /\ SynapseFreqCode(k.freq[0]) = SynapseFreqCode(cache.freq[0])
        BY <4>1, <4>2
      <4>4. k.active \in Nat /\ cache.active \in Nat
        BY <1>1, <1>3, CopyIs, ProfilesAre DEF TypeOK, k
      <4>5. k.active = cache.active
        BY <4>3, <4>4
      <4> QED
        BY <3>2, <3>4, <4>3, <4>5 DEF Tells, k
    <3>5. CASE ~(j = Global /\ driver \in Synapse)
      BY <3>2, <3>3, <3>5 DEF Tells
    <3> QED
      BY <3>4, <3>5
  <2>5. KeptInCopy'
    BY <1>2, <1>4, <2>4 DEF KeptInCopy, Excused
  <2>6. ASSUME driver \in Synapse, Global \notin touched', NEW p \in Profiles
        PROVE  /\ Chosen(mem[Profile(p)]) = Chosen(first[Profile(p)])
               /\ Chosen(Wire(driver, r.cache, Profile(p))) = Chosen(first[Profile(p)])
    <3>1. Global \notin touched /\ Global \notin r.owed
      BY <1>4, <2>6
    <3> QED
      BY <3>1, <1>3, <2>1, <2>2, <2>6 DEF ChosenKept
  <2>7. ChosenKept'
    BY <1>2, <1>4, <2>6 DEF ChosenKept
  <2> QED
    BY <2>3, <2>5, <2>7
<1>16. Keeping'
  BY <1>2, <1>14, <1>15 DEF Keeping
<1> QED
  BY <1>8, <1>9, <1>10, <1>11, <1>12, <1>13, <1>16 DEF IInv

LEMMA ConfigureItemKeeps ==
  ASSUME IInv, ConfigureItem
  PROVE  IInv'
<1> DEFINE it == Head(call.ops)
           r  == ApplyItem(driver, cache, it)
<1>1. TypeOK /\ Whereabouts /\ Shape(driver, cache)
  BY DEF IInv
<1>2. /\ call.kind = "configure" /\ Taken(r)
      /\ call' = IF r.error THEN [call EXCEPT !.ops = <<>>] ELSE OneLess
      /\ UNCHANGED <<setting, listed, mem, held, first, misread, fresh, faults>>
  BY DEF ConfigureItem
<1>3. listed /\ IsCopy(driver, cache) /\ driver \in DriverNames /\ fresh' \in BOOLEAN
  BY <1>1, <1>2, Known DEF Whereabouts, TypeOK
<1>4. Sound(driver, cache, r)
  BY <1>1, <1>3, ItemSound
<1> HIDE DEF it, r
<1>5. call'.kind = "configure" /\ DOMAIN call' = {"kind", "ops"}
  BY <1>1, <1>2 DEF TypeOK, OneLess
<1> QED
  BY <1>2, <1>3, <1>4, <1>5, TakenKeeps

LEMMA CommandKeeps ==
  ASSUME IInv, NEW r, Sound(driver, cache, r), Command(r)
  PROVE  IInv'
<1>1. TypeOK
  BY DEF IInv
<1>2. /\ call.kind = "none" /\ listed /\ Taken(r) /\ call' = Releasing(pending', held) /\ fresh' = FALSE
      /\ UNCHANGED <<setting, listed, mem, held, first, misread, faults>> /\ driver' = driver
  BY DEF Command, Idle, setting
<1>3. /\ DOMAIN call' = {"kind", "ops"}
      /\ pending' /\ ~held => /\ call'.kind = "release" /\ IsWrites(driver, call'.ops)
                              /\ \A i \in Items(driver) : Write(i) \in OpsOf(call'.ops)
      /\ ~(pending' /\ ~held) => call'.kind = "none" /\ call'.ops = <<>>
  BY <1>1, <1>2, ReleasingIs
<1>4. Begun
  BY <1>2, <1>3 DEF Begun, Left
<1>5. call'.kind = "none" => ~pending' \/ held
  BY <1>3
<1> QED
  BY <1>2, <1>4, <1>5, TakenKeeps

LEMMA SetKeeps ==
  ASSUME IInv, NEW cb, IsCall(driver, cb), Command(Effect(cb))
  PROVE  IInv'
<1>1. TypeOK /\ Shape(driver, cache)
  BY DEF IInv
<1>2. driver \in DriverNames /\ IsCopy(driver, cache)
  BY <1>1, Known DEF TypeOK
<1>3. Sound(driver, cache, Setter(driver, cache, cb))
  BY <1>1, <1>2, SetterSound
<1> DEFINE r == Setter(driver, cache, cb)
<1>4. Command(r)
  BY DEF Effect
<1> HIDE DEF r
<1>5. Sound(driver, cache, r)
  BY <1>3 DEF r
<1> QED
  BY <1>4, <1>5, CommandKeeps

(* What a run's clients ask for is what the drivers can be asked. *)
LEMMA TopicsAre ==
  ASSUME TypeOK
  PROVE  /\ topic = "resolution" => driver \in {"Lachesis"} \cup Synapse
         /\ topic = "led" => driver # "Copperhead"
         /\ topic = "name" => driver \in Synapse
         /\ topic = "colour" => driver = "Lachesis5600"
<1>1. topic \in Topics(driver)
  BY DEF TypeOK
<1> QED
  BY <1>1 DEF Topics

LEMMA CommandsKeep ==
  ASSUME IInv,
         \/ ActiveCommand \/ FreqCommand \/ MappingCommand \/ ResolutionCommand
         \/ LedCommand \/ ColourCommand \/ ButtonCommand \/ NameCommand
  PROVE  IInv'
<1>1. TypeOK /\ Shape(driver, cache)
  BY DEF IInv
<1>2. /\ topic = "resolution" => driver \in {"Lachesis"} \cup Synapse
      /\ topic = "led" => driver # "Copperhead"
      /\ topic = "name" => driver \in Synapse
      /\ topic = "colour" => driver = "Lachesis5600"
  BY <1>1, TopicsAre
<1>3. \A cb : IsCall(driver, cb) /\ Command(Effect(cb)) => IInv'
  BY SetKeeps
<1>4. CASE ActiveCommand
  <2>1. PICK p \in Profiles : Command(Effect([op |-> "active", profile |-> p]))
    BY <1>4 DEF ActiveCommand
  <2>2. IsCall(driver, [op |-> "active", profile |-> p])
    BY DEF IsCall
  <2> QED
    BY <1>3, <2>1, <2>2
<1>5. CASE FreqCommand
  <2>1. PICK p \in Profiles, f \in AskedFreqs : Set("freq", p, f)
    BY <1>5 DEF FreqCommand
  <2>2. IsCall(driver, [op |-> "freq", profile |-> p, value |-> f])
    BY DEF IsCall, Freqs
  <2> QED
    BY <1>3, <2>1, <2>2 DEF Set
<1>6. CASE MappingCommand
  <2>1. PICK p \in Profiles, m \in MappingsOf(driver) : Set("mapping", p, m)
    BY <1>6 DEF MappingCommand, MappingNrs
  <2>2. IsCall(driver, [op |-> "mapping", profile |-> p, value |-> m])
    BY DEF IsCall
  <2> QED
    BY <1>3, <2>1, <2>2 DEF Set
<1>7. CASE ResolutionCommand
  <2>1. PICK m \in MappingsOf(driver), r \in AskedRes :
          Command(Effect([op |-> "resolution", mapping |-> m, value |-> r]))
    BY <1>7 DEF ResolutionCommand, MappingNrs
  <2>2. IsCall(driver, [op |-> "resolution", mapping |-> m, value |-> r])
    BY <1>2, <1>7, DriversAssumption DEF IsCall, ResolutionCommand
  <2> QED
    BY <1>3, <2>1, <2>2
<1>8. CASE LedCommand
  <2>1. PICK p \in Profiles, on \in BOOLEAN : Set("led", p, on)
    BY <1>8 DEF LedCommand
  <2>2. IsCall(driver, [op |-> "led", profile |-> p, value |-> on])
    BY <1>2, <1>8 DEF IsCall, LedCommand
  <2> QED
    BY <1>3, <2>1, <2>2 DEF Set
<1>9. CASE ColourCommand
  <2>1. PICK p \in Profiles, v \in {"green", "white"} : Set("colour", p, v)
    BY <1>9 DEF ColourCommand
  <2>2. IsCall(driver, [op |-> "colour", profile |-> p, value |-> v])
    BY <1>2, <1>9 DEF IsCall, ColourCommand, Colours
  <2> QED
    BY <1>3, <2>1, <2>2 DEF Set
<1>10. CASE ButtonCommand
  <2>1. PICK p \in Profiles, b \in {"default", "swapped"} : Set("buttons", p, b)
    BY <1>10 DEF ButtonCommand
  <2>2. IsCall(driver, [op |-> "buttons", profile |-> p, value |-> b])
    BY DEF IsCall
  <2> QED
    BY <1>3, <2>1, <2>2 DEF Set
<1>11. CASE NameCommand
  <2>1. PICK p \in Profiles, n \in {"short", "long"} : Set("name", p, n)
    BY <1>11 DEF NameCommand
  <2>2. IsCall(driver, [op |-> "name", profile |-> p, value |-> n])
    BY <1>2, <1>11 DEF IsCall, NameCommand
  <2> QED
    BY <1>3, <2>1, <2>2 DEF Set
<1> QED
  BY <1>4, <1>5, <1>6, <1>7, <1>8, <1>9, <1>10, <1>11

(* The button of the mouse. *)
LEMMA ProfileButtonKeeps ==
  ASSUME IInv, ProfileButton
  PROVE  IInv'
<1> DEFINE i == IF driver \in Synapse THEN Global ELSE Active
<1>1. TypeOK /\ Whereabouts /\ FreqsRead /\ Shape(driver, cache) /\ MemoryAgrees /\ Untold /\ Owing /\ Keeping
  BY DEF IInv
<1>2. PICK p \in Profiles :
        mem' = [mem EXCEPT ![i] =
                  IF driver \in Synapse
                  THEN LET w == mem[Profile(p)]
                       IN [@ EXCEPT !.active = p + 1, !.sel = w.sel, !.dpi = w.dpis[w.sel]]
                  ELSE p + 1]
  BY DEF ProfileButton
<1>3. /\ call.kind = "none" /\ listed /\ doubt' = Become({i}, "turned") /\ touched' = touched \cup {i}
      /\ fresh' = FALSE /\ driver' = driver /\ topic' = topic /\ listed' = listed /\ cache' = cache
      /\ pending' = pending /\ held' = held /\ call' = call /\ first' = first /\ misread' = misread
      /\ faults' = faults
  BY DEF ProfileButton, Idle, setting
<1>4. driver \in DriverNames /\ (driver \in Older \/ driver \in Synapse)
  BY <1>1, Known DEF DriverNames, Older, Synapse
<1>5. i \in Items(driver)
  BY <1>4, ItemsAre, SynapseItems DEF Older, Synapse
<1>6. /\ DOMAIN mem' = Items(driver)
      /\ \A j \in Items(driver) : j # i => mem'[j] = mem[j]
      /\ IsWord(driver, i, mem'[i])
  <2>1. DOMAIN mem = Items(driver)
    BY <1>1 DEF TypeOK
  <2>2. CASE driver \in Synapse
    <3> DEFINE u == mem[Global]
               w == mem[Profile(p)]
               dpi == w.dpis[w.sel]
               sel == w.sel
               act == p + 1
               v == [u EXCEPT !.active = act, !.sel = sel, !.dpi = dpi]
    <3>1. i = Global /\ mem' = [mem EXCEPT ![Global] = v]
      BY <1>2, <2>2
    <3>2. IsWord(driver, Global, u) /\ IsWord(driver, Profile(p), w)
      BY <1>1, <2>2, SynapseItems DEF TypeOK
    <3>3. sel \in 1 .. 2 /\ dpi \in SynapseDpiCodes
      BY <2>2, <3>2, SynapseWordIs
    <3>4. act \in 1 .. NrProfiles
      BY ProfilesAre
    <3>5. u \in [active : 1 .. NrProfiles, freq : {1, 2, 8}, sel : 1..2, dpi : SynapseDpiCodes]
      BY <3>2, ItemsDiffer DEF IsWord
    <3> HIDE DEF u, w, sel, dpi, act
    <3>6. v \in [active : 1 .. NrProfiles, freq : {1, 2, 8}, sel : 1..2, dpi : SynapseDpiCodes]
      BY <3>3, <3>4, <3>5
    <3>7. IsWord(driver, Global, v)
      BY <3>6, ItemsDiffer DEF IsWord
    <3> HIDE DEF v
    <3> QED
      BY <1>5, <2>1, <3>1, <3>7
  <2>3. CASE driver \notin Synapse
    <3> DEFINE act == p + 1
    <3>1. i = Active /\ mem' = [mem EXCEPT ![Active] = act]
      BY <1>2, <2>3
    <3>2. act \in 1 .. NrProfiles
      BY ProfilesAre
    <3> HIDE DEF act
    <3>3. IsWord(driver, Active, act)
      BY <3>2, ItemsDiffer DEF IsWord
    <3> QED
      BY <1>5, <2>1, <3>1, <3>3
  <2> QED
    BY <2>2, <2>3
<1>7. /\ doubt' \in [Items(driver) -> {"none", "owed", "swallowed", "ignored", "turned", "unsent"}]
      /\ \A j \in Items(driver) : doubt'[j] = IF j = i THEN "turned" ELSE doubt[j]
  BY <1>1, <1>3, BecomeIs
<1>8. (driver \in Synapse => i = Global) /\ (driver \notin Synapse => i = Active)
  OBVIOUS
<1> HIDE DEF i
<1>9. TypeOK'
  <2>1. \A j \in Items(driver) : IsWord(driver, j, mem'[j])
    BY <1>1, <1>6 DEF TypeOK
  <2>2. {listed', pending', held', misread', fresh'} \subseteq BOOLEAN
    <3>1. listed \in BOOLEAN /\ pending \in BOOLEAN /\ held \in BOOLEAN /\ misread \in BOOLEAN
      BY <1>1 DEF TypeOK
    <3> QED
      BY <3>1, <1>3
  <2>3. touched' \subseteq Items(driver)
    BY <1>1, <1>3, <1>5 DEF TypeOK
  <2> QED
    BY <1>1, <1>3, <1>6, <1>7, <2>1, <2>2, <2>3 DEF TypeOK
<1>10. Whereabouts' /\ FreqsRead' /\ Untold'
  BY <1>1, <1>3 DEF Whereabouts, FreqsRead, Untold, IsReading, IsWriting
<1>11. Shape(driver, cache)'
  BY <1>1, <1>3
<1>12. MemoryAgrees' /\ Owing'
  <2>1. \A j \in Items(driver) : /\ doubt'[j] = "none" => doubt[j] = "none" /\ mem'[j] = mem[j]
                                 /\ doubt'[j] \in {"owed", "swallowed"} => doubt'[j] = doubt[j]
    BY <1>6, <1>7
  <2>2. MemoryAgrees'
    BY <1>1, <1>3, <2>1 DEF MemoryAgrees, Idle
  <2> QED
    BY <1>1, <1>3, <2>1, <2>2 DEF Owing, IsWriting
<1>13. FirstFits'
  BY <1>1, <1>3 DEF Keeping, FirstFits
<1>14. ASSUME ~misread PROVE KeptInMemory' /\ KeptInCopy' /\ ChosenKept'
  <2>1. KeptInMemory /\ KeptInCopy /\ ChosenKept /\ ~Turned
    BY <1>1, <1>3, <1>14 DEF Keeping, Turned, IsReading
  <2>2. KeptInMemory'
    BY <1>3, <1>6, <2>1 DEF KeptInMemory, Excused
  <2>3. KeptInCopy'
    BY <1>3, <2>1 DEF KeptInCopy, Excused, HasCopy
  <2>4. ChosenKept'
    BY <1>3, <1>8 DEF ChosenKept
  <2> QED
    BY <2>2, <2>3, <2>4
<1>15. Keeping'
  BY <1>3, <1>13, <1>14 DEF Keeping
<1> QED
  BY <1>9, <1>10, <1>11, <1>12, <1>15 DEF IInv

-----------------------------------------------------------------------------
(* The beginning, and all together.                                        *)

LEMMA ShippedCopyFits ==
  ASSUME NEW d \in DriverNames, NEW a \in Profiles
  PROVE  /\ IsCopy(d, ShippedCopy(d, a)) /\ ShippedCopy(d, a).active = a
         /\ d \in Synapse => ShippedCopy(d, a).sel[NrProfiles - 1] % 10 = 0
<1> DEFINE c == ShippedCopy(d, a)
<1>1. c = [active |-> a,
           freq    |-> [p \in Profiles |-> IF d \in Synapse \/ p = 0 THEN 500 ELSE 1000],
           sel     |-> [p \in Profiles |-> IF d \notin Synapse THEN (p + 1) % 2
                                          ELSE IF p = 0 THEN 1 ELSE 10 * p],
           res     |-> [p \in Profiles |-> [m \in Stages |-> 500 * (m + 1)
                                                          + IF d \in Synapse THEN 100 * p ELSE 0]],
           led     |-> [p \in Profiles |-> d \in Synapse /\ p = 0],
           colour  |-> [p \in Profiles |-> "green"],
           buttons |-> [p \in Profiles |-> IF p = 0 THEN "swapped" ELSE "default"],
           name    |-> [p \in Profiles |-> "short"]]
  BY DEF ShippedCopy, Everywhere
<1> HIDE DEF c
<1>2. IsRecord(c) /\ c.active = a
  BY <1>1 DEF IsRecord
<1>3. c.freq \in [Profiles -> Nat]
  BY <1>1
<1>4. \A p \in Profiles : c.sel[p] = IF d \notin Synapse THEN (p + 1) % 2 ELSE IF p = 0 THEN 1 ELSE 10 * p
  BY <1>1
<1>5. \A p \in Profiles : p \in Nat /\ (p + 1) % 2 \in {0, 1} /\ 10 * p \in Nat /\ 100 * p \in Nat /\ (10 * p) % 10 = 0
  BY ProfilesAre
<1>6. c.sel \in [Profiles -> Nat]
  BY <1>1, <1>5
<1>7. \A p \in Profiles : c.sel[p] \in Own(d, p)
  <2>1. CASE d \in Synapse
    <3>1. \A p \in Profiles : Own(d, p) = {10 * p, 10 * p + 1}
      BY <2>1, OwnIs
    <3>2. \A p \in Profiles : p # 0 => c.sel[p] \in Own(d, p)
      BY <2>1, <1>4, <3>1
    <3>3. 0 \in Profiles /\ Own(d, 0) = {0, 1}
      BY <3>1, ProfilesAre
    <3>4. c.sel[0] = 1
      BY <2>1, <1>4, <3>3
    <3> QED
      BY <3>2, <3>3, <3>4
  <2>2. CASE d \notin Synapse
    BY <2>2, <1>4, <1>5, OwnIs
  <2> QED
    BY <2>1, <2>2
<1>8. c.res \in [Profiles -> [Stages -> Nat]]
  <2>1. \A p \in Profiles, m \in Stages : 500 * (m + 1) + (IF d \in Synapse THEN 100 * p ELSE 0) \in Nat
    BY <1>5, StagesAre
  <2> QED
    BY <1>1, <2>1
<1>9. c.led \in [Profiles -> BOOLEAN]
  <2>1. c.led = [p \in Profiles |-> d \in Synapse /\ p = 0]
    BY <1>1
  <2> QED
    BY <2>1
<1>10. c.colour \in [Profiles -> Colours] /\ c.buttons \in [Profiles -> Presets] /\ c.name \in [Profiles -> Names]
  BY <1>1 DEF Colours, Presets, Names
<1>11. d \in Synapse => c.sel[NrProfiles - 1] % 10 = 0
  <2>1. NrProfiles - 1 \in Profiles /\ NrProfiles - 1 # 0
    BY ProfilesAre
  <2> QED
    BY <2>1, <1>4, <1>5
<1> QED
  BY <1>2, <1>3, <1>6, <1>7, <1>8, <1>9, <1>10, <1>11, CopyIs DEF c

LEMMA ShippedFits ==
  ASSUME NEW d \in DriverNames, NEW a \in Profiles, NEW s, s = Shipped(d, a)
  PROVE  /\ DOMAIN s = Items(d) /\ \A i \in Items(d) : IsWord(d, i, s[i])
         /\ d \in Synapse => Chosen(s[Profile(s[Global].active - 1)]) = <<s[Global].sel, s[Global].dpi>>
<1> DEFINE c == ShippedCopy(d, a)
           l == NrProfiles - 1
           w == Wire(d, c, Profile(l))
           x == w.dpis[1]
           cut == [w EXCEPT !.dpis = <<x>>]
<1>1. IsCopy(d, c) /\ c.active = a /\ (d \in Synapse => c.sel[l] % 10 = 0) /\ l \in Profiles
  BY ShippedCopyFits, ProfilesAre
<1>2. s = [i \in Items(d) |-> IF d \in Synapse /\ i = Profile(l) THEN [Wire(d, c, i) EXCEPT !.dpis = <<@[1]>>]
                              ELSE Wire(d, c, i)]
  BY DEF Shipped
<1> HIDE DEF c, l
<1>3. /\ DOMAIN s = Items(d)
      /\ \A i \in Items(d) : ~(d \in Synapse /\ i = Profile(l)) => s[i] = Wire(d, c, i)
      /\ d \in Synapse /\ Profile(l) \in Items(d) => s[Profile(l)] = cut
  BY <1>2
<1>4. \A i \in Items(d) : IsWord(d, i, Wire(d, c, i))
  BY <1>1, WireIsWord
<1>5. CASE d \in Synapse
  <2>1. Profile(l) \in Items(d) /\ Profile(a) \in Items(d) /\ Global \in Items(d) /\ Global # Profile(l)
    BY <1>1, <1>5, SynapseItems, ItemsDiffer
  <2>2. w = [sel |-> (c.sel[l] % 10) + 1, dpis |-> SynapseDpis(c, l), led |-> c.led[l],
             colour |-> IF d = "Imperator" THEN "black" ELSE c.colour[l], buttons |-> c.buttons[l]]
    BY <1>5, ProfileWire
  <2>3. w.sel = 1
    BY <1>1, <1>5, <2>2
  <2>4. IsWord(d, Profile(l), w)
    BY <1>4, <2>1
  <2>5. w \in SynapseWords /\ (d = "Imperator" => w.colour = "black")
    BY <1>5, <2>4, ItemsDiffer DEF IsWord
  <2>6. x \in SynapseDpiCodes
    BY <1>5, <2>4, SynapseWordIs
  <2> HIDE DEF w, x
  <2>7. cut = [sel |-> w.sel, dpis |-> <<x>>, led |-> w.led, colour |-> w.colour, buttons |-> w.buttons]
    BY <2>5 DEF SynapseWords
  <2>8. <<x>> \in [1..1 -> SynapseDpiCodes] /\ 1 \in DOMAIN <<x>> /\ <<x>>[1] = x
    BY <2>6
  <2> DEFINE y == <<x>>
  <2>9. y \in [1..1 -> SynapseDpiCodes] /\ 1 \in DOMAIN y /\ y[1] = x
    BY <2>8
  <2> HIDE DEF y
  <2>10. cut = [sel |-> w.sel, dpis |-> y, led |-> w.led, colour |-> w.colour, buttons |-> w.buttons]
    BY <2>7 DEF y
  <2> HIDE DEF cut
  <2>11. cut.sel = 1 /\ cut.dpis = y /\ cut.colour = w.colour
    BY <2>3, <2>10
  <2>12. cut \in SynapseWords
    BY <2>5, <2>9, <2>10, <2>11 DEF SynapseWords
  <2>13. IsWord(d, Profile(l), cut)
    BY <1>5, <2>5, <2>11, <2>12, ItemsDiffer DEF IsWord
  <2>14. \A i \in Items(d) : IsWord(d, i, s[i])
    BY <1>3, <1>4, <1>5, <2>1, <2>13
  <2> DEFINE g == s[Global]
             v == Wire(d, c, Profile(a))
  <2>15. g = [active |-> a + 1, freq |-> SynapseFreqCode(c.freq[0]), sel |-> (c.sel[a] % 10) + 1,
              dpi |-> SynapseDpis(c, a)[(c.sel[a] % 10) + 1]]
    BY <1>1, <1>3, <1>5, <2>1, GlobalWire
  <2>16. v.sel = (c.sel[a] % 10) + 1 /\ v.dpis = SynapseDpis(c, a)
    BY <1>5, ProfileWire
  <2> HIDE DEF g, v
  <2>17. g.active - 1 = a /\ g.sel = v.sel /\ g.dpi = v.dpis[v.sel]
    BY <2>15, <2>16, ProfilesAre
  <2>18. Chosen(v) = <<g.sel, g.dpi>>
    BY <2>17 DEF Chosen
  <2>19. Chosen(s[Profile(a)]) = Chosen(v)
    <3>1. CASE a = l
      <4>1. s[Profile(a)] = cut /\ v = w
        BY <1>3, <1>5, <2>1, <3>1 DEF v, w
      <4>2. cut.dpis[cut.sel] = w.dpis[w.sel] /\ cut.sel = w.sel
        BY <2>3, <2>9, <2>11 DEF x
      <4> QED
        BY <4>1, <4>2 DEF Chosen
    <3>2. CASE a # l
      <4>1. Profile(a) # Profile(l)
        BY <3>2, ItemsDiffer
      <4> QED
        BY <1>3, <2>1, <4>1 DEF v
    <3> QED
      BY <3>1, <3>2
  <2> QED
    BY <1>3, <2>14, <2>17, <2>18, <2>19 DEF g
<1>6. CASE d \notin Synapse
  BY <1>3, <1>4, <1>6
<1> QED
  BY <1>5, <1>6

LEMMA InitFits ==
  ASSUME Init
  PROVE  IInv
<1>1. /\ driver \in Drivers /\ topic \in Topics(driver) /\ listed = FALSE /\ cache = Blank(driver)
      /\ first = mem /\ doubt = [i \in Items(driver) |-> "unsent"] /\ pending = FALSE /\ held = FALSE
      /\ call = NoCall /\ touched = {} /\ misread = FALSE /\ fresh = FALSE /\ faults = 0
  BY DEF Init, Unsent
<1>2. PICK a \in Profiles : mem = Shipped(driver, a)
  BY DEF Init
<1>3. driver \in DriverNames
  BY <1>1, DriversNamed
<1>4. /\ IsCopy(driver, cache) /\ Shape(driver, cache)
      /\ \A p \in Profiles : cache.freq[p] \in {0, 125, 500, 1000}
  BY <1>1, <1>3, BlankFits
<1>5. /\ DOMAIN mem = Items(driver) /\ \A i \in Items(driver) : IsWord(driver, i, mem[i])
      /\ driver \in Synapse =>
           Chosen(mem[Profile(mem[Global].active - 1)]) = <<mem[Global].sel, mem[Global].dpi>>
  BY <1>2, <1>3, ShippedFits
<1>6. call.kind = "none" /\ call.ops = <<>> /\ DOMAIN call = {"kind", "ops"}
  BY <1>1 DEF NoCall
<1>7. doubt \in [Items(driver) -> {"unsent"}] /\ \A i \in Items(driver) : doubt[i] = "unsent"
  BY <1>1
<1>8. TypeOK
  <2>1. {listed, pending, held, misread, fresh} \subseteq BOOLEAN
    BY <1>1
  <2>2. \A p \in Profiles : cache.freq[p] \in Freqs \cup IF listed THEN {} ELSE {0}
    BY <1>1, <1>4, FreqsAre
  <2>3. faults \in 0 .. MaxFaults
    BY <1>1, DriversAssumption
  <2> QED
    BY <1>1, <1>4, <1>5, <1>6, <1>7, <2>1, <2>2, <2>3 DEF TypeOK
<1>9. Whereabouts /\ FreqsRead /\ Untold /\ MemoryAgrees /\ Owing
  BY <1>1, <1>6, <1>7 DEF Whereabouts, FreqsRead, Untold, IsReading, MemoryAgrees, Owing
<1>10. Keeping
  <2>1. FirstFits
    BY <1>1, <1>5 DEF FirstFits
  <2>2. \A i : ~HasCopy(i)
    BY <1>1, <1>6 DEF HasCopy
  <2> QED
    BY <1>1, <2>1, <2>2 DEF Keeping, KeptInMemory, KeptInCopy, ChosenKept
<1> QED
  BY <1>4, <1>8, <1>9, <1>10 DEF IInv

LEMMA StutterKeeps ==
  ASSUME IInv, UNCHANGED vars
  PROVE  IInv'
<1>1. TypeOK /\ Whereabouts /\ FreqsRead /\ Shape(driver, cache) /\ MemoryAgrees /\ Untold /\ Owing /\ Keeping
  BY DEF IInv
<1>2. /\ driver' = driver /\ topic' = topic /\ listed' = listed /\ cache' = cache /\ mem' = mem
      /\ doubt' = doubt /\ pending' = pending /\ held' = held /\ call' = call /\ first' = first
      /\ touched' = touched /\ misread' = misread /\ fresh' = fresh /\ faults' = faults
  BY DEF vars
<1>3. TypeOK' /\ Shape(driver, cache)'
  BY <1>1, <1>2 DEF TypeOK
<1>4. (IsReading' <=> IsReading) /\ (IsWriting' <=> IsWriting) /\ Left' = Left
  BY <1>2 DEF IsReading, IsWriting, Left
<1>5. Whereabouts' /\ FreqsRead' /\ MemoryAgrees' /\ Untold' /\ Owing'
  BY <1>1, <1>2, <1>4 DEF Whereabouts, FreqsRead, MemoryAgrees, Untold, Owing, Idle
<1>6. (\A j : HasCopy(j)' => HasCopy(j)) /\ (Turned => Turned')
  BY <1>2, <1>4 DEF HasCopy, Turned
<1>7. Keeping'
  BY <1>1, <1>2, <1>6, KeepsOn
<1> QED
  BY <1>3, <1>5, <1>7 DEF IInv

(* Every step keeps the invariant: each exchange of a probe or a commit,   *)
(* each way it can fail, each command, and the end of the daemon at any    *)
(* point (mouse_new, the commit functions of the five drivers, and         *)
(* mouse_apply_initial_config).                                            *)
THEOREM Invariance == Spec => []IInv
<1>1. Init => IInv
  BY InitFits
<1>2. IInv /\ [Next]_vars => IInv'
  <2> SUFFICES ASSUME IInv, [Next]_vars PROVE IInv'
    OBVIOUS
  <2>1. CASE Probe
    BY <2>1, ProbeKeeps
  <2>2. CASE ReadItem
    BY <2>2, ReadItemKeeps
  <2>3. CASE Misread
    BY <2>3, MisreadKeeps
  <2>4. CASE Unreadable
    BY <2>4, UnreadableKeeps
  <2>5. CASE Pass
    BY <2>5, PassKeeps
  <2>6. CASE FailedExchange
    BY <2>6, FailedExchangeKeeps
  <2>7. CASE WriteItem
    BY <2>7, WriteItemKeeps
  <2>8. CASE FinishCommit
    BY <2>8, FinishCommitKeeps
  <2>9. CASE ConfigureItem
    BY <2>9, ConfigureItemKeeps
  <2>10. CASE Configured
    BY <2>10, ConfiguredKeeps
  <2>11. CASE \/ ActiveCommand \/ FreqCommand \/ MappingCommand \/ ResolutionCommand
              \/ LedCommand \/ ColourCommand \/ ButtonCommand \/ NameCommand
    BY <2>11, CommandsKeep
  <2>12. CASE Reconfig
    BY <2>12, ReconfigKeeps
  <2>13. CASE Hold
    BY <2>13, HoldKeeps
  <2>14. CASE Unhold
    BY <2>14, UnholdKeeps
  <2>15. CASE ProfileButton
    BY <2>15, ProfileButtonKeeps
  <2>16. CASE Unplug
    BY <2>16, UnplugKeeps
  <2>17. CASE UNCHANGED vars
    BY <2>17, StutterKeeps
  <2> QED
    BY <2>1, <2>2, <2>3, <2>4, <2>5, <2>6, <2>7, <2>8, <2>9, <2>10, <2>11, <2>12, <2>13, <2>14, <2>15,
       <2>16, <2>17 DEF Next
<1> QED
  BY <1>1, <1>2, PTL DEF Spec

-----------------------------------------------------------------------------
(* What the next daemon finds.                                             *)

LEMMA OlderFinds ==
  ASSUME NEW d \in Older, NEW c, IsCopy(d, c), NEW p \in Profiles, c.freq[p] \in {125, 500, 1000},
         NEW r, r = Took(d, Blank(d), Profile(p), Wire(d, c, Profile(p)))
  PROVE  /\ r.freq[p] = c.freq[p] /\ r.sel[p] = c.sel[p] /\ r.buttons[p] = c.buttons[p]
         /\ r.res = Blank(d).res /\ r.led = Blank(d).led /\ r.colour = Blank(d).colour
<1> DEFINE v == Wire(d, c, Profile(p))
           b == Blank(d)
           sel == IF d = "Lachesis" THEN v.sel - 1 ELSE 4 - v.sel
<1>1. /\ c.sel[p] \in {0, 1} /\ c.freq[p] \in Nat /\ c.buttons[p] \in Presets
  <2>1. c.freq \in [Profiles -> Nat] /\ c.buttons \in [Profiles -> Presets] /\ c.sel[p] \in Own(d, p)
    BY CopyIs
  <2> QED
    BY <2>1, OlderSame
<1>2. v.sel = SelCode(d, c.sel[p]) /\ v.freq = FreqCode(d, c.freq[p]) /\ v.buttons = c.buttons[p]
  BY OlderWire
<1>3. SlowFreqOf(v.freq) = c.freq[p] /\ SelOf(d, SelCode(d, c.sel[p])) = c.sel[p]
  BY <1>1, <1>2, OlderCodes
<1>4. sel = c.sel[p]
  BY <1>2, <1>3 DEF SelOf
<1>5. IsCopy(d, b)
  BY BlankFits, OlderItems
<1>6. IsRecord(b) /\ b.freq \in [Profiles -> Nat] /\ b.sel \in [Profiles -> Nat] /\ b.buttons \in [Profiles -> Presets]
  BY <1>5, CopyIs
<1>7. sel \in Nat /\ SlowFreqOf(v.freq) \in Nat /\ v.buttons \in Presets
  BY <1>1, <1>2, <1>3, <1>4
<1>8. r = Took(d, b, Profile(p), v)
  OBVIOUS
<1> DEFINE f == SlowFreqOf(v.freq)
<1>9. /\ r.res = b.res /\ r.led = b.led /\ r.colour = b.colour
      /\ IsPut(b.freq, p, f, r.freq, Nat)
      /\ IsPut(b.sel, p, sel, r.sel, Nat)
      /\ IsPut(b.buttons, p, v.buttons, r.buttons, Presets)
  <2> HIDE DEF v, b, sel
  <2>1. sel = IF d = "Lachesis" THEN v.sel - 1 ELSE 4 - v.sel
    BY DEF sel
  <2> QED
    BY <1>6, <1>7, <1>8, <2>1, PlainTookProfile
<1> HIDE DEF v, b, sel, f
<1>10. r.freq[p] = f /\ r.sel[p] = sel /\ r.buttons[p] = v.buttons
  BY <1>9 DEF IsPut
<1> QED
  BY <1>2, <1>3, <1>4, <1>9, <1>10 DEF f, b

LEMMA SynapseFinds ==
  ASSUME NEW d \in Synapse, NEW c, IsCopy(d, c), Shape(d, c), NEW p \in Profiles,
         \A m \in Stages : c.res[p][m] \in {100 * k : k \in 1..64},
         NEW r, r = Took(d, Blank(d), Profile(p), Wire(d, c, Profile(p)))
  PROVE  /\ r.sel[p] = c.sel[p] /\ r.res[p] = c.res[p] /\ r.led[p] = c.led[p]
         /\ r.colour[p] = c.colour[p] /\ r.buttons[p] = c.buttons[p]
<1> DEFINE v == Wire(d, c, Profile(p))
           b == Blank(d)
<1>1. /\ c.res \in [Profiles -> [Stages -> Nat]] /\ c.sel[p] \in Own(d, p)
      /\ c.colour \in [Profiles -> Colours]
  BY CopyIs
<1>2. /\ v.sel = (c.sel[p] % 10) + 1 /\ v.dpis = SynapseDpis(c, p) /\ v.led = c.led[p]
      /\ v.colour = (IF d = "Imperator" THEN "black" ELSE c.colour[p]) /\ v.buttons = c.buttons[p]
  BY ProfileWire
<1>3. IsCopy(d, b) /\ d \in DriverNames
  BY BlankFits, SynapseItems
<1>4. /\ IsRecord(b) /\ b.sel \in [Profiles -> Nat] /\ b.res \in [Profiles -> [Stages -> Nat]]
      /\ b.led \in [Profiles -> BOOLEAN] /\ b.colour \in [Profiles -> Colours] /\ b.buttons \in [Profiles -> Presets]
  BY <1>3, CopyIs
<1>5. IsWord(d, Profile(p), v)
  BY <1>3, SynapseItems, WireIsWord
<1> HIDE DEF v, b
<1>6. v.led \in BOOLEAN /\ v.colour \in Colours /\ v.buttons \in Presets /\ v.sel \in 1 .. 2
  BY <1>5, SynapseWordIs
<1>7. ResFrom(v) \in [Stages -> Nat]
  BY <1>5, ResFromIs
<1>8. p \in Nat /\ 10 * p \in Nat
  BY ProfilesAre
<1>9. 10 * p + v.sel - 1 = c.sel[p] /\ 10 * p + v.sel - 1 \in Nat
  <2>1. c.sel[p] = 10 * p \/ c.sel[p] = 10 * p + 1
    BY <1>1, OwnIs
  <2>2. (10 * p) % 10 = 0 /\ (10 * p + 1) % 10 = 1
    BY <1>8
  <2> QED
    BY <2>1, <2>2, <1>2, <1>8
<1>10. ResFrom(v) = c.res[p]
  <2>1. SynapseDpis(c, p) = [k \in 1..2 |-> SynapseDpi(c.res[p][k - 1])]
    BY DEF SynapseDpis
  <2>2. v.dpis = [k \in 1..2 |-> SynapseDpi(c.res[p][k - 1])]
    BY <1>2, <2>1
  <2>3. Len(v.dpis) = 2 /\ v.dpis[1] = SynapseDpi(c.res[p][0]) /\ v.dpis[2] = SynapseDpi(c.res[p][1])
    <3>1. v.dpis \in [1..2 -> SynapseDpiCodes]
      BY <1>1, <1>2, SynapseDpisAre
    <3>2. Len(v.dpis) = 2
      BY <3>1, FunctionIsSeq
    <3> QED
      BY <2>2, <3>2
  <2>4. \A m \in Stages : SynapseRes(SynapseDpi(c.res[p][m])) = c.res[p][m]
    <3>1. \A k \in 1 .. 64 : SynapseRes(SynapseDpi(100 * k)) = 100 * k
      BY SynapseCodes
    <3> QED
      BY <3>1
  <2>5. ResFrom(v) = [m \in Stages |-> IF m + 1 > Len(v.dpis) THEN 5600 ELSE SynapseRes(v.dpis[m + 1])]
    BY DEF ResFrom
  <2>6. ResFrom(v)[0] = c.res[p][0] /\ ResFrom(v)[1] = c.res[p][1]
    BY <2>3, <2>4, <2>5, StagesAre
  <2>7. c.res[p] \in [Stages -> Nat]
    BY <1>1
  <2> QED
    BY <1>7, <2>6, <2>7, StagesAre
<1>11. /\ IsPut(b.sel, p, 10 * p + v.sel - 1, r.sel, Nat)
       /\ IsPut(b.res, p, ResFrom(v), r.res, [Stages -> Nat])
       /\ IsPut(b.led, p, v.led, r.led, BOOLEAN)
       /\ IsPut(b.colour, p, v.colour, r.colour, Colours)
       /\ IsPut(b.buttons, p, v.buttons, r.buttons, Presets)
  <2>1. r = Took(d, b, Profile(p), v)
    BY DEF b, v
  <2> QED
    BY <1>4, <1>6, <1>7, <1>9, <2>1, SynapseTookProfile
<1> DEFINE s == 10 * p + v.sel - 1
           t == ResFrom(v)
<1>12. s = c.sel[p] /\ t = c.res[p]
  BY <1>9, <1>10
<1>13. IsPut(b.sel, p, s, r.sel, Nat) /\ IsPut(b.res, p, t, r.res, [Stages -> Nat])
  BY <1>11
<1> HIDE DEF s, t
<1>14. r.sel[p] = s /\ r.res[p] = t /\ r.led[p] = v.led /\ r.colour[p] = v.colour /\ r.buttons[p] = v.buttons
  BY <1>11, <1>13 DEF IsPut
<1>15. v.colour = c.colour[p]
  <2>1. d # "Lachesis5600" => c.colour[p] = "black"
    <3>1. d # "Lachesis5600" => c.colour = Zeroed.colour
      BY DEF Shape
    <3>2. Zeroed.colour = [q \in Profiles |-> "black"]
      BY DEF Zeroed, Everywhere
    <3> QED
      BY <3>1, <3>2
  <2> QED
    BY <1>2, <2>1 DEF Synapse
<1> QED
  BY <1>2, <1>12, <1>14, <1>15

(* The copy of a daemon that starts and reads item i. *)
From(i) == Took(driver, Blank(driver), i, mem[i])

LEMMA FoundIs ==
  ASSUME IsCopy(driver, cache),
         From(IF driver \in Synapse THEN Global ELSE Active).active = cache.active,
         \A p \in Profiles :
           /\ From(IF driver \in Synapse THEN Global ELSE Profile(p)).freq[p] = cache.freq[p]
           /\ From(Profile(p)).sel[p] = cache.sel[p]
           /\ From(IF driver = "Lachesis" THEN Mapped ELSE Profile(p)).res[p] = cache.res[p]
           /\ (IF driver \in {"Boomslang", "Lachesis"} THEN mem[Lights] ELSE From(Profile(p)).led[p]) = cache.led[p]
           /\ From(Profile(p)).colour[p] = cache.colour[p]
           /\ From(Profile(p)).buttons[p] = cache.buttons[p]
           /\ (IF driver \in Synapse THEN From(Name(p)).name[p] ELSE Blank(driver).name[p]) = cache.name[p]
  PROVE  Found = cache
<1> DEFINE freq == [p \in Profiles |-> IF driver \in Synapse THEN From(Global).freq[p] ELSE From(Profile(p)).freq[p]]
           sel == [p \in Profiles |-> From(Profile(p)).sel[p]]
           res == [p \in Profiles |-> IF driver = "Lachesis" THEN From(Mapped).res[p] ELSE From(Profile(p)).res[p]]
           led == [p \in Profiles |-> IF driver \in {"Boomslang", "Lachesis"} THEN mem[Lights]
                                      ELSE From(Profile(p)).led[p]]
           colour == [p \in Profiles |-> From(Profile(p)).colour[p]]
           buttons == [p \in Profiles |-> From(Profile(p)).buttons[p]]
           name == [p \in Profiles |-> IF driver \in Synapse THEN From(Name(p)).name[p] ELSE Blank(driver).name[p]]
           active == From(IF driver \in Synapse THEN Global ELSE Active).active
<1>1. Found = [active |-> active, freq |-> freq, sel |-> sel, res |-> res, led |-> led, colour |-> colour,
               buttons |-> buttons, name |-> name]
  BY DEF Found, From
<1>2. /\ IsRecord(cache)
      /\ cache.freq \in [Profiles -> Nat] /\ cache.sel \in [Profiles -> Nat]
      /\ cache.res \in [Profiles -> [Stages -> Nat]] /\ cache.led \in [Profiles -> BOOLEAN]
      /\ cache.colour \in [Profiles -> Colours] /\ cache.buttons \in [Profiles -> Presets]
      /\ cache.name \in [Profiles -> Names]
  BY CopyIs
<1>3. freq = cache.freq
  BY <1>2
<1>4. sel = cache.sel
  BY <1>2
<1>5. res = cache.res
  BY <1>2
<1>6. led = cache.led
  BY <1>2
<1>7. colour = cache.colour
  BY <1>2
<1>8. buttons = cache.buttons
  BY <1>2
<1>9. name = cache.name
  BY <1>2
<1> HIDE DEF active, freq, sel, res, led, colour, buttons, name
<1>10. active = cache.active
  BY DEF active
<1> QED
  BY <1>1, <1>2, <1>3, <1>4, <1>5, <1>6, <1>7, <1>8, <1>9, <1>10 DEF IsRecord

LEMMA OlderFound ==
  ASSUME driver \in Older, IsCopy(driver, cache), Shape(driver, cache), Sayable,
         \A i \in Items(driver) : mem[i] = Wire(driver, cache, i)
  PROVE  Found = cache
<1> DEFINE d == driver
           c == cache
           b == Blank(d)
<1>1. d \in DriverNames /\ d \notin Synapse
  BY OlderItems
<1>2. /\ Active \in Items(d) /\ \A p \in Profiles : Profile(p) \in Items(d)
      /\ d \in {"Boomslang", "Lachesis"} => Lights \in Items(d)
      /\ d = "Lachesis" => Mapped \in Items(d)
  BY <1>1, ItemsAre DEF Older
<1>3. IsRecord(b) /\ IsRecord(c) /\ c.active \in Profiles /\ c.res \in [Profiles -> [Stages -> Nat]]
  BY <1>1, BlankFits, CopyIs
<1>4. b.colour = Zeroed.colour /\ b.name = Zeroed.name
      /\ (d # "Lachesis" => b.res = Zeroed.res) /\ (d = "Copperhead" => b.led = Zeroed.led)
  BY <1>1, BlankFits DEF Shape, Older
<1>5. /\ c.colour = Zeroed.colour /\ c.name = Zeroed.name
      /\ (d # "Lachesis" => c.res = Zeroed.res) /\ (d = "Copperhead" => c.led = Zeroed.led)
      /\ d # "Copperhead" => \A p \in Profiles : c.led[p] = c.led[0]
      /\ d = "Lachesis" => \A p \in Profiles : c.res[p] = c.res[0]
  BY <1>1 DEF Shape, Older
<1>6. From(Active).active = c.active
  <2>1. mem[Active] = c.active + 1
    BY <1>2, ActiveWire
  <2>2. From(Active).active = mem[Active] - 1
    BY <1>3, PlainTookActive DEF From
  <2> QED
    BY <1>3, <2>1, <2>2, ProfilesAre
<1>7. ASSUME NEW p \in Profiles
      PROVE  /\ From(Profile(p)).freq[p] = c.freq[p] /\ From(Profile(p)).sel[p] = c.sel[p]
             /\ From(Profile(p)).buttons[p] = c.buttons[p]
             /\ From(Profile(p)).res = b.res /\ From(Profile(p)).led = b.led /\ From(Profile(p)).colour = b.colour
  <2>1. c.freq[p] \in {125, 500, 1000}
    BY DEF Sayable
  <2>2. From(Profile(p)) = Took(d, b, Profile(p), Wire(d, c, Profile(p)))
    BY <1>2 DEF From
  <2> QED
    BY <2>1, <2>2, OlderFinds
<1>8. d \in {"Boomslang", "Lachesis"} => mem[Lights] = c.led[0]
  BY <1>2, LightsWire
<1>9. ASSUME d = "Lachesis", NEW p \in Profiles
      PROVE  From(Mapped).res[p] = c.res[p]
  <2>1. mem[Mapped] = [m \in Stages |-> LachesisDpi(c.res[0][m])]
    BY <1>2, <1>9, MappedWire
  <2>2. \A m \in Stages : LachesisRes(mem[Mapped][m]) = c.res[0][m] /\ c.res[0][m] \in Nat
    <3>1. \A m \in Stages : mem[Mapped][m] = LachesisDpi(c.res[0][m])
      BY <2>1
    <3>2. \A m \in Stages : c.res[0][m] \in {125 * k : k \in 1..256}
      BY <1>9 DEF Sayable
    <3>3. \A k \in 1 .. 256 : LachesisRes(LachesisDpi(125 * k)) = 125 * k
      BY LachesisCodes
    <3>4. \A m \in Stages : LachesisRes(LachesisDpi(c.res[0][m])) = c.res[0][m]
      BY <3>2, <3>3
    <3>5. \A m \in Stages : c.res[0][m] \in Nat
      BY <1>3, ProfilesAre
    <3> QED
      BY <3>1, <3>4, <3>5
  <2>3. /\ From(Mapped).res \in [Profiles -> [Stages -> Nat]]
        /\ \A m \in Stages : From(Mapped).res[p][m] = LachesisRes(mem[Mapped][m])
    <3>1. From(Mapped) = Took("Lachesis", b, Mapped, mem[Mapped])
      BY <1>9 DEF From
    <3>2. \A m \in Stages : LachesisRes(mem[Mapped][m]) \in Nat
      BY <2>2
    <3> QED
      BY <1>3, <3>1, <3>2, LachesisTookMapped
  <2>4. c.res[p] = c.res[0] /\ c.res[p] \in [Stages -> Nat] /\ From(Mapped).res[p] \in [Stages -> Nat]
    BY <1>3, <1>5, <1>9, <2>3
  <2>5. \A m \in Stages : From(Mapped).res[p][m] = c.res[p][m]
    BY <2>2, <2>3, <2>4
  <2> QED
    BY <2>4, <2>5
<1> HIDE DEF d, c, b
<1>10. ASSUME NEW p \in Profiles
       PROVE  /\ From(IF d \in Synapse THEN Global ELSE Profile(p)).freq[p] = c.freq[p]
              /\ From(Profile(p)).sel[p] = c.sel[p]
              /\ From(IF d = "Lachesis" THEN Mapped ELSE Profile(p)).res[p] = c.res[p]
              /\ (IF d \in {"Boomslang", "Lachesis"} THEN mem[Lights] ELSE From(Profile(p)).led[p]) = c.led[p]
              /\ From(Profile(p)).colour[p] = c.colour[p]
              /\ From(Profile(p)).buttons[p] = c.buttons[p]
              /\ (IF d \in Synapse THEN From(Name(p)).name[p] ELSE b.name[p]) = c.name[p]
  <2>1. From(IF d \in Synapse THEN Global ELSE Profile(p)).freq[p] = c.freq[p]
    BY <1>1, <1>7
  <2>2. From(Profile(p)).sel[p] = c.sel[p] /\ From(Profile(p)).buttons[p] = c.buttons[p]
    BY <1>7
  <2>3. From(IF d = "Lachesis" THEN Mapped ELSE Profile(p)).res[p] = c.res[p]
    BY <1>4, <1>5, <1>7, <1>9
  <2>4. (IF d \in {"Boomslang", "Lachesis"} THEN mem[Lights] ELSE From(Profile(p)).led[p]) = c.led[p]
    <3>1. CASE d = "Copperhead"
      <4>1. From(Profile(p)).led = c.led
        BY <1>4, <1>5, <1>7, <3>1
      <4> QED
        BY <3>1, <4>1
    <3>2. CASE d \in {"Boomslang", "Lachesis"}
      <4>1. mem[Lights] = c.led[0] /\ c.led[p] = c.led[0]
        BY <1>5, <1>8, <3>2
      <4> QED
        BY <3>2, <4>1
    <3>3. d \in Older
      BY DEF d
    <3> QED
      BY <3>1, <3>2, <3>3 DEF Older
  <2>5. From(Profile(p)).colour[p] = c.colour[p]
    BY <1>4, <1>5, <1>7
  <2>6. (IF d \in Synapse THEN From(Name(p)).name[p] ELSE b.name[p]) = c.name[p]
    BY <1>1, <1>4, <1>5
  <2> QED
    BY <2>1, <2>2, <2>3, <2>4, <2>5, <2>6
<1>11. From(IF d \in Synapse THEN Global ELSE Active).active = c.active
  BY <1>1, <1>6
<1> QED
  BY <1>10, <1>11, FoundIs DEF d, c, b

LEMMA SynapseFound ==
  ASSUME driver \in Synapse, IsCopy(driver, cache), Shape(driver, cache), Sayable,
         \A i \in Items(driver) : mem[i] = Wire(driver, cache, i)
  PROVE  Found = cache
<1> DEFINE d == driver
           c == cache
           b == Blank(d)
<1>1. /\ d \in DriverNames /\ Global \in Items(d)
      /\ \A p \in Profiles : Profile(p) \in Items(d) /\ Name(p) \in Items(d)
      /\ d # "Lachesis" /\ d \notin {"Boomslang", "Lachesis"}
  BY SynapseItems DEF Synapse
<1>2. /\ IsRecord(b) /\ IsRecord(c) /\ c.active \in Profiles /\ c.freq \in [Profiles -> Nat]
      /\ c.name \in [Profiles -> Names] /\ b.name \in [Profiles -> Names]
  BY <1>1, BlankFits, CopyIs
<1>3. \A p \in Profiles : c.freq[p] = c.freq[0] /\ c.freq[p] \in {125, 500, 1000}
  BY DEF Shape, Sayable
<1>4. mem[Global].active = c.active + 1 /\ mem[Global].freq = SynapseFreqCode(c.freq[0])
  <2>1. mem[Global] = Wire(d, c, Global)
    BY <1>1
  <2>2. Wire(d, c, Global) =
           [active |-> c.active + 1, freq |-> SynapseFreqCode(c.freq[0]),
            sel |-> (c.sel[c.active] % 10) + 1,
            dpi |-> SynapseDpis(c, c.active)[(c.sel[c.active] % 10) + 1]]
    BY GlobalWire
  <2> HIDE DEF d, c
  <2> QED
    BY <2>1, <2>2
<1>5. SynapseFreqOf(mem[Global].freq) = c.freq[0] /\ SynapseFreqOf(mem[Global].freq) \in Nat
  BY <1>3, <1>4, SynapseCodes, ProfilesAre
<1>6. /\ From(Global).active = mem[Global].active - 1
      /\ \A p \in Profiles : From(Global).freq[p] = SynapseFreqOf(mem[Global].freq)
  BY <1>2, <1>5, SynapseTookGlobal DEF From
<1>7. From(Global).active = c.active
  BY <1>2, <1>4, <1>6, ProfilesAre
<1>8. ASSUME NEW p \in Profiles
      PROVE  /\ From(Profile(p)).sel[p] = c.sel[p] /\ From(Profile(p)).res[p] = c.res[p]
             /\ From(Profile(p)).led[p] = c.led[p] /\ From(Profile(p)).colour[p] = c.colour[p]
             /\ From(Profile(p)).buttons[p] = c.buttons[p]
  <2>1. \A m \in Stages : c.res[p][m] \in {100 * k : k \in 1..64}
    BY DEF Sayable
  <2>2. From(Profile(p)) = Took(d, b, Profile(p), Wire(d, c, Profile(p)))
    BY <1>1 DEF From
  <2> QED
    BY <2>1, <2>2, SynapseFinds
<1>9. ASSUME NEW p \in Profiles
      PROVE  From(Name(p)).name[p] = c.name[p]
  <2>1. mem[Name(p)] = c.name[p] /\ mem[Name(p)] \in Names
    BY <1>1, <1>2, NameWire
  <2>2. IsPut(b.name, p, mem[Name(p)], From(Name(p)).name, Names)
    BY <1>2, <2>1, SynapseTookName DEF From
  <2> QED
    BY <2>1, <2>2 DEF IsPut
<1> HIDE DEF d, c, b
<1>10. d \in Synapse
  BY DEF d
<1>11. ASSUME NEW p \in Profiles
       PROVE  /\ From(IF d \in Synapse THEN Global ELSE Profile(p)).freq[p] = c.freq[p]
              /\ From(Profile(p)).sel[p] = c.sel[p]
              /\ From(IF d = "Lachesis" THEN Mapped ELSE Profile(p)).res[p] = c.res[p]
              /\ (IF d \in {"Boomslang", "Lachesis"} THEN mem[Lights] ELSE From(Profile(p)).led[p]) = c.led[p]
              /\ From(Profile(p)).colour[p] = c.colour[p]
              /\ From(Profile(p)).buttons[p] = c.buttons[p]
              /\ (IF d \in Synapse THEN From(Name(p)).name[p] ELSE b.name[p]) = c.name[p]
  <2>1. From(IF d \in Synapse THEN Global ELSE Profile(p)).freq[p] = c.freq[p]
    BY <1>3, <1>5, <1>6, <1>10
  <2>2. From(IF d = "Lachesis" THEN Mapped ELSE Profile(p)).res[p] = c.res[p]
    BY <1>1, <1>8
  <2>3. (IF d \in {"Boomslang", "Lachesis"} THEN mem[Lights] ELSE From(Profile(p)).led[p]) = c.led[p]
    <3>1. From(Profile(p)).led[p] = c.led[p]
      BY <1>8
    <3> QED
      BY <1>1, <3>1
  <2>4. (IF d \in Synapse THEN From(Name(p)).name[p] ELSE b.name[p]) = c.name[p]
    BY <1>9, <1>10
  <2> QED
    BY <1>8, <2>1, <2>2, <2>3, <2>4
<1>12. From(IF d \in Synapse THEN Global ELSE Active).active = c.active
  BY <1>7, <1>10
<1> QED
  BY <1>11, <1>12, FoundIs DEF d, c, b

(* What the invariant says of the properties. *)
LEMMA NextDaemonIs ==
  ASSUME IInv
  PROVE  NextDaemonFinds
<1> SUFFICES ASSUME Written, Sayable
             PROVE  Found = cache
  BY DEF NextDaemonFinds
<1>1. IsCopy(driver, cache) /\ Shape(driver, cache) /\ driver \in DriverNames
  BY Known DEF IInv, TypeOK
<1>2. \A i \in Items(driver) : mem[i] = Wire(driver, cache, i)
  BY DEF IInv, MemoryAgrees, Written
<1>3. driver \in Older \/ driver \in Synapse
  BY <1>1 DEF DriverNames, Older, Synapse
<1> QED
  BY <1>1, <1>2, <1>3, OlderFound, SynapseFound

LEMMA UntouchedIs ==
  ASSUME IInv
  PROVE  UntouchedKept
<1> SUFFICES ASSUME ~misread, NEW i \in Items(driver) \ touched
             PROVE  \/ Meaning(driver, i, mem[i]) = Meaning(driver, i, first[i])
                    \/ driver = "Boomslang" /\ i = Lights
                    \/ driver = "Lachesis" /\ i = Active /\ (faults > 0 \/ ~Idle)
  BY DEF UntouchedKept
<1>1. KeptInMemory
  BY DEF IInv, Keeping
<1>2. Turned => ~Idle
  BY DEF Turned, IsReading, Idle
<1> QED
  BY <1>1, <1>2 DEF KeptInMemory, Excused

(* The copy has values of its kinds whatever the driver, the file and the  *)
(* commands, a profile's mapping is one of its own, and every code in the  *)
(* memory is one that the driver can read.                                 *)
THEOREM TypeCorrect == Spec => []TypeOK
<1>1. IInv => TypeOK
  BY DEF IInv
<1> QED
  BY <1>1, Invariance, PTL

(* What there is no reason to doubt is in the memory as the copy has it,   *)
(* and what is owed is pending until it is written (the commit functions,  *)
(* mouse->release and the setters of the five drivers).                    *)
THEOREM MemoryFollows == Spec => []MemoryAgrees
<1>1. IInv => MemoryAgrees
  BY DEF IInv
<1> QED
  BY <1>1, Invariance, PTL

(* The memory keeps what nobody changed, through any number of probes,     *)
(* commits and failures: a commit writes everything, from a copy that was  *)
(* read of the same items (the drivers' init and commit functions).        *)
THEOREM UntouchedStays == Spec => []UntouchedKept
<1>1. IInv => UntouchedKept
  BY UntouchedIs
<1> QED
  BY <1>1, Invariance, PTL

(* When everything was written the next daemon finds what this one         *)
(* reports: each code is read as the setting that it was written for.      *)
THEOREM NextDaemonAgrees == Spec => []NextDaemonFinds
<1>1. IInv => NextDaemonFinds
  BY NextDaemonIs
<1> QED
  BY <1>1, Invariance, PTL

-----------------------------------------------------------------------------
(* What an item of the configuration does to the copy.                     *)

(* The copy says nothing that the wire cannot. *)
Says(d, c) ==
  /\ \A p \in Profiles : c.freq[p] \in {125, 500, 1000}
  /\ d = "Lachesis" => \A m \in Stages : c.res[0][m] \in {125 * k : k \in 1..256}
  /\ d \in Synapse  => \A p \in Profiles, m \in Stages : c.res[p][m] \in {100 * k : k \in 1..64}

(* What an item does, that led from copy c to the result r: it is an error *)
(* if the file is wrong there, or it is obeyed, and items about something  *)
(* else still are.                                                         *)
Heeded(d, c, it, r) ==
  /\ IsError(d, c, it) => r.error = TRUE /\ r.cache = c
  /\ ~IsError(d, c, it) =>
       /\ r.error = FALSE
       /\ r.cache.res = c.res
       /\ \A p \in Profiles : r.cache.freq[p] = c.freq[p] \/ r.cache.freq[p] \in {125, 500, 1000}
       /\ Obeys(d, r.cache, it)
       /\ \A other : Obeys(d, c, other) /\ ~IsError(d, c, other) /\ ~SameSubject(d, other, it)
                        => Obeys(d, r.cache, other)

(* Only the resolutions of a copy say what is offered and what is wrong. *)
LEMMA SameRes ==
  ASSUME NEW d, NEW c, NEW k, k.res = c.res
  PROVE  /\ \A m : ResOf(d, k, m) = ResOf(d, c, m)
         /\ \A p, it : Offers(d, k, p, it) <=> Offers(d, c, p, it)
         /\ \A it : IsError(d, k, it) <=> IsError(d, c, it)
<1>1. \A m : ResOf(d, k, m) = ResOf(d, c, m)
  BY DEF ResOf
<1>2. \A p, it : Offers(d, k, p, it) <=> Offers(d, c, p, it)
  BY <1>1 DEF Offers
<1>3. ASSUME NEW it PROVE IsError(d, k, it) <=> IsError(d, c, it)
  <2> DEFINE taken(e) == \E q \in Profiles \ {it.profile - 1} :
                           Offers(d, e, q, it) /\ (q + 1 < it.profile \/ ~Offers(d, e, it.profile - 1, it))
  <2>1. taken(k) <=> taken(c)
    BY <1>2
  <2> DEFINE wrong == \/ it.item = "profile" /\ it.value \notin 1 .. NrProfiles
                      \/ it.item \in {"res", "freq", "led", "mode", "color"} /\ it.profile \notin 0 .. NrProfiles
                      \/ it.item = "freq" /\ it.value \notin {125, 500, 1000}
                      \/ it.item = "res" /\ it.value < 1
                      \/ it.item = "led" /\ it.value \notin BOOLEAN
                      \/ it.item = "color" /\ it.value \notin Colours
             about == d \in Synapse /\ it.item = "res"
  <2>2. IsError(d, k, it) <=> wrong \/ (about /\ taken(k))
    BY DEF IsError
  <2>3. IsError(d, c, it) <=> wrong \/ (about /\ taken(c))
    BY DEF IsError
  <2> HIDE DEF taken, wrong, about
  <2> QED
    BY <2>1, <2>2, <2>3
<1> QED
  BY <1>1, <1>2, <1>3

LEMMA StillObeyed ==
  ASSUME NEW d, NEW c, NEW k, k.res = c.res, NEW it, NEW p, p = it.profile - 1,
         it.item = "profile" => k.active = c.active,
         it.profile # 0 /\ it.item = "freq" /\ d \notin Synapse => k.freq[p] = c.freq[p],
         it.profile # 0 /\ it.item = "led" /\ d # "Copperhead" => k.led[p] = c.led[p],
         it.profile # 0 /\ it.item = "color" /\ d = "Lachesis5600" => k.colour[p] = c.colour[p],
         it.profile # 0 /\ it.item = "res" => k.sel[p] = c.sel[p],
         Obeys(d, c, it)
  PROVE  Obeys(d, k, it)
<1>1. Offers(d, k, p, it) <=> Offers(d, c, p, it)
  BY SameRes
<1>2. ResOf(d, k, c.sel[p]) = ResOf(d, c, c.sel[p])
  BY SameRes
<1> QED
  BY <1>1, <1>2 DEF Obeys

LEMMA NothingHeeded ==
  ASSUME NEW d, NEW c, NEW it, ~IsError(d, c, it), Obeys(d, c, it), NEW r, r = Ignored(c)
  PROVE  Heeded(d, c, it, r)
<1>1. r.error = FALSE /\ r.cache = c
  BY DEF Ignored
<1> QED
  BY <1>1 DEF Heeded

LEMMA WrongHeeded ==
  ASSUME NEW d, NEW c, NEW it, IsError(d, c, it), NEW r, r = Wrong(c)
  PROVE  Heeded(d, c, it, r)
  BY DEF Heeded, Wrong

LEMMA DoneIs ==
  ASSUME NEW r
  PROVE  Done(r).error = r.err /\ Done(r).cache = r.cache
  BY DEF Done

(* The setters, in the copy's fields. *)
(* The setter returned no error. *)
Fine(r) == r.err = FALSE


LEMMA ActiveSets ==
  ASSUME NEW d \in DriverNames, NEW c, IsRecord(c), NEW cb, cb.op = "active", NEW r, r = Setter(d, c, cb),
         NEW k, k = r.cache
  PROVE  /\ Fine(r) /\ k.active = cb.profile
         /\ k.freq = c.freq /\ k.sel = c.sel /\ k.res = c.res /\ k.led = c.led /\ k.colour = c.colour
<1>1. k = [c EXCEPT !.active = cb.profile] /\ Fine(r)
  BY DEF Setter, BoomslangCall, CopperheadCall, LachesisCall, BoomslangSetting, CopperheadSetting, LachesisSetting,
         PlainSetting, Changed, Fine, SynapseCall, SynapseActive, DriverNames
<1> QED
  BY <1>1 DEF IsRecord

LEMMA FreqSets ==
  ASSUME NEW d \in Older, NEW c, IsRecord(c), NEW cb, cb.op = "freq", cb.profile \in Profiles,
         c.freq \in [Profiles -> Nat], NEW r, r = Setter(d, c, cb), NEW k, k = r.cache
  PROVE  /\ Fine(r) /\ k.active = c.active
         /\ k.sel = c.sel /\ k.res = c.res /\ k.led = c.led /\ k.colour = c.colour
         /\ \A q \in Profiles : k.freq[q] = IF q = cb.profile THEN cb.value ELSE c.freq[q]
<1> DEFINE p == cb.profile
           x == cb.value
<1>1. k = [c EXCEPT !.freq[p] = x] /\ Fine(r)
  BY DEF Setter, BoomslangCall, CopperheadCall, LachesisCall, BoomslangSetting, CopperheadSetting, LachesisSetting,
         PlainSetting, Changed, Fine, Older
<1> HIDE DEF p, x
<1>2. /\ k.active = c.active /\ k.sel = c.sel /\ k.res = c.res /\ k.led = c.led /\ k.colour = c.colour
      /\ k.freq = [c.freq EXCEPT ![p] = x]
  BY <1>1 DEF IsRecord
<1>3. \A q \in Profiles : k.freq[q] = IF q = p THEN x ELSE c.freq[q]
  BY <1>2
<1> QED
  BY <1>1, <1>2, <1>3 DEF p, x

LEMMA MappingSets ==
  ASSUME NEW d \in DriverNames, NEW c, IsRecord(c), NEW cb, cb.op = "mapping", cb.profile \in Profiles,
         c.sel \in [Profiles -> Nat], NEW r, r = Setter(d, c, cb), NEW k, k = r.cache
  PROVE  IF d \in Synapse /\ cb.value \div 10 # cb.profile
         THEN r = Refused(c)
         ELSE /\ Fine(r) /\ k.active = c.active
              /\ k.freq = c.freq /\ k.res = c.res /\ k.led = c.led /\ k.colour = c.colour
              /\ \A q \in Profiles : k.sel[q] = IF q = cb.profile THEN cb.value ELSE c.sel[q]
<1> DEFINE p == cb.profile
           x == cb.value
<1>1. CASE d \in Synapse /\ x \div 10 # p
  <2>1. r = Refused(c)
    BY <1>1 DEF Setter, SynapseCall, SynapseMapping, Synapse
  <2> QED
    BY <1>1, <2>1
<1>2. CASE ~ (d \in Synapse /\ x \div 10 # p)
  <2>1. k = [c EXCEPT !.sel[p] = x] /\ Fine(r)
    <3>1. CASE d \in Synapse
      BY <1>2, <3>1 DEF Setter, SynapseCall, SynapseMapping, Changed, Fine, Synapse
    <3>2. CASE d \in Older
      BY <3>2 DEF Setter, BoomslangCall, CopperheadCall, LachesisCall, BoomslangSetting, CopperheadSetting,
                  LachesisSetting, PlainSetting, Changed, Fine, Older
    <3> QED
      BY <3>1, <3>2 DEF DriverNames, Older, Synapse
  <2>0. p \in Profiles
    OBVIOUS
  <2> HIDE DEF p, x
  <2>2. /\ k.active = c.active /\ k.freq = c.freq /\ k.res = c.res /\ k.led = c.led /\ k.colour = c.colour
        /\ k.sel = [c.sel EXCEPT ![p] = x]
    BY <2>1 DEF IsRecord
  <2>3. \A q \in Profiles : k.sel[q] = IF q = p THEN x ELSE c.sel[q]
    BY <2>2
  <2>4. Fine(r)
    BY <2>1
  <2> QED
    BY <1>2, <2>2, <2>3, <2>4 DEF p, x
<1> QED
  BY <1>1, <1>2

LEMMA LedSets ==
  ASSUME NEW d \in DriverNames \ {"Copperhead"}, NEW c, IsRecord(c), NEW cb, cb.op = "led",
         d \in Synapse => cb.profile \in Profiles,
         c.led \in [Profiles -> BOOLEAN], NEW r, r = Setter(d, c, cb), NEW k, k = r.cache
  PROVE  /\ Fine(r) /\ k.active = c.active
         /\ k.freq = c.freq /\ k.sel = c.sel /\ k.res = c.res /\ k.colour = c.colour
         /\ \A q \in Profiles : k.led[q] = IF d \in Synapse /\ q # cb.profile THEN c.led[q] ELSE cb.value
<1> DEFINE p == cb.profile
           x == cb.value
<1>1. CASE d \in Synapse
  <2>1. k = [c EXCEPT !.led[p] = x] /\ Fine(r)
    BY <1>1 DEF Setter, SynapseCall, SynapseLed, Changed, Fine, Synapse
  <2>0. p \in Profiles
    BY <1>1
  <2> HIDE DEF p, x
  <2>2. /\ k.active = c.active /\ k.freq = c.freq /\ k.res = c.res /\ k.sel = c.sel /\ k.colour = c.colour
        /\ k.led = [c.led EXCEPT ![p] = x]
    BY <2>1 DEF IsRecord
  <2>3. \A q \in Profiles : k.led[q] = IF q # p THEN c.led[q] ELSE x
    BY <2>2
  <2> QED
    BY <1>1, <2>1, <2>2, <2>3 DEF p, x
<1>2. CASE d \in {"Boomslang", "Lachesis"}
  <2>1. k = [c EXCEPT !.led = Everywhere(x)] /\ Fine(r)
    BY <1>2 DEF Setter, BoomslangCall, LachesisCall, BoomslangLed, LachesisLed, PlainLed, Changed, Fine
  <2> DEFINE e == Everywhere(x)
  <2>2. \A q \in Profiles : e[q] = x
    BY DEF Everywhere
  <2> HIDE DEF e
  <2>3. k = [c EXCEPT !.led = e]
    BY <2>1 DEF e
  <2>4. /\ k.active = c.active /\ k.freq = c.freq /\ k.res = c.res /\ k.sel = c.sel /\ k.colour = c.colour
        /\ k.led = e
    BY <2>3 DEF IsRecord
  <2> QED
    BY <1>2, <2>1, <2>2, <2>4 DEF Synapse
<1> QED
  BY <1>1, <1>2 DEF DriverNames, Synapse

LEMMA ColourSets ==
  ASSUME NEW c, IsRecord(c), NEW cb, cb.op = "colour", cb.profile \in Profiles,
         c.colour \in [Profiles -> Colours], NEW r, r = Setter("Lachesis5600", c, cb), NEW k, k = r.cache
  PROVE  /\ Fine(r) /\ k.active = c.active
         /\ k.freq = c.freq /\ k.sel = c.sel /\ k.res = c.res /\ k.led = c.led
         /\ \A q \in Profiles : k.colour[q] = IF q = cb.profile THEN cb.value ELSE c.colour[q]
<1> DEFINE p == cb.profile
           x == cb.value
<1>1. k = [c EXCEPT !.colour[p] = x] /\ Fine(r)
  BY DEF Setter, SynapseCall, SynapseColour, Changed, Fine
<1> HIDE DEF p, x
<1>2. /\ k.active = c.active /\ k.freq = c.freq /\ k.sel = c.sel /\ k.res = c.res /\ k.led = c.led
      /\ k.colour = [c.colour EXCEPT ![p] = x]
  BY <1>1 DEF IsRecord
<1>3. \A q \in Profiles : k.colour[q] = IF q = p THEN x ELSE c.colour[q]
  BY <1>2
<1> QED
  BY <1>1, <1>2, <1>3 DEF p, x

(* The items, one kind after the other. *)
LEMMA NumberIs ==
  ASSUME NEW n \in Int
  PROVE  /\ n \in 0 .. NrProfiles /\ n # 0 <=> n - 1 \in Profiles
         /\ n \in 1 .. NrProfiles <=> n - 1 \in Profiles
  BY ProfilesAssumption DEF Profiles

LEMMA ProfileHeeded ==
  ASSUME NEW d \in DriverNames, NEW c, IsCopy(d, c), NEW it, it.item = "profile",
         NEW r, r = ProfileItem(d, c, it)
  PROVE  Heeded(d, c, it, r)
<1>1. IsError(d, c, it) <=> it.value \notin 1 .. NrProfiles
  BY DEF IsError
<1>2. CASE it.value \notin 1 .. NrProfiles
  BY <1>1, <1>2, WrongHeeded DEF ProfileItem
<1>3. CASE it.value \in 1 .. NrProfiles
  <2> DEFINE cb == [op |-> "active", profile |-> it.value - 1]
             s == Setter(d, c, cb)
             k == s.cache
  <2>1. r = Done(s)
    BY <1>3 DEF ProfileItem
  <2>2. r.error = s.err /\ r.cache = k
    BY <2>1, DoneIs
  <2>3. cb.op = "active" /\ cb.profile = it.value - 1 /\ IsRecord(c)
    BY CopyIs
  <2> HIDE DEF cb
  <2>0. s = Setter(d, c, cb) /\ k = s.cache
    OBVIOUS
  <2> HIDE DEF s, k
  <2>4. /\ Fine(s) /\ k.active = it.value - 1
        /\ k.freq = c.freq /\ k.sel = c.sel /\ k.res = c.res /\ k.led = c.led /\ k.colour = c.colour
    BY <2>0, <2>3, ActiveSets
  <2>5. Obeys(d, k, it)
    BY <2>4 DEF Obeys
  <2>6. ASSUME NEW other, Obeys(d, c, other), ~SameSubject(d, other, it)
        PROVE  Obeys(d, k, other)
    <3>1. other.item # "profile"
      BY <2>6 DEF SameSubject
    <3> QED
      BY <2>4, <2>6, <3>1, StillObeyed
  <2> QED
    BY <1>1, <1>3, <2>2, <2>4, <2>5, <2>6 DEF Heeded, Fine
<1> QED
  BY <1>2, <1>3

LEMMA FreqHeeded ==
  ASSUME NEW d \in DriverNames, NEW c, IsCopy(d, c), NEW it, it.item = "freq", it.profile \in Int,
         NEW r, r = FreqItem(d, c, it)
  PROVE  Heeded(d, c, it, r)
<1> DEFINE p == Meant(c, it)
<1>1. IsError(d, c, it) <=> it.profile \notin 0 .. NrProfiles \/ it.value \notin {125, 500, 1000}
  BY DEF IsError
<1>2. /\ IsRecord(c) /\ c.active \in Profiles /\ c.freq \in [Profiles -> Nat]
  BY CopyIs
<1>3. /\ p \in Profiles <=> it.profile \in 0 .. NrProfiles
      /\ it.profile # 0 => p = it.profile - 1
  BY <1>2, NumberIs, ProfilesAre DEF Meant
<1>4. r = IF p \notin Profiles \/ it.value \notin {125, 500, 1000} THEN Wrong(c)
          ELSE IF d \in Synapse THEN Ignored(c)
          ELSE Done(Setter(d, c, [op |-> "freq", profile |-> p, value |-> it.value]))
  BY DEF FreqItem
<1> HIDE DEF p
<1>5. CASE IsError(d, c, it)
  BY <1>1, <1>3, <1>4, <1>5, WrongHeeded
<1>6. CASE ~IsError(d, c, it) /\ d \in Synapse
  <2>1. r = Ignored(c)
    BY <1>1, <1>3, <1>4, <1>6
  <2>2. Obeys(d, c, it)
    BY <1>6 DEF Obeys
  <2> QED
    BY <1>6, <2>1, <2>2, NothingHeeded
<1>7. CASE ~IsError(d, c, it) /\ d \notin Synapse
  <2> DEFINE cb == [op |-> "freq", profile |-> p, value |-> it.value]
             s == Setter(d, c, cb)
             k == s.cache
  <2>1. r = Done(s) /\ d \in Older /\ p \in Profiles
    BY <1>1, <1>3, <1>4, <1>7 DEF DriverNames, Older, Synapse
  <2>2. r.error = s.err /\ r.cache = k
    BY <2>1, DoneIs
  <2>3. cb.op = "freq" /\ cb.profile = p /\ cb.value = it.value
    OBVIOUS
  <2> HIDE DEF cb
  <2>0. s = Setter(d, c, cb) /\ k = s.cache
    OBVIOUS
  <2> HIDE DEF s, k
  <2>4. /\ Fine(s) /\ k.active = c.active
        /\ k.sel = c.sel /\ k.res = c.res /\ k.led = c.led /\ k.colour = c.colour
        /\ \A q \in Profiles : k.freq[q] = IF q = p THEN it.value ELSE c.freq[q]
    BY <1>2, <2>0, <2>1, <2>3, FreqSets
  <2>5. Obeys(d, k, it)
    BY <1>3, <2>1, <2>4 DEF Obeys
  <2>6. ASSUME NEW other, Obeys(d, c, other), ~IsError(d, c, other), ~SameSubject(d, other, it)
        PROVE  Obeys(d, k, other)
    <3>1. CASE other.item # "freq"
      BY <2>4, <2>6, <3>1, StillObeyed
    <3>2. CASE other.item = "freq"
      <4>1. it.profile # 0 /\ other.profile # 0 /\ it.profile # other.profile
        BY <2>6, <3>2 DEF SameSubject
      <4>2. other.profile \in 0 .. NrProfiles
        BY <2>6, <3>2 DEF IsError
      <4>3. other.profile - 1 \in Profiles /\ other.profile - 1 # p
        BY <1>3, <4>1, <4>2, NumberIs
      <4> QED
        BY <2>4, <2>6, <3>2, <4>3, StillObeyed
    <3> QED
      BY <3>1, <3>2
  <2>7. \A q \in Profiles : k.freq[q] = c.freq[q] \/ k.freq[q] \in {125, 500, 1000}
    BY <1>1, <1>7, <2>4
  <2> QED
    BY <1>7, <2>2, <2>4, <2>5, <2>6, <2>7 DEF Heeded, Fine
<1> QED
  BY <1>5, <1>6, <1>7

LEMMA LedHeeded ==
  ASSUME NEW d \in DriverNames, NEW c, IsCopy(d, c), NEW it, it.item = "led", it.profile \in Int,
         NEW r, r = LedItem(d, c, it)
  PROVE  Heeded(d, c, it, r)
<1> DEFINE p == it.profile - 1
<1>1. IsError(d, c, it) <=> it.profile \notin 0 .. NrProfiles \/ it.value \notin BOOLEAN
  BY DEF IsError
<1>2. /\ IsRecord(c) /\ c.led \in [Profiles -> BOOLEAN]
  BY CopyIs
<1>3. r = IF it.profile \notin 0 .. NrProfiles \/ it.value \notin BOOLEAN THEN Wrong(c)
          ELSE IF ~HasLeds(d, it) THEN Ignored(c)
          ELSE Done(Setter(d, c, [op |-> "led", profile |-> p, value |-> it.value]))
  BY DEF LedItem
<1>4. CASE IsError(d, c, it)
  BY <1>1, <1>3, <1>4, WrongHeeded
<1>5. CASE ~IsError(d, c, it) /\ ~HasLeds(d, it)
  <2>1. r = Ignored(c)
    BY <1>1, <1>3, <1>5
  <2>2. d = "Copperhead" \/ it.profile = 0
    BY <1>5 DEF HasLeds, DriverNames, Synapse
  <2>3. Obeys(d, c, it)
    BY <2>2 DEF Obeys
  <2> QED
    BY <1>5, <2>1, <2>3, NothingHeeded
<1>6. CASE ~IsError(d, c, it) /\ HasLeds(d, it)
  <2> DEFINE cb == [op |-> "led", profile |-> p, value |-> it.value]
             s == Setter(d, c, cb)
             k == s.cache
  <2>1. /\ r = Done(s) /\ d \in DriverNames \ {"Copperhead"}
        /\ it.profile # 0 => p \in Profiles
        /\ d \in Synapse => it.profile # 0
    BY <1>1, <1>3, <1>6, NumberIs DEF HasLeds, DriverNames, Synapse
  <2>2. r.error = s.err /\ r.cache = k
    BY <2>1, DoneIs
  <2>3. cb.op = "led" /\ cb.profile = p /\ cb.value = it.value
    OBVIOUS
  <2> HIDE DEF cb
  <2>0. s = Setter(d, c, cb) /\ k = s.cache
    OBVIOUS
  <2> HIDE DEF s, k
  <2>4. /\ Fine(s) /\ k.active = c.active
        /\ k.freq = c.freq /\ k.sel = c.sel /\ k.res = c.res /\ k.colour = c.colour
        /\ \A q \in Profiles : k.led[q] = IF d \in Synapse /\ q # p THEN c.led[q] ELSE it.value
    BY <1>2, <2>0, <2>1, <2>3, LedSets
  <2>5. Obeys(d, k, it)
    BY <2>1, <2>4 DEF Obeys
  <2>6. ASSUME NEW other, Obeys(d, c, other), ~IsError(d, c, other), ~SameSubject(d, other, it)
        PROVE  Obeys(d, k, other)
    <3>1. CASE other.item # "led"
      BY <2>4, <2>6, <3>1, StillObeyed
    <3>2. CASE other.item = "led"
      <4>1. d \in Synapse /\ it.profile # 0 /\ other.profile # 0 /\ it.profile # other.profile
        BY <2>6, <3>2 DEF SameSubject
      <4>2. other.profile \in 0 .. NrProfiles
        BY <2>6, <3>2 DEF IsError
      <4>3. other.profile - 1 \in Profiles /\ other.profile - 1 # p
        BY <4>1, <4>2, NumberIs
      <4> QED
        BY <2>4, <2>6, <3>2, <4>1, <4>3, StillObeyed
    <3> QED
      BY <3>1, <3>2
  <2> QED
    BY <1>6, <2>2, <2>4, <2>5, <2>6 DEF Heeded, Fine
<1> QED
  BY <1>4, <1>5, <1>6

LEMMA ColourHeeded ==
  ASSUME NEW d \in DriverNames, NEW c, IsCopy(d, c), NEW it, it.item = "color", it.profile \in Int,
         NEW r, r = ColourItem(d, c, it)
  PROVE  Heeded(d, c, it, r)
<1> DEFINE p == it.profile - 1
<1>1. IsError(d, c, it) <=> it.profile \notin 0 .. NrProfiles \/ it.value \notin Colours
  BY DEF IsError
<1>2. /\ IsRecord(c) /\ c.colour \in [Profiles -> Colours]
  BY CopyIs
<1>3. r = IF it.profile \notin 0 .. NrProfiles \/ it.value \notin Colours THEN Wrong(c)
          ELSE IF ~HasLeds(d, it) \/ d # "Lachesis5600" THEN Ignored(c)
          ELSE Done(Setter(d, c, [op |-> "colour", profile |-> p, value |-> it.value]))
  BY DEF ColourItem
<1>4. CASE IsError(d, c, it)
  BY <1>1, <1>3, <1>4, WrongHeeded
<1>5. CASE ~IsError(d, c, it) /\ (~HasLeds(d, it) \/ d # "Lachesis5600")
  <2>1. r = Ignored(c)
    BY <1>1, <1>3, <1>5
  <2>2. d # "Lachesis5600" \/ it.profile = 0
    BY <1>5 DEF HasLeds, Synapse
  <2>3. Obeys(d, c, it)
    BY <2>2 DEF Obeys
  <2> QED
    BY <1>5, <2>1, <2>3, NothingHeeded
<1>6. CASE ~IsError(d, c, it) /\ HasLeds(d, it) /\ d = "Lachesis5600"
  <2> DEFINE cb == [op |-> "colour", profile |-> p, value |-> it.value]
             s == Setter(d, c, cb)
             k == s.cache
  <2>1. r = Done(s) /\ it.profile # 0 /\ p \in Profiles
    BY <1>1, <1>3, <1>6, NumberIs DEF HasLeds
  <2>2. r.error = s.err /\ r.cache = k
    BY <2>1, DoneIs
  <2>3. cb.op = "colour" /\ cb.profile = p /\ cb.value = it.value
    OBVIOUS
  <2> HIDE DEF cb
  <2>0. s = Setter(d, c, cb) /\ k = s.cache
    OBVIOUS
  <2> HIDE DEF s, k
  <2>4. /\ Fine(s) /\ k.active = c.active
        /\ k.freq = c.freq /\ k.sel = c.sel /\ k.res = c.res /\ k.led = c.led
        /\ \A q \in Profiles : k.colour[q] = IF q = p THEN it.value ELSE c.colour[q]
    BY <1>2, <1>6, <2>0, <2>1, <2>3, ColourSets
  <2>5. Obeys(d, k, it)
    BY <2>1, <2>4 DEF Obeys
  <2>6. ASSUME NEW other, Obeys(d, c, other), ~IsError(d, c, other), ~SameSubject(d, other, it)
        PROVE  Obeys(d, k, other)
    <3>1. CASE other.item # "color"
      BY <2>4, <2>6, <3>1, StillObeyed
    <3>2. CASE other.item = "color"
      <4>1. it.profile # 0 /\ other.profile # 0 /\ it.profile # other.profile
        BY <2>6, <3>2 DEF SameSubject
      <4>2. other.profile \in 0 .. NrProfiles
        BY <2>6, <3>2 DEF IsError
      <4>3. other.profile - 1 \in Profiles /\ other.profile - 1 # p
        BY <4>1, <4>2, NumberIs
      <4> QED
        BY <2>4, <2>6, <3>2, <4>3, StillObeyed
    <3> QED
      BY <3>1, <3>2
  <2> QED
    BY <1>6, <2>2, <2>4, <2>5, <2>6 DEF Heeded, Fine
<1> QED
  BY <1>4, <1>5, <1>6

(* The mappings that an item names. *)
Named(d, c, it) ==
  {m \in MappingsOf(d) : IF it.value >= 100 THEN ResOf(d, c, m) = it.value ELSE m = it.value}

LEMMA OwnNumbers ==
  ASSUME NEW d \in Synapse, NrProfiles <= 10, NEW p \in Profiles, NEW m \in Own(d, p)
  PROVE  m \in Nat /\ m < 100 /\ m \div 10 = p /\ m % 10 \in Stages /\ m \in MappingsOf(d)
<1>1. p \in Nat /\ p < 10
  BY ProfilesAssumption DEF Profiles
<1>2. m = 10 * p \/ m = 10 * p + 1
  BY OwnIs
<1>3. m \in MappingsOf(d)
  BY DEF MappingsOf
<1>4. m \in Nat /\ m < 100 /\ m \div 10 = p
  BY <1>1, <1>2
<1> QED
  BY <1>3, <1>4, MappingsAre

(* A mapping's number is below all resolutions. *)
LEMMA ResolutionsAre ==
  ASSUME NEW d \in DriverNames, NEW c, Says(d, c), NEW m \in MappingsOf(d), NrProfiles <= 10
  PROVE  m \in Nat /\ m < 100 /\ ResOf(d, c, m) \in Nat /\ ResOf(d, c, m) >= 100
<1>1. CASE d \in {"Boomslang", "Copperhead"}
  <2>1. m \in {0, 1}
    BY <1>1, OlderMappings DEF Older
  <2>2. ResOf(d, c, m) = 400 * (m + 1)
    BY <1>1 DEF ResOf
  <2> QED
    BY <2>1, <2>2
<1>2. CASE d = "Lachesis"
  <2>1. m \in {0, 1}
    BY <1>2, OlderMappings DEF Older
  <2>2. ResOf(d, c, m) = c.res[0][m]
    BY <1>2 DEF ResOf
  <2>3. c.res[0][m] \in {125 * k : k \in 1..256}
    BY <1>2, <2>1, StagesAre DEF Says
  <2> QED
    BY <2>1, <2>2, <2>3
<1>3. CASE d \in Synapse
  <2>1. PICK p \in Profiles : m \in Own(d, p)
    BY DEF MappingsOf
  <2>2. m \in Nat /\ m < 100 /\ m \div 10 = p /\ m % 10 \in Stages
    BY <1>3, <2>1, OwnNumbers
  <2>3. ResOf(d, c, m) = c.res[p][m % 10]
    BY <1>3, <2>2 DEF ResOf, Synapse
  <2>4. c.res[p][m % 10] \in {100 * k : k \in 1..64}
    BY <1>3, <2>2 DEF Says
  <2> QED
    BY <2>2, <2>3, <2>4
<1> QED
  BY <1>1, <1>2, <1>3 DEF DriverNames, Synapse

LEMMA NamedIs ==
  ASSUME NEW d \in DriverNames, NEW c, Says(d, c), NrProfiles <= 10, NEW it, it.value \in Int
  PROVE  /\ Named(d, c, it) \subseteq MappingsOf(d) /\ Named(d, c, it) \subseteq Nat
         /\ \A m \in MappingsOf(d) : m \in Named(d, c, it) <=> it.value \in {m, ResOf(d, c, m)}
         /\ \A p \in Profiles : Offers(d, c, p, it) <=> \E m \in Own(d, p) : m \in Named(d, c, it)
<1>1. ASSUME NEW m \in MappingsOf(d)
      PROVE  m \in Named(d, c, it) <=> it.value \in {m, ResOf(d, c, m)}
  <2>1. m \in Nat /\ m < 100 /\ ResOf(d, c, m) \in Nat /\ ResOf(d, c, m) >= 100
    BY ResolutionsAre
  <2>2. m \in Named(d, c, it) <=> IF it.value >= 100 THEN ResOf(d, c, m) = it.value ELSE m = it.value
    BY DEF Named
  <2> QED
    BY <2>1, <2>2
<1>2. Named(d, c, it) \subseteq MappingsOf(d)
  BY DEF Named
<1>3. Named(d, c, it) \subseteq Nat
  BY <1>2, ResolutionsAre
<1>4. ASSUME NEW p \in Profiles
      PROVE  Offers(d, c, p, it) <=> \E m \in Own(d, p) : m \in Named(d, c, it)
  <2>1. \A m \in Own(d, p) : m \in MappingsOf(d)
    BY DEF MappingsOf
  <2> QED
    BY <1>1, <2>1 DEF Offers
<1> QED
  BY <1>1, <1>2, <1>3, <1>4

LEMMA ResHeeded ==
  ASSUME NEW d \in DriverNames, NEW c, IsCopy(d, c), Says(d, c), NrProfiles <= 10,
         NEW it, it.item = "res", it.profile \in Int, it.value \in Int, d \in Synapse => it.profile # 0,
         NEW r, r = ResItem(d, c, it)
  PROVE  Heeded(d, c, it, r)
<1> DEFINE p == Meant(c, it)
           named == Named(d, c, it)
           found == CHOOSE m \in named : \A other \in named : m <= other
           bad == it.profile \notin 0 .. NrProfiles \/ it.value < 1
           taken == \E q \in Profiles \ {it.profile - 1} :
                      Offers(d, c, q, it) /\ (q + 1 < it.profile \/ ~Offers(d, c, it.profile - 1, it))
<1>1. IsError(d, c, it) <=> bad \/ (d \in Synapse /\ taken)
  BY DEF IsError
<1>2. /\ IsRecord(c) /\ c.active \in Profiles /\ c.sel \in [Profiles -> Nat]
  BY CopyIs
<1>3. /\ p \in Profiles <=> it.profile \in 0 .. NrProfiles
      /\ it.profile # 0 => p = it.profile - 1
  <2>1. CASE it.profile = 0
    BY <1>2, <2>1, ProfilesAre DEF Meant
  <2>2. CASE it.profile # 0
    <3>1. p = it.profile - 1
      BY <2>2 DEF Meant
    <3> HIDE DEF p
    <3> QED
      BY <2>2, <3>1, NumberIs
  <2> QED
    BY <2>1, <2>2
<1>4. r = IF p \notin Profiles \/ it.value < 1 THEN Wrong(c)
          ELSE IF named = {} THEN Ignored(c)
          ELSE Done(Setter(d, c, [op |-> "mapping", profile |-> p, value |-> found]))
  BY DEF ResItem, Named
<1>5. /\ named \subseteq MappingsOf(d) /\ named \subseteq Nat
      /\ \A m \in MappingsOf(d) : m \in named <=> it.value \in {m, ResOf(d, c, m)}
      /\ \A q \in Profiles : Offers(d, c, q, it) <=> \E m \in Own(d, q) : m \in named
  BY NamedIs
<1>6. ASSUME named # {}
      PROVE  found \in named /\ \A other \in named : found <= other
  <2>1. \E m \in named : \A other \in named : m <= other
    BY <1>5, <1>6, LeastIs
  <2> HIDE DEF named
  <2> QED
    BY <2>1
<1> HIDE DEF p, named, found, taken
<1>7. CASE bad
  BY <1>1, <1>3, <1>4, <1>7, WrongHeeded
<1>8. CASE ~bad /\ named = {}
  <2>1. r = Ignored(c) /\ p \in Profiles
    BY <1>3, <1>4, <1>8
  <2>2. \A q \in Profiles : ~Offers(d, c, q, it)
    BY <1>5, <1>8
  <2>3. ~IsError(d, c, it)
    BY <1>1, <1>8, <2>2 DEF taken
  <2>4. Obeys(d, c, it)
    BY <1>3, <2>1, <2>2 DEF Obeys
  <2> QED
    BY <2>1, <2>3, <2>4, NothingHeeded
<1>9. CASE ~bad /\ named # {}
  <2> DEFINE cb == [op |-> "mapping", profile |-> p, value |-> found]
             s == Setter(d, c, cb)
             k == s.cache
  <2>1. r = Done(s) /\ p \in Profiles
    BY <1>3, <1>4, <1>9
  <2>2. r.error = s.err /\ r.cache = k
    BY <2>1, DoneIs
  <2>3. cb.op = "mapping" /\ cb.profile = p /\ cb.value = found
    OBVIOUS
  <2>4. found \in named /\ \A other \in named : found <= other
    BY <1>6, <1>9
  <2> HIDE DEF cb
  <2>5. s = Setter(d, c, cb) /\ k = s.cache
    OBVIOUS
  <2> HIDE DEF s, k
  <2>6. IF d \in Synapse /\ found \div 10 # p
        THEN s = Refused(c)
        ELSE /\ Fine(s) /\ k.active = c.active
             /\ k.freq = c.freq /\ k.res = c.res /\ k.led = c.led /\ k.colour = c.colour
             /\ \A q \in Profiles : k.sel[q] = IF q = p THEN found ELSE c.sel[q]
    BY <1>2, <2>1, <2>3, <2>5, MappingSets
  <2>7. ASSUME d \in Synapse, NEW q \in Profiles, Offers(d, c, q, it)
        PROVE  found \div 10 <= q
    <3>1. PICK m \in Own(d, q) : m \in named
      BY <1>5, <2>7
    <3>2. m \in Nat /\ m \div 10 = q /\ found \in Nat /\ found <= m
      BY <1>5, <2>4, <2>7, <3>1, OwnNumbers
    <3>3. found \div 10 <= m \div 10
      BY <3>2
    <3> QED
      BY <3>2, <3>3
  <2>8. ASSUME d \in Synapse
        PROVE  found \div 10 \in Profiles /\ Offers(d, c, found \div 10, it)
    BY <1>5, <2>4, <2>8, MappingsAre
  <2>9. CASE d \in Synapse /\ found \div 10 # p
    <3>1. s.err = TRUE /\ k = c
      BY <2>5, <2>6, <2>9 DEF Refused
    <3> DEFINE q0 == found \div 10
    <3>2. q0 \in Profiles /\ Offers(d, c, q0, it) /\ q0 # p /\ p = it.profile - 1
      BY <1>3, <2>8, <2>9
    <3>3. Offers(d, c, p, it) => q0 <= p
      BY <2>1, <2>7, <2>9
    <3> HIDE DEF q0
    <3>4. q0 \in Nat /\ p \in Nat
      BY <2>1, <3>2, ProfilesAre
    <3>5. Offers(d, c, p, it) => q0 + 1 < it.profile
      BY <3>2, <3>3, <3>4
    <3>6. taken
      BY <3>2, <3>5 DEF taken
    <3>7. IsError(d, c, it)
      BY <1>1, <2>9, <3>6
    <3> QED
      BY <2>2, <3>1, <3>7 DEF Heeded
  <2>10. CASE ~ (d \in Synapse /\ found \div 10 # p)
    <3>1. /\ Fine(s) /\ k.active = c.active
          /\ k.freq = c.freq /\ k.res = c.res /\ k.led = c.led /\ k.colour = c.colour
          /\ \A q \in Profiles : k.sel[q] = IF q = p THEN found ELSE c.sel[q]
      BY <2>6, <2>10
    <3>2. ~IsError(d, c, it)
      <4>1. CASE d \in Synapse
        <5>1. p = it.profile - 1 /\ Offers(d, c, p, it) /\ found \div 10 = p
          BY <1>3, <2>8, <2>10, <4>1
        <5>2. ASSUME NEW q \in Profiles \ {it.profile - 1}, Offers(d, c, q, it)
              PROVE  ~ (q + 1 < it.profile)
          <6>1. p <= q
            BY <2>7, <4>1, <5>1, <5>2
          <6> QED
            BY <2>1, <5>1, <6>1, ProfilesAre
        <5>3. ~taken
          BY <5>1, <5>2 DEF taken
        <5> QED
          BY <1>1, <1>9, <5>3
      <4> QED
        BY <1>1, <1>9, <4>1
    <3>3. Obeys(d, k, it)
      <4>1. it.value \in {found, ResOf(d, c, found)}
        BY <1>5, <2>4
      <4>2. ResOf(d, k, found) = ResOf(d, c, found)
        BY <3>1, SameRes
      <4>3. it.profile # 0 => k.sel[it.profile - 1] = found
        BY <1>3, <2>1, <3>1
      <4> QED
        BY <4>1, <4>2, <4>3 DEF Obeys
    <3>4. ASSUME NEW other, Obeys(d, c, other), ~IsError(d, c, other), ~SameSubject(d, other, it)
          PROVE  Obeys(d, k, other)
      <4>1. CASE other.item # "res"
        BY <3>1, <3>4, <4>1, StillObeyed
      <4>2. CASE other.item = "res"
        <5>1. it.profile # 0 /\ other.profile # 0 /\ it.profile # other.profile
          BY <3>4, <4>2 DEF SameSubject
        <5>2. other.profile \in 0 .. NrProfiles
          BY <3>4, <4>2 DEF IsError
        <5>3. other.profile - 1 \in Profiles /\ other.profile - 1 # p
          BY <1>3, <5>1, <5>2, NumberIs
        <5> QED
          BY <3>1, <3>4, <4>2, <5>3, StillObeyed
      <4> QED
        BY <4>1, <4>2
    <3> QED
      BY <2>2, <3>1, <3>2, <3>3, <3>4 DEF Heeded, Fine
  <2> QED
    BY <2>9, <2>10
<1> QED
  BY <1>7, <1>8, <1>9

LEMMA RestHeeded ==
  ASSUME NEW d, NEW c, NEW it, it.item \notin {"profile", "res", "freq", "led", "color"}, it.profile \in Int,
         NEW r, r = ApplyItem(d, c, it)
  PROVE  Heeded(d, c, it, r)
<1>1. Obeys(d, c, it)
  BY DEF Obeys
<1>2. CASE it.item = "mode"
  <2>1. IsError(d, c, it) <=> it.profile \notin 0 .. NrProfiles
    BY <1>2 DEF IsError
  <2>2. r = IF it.profile \notin 0 .. NrProfiles THEN Wrong(c) ELSE Ignored(c)
    BY <1>2 DEF ApplyItem, ModeItem
  <2> QED
    BY <1>1, <2>1, <2>2, WrongHeeded, NothingHeeded
<1>3. CASE it.item # "mode"
  <2>1. ~IsError(d, c, it)
    BY <1>3 DEF IsError
  <2>2. r = Ignored(c)
    BY <1>3 DEF ApplyItem
  <2> QED
    BY <1>1, <2>1, <2>2, NothingHeeded
<1> QED
  BY <1>2, <1>3

(* An item of a file whose Synapse resolutions name their profile. *)
IsItem(d, it) ==
  /\ it.profile \in Int
  /\ it.item = "res" => it.value \in Int /\ (d \in Synapse => it.profile # 0)

LEMMA ItemHeeded ==
  ASSUME NEW d \in DriverNames, NEW c, IsCopy(d, c), Says(d, c), NrProfiles <= 10, NEW it, IsItem(d, it)
  PROVE  Heeded(d, c, it, ApplyItem(d, c, it))
<1> DEFINE r == ApplyItem(d, c, it)
<1>0. it.profile \in Int
  BY DEF IsItem
<1>1. CASE it.item = "profile"
  <2>1. r = ProfileItem(d, c, it)
    BY <1>1 DEF ApplyItem
  <2> QED
    BY <1>1, <2>1, ProfileHeeded
<1>2. CASE it.item = "res"
  <2>1. r = ResItem(d, c, it)
    BY <1>2 DEF ApplyItem
  <2> QED
    BY <1>2, <2>1, ResHeeded DEF IsItem
<1>3. CASE it.item = "freq"
  <2>1. r = FreqItem(d, c, it)
    BY <1>3 DEF ApplyItem
  <2> QED
    BY <1>0, <1>3, <2>1, FreqHeeded
<1>4. CASE it.item = "led"
  <2>1. r = LedItem(d, c, it)
    BY <1>4 DEF ApplyItem
  <2> QED
    BY <1>0, <1>4, <2>1, LedHeeded
<1>5. CASE it.item = "color"
  <2>1. r = ColourItem(d, c, it)
    BY <1>5 DEF ApplyItem
  <2> QED
    BY <1>0, <1>5, <2>1, ColourHeeded
<1>6. CASE it.item \notin {"profile", "res", "freq", "led", "color"}
  BY <1>0, <1>6, RestHeeded
<1> QED
  BY <1>1, <1>2, <1>3, <1>4, <1>5, <1>6

-----------------------------------------------------------------------------
(* What the configuration has made of the copy.                            *)

(* The first n items of plan are in copy c, the last of each subject. *)
Applied(d, c, plan, n) ==
  /\ \A k \in 1 .. n : ~IsError(d, c, plan[k])
  /\ \A k \in 1 .. n : (\A j \in k + 1 .. n : ~SameSubject(d, plan[k], plan[j])) => Obeys(d, c, plan[k])

(* No item after them counts. *)
Stops(d, c, plan, n) == n = Len(plan) \/ (n < Len(plan) /\ IsError(d, c, plan[n + 1]))

(* One item more. *)
LEMMA AppliedMore ==
  ASSUME NEW d, NEW c, NEW plan, NEW n \in Nat, Applied(d, c, plan, n),
         ~IsError(d, c, plan[n + 1]), NEW r, Heeded(d, c, plan[n + 1], r)
  PROVE  Applied(d, r.cache, plan, n + 1)
<1> DEFINE k == r.cache
           it == plan[n + 1]
<1>1. /\ k.res = c.res /\ Obeys(d, k, it)
      /\ \A other : Obeys(d, c, other) /\ ~IsError(d, c, other) /\ ~SameSubject(d, other, it)
                      => Obeys(d, k, other)
  BY DEF Heeded
<1> HIDE DEF k
<1>2. \A x \in 1 .. n + 1 : x \in 1 .. n \/ x = n + 1
  OBVIOUS
<1>3. ASSUME NEW x \in 1 .. n + 1
      PROVE  ~IsError(d, k, plan[x])
  <2>1. ~IsError(d, c, plan[x])
    BY <1>2 DEF Applied
  <2> QED
    BY <1>1, <2>1, SameRes
<1>4. ASSUME NEW x \in 1 .. n + 1, \A j \in x + 1 .. n + 1 : ~SameSubject(d, plan[x], plan[j])
      PROVE  Obeys(d, k, plan[x])
  <2>1. CASE x = n + 1
    BY <1>1, <2>1
  <2>2. CASE x \in 1 .. n
    <3>1. n + 1 \in x + 1 .. n + 1 /\ \A j \in x + 1 .. n : j \in x + 1 .. n + 1
      BY <2>2
    <3>2. ~SameSubject(d, plan[x], it)
      BY <1>4, <3>1
    <3>3. \A j \in x + 1 .. n : ~SameSubject(d, plan[x], plan[j])
      BY <1>4, <3>1
    <3>4. Obeys(d, c, plan[x]) /\ ~IsError(d, c, plan[x])
      BY <2>2, <3>3 DEF Applied
    <3> QED
      BY <1>1, <3>2, <3>4
  <2> QED
    BY <1>2, <2>1, <2>2
<1>5. Applied(d, k, plan, n + 1)
  BY <1>3, <1>4 DEF Applied
<1> QED
  BY <1>5 DEF k

(* A copy that the wire can say, but for what is still to be read. *)
SaysBut(d, c, left) ==
  /\ \A p \in Profiles : \/ c.freq[p] \in {125, 500, 1000}
                         \/ d # "Copperhead" /\ Read(FreqItemOf(d, p)) \in left
  /\ d = "Lachesis" =>
       Read(Mapped) \in left \/ \A m \in Stages : c.res[0][m] \in {125 * k : k \in 1..256}
  /\ d \in Synapse =>
       \A p \in Profiles : Read(Profile(p)) \in left \/ \A m \in Stages : c.res[p][m] \in {100 * k : k \in 1..64}

LEMMA SaysAll ==
  ASSUME NEW d, NEW c, NEW left, SaysBut(d, c, left), \A i : Read(i) \notin left
  PROVE  Says(d, c)
  BY DEF SaysBut, Says

LEMMA SaysLess ==
  ASSUME NEW d, NEW c, NEW left, SaysBut(d, c, left), NEW rest, \A i : Read(i) \in left => Read(i) \in rest
  PROVE  SaysBut(d, c, rest)
<1>1. \A p \in Profiles : \/ c.freq[p] \in {125, 500, 1000}
                          \/ d # "Copperhead" /\ Read(FreqItemOf(d, p)) \in rest
  BY DEF SaysBut
<1>2. d = "Lachesis" =>
        Read(Mapped) \in rest \/ \A m \in Stages : c.res[0][m] \in {125 * k : k \in 1..256}
  BY DEF SaysBut
<1>3. ASSUME d \in Synapse, NEW p \in Profiles
      PROVE  Read(Profile(p)) \in rest \/ \A m \in Stages : c.res[p][m] \in {100 * k : k \in 1..64}
  BY <1>3 DEF SaysBut
<1> QED
  BY <1>1, <1>2, <1>3 DEF SaysBut

(* What is read are the wire's values. *)
LEMMA CodesSay ==
  /\ \A code \in 0 .. 255 : LachesisRes(code) \in {125 * k : k \in 1..256}
  /\ \A code \in SynapseDpiCodes : SynapseRes(code) \in {100 * k : k \in 1..64}
<1>1. ASSUME NEW code \in 0 .. 255
      PROVE  LachesisRes(code) \in {125 * k : k \in 1..256}
  <2>1. code + 1 \in 1 .. 256 /\ LachesisRes(code) = 125 * (code + 1)
    BY DEF LachesisRes
  <2> QED
    BY <2>1
<1>2. ASSUME NEW code \in SynapseDpiCodes
      PROVE  SynapseRes(code) \in {100 * k : k \in 1..64}
  <2>1. PICK n \in 0 .. 63 : code = 4 * n
    BY DEF SynapseDpiCodes
  <2>2. code \div 4 = n
    BY <2>1
  <2>3. n + 1 \in 1 .. 64 /\ SynapseRes(code) = 100 * (n + 1)
    BY <2>2 DEF SynapseRes
  <2> QED
    BY <2>3
<1> QED
  BY <1>1, <1>2

LEMMA ResFromSays ==
  ASSUME NEW d \in Synapse, NEW p, NEW v, IsWord(d, Profile(p), v), NEW m \in Stages
  PROVE  ResFrom(v)[m] \in {100 * k : k \in 1..64}
<1> DEFINE w == v.dpis
           n == Len(v.dpis)
<1>1. \A k \in 1 .. n : w[k] \in SynapseDpiCodes
  BY SynapseWordIs
<1>2. n \in 1 .. 2
  BY SynapseWordIs
<1>3. ResFrom(v)[m] = IF m + 1 > n THEN 5600 ELSE SynapseRes(w[m + 1])
  BY DEF ResFrom
<1> HIDE DEF w, n
<1>4. m + 1 > n \/ m + 1 \in 1 .. n
  BY <1>2, StagesAre
<1>5. CASE m + 1 > n
  <2>1. 56 \in 1 .. 64 /\ ResFrom(v)[m] = 100 * 56
    BY <1>3, <1>5
  <2> QED
    BY <2>1
<1>6. CASE ~ (m + 1 > n)
  <2>1. w[m + 1] \in SynapseDpiCodes
    BY <1>1, <1>4, <1>6
  <2>2. \A code \in SynapseDpiCodes : SynapseRes(code) \in {100 * k : k \in 1..64}
    BY CodesSay
  <2>3. ResFrom(v)[m] = SynapseRes(w[m + 1])
    BY <1>3, <1>6
  <2> QED
    BY <2>1, <2>2, <2>3
<1> QED
  BY <1>5, <1>6

LEMMA LachesisTookSays ==
  ASSUME NEW c, NEW i \in Readable("Lachesis"), NEW v, IsCopy("Lachesis", c), Shape("Lachesis", c),
         IsWord("Lachesis", i, v), NEW r, r = Took("Lachesis", c, i, v)
  PROVE  IF i = Mapped THEN \A m \in Stages : r.res[0][m] \in {125 * k : k \in 1..256} ELSE r.res = c.res
<1> DEFINE d == "Lachesis"
<1>1. /\ d \in Older /\ d \notin Synapse /\ IsRecord(c) /\ 0 \in Profiles
      /\ c.freq \in [Profiles -> Nat] /\ c.sel \in [Profiles -> Nat] /\ c.buttons \in [Profiles -> Presets]
  BY CopyIs, ProfilesAre DEF Older, Synapse
<1>2. \/ i = Active \/ i = Lights \/ i = Mapped \/ \E p \in Profiles : i = Profile(p)
  BY <1>1, OlderItems
<1>3. CASE i = Active
  BY <1>1, <1>3, PlainTookActive, ItemsDiffer
<1>4. CASE i = Lights
  <2>1. v \in BOOLEAN
    BY <1>4, ItemsDiffer DEF IsWord
  <2> QED
    BY <1>1, <1>4, <2>1, LachesisTookLights, ItemsDiffer
<1>5. CASE i = Mapped
  <2>1. v \in [Stages -> 0 .. 255]
    BY <1>5, ItemsDiffer DEF IsWord
  <2>2. \A m \in Stages : v[m] \in 0 .. 255
    BY <2>1
  <2>3. \A m \in Stages : LachesisRes(v[m]) \in Nat
    <3>1. \A code \in 0 .. 255 : LachesisRes(code) \in Nat
      BY LachesisCodes
    <3> QED
      BY <2>2, <3>1
  <2>4. \A m \in Stages : LachesisRes(v[m]) \in {125 * k : k \in 1..256}
    BY <2>2, CodesSay
  <2>5. \A m \in Stages : r.res[0][m] = LachesisRes(v[m])
    BY <1>1, <1>5, <2>3, LachesisTookMapped
  <2> QED
    BY <1>5, <2>4, <2>5
<1>6. ASSUME NEW p \in Profiles, i = Profile(p)
      PROVE  r.res = c.res /\ i # Mapped
  <2> DEFINE sel == v.sel - 1
  <2>1. /\ v.sel \in 1 .. 2 /\ v.freq \in 1 .. 3 /\ v.buttons \in Presets
    BY <1>1, <1>6, OlderWordIs
  <2>2. sel \in Nat /\ SlowFreqOf(v.freq) \in Nat
    BY <2>1, SlowFreqs
  <2>3. sel = IF d = "Lachesis" THEN v.sel - 1 ELSE 4 - v.sel
    OBVIOUS
  <2> HIDE DEF sel
  <2>4. r.res = c.res
    BY <1>1, <1>6, <2>1, <2>2, <2>3, PlainTookProfile
  <2> QED
    BY <1>6, <2>4, ItemsDiffer
<1> QED
  BY <1>2, <1>3, <1>4, <1>5, <1>6

LEMMA SynapseTookSays ==
  ASSUME NEW d \in Synapse, NEW c, NEW i \in Items(d), NEW v, IsCopy(d, c), Shape(d, c), IsWord(d, i, v),
         NEW r, r = Took(d, c, i, v), NEW p \in Profiles
  PROVE  IF i = Profile(p) THEN \A m \in Stages : r.res[p][m] \in {100 * k : k \in 1..64} ELSE r.res[p] = c.res[p]
<1>1. /\ IsRecord(c) /\ c.sel \in [Profiles -> Nat] /\ c.res \in [Profiles -> [Stages -> Nat]]
      /\ c.led \in [Profiles -> BOOLEAN] /\ c.colour \in [Profiles -> Colours]
      /\ c.buttons \in [Profiles -> Presets] /\ c.name \in [Profiles -> Names]
  BY CopyIs
<1>2. i = Global \/ \E q \in Profiles : i = Profile(q) \/ i = Name(q)
  BY SynapseItems
<1>3. CASE i = Global
  <2>1. SynapseFreqOf(v.freq) \in Nat
    BY SynapseCodes
  <2>2. r.res = c.res
    BY <1>1, <1>3, <2>1, SynapseTookGlobal
  <2> QED
    BY <1>3, <2>2, ItemsDiffer
<1>4. ASSUME NEW q \in Profiles, i = Name(q)
      PROVE  r.res = c.res /\ i # Profile(p)
  <2>1. v \in Names
    BY <1>4, ItemsDiffer DEF IsWord, Names
  <2> QED
    BY <1>1, <1>4, <2>1, SynapseTookName, ItemsDiffer
<1>5. ASSUME NEW q \in Profiles, i = Profile(q)
      PROVE  r.res[p] = IF q = p THEN ResFrom(v) ELSE c.res[p]
  <2>1. /\ v.sel \in 1 .. 2 /\ v.led \in BOOLEAN /\ v.colour \in Colours /\ v.buttons \in Presets
        /\ ResFrom(v) \in [Stages -> Nat]
    BY <1>5, SynapseWordIs, ResFromIs
  <2>2. 10 * q + v.sel - 1 \in Nat
    BY <2>1, ProfilesAre
  <2>3. IsPut(c.res, q, ResFrom(v), r.res, [Stages -> Nat])
    BY <1>1, <1>5, <2>1, <2>2, SynapseTookProfile
  <2> QED
    BY <2>3 DEF IsPut
<1>6. CASE i = Profile(p)
  <2>1. r.res[p] = ResFrom(v)
    BY <1>5, <1>6
  <2> QED
    BY <1>6, <2>1, ResFromSays
<1>7. ASSUME NEW q \in Profiles, i = Profile(q), q # p
      PROVE  r.res[p] = c.res[p] /\ i # Profile(p)
  BY <1>5, <1>7, ItemsDiffer
<1> QED
  BY <1>2, <1>3, <1>4, <1>6, <1>7

LEMMA FreqsAreReadable ==
  ASSUME NEW d \in DriverNames, NEW p \in Profiles
  PROVE  /\ FreqItemOf(d, p) \in Readable(d) /\ Profile(p) \in Readable(d)
         /\ d = "Lachesis" => Mapped \in Readable(d)
  BY ItemsAre, ItemsDiffer DEF FreqItemOf, Readable, DriverNames, Synapse

LEMMA BlankSays ==
  ASSUME NEW d \in DriverNames, NEW left, \A i \in Readable(d) : Read(i) \in left
  PROVE  SaysBut(d, Blank(d), left)
<1>1. \A p \in Profiles : d = "Copperhead" => Blank(d).freq[p] \in {125, 500, 1000}
  BY BlankFits
<1>2. \A p \in Profiles : Read(FreqItemOf(d, p)) \in left /\ Read(Profile(p)) \in left
  BY FreqsAreReadable
<1>3. d = "Lachesis" => Read(Mapped) \in left
  BY FreqsAreReadable, ProfilesAre
<1> QED
  BY <1>1, <1>2, <1>3 DEF SaysBut

LEMMA TookSays ==
  ASSUME NEW d \in DriverNames, NEW c, NEW i \in Readable(d), NEW v, IsCopy(d, c), Shape(d, c), IsWord(d, i, v),
         NEW r, r = Took(d, c, i, v), NEW left, SaysBut(d, c, left),
         NEW rest, \A j : Read(j) \in left /\ j # i => Read(j) \in rest
  PROVE  SaysBut(d, r, rest)
<1>1. ASSUME NEW p \in Profiles
      PROVE  r.freq[p] \in {125, 500, 1000} \/ (d # "Copperhead" /\ Read(FreqItemOf(d, p)) \in rest)
  <2>1. /\ r.freq[p] = c.freq[p] \/ r.freq[p] \in {125, 500, 1000}
        /\ i = FreqItemOf(d, p) => r.freq[p] \in {125, 500, 1000}
    BY Takes DEF TookFits
  <2>2. c.freq[p] \in {125, 500, 1000} \/ (d # "Copperhead" /\ Read(FreqItemOf(d, p)) \in left)
    BY DEF SaysBut
  <2> QED
    BY <2>1, <2>2
<1>2. ASSUME d = "Lachesis"
      PROVE  Read(Mapped) \in rest \/ \A m \in Stages : r.res[0][m] \in {125 * k : k \in 1..256}
  <2>1. IF i = Mapped THEN \A m \in Stages : r.res[0][m] \in {125 * k : k \in 1..256} ELSE r.res = c.res
    BY <1>2, LachesisTookSays
  <2>2. Read(Mapped) \in left \/ \A m \in Stages : c.res[0][m] \in {125 * k : k \in 1..256}
    BY <1>2 DEF SaysBut
  <2> QED
    BY <2>1, <2>2
<1>3. ASSUME d \in Synapse, NEW p \in Profiles
      PROVE  Read(Profile(p)) \in rest \/ \A m \in Stages : r.res[p][m] \in {100 * k : k \in 1..64}
  <2>1. i \in Items(d)
    BY DEF Readable
  <2>2. IF i = Profile(p) THEN \A m \in Stages : r.res[p][m] \in {100 * k : k \in 1..64} ELSE r.res[p] = c.res[p]
    BY <1>3, <2>1, SynapseTookSays
  <2>3. Read(Profile(p)) \in left \/ \A m \in Stages : c.res[p][m] \in {100 * k : k \in 1..64}
    BY <1>3 DEF SaysBut
  <2> QED
    BY <2>2, <2>3
<1> QED
  BY <1>1, <1>2, <1>3 DEF SaysBut

(* The items left, n of the plan's done. *)
Remains(d, c, plan, n, ops) ==
  \/ ops \in Seq(OpsOf(plan)) /\ Len(ops) = Len(plan) - n /\ \A k \in 1 .. Len(ops) : ops[k] = plan[n + k]
  \/ ops = <<>> /\ Stops(d, c, plan, n)

(* The configuration's progress: in a probe, while it is applied, and as   *)
(* long as nobody changes anything.                                        *)
SaidOnceRead == call.kind = "probe" => SaysBut(driver, cache, Left)

Configuring ==
  call.kind = "configure" =>
    LET plan == ToApply(file, driver)
    IN  /\ Says(driver, cache) /\ ~fresh
        /\ \E n \in 0 .. Len(plan) : Applied(driver, cache, plan, n) /\ Remains(driver, cache, plan, n, call.ops)

FreshStays ==
  fresh =>
    LET plan == ToApply(file, driver)
    IN  /\ listed /\ Says(driver, cache)
        /\ \E n \in 0 .. Len(plan) : Applied(driver, cache, plan, n) /\ Stops(driver, cache, plan, n)

Told == file \in Files /\ SaidOnceRead /\ Configuring /\ FreshStays

(* Of the actions only the call, the copy and fresh matter. *)
LEMMA ForgetsTold ==
  ASSUME Told, file' = file, fresh' = FALSE, call'.kind \notin {"probe", "configure"}
  PROVE  Told'
  BY DEF Told, SaidOnceRead, Configuring, FreshStays

LEMMA StaysTold ==
  ASSUME Told, file' = file, driver' = driver, cache' = cache, fresh' = fresh, listed => listed',
         call'.kind \notin {"probe", "configure"}
  PROVE  Told'
<1>1. FreshStays'
  BY DEF Told, FreshStays
<1> QED
  BY <1>1 DEF Told, SaidOnceRead, Configuring

LEMMA ProbesTold ==
  ASSUME Told, file' = file, fresh' = fresh, ~listed, call'.kind = "probe", SaysBut(driver', cache', Left')
  PROVE  Told'
<1>1. ~fresh
  BY DEF Told, FreshStays
<1> QED
  BY <1>1 DEF Told, SaidOnceRead, Configuring, FreshStays

(* Where it would depend on the profile in use at that time, the files say *)
(* which profile's resolution they mean.                                   *)
ResolutionsNamed ==
  \A f \in Files, d \in Drivers \cap Synapse :
    LET plan == ToApply(f, d)
    IN  \A k \in DOMAIN plan : plan[k].item = "res" => plan[k].profile # 0

LEMMA PlanIs ==
  ASSUME TypeOK, file \in Files, NEW plan, plan = ToApply(file, driver)
  PROVE  /\ plan \in Seq(OpsOf(plan)) /\ DOMAIN plan = 1 .. Len(plan) /\ Len(plan) \in Nat
         /\ ResolutionsNamed => \A k \in 1 .. Len(plan) : IsItem(driver, plan[k])
<1>0. driver \in Drivers
  BY DEF TypeOK
<1>1. /\ plan \in Seq({plan[k] : k \in DOMAIN plan})
      /\ \A k \in DOMAIN plan : /\ plan[k].profile \in Int
                                /\ plan[k].item = "res" => plan[k].value \in Int
  BY <1>0, FilesAssumption
<1>2. plan \in Seq(OpsOf(plan))
  BY <1>1 DEF OpsOf
<1>3. DOMAIN plan = 1 .. Len(plan) /\ Len(plan) \in Nat
  BY <1>2
<1>4. ASSUME ResolutionsNamed, NEW k \in 1 .. Len(plan)
      PROVE  IsItem(driver, plan[k])
  <2>1. driver \in Synapse /\ plan[k].item = "res" => plan[k].profile # 0
    BY <1>0, <1>3, <1>4 DEF ResolutionsNamed
  <2> QED
    BY <1>1, <1>3, <1>4, <2>1 DEF IsItem
<1> QED
  BY <1>2, <1>3, <1>4

LEMMA ProbeTold ==
  ASSUME IInv, Told, Probe
  PROVE  Told'
<1>1. /\ ~listed /\ cache' = Blank(driver) /\ call' = [kind |-> "probe", ops |-> Reads(driver)]
      /\ driver' = driver /\ file' = file /\ fresh' = fresh
  BY DEF Probe, setting, ghosts
<1>2. driver \in DriverNames
  BY Known DEF IInv
<1>3. call'.kind = "probe" /\ call'.ops = Reads(driver)
  BY <1>1
<1>4. \A i \in Readable(driver) : Read(i) \in Left'
  BY <1>2, <1>3, ReadsFit DEF Left
<1>5. SaysBut(driver, Blank(driver), Left')
  BY <1>2, <1>4, BlankSays
<1> QED
  BY <1>1, <1>3, <1>5, ProbesTold

LEMMA TookTold ==
  ASSUME IInv, Told, Doing("read"), NEW i, i = Head(call.ops)[2], NEW v, IsWord(driver, i, v),
         cache' = Took(driver, cache, i, v), call' = AfterRead, driver' = driver, file' = file, fresh' = fresh
  PROVE  Told'
<1>1. TypeOK /\ Whereabouts /\ IsCopy(driver, cache) /\ Shape(driver, cache)
  BY DEF IInv, TypeOK
<1>2. /\ driver \in DriverNames /\ i \in Readable(driver) /\ Head(call.ops) = Read(i)
      /\ call.kind = "probe" /\ IsReading /\ ~listed
  BY <1>1, Known, AtRead, AtReads
<1>3. call'.kind = "probe" /\ \A j : Read(j) \in Left /\ j # i => Read(j) \in Left'
  BY <1>1, <1>2, ReadOn
<1>4. SaysBut(driver, cache, Left)
  BY <1>2 DEF Told, SaidOnceRead
<1>5. SaysBut(driver, cache', Left')
  BY <1>1, <1>2, <1>3, <1>4, TookSays
<1> QED
  BY <1>2, <1>3, <1>5, ProbesTold

LEMMA ReadItemTold ==
  ASSUME IInv, Told, ReadItem
  PROVE  Told'
<1> DEFINE i == Head(call.ops)[2]
<1>1. /\ Doing("read") /\ cache' = Took(driver, cache, i, mem[i]) /\ call' = AfterRead
      /\ driver' = driver /\ file' = file /\ fresh' = fresh
  BY DEF ReadItem, setting, ghosts
<1>2. i \in Items(driver)
  BY <1>1, Known, AtRead DEF IInv
<1>3. IsWord(driver, i, mem[i])
  BY <1>2 DEF IInv, TypeOK
<1> QED
  BY <1>1, <1>3, TookTold

LEMMA AbortTold ==
  ASSUME Told, Abort(doubt), UNCHANGED <<setting, listed, cache, fresh>>
  PROVE  Told'
<1>1. call'.kind = "none"
  BY DEF Abort, NoCall
<1> QED
  BY <1>1, StaysTold DEF setting

LEMMA MisreadTold ==
  ASSUME IInv, Told, Misread
  PROVE  Told'
<1> DEFINE i == Head(call.ops)[2]
<1>1. /\ Doing("read") /\ i[1] = "profile"
      /\ UNCHANGED <<setting, listed, fresh>> /\ driver' = driver /\ file' = file /\ fresh' = fresh
  BY DEF Misread, setting
<1>2. PICK q \in Profiles \ {i[2]} :
        IF driver = "Boomslang" THEN Abort(doubt) /\ UNCHANGED <<cache, misread>>
        ELSE /\ cache' = Took(driver, cache, i, mem[Profile(q)])
             /\ misread' = TRUE
             /\ call' = AfterRead
             /\ UNCHANGED doubt
  BY DEF Misread
<1>3. CASE driver = "Boomslang"
  BY <1>1, <1>2, <1>3, AbortTold
<1>4. CASE driver # "Boomslang"
  <2>1. driver \in DriverNames /\ i \in Items(driver)
    BY <1>1, Known, AtRead DEF IInv
  <2>2. Profile(q) \in Items(driver) /\ i = Profile(i[2])
    BY <1>1, <2>1, ItemsAre, ProfileOf DEF DriverNames, Synapse
  <2>3. IsWord(driver, Profile(q), mem[Profile(q)])
    BY <2>2 DEF IInv, TypeOK
  <2>4. IsWord(driver, i, mem[Profile(q)])
    BY <2>2, <2>3, ProfileWords
  <2> QED
    BY <1>1, <1>2, <1>4, <2>4, TookTold
<1> QED
  BY <1>3, <1>4

LEMMA UnreadableTold ==
  ASSUME IInv, Told, Unreadable
  PROVE  Told'
<1>1. /\ Doing("read") /\ driver = "Copperhead" /\ call' = AfterRead
      /\ driver' = driver /\ file' = file /\ cache' = cache /\ fresh' = fresh
  BY DEF Unreadable, setting
<1>2. TypeOK /\ Whereabouts
  BY DEF IInv
<1>3. /\ Head(call.ops) = Read(Head(call.ops)[2]) /\ call.kind = "probe" /\ IsReading /\ ~listed
  BY <1>1, <1>2, AtRead, AtReads
<1>4. call'.kind = "probe"
  BY <1>1, <1>2, <1>3, ReadOn
<1>5. SaysBut(driver, cache, Left)
  BY <1>3 DEF Told, SaidOnceRead
<1>6. SaysBut(driver', cache', Left')
  BY <1>1, <1>5 DEF SaysBut, Synapse
<1> QED
  BY <1>1, <1>3, <1>4, <1>6, ProbesTold

LEMMA PassTold ==
  ASSUME IInv, Told, Pass
  PROVE  Told'
<1>1. /\ Doing("query") \/ Doing("turn")
      /\ call' = OneLess /\ driver' = driver /\ file' = file /\ cache' = cache /\ fresh' = fresh
  BY DEF Pass, setting, ghosts
<1>2. TypeOK /\ Whereabouts
  BY DEF IInv
<1>3. /\ call.kind = "probe" /\ IsReading /\ ~listed /\ \A i : Head(call.ops) # Read(i)
  BY <1>1, <1>2, AtReads, AtPass
<1>4. call'.kind = "probe" /\ Left = {Head(call.ops)} \cup Left'
  BY <1>1, <1>2, <1>3, ReadsLess
<1>5. SaysBut(driver, cache, Left)
  BY <1>3 DEF Told, SaidOnceRead
<1>6. \A i : Read(i) \in Left => Read(i) \in Left'
  BY <1>3, <1>4
<1>7. SaysBut(driver, cache, Left')
  BY <1>5, <1>6, SaysLess
<1> QED
  BY <1>1, <1>3, <1>4, <1>7, ProbesTold

(* The configuration starts when the commit is over, with all that it says.*)
LEMMA CommittedTold ==
  ASSUME IInv, Told, IsWriting, Committed, UNCHANGED <<setting, cache, fresh>>
  PROVE  Told'
<1>1. TypeOK /\ Whereabouts
  BY DEF IInv
<1>2. /\ driver' = driver /\ file' = file /\ cache' = cache /\ fresh' = fresh /\ listed' = TRUE
      /\ call' = IF call.kind = "probe" THEN [kind |-> "configure", ops |-> ToApply(file, driver)] ELSE NoCall
  BY DEF Committed, setting
<1>3. CASE call.kind = "probe"
  <2> DEFINE plan == ToApply(file, driver)
  <2>1. call' = [kind |-> "configure", ops |-> plan] /\ call'.kind = "configure" /\ call'.ops = plan
    BY <1>2, <1>3
  <2>2. ~fresh
    BY <1>1, <1>3 DEF Whereabouts, Told, FreshStays
  <2>3. Says(driver, cache)
    <3>1. SaysBut(driver, cache, Left)
      BY <1>3 DEF Told, SaidOnceRead
    <3>2. \A i : Read(i) \notin Left
      BY <1>1, WritingHasAll
    <3> QED
      BY <3>1, <3>2, SaysAll
  <2>4. file \in Files
    BY DEF Told
  <2> HIDE DEF plan
  <2>5. plan \in Seq(OpsOf(plan)) /\ Len(plan) \in Nat
    BY <1>1, <2>4, PlanIs DEF plan
  <2>6. Applied(driver, cache, plan, 0)
    BY DEF Applied
  <2>7. Remains(driver, cache, plan, 0, plan)
    <3>1. Len(plan) = Len(plan) - 0 /\ \A k \in 1 .. Len(plan) : plan[k] = plan[0 + k]
      BY <2>5
    <3> QED
      BY <2>5, <3>1 DEF Remains
  <2>8. 0 \in 0 .. Len(plan)
    BY <2>5
  <2>9. Configuring'
    BY <1>2, <2>1, <2>2, <2>3, <2>6, <2>7, <2>8 DEF Configuring, plan
  <2> QED
    BY <1>2, <2>1, <2>2, <2>4, <2>9 DEF Told, SaidOnceRead, FreshStays
<1>4. CASE call.kind # "probe"
  <2>1. call'.kind = "none"
    BY <1>2, <1>4 DEF NoCall
  <2> QED
    BY <1>2, <2>1, StaysTold
<1> QED
  BY <1>3, <1>4

LEMMA FinishCommitTold ==
  ASSUME IInv, Told, FinishCommit
  PROVE  Told'
<1>1. TypeOK /\ Whereabouts
  BY DEF IInv
<1>2. /\ call.kind \notin {"none", "configure"} /\ call.ops = <<>> /\ Committed
      /\ UNCHANGED <<setting, cache, fresh>>
  BY DEF FinishCommit, ghosts
<1>3. IsWriting
  BY <1>1, <1>2 DEF Whereabouts, TypeOK, IsReading, IsReads
<1> QED
  BY <1>2, <1>3, CommittedTold

LEMMA OneLessTold ==
  ASSUME IInv, Told, Doing("write"), call' = OneLess, UNCHANGED <<setting, listed, cache, fresh>>
  PROVE  Told'
<1> DEFINE i == Head(call.ops)[2]
<1>1. TypeOK /\ Whereabouts
  BY DEF IInv
<1>2. driver' = driver /\ file' = file /\ listed' = listed /\ cache' = cache /\ fresh' = fresh
  BY DEF setting
<1>3. /\ Head(call.ops) = Write(i) /\ call.kind \in {"probe", "release", "reconfig"} /\ call.ops # <<>>
      /\ IsWriting \/ IsReading
  BY <1>1, AtWrite
<1>4. call'.kind = call.kind
  BY <1>1, OneLessIs
<1>5. CASE call.kind = "probe"
  <2>1. \A j : Read(j) \in Left => Read(j) \in Left'
    <3>1. CASE IsReading
      <4>1. \A j : Head(call.ops) # Read(j)
        BY <1>3, OpsDiffer
      <4>2. Left = {Head(call.ops)} \cup Left'
        BY <1>1, <1>2, <3>1, <4>1, ReadsLess
      <4> QED
        BY <4>1, <4>2
    <3>2. CASE IsWriting
      BY <1>1, <3>2, WritingHasAll
    <3> QED
      BY <1>3, <3>1, <3>2
  <2>2. SaysBut(driver, cache, Left)
    BY <1>5 DEF Told, SaidOnceRead
  <2>3. SaysBut(driver, cache, Left')
    BY <2>1, <2>2, SaysLess
  <2>4. ~listed
    BY <1>1, <1>5 DEF Whereabouts
  <2> QED
    BY <1>2, <1>4, <1>5, <2>3, <2>4, ProbesTold
<1>6. CASE call.kind # "probe"
  BY <1>2, <1>3, <1>4, <1>6, StaysTold
<1> QED
  BY <1>5, <1>6

LEMMA WriteItemTold ==
  ASSUME IInv, Told, WriteItem
  PROVE  Told'
<1> DEFINE i == Head(call.ops)[2]
<1>1. TypeOK /\ Whereabouts
  BY DEF IInv
<1>2. Doing("write") /\ UNCHANGED <<setting, cache, fresh>>
  BY DEF WriteItem, ghosts
<1>3. PICK fate \in WriteFates(driver, i) :
        CASE fate \in {"done", "ignored"} -> call' = OneLess /\ UNCHANGED listed
          [] fate = "refused" -> Committed
          [] OTHER            -> Abort(doubt) /\ UNCHANGED listed
  BY DEF WriteItem
<1>4. driver \in DriverNames
  BY <1>1, Known
<1>5. /\ fate \in {"done", "lost", "spoilt", "ignored", "refused"}
      /\ fate = "refused" => i[1] = "profile"
  BY <1>4, FatesAre
<1>6. IsWriting \/ (IsReading /\ i = Active)
  BY <1>1, <1>2, AtWrite
<1> HIDE DEF i
<1>7. CASE fate \in {"done", "ignored"}
  BY <1>2, <1>3, <1>7, OneLessTold
<1>8. CASE fate = "refused"
  <2>1. IsWriting
    BY <1>5, <1>6, <1>8, ItemsDiffer
  <2> QED
    BY <1>2, <1>3, <1>8, <2>1, CommittedTold
<1>9. CASE fate \in {"lost", "spoilt"}
  BY <1>2, <1>3, <1>9, AbortTold
<1> QED
  BY <1>5, <1>7, <1>8, <1>9

(* One more item is in the copy, or is wrong and the last. *)
LEMMA ConfigureItemTold ==
  ASSUME IInv, Told, ConfigureItem, NrProfiles <= 10, ResolutionsNamed
  PROVE  Told'
<1> DEFINE plan == ToApply(file, driver)
           it   == Head(call.ops)
           r    == ApplyItem(driver, cache, it)
<1>1. TypeOK /\ IsCopy(driver, cache) /\ file \in Files
  BY DEF IInv, TypeOK, Told
<1>2. /\ call.kind = "configure" /\ call.ops # <<>> /\ cache' = r.cache
      /\ call' = IF r.error THEN [call EXCEPT !.ops = <<>>] ELSE OneLess
      /\ driver' = driver /\ file' = file /\ listed' = listed /\ fresh' = fresh
  BY DEF ConfigureItem, Taken, setting
<1>3. driver \in DriverNames
  BY <1>1, Known
<1>4. /\ plan \in Seq(OpsOf(plan)) /\ Len(plan) \in Nat
      /\ \A k \in 1 .. Len(plan) : IsItem(driver, plan[k])
  BY <1>1, PlanIs
<1>5. Says(driver, cache) /\ ~fresh
  BY <1>2 DEF Told, Configuring
<1>6. PICK n \in 0 .. Len(plan) : Applied(driver, cache, plan, n) /\ Remains(driver, cache, plan, n, call.ops)
  BY <1>2 DEF Told, Configuring
<1> HIDE DEF plan
<1>7. /\ call.ops \in Seq(OpsOf(plan)) /\ Len(call.ops) = Len(plan) - n
      /\ \A k \in 1 .. Len(call.ops) : call.ops[k] = plan[n + k]
  BY <1>2, <1>6 DEF Remains
<1>8. /\ it = call.ops[1] /\ Len(call.ops) \in Nat \ {0} /\ Tail(call.ops) \in Seq(OpsOf(plan))
      /\ Len(Tail(call.ops)) = Len(call.ops) - 1
      /\ \A k \in 1 .. Len(call.ops) - 1 : Tail(call.ops)[k] = call.ops[k + 1]
  BY <1>2, <1>7, TailIs
<1>9. n \in Nat /\ n + 1 \in 1 .. Len(plan) /\ n < Len(plan) /\ it = plan[n + 1] /\ n + 1 \in 0 .. Len(plan)
  <2>1. n \in Nat /\ n < Len(plan)
    BY <1>4, <1>7, <1>8
  <2>2. call.ops[1] = plan[n + 1]
    BY <1>7, <1>8
  <2> QED
    BY <1>4, <1>8, <2>1, <2>2
<1>10. Heeded(driver, cache, it, r)
  BY <1>1, <1>3, <1>4, <1>5, <1>9, ItemHeeded
<1> HIDE DEF it, r
<1>11. call'.kind = "configure"
  BY <1>1, <1>2 DEF TypeOK, OneLess
<1>12. CASE IsError(driver, cache, it)
  <2>1. r.error = TRUE /\ cache' = cache
    BY <1>2, <1>10, <1>12 DEF Heeded
  <2>2. call'.ops = <<>>
    BY <1>1, <1>2, <2>1 DEF TypeOK
  <2>3. Stops(driver, cache, plan, n)
    BY <1>9, <1>12 DEF Stops
  <2>4. Remains(driver, cache, plan, n, call'.ops)
    BY <2>2, <2>3 DEF Remains
  <2>5. Configuring'
    BY <1>2, <1>5, <1>6, <2>1, <2>4 DEF Configuring, plan
  <2> QED
    BY <1>1, <1>2, <1>5, <1>11, <2>5 DEF Told, SaidOnceRead, FreshStays
<1>13. CASE ~IsError(driver, cache, it)
  <2>1. /\ r.error = FALSE /\ cache'.res = cache.res
        /\ \A p \in Profiles : cache'.freq[p] = cache.freq[p] \/ cache'.freq[p] \in {125, 500, 1000}
    BY <1>2, <1>10, <1>13 DEF Heeded
  <2>2. call'.ops = Tail(call.ops)
    BY <1>1, <1>2, <2>1, OneLessIs
  <2>3. Says(driver, cache')
    BY <1>5, <2>1 DEF Says
  <2>4. Applied(driver, cache', plan, n + 1)
    BY <1>2, <1>6, <1>9, <1>10, <1>13, AppliedMore
  <2>5. Remains(driver, cache', plan, n + 1, call'.ops)
    <3>1. Len(call'.ops) = Len(plan) - (n + 1)
      BY <1>4, <1>7, <1>8, <1>9, <2>2
    <3>2. ASSUME NEW k \in 1 .. Len(call'.ops)
          PROVE  call'.ops[k] = plan[(n + 1) + k]
      <4>1. k \in 1 .. Len(call.ops) - 1 /\ k + 1 \in 1 .. Len(call.ops) /\ n + (k + 1) = (n + 1) + k
        BY <1>8, <1>9, <2>2
      <4>2. call'.ops[k] = call.ops[k + 1]
        BY <1>8, <2>2, <4>1
      <4>3. call.ops[k + 1] = plan[n + (k + 1)]
        BY <1>7, <4>1
      <4> QED
        BY <4>1, <4>2, <4>3
    <3> QED
      BY <1>8, <2>2, <3>1, <3>2 DEF Remains
  <2>6. Configuring'
    BY <1>2, <1>5, <1>9, <2>3, <2>4, <2>5 DEF Configuring, plan
  <2> QED
    BY <1>1, <1>2, <1>5, <1>11, <2>6 DEF Told, SaidOnceRead, FreshStays
<1> QED
  BY <1>12, <1>13

LEMMA ConfiguredTold ==
  ASSUME IInv, Told, Configured
  PROVE  Told'
<1> DEFINE plan == ToApply(file, driver)
<1>1. /\ call.kind = "configure" /\ call.ops = <<>> /\ call' = Releasing(pending, held)
      /\ driver' = driver /\ file' = file /\ listed' = listed /\ cache' = cache
  BY DEF Configured, setting
<1>2. listed /\ TypeOK /\ file \in Files
  BY <1>1 DEF IInv, Whereabouts, Told
<1>3. call'.kind \in {"none", "release"}
  BY <1>1, <1>2, ReleasingIs
<1>4. Says(driver, cache)
  BY <1>1 DEF Told, Configuring
<1>5. PICK n \in 0 .. Len(plan) : Applied(driver, cache, plan, n) /\ Remains(driver, cache, plan, n, call.ops)
  BY <1>1 DEF Told, Configuring
<1>6. Len(plan) \in Nat
  BY <1>2, PlanIs
<1> HIDE DEF plan
<1>7. Stops(driver, cache, plan, n)
  <2>1. CASE Len(call.ops) = Len(plan) - n
    <3>1. n = Len(plan)
      BY <1>1, <1>6, <2>1
    <3> QED
      BY <3>1 DEF Stops
  <2> QED
    BY <1>5, <2>1 DEF Remains
<1>8. FreshStays'
  BY <1>1, <1>2, <1>4, <1>5, <1>7 DEF FreshStays, plan
<1> QED
  BY <1>1, <1>2, <1>3, <1>8 DEF Told, SaidOnceRead, Configuring

LEMMA CommandTold ==
  ASSUME IInv, Told, NEW r, Command(r)
  PROVE  Told'
<1>1. call' = Releasing(pending', held) /\ fresh' = FALSE /\ file' = file /\ TypeOK
  BY DEF Command, setting, IInv
<1>2. call'.kind \in {"none", "release"}
  BY <1>1, ReleasingIs
<1> QED
  BY <1>1, <1>2, ForgetsTold

LEMMA CommandsTold ==
  ASSUME IInv, Told,
         \/ ActiveCommand \/ FreqCommand \/ MappingCommand \/ ResolutionCommand
         \/ LedCommand \/ ColourCommand \/ ButtonCommand \/ NameCommand
  PROVE  Told'
<1>1. \E r : Command(r)
  BY Zenon DEF ActiveCommand, FreqCommand, MappingCommand, ResolutionCommand, LedCommand, ColourCommand,
               ButtonCommand, NameCommand, Set
<1> QED
  BY <1>1, CommandTold

LEMMA OthersTold ==
  ASSUME IInv, Told, FailedExchange \/ Reconfig \/ Hold \/ Unhold \/ ProfileButton \/ Unplug \/ UNCHANGED vars
  PROVE  Told'
<1>1. TypeOK
  BY DEF IInv
<1>2. CASE FailedExchange
  BY <1>2, AbortTold DEF FailedExchange, ghosts
<1>3. CASE Reconfig
  <2>1. /\ call'.kind = "reconfig" /\ driver' = driver /\ file' = file /\ listed' = listed
        /\ cache' = cache /\ fresh' = fresh
    BY <1>3 DEF Reconfig, setting, ghosts
  <2> QED
    BY <2>1, StaysTold
<1>4. CASE Hold
  <2>1. /\ call'.kind = "none" /\ driver' = driver /\ file' = file /\ listed' = listed
        /\ cache' = cache /\ fresh' = fresh
    BY <1>4 DEF Hold, Idle, setting, ghosts
  <2> QED
    BY <2>1, StaysTold
<1>5. CASE Unhold
  <2>1. /\ call' = Releasing(pending, FALSE) /\ driver' = driver /\ file' = file /\ listed' = listed
        /\ cache' = cache /\ fresh' = fresh
    BY <1>5 DEF Unhold, setting, ghosts
  <2>2. call'.kind \in {"none", "release"}
    BY <1>1, <2>1, ReleasingIs
  <2> QED
    BY <2>1, <2>2, StaysTold
<1>6. CASE ProfileButton
  <2>1. call'.kind = "none" /\ file' = file /\ fresh' = FALSE
    BY <1>6 DEF ProfileButton, Idle, setting
  <2> QED
    BY <2>1, ForgetsTold
<1>7. CASE Unplug
  <2>1. call'.kind = "none" /\ file' = file /\ fresh' = FALSE
    BY <1>7 DEF Unplug, NoCall, setting
  <2> QED
    BY <2>1, ForgetsTold
<1>8. CASE UNCHANGED vars
  BY <1>8 DEF vars, Told, SaidOnceRead, Configuring, FreshStays, Left
<1> QED
  BY <1>2, <1>3, <1>4, <1>5, <1>6, <1>7, <1>8

(* What is in the copy, and was written, is in force. *)
LEMMA ConfigIs ==
  ASSUME IInv, Told
  PROVE  ConfigTakesHold
<1> DEFINE plan == ToApply(file, driver)
<1> SUFFICES ASSUME fresh, Written, NEW k \in InForce(driver, Found, plan)
             PROVE  Obeys(driver, Found, plan[k])
  BY DEF ConfigTakesHold
<1>1. /\ TypeOK /\ file \in Files /\ Says(driver, cache)
  BY DEF IInv, Told, FreshStays
<1>2. PICK n \in 0 .. Len(plan) : Applied(driver, cache, plan, n) /\ Stops(driver, cache, plan, n)
  BY DEF Told, FreshStays
<1>3. Sayable
  BY <1>1 DEF Sayable, Says
<1>4. Found = cache
  BY <1>3, NextDaemonIs DEF NextDaemonFinds
<1>5. DOMAIN plan = 1 .. Len(plan) /\ Len(plan) \in Nat
  BY <1>1, PlanIs
<1> DEFINE carried == {x \in DOMAIN plan : \A j \in 1 .. x : ~IsError(driver, cache, plan[j])}
<1>6. k \in carried /\ \A j \in carried : j > k => ~SameSubject(driver, plan[k], plan[j])
  BY <1>4 DEF InForce
<1> HIDE DEF plan
<1>7. k <= n
  <2>1. ASSUME n < k PROVE FALSE
    <3>1. n < Len(plan) /\ n + 1 \in 1 .. k
      BY <1>5, <1>6, <2>1
    <3>2. IsError(driver, cache, plan[n + 1])
      BY <1>2, <3>1 DEF Stops
    <3> QED
      BY <1>6, <3>1, <3>2
  <2> QED
    BY <1>5, <1>6, <2>1
<1>8. \A x \in 1 .. n : x \in carried
  <2>1. ASSUME NEW x \in 1 .. n, NEW j \in 1 .. x
        PROVE  x \in DOMAIN plan /\ ~IsError(driver, cache, plan[j])
    <3>1. j \in 1 .. n /\ x \in 1 .. Len(plan)
      BY <1>5, <2>1
    <3> QED
      BY <1>2, <1>5, <3>1 DEF Applied
  <2>2. \A x \in 1 .. n : 1 \in 1 .. x
    OBVIOUS
  <2> QED
    BY <2>1, <2>2
<1> HIDE DEF carried
<1>9. k \in 1 .. n
  <2>1. k \in DOMAIN plan
    BY <1>6 DEF carried
  <2> QED
    BY <1>5, <1>7, <2>1
<1>10. \A j \in k + 1 .. n : ~SameSubject(driver, plan[k], plan[j])
  <2>1. \A j \in k + 1 .. n : j \in 1 .. n /\ j > k
    BY <1>9
  <2> QED
    BY <1>6, <1>8, <2>1
<1>11. Obeys(driver, cache, plan[k])
  BY <1>2, <1>9, <1>10 DEF Applied
<1> QED
  BY <1>4, <1>11

(* A mouse that was found and that nobody changed since keeps in its       *)
(* memory what the first fitting section of razer.conf says, when          *)
(* everything was written (mouse_apply_initial_config and the setters that *)
(* it calls, which see nothing that the wire cannot say).  A mapping's     *)
(* number has one digit for the profile here; the code has 5 profiles.     *)
THEOREM ConfigHolds ==
  ASSUME NrProfiles <= 10, ResolutionsNamed
  PROVE  Spec => []ConfigTakesHold
<1>1. Init => Told
  BY DEF Init, NoCall, Told, SaidOnceRead, Configuring, FreshStays
<1>2. IInv /\ Told /\ [Next]_vars => Told'
  <2> SUFFICES ASSUME IInv, Told, [Next]_vars PROVE Told'
    OBVIOUS
  <2>1. CASE Probe
    BY <2>1, ProbeTold
  <2>2. CASE ReadItem
    BY <2>2, ReadItemTold
  <2>3. CASE Misread
    BY <2>3, MisreadTold
  <2>4. CASE Unreadable
    BY <2>4, UnreadableTold
  <2>5. CASE Pass
    BY <2>5, PassTold
  <2>6. CASE WriteItem
    BY <2>6, WriteItemTold
  <2>7. CASE FinishCommit
    BY <2>7, FinishCommitTold
  <2>8. CASE ConfigureItem
    BY <2>8, ConfigureItemTold
  <2>9. CASE Configured
    BY <2>9, ConfiguredTold
  <2>10. CASE \/ ActiveCommand \/ FreqCommand \/ MappingCommand \/ ResolutionCommand
              \/ LedCommand \/ ColourCommand \/ ButtonCommand \/ NameCommand
    BY <2>10, CommandsTold
  <2>11. CASE FailedExchange \/ Reconfig \/ Hold \/ Unhold \/ ProfileButton \/ Unplug \/ UNCHANGED vars
    BY <2>11, OthersTold
  <2> QED
    BY <2>1, <2>2, <2>3, <2>4, <2>5, <2>6, <2>7, <2>8, <2>9, <2>10, <2>11 DEF Next
<1>3. Spec => []IInv
  BY Invariance
<1>4. IInv /\ Told => ConfigTakesHold
  BY ConfigIs
<1> QED
  BY <1>1, <1>2, <1>3, <1>4, PTL DEF Spec
=============================================================================
