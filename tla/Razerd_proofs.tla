---------------------------- MODULE Razerd_proofs ----------------------------
(***************************************************************************)
(* Proofs about the daemon, for any number of clients, privileged clients  *)
(* and mice, any set of commands, any room in the sockets and any bounds.  *)
(*                                                                         *)
(* The argument: whatever command runs, the daemon's state changes in one  *)
(* of a few ways (DaemonSteps): not at all, by one library call sequence   *)
(* on one known mouse, by a rescan, by a reconfiguration, or by a device   *)
(* coming or going.  The lemmas of MouseOps_proofs say what the library    *)
(* calls do to one mouse; Books adds that the claims of every mouse are    *)
(* the claims granted, and none on a mouse the daemon does not know.       *)
(***************************************************************************)
EXTENDS Razerd, MouseOps_proofs, FiniteSetTheorems

(* One mouse, as the library calls must keep it.                           *)
Sound(m) == Core(m) /\ ClaimCore(m)

(* What the daemon knows: the claims of every mouse are accounted for.     *)
Books ==
  /\ mice \subseteq miceList
  /\ \A m \in Mice : /\ Sound(dev[m])
                     /\ dev[m].claims = granted[m]
                     /\ m \notin miceList => granted[m] = 0

IInv == TypeOK /\ Books

-----------------------------------------------------------------------------
(* What the handlers' call sequences do to one mouse.                      *)

LEMMA AttemptKeepsSound ==
  ASSUME NEW m \in Mouse, NEW n \in Mouse, Sound(m), ClaimCore(n),
         Tries(m, n) \/ Delivers(m, n)
  PROVE  Sound(n)
  BY AttemptKeepsCore DEF Sound

LEMMA ClaimKeepsSound ==
  ASSUME NEW m \in Mouse, NEW r \in MouseClaim(m), Sound(m)
  PROVE  /\ Sound(r.m) /\ r.m \in Mouse /\ r.err \in BOOLEAN
         /\ r.m.claims = IF r.err THEN m.claims ELSE m.claims + 1
<1>1. /\ r.m \in Mouse /\ r.err \in BOOLEAN /\ Tries(m, r.m) /\ ClaimCore(r.m)
      /\ r.m.claims = IF r.err THEN m.claims ELSE m.claims + 1
  BY MouseClaimEffect DEF Sound
<1>2. QED
  BY <1>1, AttemptKeepsSound

LEMMA ReleaseKeepsSound ==
  ASSUME NEW m \in Mouse, NEW r \in MouseRelease(m), Sound(m)
  PROVE  /\ Sound(r.m) /\ r.m \in Mouse
         /\ r.m.claims = IF m.claims = 0 THEN 0 ELSE m.claims - 1
<1>1. /\ r.m \in Mouse /\ (Tries(m, r.m) \/ Delivers(m, r.m)) /\ ClaimCore(r.m)
      /\ r.m.claims = IF m.claims = 0 THEN 0 ELSE m.claims - 1
  BY MouseReleaseEffect DEF Sound
<1>2. QED
  BY <1>1, AttemptKeepsSound

LEMMA SetFreqKeepsSound ==
  ASSUME NEW m \in Mouse, NEW v \in Settings, Sound(m)
  PROVE  /\ Sound(SetFreq(m, v).m) /\ SetFreq(m, v).m \in Mouse
         /\ SetFreq(m, v).m.claims = m.claims
<1>1. CASE SetFreq(m, v).m = m
  BY <1>1
<1>2. CASE m.claims # 0 /\ SetFreq(m, v).m = [m EXCEPT !.cfg = v, !.pending = TRUE]
  <2> DEFINE n == [m EXCEPT !.cfg = v, !.pending = TRUE]
  <2>1. /\ n \in Mouse /\ n.kind = m.kind /\ n.old = m.old /\ n.hw = m.hw /\ n.pending
        /\ n.astray = m.astray /\ n.claims = m.claims
    BY <1>2, SetFreqEffect DEF Mouse
  <2> HIDE DEF n
  <2>2. Core(n) /\ ClaimCore(n)
    BY <1>2, <2>1 DEF Sound, Core, ClaimCore
  <2>3. QED
    BY <1>2, <2>1, <2>2 DEF Sound, n
<1>3. QED
  BY <1>1, <1>2, SetFreqEffect

(* A claim and a release around a query leave the count where it was.      *)
LEMMA BracketedKeepsSound ==
  ASSUME NEW m \in Mouse, NEW n \in Bracketed(m), Sound(m)
  PROVE  Sound(n) /\ n \in Mouse /\ n.claims = m.claims
<1>1. PICK r \in MouseClaim(m) :
        n \in IF r.err THEN {r.m} ELSE {s.m : s \in MouseRelease(r.m)}
  BY DEF Bracketed
<1>2. /\ Sound(r.m) /\ r.m \in Mouse /\ r.err \in BOOLEAN
      /\ r.m.claims = IF r.err THEN m.claims ELSE m.claims + 1
  BY ClaimKeepsSound
<1>3. CASE r.err
  BY <1>1, <1>2, <1>3
<1>4. CASE ~r.err
  <2>1. PICK s \in MouseRelease(r.m) : n = s.m
    BY <1>1, <1>4
  <2>2. /\ Sound(s.m) /\ s.m \in Mouse
        /\ s.m.claims = IF r.m.claims = 0 THEN 0 ELSE r.m.claims - 1
    BY <1>2, ReleaseKeepsSound
  <2>3. QED
    BY <1>2, <1>4, <2>1, <2>2 DEF Mouse
<1>5. QED
  BY <1>2, <1>3, <1>4

(* So do they around a setter, whether it stores or fails.                 *)
LEMMA ClaimedSetKeepsSound ==
  ASSUME NEW m \in Mouse, NEW v \in Settings, NEW n \in ClaimedSet(m, v), Sound(m)
  PROVE  Sound(n) /\ n \in Mouse /\ n.claims = m.claims
<1>1. PICK r \in MouseClaim(m) :
        n \in IF r.err THEN {r.m} ELSE UNION {{s.m : s \in MouseRelease(p)} : p \in Stored(r.m, v)}
  BY Zenon DEF ClaimedSet
<1>2. /\ Sound(r.m) /\ r.m \in Mouse /\ r.err \in BOOLEAN
      /\ r.m.claims = IF r.err THEN m.claims ELSE m.claims + 1
  BY ClaimKeepsSound
<1>3. CASE r.err
  BY <1>1, <1>2, <1>3
<1>4. CASE ~r.err
  <2>1. PICK p \in Stored(r.m, v) : \E s \in MouseRelease(p) : n = s.m
    BY <1>1, <1>4
  <2>2. Sound(p) /\ p \in Mouse /\ p.claims = r.m.claims
    BY <1>2, SetFreqKeepsSound DEF Stored
  <2>3. PICK s \in MouseRelease(p) : n = s.m
    BY <2>1
  <2>4. /\ Sound(s.m) /\ s.m \in Mouse
        /\ s.m.claims = IF p.claims = 0 THEN 0 ELSE p.claims - 1
    BY <2>2, ReleaseKeepsSound
  <2>5. QED
    BY <1>2, <1>4, <2>2, <2>3, <2>4 DEF Mouse
<1>5. QED
  BY <1>2, <1>3, <1>4

LEMMA ReconfigKeepsSound ==
  ASSUME NEW m \in Mouse, NEW r \in Reconfig(m), Sound(m)
  PROVE  Sound(r.m) /\ r.m \in Mouse /\ r.m.claims = m.claims
<1>1. /\ r.m \in Mouse /\ (Tries(m, r.m) \/ Delivers(m, r.m)) /\ ClaimCore(r.m)
      /\ r.m.claims = m.claims
  BY ReconfigEffect DEF Sound
<1>2. QED
  BY <1>1, AttemptKeepsSound

LEMMA ReleaseAllKeepsSound ==
  ASSUME NEW m \in Mouse, NEW n \in ReleaseAll(m), Sound(m)
  PROVE  Sound(n) /\ n \in Mouse /\ n.claims = 0
<1>1. n \in Mouse /\ (Tries(m, n) \/ Delivers(m, n)) /\ ClaimCore(n) /\ n.claims = 0
  BY ReleaseAllEffect DEF Sound
<1>2. QED
  BY <1>1, AttemptKeepsSound

LEMMA NewMouseSound ==
  ASSUME NEW had \in Values \cup {PowerOn}, NEW n \in NewMouse(Default, had)
  PROVE  Sound(n) /\ n \in Mouse /\ n.claims = 0
  BY DefaultIsValue, NewMouseEffect DEF Sound

(* Such a mouse, on the bus or not, is what the daemon starts with.        *)
LEMMA FreshSound ==
  ASSUME NEW n \in Fresh, NEW b \in BOOLEAN
  PROVE  /\ Sound([n EXCEPT !.present = b]) /\ [n EXCEPT !.present = b] \in Mouse
         /\ [n EXCEPT !.present = b].claims = 0
         /\ Kinds \cap Rebooting = {} /\ ~ConfigFlaps => Handle([n EXCEPT !.present = b])
<1>1. PICK had \in Values \cup {PowerOn} : n \in NewMouse(Default, had)
  BY DEF Fresh
<1>2. /\ n \in Mouse /\ Core(n) /\ ClaimCore(n) /\ n.claims = 0
      /\ Kinds \cap Rebooting = {} /\ ~ConfigFlaps => Handle(n)
  BY <1>1, DefaultIsValue, NewMouseEffect
<1> DEFINE p == [n EXCEPT !.present = b]
<1>3. p \in Mouse /\ Core(p) /\ ClaimCore(p) /\ p.claims = 0
  BY <1>2 DEF Mouse, Core, ClaimCore
<1>4. Kinds \cap Rebooting = {} /\ ~ConfigFlaps => Handle(p)
  BY <1>2 DEF Mouse, Handle
<1>5. QED
  BY <1>3, <1>4 DEF Sound

-----------------------------------------------------------------------------
(* The ways a step changes what the daemon knows.                          *)

(* A command on the known mouse m leaves n of it, and the claims g.        *)
OnOne(m, n, g) ==
  \/ n \in Bracketed(dev[m]) /\ g = granted[m]
  \/ \E v \in Settings : n \in ClaimedSet(dev[m], v) /\ g = granted[m]
  \/ \E v \in Settings : n = SetFreq(dev[m], v).m /\ g = granted[m]
  \/ \E r \in MouseClaim(dev[m]) :
       n = r.m /\ g = IF r.err THEN granted[m] ELSE granted[m] + 1
  \/ \E r \in MouseRelease(dev[m]) :
       n = r.m /\ g = IF granted[m] = 0 THEN granted[m] ELSE granted[m] - 1

OneCommand ==
  /\ UNCHANGED <<mice, miceList, told, conn>>
  /\ \E m \in mice : \E n, g :
       /\ OnOne(m, n, g)
       /\ dev' = [dev EXCEPT ![m] = n]
       /\ granted' = [granted EXCEPT ![m] = g]

(* A command's mouse and value are what its handler takes them for.        *)
LEMMA CommandFields ==
  ASSUME NEW k \in Commands
  PROVE  /\ k.op \in {"set", "setprofname"} => k.mouse \in Mice /\ k.val \in Settings
         /\ k.op \in {"query", "getfwver", "claim", "release", "flash"} => k.mouse \in Mice
  BY DEF Commands

LEMMA ServedCommand ==
  ASSUME TypeOK, NEW c \in Peers, inq[c] # <<>>
  PROVE  Head(inq[c]) \in Commands /\ Tail(inq[c]) \in Seq(Commands)
  BY DEF TypeOK

LEMMA ServeSteps ==
  ASSUME TypeOK, NEW c \in Peers, Serve(c)
  PROVE  \/ UNCHANGED daemon
         \/ c \in Clients /\ GetMice(c)
         \/ OneCommand
         \/ RescanMice
         \/ ReconfigMice
<1> DEFINE k == Head(inq[c])
<1>1. k \in Commands
  BY ServedCommand DEF Serve
<1>2. \/ c \in Clients /\ ClientCommand(c, k)
      \/ c \in Privs /\ PrivCommand(c, k)
      \/ UNCHANGED daemon
  BY DEF Serve
<1>3. conn' = conn
  BY DEF Serve
<1>4. \A m \in mice : /\ dev = [dev EXCEPT ![m] = dev[m]] /\ granted = [granted EXCEPT ![m] = granted[m]]
                      /\ m \in Mice
  BY DEF TypeOK
<1> HIDE DEF k
<1>5. CASE c \in Clients /\ ClientCommand(c, k)
  <2>1. CASE k.op = "getmice" /\ GetMice(c)
    BY <1>5, <2>1
  <2>2. CASE k.op = "query" /\ Query(c)
    BY <2>2 DEF Query
  <2>3. CASE k.op = "getfwver" /\ GetFwVer(c, k)
    <3>1. CASE k.mouse \in mice
      BY <1>3, <1>4, <2>3, <3>1 DEF GetFwVer, Found, OneCommand, OnOne
    <3>2. CASE k.mouse \notin mice
      BY <2>3, <3>2 DEF GetFwVer, Found, daemon
    <3>3. QED
      BY <3>1, <3>2
  <2>4. CASE k.op = "set" /\ SetCommand(c, k)
    <3>1. CASE k.mouse \in mice
      <4>1. k.val \in Settings
        BY <1>1, <2>4, CommandFields
      <4>2. PICK n \in ClaimedSet(dev[k.mouse], k.val) : dev' = [dev EXCEPT ![k.mouse] = n]
        BY <2>4, <3>1 DEF SetCommand, Found
      <4>3. OnOne(k.mouse, n, granted[k.mouse])
        BY <4>1, <4>2 DEF OnOne
      <4>4. granted' = granted /\ UNCHANGED <<mice, miceList, told>>
        BY <2>4 DEF SetCommand
      <4>5. QED
        BY <1>3, <1>4, <3>1, <4>2, <4>3, <4>4 DEF OneCommand
    <3>2. CASE k.mouse \notin mice
      BY <2>4, <3>2 DEF SetCommand, Found, daemon
    <3>3. QED
      BY <3>1, <3>2
  <2>5. CASE k.op = "setprofname" /\ SetProfName(c, k)
    <3>1. CASE k.mouse \in mice
      BY <1>1, <1>3, <1>4, <2>5, <3>1, CommandFields DEF SetProfName, Found, OneCommand, OnOne
    <3>2. CASE k.mouse \notin mice
      BY <2>5, <3>2 DEF SetProfName, Found, daemon
    <3>3. QED
      BY <3>1, <3>2
  <2>6. CASE RescanMice \/ ReconfigMice
    BY <2>6
  <2>7. CASE Unknown(c)
    BY <2>7 DEF Unknown
  <2>8. QED
    BY <1>5, <2>1, <2>2, <2>3, <2>4, <2>5, <2>6, <2>7 DEF ClientCommand
<1>6. CASE c \in Privs /\ PrivCommand(c, k)
  <2>1. CASE k.op = "claim" /\ ClaimCommand(c, k)
    <3>1. CASE k.mouse \in mice
      <4>1. PICK r \in MouseClaim(dev[k.mouse]) :
              /\ dev' = [dev EXCEPT ![k.mouse] = r.m]
              /\ granted' = IF r.err THEN granted ELSE [granted EXCEPT ![k.mouse] = @ + 1]
        BY <2>1, <3>1 DEF ClaimCommand, Found
      <4>2. granted' = [granted EXCEPT ![k.mouse] =
                          IF r.err THEN granted[k.mouse] ELSE granted[k.mouse] + 1]
        BY <1>4, <3>1, <4>1
      <4>3. UNCHANGED <<mice, miceList, told>>
        BY <2>1 DEF ClaimCommand
      <4>4. QED
        BY <1>3, <3>1, <4>1, <4>2, <4>3 DEF OneCommand, OnOne
    <3>2. CASE k.mouse \notin mice
      BY <2>1, <3>2 DEF ClaimCommand, Found, daemon
    <3>3. QED
      BY <3>1, <3>2
  <2>2. CASE k.op = "release" /\ ReleaseCommand(c, k)
    <3>1. CASE k.mouse \in mice
      <4>1. PICK r \in MouseRelease(dev[k.mouse]) :
              /\ dev' = [dev EXCEPT ![k.mouse] = r.m]
              /\ granted' = IF granted[k.mouse] = 0 THEN granted
                            ELSE [granted EXCEPT ![k.mouse] = @ - 1]
        BY <2>2, <3>1 DEF ReleaseCommand, Found
      <4>2. granted' = [granted EXCEPT ![k.mouse] =
                          IF granted[k.mouse] = 0 THEN granted[k.mouse] ELSE granted[k.mouse] - 1]
        BY <1>4, <3>1, <4>1
      <4>3. UNCHANGED <<mice, miceList, told>>
        BY <2>2 DEF ReleaseCommand
      <4>4. QED
        BY <1>3, <3>1, <4>1, <4>2, <4>3 DEF OneCommand, OnOne
    <3>2. CASE k.mouse \notin mice
      BY <2>2, <3>2 DEF ReleaseCommand, Found, daemon
    <3>3. QED
      BY <3>1, <3>2
  <2>3. CASE Unknown(c)
    BY <2>3 DEF Unknown
  <2>4. QED
    BY <1>6, <2>1, <2>2, <2>3 DEF PrivCommand
<1>7. QED
  BY <1>2, <1>5, <1>6

LEMMA DaemonSteps ==
  ASSUME TypeOK, [Next]_vars
  PROVE  \/ UNCHANGED daemon
         \/ \E c \in Clients : GetMice(c) /\ conn' = conn
         \/ \E c \in Peers : Accept(c)
         \/ OneCommand
         \/ RescanMice /\ conn' = conn
         \/ ReconfigMice /\ conn' = conn
         \/ \E m \in Mice : Unplug(m) \/ Plug(m)
<1>1. CASE Chunk \/ ChunkLost
  BY <1>1 DEF Chunk, ChunkLost
<1>2. CASE FinishFlash
  <2>1. CASE bulk.mouse \in mice
    <3>1. granted = [granted EXCEPT ![bulk.mouse] = granted[bulk.mouse]]
      BY DEF TypeOK
    <3>2. QED
      BY <1>2, <2>1, <3>1 DEF FinishFlash, Found, OneCommand, OnOne
  <2>2. CASE bulk.mouse \notin mice
    BY <1>2, <2>2 DEF FinishFlash, Found, daemon
  <2>3. QED
    BY <2>1, <2>2
<1>3. ASSUME NEW c \in Peers, Serve(c)
      PROVE  \/ UNCHANGED daemon
             \/ c \in Clients /\ GetMice(c) /\ conn' = conn
             \/ OneCommand
             \/ RescanMice /\ conn' = conn
             \/ ReconfigMice /\ conn' = conn
  <2>1. conn' = conn
    BY <1>3 DEF Serve
  <2>2. QED
    BY <1>3, <2>1, ServeSteps
<1>4. ASSUME NEW c \in Peers, Disconnect(c) \/ Send(c) \/ Read(c) \/ Close(c)
      PROVE  UNCHANGED daemon
  BY <1>4 DEF Disconnect, Send, Read, Close
<1>5. ASSUME NEW c \in Peers, NEW k \in Commands, Request(c, k)
      PROVE  UNCHANGED daemon
  BY <1>5 DEF Request
<1>6. CASE UNCHANGED vars
  BY <1>6 DEF vars, daemon
<1>7. QED
  BY <1>1, <1>2, <1>3, <1>4, <1>5, <1>6 DEF Next

-----------------------------------------------------------------------------
(* Counting notifications.                                                 *)
LEMMA EventsCount ==
  ASSUME NEW added \in SUBSET Mice, NEW removed \in SUBSET Mice
  PROVE  /\ Notifications(added, removed) \in Nat
         /\ Notifications(added, removed) = 0 => added = {} /\ removed = {}
<1>1. IsFiniteSet(added) /\ IsFiniteSet(removed)
  BY MiceAssumption, FS_Subset
<1>2. Cardinality(added) \in Nat /\ Cardinality(removed) \in Nat
  BY <1>1, FS_CardinalityType
<1>3. Cardinality(added) = 0 => added = {}
  BY <1>1, FS_EmptySet
<1>4. Cardinality(removed) = 0 => removed = {}
  BY <1>1, FS_EmptySet
<1>5. QED
  BY <1>2, <1>3, <1>4 DEF Notifications

(* A rescan that could scan.                                               *)
Rescanned(added, removed) ==
  /\ removed = miceList \ OnBus
  /\ miceList' = (miceList \cup added) \ removed
  /\ mice' = miceList'
  /\ \A m \in Mice : /\ dev'[m] \in IF m \in removed THEN ReleaseAll(dev[m])
                                   ELSE IF m \in added THEN NewMouse(Default, dev[m].hw)
                                   ELSE {dev[m]}
                    /\ granted'[m] = IF m \in removed \cup added THEN 0 ELSE granted[m]
  /\ dev' = [m \in Mice |-> dev'[m]]
  /\ granted' = [m \in Mice |-> granted'[m]]
  /\ Broadcast(Notifications(added, removed))

LEMMA RescanSteps ==
  ASSUME RescanMice
  PROVE  \/ \E added \in SUBSET (OnBus \ miceList) : Rescanned(added, miceList \ OnBus)
         \/ ScanMayFail /\ mice' = {} /\ UNCHANGED <<miceList, dev, told, granted, todo>>
<1>1. CASE ScanMayFail /\ mice' = {} /\ UNCHANGED <<miceList, dev, told, granted, todo>>
  BY <1>1
<1>2. ASSUME NEW added \in SUBSET (OnBus \ miceList),
             LET removed == miceList \ OnBus
                 Freed   == [m \in Mice |-> IF m \in removed THEN ReleaseAll(dev[m])
                                            ELSE IF m \in added THEN NewMouse(Default, dev[m].hw)
                                            ELSE {dev[m]}]
             IN  /\ \E d \in [Mice -> UNION {Freed[m] : m \in Mice}] :
                      (\A m \in Mice : d[m] \in Freed[m]) /\ dev' = d
                 /\ miceList' = (miceList \cup added) \ removed
                 /\ granted' = [m \in Mice |-> IF m \in removed \cup added THEN 0 ELSE granted[m]]
                 /\ Broadcast(Notifications(added, removed)),
             mice' = miceList'
      PROVE  Rescanned(added, miceList \ OnBus)
  <2> DEFINE removed == miceList \ OnBus
             Freed   == [m \in Mice |-> IF m \in removed THEN ReleaseAll(dev[m])
                                        ELSE IF m \in added THEN NewMouse(Default, dev[m].hw)
                                        ELSE {dev[m]}]
  <2>1. PICK d \in [Mice -> UNION {Freed[m] : m \in Mice}] :
          (\A m \in Mice : d[m] \in Freed[m]) /\ dev' = d
    BY <1>2, Zenon
  <2>2. \A m \in Mice : dev'[m] \in IF m \in removed THEN ReleaseAll(dev[m])
                                    ELSE IF m \in added THEN NewMouse(Default, dev[m].hw)
                                    ELSE {dev[m]}
    BY <2>1, Zenon
  <2>3. dev' = [m \in Mice |-> dev'[m]]
    <3> HIDE DEF Freed
    <3> QED
      BY <2>1
  <2>4. /\ miceList' = (miceList \cup added) \ removed
        /\ granted' = [m \in Mice |-> IF m \in removed \cup added THEN 0 ELSE granted[m]]
        /\ Broadcast(Notifications(added, removed))
    BY <1>2, Zenon
  <2>5. QED
    BY <1>2, <2>2, <2>3, <2>4 DEF Rescanned
<1>3. QED
  BY <1>1, <1>2, Zenon DEF RescanMice

(* A reconfiguration makes one round for each mouse it gets to.            *)
LEMMA ReconfigSteps ==
  ASSUME ReconfigMice
  PROVE  /\ UNCHANGED <<mice, miceList, told, granted, todo>>
         /\ dev' = [m \in Mice |-> dev'[m]]
         /\ \A m \in Mice : dev'[m] = dev[m] \/ \E r \in Reconfig(dev[m]) : dev'[m] = r.m
<1>1. PICK done \in SUBSET miceList, stop \in {{}} \cup {{m} : m \in miceList} :
        \E d \in [Mice -> UNION {{r.m : r \in Reconfig(dev[m])} \cup {dev[m]} : m \in Mice}] :
           /\ dev' = d
           /\ \A m \in done : Result(FALSE, d[m]) \in Reconfig(dev[m])
           /\ \A m \in stop : Result(TRUE, d[m]) \in Reconfig(dev[m])
           /\ \A m \in Mice \ (done \cup stop) : d[m] = dev[m]
  BY Zenon DEF ReconfigMice
<1> DEFINE R == UNION {{r.m : r \in Reconfig(dev[m])} \cup {dev[m]} : m \in Mice}
<1>2. PICK d \in [Mice -> R] :
           /\ dev' = d
           /\ \A m \in done : Result(FALSE, d[m]) \in Reconfig(dev[m])
           /\ \A m \in stop : Result(TRUE, d[m]) \in Reconfig(dev[m])
           /\ \A m \in Mice \ (done \cup stop) : d[m] = dev[m]
  BY <1>1, Zenon
<1> HIDE DEF R
<1>3. dev' = [m \in Mice |-> dev'[m]]
  BY <1>2
<1>4. \A m \in Mice : dev'[m] = dev[m] \/ \E r \in Reconfig(dev[m]) : dev'[m] = r.m
  <2> SUFFICES ASSUME NEW m \in Mice
               PROVE  dev'[m] = dev[m] \/ \E r \in Reconfig(dev[m]) : dev'[m] = r.m
    OBVIOUS
  <2>1. \A e \in BOOLEAN : Result(e, d[m]).m = d[m]
    BY DEF Result
  <2>2. CASE m \in done
    BY <1>2, <2>1, <2>2
  <2>3. CASE m \in stop
    BY <1>2, <2>1, <2>3
  <2>4. QED
    BY <1>2, <2>2, <2>3
<1>5. UNCHANGED <<mice, miceList, told, granted, todo>>
  BY DEF ReconfigMice
<1>6. QED
  BY <1>3, <1>4, <1>5

-----------------------------------------------------------------------------
(* The inductive invariant.                                                *)

LEMMA InitBooks == Init => IInv
<1> SUFFICES ASSUME Init PROVE IInv
  OBVIOUS
<1>1. PICK present \in SUBSET Mice, known \in [Mice -> Fresh] :
        /\ dev = [m \in Mice |-> [known[m] EXCEPT !.present = m \in present]]
        /\ miceList \in SUBSET present /\ mice = miceList
  BY DEF Init
<1>3. \A m \in Mice : Sound(dev[m]) /\ dev[m] \in Mouse /\ dev[m].claims = 0
  <2> SUFFICES ASSUME NEW m \in Mice
               PROVE  Sound(dev[m]) /\ dev[m] \in Mouse /\ dev[m].claims = 0
    OBVIOUS
  <2> DEFINE b == m \in present
  <2>1. dev[m] = [known[m] EXCEPT !.present = b]
    BY <1>1, Zenon
  <2>2. b \in BOOLEAN
    OBVIOUS
  <2>3. known[m] \in Fresh
    BY <1>1, Zenon
  <2> HIDE DEF b
  <2>4. QED
    BY <2>1, <2>2, <2>3, FreshSound
<1>4. dev \in [Mice -> Mouse]
  <2> HIDE DEF Mouse
  <2> QED
    BY <1>1, <1>3
<1>5. Books
  BY <1>1, <1>3 DEF Init, Books
<1>6. TypeOK
  BY <1>1, <1>4 DEF Init, TypeOK, Bulks
<1>7. QED
  BY <1>5, <1>6 DEF IInv

(* One command on one mouse keeps that mouse sound and its claims counted. *)
LEMMA OnOneKeeps ==
  ASSUME IInv, NEW m \in Mice, NEW n, NEW g, OnOne(m, n, g)
  PROVE  n \in Mouse /\ Sound(n) /\ g \in Nat /\ n.claims = g
<1>1. /\ dev[m] \in Mouse /\ Sound(dev[m])
      /\ granted[m] \in Nat /\ dev[m].claims = granted[m]
  BY DEF IInv, TypeOK, Books
<1>2. CASE n \in Bracketed(dev[m]) /\ g = granted[m]
  BY <1>1, <1>2, BracketedKeepsSound
<1>3. CASE \E v \in Settings : n \in ClaimedSet(dev[m], v) /\ g = granted[m]
  BY <1>1, <1>3, ClaimedSetKeepsSound
<1>4. CASE \E v \in Settings : n = SetFreq(dev[m], v).m /\ g = granted[m]
  BY <1>1, <1>4, SetFreqKeepsSound
<1>5. CASE \E r \in MouseClaim(dev[m]) :
             n = r.m /\ g = IF r.err THEN granted[m] ELSE granted[m] + 1
  BY <1>1, <1>5, ClaimKeepsSound
<1>6. CASE \E r \in MouseRelease(dev[m]) :
             n = r.m /\ g = IF granted[m] = 0 THEN granted[m] ELSE granted[m] - 1
  BY <1>1, <1>6, ReleaseKeepsSound
<1>7. QED
  BY <1>2, <1>3, <1>4, <1>5, <1>6 DEF OnOne

LEMMA BooksKept ==
  ASSUME IInv, [Next]_vars
  PROVE  /\ Books'
         /\ mice' \subseteq Mice /\ miceList' \subseteq Mice
         /\ dev' \in [Mice -> Mouse] /\ granted' \in [Mice -> Nat]
<1>1. /\ TypeOK /\ Books
      /\ mice \subseteq miceList /\ miceList \subseteq Mice
      /\ dev \in [Mice -> Mouse] /\ granted \in [Mice -> Nat]
  BY DEF IInv, TypeOK, Books
<1>2. CASE UNCHANGED <<mice, miceList, dev, granted>>
  BY <1>1, <1>2 DEF Books
<1>3. CASE OneCommand
  <2>1. PICK m \in mice : \E n, g :
          /\ OnOne(m, n, g)
          /\ dev' = [dev EXCEPT ![m] = n]
          /\ granted' = [granted EXCEPT ![m] = g]
    BY <1>3 DEF OneCommand
  <2>2. PICK n, g :
          /\ OnOne(m, n, g)
          /\ dev' = [dev EXCEPT ![m] = n]
          /\ granted' = [granted EXCEPT ![m] = g]
    BY <2>1
  <2>3. m \in Mice /\ m \in miceList
    BY <1>1
  <2>4. n \in Mouse /\ Sound(n) /\ g \in Nat /\ n.claims = g
    BY <2>2, <2>3, OnOneKeeps
  <2>5. UNCHANGED <<mice, miceList>>
    BY <1>3 DEF OneCommand
  <2>6. QED
    BY <1>1, <2>2, <2>3, <2>4, <2>5 DEF Books
<1>4. CASE RescanMice
  <2>1. CASE ScanMayFail /\ mice' = {} /\ UNCHANGED <<miceList, dev, told, granted, todo>>
    BY <1>1, <2>1 DEF Books
  <2>2. ASSUME NEW added \in SUBSET (OnBus \ miceList), Rescanned(added, miceList \ OnBus)
        PROVE  /\ Books'
               /\ mice' \subseteq Mice /\ miceList' \subseteq Mice
               /\ dev' \in [Mice -> Mouse] /\ granted' \in [Mice -> Nat]
    <3> DEFINE removed == miceList \ OnBus
    <3>1. /\ miceList' = (miceList \cup added) \ removed
          /\ mice' = miceList'
          /\ dev' = [m \in Mice |-> dev'[m]]
          /\ granted' = [m \in Mice |-> granted'[m]]
      BY <2>2 DEF Rescanned
    <3>2. \A m \in Mice : /\ dev'[m] \in IF m \in removed THEN ReleaseAll(dev[m])
                                          ELSE IF m \in added THEN NewMouse(Default, dev[m].hw)
                                          ELSE {dev[m]}
                          /\ granted'[m] = IF m \in removed \cup added THEN 0 ELSE granted[m]
      BY <2>2, Zenon DEF Rescanned
    <3>3. added \subseteq Mice
      BY DEF OnBus
    <3> HIDE DEF removed
    <3>4. ASSUME NEW m \in Mice
          PROVE  /\ dev'[m] \in Mouse /\ Sound(dev'[m])
                 /\ granted'[m] \in Nat /\ dev'[m].claims = granted'[m]
                 /\ m \notin miceList' => granted'[m] = 0
      <4>1. dev[m] \in Mouse /\ Sound(dev[m]) /\ granted[m] \in Nat
            /\ dev[m].claims = granted[m] /\ (m \notin miceList => granted[m] = 0)
        BY <1>1 DEF Books
      <4>2. CASE m \in removed
        <5>1. dev'[m] \in ReleaseAll(dev[m]) /\ granted'[m] = 0
          BY <3>2, <4>2
        <5>2. QED
          BY <4>1, <5>1, ReleaseAllKeepsSound
      <4>3. CASE m \notin removed /\ m \in added
        <5>1. dev'[m] \in NewMouse(Default, dev[m].hw) /\ granted'[m] = 0
          BY <3>2, <4>3
        <5>2. dev[m].hw \in Values \cup {PowerOn}
          BY <4>1 DEF Mouse
        <5>3. QED
          BY <5>1, <5>2, NewMouseSound
      <4>4. CASE m \notin removed /\ m \notin added
        <5>1. dev'[m] = dev[m] /\ granted'[m] = granted[m]
          BY <3>2, <4>4
        <5>2. m \in miceList' <=> m \in miceList
          BY <3>1, <4>4
        <5>3. QED
          BY <4>1, <5>1, <5>2
      <4>5. QED
        BY <4>2, <4>3, <4>4
    <3>5. dev' \in [Mice -> Mouse] /\ granted' \in [Mice -> Nat]
      BY <3>1, <3>4
    <3>6. Books'
      BY <3>1, <3>4 DEF Books
    <3>7. QED
      BY <1>1, <3>1, <3>3, <3>5, <3>6
  <2>3. QED
    BY <1>4, <2>1, <2>2, RescanSteps
<1>5. CASE ReconfigMice
  <2>1. /\ UNCHANGED <<mice, miceList, granted>>
        /\ dev' = [m \in Mice |-> dev'[m]]
        /\ \A m \in Mice : dev'[m] = dev[m] \/ \E r \in Reconfig(dev[m]) : dev'[m] = r.m
    BY <1>5, ReconfigSteps
  <2>2. ASSUME NEW m \in Mice
        PROVE  dev'[m] \in Mouse /\ Sound(dev'[m]) /\ dev'[m].claims = dev[m].claims
    <3>1. dev[m] \in Mouse /\ Sound(dev[m])
      BY <1>1 DEF Books
    <3>2. QED
      BY <2>1, <3>1, ReconfigKeepsSound
  <2>3. dev' \in [Mice -> Mouse]
    BY <2>1, <2>2
  <2>4. QED
    BY <1>1, <2>1, <2>2, <2>3 DEF Books
<1>6. ASSUME NEW m \in Mice, Unplug(m) \/ Plug(m)
      PROVE  /\ Books'
             /\ mice' \subseteq Mice /\ miceList' \subseteq Mice
             /\ dev' \in [Mice -> Mouse] /\ granted' \in [Mice -> Nat]
  <2> DEFINE gone == [dev[m] EXCEPT !.present = FALSE, !.hw = PowerOn, !.lost = TRUE, !.astray = TRUE]
             back == [dev[m] EXCEPT !.present = TRUE, !.detached = {}]
  <2>1. PICK n \in {gone, back} : dev' = [dev EXCEPT ![m] = n]
    BY <1>1, <1>6 DEF Unplug, Plug
  <2>2. dev[m] \in Mouse /\ Sound(dev[m])
    BY <1>1 DEF Books
  <2>3. n \in Mouse /\ Sound(n) /\ n.claims = dev[m].claims
    BY <2>2 DEF Mouse, Sound, Core, ClaimCore
  <2>4. UNCHANGED <<mice, miceList, granted>>
    BY <1>6 DEF Unplug, Plug
  <2> HIDE DEF gone, back
  <2>5. QED
    BY <1>1, <2>1, <2>3, <2>4 DEF Books
<1>7. QED
  BY <1>1, <1>2, <1>3, <1>4, <1>5, <1>6, DaemonSteps DEF daemon, GetMice, Accept

(* Handlers write replies, rescans notifications.                          *)
LEMMA RepliesTyped ==
  ASSUME TypeOK, NEW c \in Peers, Serve(c)
  PROVE  /\ todo' \in [Peers -> Nat]
         /\ told' \in [Clients -> [mice : SUBSET Mice, changed : BOOLEAN]]
         /\ bulk' \in Bulks
<1> DEFINE k == Head(inq[c])
           T == todo' \in [Peers -> Nat]
           D == told' \in [Clients -> [mice : SUBSET Mice, changed : BOOLEAN]]
<1>0. /\ k \in Commands
      /\ todo \in [Peers -> Nat] /\ bulk \in Bulks
      /\ told \in [Clients -> [mice : SUBSET Mice, changed : BOOLEAN]]
  BY ServedCommand DEF Serve, TypeOK
<1>1. Reply(c) => T
  BY <1>0 DEF Reply
<1>2. UNCHANGED todo => T
  BY <1>0
<1>3. UNCHANGED told => D
  BY <1>0
<1>4. ASSUME NEW events \in Nat, Broadcast(events)
      PROVE  T /\ D
  <2>1. todo' = [p \in Peers |-> IF p \in Clients \cap conn THEN todo[p] + events ELSE todo[p]]
    BY <1>4, Zenon DEF Broadcast
  <2>2. told' = [p \in Clients |-> IF p \in Clients \cap conn /\ events > 0
                                  THEN [told[p] EXCEPT !.changed = TRUE] ELSE told[p]]
    BY <1>4, Zenon DEF Broadcast
  <2>3. T
    BY <1>0, <1>4, <2>1
  <2>4. D
    BY <1>0, <2>2
  <2>5. QED
    BY <2>3, <2>4
<1>5. RescanMice => T /\ D
  <2>1. ASSUME NEW added \in SUBSET (OnBus \ miceList), Rescanned(added, miceList \ OnBus)
        PROVE  T /\ D
    <3>1. added \in SUBSET Mice /\ miceList \ OnBus \in SUBSET Mice
      BY DEF OnBus, TypeOK
    <3>2. Notifications(added, miceList \ OnBus) \in Nat
      BY <3>1, EventsCount
    <3>3. Broadcast(Notifications(added, miceList \ OnBus))
      BY <2>1 DEF Rescanned
    <3>4. QED
      BY <1>4, <3>2, <3>3, Zenon
  <2>2. ASSUME RescanMice PROVE T /\ D
    <3>1. \/ \E added \in SUBSET (OnBus \ miceList) : Rescanned(added, miceList \ OnBus)
          \/ ScanMayFail /\ mice' = {} /\ UNCHANGED <<miceList, dev, told, granted, todo>>
      BY <2>2, RescanSteps
    <3>2. QED
      BY <1>2, <1>3, <2>1, <3>1
  <2>3. QED
    BY <2>2
<1> HIDE DEF T
<1>6. CASE c \in Clients /\ ClientCommand(c, k) /\ UNCHANGED bulk
  <2>1. GetMice(c) => T /\ D
    BY <1>0, <1>1, <1>6 DEF GetMice, TypeOK
  <2> HIDE DEF D, k
  <2>2. Query(c) \/ GetFwVer(c, k) \/ SetCommand(c, k) \/ SetProfName(c, k) \/ Unknown(c)
          => T /\ D
    BY <1>1, <1>2, <1>3 DEF Query, GetFwVer, SetCommand, SetProfName, Unknown, daemon
  <2>3. ReconfigMice => T /\ D
    BY <1>2, <1>3 DEF ReconfigMice
  <2>4. T /\ D
    BY <1>5, <1>6, <2>1, <2>2, <2>3 DEF ClientCommand
  <2>5. QED
    BY <1>0, <1>6, <2>4 DEF T, D
<1> HIDE DEF D
<1>7. CASE c \in Privs /\ PrivCommand(c, k) /\ UNCHANGED bulk
  <2> HIDE DEF k
  <2>1. T /\ D
    BY <1>1, <1>2, <1>3, <1>7 DEF PrivCommand, ClaimCommand, ReleaseCommand, Unknown, daemon
  <2>2. QED
    BY <1>0, <1>7, <2>1 DEF T, D
<1>8. CASE c \in Privs /\ k.op = "flash" /\ StartFlash(c, k) /\ UNCHANGED daemon
  <2>1. k.mouse \in Mice
    BY <1>0, <1>8, CommandFields
  <2> HIDE DEF k
  <2>2. T /\ D
    BY <1>1, <1>2, <1>3, <1>8 DEF StartFlash, daemon
  <2>3. bulk' \in Bulks
    BY <1>0, <1>8, <2>1 DEF StartFlash, Bulks
  <2>4. QED
    BY <2>2, <2>3 DEF T, D
<1>9. QED
  BY <1>6, <1>7, <1>8 DEF Serve

LEMMA TypesKept ==
  ASSUME IInv, [Next]_vars
  PROVE  TypeOK'
<1>1. /\ mice' \subseteq Mice /\ miceList' \subseteq Mice
      /\ dev' \in [Mice -> Mouse] /\ granted' \in [Mice -> Nat]
  BY BooksKept
<1>2. TypeOK
  BY DEF IInv
<1> DEFINE Told == [Clients -> [mice : SUBSET Mice, changed : BOOLEAN]]
           Wires == /\ conn' \subseteq Peers /\ closed' \subseteq conn'
                    /\ inq' \in [Peers -> Seq(Commands)]
                    /\ outq' \in [Peers -> Nat] /\ todo' \in [Peers -> Nat]
                    /\ bulk' \in Bulks /\ told' \in Told
<1>3. /\ conn \subseteq Peers /\ closed \subseteq conn
      /\ inq \in [Peers -> Seq(Commands)]
      /\ outq \in [Peers -> Nat] /\ todo \in [Peers -> Nat]
      /\ bulk \in Bulks /\ told \in Told
  BY <1>2 DEF TypeOK
<1>4. bulk # Idle => bulk \in [to : Privs, mouse : Mice, left : 0 .. MaxChunks]
  BY <1>3 DEF Bulks
<1>5. Idle \in Bulks
  BY DEF Bulks
<1> HIDE DEF Told
<1>6. ASSUME Chunk PROVE Wires
  <2>1. bulk.to \in Peers /\ Tail(inq[bulk.to]) \in Seq(Commands)
    BY <1>3, <1>4, <1>6 DEF Chunk, Peers
  <2>2. inq' \in [Peers -> Seq(Commands)]
    <3> HIDE DEF Commands
    <3> QED
      BY <1>3, <1>6, <2>1 DEF Chunk
  <2>3. bulk' \in Bulks
    <3>1. bulk \in [to : Privs, mouse : Mice, left : 0 .. MaxChunks] /\ bulk.left > 0
      BY <1>4, <1>6 DEF Chunk
    <3>2. bulk' = [bulk EXCEPT !.left = @ - 1]
      BY <1>6 DEF Chunk
    <3>3. bulk' \in [to : Privs, mouse : Mice, left : 0 .. MaxChunks]
      BY <3>1, <3>2, BoundsAssumption
    <3>4. QED
      BY <3>3 DEF Bulks
  <2>4. todo' \in [Peers -> Nat]
    BY <1>3, <1>6, <2>1 DEF Chunk, Reply
  <2>5. UNCHANGED <<conn, closed, outq, told>>
    BY <1>6 DEF Chunk, daemon
  <2>6. QED
    BY <1>3, <2>2, <2>3, <2>4, <2>5
<1>7. ASSUME ChunkLost PROVE Wires
  <2>1. todo' = [todo EXCEPT ![bulk.to] = 2]
    BY <1>7 DEF ChunkLost
  <2>2. bulk' = Idle /\ UNCHANGED <<conn, closed, inq, outq, told>>
    BY <1>7 DEF ChunkLost, daemon
  <2>3. QED
    BY <1>3, <1>5, <2>1, <2>2
<1>8. ASSUME FinishFlash PROVE Wires
  <2>1. bulk.to \in Peers
    BY <1>4, <1>8 DEF FinishFlash, Peers
  <2>2. todo' = [todo EXCEPT ![bulk.to] = @ + 1]
    BY <1>8 DEF FinishFlash, Reply
  <2>3. bulk' = Idle /\ UNCHANGED <<conn, closed, inq, outq, told>>
    BY <1>8 DEF FinishFlash
  <2>4. QED
    BY <1>3, <1>5, <2>1, <2>2, <2>3
<1>9. ASSUME NEW c \in Peers, Accept(c) PROVE Wires
  BY <1>3, <1>9 DEF Accept, Told
<1>10. ASSUME NEW c \in Peers, Serve(c) PROVE Wires
  <2>1. todo' \in [Peers -> Nat] /\ told' \in Told /\ bulk' \in Bulks
    BY <1>2, <1>10, RepliesTyped DEF Told
  <2>2. inq' \in [Peers -> Seq(Commands)]
    BY <1>2, <1>3, <1>10, ServedCommand DEF Serve
  <2>3. UNCHANGED <<conn, closed, outq>>
    BY <1>10 DEF Serve
  <2>4. QED
    BY <1>3, <2>1, <2>2, <2>3
<1>11. ASSUME NEW c \in Peers, Disconnect(c) PROVE Wires
  BY <1>3, <1>11 DEF Disconnect, daemon
<1>12. ASSUME NEW c \in Peers, Send(c) PROVE Wires
  BY <1>3, <1>12 DEF Send, daemon
<1>13. ASSUME NEW c \in Peers, Read(c) PROVE Wires
  BY <1>3, <1>13 DEF Read, daemon
<1>14. ASSUME NEW c \in Peers, Close(c) PROVE Wires
  BY <1>3, <1>14 DEF Close, daemon
<1>15. ASSUME NEW c \in Peers, NEW k \in Commands, Request(c, k) PROVE Wires
  <2>1. inq' \in [Peers -> Seq(Commands)]
    BY <1>3, <1>15 DEF Request
  <2>2. QED
    BY <1>3, <1>15, <2>1 DEF Request, daemon
<1>16. ASSUME NEW m \in Mice, Unplug(m) \/ Plug(m) PROVE Wires
  BY <1>3, <1>16 DEF Unplug, Plug
<1>17. ASSUME UNCHANGED vars PROVE Wires
  BY <1>3, <1>17 DEF vars
<1>18. Wires
  BY <1>6, <1>7, <1>8, <1>9, <1>10, <1>11, <1>12, <1>13, <1>14, <1>15, <1>16, <1>17 DEF Next
<1>19. QED
  BY <1>1, <1>18 DEF TypeOK, Told

(* Whatever the clients ask for, in any order, the invariant holds.        *)
THEOREM Invariance == Spec => []IInv
<1>1. IInv /\ [Next]_vars => IInv'
  BY BooksKept, TypesKept DEF IInv
<1>2. QED
  BY <1>1, InitBooks, PTL DEF Spec

(* The types are kept.                                                     *)
THEOREM TypeCorrect == Spec => []TypeOK
<1>1. IInv => TypeOK
  BY DEF IInv
<1>2. QED
  BY <1>1, Invariance, PTL

(* No handler leaks a claim or gives back one it did not take, on any of   *)
(* its error paths.  (razerd.c, the command_* handlers.)                   *)
THEOREM ClaimsBalanced == Spec => []ClaimsConserved
<1>1. IInv => ClaimsConserved
  BY DEF IInv, TypeOK, Books, ClaimsConserved
<1>2. QED
  BY <1>1, Invariance, PTL

(* With no claim left, a debt to the device is explained by a failed       *)
(* commit.  (mouse_default_release, called by every handler.)              *)
THEOREM DebtsExplained == Spec => []Settled
<1>1. IInv => Settled
  BY DEF IInv, TypeOK, Books, Sound, ClaimCore, Settled
<1>2. QED
  BY <1>1, Invariance, PTL

(* No device differs from what the daemon believes it holds unless a       *)
(* commit is owed or the device was reset since the last one.  The         *)
(* exceptions are a legacy DeathAdder and a device in its bootloader: one  *)
(* that is astray may stay so through any number of commits, while the     *)
(* driver, with nothing owed, takes the frequency for the one it was sent. *)
BelievesRight ==
  \A m \in Mice :
    /\ dev[m].hw # dev[m].cfg =>
         \/ dev[m].pending
         \/ dev[m].lost
         \/ dev[m].kind \notin AlwaysSent /\ dev[m].astray
    /\ dev[m].kind = "legacy" /\ ~dev[m].pending => dev[m].cfg = dev[m].old

(* A setting is not lost between the daemon and the device, if a transfer  *)
(* of no bytes never counts as a success, but for the kinds of mouse that  *)
(* BelievesRight names.  (deathadder_commit, deathadder_do_commit.)        *)
THEOREM NoSettingLost ==
  ASSUME ~ShortWrites
  PROVE  Spec => []BelievesRight
<1>1. IInv => BelievesRight
  <2> SUFFICES ASSUME IInv, NEW m \in Mice
               PROVE  /\ dev[m].hw # dev[m].cfg =>
                           \/ dev[m].pending
                           \/ dev[m].lost
                           \/ dev[m].kind \notin AlwaysSent /\ dev[m].astray
                      /\ dev[m].kind = "legacy" /\ ~dev[m].pending => dev[m].cfg = dev[m].old
    BY DEF BelievesRight
  <2>1. dev[m] \in Mouse /\ Core(dev[m])
    BY DEF IInv, TypeOK, Books, Sound
  <2> DEFINE d == dev[m]
  <2>2. d \in Mouse /\ Core(d)
    BY <2>1
  <2> HIDE DEF d
  <2>3. d.kind \in AlwaysSent => d.kind # "legacy" /\ d.kind # "bootloader"
    BY DEF AlwaysSent
  <2>4. d.kind \in AlwaysSent \/ d.kind = "legacy" \/ d.kind = "bootloader"
    BY <2>2, KindOf
  <2>5. /\ d.hw # d.cfg => d.pending \/ d.lost \/ (d.kind \notin AlwaysSent /\ d.astray)
        /\ d.kind = "legacy" /\ ~d.pending => d.cfg = d.old
    BY <2>2, <2>3, <2>4 DEF Core
  <2>6. QED
    BY <2>5 DEF d
<1>2. QED
  BY <1>1, Invariance, PTL

-----------------------------------------------------------------------------
(* Handles.                                                                *)

LEMMA SetFreqKeepsHandle ==
  ASSUME NEW m \in Mouse, NEW v \in Settings, Handle(m)
  PROVE  SetFreq(m, v).m \in Mouse /\ Handle(SetFreq(m, v).m)
<1>1. CASE SetFreq(m, v).m = m
  BY <1>1
<1>2. CASE SetFreq(m, v).m = [m EXCEPT !.cfg = v, !.pending = TRUE]
  BY <1>2 DEF Handle, Mouse
<1>3. QED
  BY <1>1, <1>2, SetFreqEffect

(* What holds of all kinds holds of a mouse's.                             *)
LEMMA SettledKind ==
  ASSUME Kinds \cap Rebooting = {}, NEW m \in Mouse
  PROVE  m.kind \notin Rebooting
  BY KindOf

LEMMA BracketedKeepsHandle ==
  ASSUME NEW m \in Mouse, NEW n \in Bracketed(m), Kinds \cap Rebooting = {}, ~ConfigFlaps, Handle(m)
  PROVE  Handle(n)
<1>1. PICK r \in MouseClaim(m) :
        n \in IF r.err THEN {r.m} ELSE {s.m : s \in MouseRelease(r.m)}
  BY DEF Bracketed
<1>2. r.m \in Mouse /\ Handle(r.m)
  BY MouseClaimEffect, MouseClaimKeepsHandle
<1>3. n = r.m \/ \E s \in MouseRelease(r.m) : n = s.m
  BY <1>1
<1>4. QED
  BY <1>2, <1>3, SettledKind, MouseReleaseKeepsHandle

LEMMA ClaimedSetKeepsHandle ==
  ASSUME NEW m \in Mouse, NEW v \in Settings, NEW n \in ClaimedSet(m, v),
         Kinds \cap Rebooting = {}, ~ConfigFlaps, Handle(m)
  PROVE  Handle(n)
<1>1. PICK r \in MouseClaim(m) :
        n \in IF r.err THEN {r.m} ELSE UNION {{s.m : s \in MouseRelease(p)} : p \in Stored(r.m, v)}
  BY Zenon DEF ClaimedSet
<1>2. r.m \in Mouse /\ Handle(r.m)
  BY MouseClaimEffect, MouseClaimKeepsHandle
<1>3. CASE n = r.m
  BY <1>2, <1>3
<1>4. CASE \E p \in Stored(r.m, v) : \E s \in MouseRelease(p) : n = s.m
  <2>1. PICK p \in Stored(r.m, v) : \E s \in MouseRelease(p) : n = s.m
    BY <1>4
  <2>2. p = r.m \/ p = SetFreq(r.m, v).m
    BY DEF Stored
  <2>3. p \in Mouse /\ Handle(p)
    BY <1>2, <2>2, SetFreqKeepsHandle
  <2>4. QED
    BY <2>1, <2>3, SettledKind, MouseReleaseKeepsHandle
<1>5. QED
  BY <1>1, <1>3, <1>4

LEMMA OnOneKeepsHandle ==
  ASSUME NEW m, NEW n, NEW g, OnOne(m, n, g), dev[m] \in Mouse,
         Kinds \cap Rebooting = {}, ~ConfigFlaps, Handle(dev[m])
  PROVE  Handle(n)
  BY BracketedKeepsHandle, ClaimedSetKeepsHandle, SetFreqKeepsHandle,
     MouseClaimKeepsHandle, SettledKind, MouseReleaseKeepsHandle DEF OnOne

Handles == \A m \in Mice : Handle(dev[m])

LEMMA HandlesKept ==
  ASSUME Kinds \cap Rebooting = {}, ~ConfigFlaps, IInv, Handles, [Next]_vars
  PROVE  Handles'
<1>1. /\ TypeOK /\ mice \subseteq Mice /\ dev \in [Mice -> Mouse]
      /\ \A m \in Mice : dev[m] \in Mouse /\ Handle(dev[m])
  BY DEF IInv, TypeOK, Handles
<1>2. CASE UNCHANGED dev
  BY <1>2 DEF Handles
<1>3. CASE OneCommand
  <2>1. PICK m \in mice : \E n, g :
          OnOne(m, n, g) /\ dev' = [dev EXCEPT ![m] = n]
    BY <1>3 DEF OneCommand
  <2>2. PICK n, g : OnOne(m, n, g) /\ dev' = [dev EXCEPT ![m] = n]
    BY <2>1
  <2>3. m \in Mice
    BY <1>1
  <2>4. Handle(n)
    BY <1>1, <2>2, <2>3, OnOneKeepsHandle
  <2>5. QED
    BY <1>1, <2>2, <2>3, <2>4 DEF Handles
<1>4. CASE RescanMice
  <2>1. ASSUME NEW added \in SUBSET (OnBus \ miceList), Rescanned(added, miceList \ OnBus)
        PROVE  Handles'
    <3>1. ASSUME NEW m \in Mice PROVE Handle(dev'[m])
      <4>1. \/ dev'[m] \in ReleaseAll(dev[m])
            \/ dev'[m] \in NewMouse(Default, dev[m].hw)
            \/ dev'[m] = dev[m]
        BY <2>1 DEF Rescanned
      <4>2. dev[m].hw \in Values \cup {PowerOn}
        BY <1>1 DEF Mouse
      <4>3. dev'[m] \in NewMouse(Default, dev[m].hw) => Handle(dev'[m])
        BY <4>2, DefaultIsValue, NewMouseEffect
      <4>4. dev'[m] \in ReleaseAll(dev[m]) => Handle(dev'[m])
        BY <1>1, SettledKind, ReleaseAllKeepsHandle
      <4>5. QED
        BY <1>1, <4>1, <4>3, <4>4
    <3>2. QED
      BY <3>1 DEF Handles
  <2>2. QED
    BY <1>2, <1>4, <2>1, RescanSteps
<1>5. CASE ReconfigMice
  <2>1. ASSUME NEW m \in Mice PROVE Handle(dev'[m])
    <3>1. dev'[m] = dev[m] \/ \E r \in Reconfig(dev[m]) : dev'[m] = r.m
      BY <1>5, ReconfigSteps
    <3>2. QED
      BY <1>1, <3>1, SettledKind, ReconfigKeepsHandle
  <2>2. QED
    BY <2>1 DEF Handles
<1>6. ASSUME NEW m \in Mice, Unplug(m) \/ Plug(m) PROVE Handles'
  <2> DEFINE gone == [dev[m] EXCEPT !.present = FALSE, !.hw = PowerOn, !.lost = TRUE, !.astray = TRUE]
             back == [dev[m] EXCEPT !.present = TRUE, !.detached = {}]
  <2>1. PICK n \in {gone, back} : dev' = [dev EXCEPT ![m] = n]
    BY <1>1, <1>6 DEF Unplug, Plug
  <2>2. Handle(n)
    BY <1>1 DEF Mouse, Handle
  <2> HIDE DEF gone, back
  <2>3. QED
    BY <1>1, <2>1, <2>2 DEF Handles
<1>7. QED
  BY <1>1, <1>2, <1>3, <1>4, <1>5, <1>6, DaemonSteps DEF daemon, GetMice, Accept

(* Nobody uses a closed handle, claims own an open one, and a mouse the    *)
(* daemon dropped or never took has neither, if no kind of mouse reboots   *)
(* and claims that succeed open the handle.                                *)
(* (razer_generic_usb_claim_refcount, razer_free_mouse.)                   *)
THEOREM HandlesOwned ==
  ASSUME Kinds \cap Rebooting = {}, ~ConfigFlaps
  PROVE  Spec => []HandlesAccounted
<1>1. Init => Handles
  <2> SUFFICES ASSUME Init, NEW m \in Mice PROVE Handle(dev[m])
    BY DEF Handles
  <2>1. PICK present \in SUBSET Mice, known \in [Mice -> Fresh] :
          dev = [i \in Mice |-> [known[i] EXCEPT !.present = i \in present]]
    BY DEF Init
  <2> DEFINE b == m \in present
  <2>2. dev[m] = [known[m] EXCEPT !.present = b]
    BY <2>1, Zenon
  <2>3. b \in BOOLEAN
    OBVIOUS
  <2>4. known[m] \in Fresh
    BY <2>1, Zenon
  <2> HIDE DEF b
  <2>5. QED
    BY <2>2, <2>3, <2>4, FreshSound
<1>2. IInv /\ Handles /\ [Next]_vars => Handles'
  BY HandlesKept
<1>3. IInv /\ Handles => HandlesAccounted
  BY DEF IInv, TypeOK, Books, Handles, Handle, Mouse, HandlesAccounted
<1>4. QED
  BY <1>1, <1>2, <1>3, Invariance, PTL DEF Spec

-----------------------------------------------------------------------------
(* What clients were told.                                                 *)
View == mice = miceList /\ NoStaleView

(* A rescan that changes nothing is the only one that notifies nobody.     *)
LEMMA RescanKeepsView ==
  ASSUME TypeOK, View, NEW added \in SUBSET (OnBus \ miceList),
         Rescanned(added, miceList \ OnBus), conn' = conn
  PROVE  View'
<1> DEFINE removed == miceList \ OnBus
           events  == Notifications(added, removed)
<1>1. added \in SUBSET Mice /\ removed \in SUBSET Mice
  BY DEF OnBus, TypeOK
<1>2. events \in Nat /\ (events = 0 => added = {} /\ removed = {})
  BY <1>1, EventsCount
<1>3. mice' = miceList' /\ miceList' = (miceList \cup added) \ removed
  BY DEF Rescanned
<1>4. told' = [c \in Clients |-> IF c \in Clients \cap conn /\ events > 0
                                THEN [told[c] EXCEPT !.changed = TRUE] ELSE told[c]]
  BY Zenon DEF Rescanned, Broadcast
<1>5. told \in [Clients -> [mice : SUBSET Mice, changed : BOOLEAN]]
  BY DEF TypeOK
<1> HIDE DEF removed, events
<1>6. ASSUME NEW c \in Clients \cap conn
      PROVE  told'[c].changed \/ told'[c].mice = miceList'
  <2>1. CASE events > 0
    BY <1>4, <1>5, <2>1
  <2>2. CASE events = 0
    <3>1. told'[c] = told[c] /\ miceList' = miceList
      BY <1>2, <1>3, <1>4, <2>2
    <3>2. QED
      BY <3>1 DEF View, NoStaleView
  <2>3. QED
    BY <1>2, <2>1, <2>2
<1>7. QED
  BY <1>3, <1>6 DEF View, NoStaleView

LEMMA ViewKept ==
  ASSUME ~ScanMayFail, TypeOK, View, [Next]_vars
  PROVE  View'
<1>1. told \in [Clients -> [mice : SUBSET Mice, changed : BOOLEAN]]
  BY DEF TypeOK
<1>2. ASSUME UNCHANGED <<mice, miceList, told>>, conn' \subseteq conn PROVE View'
  BY <1>2 DEF View, NoStaleView
<1>3. ASSUME NEW c \in Clients, GetMice(c), conn' = conn PROVE View'
  <2>1. told' = [told EXCEPT ![c] = [mice |-> mice, changed |-> FALSE]]
        /\ UNCHANGED <<mice, miceList>>
    BY <1>3 DEF GetMice
  <2>2. QED
    BY <1>1, <1>3, <2>1 DEF View, NoStaleView
<1>4. ASSUME NEW c \in Peers, Accept(c) PROVE View'
  <2>1. /\ conn' = conn \cup {c} /\ UNCHANGED <<mice, miceList>>
        /\ told' = IF c \in Clients THEN [told EXCEPT ![c] = [mice |-> {}, changed |-> TRUE]] ELSE told
    BY <1>4 DEF Accept
  <2>2. QED
    BY <1>1, <2>1 DEF View, NoStaleView
<1>5. CASE RescanMice /\ conn' = conn
  BY <1>5, RescanSteps, RescanKeepsView
<1>6. CASE ReconfigMice /\ conn' = conn
  BY <1>2, <1>6 DEF ReconfigMice
<1>7. ASSUME NEW m \in Mice, Unplug(m) \/ Plug(m) PROVE View'
  BY <1>2, <1>7 DEF Unplug, Plug
<1>8. CASE OneCommand
  BY <1>2, <1>8 DEF OneCommand
<1>9. CASE UNCHANGED daemon
  <2>1. CASE conn' \subseteq conn
    BY <1>2, <1>9, <2>1 DEF daemon
  <2>2. CASE ~(conn' \subseteq conn)
    <3>1. PICK c \in Peers : Accept(c)
      BY <2>2 DEF Next, Chunk, ChunkLost, FinishFlash, Serve, Disconnect, Send, Read, Close,
                  Request, Unplug, Plug, vars
    <3>2. QED
      BY <1>4, <3>1
  <2>3. QED
    BY <2>1, <2>2
<1>10. QED
  BY <1>3, <1>4, <1>5, <1>6, <1>7, <1>8, <1>9, DaemonSteps

(* A client that has the list and was told of no change has the right one, *)
(* if libusb never fails to list the devices.                              *)
(* (command_getmice, command_rescanmice, broadcast_notification.)          *)
THEOREM ClientsInformed ==
  ASSUME ~ScanMayFail
  PROVE  Spec => []NoStaleView
<1>1. Init => View
  BY DEF Init, View, NoStaleView
<1>2. TypeOK /\ View /\ [Next]_vars => View'
  BY ViewKept
<1>3. View => NoStaleView
  BY DEF View
<1>4. QED
  BY <1>1, <1>2, <1>3, TypeCorrect, PTL DEF Spec
=============================================================================
