------------------------------- MODULE Razerd -------------------------------
(***************************************************************************)
(* The razerd daemon: one thread that accepts clients on two sockets,      *)
(* takes one command at a time from one client, runs it against librazer   *)
(* to the end and writes the replies and notifications it causes.  Nothing *)
(* else runs while a command runs, or while the daemon waits for room in a *)
(* client's socket or for the next chunk of a firmware image; the clients  *)
(* and the USB devices run beside it.                                      *)
(*                                                                         *)
(* Commands that only read (suppfreqs, getleds, getprofiles, ...) differ   *)
(* in what they answer, not in what they do to the daemon: they are one    *)
(* operation here.  Replies are counted; what they look like on the wire   *)
(* is the subject of module Session.                                        *)
(***************************************************************************)
EXTENDS MouseOps, Sequences

CONSTANTS
  Clients,        \* connections to the control socket
  Privs,          \* connections to the privileged socket
  Mice,           \* devices that can be on the bus
  Default,        \* the setting a driver's init writes
  ClientOps,      \* the commands ordinary clients send
  PrivOps,        \* the commands privileged clients send
  ScanMayFail,    \* TRUE: libusb_get_device_list may fail
  SocketRoom,     \* commands, and replies, that fit into a client's socket
  MaxClaims,      \* bound on the claims taken on one mouse
  MaxChunks       \* bound on the chunks of a firmware image

ASSUME PeersAssumption == Clients \cap Privs = {}
ASSUME MiceAssumption  == IsFiniteSet(Mice)
ASSUME DefaultIsValue  == Default \in Values
ASSUME BoundsAssumption ==
  /\ SocketRoom \in Nat \ {0} /\ MaxClaims \in Nat /\ MaxChunks \in Nat
  /\ ScanMayFail \in BOOLEAN

VARIABLES
  mice,       \* what razerd's list pointer shows: all of miceList, or nothing
  miceList,   \* librazer's mice_list
  dev,        \* the struct and the device of every mouse
  conn,       \* accepted connections
  closed,     \* connections whose client has closed its end
  inq,        \* commands and data sent, not yet received
  outq,       \* how many replies and notifications a client has not read yet
  todo,       \* how many the running command still has to write
  bulk,       \* the firmware transfer the daemon is in, or Idle
  told,       \* what a client was last told about the mice (ghost)
  granted     \* CLAIMs granted less RELEASEs carried out (ghost)

daemon == <<mice, miceList, dev, told, granted>>
vars == <<mice, miceList, dev, conn, closed, inq, outq, todo, bulk, told, granted>>

Peers == Clients \cup Privs
Idle  == [to |-> "nobody"]

(* Commands carry what their handler reads. *)
Ops == ClientOps \cup PrivOps
Commands ==
  [op : Ops \cap {"set", "setprofname"}, mouse : Mice, val : Settings]
  \cup [op : Ops \cap {"query", "getfwver", "claim", "release", "flash"}, mouse : Mice]
  \cup [op : Ops \cap {"getmice", "rescan", "reconfig", "data"}]
Bulks    == {Idle} \cup [to : Privs, mouse : Mice, left : 0 .. MaxChunks]

OnBus == {m \in Mice : dev[m].present}
Busy  == bulk # Idle \/ \E c \in Peers : todo[c] > 0

(* mainloop has scanned once: some of the devices on the bus are known,    *)
(* none is if the scan failed, and nobody is connected yet.                *)
Fresh == UNION {NewMouse(Default, had) : had \in Values \cup {PowerOn}}

Init ==
  /\ \E present \in SUBSET Mice, known \in [Mice -> Fresh] :
       /\ dev = [m \in Mice |-> [known[m] EXCEPT !.present = m \in present]]
       /\ miceList \in SUBSET present /\ mice = miceList
  /\ conn = {} /\ closed = {}
  /\ inq = [c \in Peers |-> <<>>] /\ outq = [c \in Peers |-> 0]
  /\ todo = [c \in Peers |-> 0]
  /\ bulk = Idle
  /\ told = [c \in Clients |-> [mice |-> {}, changed |-> TRUE]]
  /\ granted = [m \in Mice |-> 0]

-----------------------------------------------------------------------------
(* Writing.  A handler queues the replies it will write with send_reply;   *)
(* broadcast_notification goes to every unprivileged client.               *)
Reply(c) == todo' = [todo EXCEPT ![c] = @ + 1]

Broadcast(events) ==
  LET hears(c) == c \in Clients \cap conn
  IN  /\ todo' = [c \in Peers |-> IF hears(c) THEN todo[c] + events ELSE todo[c]]
      /\ told' = [c \in Clients |-> IF hears(c) /\ events > 0
                                    THEN [told[c] EXCEPT !.changed = TRUE] ELSE told[c]]

-----------------------------------------------------------------------------
(* Commands.  k is the command, c the client it came from.  find_mouse     *)
(* looks in the daemon's list only.                                        *)
Found(k) == k.mouse \in mice

(* command_getmice *)
GetMice(c) ==
  /\ Reply(c)
  /\ told' = [told EXCEPT ![c] = [mice |-> mice, changed |-> FALSE]]
  /\ UNCHANGED <<mice, miceList, dev, granted>>

(* The commands that only read the daemon's copy of the settings. *)
Query(c) == Reply(c) /\ UNCHANGED daemon

(* A claim, something that only talks to the device, and the release,      *)
(* which commits what is pending.                                          *)
Bracketed(m) ==
  UNION {IF r.err THEN {r.m} ELSE {s.m : s \in MouseRelease(r.m)} : r \in MouseClaim(m)}

(* command_getfwver asks the device, so it claims it. *)
GetFwVer(c, k) ==
  /\ IF Found(k) THEN \E n \in Bracketed(dev[k.mouse]) : dev' = [dev EXCEPT ![k.mouse] = n]
                 ELSE UNCHANGED dev
  /\ Reply(c)
  /\ UNCHANGED <<mice, miceList, told, granted>>

(* What a driver's setter does under the claim: store the value, refuse    *)
(* it, or store part of it and fail (SETLED is two calls).                 *)
Stored(m, v) == {m, SetFreq(m, v).m}

(* Faulty variant: the setter's error path returns without a release. *)
ClaimedSetLeaks(m, v) ==
  UNION {IF r.err THEN {r.m}
         ELSE {r.m} \cup {s.m : s \in MouseRelease(SetFreq(r.m, v).m)} : r \in MouseClaim(m)}

(* command_setfreq and its siblings: claim, set, release.  The reply tells *)
(* the claim's or the setter's error; the commit's, from the release, is   *)
(* dropped.                                                                *)
ClaimedSet(m, v) ==
  UNION {IF r.err THEN {r.m}
         ELSE UNION {{s.m : s \in MouseRelease(n)} : n \in Stored(r.m, v)} : r \in MouseClaim(m)}

SetCommand(c, k) ==
  /\ IF Found(k) THEN \E n \in ClaimedSet(dev[k.mouse], k.val) : dev' = [dev EXCEPT ![k.mouse] = n]
                 ELSE UNCHANGED dev
  /\ Reply(c)
  /\ UNCHANGED <<mice, miceList, told, granted>>

(* command_setprofname sets without a claim. *)
SetProfName(c, k) ==
  /\ dev' = IF Found(k) THEN [dev EXCEPT ![k.mouse] = SetFreq(@, k.val).m] ELSE dev
  /\ Reply(c)
  /\ UNCHANGED <<mice, miceList, told, granted>>

(* Faulty variant: only new mice are told of. *)
NewMiceOnly(added, removed) == Cardinality(added)

(* One notification for every mouse that came or went. *)
Notifications(added, removed) == Cardinality(added) + Cardinality(removed)

(* command_rescanmice and razer_rescan_mice.  Devices whose driver cannot  *)
(* initialise them stay unknown; a failed scan leaves librazer's list      *)
(* alone but returns NULL, which becomes the daemon's list.                *)
RescanMice ==
  \/ /\ \E added \in SUBSET (OnBus \ miceList) :
          LET removed == miceList \ OnBus
              Freed   == [m \in Mice |-> IF m \in removed THEN ReleaseAll(dev[m])
                                         ELSE IF m \in added THEN NewMouse(Default, dev[m].hw)
                                         ELSE {dev[m]}]
          IN  /\ \E d \in [Mice -> UNION {Freed[m] : m \in Mice}] :
                   (\A m \in Mice : d[m] \in Freed[m]) /\ dev' = d
              /\ miceList' = (miceList \cup added) \ removed
              /\ granted' = [m \in Mice |-> IF m \in removed \cup added THEN 0 ELSE granted[m]]
              /\ Broadcast(Notifications(added, removed))
     /\ mice' = miceList'
  \/ /\ ScanMayFail
     /\ mice' = {}
     /\ UNCHANGED <<miceList, dev, told, granted, todo>>

(* command_reconfigmice and razer_reconfig_mice: forced commits in list    *)
(* order until one fails.  The order of the list is left open.             *)
ReconfigMice ==
  /\ \E done \in SUBSET miceList, stop \in {{}} \cup {{m} : m \in miceList} :
       /\ stop \cap done = {}
       /\ stop = {} => done = miceList
       /\ \E d \in [Mice -> UNION {{r.m : r \in Reconfig(dev[m])} \cup {dev[m]} : m \in Mice}] :
            /\ dev' = d
            /\ \A m \in done : Result(FALSE, d[m]) \in Reconfig(dev[m])
            /\ \A m \in stop : Result(TRUE, d[m]) \in Reconfig(dev[m])
            /\ \A m \in Mice \ (done \cup stop) : d[m] = dev[m]
  /\ UNCHANGED <<mice, miceList, told, granted, todo>>

(* command_claim *)
ClaimCommand(c, k) ==
  /\ IF Found(k)
     THEN \E r \in MouseClaim(dev[k.mouse]) :
            /\ dev' = [dev EXCEPT ![k.mouse] = r.m]
            /\ granted' = IF r.err THEN granted ELSE [granted EXCEPT ![k.mouse] = @ + 1]
     ELSE UNCHANGED <<dev, granted>>
  /\ Reply(c)
  /\ UNCHANGED <<mice, miceList, told>>

(* command_release.  Whose claim it is is not asked. *)
ReleaseCommand(c, k) ==
  /\ IF Found(k)
     THEN \E r \in MouseRelease(dev[k.mouse]) :
            /\ dev' = [dev EXCEPT ![k.mouse] = r.m]
            /\ granted' = IF granted[k.mouse] = 0 THEN granted
                          ELSE [granted EXCEPT ![k.mouse] = @ - 1]
     ELSE UNCHANGED <<dev, granted>>
  /\ Reply(c)
  /\ UNCHANGED <<mice, miceList, told>>

(* Unknown command identifiers, and image data the daemon did not expect:  *)
(* no reply, or, when the bytes happen to name a command, an error.        *)
Unknown(c) == (Reply(c) \/ UNCHANGED todo) /\ UNCHANGED daemon

(* handle_received_command *)
ClientCommand(c, k) ==
  \/ k.op = "getmice"     /\ GetMice(c)
  \/ k.op = "query"       /\ Query(c)
  \/ k.op = "getfwver"    /\ GetFwVer(c, k)
  \/ k.op = "set"         /\ SetCommand(c, k)
  \/ k.op = "setprofname" /\ SetProfName(c, k)
  \/ k.op = "rescan"      /\ RescanMice
  \/ k.op = "reconfig"    /\ ReconfigMice
  \/ k.op = "data"        /\ Unknown(c)

(* handle_received_privileged_command, but for FLASHFW *)
PrivCommand(c, k) ==
  \/ k.op = "claim"   /\ ClaimCommand(c, k)
  \/ k.op = "release" /\ ReleaseCommand(c, k)
  \/ k.op = "data"    /\ Unknown(c)

-----------------------------------------------------------------------------
(* command_flashfw.  The image is received to the end before the mouse is  *)
(* looked up; an image larger than MAX_FIRMWARE_SIZE is refused with its   *)
(* data unread.                                                            *)
StartFlash(c, k) ==
  \/ Reply(c) /\ UNCHANGED bulk
  \/ \E n \in 0 .. MaxChunks :
       bulk' = [to |-> c, mouse |-> k.mouse, left |-> n] /\ UNCHANGED todo

(* One round of recv_bulk: whatever the client sent is image data. *)
Chunk ==
  /\ bulk # Idle /\ bulk.left > 0
  /\ LET c == bulk.to
     IN  /\ todo[c] = 0 /\ inq[c] # <<>>
         /\ inq' = [inq EXCEPT ![c] = Tail(@)]
         /\ bulk' = [bulk EXCEPT !.left = @ - 1]
         /\ Reply(c)
  /\ UNCHANGED <<daemon, conn, closed, outq>>

(* Faulty variant: a closed connection is taken for one with no data yet. *)
ChunkLostRetried ==
  /\ bulk # Idle /\ bulk.left > 0
  /\ bulk.to \in closed /\ inq[bulk.to] = <<>> /\ todo[bulk.to] = 0
  /\ UNCHANGED vars

(* recv_bulk finds the connection closed: its error reply and the final    *)
(* one are both written.                                                   *)
ChunkLost ==
  /\ bulk # Idle /\ bulk.left > 0
  /\ bulk.to \in closed /\ inq[bulk.to] = <<>> /\ todo[bulk.to] = 0
  /\ todo' = [todo EXCEPT ![bulk.to] = 2]
  /\ bulk' = Idle
  /\ UNCHANGED <<daemon, conn, closed, inq, outq>>

(* The rest of command_flashfw. *)
FinishFlash ==
  /\ bulk # Idle /\ bulk.left = 0
  /\ todo[bulk.to] = 0
  /\ IF Found(bulk) THEN \E n \in Bracketed(dev[bulk.mouse]) : dev' = [dev EXCEPT ![bulk.mouse] = n]
                    ELSE UNCHANGED dev
  /\ Reply(bulk.to)
  /\ bulk' = Idle
  /\ UNCHANGED <<mice, miceList, told, granted, conn, closed, inq, outq>>

-----------------------------------------------------------------------------
(* mainloop.  One round of it visits every socket and every connection. *)

(* check_control_socket *)
Accept(c) ==
  /\ ~Busy /\ c \notin conn
  /\ conn' = conn \cup {c}
  /\ told' = IF c \in Clients THEN [told EXCEPT ![c] = [mice |-> {}, changed |-> TRUE]] ELSE told
  /\ UNCHANGED <<mice, miceList, dev, granted, closed, inq, outq, todo, bulk>>

(* check_client_connections and check_privileged_connections: receive one  *)
(* command and run it.                                                     *)
Serve(c) ==
  /\ ~Busy /\ c \in conn /\ inq[c] # <<>>
  /\ inq' = [inq EXCEPT ![c] = Tail(@)]
  /\ LET k == Head(inq[c])
     IN  \/ c \in Clients /\ ClientCommand(c, k) /\ UNCHANGED bulk
         \/ c \in Privs /\ PrivCommand(c, k) /\ UNCHANGED bulk
         \/ c \in Privs /\ k.op = "flash" /\ StartFlash(c, k) /\ UNCHANGED daemon
  /\ UNCHANGED <<conn, closed, outq>>

(* disconnect_client, once everything the client sent is received. *)
Disconnect(c) ==
  /\ ~Busy /\ c \in conn \cap closed /\ inq[c] = <<>>
  /\ conn' = conn \ {c} /\ closed' = closed \ {c}
  /\ outq' = [outq EXCEPT ![c] = 0]
  /\ UNCHANGED <<daemon, inq, todo, bulk>>

(* send_reply: a client that does not read makes the daemon wait; one that *)
(* closed makes the write fail, which is ignored.                          *)
Send(c) ==
  /\ todo[c] > 0 /\ todo' = [todo EXCEPT ![c] = @ - 1]
  /\ \/ c \in closed /\ UNCHANGED outq
     \/ c \notin closed /\ outq[c] < SocketRoom /\ outq' = [outq EXCEPT ![c] = @ + 1]
  /\ UNCHANGED <<daemon, conn, closed, inq, bulk>>

-----------------------------------------------------------------------------
(* The clients.  They send without waiting for the answer, as far as their *)
(* sockets have room; the claims asked for are bounded.                    *)
MayAsk(c, k) ==
  /\ k.op \in IF c \in Clients THEN ClientOps ELSE PrivOps
  /\ k.op = "claim" => granted[k.mouse] < MaxClaims

Request(c, k) ==
  /\ c \in conn \ closed /\ Len(inq[c]) < SocketRoom /\ MayAsk(c, k)
  /\ inq' = [inq EXCEPT ![c] = Append(@, k)]
  /\ UNCHANGED <<daemon, conn, closed, outq, todo, bulk>>

(* The flashing client's next chunk. *)
SendChunk(c) ==
  /\ bulk # Idle /\ bulk.to = c /\ bulk.left > 0
  /\ \E k \in Commands : k.op = "data" /\ Request(c, k)

Read(c) ==
  /\ c \notin closed /\ outq[c] > 0
  /\ outq' = [outq EXCEPT ![c] = @ - 1]
  /\ UNCHANGED <<daemon, conn, closed, inq, todo, bulk>>

Close(c) ==
  /\ c \in conn \ closed
  /\ closed' = closed \cup {c}
  /\ UNCHANGED <<daemon, conn, inq, outq, todo, bulk>>

(* The devices. *)
Unplug(m) ==
  /\ dev[m].present
  /\ dev' = [dev EXCEPT ![m].present = FALSE, ![m].hw = PowerOn, ![m].lost = TRUE, ![m].astray = TRUE]
  /\ UNCHANGED <<mice, miceList, told, granted, conn, closed, inq, outq, todo, bulk>>

Plug(m) ==
  /\ ~dev[m].present
  /\ dev' = [dev EXCEPT ![m].present = TRUE, ![m].detached = {}]
  /\ UNCHANGED <<mice, miceList, told, granted, conn, closed, inq, outq, todo, bulk>>

Next ==
  \/ Chunk \/ ChunkLost \/ FinishFlash
  \/ \E c \in Peers : Accept(c) \/ Serve(c) \/ Disconnect(c) \/ Send(c) \/ Read(c) \/ Close(c)
  \/ \E c \in Peers, k \in Commands : Request(c, k)
  \/ \E m \in Mice : Unplug(m) \/ Plug(m)

Spec == Init /\ [][Next]_vars

(* The daemon never stops taking steps it can take, and mainloop visits    *)
(* every connection on each round; clients read what they are sent, and a  *)
(* flashing client goes on sending or closes.                              *)
Fairness ==
  /\ WF_vars(Chunk) /\ WF_vars(ChunkLost) /\ WF_vars(FinishFlash)
  /\ \A c \in Peers : SF_vars(Serve(c)) /\ WF_vars(Send(c)) /\ WF_vars(Read(c))
  /\ \A c \in Privs : WF_vars(SendChunk(c) \/ (bulk # Idle /\ bulk.to = c /\ Close(c)))

FairSpec == Spec /\ Fairness
-----------------------------------------------------------------------------
TypeOK ==
  /\ mice \subseteq Mice /\ miceList \subseteq Mice
  /\ dev \in [Mice -> Mouse]
  /\ conn \subseteq Peers /\ closed \subseteq conn
  /\ inq \in [Peers -> Seq(Commands)]
  /\ outq \in [Peers -> Nat] /\ todo \in [Peers -> Nat]
  /\ bulk \in Bulks
  /\ told \in [Clients -> [mice : SUBSET Mice, changed : BOOLEAN]]
  /\ granted \in [Mice -> Nat]

(* A client that asked for the list of mice (GETMICE) and was sent no      *)
(* NEWMOUSE or DELMOUSE since still has the right list.                    *)
NoStaleView ==
  \A c \in Clients \cap conn : told[c].changed \/ told[c].mice = miceList

(* Every handler gives back the claim it takes, on all of its error paths, *)
(* and so do rescans and reconfigurations: a mouse's claim count is the    *)
(* number of CLAIM commands granted and not yet RELEASEd.                  *)
ClaimsConserved ==
  \A m \in miceList : dev[m].claims = granted[m]

(* What clients set reaches the device: with no claim left, a setting is   *)
(* still owed only because its commit failed, whichever command set it.    *)
Settled ==
  \A m \in miceList : dev[m].claims = 0 /\ dev[m].pending => dev[m].failed

(* A claimed device is held open and no other one is, a device the daemon  *)
(* has dropped, or never took, is not claimed, and no closed handle was    *)
(* used on the way.                                                        *)
HandlesAccounted ==
  \A m \in Mice : /\ ~dev[m].bad
                  /\ dev[m].open <=> dev[m].claims > 0
                  /\ m \notin miceList => dev[m].claims = 0

(* The daemon gets out of whatever it is in and takes every command that   *)
(* was sent to it, though another client flashes a firmware image, does    *)
(* not read its replies at once, or disconnects in the middle of it.       *)
Responsive ==
  /\ []<>~Busy
  /\ \A c \in Peers : (c \in conn /\ inq[c] # <<>>) ~> inq[c] = <<>>
=============================================================================
