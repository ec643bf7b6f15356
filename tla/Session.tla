------------------------------ MODULE Session ------------------------------
(***************************************************************************)
(* One client process talking to razerd over one connection, most often to *)
(* the control socket: its threads take turns under the library's lock, a  *)
(* command goes up, the reply comes down as tagged tokens, and hot-plug    *)
(* notifications come down the same way.  Three programs must agree on the *)
(* form of every reply: razerd.c writes it, librazerd.c (C) and            *)
(* pyrazer/main.py (Python) each parse it.  Over the privileged socket     *)
(* goes one command only, the upload of a firmware image, chunk by chunk;  *)
(* and only from pyrazer, for razerd_open of librazerd does not return     *)
(* with a privileged connection (module ClientOpen).                       *)
(***************************************************************************)
EXTENDS Integers, Sequences

CONSTANTS
  Threads,
  Commands,      \* the commands the threads use
  MaxEntries,    \* bound on the entries of a list
  MaxCalls,      \* bound on the calls made
  MaxEvents,     \* bound on the notifications sent
  MaxChunks,     \* chunks of the largest image that razerd takes
  MayDie         \* TRUE: razerd may exit

ASSUME SessionBounds ==
  /\ MaxEntries \in Nat /\ MaxCalls \in Nat /\ MaxEvents \in Nat /\ MaxChunks \in Nat
  /\ MayDie \in BOOLEAN

-----------------------------------------------------------------------------
(* A reply: some tokens, or a count and that many entries of some tokens. *)
Tokens(ts)     == [list |-> FALSE, ts |-> ts]
Counted(entry) == [list |-> TRUE, ts |-> entry]
Scalar         == Tokens(<<"u32">>)
NoReply        == Tokens(<<>>)
Scalars(cs)    == [c \in cs |-> Scalar]

(* Two tables of replies together. *)
f ++ g == [x \in DOMAIN f \cup DOMAIN g |-> IF x \in DOMAIN f THEN f[x] ELSE g[x]]

(* What razerd's handlers write, on every path: a failing list command     *)
(* sends the count 0, a failing getter one token like the good answer.     *)
RazerdDevices ==
  Scalars({"getfwver", "getfreq"}) ++
  [getmice |-> Counted(<<"str">>), suppfreqs |-> Counted(<<"u32">>), suppresol |-> Counted(<<"u32">>)]
RazerdDpi ==
  Scalars({"changedpimapping", "getdpimapping", "setdpimapping"}) ++
  [suppdpimappings |-> Counted(<<"u32", "u32">> \o <<"u32", "u32", "u32">> \o <<"u32", "u32">> \o <<"u32">>)]
RazerdLeds ==
  [rescanmice |-> NoReply, reconfigmice |-> NoReply, getmouseinfo |-> Scalar,
   getleds |-> Counted(<<"u32", "str", "u32", "u32", "u32", "u32">>)]
RazerdSetLed   == Scalars({"setled", "setfreq"})
RazerdProfiles ==
  Scalars({"setprofname", "getactiveprof", "setactiveprof"}) ++
  [getprofiles |-> Counted(<<"u32">>), getprofname |-> Tokens(<<"str">>)]
RazerdButtons ==
  [suppbuttons |-> Counted(<<"u32", "str">>), suppbutfuncs |-> Counted(<<"u32", "str">>),
   getbutfunc |-> Tokens(<<"u32", "str">>), setbutfunc |-> Scalar]
RazerdAxes    == [suppaxes |-> Counted(<<"u32", "str", "u32">>)]
RazerdReplies ==
  RazerdDevices ++ RazerdDpi ++ RazerdLeds ++ RazerdSetLed ++ RazerdProfiles
  ++ RazerdButtons ++ RazerdAxes ++ [getrev |-> Scalar]

(* What librazerd receives for each of its calls. *)
LibDevices ==
  [rescanmice |-> NoReply, reconfigmice |-> NoReply, getmice |-> Counted(<<"str">>), getmouseinfo |-> Scalar]
LibLeds == [getleds |-> Counted(<<"u32", "str", "u32", "u32", "u32", "u32">>), setled |-> Scalar]
(* Faulty variant: the mappings' mutable flag is not received. *)
LibDpiNoMutable ==
  Scalars({"changedpimapping", "getdpimapping", "setdpimapping"}) ++
  [suppdpimappings |-> Counted(<<"u32", "u32">> \o <<"u32", "u32", "u32">> \o <<"u32", "u32">>)]
LibDpi ==
  Scalars({"changedpimapping", "getdpimapping", "setdpimapping"}) ++
  [suppdpimappings |-> Counted(<<"u32", "u32">> \o <<"u32", "u32", "u32">> \o <<"u32", "u32", "u32">>)]
LibFreqs ==
  Scalars({"getfreq", "setfreq", "getfwver"}) ++
  [suppfreqs |-> Counted(<<"u32">>), suppresol |-> Counted(<<"u32">>)]
LibProfiles ==
  Scalars({"getactiveprof", "setactiveprof", "setprofname"}) ++
  [getprofiles |-> Counted(<<"u32">>), getprofname |-> Tokens(<<"str">>)]
LibButtons ==
  [suppbuttons |-> Counted(<<"u32", "str">>), suppbutfuncs |-> Counted(<<"u32", "str">>),
   getbutfunc |-> Tokens(<<"u32", "str">>), setbutfunc |-> Scalar]
LibAxes  == [suppaxes |-> Counted(<<"u32", "str", "u32">>)]
LibReads == LibDevices ++ LibLeds ++ LibDpi ++ LibFreqs ++ LibProfiles ++ LibButtons ++ LibAxes

(* What pyrazer receives for each of its calls. *)
PyDevices ==
  Scalars({"getmouseinfo", "getfwver", "getfreq"}) ++
  [rescanmice |-> NoReply, reconfigmice |-> NoReply, getmice |-> Counted(<<"str">>),
   suppfreqs |-> Counted(<<"u32">>), suppresol |-> Counted(<<"u32">>)]
PyLeds ==
  Scalars({"setled", "setfreq"}) ++
  [getleds |-> Counted(<<"u32", "str", "u32", "u32", "u32", "u32">>)]
PyDpi ==
  Scalars({"changedpimapping", "getdpimapping", "setdpimapping"}) ++
  [suppdpimappings |-> Counted(<<"u32", "u32">> \o <<"u32", "u32", "u32">> \o <<"u32", "u32", "u32">>)]
PyProfiles ==
  Scalars({"getactiveprof", "setactiveprof", "setprofname"}) ++
  [getprofiles |-> Counted(<<"u32">>), getprofname |-> Tokens(<<"str">>)]
PyButtons ==
  [suppbuttons |-> Counted(<<"u32", "str">>), suppbutfuncs |-> Counted(<<"u32", "str">>),
   getbutfunc |-> Tokens(<<"u32", "str">>), setbutfunc |-> Scalar,
   suppaxes |-> Counted(<<"u32", "str", "u32">>)]
PyReads == PyDevices ++ PyLeds ++ PyDpi ++ PyProfiles ++ PyButtons

ASSUME CommandsAssumption == Commands \subseteq DOMAIN LibReads \cap DOMAIN PyReads

(* n entries, one after the other. *)
Entries(entry, n) == [i \in 1 .. n * Len(entry) |-> entry[((i - 1) % Len(entry)) + 1]]

-----------------------------------------------------------------------------
VARIABLES
  library,   \* the library the client uses: "librazerd" or "pyrazer"
  wire,      \* the connection looked at: "control" or "privileged"
  lock,      \* r->lock, self._lock: the thread that holds it
  call,      \* what the call of each thread still has to receive
  up,        \* commands sent, not yet received by razerd; on the privileged
             \*   connection in units of the length of a chunk
  bulk,      \* the upload razerd reads: its number, and the chunks left
  big,       \* an image was larger than razerd takes (ghost)
  down,      \* tokens sent, not yet received by the client
  alive,     \* razerd runs
  failed,    \* some call returned an error
  calls,     \* calls made so far
  events     \* notifications sent so far

vars == <<library, wire, lock, call, up, bulk, big, down, alive, failed, calls, events>>
upload == <<wire, bulk, big>>

Reads(c) == IF library = "librazerd" THEN LibReads[c] ELSE PyReads[c]

Nobody == "nobody"
ASSUME ThreadsAssumption == Nobody \notin Threads

Idle   == [no |-> 0, cmd |-> Nobody, need |-> <<>>, took |-> {}]
Note   == [kind |-> "note", of |-> 0, val |-> 0]

Init ==
  /\ library \in {"librazerd", "pyrazer"}
  /\ wire \in {"control"} \cup IF library = "pyrazer" THEN {"privileged"} ELSE {}
  /\ bulk = [no |-> 0, left |-> 0] /\ big = FALSE
  /\ lock = Nobody /\ call = [t \in Threads |-> Idle]
  /\ up = <<>> /\ down = <<>>
  /\ alive = TRUE /\ failed = FALSE
  /\ calls = 0 /\ events = 0

(* Faulty variant: a return that keeps the lock. *)
ReturnLocked(t) == call' = [call EXCEPT ![t] = Idle] /\ UNCHANGED lock

Return(t) == lock' = Nobody /\ call' = [call EXCEPT ![t] = Idle]

-----------------------------------------------------------------------------
(* A library call: take the lock, send the command, and go on to receive   *)
(* the answer if the command has one.  Sending to a razerd that has exited *)
(* fails.  (send_cmd passes no MSG_NOSIGNAL, so the send also raises       *)
(* SIGPIPE; the process is assumed to ignore it.)                          *)
Start(t, c) ==
  /\ wire = "control" /\ lock = Nobody /\ calls < MaxCalls
  /\ calls' = calls + 1
  /\ IF alive
     THEN /\ up' = Append(up, [no |-> calls', cmd |-> c])
          /\ IF Reads(c) = NoReply
             THEN UNCHANGED <<lock, call>>
             ELSE /\ lock' = t
                  /\ call' = [call EXCEPT ![t] =
                       [no |-> calls', cmd |-> c, took |-> {},
                        need |-> IF Reads(c).list THEN <<"count">> ELSE Reads(c).ts]]
          /\ UNCHANGED failed
     ELSE /\ failed' = TRUE
          /\ UNCHANGED <<lock, call, up>>
  /\ UNCHANGED <<library, upload, down, alive, events>>

(* recv_u32, recv_str; __receiveExpectedMessage. *)
Fits(need, kind) == need = kind \/ (need = "count" /\ kind = "u32")

Taken(k, tok) ==
  [k EXCEPT !.took = @ \cup {tok.of},
            !.need = IF Head(@) = "count" THEN Entries(Reads(k.cmd).ts, tok.val) ELSE Tail(@)]

(* The next token is the one the call waits for. *)
Receive(t) ==
  /\ wire = "control" /\ lock = t /\ down # <<>>
  /\ Fits(Head(call[t].need), Head(down).kind)
  /\ down' = Tail(down)
  /\ LET k == Taken(call[t], Head(down))
     IN  IF k.need = <<>> THEN Return(t)
         ELSE call' = [call EXCEPT ![t] = k] /\ UNCHANGED lock
  /\ UNCHANGED <<library, upload, up, alive, failed, calls, events>>

(* pyrazer sets a notification aside and goes on. *)
SetAside(t) ==
  /\ lock = t /\ down # <<>> /\ Head(down) = Note /\ library = "pyrazer"
  /\ down' = Tail(down)
  /\ UNCHANGED <<library, upload, lock, call, up, alive, failed, calls, events>>

(* Faulty variant: a notification is refused like any other token. *)
RefuseNotes(t) ==
  /\ wire = "control" /\ lock = t /\ down # <<>>
  /\ ~Fits(Head(call[t].need), Head(down).kind)
  /\ down' = Tail(down)
  /\ Return(t) /\ failed' = TRUE
  /\ UNCHANGED <<library, upload, up, alive, calls, events>>

(* Any other token ends the call with an error.  librazerd has then        *)
(* consumed its header only, which for a notification is all of it.        *)
Refuse(t) ==
  /\ wire = "control" /\ lock = t /\ down # <<>>
  /\ ~Fits(Head(call[t].need), Head(down).kind)
  /\ ~(library = "pyrazer" /\ Head(down) = Note)
  /\ down' = IF library = "librazerd" /\ Head(down) # Note
             THEN <<[Head(down) EXCEPT !.kind = "body"]>> \o Tail(down) ELSE Tail(down)
  /\ Return(t) /\ failed' = TRUE
  /\ UNCHANGED <<library, upload, up, alive, calls, events>>

(* Faulty variant: recv's 0 is taken for no data yet. *)
LostRetried(t) ==
  lock = t /\ down = <<>> /\ ~alive /\ UNCHANGED vars

(* The connection is closed: recv returns 0. *)
Lost(t) ==
  /\ lock = t /\ down = <<>> /\ ~alive
  /\ Return(t) /\ failed' = TRUE
  /\ UNCHANGED <<library, upload, up, down, alive, calls, events>>

(* pollNotifications: receive one message, if there is one.  A reply in it *)
(* is an error, and so is a closed connection.                             *)
Poll ==
  /\ library = "pyrazer" /\ wire = "control" /\ lock = Nobody
  /\ \/ down # <<>> /\ down' = Tail(down) /\ failed' = (failed \/ Head(down) # Note)
     \/ down = <<>> /\ ~alive /\ failed' = TRUE /\ UNCHANGED down
  /\ UNCHANGED <<library, upload, lock, call, up, alive, calls, events>>

-----------------------------------------------------------------------------
(* razerd.  A handler's replies are written in one go: nothing of another  *)
(* handler comes between them.  RESCANMICE may find something.             *)
Answer(k, n) ==
  LET shape == RazerdReplies[k.cmd]
      kinds == IF shape.list THEN <<"u32">> \o Entries(shape.ts, n) ELSE shape.ts
  IN  [i \in 1 .. Len(kinds) |-> [kind |-> kinds[i], of |-> k.no, val |-> IF i = 1 THEN n ELSE 0]]

Serve ==
  /\ wire = "control" /\ alive /\ up # <<>>
  /\ up' = Tail(up)
  /\ \E n \in 0 .. MaxEntries : down' = down \o Answer(Head(up), n)
  /\ UNCHANGED <<library, upload, lock, call, alive, failed, calls, events>>

(* A rescan, of whichever client, found or lost a mouse. *)
Notify ==
  /\ wire = "control" /\ alive /\ events < MaxEvents
  /\ events' = events + 1
  /\ down' = Append(down, Note)
  /\ UNCHANGED <<library, upload, lock, call, up, alive, failed, calls>>

(* razerd exits; what it sent can still be received. *)
Die ==
  /\ MayDie /\ alive
  /\ alive' = FALSE /\ up' = <<>>
  /\ UNCHANGED <<library, upload, lock, call, down, failed, calls, events>>

-----------------------------------------------------------------------------
(* The upload of an image of n chunks over the privileged connection:      *)
(* razerd takes each chunk with a code of its own, and then tells what     *)
(* became of the flashing.                                                 *)

(* A command is as long as four chunks. *)
ChunksPerCommand == 4
FlashCommand(no, n) ==
  [i \in 1 .. ChunksPerCommand |->
    [no |-> no, cmd |-> IF i = 1 THEN "flashfw" ELSE "rest", size |-> n]]
Chunk(no) == [no |-> no, cmd |-> "chunk", size |-> 0]
Code(no, val) == [kind |-> "u32", of |-> no, val |-> val]

(* Faulty variant: the result is not received, as in librazerd.            *)
UploadReadsAcks(n) == [i \in 1 .. n |-> "u32"]

UploadReads(n) == [i \in 1 .. n + 1 |-> "u32"]

(* flashFirmware: the command and the first chunk are sent at once. *)
StartUpload(t, n) ==
  /\ wire = "privileged" /\ lock = Nobody /\ calls < MaxCalls
  /\ calls' = calls + 1
  /\ big' = (big \/ n > MaxChunks)
  /\ IF alive
     THEN /\ up' = up \o FlashCommand(calls', n) \o (IF n = 0 THEN <<>> ELSE <<Chunk(calls')>>)
          /\ lock' = t
          /\ call' = [call EXCEPT ![t] =
                        [no |-> calls', cmd |-> "flashfw", took |-> {}, need |-> UploadReads(n)]]
          /\ UNCHANGED failed
     ELSE /\ failed' = TRUE
          /\ UNCHANGED <<lock, call, up>>
  /\ UNCHANGED <<library, wire, bulk, down, alive, events>>

(* Codes before the last one acknowledge a chunk, and the next chunk goes  *)
(* up, if there is one and razerd has not exited.                          *)
ReceiveAck(t) ==
  /\ wire = "privileged" /\ lock = t /\ down # <<>>
  /\ Len(call[t].need) > 1 /\ Head(down).val = 0
  /\ down' = Tail(down)
  /\ LET k    == [call[t] EXCEPT !.took = @ \cup {Head(down).of}, !.need = Tail(@)]
         more == Len(k.need) > 1
     IN  IF more /\ ~alive
         THEN Return(t) /\ failed' = TRUE /\ UNCHANGED up
         ELSE /\ call' = [call EXCEPT ![t] = k]
              /\ up' = IF more THEN Append(up, Chunk(k.no)) ELSE up
              /\ UNCHANGED <<lock, failed>>
  /\ UNCHANGED <<library, upload, alive, calls, events>>

(* __sendBulkPrivileged raises an error. *)
ReceiveError(t) ==
  /\ wire = "privileged" /\ lock = t /\ down # <<>>
  /\ Len(call[t].need) > 1 /\ Head(down).val # 0
  /\ down' = Tail(down)
  /\ Return(t) /\ failed' = TRUE
  /\ UNCHANGED <<library, upload, up, alive, calls, events>>

(* The last code is returned to the caller. *)
ReceiveResult(t) ==
  /\ wire = "privileged" /\ lock = t /\ down # <<>>
  /\ Len(call[t].need) = 1
  /\ down' = Tail(down)
  /\ Return(t)
  /\ UNCHANGED <<library, upload, up, alive, failed, calls, events>>

(* razerd's recv takes as much as a command has, if there is as much.      *)
Received == SubSeq(up, 1, IF Len(up) < ChunksPerCommand THEN Len(up) ELSE ChunksPerCommand)

AfterReceived == SubSeq(up, Len(Received) + 1, Len(up))

(* command_flashfw refuses an image before it reads any of it, or goes on  *)
(* to read it; without a chunk to read it goes on to flash it.             *)
ServeUpload ==
  /\ wire = "privileged" /\ alive /\ bulk.left = 0
  /\ up # <<>> /\ Head(up).cmd = "flashfw"
  /\ up' = AfterReceived
  /\ LET cmd == Head(up)
     IN  CASE cmd.size > MaxChunks -> down' = Append(down, Code(cmd.no, 1)) /\ UNCHANGED bulk
           [] cmd.size = 0         -> /\ \E val \in {0, 1} : down' = Append(down, Code(cmd.no, val))
                                      /\ UNCHANGED bulk
           [] OTHER                -> bulk' = [no |-> cmd.no, left |-> cmd.size] /\ UNCHANGED down
  /\ UNCHANGED <<library, wire, big, lock, call, alive, failed, calls, events>>

(* recv_bulk: whatever comes next is the next chunk.  After the last one   *)
(* razerd tells whether it found the mouse and flashed it.                 *)
ServeChunk ==
  /\ wire = "privileged" /\ alive /\ bulk.left > 0 /\ up # <<>>
  /\ up' = Tail(up)
  /\ bulk' = [bulk EXCEPT !.left = @ - 1]
  /\ \E val \in {0, 1} :
       down' = down \o <<Code(bulk.no, 0)>> \o (IF bulk.left = 1 THEN <<Code(bulk.no, val)>> ELSE <<>>)
  /\ UNCHANGED <<library, wire, big, lock, call, alive, failed, calls, events>>

(* What is left of a refused image is taken for a command.  If its first   *)
(* byte happens to be one's number, the command is wrong and is answered.  *)
ServeStray ==
  /\ wire = "privileged" /\ alive /\ bulk.left = 0
  /\ up # <<>> /\ Head(up).cmd # "flashfw"
  /\ up' = AfterReceived
  /\ \/ UNCHANGED down
     \/ Head(up).cmd = "chunk" /\ down' = Append(down, Code(Head(up).no, 1))
  /\ UNCHANGED <<library, upload, lock, call, alive, failed, calls, events>>

-----------------------------------------------------------------------------
Next ==
  \/ \E t \in Threads, c \in Commands : Start(t, c)
  \/ \E t \in Threads : Receive(t) \/ SetAside(t) \/ Refuse(t) \/ Lost(t)
  \/ \E t \in Threads, n \in 0 .. MaxChunks + 1 : StartUpload(t, n)
  \/ \E t \in Threads : ReceiveAck(t) \/ ReceiveError(t) \/ ReceiveResult(t)
  \/ Poll
  \/ Serve \/ Notify \/ Die
  \/ ServeUpload \/ ServeChunk \/ ServeStray

Spec == Init /\ [][Next]_vars

(* razerd goes on serving; a thread in a call goes on receiving. *)
FairSpec ==
  /\ Spec
  /\ WF_vars(Serve)
  /\ WF_vars(ServeUpload \/ ServeChunk \/ ServeStray)
  /\ \A t \in Threads :
       /\ WF_vars(Receive(t) \/ SetAside(t) \/ Refuse(t) \/ Lost(t))
       /\ WF_vars(ReceiveAck(t) \/ ReceiveError(t) \/ ReceiveResult(t))

-----------------------------------------------------------------------------
TypeOK ==
  /\ lock \in Threads \cup {Nobody}
  /\ \A t \in Threads : call[t].no \in 0 .. MaxCalls /\ (call[t] = Idle <=> lock # t)
  /\ \A i \in DOMAIN down : down[i].kind \in {"u32", "str", "note", "body"}
  /\ calls \in 0 .. MaxCalls /\ events \in 0 .. MaxEvents /\ bulk.left \in 0 .. MaxChunks
  /\ {alive, failed, big} \subseteq BOOLEAN

(* Every token a call receives was written in answer to its own command.   *)
OwnAnswer == \A t \in Threads : call[t].took \subseteq {call[t].no}

(* A call that returns has received all of its answer: with the lock free  *)
(* nothing of a reply is under way, so the next call starts in step.       *)
NoLeftovers ==
  lock = Nobody => /\ \A i \in DOMAIN down : down[i] = Note
                   /\ \A i \in DOMAIN up : Reads(up[i].cmd) = NoReply

(* The three programs agree on the form of every reply: whichever thread   *)
(* calls, each call receives its own answer and all of it.  pyrazer keeps  *)
(* this up through hot-plug events, librazerd until the first one comes    *)
(* down its command connection (recv_u32).                                 *)
InStep ==
  wire = "control" /\ (library = "pyrazer" \/ events = 0) => OwnAnswer /\ NoLeftovers

(* pyrazer and razerd count chunks and codes alike: an upload that has     *)
(* returned leaves no code under way, no chunk that razerd would take for  *)
(* a command, and no razerd that waits for a chunk, whatever the size of   *)
(* the image and the result; unless it was too large, for razerd refuses   *)
(* that before it reads the first chunk, which is sent nevertheless.       *)
UploadInStep ==
  wire = "privileged" /\ ~big =>
    /\ OwnAnswer
    /\ lock = Nobody /\ alive => down = <<>> /\ up = <<>> /\ bulk.left = 0

(* Calls fail for one reason only, that there is no daemon any more.  In   *)
(* librazerd a hot-plug event on the connection is another (recv_u32), and *)
(* an upload that is too large is refused.                                 *)
FailsForAReason == failed => ~alive \/ big \/ (library = "librazerd" /\ events > 0)

(* A call returns, whatever notifications come in between and even if the  *)
(* daemon exits in the middle of its answer.  In librazerd a call that is  *)
(* out of step may take a value for a count and wait for ever; and so may  *)
(* the upload that follows one that was too large.                         *)
CallsReturn ==
  \A t \in Threads : lock = t ~> lock # t \/ big \/ (library = "librazerd" /\ events > 0)
=============================================================================
