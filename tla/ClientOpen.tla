----------------------------- MODULE ClientOpen -----------------------------
(***************************************************************************)
(* razerd_open of librazerd against the daemon: the library makes up to    *)
(* three connections one after the other (commands, privileged commands,   *)
(* notifications), asks for the interface revision on each and waits for   *)
(* the answer, and gives back what it holds when a step fails.  While it   *)
(* does, razerd accepts, serves, tells every ordinary connection of        *)
(* hot-plug events, and may exit.                                          *)
(***************************************************************************)
EXTENDS Integers, Sequences

CONSTANTS
  MayDie,      \* TRUE: razerd may exit
  MaxEvents    \* bound on the notifications sent

ASSUME OpenAssumption == MayDie \in BOOLEAN /\ MaxEvents \in Nat

Socks     == {"cmd_fd", "priv_fd", "notify_fd"}
Ordinary  == {"cmd_fd", "notify_fd"}
Resources == Socks \cup {"lock", "notify_evfd", "notify_lock", "notify_thr"}

(* The steps of razerd_open, in their order. *)
Revision(f) == <<[do |-> "connect", on |-> f], [do |-> "send", on |-> f], [do |-> "recv", on |-> f]>>
Make(r)     == <<[do |-> "make", on |-> r]>>
Steps       ==
  Revision("cmd_fd") \o Revision("priv_fd") \o Make("lock") \o Make("notify_evfd")
  \o Revision("notify_fd") \o Make("notify_lock") \o Make("notify_thr")

VARIABLES
  pc,        \* the index of the step razerd_open is at; 0 once it has failed
  held,      \* what razerd_open holds
  alive,     \* razerd runs
  same,      \* razerd has the library's interface revision
  permitted, \* the user may connect to the privileged socket (root)
  clients,   \* connections razerd has accepted
  asked,     \* connections with a GETREV that razerd has not received
  down,      \* what razerd sent on each connection
  heard,     \* connections on which a good revision came back (ghost)
  events

openVars == <<pc, held, alive, same, permitted, clients, asked, down, heard, events>>
razerd == <<alive, same, permitted, clients, events>>

Running  == pc \in DOMAIN Steps
Step     == Steps[pc]
IsOpen   == pc = Len(Steps) + 1
IsNull   == pc = 0

OpenInit ==
  /\ pc = 1 /\ held = {}
  /\ alive = TRUE /\ same \in BOOLEAN /\ permitted \in BOOLEAN
  /\ clients = {} /\ asked = {} /\ down = [f \in Socks |-> <<>>]
  /\ heard = {} /\ events = 0

Advance == pc' = pc + 1

-----------------------------------------------------------------------------
(* Faulty variant: a failing mtx_init jumps to fail_cmd.                   *)
CleanupForgetsPriv(step) ==
  CASE step.on = "cmd_fd"      -> IF step.do = "connect" THEN {} ELSE {"cmd_fd"}
    [] step.on = "lock"        -> {"cmd_fd"}
    [] step.on = "notify_evfd" -> {"cmd_fd", "priv_fd", "lock"}
    [] step.on = "notify_fd"   -> {"cmd_fd", "priv_fd", "lock", "notify_evfd", "notify_fd"}
    [] step.on = "notify_lock" -> {"cmd_fd", "priv_fd", "lock", "notify_evfd", "notify_fd"}
    [] OTHER                   -> Resources

(* What the label a failing step jumps to, and the labels below it, give   *)
(* back.                                                                   *)
CleanupAt(step) ==
  CASE step.on = "cmd_fd"      -> IF step.do = "connect" THEN {} ELSE {"cmd_fd"}
    [] step.on = "lock"        -> {"cmd_fd", "priv_fd"}
    [] step.on = "notify_evfd" -> {"cmd_fd", "priv_fd", "lock"}
    [] step.on = "notify_fd"   -> {"cmd_fd", "priv_fd", "lock", "notify_evfd"}
                                  \cup (IF step.do = "connect" THEN {} ELSE {"notify_fd"})
    [] step.on = "notify_lock" -> {"cmd_fd", "priv_fd", "lock", "notify_evfd", "notify_fd"}
    [] OTHER -> {"cmd_fd", "priv_fd", "lock", "notify_evfd", "notify_fd", "notify_lock"}

(* Faulty variants: the revision is asked for on a privileged connection   *)
(* that was not made; a wrong revision is not an error.                    *)
FailAsksAnyway ==
  IF Step.on = "priv_fd" THEN Advance /\ UNCHANGED held
  ELSE pc' = 0 /\ held' = held \ CleanupAt(Step)
FailIgnoresRevision ==
  IF Step.on = "priv_fd"
  THEN pc' = (CHOOSE i \in DOMAIN Steps : Steps[i].on = "lock") /\ UNCHANGED held
  ELSE IF Step.do = "recv" THEN Advance /\ UNCHANGED held
  ELSE pc' = 0 /\ held' = held \ CleanupAt(Step)

(* A step failed: razerd_open returns NULL.  Trouble with the privileged   *)
(* connection is ignored instead, and without one it is not asked for its  *)
(* revision.                                                               *)
Fail ==
  IF Step.on = "priv_fd"
  THEN pc' = (CHOOSE i \in DOMAIN Steps : Steps[i].on = "lock") /\ UNCHANGED held
  ELSE pc' = 0 /\ held' = held \ CleanupAt(Step)

(* connect_unix: the kernel completes the connection of a listening socket *)
(* before razerd accepts it.                                               *)
Connect(f) ==
  /\ Running /\ Step = [do |-> "connect", on |-> f]
  /\ \/ alive /\ (f = "priv_fd" => permitted) /\ held' = held \cup {f} /\ Advance
     \/ Fail
  /\ UNCHANGED <<razerd, asked, down, heard>>

(* check_revision: the GETREV command.  (A razerd that has exited raises   *)
(* SIGPIPE as well, see module Session; here the process ignores it.)      *)
AskRevision(f) ==
  /\ Running /\ Step = [do |-> "send", on |-> f]
  /\ IF alive THEN asked' = asked \cup {f} /\ Advance /\ UNCHANGED held
              ELSE Fail /\ UNCHANGED asked
  /\ UNCHANGED <<razerd, down, heard>>

(* check_revision: the answer.  Anything else, a notification included, is *)
(* -EPROTO; a closed connection is -ECONNRESET.                            *)
HearRevision(f) ==
  /\ Running /\ Step = [do |-> "recv", on |-> f]
  /\ \/ /\ down[f] # <<>>
        /\ down' = [down EXCEPT ![f] = Tail(@)]
        /\ IF Head(down[f]) = "rev" /\ same
           THEN heard' = heard \cup {f} /\ Advance /\ UNCHANGED held
           ELSE Fail /\ UNCHANGED heard
     \/ down[f] = <<>> /\ ~alive /\ Fail /\ UNCHANGED <<down, heard>>
  /\ UNCHANGED <<razerd, asked>>

(* mtx_init, eventfd, thrd_create. *)
Acquire ==
  /\ Running /\ Step.do = "make"
  /\ \/ held' = held \cup {Step.on} /\ Advance
     \/ Fail
  /\ UNCHANGED <<razerd, asked, down, heard>>

-----------------------------------------------------------------------------
(* razerd: check_control_socket. *)
Accept(f) ==
  /\ alive /\ f \in held \ clients
  /\ clients' = clients \cup {f}
  /\ UNCHANGED <<pc, held, alive, same, permitted, asked, down, heard, events>>

(* Faulty variant: GETREV is not among the commands of either handler.     *)
ServeNothing(f) ==
  /\ alive /\ f \in clients \cap asked
  /\ asked' = asked \ {f}
  /\ UNCHANGED <<pc, held, alive, same, permitted, clients, down, heard, events>>

(* razerd receives the GETREV.  handle_received_privileged_command knows   *)
(* no such command and does not answer it.                                 *)
Serve(f) ==
  /\ alive /\ f \in clients \cap asked
  /\ asked' = asked \ {f}
  /\ down' = IF f \in Ordinary THEN [down EXCEPT ![f] = Append(@, "rev")] ELSE down
  /\ UNCHANGED <<pc, held, alive, same, permitted, clients, heard, events>>

(* broadcast_notification, for a rescan of another client. *)
Notify ==
  /\ alive /\ events < MaxEvents
  /\ events' = events + 1
  /\ down' = [f \in Socks |-> IF f \in Ordinary \cap clients \cap held
                              THEN Append(down[f], "note") ELSE down[f]]
  /\ UNCHANGED <<pc, held, alive, same, permitted, clients, asked, heard>>

Die ==
  /\ MayDie /\ alive
  /\ alive' = FALSE /\ asked' = {}
  /\ UNCHANGED <<pc, held, same, permitted, clients, down, heard, events>>

OpenNext ==
  \/ \E f \in Socks : Connect(f) \/ AskRevision(f) \/ HearRevision(f) \/ Accept(f) \/ Serve(f)
  \/ Acquire \/ Notify \/ Die

OpenSpec == OpenInit /\ [][OpenNext]_openVars

(* The library goes on, and razerd's loop visits every connection. *)
FairOpenSpec ==
  /\ OpenSpec
  /\ WF_openVars(Acquire)
  /\ \A f \in Socks :
       /\ WF_openVars(Connect(f)) /\ WF_openVars(AskRevision(f)) /\ WF_openVars(HearRevision(f))
       /\ WF_openVars(Accept(f)) /\ WF_openVars(Serve(f))

-----------------------------------------------------------------------------
OpenTypeOK ==
  /\ pc \in 0 .. Len(Steps) + 1 /\ held \subseteq Resources
  /\ {alive, same, permitted} \subseteq BOOLEAN
  /\ clients \subseteq Socks /\ heard \subseteq Socks
  /\ asked \subseteq IF IsNull THEN Socks ELSE held
  /\ events \in 0 .. MaxEvents

(* Whichever step fails, a razerd_open that returns NULL has given back    *)
(* all it took (the cleanup labels of razerd_open).                        *)
FailureCleansUp == IsNull => held = {}

(* A razerd_t is only handed out when razerd answered with the right       *)
(* revision on both ordinary connections, and all the rest is in place.    *)
OpenIsComplete ==
  IsOpen => Ordinary \subseteq heard /\ Resources \ {"priv_fd"} \subseteq held

(* "Best-effort privileged connection" (librazerd.c:184): razerd_open      *)
(* returns, with or without it.                                            *)
OpenReturns == <>(IsOpen \/ IsNull)

(* It does for the users who may not have one, and for anybody else once   *)
(* the daemon is gone: every other receive in it is answered or cut off.   *)
OpenReturnsToUsers == (~permitted \/ ~alive) ~> (IsOpen \/ IsNull)
=============================================================================
