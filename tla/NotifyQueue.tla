---------------------------- MODULE NotifyQueue ----------------------------
(***************************************************************************)
(* librazerd's notification path: a thread receives notification bytes     *)
(* from its own connection to razerd and puts events into a ring buffer;   *)
(* an eventfd tells the application's event loop, which takes the events   *)
(* out with razerd_read_event.  The ring is protected by a mutex, the      *)
(* eventfd is written and read after the mutex is given back.              *)
(***************************************************************************)
EXTENDS Integers, Sequences

CONSTANTS
  Size,        \* NOTIFY_QUEUE_SIZE
  Events,      \* event types
  SocketRoom   \* bound on the bytes under way from razerd

ASSUME SizeAssumption == Size \in Nat \ {0}
ASSUME EventsAssumption == Events # {} /\ {"other", "EAGAIN"} \cap Events = {}
ASSUME SocketAssumption == SocketRoom \in Nat

VARIABLES
  socket,    \* bytes sent by razerd, not yet received
  gone,      \* razerd has exited
  shut,      \* the connection is shut down
  thread,    \* where notify_thread_fn is
  event,     \* the event it enqueues
  nqueue,    \* the ring
  head,      \* nq_head
  tail,      \* nq_tail
  readable,  \* the eventfd counts more than 0
  app,       \* where the application is
  got        \* what razerd_read_event returned last

vars == <<socket, gone, shut, thread, event, nqueue, head, tail, readable, app, got>>

Slots == 0 .. Size - 1
Again == "EAGAIN"

Init ==
  /\ socket = <<>> /\ gone = FALSE /\ shut = FALSE
  /\ thread = "recv" /\ event \in Events
  /\ nqueue \in [Slots -> Events] /\ head = 0 /\ tail = 0
  /\ readable = FALSE
  /\ app = "poll" /\ got = Again

-----------------------------------------------------------------------------
(* razerd: broadcast_notification. *)
Announce(b) ==
  /\ ~gone /\ ~shut /\ Len(socket) < SocketRoom
  /\ socket' = Append(socket, b)
  /\ UNCHANGED <<gone, shut, thread, event, nqueue, head, tail, readable, app, got>>

(* razerd exits; what it sent can still be received. *)
Exit ==
  /\ ~gone /\ gone' = TRUE
  /\ UNCHANGED <<socket, shut, thread, event, nqueue, head, tail, readable, app, got>>

-----------------------------------------------------------------------------
(* notify_thread_fn: receive a byte; unexpected ones are ignored. *)
Recv ==
  /\ thread = "recv" /\ socket # <<>>
  /\ socket' = Tail(socket)
  /\ IF Head(socket) \in Events
     THEN thread' = "enqueue" /\ event' = Head(socket)
     ELSE UNCHANGED <<thread, event>>
  /\ UNCHANGED <<gone, shut, nqueue, head, tail, readable, app, got>>

(* razerd_close shut the socket down or razerd is gone: recv fails or      *)
(* returns the end of the stream, and the thread returns.                  *)
RecvEnd ==
  /\ thread = "recv" /\ socket = <<>> /\ (shut \/ gone)
  /\ thread' = "done"
  /\ UNCHANGED <<socket, gone, shut, event, nqueue, head, tail, readable, app, got>>

(* Faulty variant: the index is not wrapped. *)
NextTailUnwrapped == tail + 1

NextTail == (tail + 1) % Size

(* Faulty variant: the ring is taken for full one event early.             *)
EnqueueEarly ==
  /\ thread = "enqueue"
  /\ thread' = "signal"
  /\ IF NextTail # head /\ (NextTail + 1) % Size # head
     THEN nqueue' = [nqueue EXCEPT ![tail] = event] /\ tail' = NextTail
     ELSE UNCHANGED <<nqueue, tail>>
  /\ UNCHANGED <<socket, gone, shut, event, head, readable, app, got>>

(* notify_enqueue, under notify_lock: a full queue drops the event. *)
Enqueue ==
  /\ thread = "enqueue"
  /\ thread' = "signal"
  /\ IF NextTail # head
     THEN nqueue' = [nqueue EXCEPT ![tail] = event] /\ tail' = NextTail
     ELSE UNCHANGED <<nqueue, tail>>
  /\ UNCHANGED <<socket, gone, shut, event, head, readable, app, got>>

(* notify_enqueue, the rest: the eventfd is written in any case. *)
Signal ==
  /\ thread = "signal"
  /\ thread' = "recv" /\ readable' = TRUE
  /\ UNCHANGED <<socket, gone, shut, event, nqueue, head, tail, app, got>>

-----------------------------------------------------------------------------
(* The application's event loop: wakes up while the eventfd is readable.   *)
Wake ==
  /\ app = "poll" /\ readable
  /\ app' = "read"
  /\ UNCHANGED <<socket, gone, shut, thread, event, nqueue, head, tail, readable, got>>

(* razerd_read_event, under notify_lock. *)
Dequeue ==
  /\ app = "read" /\ head # tail
  /\ got' = nqueue[head]
  /\ head' = (head + 1) % Size
  /\ app' = "drain"
  /\ UNCHANGED <<socket, gone, shut, thread, event, nqueue, tail, readable>>

(* razerd_read_event on an empty queue: -EAGAIN, the eventfd is left as it *)
(* is.  The caller goes back to its event loop.                            *)
Empty ==
  /\ app = "read" /\ head = tail
  /\ got' = Again
  /\ app' = "poll"
  /\ UNCHANGED <<socket, gone, shut, thread, event, nqueue, head, tail, readable>>

(* Faulty variant: one event is read per wakeup. *)
DrainThenPoll ==
  /\ app = "drain"
  /\ readable' = FALSE /\ app' = "poll"
  /\ UNCHANGED <<socket, gone, shut, thread, event, nqueue, head, tail, got>>

(* razerd_read_event, the rest: reading the eventfd sets it to 0.  The     *)
(* callers, the Qt and GTK windows, then ask for the next event.           *)
Drain ==
  /\ app = "drain"
  /\ readable' = FALSE /\ app' = "read"
  /\ UNCHANGED <<socket, gone, shut, thread, event, nqueue, head, tail, got>>

(* Faulty variant: the thread is joined but not told to stop. *)
CloseUntold ==
  /\ app = "poll" /\ ~shut
  /\ app' = "join"
  /\ UNCHANGED <<socket, gone, shut, thread, event, nqueue, head, tail, readable, got>>

(* razerd_close: notify_stop, shutdown, and thrd_join. *)
Close ==
  /\ app = "poll" /\ ~shut
  /\ shut' = TRUE /\ app' = "join"
  /\ UNCHANGED <<socket, gone, thread, event, nqueue, head, tail, readable, got>>

(* notify_stop is looked at before each recv: what was received already is *)
(* enqueued, the rest may be lost.                                         *)
Stop ==
  /\ thread = "recv" /\ shut
  /\ thread' = "done"
  /\ UNCHANGED <<socket, gone, shut, event, nqueue, head, tail, readable, app, got>>

Join ==
  /\ app = "join" /\ thread = "done"
  /\ app' = "closed"
  /\ UNCHANGED <<socket, gone, shut, thread, event, nqueue, head, tail, readable, got>>

Next ==
  \/ \E b \in Events \cup {"other"} : Announce(b)
  \/ Exit
  \/ Recv \/ RecvEnd \/ Enqueue \/ Signal
  \/ Wake \/ Dequeue \/ Empty \/ Drain
  \/ Close \/ Stop \/ Join

Spec == Init /\ [][Next]_vars

(* The notification thread and the application's loop are scheduled. *)
FairSpec ==
  /\ Spec
  /\ WF_vars(Recv \/ RecvEnd \/ Stop) /\ WF_vars(Enqueue) /\ WF_vars(Signal)
  /\ WF_vars(Wake) /\ WF_vars(Dequeue \/ Empty) /\ WF_vars(Drain) /\ WF_vars(Join)

-----------------------------------------------------------------------------
TypeOK ==
  /\ socket \in Seq(Events \cup {"other"}) /\ {gone, shut} \subseteq BOOLEAN
  /\ thread \in {"recv", "enqueue", "signal", "done"} /\ event \in Events
  /\ nqueue \in [Slots -> Events] /\ head \in Slots /\ tail \in Slots
  /\ readable \in BOOLEAN
  /\ app \in {"poll", "read", "drain", "join", "closed"}
  /\ got \in Events \cup {Again}

(* The ring's contents, oldest first. *)
Waiting ==
  [i \in 1 .. (tail - head + Size) % Size |-> nqueue[(head + i - 1) % Size]]

(* The ring is a bounded queue, whatever the two threads do and however    *)
(* its indices wrap: what is read is what was put in first, no event is    *)
(* read twice or overwritten, and one is dropped if Size - 1 of them are   *)
(* waiting and in no other case (notify_enqueue, razerd_read_event).       *)
Queue == INSTANCE EventQueue
  WITH Capacity <- Size - 1, Nothing <- Again, waiting <- Waiting, taken <- got,
       arriving <- IF thread = "enqueue" THEN event ELSE Again
Fifo  == Queue!Spec

(* No wakeup is lost: when the application waits for the eventfd while     *)
(* events wait in the queue, the eventfd is readable or is about to be.    *)
NoLostWakeup ==
  app = "poll" /\ head # tail => readable \/ thread = "signal"

(* The oldest waiting event is always taken, unless the application        *)
(* closes: the loop of the Qt and GTK windows never sleeps over an event.  *)
OldestTaken ==
  \A i \in Slots : (head = i /\ tail # i) ~> (head # i \/ app \in {"join", "closed"})

(* razerd_close returns: the thread it joins notices the shutdown whatever *)
(* it was doing.                                                           *)
CloseReturns == app = "join" ~> app = "closed"
=============================================================================
