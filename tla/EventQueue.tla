----------------------------- MODULE EventQueue -----------------------------
(***************************************************************************)
(* What librazerd promises of its hot-plug events: they come out in the    *)
(* order razerd announced them, each at most once, and an event is dropped *)
(* if and only if Capacity events are waiting when it arrives.             *)
(***************************************************************************)
EXTENDS Naturals, Sequences

CONSTANTS Events, Capacity, Nothing

VARIABLES
  arriving,   \* the event being delivered, or Nothing
  waiting,    \* the events not yet taken, oldest first
  taken       \* what the reader got last, Nothing if nothing was waiting

qvars == <<arriving, waiting, taken>>

Init == arriving = Nothing /\ waiting = <<>> /\ taken = Nothing

Arrive(e) == arriving = Nothing /\ arriving' = e /\ UNCHANGED <<waiting, taken>>

Put ==
  /\ arriving # Nothing /\ Len(waiting) < Capacity
  /\ waiting' = Append(waiting, arriving) /\ arriving' = Nothing
  /\ UNCHANGED taken

Drop ==
  /\ arriving # Nothing /\ Len(waiting) = Capacity
  /\ arriving' = Nothing
  /\ UNCHANGED <<waiting, taken>>

Get ==
  /\ waiting # <<>>
  /\ taken' = Head(waiting) /\ waiting' = Tail(waiting)
  /\ UNCHANGED arriving

Miss ==
  /\ waiting = <<>>
  /\ taken' = Nothing
  /\ UNCHANGED <<arriving, waiting>>

Next == Put \/ Drop \/ Get \/ Miss \/ \E e \in Events : Arrive(e)

Spec == Init /\ [][Next]_qvars
=============================================================================
