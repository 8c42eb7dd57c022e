------------------------------- MODULE FrameQueue ------------------------------
(***************************************************************************)
(* What the receive side of the CAN controller promises to its driver: a   *)
(* bounded queue of frames that keeps the order of arrival, drops the      *)
(* newest frame and remembers that it did when it is full, and loses a     *)
(* frame in no other way than by a pop or a flush of the driver.           *)
(***************************************************************************)
EXTENDS Integers, Sequences

CONSTANTS Frame, Capacity

VARIABLES
  queue,      \* the frames that wait, oldest first
  overflow    \* a frame was dropped since the driver last cleared the flag

vars == <<queue, overflow>>

Init == queue = <<>> /\ overflow = FALSE

Arrive == \E f \in Frame :
  /\ Len(queue) < Capacity
  /\ queue' = Append(queue, f)
  /\ UNCHANGED overflow

Drop ==
  /\ Len(queue) = Capacity
  /\ overflow' = TRUE
  /\ UNCHANGED queue

\* One write of the driver may pop or flush, and clear the flag as well.
Control ==
  /\ \/ UNCHANGED queue
     \/ queue # <<>> /\ queue' = Tail(queue)
     \/ queue' = <<>>
  /\ overflow' => overflow

Next == Arrive \/ Drop \/ Control

Spec == Init /\ [][Next]_vars
================================================================================
