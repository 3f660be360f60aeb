---------------------------- MODULE BoundedFifo ----------------------------
(***************************************************************************)
(* What a packet queue of the LiDAR driver promises: packets come out once *)
(* each, whole and in the order they went in, and at most Capacity wait.   *)
(***************************************************************************)
EXTENDS Naturals, Sequences

CONSTANTS Packets, Capacity

VARIABLES
  waiting,  \* the packets in the queue, oldest first
  taken     \* the packets taken out last, at most one

fifoVars == <<waiting, taken>>

Init == waiting = <<>> /\ taken = {}

Push(p) ==
  /\ Len(waiting) < Capacity
  /\ waiting' = Append(waiting, p)
  /\ UNCHANGED taken

Pop ==
  /\ waiting # <<>>
  /\ taken' = {Head(waiting)}
  /\ waiting' = Tail(waiting)

Next == Pop \/ \E p \in Packets : Push(p)

Spec == Init /\ [][Next]_fifoVars

(* The consumer takes what waits. *)
LiveSpec == Spec /\ WF_fifoVars(Pop)
=============================================================================
