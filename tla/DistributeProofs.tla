-------------------------- MODULE DistributeProofs --------------------------
(***************************************************************************)
(* What TLAPS proves of Distribute, for any number of LiDARs, any queue    *)
(* capacity and any number of packets.                                     *)
(***************************************************************************)
EXTENDS Distribute, TLAPS

(* The publisher drains a queue that exists. *)
Draining == publisher \in {"drain", "publish"} => at \in Lidars

LEMMA TypeInit == Init => TypeOK /\ Draining
BY DistributeAssumption DEF Init, TypeOK, Draining, Lidars

(* Every step keeps the variables well typed. *)
LEMMA TypeStep == TypeOK /\ Draining /\ [Next]_vars => TypeOK' /\ Draining'
<1> SUFFICES ASSUME TypeOK, Draining, [Next]_vars
             PROVE  TypeOK' /\ Draining'
  OBVIOUS
<1> USE DistributeAssumption
    DEF TypeOK, Draining, Lidars, queueVars, sourceVars, publisherVars
<1>1. ASSUME NEW l \in Lidars, Push(l) PROVE TypeOK' /\ Draining'
  BY <1>1 DEF Push, HasRoom
<1>2. ASSUME NEW l \in Lidars, Connect(l) PROVE TypeOK' /\ Draining'
  BY <1>2 DEF Connect
<1>3. CASE QueueIsStillFilled
  BY <1>3 DEF QueueIsStillFilled
<1>4. CASE GetCount
  BY <1>4 DEF GetCount
<1>5. CASE Signal
  BY <1>5 DEF Signal
<1>6. CASE Distribute
  BY <1>6 DEF Distribute
<1>7. CASE Wait
  BY <1>7 DEF Wait
<1>8. CASE Poll
  BY <1>8 DEF Poll
<1>9. CASE AllPolled
  BY <1>9 DEF AllPolled
<1>10. CASE Drain
  BY <1>10 DEF Drain
<1>11. CASE Publish
  BY <1>11 DEF Publish, PopOne
<1>12. CASE CheckFuture
  BY <1>12 DEF CheckFuture
<1>13. CASE RequestExit \/ SetExitSignal \/ Join
  BY <1>13 DEF RequestExit, SetExitSignal, Join
<1>14. CASE UNCHANGED vars
  BY <1>14 DEF vars
<1> QED
  BY <1>1, <1>2, <1>3, <1>4, <1>5, <1>6, <1>7, <1>8, <1>9, <1>10, <1>11,
     <1>12, <1>13, <1>14
  DEF Next, StoreStep, PublishStep, ExitStep

(* Every variable keeps its type. *)
THEOREM TypeCorrect == Spec => []TypeOK
BY TypeInit, TypeStep, PTL DEF Spec

-----------------------------------------------------------------------------
(* A signal is sent only after the count was seen at 0, and no other       *)
(* thread raises it: the count never passes 1.                             *)
SignalledOnce ==
  /\ count \in {0, 1}
  /\ source = "signal" => count = 0

THEOREM SemaphoreBounded == Spec => []OneWakeup
<1>1. Init => SignalledOnce
  BY DEF Init, SignalledOnce
<1>2. SignalledOnce /\ [Next]_vars => SignalledOnce'
  BY DEF SignalledOnce, Next, vars, queueVars, sourceVars, publisherVars, Push, Connect,
         StoreStep, QueueIsStillFilled, GetCount, Signal,
         PublishStep, Distribute, Wait, Poll, AllPolled, Drain, Publish,
         CheckFuture, RequestExit, ExitStep, SetExitSignal, Join
<1>3. SignalledOnce => OneWakeup
  BY DEF SignalledOnce, OneWakeup
<1> QED  BY <1>1, <1>2, <1>3, PTL DEF Spec

-----------------------------------------------------------------------------
(* Why a packet of a ready LiDAR is not forgotten: the publisher will be   *)
(* woken, or the thread that stores packets will look at the semaphore, or *)
(* the publisher has not yet come to this queue in its round, or the node  *)
(* is being destroyed and the publisher will not wait any more.            *)
Remembered(l) ==
  \/ len[l] = 0
  \/ count > 0
  \/ source \in {"count", "signal"}
  \/ source = "pushed" /\ target = l
  \/ publisher \in {"poll", "drain", "publish"} /\ at <= l
  \/ publisher # "wait" /\ IsRequestExit

WakeInv == \A l \in Ready : sampling[l] /\ Remembered(l)

(* Every step of the driver remembers the packets of the ready LiDARs. *)
LEMMA WakeStep ==
  ASSUME TypeOK, Draining, WakeInv, [Next]_vars
  PROVE  WakeInv'
<1> SUFFICES ASSUME NEW l \in Ready
             PROVE  sampling'[l] /\ Remembered(l)'
  BY DEF WakeInv
<1> USE DistributeAssumption
    DEF TypeOK, Draining, Lidars, queueVars, sourceVars, publisherVars, IsRequestExit,
        Remembered
<1>0. l \in 1..LidarCount /\ sampling[l] /\ Remembered(l)
  BY DEF WakeInv
<1>1. ASSUME NEW i \in Lidars, Push(i)
      PROVE  sampling'[l] /\ Remembered(l)'
  BY <1>0, <1>1 DEF Push
<1>2. ASSUME NEW i \in Lidars, Connect(i)
      PROVE  sampling'[l] /\ Remembered(l)'
  BY <1>0, <1>2 DEF Connect
<1>3. CASE QueueIsStillFilled
  BY <1>0, <1>3 DEF QueueIsStillFilled
<1>4. CASE GetCount
  BY <1>0, <1>4 DEF GetCount
<1>5. CASE Signal
  BY <1>0, <1>5 DEF Signal
<1>6. CASE Distribute
  BY <1>0, <1>6 DEF Distribute
<1>7. CASE Wait
  BY <1>0, <1>7 DEF Wait
<1>8. CASE Poll
  BY <1>0, <1>8 DEF Poll
<1>9. CASE AllPolled
  BY <1>0, <1>9 DEF AllPolled
<1>10. CASE Drain
  BY <1>0, <1>10 DEF Drain
<1>11. CASE Publish
  BY <1>0, <1>11 DEF Publish, PopOne
<1>12. CASE CheckFuture
  BY <1>0, <1>12 DEF CheckFuture
<1>13. CASE RequestExit \/ SetExitSignal \/ Join
  BY <1>0, <1>13 DEF RequestExit, SetExitSignal, Join
<1>14. CASE UNCHANGED vars
  BY <1>0, <1>14 DEF vars
<1> QED
  BY <1>1, <1>2, <1>3, <1>4, <1>5, <1>6, <1>7, <1>8, <1>9, <1>10, <1>11,
     <1>12, <1>13, <1>14
  DEF Next, StoreStep, PublishStep, ExitStep

(* The publisher never sleeps beside a packet of a sampling LiDAR, for any *)
(* number of LiDARs, any capacity, any number of packets and every format. *)
THEOREM WakeupsKept == Spec => []NoLostWakeup
<1>1. Init => WakeInv
  BY DistributeAssumption DEF Init, WakeInv, Remembered, Lidars
<1>2. TypeOK /\ Draining /\ WakeInv /\ [Next]_vars => WakeInv'
  BY WakeStep
<1>3. TypeOK /\ WakeInv => NoLostWakeup
  BY DEF WakeInv, Remembered, NoLostWakeup, TypeOK
<1> QED  BY TypeInit, TypeStep, <1>1, <1>2, <1>3, PTL DEF Spec
=============================================================================
