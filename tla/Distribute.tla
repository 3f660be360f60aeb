----------------------------- MODULE Distribute -----------------------------
(***************************************************************************)
(* How packets get from the threads that receive them to the thread that   *)
(* publishes them (lds.cpp, lddc.cpp): one queue for each LiDAR, and one   *)
(* semaphore that wakes the publisher.  The driver has two such paths, of  *)
(* point clouds and of IMU data; format tells them apart.                  *)
(*                                                                         *)
(* Queues are the bounded FIFO queues that LidarQueue implements, and only *)
(* their lengths matter here.                                              *)
(***************************************************************************)
EXTENDS Integers

CONSTANTS
  LidarCount,  \* queues the publisher goes through, in order
  Ready,       \* LiDARs that are sampling from the start
  Capacity,    \* packets a ring takes
  MaxPackets,  \* packets the LiDARs send in all
  Formats      \* paths considered, of "cloud", "pcl" and "imu"

Lidars == 1..LidarCount

ASSUME DistributeAssumption ==
  /\ LidarCount \in Nat /\ MaxPackets \in Nat
  /\ Capacity \in Nat \ {0}
  /\ Ready \subseteq Lidars
  /\ Formats \subseteq {"cloud", "pcl", "imu"}

VARIABLES
  format,     \* xfer_format of a point cloud path, or "imu"
  len,        \* packets in each LiDAR's queue
  sampling,   \* connect_state is kConnectStateSampling
  left,       \* packets the LiDARs have still to send
  source,     \* where the storing thread is
  target,     \* the LiDAR it stores a packet of
  count,      \* the semaphore
  publisher,  \* where the publishing thread is
  at,         \* the LiDAR it polls
  main        \* the destruction of the node

queueVars == <<format, len, sampling>>
sourceVars == <<left, source, target>>
publisherVars == <<publisher, at>>
vars == <<queueVars, left, source, target, count, publisher, at, main>>

TypeOK ==
  /\ format \in Formats
  /\ len \in [Lidars -> Nat]
  /\ format # "imu" => \A l \in Lidars : len[l] <= Capacity
  /\ sampling \in [Lidars -> BOOLEAN]
  /\ left \in 0..MaxPackets
  /\ source \in {"idle", "pushed", "count", "signal"}
  /\ target \in Lidars \cup {0}
  /\ count \in Nat
  /\ publisher \in {"top", "wait", "poll", "drain", "publish", "future",
                    "done"}
  /\ at \in 1..(LidarCount + 1)
  /\ main \in {"running", "requested", "signalled", "joined"}

Init ==
  /\ format \in Formats
  /\ len = [l \in Lidars |-> 0]
  /\ sampling = [l \in Lidars |-> l \in Ready]
  /\ left = MaxPackets /\ source = "idle" /\ target = 0
  /\ count = 0
  /\ publisher = "top" /\ at = 1
  /\ main = "running"

IsRequestExit == main # "running"

-----------------------------------------------------------------------------
(* PushLidarData and StorageImuData.                                       *)

(* A ring has its capacity; the list of IMU samples has no limit. *)
HasRoom(l) == format = "imu" \/ len[l] < Capacity

(* A full queue drops the packet, and goes on to the semaphore. *)
Push(l) ==
  /\ source = "idle" /\ left > 0
  /\ left' = left - 1 /\ target' = l
  /\ IF HasRoom(l)
     THEN len' = [len EXCEPT ![l] = @ + 1] /\ source' = "pushed"
     ELSE source' = "count" /\ UNCHANGED len
  /\ UNCHANGED <<format, sampling, count, publisherVars, main>>

(* A mutated form: only the packet that ends an all-empty spell signals. *)
QueueIsStillFullElsewhere ==
  /\ source = "pushed"
  /\ source' = (IF \A l \in Lidars \ {target} : len[l] = 0
                THEN "count" ELSE "idle")
  /\ UNCHANGED <<queueVars, left, target, count, publisherVars, main>>

(* The publisher may have emptied the queue meanwhile. *)
QueueIsStillFilled ==
  /\ source = "pushed"
  /\ source' = (IF len[target] = 0 THEN "idle" ELSE "count")
  /\ UNCHANGED <<queueVars, left, target, count, publisherVars, main>>

(* GetCount takes no lock; what it returned may be old when it is used. *)
GetCount ==
  /\ source = "count"
  /\ source' = (IF count <= 0 THEN "signal" ELSE "idle")
  /\ UNCHANGED <<queueVars, left, target, count, publisherVars, main>>

Signal ==
  /\ source = "signal"
  /\ source' = "idle" /\ count' = count + 1
  /\ UNCHANGED <<queueVars, left, target, publisherVars, main>>

-----------------------------------------------------------------------------
(* The publishing thread.                                                  *)

Distribute ==
  /\ publisher = "top"
  /\ publisher' = (IF IsRequestExit THEN "future" ELSE "wait")
  /\ UNCHANGED <<queueVars, sourceVars, count, at, main>>

Wait ==
  /\ publisher = "wait" /\ count > 0
  /\ count' = count - 1
  /\ publisher' = "poll" /\ at' = 1
  /\ UNCHANGED <<queueVars, sourceVars, main>>

(* A mutated form: a LiDAR that is not sampling ends the round. *)
PollBreaks ==
  /\ publisher = "poll" /\ at \in Lidars
  /\ publisher' = (IF sampling[at] THEN "drain" ELSE "future")
  /\ UNCHANGED <<queueVars, sourceVars, count, at, main>>

(* LiDARs that are not sampling are passed over. *)
Poll ==
  /\ publisher = "poll" /\ at \in Lidars
  /\ IF sampling[at]
     THEN publisher' = "drain" /\ UNCHANGED at
     ELSE at' = at + 1 /\ UNCHANGED publisher
  /\ UNCHANGED <<queueVars, sourceVars, count, main>>

AllPolled ==
  /\ publisher = "poll" /\ at \notin Lidars
  /\ publisher' = "future"
  /\ UNCHANGED <<queueVars, sourceVars, count, at, main>>

(* A mutated form of the loop of PollingLidarPointCloudData: no exit. *)
DrainOnly ==
  /\ publisher = "drain"
  /\ IF len[at] > 0
     THEN publisher' = "publish" /\ UNCHANGED at
     ELSE publisher' = "poll" /\ at' = at + 1
  /\ UNCHANGED <<queueVars, sourceVars, count, main>>

(* The loop of PollingLidarPointCloudData and of PollingLidarImuData. *)
Drain ==
  /\ publisher = "drain"
  /\ IF ~IsRequestExit /\ len[at] > 0
     THEN publisher' = "publish" /\ UNCHANGED at
     ELSE publisher' = "poll" /\ at' = at + 1
  /\ UNCHANGED <<queueVars, sourceVars, count, main>>

PopOne == len' = [len EXCEPT ![at] = @ - 1]

(* Point clouds are published until the queue is empty, whatever the exit  *)
(* request says; an IMU sample is published alone; ROS 2 has no PCL format *)
(* and nothing is taken.                                                   *)
Publish ==
  /\ publisher = "publish"
  /\ IF format # "pcl" /\ len[at] > 0 THEN PopOne ELSE UNCHANGED len
  /\ publisher' = (IF format = "cloud" /\ len[at] > 0
                   THEN "publish" ELSE "drain")
  /\ UNCHANGED <<format, sampling, sourceVars, count, at, main>>

(* The poll thread looks at the future after every round. *)
CheckFuture ==
  /\ publisher = "future"
  /\ publisher' = (IF main = "signalled" THEN "done" ELSE "top")
  /\ UNCHANGED <<queueVars, sourceVars, count, at, main>>

-----------------------------------------------------------------------------
(* A LiDAR's last configuration command is acknowledged. *)
Connect(l) ==
  /\ ~sampling[l]
  /\ sampling' = [sampling EXCEPT ![l] = TRUE]
  /\ UNCHANGED <<format, len, sourceVars, count, publisherVars, main>>

(* ~DriverNode. *)
RequestExit ==
  /\ main = "running" /\ main' = "requested"
  /\ UNCHANGED <<queueVars, sourceVars, count, publisherVars>>

SetExitSignal ==
  /\ main = "requested" /\ main' = "signalled"
  /\ UNCHANGED <<queueVars, sourceVars, count, publisherVars>>

Join ==
  /\ main = "signalled" /\ publisher = "done" /\ main' = "joined"
  /\ UNCHANGED <<queueVars, sourceVars, count, publisherVars>>

-----------------------------------------------------------------------------
StoreStep == QueueIsStillFilled \/ GetCount \/ Signal

PublishStep ==
  \/ Distribute \/ Wait \/ Poll \/ AllPolled \/ Drain \/ Publish
  \/ CheckFuture

ExitStep == SetExitSignal \/ Join

Next ==
  \/ \E l \in Lidars : Push(l) \/ Connect(l)
  \/ StoreStep \/ PublishStep
  \/ RequestExit \/ ExitStep

(* Threads run; LiDARs, their configuration and the operator need not. *)
Spec ==
  /\ Init /\ [][Next]_vars
  /\ WF_vars(StoreStep) /\ WF_vars(PublishStep) /\ WF_vars(ExitStep)

-----------------------------------------------------------------------------
(* Properties.                                                             *)

(* The publisher never sleeps beside a packet of a sampling LiDAR, unless  *)
(* the thread that stores packets is about to look at the semaphore: the   *)
(* unlocked count, the signal that is skipped and the packet that a full   *)
(* queue drops lose no wake-up.                                            *)
NoLostWakeup ==
  publisher = "wait" /\ count = 0 /\ source = "idle" =>
    \A l \in Ready : len[l] = 0

(* The semaphore never counts more than one wake-up, so the publisher does *)
(* not fall behind in empty rounds.                                        *)
OneWakeup == count <= 1

(* Whatever a sampling LiDAR sent, to its last packet, is published in the *)
(* formats that are, or the node is being destroyed.                       *)
LastPacketPublished ==
  \A l \in Ready :
    (len[l] > 0 /\ format # "pcl") ~> (len[l] = 0 \/ IsRequestExit)

(* The destruction of the node ends, even in a format nothing is published *)
(* in, unless all LiDARs fall silent for good while the publisher sleeps:  *)
(* only a packet wakes it.                                                 *)
Silence == source = "idle" /\ publisher = "wait" /\ count = 0

DestructionEnds == <>[]Silence \/ (IsRequestExit ~> main = "joined")
=============================================================================
