---------------------------- MODULE FrameBuilder ----------------------------
(***************************************************************************)
(* How the driver makes frames of raw packets (comm/pub_handler.cpp): the  *)
(* SDK calls back with packets, which are queued; one thread takes them,   *)
(* gathers their points for each LiDAR and publishes frames, on the clock  *)
(* of the host or on the stamps of the LiDARs.                             *)
(*                                                                         *)
(* A packet stands for its points; their coordinates are left out.         *)
(***************************************************************************)
EXTENDS Integers, Sequences

CONSTANTS
  LidarCount,  \* LiDARs
  Interval,    \* publish_interval_, in ticks
  Tolerance,   \* publish_interval_tolerance_
  MaxTime,     \* ticks of the clock of the host
  LidarTimes,  \* what the clock of a LiDAR may show
  MaxPackets   \* packets the LiDARs send in all

ASSUME FrameBuilderAssumption ==
  /\ LidarCount \in Nat /\ MaxTime \in Nat /\ MaxPackets \in Nat
  /\ Interval \in Nat \ {0} /\ Tolerance \in 0..Interval
  /\ LidarTimes \subseteq Nat \ {0}

Lidars == 1..LidarCount
Times == 1..MaxTime \cup {1}
Kinds == {"points", "unknown", "imu"}

VARIABLES
  setup,      \* the LiDARs are synchronised, or not, or some and now and then
  clock,      \* the clock of the host
  flag,       \* is_timestamp_sync_, one for all LiDARs
  incoming,   \* the packet the SDK calls back with
  queue,      \* raw_packet_queue_
  pc,         \* where RawDataProcess is
  id,         \* the LiDAR whose packet it has taken
  cloud,      \* points_clouds_ of each LiDAR
  points,     \* points_ of each LiDAR
  lastPub,    \* last_pub_time_, 0 before the first call of CheckTimer
  main,       \* how far Uninit is
  left,       \* packets the LiDARs may still send
  sent,       \* history: packets with points of each LiDAR
  published,  \* history: the numbers of those that were published
  timed,      \* history: frames published on the clock of the host
  started     \* history: the first last_pub_time_

sdkVars == <<flag, incoming, queue, left, sent>>
frameVars == <<cloud, points, published>>
timerVars == <<lastPub, timed, started>>
vars == <<setup, clock, sdkVars, pc, id, frameVars, timerVars, main>>

(* A packet has a number among those of its LiDAR, or 0 without points. *)
Point == [no : Nat, stamp : Nat]
Raw == [lidar : Lidars, no : Nat, stamp : Nat]
Nothing == [lidar |-> 0, kind |-> "none", synced |-> FALSE]

TypeOK ==
  /\ setup \in {"synced", "free", "mixed"}
  /\ clock \in Times
  /\ flag \in BOOLEAN
  /\ incoming \in [lidar : Lidars, kind : Kinds, synced : BOOLEAN]
                    \cup {Nothing}
  /\ queue \in Seq(Raw)
  /\ left \in 0..MaxPackets
  /\ sent \in [Lidars -> Nat]
  /\ id \in Lidars \cup {0}
  /\ pc \in {"loop", "wait", "timer", "done"}
  /\ cloud \in [Lidars -> Seq(Point)]
  /\ points \in [Lidars -> Seq(Point)]
  /\ published \in [Lidars -> Seq(Nat)]
  /\ {lastPub, started} \subseteq 0..clock
  /\ timed \in Nat
  /\ main \in {"running", "removed", "quit", "joined"}

Init ==
  /\ setup \in {"synced", "free", "mixed"}
  /\ clock = 1
  /\ flag = FALSE /\ incoming = Nothing /\ queue = <<>>
  /\ left = MaxPackets /\ sent = [l \in Lidars |-> 0]
  /\ pc = "loop" /\ id = 0
  /\ cloud = [l \in Lidars |-> <<>>]
  /\ points = [l \in Lidars |-> <<>>]
  /\ published = [l \in Lidars |-> <<>>]
  /\ lastPub = 0 /\ timed = 0 /\ started = 0
  /\ main = "running"

-----------------------------------------------------------------------------
(* OnLivoxLidarPointCloudCallback.                                         *)

Packets ==
  [lidar : Lidars, kind : Kinds,
   synced : CASE setup = "synced" -> {TRUE}
              [] setup = "free" -> {FALSE}
              [] OTHER -> BOOLEAN]

(* A mutated form: only packets of an IMU set the flag. *)
ReceiveUnflagged ==
  /\ incoming = Nothing /\ main = "running" /\ left > 0
  /\ left' = left - 1
  /\ \E p \in Packets :
       /\ flag' = IF p.kind = "imu" THEN p.synced ELSE flag
       /\ incoming' = IF p.kind = "imu" THEN Nothing ELSE p
  /\ UNCHANGED <<setup, clock, queue, sent, pc, id, frameVars, timerVars,
                 main>>

(* A packet of an IMU goes elsewhere after the flag. *)
Receive ==
  /\ incoming = Nothing /\ main = "running" /\ left > 0
  /\ left' = left - 1
  /\ \E p \in Packets :
       /\ flag' = p.synced
       /\ incoming' = IF p.kind = "imu" THEN Nothing ELSE p
  /\ UNCHANGED <<setup, clock, queue, sent, pc, id, frameVars, timerVars,
                 main>>

(* GetEthPacketTimestamp *)
Stamps == IF incoming.synced THEN LidarTimes ELSE {clock}

Enqueue ==
  /\ incoming # Nothing
  /\ \E t \in Stamps :
       LET l == incoming.lidar
       IN IF incoming.kind = "points"
          THEN /\ sent' = [sent EXCEPT ![l] = @ + 1]
               /\ queue' = Append(queue, [lidar |-> l, no |-> sent[l] + 1,
                                          stamp |-> t])
          ELSE /\ queue' = Append(queue, [lidar |-> l, no |-> 0, stamp |-> t])
               /\ UNCHANGED sent
  /\ incoming' = Nothing
  /\ UNCHANGED <<setup, clock, flag, left, pc, id, frameVars, timerVars, main>>

-----------------------------------------------------------------------------
(* RawDataProcess.                                                         *)

(* The front of the queue, and PointCloudProcess: data of an unknown type  *)
(* are left out.                                                           *)
Take ==
  /\ queue # <<>> /\ queue' = Tail(queue)
  /\ LET p == Head(queue)
     IN /\ id' = p.lidar
        /\ cloud' = IF p.no = 0 THEN cloud
                    ELSE [cloud EXCEPT ![p.lidar] =
                            Append(@, [no |-> p.no, stamp |-> p.stamp])]
  /\ pc' = "timer"

(* Nobody else looks at the cloud. *)
Loop ==
  /\ pc = "loop"
  /\ \/ main = "quit" /\ pc' = "done" /\ UNCHANGED <<queue, id, cloud>>
     \/ main # "quit" /\ queue = <<>> /\ pc' = "wait"
          /\ UNCHANGED <<queue, id, cloud>>
     \/ main # "quit" /\ Take
  /\ UNCHANGED <<setup, clock, flag, incoming, left, sent, points, published,
                 timerVars, main>>

(* A mutated form: wait where the code has wait_for. *)
WakeNotified ==
  /\ pc = "wait" /\ Take
  /\ UNCHANGED <<setup, clock, flag, incoming, left, sent, points, published,
                 timerVars, main>>

(* A notification, or the time-out. *)
Wake ==
  /\ pc = "wait"
  /\ \/ Take
     \/ queue = <<>> /\ pc' = "loop" /\ UNCHANGED <<queue, id, cloud>>
  /\ UNCHANGED <<setup, clock, flag, incoming, left, sent, points, published,
                 timerVars, main>>

NumbersOf(c) == [i \in 1..Len(c) |-> c[i].no]

(* A mutated form: points_ still holds the frame before when it is swapped *)
(* with the cloud.                                                         *)
PublishUncleared(S) ==
  /\ published' = [l \in Lidars |->
                       IF l \in S THEN published[l] \o NumbersOf(cloud[l])
                       ELSE published[l]]
  /\ points' = [l \in Lidars |-> IF l \in S THEN cloud[l] ELSE points[l]]
  /\ cloud' = [l \in Lidars |-> IF l \in S THEN points[l] ELSE cloud[l]]

(* points_ is cleared and swapped with the cloud: the frame to publish. *)
Publish(S) ==
  /\ published' = [l \in Lidars |->
                       IF l \in S THEN published[l] \o NumbersOf(cloud[l])
                       ELSE published[l]]
  /\ points' = [l \in Lidars |-> IF l \in S THEN cloud[l] ELSE points[l]]
  /\ cloud' = [l \in Lidars |-> IF l \in S THEN <<>> ELSE cloud[l]]

GetLidarBaseTime(l) == IF cloud[l] = <<>> THEN 0 ELSE cloud[l][1].stamp

GetRecentTimeStamp(l) ==
  IF cloud[l] = <<>> THEN 0 ELSE cloud[l][Len(cloud[l])].stamp

(* The difference is unsigned: after a step back it is larger than any     *)
(* tolerance.                                                              *)
IsOld(l) ==
  LET diff == GetRecentTimeStamp(l) - GetLidarBaseTime(l)
  IN diff < 0 \/ diff >= Tolerance

(* CheckTimer on the stamps of the LiDAR whose packet has been taken. *)
CheckStamps ==
  /\ pc = "timer" /\ flag
  /\ LET recent == GetRecentTimeStamp(id)
     IN IF recent % Interval = 0 /\ recent # 0 /\ IsOld(id)
        THEN Publish({id})
        ELSE UNCHANGED frameVars
  /\ pc' = "loop" /\ id' = 0
  /\ UNCHANGED <<setup, clock, sdkVars, lastPub, timed, started, main>>

(* The first time is only remembered. *)
StartTimer ==
  /\ pc = "timer" /\ ~flag /\ lastPub = 0
  /\ lastPub' = clock /\ started' = clock
  /\ pc' = "loop" /\ id' = 0
  /\ UNCHANGED <<setup, clock, sdkVars, frameVars, timed, main>>

NotYet ==
  /\ pc = "timer" /\ ~flag /\ lastPub # 0 /\ clock - lastPub < Interval
  /\ pc' = "loop" /\ id' = 0
  /\ UNCHANGED <<setup, clock, sdkVars, frameVars, lastPub, timed,
                 started, main>>

(* Mutated forms: the other LiDARs are left out; the interval is not over. *)
PublishOwn ==
  /\ pc = "timer" /\ ~flag /\ lastPub # 0 /\ clock - lastPub >= Interval
  /\ Publish({id})
  /\ lastPub' = lastPub + Interval /\ timed' = timed + 1
  /\ pc' = "loop" /\ id' = 0
  /\ UNCHANGED <<setup, clock, sdkVars, started, main>>

PublishEarly ==
  /\ pc = "timer" /\ ~flag /\ lastPub # 0 /\ clock - lastPub >= Tolerance
  /\ Publish(Lidars)
  /\ lastPub' = clock /\ timed' = timed + 1
  /\ pc' = "loop" /\ id' = 0
  /\ UNCHANGED <<setup, clock, sdkVars, started, main>>

(* The time of publication goes on by one interval however late it is. *)
PublishAll ==
  /\ pc = "timer" /\ ~flag /\ lastPub # 0 /\ clock - lastPub >= Interval
  /\ Publish(Lidars)
  /\ lastPub' = lastPub + Interval /\ timed' = timed + 1
  /\ pc' = "loop" /\ id' = 0
  /\ UNCHANGED <<setup, clock, sdkVars, started, main>>

-----------------------------------------------------------------------------
(* Uninit.                                                                 *)

RemoveObserver ==
  /\ main = "running" /\ main' = "removed"
  /\ UNCHANGED <<setup, clock, sdkVars, pc, id, frameVars, timerVars>>

RequestExit ==
  /\ main = "removed" /\ main' = "quit"
  /\ UNCHANGED <<setup, clock, sdkVars, pc, id, frameVars, timerVars>>

Join ==
  /\ main = "quit" /\ pc = "done" /\ main' = "joined"
  /\ UNCHANGED <<setup, clock, sdkVars, pc, id, frameVars, timerVars>>

Tick ==
  /\ clock < MaxTime /\ clock' = clock + 1
  /\ UNCHANGED <<setup, sdkVars, pc, id, frameVars, timerVars, main>>

BuilderStep ==
  \/ Loop \/ Wake
  \/ CheckStamps \/ StartTimer \/ NotYet \/ PublishAll

Next ==
  \/ Receive \/ Enqueue \/ BuilderStep
  \/ RemoveObserver \/ RequestExit \/ Join \/ Tick

(* The thread runs; nothing is assumed of the LiDARs. *)
Spec == Init /\ [][Next]_vars /\ WF_vars(BuilderStep) /\ WF_vars(Join)

-----------------------------------------------------------------------------
(* Properties.                                                             *)

Stream(l) == published[l] \o NumbersOf(cloud[l])

Waiting(q, l) == {i \in 1..Len(q) : q[i].lidar = l /\ q[i].no # 0}

(* The points of LiDAR l in a queue are those after a up to b, in order. *)
InLine(q, l, a, b) ==
  /\ {q[i].no : i \in Waiting(q, l)} = (a + 1)..b
  /\ \A i, j \in Waiting(q, l) : i < j => q[i].no < q[j].no

(* Frames carry every point of every LiDAR once and in the order in which  *)
(* packets came, whatever the timers do and however the mode changes: what *)
(* was published and the cloud are the first packets of the LiDAR, and the *)
(* queue has the others in order.                                          *)
StreamsKept ==
  \A l \in Lidars :
    /\ Stream(l) = [n \in 1..Len(Stream(l)) |-> n]
    /\ InLine(queue, l, Len(Stream(l)), sent[l])

(* On the clock of the host there is at most one frame for each interval,  *)
(* counted from the first packet: the bursts with which the timer catches  *)
(* up after a stall never get ahead of it.                                 *)
FramesPaced == timed > 0 => started + timed * Interval <= clock

(* Without synchronisation no LiDAR is forgotten: once the timer has been  *)
(* looked at, points are left of a LiDAR, whichever it is, only if their   *)
(* frame is not due.                                                       *)
NothingOverdue ==
  [][setup = "free" /\ pc = "timer" /\ pc' = "loop" =>
       \A l \in Lidars : cloud'[l] # <<>> => clock < lastPub' + Interval]_vars

(* Frames of synchronised LiDARs are never cut by the clock of the host:   *)
(* the flag is up before the first packet is queued.                       *)
SyncedNeverTimed == setup = "synced" => lastPub = 0

(* The destructor is not kept waiting by a thread that waits for packets,  *)
(* which nobody wakes.                                                     *)
ExitEnds == main = "quit" ~> main = "joined"
=============================================================================
