------------------------------- MODULE SlamNode -------------------------------
(***************************************************************************)
(* rove_slam_node.cpp around its pipeline, which is not in the repository: *)
(* a scan gives a pose or it does not. The executor runs one callback at a *)
(* time.                                                                   *)
(***************************************************************************)
EXTENDS Integers, Sequences

VARIABLES
  now, lidar,
  slam,        \* [read: scans taken or lost, last: last_stamp_, heartbeat,
               \*  map: the pipeline has points]
  tf,          \* the transforms last sent: [pose: 0 or a scan, stamp]
  odom,        \* what was published on /odom: [stamp, of: the scan]
  obstacles    \* the stamp of the last obstacles published, 0 before that

Init ==
  /\ slam = [read |-> 0, last |-> 0, heartbeat |-> TRUE, map |-> FALSE]
  /\ tf = [pose |-> 0, stamp |-> 0]
  /\ odom = <<>>
  /\ obstacles = 0

(* pc2ToLidarFrame: no points without coordinates, or if there are none. *)
HasPoints(cloud) == cloud.kind = "full"

(* A scan gives no pose if it has no points, or if the pipeline has none.  *)
NoPose(k) ==
  /\ \E map \in {slam.map, slam.map \/ HasPoints(lidar[k])} :
       slam' = [slam EXCEPT !.read = k, !.map = map]
  /\ UNCHANGED <<tf, odom>>

(* A mutated form: last_stamp_ is not set. *)
PoseUnstamped(k) ==
  /\ HasPoints(lidar[k])
  /\ tf' = [pose |-> k, stamp |-> now]
  /\ odom' = Append(odom, [stamp |-> now, of |-> k])
  /\ slam' = [slam EXCEPT !.read = k, !.map = TRUE]

(* Both transforms and /odom carry the same stamp, that of the clock.      *)
Pose(k) ==
  /\ HasPoints(lidar[k])
  /\ tf' = [pose |-> k, stamp |-> now]
  /\ odom' = Append(odom, [stamp |-> now, of |-> k])
  /\ slam' = [slam EXCEPT !.read = k, !.map = TRUE, !.last = now]

(* The subscription is best effort and keeps the last scans only: others   *)
(* are lost.                                                               *)
onLidar ==
  /\ \E k \in slam.read + 1 .. Len(lidar) : NoPose(k) \/ Pose(k)
  /\ UNCHANGED <<now, lidar, obstacles>>

(* The identity, until the first pose: nav2 waits for the frames. *)
publishStartupTf ==
  /\ slam.heartbeat
  /\ IF slam.last > 0
     THEN slam' = [slam EXCEPT !.heartbeat = FALSE] /\ UNCHANGED tf
     ELSE tf' = [pose |-> 0, stamp |-> now] /\ UNCHANGED slam
  /\ UNCHANGED <<now, lidar, odom, obstacles>>

(* The local map, with the stamp of the last pose. *)
publishObstacles ==
  /\ slam.map
  /\ obstacles' = IF slam.last > 0 THEN slam.last ELSE now
  /\ UNCHANGED <<now, lidar, slam, tf, odom>>

Next == onLidar \/ publishStartupTf \/ publishObstacles
=============================================================================
