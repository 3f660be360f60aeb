------------------------------ MODULE SlamGraph ------------------------------
(***************************************************************************)
(* The nodes of the robot together, as they are launched: the merger of    *)
(* the LiDARs or a bag that is played, the SLAM node, the mesh builder and *)
(* the colouring of its mesh, and the bridge to the inertial sensor.       *)
(***************************************************************************)
EXTENDS Integers, Sequences

CONSTANTS
  Launches,    \* the sets of nodes that are launched
  Bag,         \* [start: when it is played, lidar: stamps, images, stride]
  HalfSecond,  \* in steps of the clock
  MaxDelay,    \* bound: steps of the clock until a scan is taken or lost
  MaxTime,     \* bound: the clock
  MaxClouds, MeshOptions, MaxScans, MaxBuilds,
  Datagrams, MaxSent, MaxFaults

ASSUME SlamGraphAssumption ==
  /\ \A l \in Launches : l \subseteq {"merger", "bag", "slam", "mesh", "bridge"}
  /\ \A l \in Launches : ~({"merger", "bag"} \subseteq l)
  /\ \A o \in MeshOptions : o.recorded \in BOOLEAN /\ o.on_shutdown \in BOOLEAN
  /\ Bag.start \in Int /\ Bag.lidar \in Seq(Int)
  /\ Bag.images \in Seq([ts : Int, stamp : Int, ok : BOOLEAN])
  /\ HalfSecond \in Nat \ {0}
  /\ MaxScans \in Nat \ {0}
  /\ {MaxDelay, MaxTime, MaxClouds, MaxBuilds, MaxSent, MaxFaults} \subseteq Nat

VARIABLES
  launched, now,
  halves, raw, lidar,
  slam, tf, odom, obstacles,
  taken, poses, scans, stack, node, files,
  main, running, sock, rx, subscribed, route, inbox, sent, faults, topics

mergerVars == <<halves, raw>>
slamVars == <<slam, tf, odom, obstacles>>
meshVars == <<taken, poses, scans, stack, node, files>>
bridgeVars == <<main, running, sock, rx, subscribed, route, inbox, sent, faults, topics>>
vars == <<launched, now, mergerVars, lidar, slamVars, meshVars, bridgeVars>>

Merger == INSTANCE LidarMerger
Slam == INSTANCE SlamNode
Mesh == INSTANCE MeshBuilder
Bridge == INSTANCE VectornavBridge
Color == INSTANCE ColorMesh

Init ==
  /\ launched \in Launches
  /\ now = 1
  /\ Merger!Init /\ Slam!Init /\ Mesh!Init /\ Bridge!Init

(* The player, which sends what is due.                                    *)
Play ==
  /\ "bag" \in launched
  /\ Len(lidar) < Len(Bag.lidar) /\ Bag.start + Bag.lidar[Len(lidar) + 1] = now
  /\ lidar' = Append(lidar, [stamp |-> Bag.lidar[Len(lidar) + 1], kind |-> "full", of |-> {}])
  /\ UNCHANGED <<launched, now, mergerVars, slamVars, meshVars, bridgeVars>>

(* Time goes by when what is due was played, and no scan waits too long.   *)
Due == \E k \in Len(lidar) + 1 .. Len(Bag.lidar) : Bag.start + Bag.lidar[k] = now

Tick ==
  /\ launched \cap {"bag", "merger"} # {} /\ now < MaxTime
  /\ "bag" \in launched =>
       /\ ~Due
       /\ \A k \in slam.read + 1 .. Len(lidar) : now - (Bag.start + lidar[k].stamp) < MaxDelay
  /\ now' = now + 1
  /\ UNCHANGED <<launched, mergerVars, lidar, slamVars, meshVars, bridgeVars>>

MergerStep ==
  /\ "merger" \in launched /\ Merger!Next
  /\ UNCHANGED <<launched, slamVars, meshVars, bridgeVars>>

SlamStep ==
  /\ "slam" \in launched /\ Slam!Next
  /\ UNCHANGED <<launched, mergerVars, meshVars, bridgeVars>>

MeshStep ==
  /\ "mesh" \in launched /\ Mesh!Next
  /\ UNCHANGED <<launched, now, mergerVars, slam, tf, obstacles, bridgeVars>>

BridgeStep ==
  /\ "bridge" \in launched /\ Bridge!BridgeNext
  /\ UNCHANGED <<launched, now, mergerVars, lidar, slamVars, meshVars>>

Next == Play \/ Tick \/ MergerStep \/ SlamStep \/ MeshStep \/ BridgeStep

(* The timers of the bridge run. *)
Spec ==
  /\ Init /\ [][Next]_vars
  /\ WF_vars("bridge" \in launched /\ Bridge!NodeStep
             /\ UNCHANGED <<launched, now, mergerVars, lidar, slamVars, meshVars>>)

-----------------------------------------------------------------------------
(* No cloud of a LiDAR is merged twice, and all in the order they came in. *)
CloudsOnce == Merger!CloudsOnce

(* Once a pose was sent, the transforms never go back to the identity or   *)
(* to an earlier scan, and the obstacles come with the stamp of the        *)
(* transform sent last.                                                    *)
PoseStays ==
  [][/\ tf.pose > 0 /\ tf.stamp > 0 => tf'.pose >= tf.pose
     /\ slam.last > 0 /\ obstacles' # obstacles => obstacles' = tf.stamp]_vars

(* The trajectory on disk is a whole one, though the signal handler may    *)
(* build while another build writes it.                                    *)
TrajectoryWhole == Mesh!TrajectoryWhole

(* A Pi that does not send is asked again while the bridge runs.           *)
StreamRecovers == Bridge!StreamRecovers

(* The trajectory that was saved: in the map, the robot is where the scan  *)
(* was taken, ten units for a step of the clock.                           *)
Trajectory ==
  LET rows == files.inodes[files.tum]
  IN  Color!load_tum([i \in DOMAIN rows |->
        [t |-> odom[rows[i]].stamp, at |-> 10 * lidar[odom[rows[i]].of].stamp]])

(* How far a time is outside a trajectory.                                 *)
Outside(traj, t) ==
  LET first == traj[1].t
      last == traj[Len(traj)].t
  IN  IF t < first THEN first - t ELSE IF t > last THEN t - last ELSE 0

(* Though the trajectory has the clock of the host and images that of the  *)
(* bag that is played, an image is projected from where the robot was when *)
(* it was taken, up to the delay of the SLAM node and to how far its time  *)
(* is outside the trajectory, which is less than half a second. But all    *)
(* are late if the first pose is not that of the first scan of the bag, by *)
(* as much as the scan of that pose was taken after the first.             *)
ImagesAligned ==
  "bag" \in launched /\ files.tum # 0 =>
    LET traj == Trajectory
        aligned == Color!Aligned(Bag, traj, HalfSecond)
        late == traj[1].at - 10 * Bag.lidar[1]
    IN  \A i \in DOMAIN aligned :
          LET s == Bag.images[i].stamp
              outside == Outside(traj, s + Color!time_offset(Bag, traj))
              reach == 10 * (MaxDelay + outside)
          IN  /\ outside < HalfSecond
              /\ aligned[i] - (10 * s + late) \in -reach .. reach
=============================================================================
