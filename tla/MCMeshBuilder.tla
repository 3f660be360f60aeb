---------------------------- MODULE MCMeshBuilder ----------------------------
(* MeshBuilder by itself for TLC: two scans and two poses arrive, and the  *)
(* process is told to exit.                                                *)
EXTENDS MeshBuilder

Poisson == {[method |-> "poisson", recorded |-> FALSE, on_shutdown |-> TRUE]}

Message(k) == [stamp |-> k, of |-> k]

MCInit ==
  /\ odom = <<Message(1), Message(2)>> /\ lidar = <<Message(1), Message(2)>>
  /\ Init

(* The main thread runs on. *)
MCSpec ==
  MCInit /\ [][Next]_<<odom, lidar, taken, poses, scans, stack, node, files>>
  /\ WF_<<odom, lidar, taken, poses, scans, stack, node, files>>(Step)
=============================================================================
