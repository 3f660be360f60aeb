---------------------------- MODULE MCLidarQueue ----------------------------
(* Instances of LidarQueue for TLC. *)
EXTENDS LidarQueue

CONSTANTS p1, p2, p3, none

ThreePackets == {p1, p2, p3}
=============================================================================
