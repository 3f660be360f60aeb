---------------------------- MODULE MCDistribute ----------------------------
(* Instances of Distribute for TLC: a LiDAR before the ready one may never *)
(* start sampling.                                                         *)
EXTENDS Distribute

SecondReady == {2}
AllFormats == {"cloud", "pcl", "imu"}
=============================================================================
