--------------------------- MODULE MCLidarConfig ---------------------------
(* Instances of LidarConfig for TLC: one LiDAR of the file, two others and *)
(* a device too few.                                                       *)
EXTENDS LidarConfig

TwoOptions == {"data_type", "blind_spot"}
=============================================================================
