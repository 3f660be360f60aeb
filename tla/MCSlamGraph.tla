----------------------------- MODULE MCSlamGraph -----------------------------
(* SlamGraph for TLC: the sensors, a bag that is played, and the bridge.  *)
EXTENDS SlamGraph, ColorMesh

SomeLaunches == {{"merger", "slam"}, {"bag", "slam", "mesh"}, {"bridge"}}

SomeOptions ==
  {[method |-> "poisson", recorded |-> FALSE, on_shutdown |-> TRUE],
   [method |-> "poisson", recorded |-> TRUE, on_shutdown |-> FALSE],
   [method |-> "nvblox", recorded |-> TRUE, on_shutdown |-> TRUE]}

(* The images come late and one is broken; the first and the last one are  *)
(* outside the trajectory, the last by more than half a second unless the  *)
(* last scan was delayed.                                                  *)
Image(ts, stamp, ok) == [ts |-> ts, stamp |-> stamp, ok |-> ok]

SomeBag ==
  [start |-> 2, lidar |-> <<1, 3>>, stride |-> 1,
   images |-> <<Image(1, 0, TRUE), Image(2, 1, FALSE), Image(2, 2, TRUE),
                Image(6, 5, TRUE)>>]

Data(present, broken) ==
  [type |-> "data", json |-> TRUE, present |-> present, broken |-> broken]

SomeDatagrams ==
  {Data({"temperature"}, "none"), Data({"temperature", "pressure"}, "fix"),
   [type |-> "data", json |-> FALSE, present |-> {}, broken |-> "none"]}
=============================================================================
