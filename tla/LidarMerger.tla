----------------------------- MODULE LidarMerger -----------------------------
(***************************************************************************)
(* lidar_merger.py: the clouds of the two LiDARs become one on             *)
(* /livox/lidar. A cloud is [id, kind]; those that are "odd" have fields   *)
(* that do not fit the other cloud's.                                      *)
(***************************************************************************)
EXTENDS Integers, Sequences

CONSTANTS
  MaxClouds    \* bound: clouds of each LiDAR

VARIABLES
  now,      \* the clock
  halves,   \* cloud_1 and cloud_2
  raw,      \* clouds of each LiDAR so far
  lidar     \* what was published on /livox/lidar: [stamp, of, kind]

None == [id |-> 0, kind |-> "none"]

Init ==
  /\ halves = <<None, None>>
  /\ raw = <<0, 0>>
  /\ lidar = <<>>

(* A mutated form: the halves are forgotten only when they were merged. *)
AfterPublishedOnly(pair) ==
  IF pair[1].kind = "full" /\ pair[2].kind = "full" THEN <<None, None>> ELSE pair

(* try_publish always forgets both halves once it has them. *)
After(pair) == IF None \in {pair[1], pair[2]} THEN pair ELSE <<None, None>>

(* What it publishes: nothing if both are empty or they do not fit, else   *)
(* the points of both, or of the one that has any, under a new stamp.      *)
Merged(pair) ==
  LET kinds == {pair[1].kind, pair[2].kind}
  IN  IF None \in {pair[1], pair[2]} \/ kinds = {"empty"} \/ "odd" \in kinds
      THEN <<>>
      ELSE <<[stamp |-> now, kind |-> "full",
              of |-> {<<l, pair[l].id>> : l \in {k \in 1..2 : pair[k].kind = "full"}}]>>

(* cb_cloud_1, cb_cloud_2 *)
cb_cloud(l) ==
  /\ raw[l] < MaxClouds
  /\ raw' = [raw EXCEPT ![l] = @ + 1]
  /\ \E kind \in {"full", "empty", "odd"} :
       LET pair == [halves EXCEPT ![l] = [id |-> raw[l] + 1, kind |-> kind]]
       IN  /\ lidar' = lidar \o Merged(pair)
           /\ halves' = After(pair)
  /\ UNCHANGED now

Next == \E l \in 1..2 : cb_cloud(l)

(* No cloud is merged twice, and those of a LiDAR are merged in the order  *)
(* they came in.                                                           *)
CloudsOnce ==
  \A i, j \in DOMAIN lidar : i < j =>
    \A x \in lidar[i].of, y \in lidar[j].of : x[1] = y[1] => x[2] < y[2]
=============================================================================
