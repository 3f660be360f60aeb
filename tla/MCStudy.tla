------------------------------- MODULE MCStudy -------------------------------
(* Study for TLC: command lines that differ in the      *)
(* search space, the number of metrics and the objective. *)
EXTENDS Study

Option(objective, space, metrics, trials, reps) ==
  [objective |-> objective, space |-> space, metrics |-> metrics,
   trials |-> trials, reps |-> reps]

SomeOptions ==
  {Option("real", "wide", <<"max_drift_per_path">>, 2, 1),
   Option("real", "near_22", <<"max_drift_per_path", "mean_icp_ratio">>, 1, 2),
   Option("synthetic", "near_22", <<"drift_per_path">>, 2, 1)}

SameStems == <<<<"loop">>, <<"loop">>>>

Pose(t, x) == <<t, x, 8>>
Loop(back) == <<Pose(0, 0), Pose(1, 400), Pose(2, 800), Pose(3, 400), <<4, 0, 3>>, Pose(5, back)>>

Artefact(played, poses) ==
  [played |-> played, db |-> TRUE, exports |-> "poses", poses |-> poses,
   ratios |-> <<600, 800>>, links |-> <<0, 1>>, points |-> 100,
   planes |-> <<10, 20>>, box |-> 3000]

(* A loop nearly closed, one that is not, and one whose player did not end *)
(* by itself. *)
SomeArtefacts ==
  [good |-> Artefact(TRUE, Loop(100)), poor |-> Artefact(TRUE, Loop(300)),
   late |-> Artefact(FALSE, Loop(200))]

ByBag == <<{"good", "late"}, {"poor", "late"}>>
=============================================================================
