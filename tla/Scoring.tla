------------------------------- MODULE Scoring -------------------------------
(***************************************************************************)
(* What a bag run leaves behind and what scoring.py, rank_trials and       *)
(* analyze_per_bag.py make of it. Lengths are in mm, ratios in thousandths.*)
(*                                                                         *)
(* An artefact is what is on disk after a bag was played:                  *)
(*   played  the player ended by itself, with code 0                       *)
(*   db      rtabmap.db exists                                             *)
(*   exports rtabmap-export --poses succeeds: "no", "nothing", "poses"     *)
(*   poses   the trajectory, <<stamp, position along the way, columns>>    *)
(*   ratios  the ratios in launch.log                                      *)
(*   links   the types of the links of the graph                           *)
(*   points, planes, box  the exported cloud: its number of points, the    *)
(*           distances to the planes fitted to them, its bounding box      *)
(***************************************************************************)
EXTENDS Metrics

MIN_N_POSES == 5
MIN_PATH_LENGTH_M == 300
LOOP_CLOSURE_LINK_TYPES == 1..4

Abs(x) == IF x < 0 THEN -x ELSE x
Total(values) ==
  LET sum[n \in 0..Len(values)] == IF n = 0 THEN 0 ELSE sum[n - 1] + values[n]
  IN  sum[Len(values)]
Mean(values) == Total(values) \div Len(values)

mean_icp_ratio_from_log(a) == IF a.ratios = <<>> THEN NoValue ELSE Mean(a.ratios)

loop_closure_count_from_db(a) ==
  Cardinality({i \in DOMAIN a.links : a.links[i] \in LOOP_CLOSURE_LINK_TYPES})

(* A cloud of less than a hundred points, or none, is not measured. *)
HasCloud(a) == a.points >= 100

compute_map_thickness_m(a) ==
  IF HasCloud(a) /\ a.planes # <<>> THEN Median[a.planes] ELSE NoValue

compute_cloud_spatial_extent_m(a) == IF HasCloud(a) THEN a.box ELSE NoValue

(* Lines with less than eight columns are skipped. *)
parse_tum(a) ==
  LET read[n \in 0..Len(a.poses)] ==
        IF n = 0 THEN <<>>
        ELSE IF a.poses[n][3] < 8 THEN read[n - 1] ELSE Append(read[n - 1], a.poses[n])
  IN  read[Len(a.poses)]

(* compute_stats, the four later statistics of score_run included. *)
compute_stats(a) ==
  LET poses == parse_tum(a)
      n == Len(poses)
      drift == IF n = 0 THEN 0 ELSE Abs(poses[n][2] - poses[1][2])
      path == Total([i \in 1..(n - 1) |-> Abs(poses[i + 1][2] - poses[i][2])])
  IN  [n_poses |-> n,
       duration_s |-> IF n = 0 THEN 0 ELSE poses[n][1] - poses[1][1],
       path_length_m |-> path,
       drift_m |-> drift,
       drift_per_path |-> IF path > 0 THEN (drift * 1000) \div path ELSE NoValue,
       mean_icp_ratio |-> mean_icp_ratio_from_log(a),
       loop_closure_count |-> loop_closure_count_from_db(a),
       map_thickness_m |-> compute_map_thickness_m(a),
       cloud_spatial_extent_m |-> compute_cloud_spatial_extent_m(a)]

(* score_run: whatever is missing, or a trajectory too sparse or too short *)
(* to mean anything, is a result without success.                          *)
score_run(a) ==
  LET stats == compute_stats(a)
  IN  IF /\ a.db /\ a.exports = "poses"
         /\ stats.n_poses >= MIN_N_POSES
         /\ stats.path_length_m >= MIN_PATH_LENGTH_M
      THEN [success |-> TRUE, stats |-> stats]
      ELSE [success |-> FALSE]

(* The end of run_single_bag: a bag run that was played and left a         *)
(* database is a success, scored or not.                                   *)
BagRunResult(a) ==
  IF a.played /\ a.db THEN [success |-> TRUE, metrics |-> score_run(a)]
  ELSE [success |-> FALSE]

-----------------------------------------------------------------------------
(* The tools that read the directory of a study. A trial directory maps    *)
(* the directories of its bags to [art, metrics]: the artefact, and whether *)
(* a metrics.json says what it scores.                                     *)

Scoreable(d) == d.art.db /\ score_run(d.art).success
bag_stats(d) == score_run(d.art).stats

(* score_trial scores every database under a trial directory, rank_main    *)
(* (_bag_stats) those without a score in their metrics.json. *)
score_trial(bags) == [b \in DOMAIN bags |-> [bags[b] EXCEPT !.metrics = @ \/ bags[b].art.db]]

(* rank_main: the statistic of each bag that has it. One that is missing   *)
(* is not found by scoring again.                                          *)
RankValues(bags, field) ==
  [b \in {c \in DOMAIN bags : Scoreable(bags[c]) /\ bag_stats(bags[c])[field] # NoValue}
     |-> bag_stats(bags[b])[field]]

(* The trials it ranks: those with a value for as many bags as the trial   *)
(* with the most bag directories has.                                      *)
Ranked(trials, field) ==
  {t \in DOMAIN trials :
     /\ DOMAIN RankValues(trials[t], field) # {}
     /\ \A u \in DOMAIN trials :
          Cardinality(DOMAIN RankValues(trials[t], field)) >= Cardinality(DOMAIN trials[u])}

(* analyze_per_bag.py: the drifts of a trial, from the metrics.json only.  *)
BagDrifts(bags) ==
  [b \in {c \in DOMAIN bags :
            /\ bags[c].metrics /\ Scoreable(bags[c])
            /\ bag_stats(bags[c]).drift_per_path # NoValue}
     |-> bag_stats(bags[b]).drift_per_path]

(* report: the drifts of a trial, aggregated again as the metrics do. *)
Reaggregated(drifts) ==
  LET bags == CHOOSE s \in [1..Cardinality(DOMAIN drifts) -> DOMAIN drifts] :
                \A b \in DOMAIN drifts : \E i \in DOMAIN s : s[i] = b
      values == [i \in DOMAIN bags |-> drifts[bags[i]]]
  IN  [drift_per_path |-> Median[values],
       q75_drift_per_path |-> Quantile(values, 75),
       q90_drift_per_path |-> Quantile(values, 90),
       max_drift_per_path |-> Largest[values]]
=============================================================================
