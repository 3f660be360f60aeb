---------------------------- MODULE SearchSpaces ----------------------------
(***************************************************************************)
(* What the tuner may vary (optimizer.py) and how a parameter set becomes  *)
(* a launch file (template_renderer.py). Fractions are in thousandths.     *)
(***************************************************************************)
EXTENDS Integers, Sequences, Functions

FloatRange(low, high, log) == [kind |-> "float", low |-> low, high |-> high, log |-> log]
IntRange(low, high) == [kind |-> "int", low |-> low, high |-> high, log |-> FALSE]
Choice(choices) == [kind |-> "cat", choices |-> choices]

SEARCH_SPACE == [
  icp_voxel_size |-> FloatRange(10, 100, TRUE),
  icp_max_correspondence_distance |-> FloatRange(50, 1000, TRUE),
  icp_iterations |-> IntRange(5, 50),
  icp_outlier_ratio |-> FloatRange(100, 900, FALSE),
  icp_max_translation |-> FloatRange(100, 2000, FALSE),
  icp_point_to_plane_k |-> IntRange(5, 50),
  icp_strategy |-> Choice(<<"0", "1">>),
  odom_scan_keyframe_thr |-> FloatRange(100, 900, FALSE),
  odomf2m_scan_max_size |-> IntRange(5000, 50000),
  odomf2m_scan_subtract_radius |-> FloatRange(5, 200, TRUE),
  icp_odom_correspondence_ratio |-> FloatRange(10, 200, FALSE),
  rgbd_linear_update |-> FloatRange(50, 500, FALSE),
  rgbd_angular_update |-> FloatRange(50, 500, FALSE),
  mem_stm_size |-> IntRange(2, 15),
  icp_map_correspondence_ratio |-> FloatRange(50, 500, FALSE),
  rgbd_proximity_path_max_neighbors |-> IntRange(1, 10)]

SEARCH_SPACE_NEAR_367 == [
  icp_voxel_size |-> FloatRange(30, 80, TRUE),
  icp_max_correspondence_distance |-> FloatRange(60, 200, TRUE),
  icp_iterations |-> IntRange(10, 30),
  icp_outlier_ratio |-> FloatRange(100, 300, FALSE),
  icp_max_translation |-> FloatRange(200, 600, FALSE),
  icp_point_to_plane_k |-> IntRange(15, 40),
  icp_strategy |-> Choice(<<"1">>),
  odom_scan_keyframe_thr |-> FloatRange(600, 900, FALSE),
  odomf2m_scan_max_size |-> IntRange(10000, 30000),
  odomf2m_scan_subtract_radius |-> FloatRange(30, 100, TRUE),
  icp_odom_correspondence_ratio |-> FloatRange(80, 200, FALSE),
  rgbd_linear_update |-> FloatRange(150, 450, FALSE),
  rgbd_angular_update |-> FloatRange(40, 150, FALSE),
  mem_stm_size |-> IntRange(8, 15),
  icp_map_correspondence_ratio |-> FloatRange(70, 200, FALSE),
  rgbd_proximity_path_max_neighbors |-> IntRange(2, 6)]

SEARCH_SPACE_NEAR_22 == [
  icp_voxel_size |-> FloatRange(30, 65, TRUE),
  icp_max_correspondence_distance |-> FloatRange(60, 150, TRUE),
  icp_iterations |-> IntRange(7, 14),
  icp_outlier_ratio |-> FloatRange(80, 200, FALSE),
  icp_max_translation |-> FloatRange(250, 550, FALSE),
  icp_point_to_plane_k |-> IntRange(18, 36),
  icp_strategy |-> Choice(<<"1">>),
  odom_scan_keyframe_thr |-> FloatRange(500, 900, FALSE),
  odomf2m_scan_max_size |-> IntRange(10000, 22000),
  odomf2m_scan_subtract_radius |-> FloatRange(50, 150, TRUE),
  icp_odom_correspondence_ratio |-> FloatRange(100, 220, FALSE),
  rgbd_linear_update |-> FloatRange(280, 600, FALSE),
  rgbd_angular_update |-> FloatRange(40, 100, FALSE),
  mem_stm_size |-> IntRange(7, 13),
  icp_map_correspondence_ratio |-> FloatRange(80, 180, FALSE),
  rgbd_proximity_path_max_neighbors |-> IntRange(2, 7)]

SEARCH_SPACE_NEAR_18 ==
  [SEARCH_SPACE_NEAR_22 EXCEPT
     !.icp_max_correspondence_distance = FloatRange(60, 140, TRUE),
     !.odom_scan_keyframe_thr = FloatRange(500, 950, FALSE),
     !.odomf2m_scan_subtract_radius = FloatRange(60, 150, TRUE),
     !.rgbd_linear_update = FloatRange(300, 600, FALSE)]

(* --search-space *)
Space == [wide |-> SEARCH_SPACE,
          near_367 |-> SEARCH_SPACE_NEAR_367,
          near_22 |-> SEARCH_SPACE_NEAR_22,
          near_18 |-> SEARCH_SPACE_NEAR_18]

(* What Optuna can draw a value from. *)
Suggestable(spec) ==
  IF spec.kind = "cat" THEN spec.choices # <<>>
  ELSE spec.low <= spec.high /\ (spec.log => spec.low > 0)

(* suggest_params: a value for each key of the space; the ends of a range  *)
(* stand for the values in it.                                             *)
suggest_params(space) ==
  LET Low(spec) == IF spec.kind = "cat" THEN Head(spec.choices) ELSE spec.low
      High(spec) == IF spec.kind = "cat" THEN spec.choices[Len(spec.choices)]
                    ELSE spec.high
  IN  {[k \in DOMAIN space |-> Low(space[k])], [k \in DOMAIN space |-> High(space[k])]}

(* Optuna keeps one distribution for a key throughout a study: another     *)
(* kind, another scale or other choices raise ValueError, other bounds do  *)
(* not.                                                                    *)
Compatible(old, new) ==
  \A k \in DOMAIN old \cap DOMAIN new :
    /\ old[k].kind = new[k].kind
    /\ IF old[k].kind = "cat" THEN old[k].choices = new[k].choices
       ELSE old[k].log = new[k].log

(* The keys of DEFAULTS that the spaces leave alone. *)
FixedKeys ==
  {"icp_point_to_plane", "icp_epsilon", "icp_point_to_plane_radius",
   "icp_force_3dof", "icp_force_4dof", "odomf2m_bundle_adjustment",
   "icp_point_to_plane_min_complexity", "rgbd_proximity_max_graph_depth",
   "rgbd_create_occupancy_grid", "mem_not_linked_nodes_kept", "reg_strategy",
   "grid_range_max", "grid_max_ground_height", "grid_max_obstacle_height",
   "grid_min_cluster_size", "grid_normals_segmentation",
   "grid_footprint_height", "grid_cell_size"}

DEFAULTS == FixedKeys \cup DOMAIN SEARCH_SPACE

(* The placeholders of the launch template, which has one for each default. *)
known_keys == DEFAULTS

(* effective_params raises KeyError unless every override has a            *)
(* placeholder and every placeholder an override or a default; what it     *)
(* returns, and render writes, has every placeholder.                      *)
Renderable(overrides) ==
  /\ DOMAIN overrides \subseteq known_keys
  /\ known_keys \subseteq DEFAULTS \cup DOMAIN overrides

(* The hidden best values of the synthetic objective. *)
SYNTHETIC_TARGET == [
  icp_voxel_size |-> 70, icp_max_correspondence_distance |-> 700,
  icp_iterations |-> 20, icp_outlier_ratio |-> 500,
  icp_max_translation |-> 800, icp_point_to_plane_k |-> 15,
  icp_strategy |-> "1", odom_scan_keyframe_thr |-> 450,
  odomf2m_scan_max_size |-> 20000, odomf2m_scan_subtract_radius |-> 50,
  icp_odom_correspondence_ratio |-> 100, rgbd_linear_update |-> 200,
  rgbd_angular_update |-> 200, mem_stm_size |-> 50,
  icp_map_correspondence_ratio |-> 200]

(* The synthetic objective, in ten thousandths: how far the parameters are *)
(* from the target, relative to it. A key without a target does not count. *)
SyntheticScore(params) ==
  LET off(k) == ((params[k] - SYNTHETIC_TARGET[k]) * 100) \div SYNTHETIC_TARGET[k]
      Term(k) == IF k # "icp_strategy" THEN off(k) * off(k)
                 ELSE IF params[k] = SYNTHETIC_TARGET[k] THEN 0 ELSE 10000
  IN  FoldFunction(LAMBDA x, y : x + y, 0,
        [k \in DOMAIN params \cap DOMAIN SYNTHETIC_TARGET |-> Term(k)])

(* Every range of every space can be drawn from, the near spaces vary the  *)
(* keys of the wide one, and every parameter set can be rendered.          *)
ASSUME SpacesSuggestable ==
  \A n \in DOMAIN Space :
    /\ DOMAIN Space[n] = DOMAIN SEARCH_SPACE
    /\ \A k \in DOMAIN Space[n] : Suggestable(Space[n][k])
    /\ \A params \in suggest_params(Space[n]) : Renderable(params)
=============================================================================
