-------------------------------- MODULE Study --------------------------------
(***************************************************************************)
(* The optimizer (optimizer.py, and run_trial of trial_runner.py): what it *)
(* keeps in the Optuna study and in the trial directories of the output    *)
(* root, over runs that are killed, resumed with other options, or         *)
(* disturbed by another process. There is one job at a time (n_jobs = 1).  *)
(***************************************************************************)
EXTENDS Scoring, SearchSpaces

CONSTANTS
  Options,     \* command lines: [objective, space, metrics, trials, reps]
  Stems,       \* the stems of the bags, "foo_1" being <<"foo", 1>>
  Artefacts,   \* what bag runs may leave behind, by name
  Leaves,      \* what a run of each bag may leave
  MaxCrashes,  \* max_consecutive_crashes
  MaxStarts,   \* bound: times the optimizer is started
  MaxFaults    \* bound: kills, and steps of another process on the study

ASSUME StudyAssumption ==
  /\ MaxCrashes \in Nat \ {0}
  /\ MaxStarts \in Nat /\ MaxFaults \in Nat
  /\ Len(Stems) \in Nat \ {0} /\ DOMAIN Stems = 1..Len(Stems)
  /\ \A b \in DOMAIN Stems : Stems[b] \in Seq(STRING \cup Nat)
  /\ \A b \in DOMAIN Stems : Leaves[b] # {} /\ Leaves[b] \subseteq DOMAIN Artefacts
  /\ "nothing" \notin DOMAIN Artefacts
  /\ \A a \in DOMAIN Artefacts :
       /\ Artefacts[a].poses \in Seq(Int \X Int \X Nat)
       /\ Artefacts[a].ratios \in Seq(Nat) /\ Artefacts[a].links \in Seq(Nat)
       /\ Artefacts[a].box \in Nat
  /\ \A o \in Options :
       /\ o.metrics \in Seq(DOMAIN METRICS) /\ o.metrics # <<>>
       /\ o.trials \in Nat /\ o.reps \in Nat \ {0}

VARIABLES
  proc,       \* the optimizer process
  study,      \* the metrics the study was created with, <<>> before that
  rows,       \* its trials
  dirs,       \* the trial directories, by trial number and repetition
  summary,    \* study_summary.json: the trials that count and the best one
  refused,    \* the trials that the last healing had to leave RUNNING
  starts, kills,
  others      \* steps of another process so far

counters == <<starts, kills, others>>
vars == <<proc, study, rows, dirs, summary, refused, counters>>

Unset == [objective |-> "none", space |-> "none", metrics |-> <<>>,
          trials |-> 0, reps |-> 1]

Ended == {"off", "done", "crashed", "aborted", "killed"}
Active == proc.pc \notin Ended

Completed(table) == {n \in DOMAIN table : table[n].state = "COMPLETE"}
CountCompleted == Cardinality(Completed(rows))

Running(table) == {n \in DOMAIN table : table[n].state = "RUNNING"}

(* Every RUNNING trial is marked FAIL, but for those whose update the      *)
(* storage refuses: each is tried once, and any exception is passed over.  *)
FailRunning(table, refusals) ==
  [n \in DOMAIN table |-> IF n \in Running(table) \ refusals
                          THEN [table[n] EXCEPT !.state = "FAIL"] ELSE table[n]]

Heal ==
  /\ refused' \in SUBSET Running(rows)
  /\ rows' = FailRunning(rows, refused')

Goto(label) == proc' = [proc EXCEPT !.pc = label]

(* A process without a run. *)
Gone(label) ==
  [pc |-> label, opt |-> Unset, target |-> 0, before |-> 0, left |-> 0,
   crashes |-> 0, num |-> 0, known |-> 0, results |-> <<>>, values |-> <<>>]

Init ==
  /\ proc = Gone("off")
  /\ study = <<>> /\ rows = <<>>
  /\ dirs = [k \in {} |-> 0]
  /\ summary = [finished |-> 0, best |-> 0]
  /\ refused = {}
  /\ starts = 0 /\ kills = 0 /\ others = 0

-----------------------------------------------------------------------------
(* main *)
Start ==
  /\ ~Active /\ starts < MaxStarts
  /\ \E o \in Options : proc' = [Gone("cleanup") EXCEPT !.opt = o]
  /\ starts' = starts + 1
  /\ UNCHANGED <<summary, study, rows, dirs, refused, kills, others>>

(* A mutated form: the marker is not looked at. *)
CleanupOfEverything ==
  dirs' = [k \in {} |-> dirs[k]]

(* cleanup_orphan_trials: directories without a trial.json go, but for     *)
(* those that rmtree fails on. *)
cleanup_orphan_trials ==
  \E gone \in SUBSET {k \in DOMAIN dirs : ~dirs[k].marked} :
    dirs' = [k \in DOMAIN dirs \ gone |-> dirs[k]]

Cleanup ==
  /\ proc.pc = "cleanup"
  /\ cleanup_orphan_trials
  /\ Goto("open")
  /\ UNCHANGED <<summary, study, rows, refused, counters>>

(* A mutated form: the trials that were completed before do not count. *)
OpenStudyForgetsCompleted ==
  /\ proc.pc = "open"
  /\ study' = IF study = <<>> THEN proc.opt.metrics ELSE study
  /\ Heal
  /\ proc' = [proc EXCEPT !.pc = "loop", !.crashes = 0, !.known = Len(rows),
                          !.target = proc.opt.trials]
  /\ UNCHANGED <<summary, dirs, counters>>

(* A mutated form: stale trials are left alone. *)
OpenStudyWithoutHealing ==
  /\ proc.pc = "open"
  /\ study' = IF study = <<>> THEN proc.opt.metrics ELSE study
  /\ proc' = [proc EXCEPT !.pc = "loop", !.crashes = 0, !.known = Len(rows),
                          !.target = CountCompleted + proc.opt.trials]
  /\ UNCHANGED <<summary, rows, dirs, refused, counters>>

(* run_study: an existing study keeps the metrics it was created with, and *)
(* trials left RUNNING by a process that was killed become FAIL, if the    *)
(* storage takes it. *)
OpenStudy ==
  /\ proc.pc = "open"
  /\ study' = IF study = <<>> THEN proc.opt.metrics ELSE study
  /\ Heal
  /\ proc' = [proc EXCEPT !.pc = "loop", !.crashes = 0,
                          !.known = Len(rows),
                          !.target = CountCompleted + proc.opt.trials]
  /\ UNCHANGED <<summary, dirs, counters>>

(* The loop of _resilient_optimize. *)
Resume ==
  /\ proc.pc = "loop"
  /\ proc' = [proc EXCEPT !.before = CountCompleted,
                          !.left = proc.target - CountCompleted,
                          !.pc = IF CountCompleted >= proc.target
                                    THEN "summary" ELSE "ask"]
  /\ UNCHANGED <<summary, study, rows, dirs, refused, counters>>

(* A new trial: its parameters are suggested, which raises ValueError when *)
(* an earlier trial drew a parameter from other choices. *)
Mixed(opt) ==
  \E n \in DOMAIN rows : rows[n].opt # Unset /\
    ~Compatible(Space[rows[n].opt.space], Space[opt.space])

NewTrial(opt, state) == [state |-> state, opt |-> opt, results |-> <<>>, values |-> <<>>]

Ask ==
  /\ proc.pc = "ask" /\ ~Mixed(proc.opt)
  /\ rows' = Append(rows, NewTrial(proc.opt, "RUNNING"))
  /\ \E params \in suggest_params(Space[proc.opt.space]) :
       proc' = [proc EXCEPT
         !.pc = IF proc.opt.objective = "real" THEN "bag" ELSE "tell",
         !.num = Len(rows) + 1, !.results = <<>>,
         !.values = IF proc.opt.objective = "real" THEN <<>>
                       ELSE <<SyntheticScore(params)>>]
  /\ UNCHANGED <<summary, study, dirs, refused, counters>>

AskMixed ==
  /\ proc.pc = "ask" /\ Mixed(proc.opt)
  /\ rows' = Append(rows, NewTrial(Unset, "FAIL"))
  /\ Goto("recover")
  /\ UNCHANGED <<summary, study, dirs, refused, counters>>

-----------------------------------------------------------------------------
(* run_trial, once for each repetition: bags share no directory, even if   *)
(* they share a stem. *)
Bags == DOMAIN Stems

DirName(b) ==
  LET before == {c \in 1..(b - 1) : Stems[c] = Stems[b]}
  IN  IF before = {} THEN Stems[b] ELSE Append(Stems[b], Cardinality(before))

Rep == (Len(proc.results) \div Len(Stems)) + 1
Bag == (Len(proc.results) % Len(Stems)) + 1
TrialDir == <<proc.num, Rep>>

Untouched == [art |-> "nothing", metrics |-> FALSE]
EmptyDir == [bags |-> [b \in {} |-> Untouched], marked |-> FALSE]

(* The files of the bag directories. *)
Files(bags) ==
  [b \in DOMAIN bags |->
     [art |-> IF bags[b].art = "nothing" THEN [db |-> FALSE]
              ELSE Artefacts[bags[b].art],
      metrics |-> bags[b].metrics]]

Result == [a \in DOMAIN Artefacts |-> BagRunResult(Artefacts[a])]

BeginBag ==
  /\ proc.pc = "bag"
  /\ LET name == DirName(Bag)
         dir == IF TrialDir \in DOMAIN dirs THEN dirs[TrialDir] ELSE EmptyDir
         bags == [b \in DOMAIN dir.bags \cup {name} |->
                    IF b \in DOMAIN dir.bags THEN dir.bags[b] ELSE Untouched]
     IN  dirs' = [k \in DOMAIN dirs \cup {TrialDir} |->
                    IF k = TrialDir THEN [dir EXCEPT !.bags = bags] ELSE dirs[k]]
  /\ Goto("play")
  /\ UNCHANGED <<summary, study, rows, refused, counters>>

(* The bag run ends and is scored if it was played, and result.json is     *)
(* written. *)
BagDirThere ==
  TrialDir \in DOMAIN dirs /\ DirName(Bag) \in DOMAIN dirs[TrialDir].bags

(* A mutated form: a bag run that failed is started again. *)
EndBagRetries ==
  /\ proc.pc = "play" /\ BagDirThere
  /\ \E a \in Leaves[Bag] :
       /\ dirs' = [dirs EXCEPT ![TrialDir].bags[DirName(Bag)] =
                     [art |-> a, metrics |-> Result[a].success]]
       /\ proc' = IF ~Result[a].success THEN [proc EXCEPT !.pc = "bag"]
                  ELSE [proc EXCEPT !.results = Append(@, a),
                          !.pc = IF Bag = Len(Stems) THEN "mark" ELSE "bag"]
  /\ UNCHANGED <<summary, study, rows, refused, counters>>

EndBag ==
  /\ proc.pc = "play" /\ BagDirThere
  /\ \E a \in Leaves[Bag] :
       /\ dirs' = [dirs EXCEPT ![TrialDir].bags[DirName(Bag)] =
                     [art |-> a, metrics |-> Result[a].success]]
       /\ proc' = [proc EXCEPT
            !.results = Append(@, a),
            !.pc = IF Bag = Len(Stems) THEN "mark" ELSE "bag"]
  /\ UNCHANGED <<summary, study, rows, refused, counters>>

(* trial.json, after which the directory is kept. *)
LastDir == <<proc.num, Len(proc.results) \div Len(Stems)>>

WriteMarker ==
  /\ proc.pc = "mark" /\ LastDir \in DOMAIN dirs
  /\ dirs' = [dirs EXCEPT ![LastDir].marked = TRUE]
  /\ Goto(IF Len(proc.results) = proc.opt.reps * Len(Stems) THEN "tell" ELSE "bag")
  /\ UNCHANGED <<summary, study, rows, refused, counters>>

(* The directory is gone: OSError leaves the objective, the trial fails    *)
(* and the process ends; but if the trial was marked FAIL before, Optuna   *)
(* raises ValueError instead. *)
WriteFails ==
  /\ \/ proc.pc = "play" /\ ~BagDirThere
     \/ proc.pc = "mark" /\ LastDir \notin DOMAIN dirs
  /\ IF rows[proc.num].state = "RUNNING"
     THEN rows' = [rows EXCEPT ![proc.num].state = "FAIL"] /\ proc' = Gone("crashed")
     ELSE proc' = [proc EXCEPT !.pc = "recover", !.results = <<>>] /\ UNCHANGED rows
  /\ UNCHANGED <<summary, study, dirs, refused, counters>>

-----------------------------------------------------------------------------
(* The value of a trial for each metric asked for: a synthetic objective   *)
(* has only one. *)
ByRep(results) ==
  [r \in 1..(Len(results) \div Len(Stems)) |->
     [b \in Bags |-> Result[results[((r - 1) * Len(Stems)) + b]]]]

Values(opt, results) ==
  [i \in DOMAIN opt.metrics |-> TrialValue(METRICS[opt.metrics[i]], ByRep(results))]

(* Optuna fails a trial that does not have a value for each direction of   *)
(* the study, and only warns. progress reads the best value, which a study *)
(* of several metrics does not have: the process ends. *)
Tell ==
  LET opt == proc.opt
      values == IF opt.objective = "real" THEN Values(opt, proc.results)
                ELSE proc.values
  IN  /\ proc.pc = "tell" /\ rows[proc.num].state = "RUNNING"
      /\ rows' = [rows EXCEPT ![proc.num] =
           IF Len(values) = Len(study)
           THEN [@ EXCEPT !.state = "COMPLETE", !.values = values,
                          !.results = proc.results]
           ELSE [@ EXCEPT !.state = "FAIL"]]
      /\ proc' = [proc EXCEPT
           !.left = @ - 1, !.results = <<>>, !.values = <<>>,
           !.pc = IF Len(opt.metrics) = 1 /\ Len(study) > 1 THEN "crashed"
                     ELSE IF proc.left = 1 THEN "summary" ELSE "ask"]
      /\ UNCHANGED <<summary, study, dirs, refused, counters>>

(* The trial was marked FAIL by another process: Optuna raises ValueError. *)
TellRefused ==
  /\ proc.pc = "tell" /\ rows[proc.num].state # "RUNNING"
  /\ proc' = [proc EXCEPT !.pc = "recover", !.results = <<>>, !.values = <<>>]
  /\ UNCHANGED <<summary, study, rows, dirs, refused, counters>>

(* A mutated form: one crash too few is tolerated. *)
RecoverOnceLess ==
  LET crashes == IF CountCompleted > proc.before THEN 0 ELSE proc.crashes + 1
  IN  /\ proc.pc = "recover"
      /\ Heal
      /\ proc' = [proc EXCEPT !.crashes = crashes,
           !.pc = IF crashes + 1 >= MaxCrashes THEN "aborted" ELSE "loop"]
      /\ UNCHANGED <<summary, study, dirs, counters>>

(* The except clause of _resilient_optimize. *)
Recover ==
  LET crashes == IF CountCompleted > proc.before THEN 0 ELSE proc.crashes + 1
  IN  /\ proc.pc = "recover"
      /\ Heal
      /\ proc' = [proc EXCEPT !.crashes = crashes,
           !.pc = IF crashes >= MaxCrashes THEN "aborted" ELSE "loop"]
      /\ UNCHANGED <<summary, study, dirs, counters>>

(* write_study_summary: the first of the best trials by the metrics and    *)
(* directions asked for, not those of the study. It reads a value for each *)
(* metric asked for, or the only value of a trial if there is one metric.  *)
Beats(metric, m, n) ==
  \/ Better(METRICS[metric], rows[m].values[1], rows[n].values[1])
  \/ rows[m].values[1] = rows[n].values[1] /\ m <= n

Summarise ==
  LET done == Completed(rows)
      metrics == proc.opt.metrics
  IN  /\ proc.pc = "summary"
      /\ IF done # {} /\ (Len(metrics) > Len(study) \/ (Len(metrics) = 1 /\ Len(study) > 1))
         THEN Goto("crashed") /\ UNCHANGED summary
         ELSE /\ Goto("done")
              /\ summary' = [finished |-> Cardinality(done),
                             best |-> IF done = {} THEN 0
                                      ELSE CHOOSE m \in done : \A n \in done : Beats(metrics[1], m, n)]
      /\ UNCHANGED <<study, rows, dirs, refused, counters>>

(* The process is killed, or its handler ends it: its trial stays RUNNING. *)
Kill ==
  /\ Active /\ kills + others < MaxFaults
  /\ kills' = kills + 1
  /\ proc' = Gone("killed")
  /\ UNCHANGED <<summary, study, rows, dirs, refused, starts, others>>

(* Another optimizer is started on the same output root, or the database   *)
(* is edited, while this one runs: directories without a trial.json go, or *)
(* RUNNING trials are marked FAIL, as far as the storage takes it. *)
Other ==
  /\ kills + others < MaxFaults /\ others' = others + 1
  /\ \/ cleanup_orphan_trials /\ UNCHANGED rows
     \/ /\ \E refusals \in SUBSET Running(rows) : rows' = FailRunning(rows, refusals)
        /\ UNCHANGED dirs
  /\ UNCHANGED <<summary, proc, study, refused, starts, kills>>

(* rank_trials, between runs. *)
Rescore ==
  /\ ~Active
  /\ dirs' = [k \in DOMAIN dirs |-> [dirs[k] EXCEPT !.bags =
       LET scored == score_trial(Files(dirs[k].bags))
       IN  [b \in DOMAIN @ |-> [@[b] EXCEPT !.metrics = scored[b].metrics]]]]
  /\ dirs' # dirs
  /\ UNCHANGED <<summary, proc, study, rows, refused, counters>>

Step ==
  \/ Cleanup \/ OpenStudy \/ Resume \/ Ask \/ AskMixed
  \/ BeginBag \/ EndBag \/ WriteMarker \/ WriteFails
  \/ Tell \/ TellRefused \/ Recover \/ Summarise

Next == Start \/ Step \/ Kill \/ Other \/ Rescore

(* The process runs on; bag runs end (TrialRunner). *)
Spec == Init /\ [][Next]_vars /\ WF_vars(Step)

-----------------------------------------------------------------------------
Labels == {"cleanup", "open", "loop", "ask", "bag", "play", "mark", "tell",
           "recover", "summary"}

(* The trial the process is working on is the last row of the study, one   *)
(* that it has asked for itself; what it removed or marked are directories *)
(* of trials the study knows.                                              *)
TypeOK ==
  /\ proc.pc \in Labels \cup Ended
  /\ proc.crashes \in 0..MaxCrashes
  /\ \A n \in DOMAIN rows : rows[n].state \in {"RUNNING", "COMPLETE", "FAIL"}
  /\ proc.known \in 0..Len(rows)
  /\ proc.pc \in {"bag", "play", "mark", "tell"} => proc.num = Len(rows) /\ proc.num > proc.known
  /\ refused \subseteq DOMAIN rows
  /\ \A k \in DOMAIN dirs : k[1] \in DOMAIN rows
  /\ rows # <<>> => study # <<>>

(* run_study returned, with the metrics of the study: as many new trials   *)
(* as it was asked for are COMPLETE, however often it had to recover. *)
TargetReached ==
  /\ proc.pc \in {"summary", "done"}
  /\ Len(proc.opt.metrics) = Len(study)
  /\ proc.opt.objective = "real" \/ Len(study) = 1
  => Cardinality({n \in Completed(rows) : n > proc.known}) >= proc.opt.trials

(* A trial that was there when the study was opened is RUNNING while the   *)
(* process goes on only if the storage refused its update in the last      *)
(* healing: no other is left whose result nobody will give. *)
StaleRowsHealed ==
  proc.pc \notin Ended \cup {"cleanup", "open"} =>
    \A n \in 1..proc.known : rows[n].state = "RUNNING" => n \in refused

(* A bag run was played and scored. *)
Scored(a) == Result[a].success /\ Result[a].metrics.success

(* The values of a COMPLETE trial can be computed again from its           *)
(* directories, which are all there and marked: crashes, clean-ups and     *)
(* other scorings do not separate the study from what is on disk. (Another *)
(* process may remove what this one is writing.) *)
OnDisk(n, r) ==
  /\ <<n, r>> \in DOMAIN dirs /\ dirs[<<n, r>>].marked
  /\ \A b \in Bags : DirName(b) \in DOMAIN dirs[<<n, r>>].bags

CompletedHasRecord ==
  \A n \in Completed(rows) : rows[n].opt.objective = "real" /\ others = 0 =>
    /\ \A r \in 1..rows[n].opt.reps : OnDisk(n, r)
    /\ rows[n].values = Values(rows[n].opt,
         [i \in DOMAIN rows[n].results |->
            dirs[<<n, ((i - 1) \div Len(Stems)) + 1>>]
              .bags[DirName(((i - 1) % Len(Stems)) + 1)].art])

(* The tools that read the directories agree with the optimizer on a       *)
(* completed trial. No drift they report is above the score of the worst   *)
(* bag, and if no bag failed or closed its loop exactly, report aggregates *)
(* them to the same values. If every bag was scored, rank_trials ranks     *)
(* each of its repetitions.                                                *)
ReadersAgree ==
  LET trials == [k \in DOMAIN dirs |-> Files(dirs[k].bags)]
      ranked == Ranked(trials, "drift_per_path")
  IN  \A n \in Completed(rows) : rows[n].opt.objective = "real" /\ others = 0 =>
        \A r \in 1..rows[n].opt.reps :
          LET runs == ByRep(rows[n].results)[r]
              drifts == BagDrifts(trials[<<n, r>>])
              again == Reaggregated(drifts)
          IN  /\ \A b \in DOMAIN drifts :
                   drifts[b] <= Aggregate(METRICS.max_drift_per_path, runs)
              /\ (\A b \in Bags :
                    runs[b].success /\ runs[b].metrics.success /\ drifts[DirName(b)] # 0)
                  => \A metric \in DOMAIN again : again[metric] = Aggregate(METRICS[metric], runs)
              /\ (\A i \in DOMAIN rows[n].results : Scored(rows[n].results[i]))
                  => <<n, r>> \in ranked

(* When a study is summarised, a trial that differs from another by failed *)
(* bags only does not have a better value, with the metrics whose range    *)
(* the fail value bounds. *)
BoundedMetrics ==
  {"drift_per_path", "max_drift_per_path", "q75_drift_per_path",
   "q90_drift_per_path", "mean_icp_ratio", "loop_closure_count",
   "cloud_spatial_extent_m"}

FailingNeverPays ==
  proc.pc = "summary" => \A m, n \in Completed(rows) :
    /\ rows[m].opt.objective = "real" /\ rows[n].opt.objective = "real"
    /\ rows[m].opt.reps = rows[n].opt.reps
    /\ \A i \in DOMAIN rows[n].results :
         rows[m].results[i] = rows[n].results[i] \/ ~Scored(rows[m].results[i])
    => \A metric \in BoundedMetrics :
         ~Better(METRICS[metric], TrialValue(METRICS[metric], ByRep(rows[m].results)),
                                  TrialValue(METRICS[metric], ByRep(rows[n].results)))

(* The optimizer gives up only if the study was resumed with a search      *)
(* space of other choices, or another process interfered as often as it    *)
(* retries: kills and failed bag runs never make it. *)
AbortsExplained ==
  proc.pc = "aborted" =>
    others >= MaxCrashes \/ \E n \in DOMAIN rows : rows[n].opt = Unset

(* The optimizer ends: no trial is asked for again and again for ever. *)
StudyEnds == Active ~> ~Active
=============================================================================
