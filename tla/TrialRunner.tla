----------------------------- MODULE TrialRunner -----------------------------
(***************************************************************************)
(* The tuner's child processes (trial_runner.py and the objective of       *)
(* optimizer.py): jobs take a ROS domain, run one bag after the other,     *)
(* each with a launch and a bag player in process groups of their own, and *)
(* keep a registry of them for the handler of SIGINT and SIGTERM.          *)
(*                                                                         *)
(* A process group stands and falls with its leader.                       *)
(***************************************************************************)
EXTENDS Naturals

CONSTANTS
  Jobs,     \* n_jobs of a parallel study
  MaxRuns   \* bags run in all

Workers == 1..Jobs
Domains == 1..Jobs
Runs == 1..MaxRuns
Processes == Runs \X {"launch", "bag"}
Nobody == 0

ASSUME TrialRunnerAssumption == Jobs \in Nat \ {0} /\ MaxRuns \in Nat

VARIABLES
  threaded,  \* jobs run in threads of their own, not in the main thread
  limited,   \* --max-bag-duration-s is given
  pool,      \* the domain pool
  domain,    \* the domain each job holds, 0 without a pool
  run,       \* the last run of each job
  used,      \* history: the domain of each run
  started,   \* runs started so far
  pc,        \* where each job is
  alive,     \* processes that are alive
  registry,  \* _ACTIVE_PROCS
  lock,      \* who holds _PROCS_LOCK
  main,      \* where _emergency_shutdown is
  doomed     \* processes it has still to kill

setup == <<threaded, limited>>
domainVars == <<pool, domain>>
runVars == <<run, used, started>>
shutdownVars == <<main, doomed>>
vars == <<setup, domainVars, runVars, pc, alive, registry, lock, shutdownVars>>

(* A sequential study has one job. *)
Active == IF threaded THEN Workers ELSE {1}

Locking == {"addLaunch", "addBag", "dropDead", "dropBag", "dropLaunch",
            "dropFinal"}

TypeOK ==
  /\ threaded \in BOOLEAN /\ limited \in BOOLEAN
  /\ pool \subseteq Domains
  /\ domain \in [Workers -> Domains \cup {0}]
  /\ run \in [Workers -> Runs \cup {0}]
  /\ used \in [Runs -> Domains \cup {0}]
  /\ started \in 0..MaxRuns
  /\ pc \in [Workers -> Locking \cup
              {"idle", "start", "warmup", "play", "killBag", "drain",
               "killLaunch", "score", "finally", "put"}]
  /\ alive \subseteq Processes
  /\ registry \subseteq Processes
  /\ lock \in Workers \cup {Nobody}
  /\ main \in {"working", "entered", "killing", "exited"}
  /\ doomed \subseteq Processes

Init ==
  /\ threaded \in BOOLEAN /\ limited \in BOOLEAN
  /\ pool = IF threaded THEN Domains ELSE {}
  /\ domain = [j \in Workers |-> 0] /\ run = [j \in Workers |-> 0]
  /\ used = [n \in Runs |-> 0] /\ started = 0
  /\ pc = [j \in Workers |-> "idle"]
  /\ alive = {} /\ registry = {} /\ lock = Nobody
  /\ main = "working" /\ doomed = {}

Launch(j) == <<run[j], "launch">>
Bag(j) == <<run[j], "bag">>

(* A handler suspends the main thread, and os._exit ends every thread. *)
Enabled(j) == main = "working" \/ (threaded /\ main # "exited")

At(j, here, there) ==
  /\ Enabled(j) /\ pc[j] = here /\ pc' = [pc EXCEPT ![j] = there]

-----------------------------------------------------------------------------
(* The objective: a domain for every trial, given back however it ends.    *)

Get(j) ==
  /\ At(j, "idle", "start") /\ started < MaxRuns
  /\ IF threaded
     THEN \E d \in pool : /\ domain' = [domain EXCEPT ![j] = d]
                          /\ pool' = pool \ {d}
     ELSE UNCHANGED domainVars
  /\ UNCHANGED <<setup, runVars, alive, registry, lock, shutdownVars>>

Put(j) ==
  /\ At(j, "put", "idle")
  /\ pool' = pool \cup ({domain[j]} \ {0})
  /\ domain' = [domain EXCEPT ![j] = 0]
  /\ UNCHANGED <<setup, runVars, alive, registry, lock, shutdownVars>>

-----------------------------------------------------------------------------
(* run_single_bag, for one bag of the trial after the other.               *)

(* Popen of the launch. *)
StartLaunch(j) ==
  /\ At(j, "start", "addLaunch") /\ started < MaxRuns
  /\ started' = started + 1 /\ run' = [run EXCEPT ![j] = started']
  /\ used' = [used EXCEPT ![started'] = domain[j]]
  /\ alive' = alive \cup {<<started', "launch">>}
  /\ UNCHANGED <<setup, domainVars, registry, lock, shutdownVars>>

(* The trial is over after its last bag, or when a launch fails to start. *)
LastBag(j) ==
  /\ At(j, "start", "put")
  /\ UNCHANGED <<setup, domainVars, runVars, alive, registry, lock,
                 shutdownVars>>

(* Popen of the bag player, unless the launch is dead.  When Popen raises, *)
(* the finally clause is next.                                             *)
Warmup(j) ==
  /\ \/ /\ Launch(j) \notin alive /\ At(j, "warmup", "dropDead")
        /\ UNCHANGED alive
     \/ /\ Launch(j) \in alive /\ At(j, "warmup", "addBag")
        /\ alive' = alive \cup {Bag(j)}
     \/ /\ Launch(j) \in alive /\ At(j, "warmup", "finally")
        /\ UNCHANGED alive
  /\ UNCHANGED <<setup, domainVars, runVars, registry, lock, shutdownVars>>

(* A mutated form: a limit is not waited for. *)
PlayForever(j) ==
  /\ Bag(j) \notin alive /\ At(j, "play", "dropBag")
  /\ UNCHANGED <<setup, domainVars, runVars, alive, registry, lock,
                 shutdownVars>>

Play(j) ==
  /\ \/ Bag(j) \notin alive /\ At(j, "play", "dropBag")
     \/ limited /\ At(j, "play", "killBag")
  /\ UNCHANGED <<setup, domainVars, runVars, alive, registry, lock,
                 shutdownVars>>

(* Signals escalate up to SIGKILL; a dead process is left alone. *)
TerminateBag(j) ==
  /\ At(j, "killBag", "dropBag") /\ alive' = alive \ {Bag(j)}
  /\ UNCHANGED <<setup, domainVars, runVars, registry, lock, shutdownVars>>

(* A mutated form: the launch leaves the registry before it is terminated. *)
DrainDropsFirst(j) ==
  /\ At(j, "drain", "killLaunch") /\ registry' = registry \ {Launch(j)}
  /\ UNCHANGED <<setup, domainVars, runVars, alive, lock, shutdownVars>>

Drain(j) ==
  /\ At(j, "drain", "killLaunch")
  /\ UNCHANGED <<setup, domainVars, runVars, alive, registry, lock,
                 shutdownVars>>

TerminateLaunch(j) ==
  /\ At(j, "killLaunch", "dropLaunch") /\ alive' = alive \ {Launch(j)}
  /\ UNCHANGED <<setup, domainVars, runVars, registry, lock, shutdownVars>>

(* The next bag, or the end of the trial when the scoring raises. *)
Score(j) ==
  /\ At(j, "score", "start") \/ At(j, "score", "put")
  /\ UNCHANGED <<setup, domainVars, runVars, alive, registry, lock,
                 shutdownVars>>

(* A mutated form: an exception leaves the launch to itself. *)
FinallyMissing(j) ==
  /\ At(j, "finally", "put") /\ UNCHANGED alive
  /\ UNCHANGED <<setup, domainVars, runVars, registry, lock, shutdownVars>>

(* A launch that is dead by now stays in the registry. *)
Finally(j) ==
  /\ \/ /\ Launch(j) \in alive /\ At(j, "finally", "dropFinal")
        /\ alive' = alive \ {Launch(j)}
     \/ /\ Launch(j) \notin alive /\ At(j, "finally", "put")
        /\ UNCHANGED alive
  /\ UNCHANGED <<setup, domainVars, runVars, registry, lock, shutdownVars>>

-----------------------------------------------------------------------------
(* _register_proc and _unregister_proc.                                    *)

Acquire(j) ==
  /\ Enabled(j) /\ pc[j] \in Locking /\ lock = Nobody
  /\ lock' = j
  /\ UNCHANGED <<setup, domainVars, runVars, pc, alive, registry,
                 shutdownVars>>

Registered(j) ==
  CASE pc[j] = "addLaunch" -> registry \cup {Launch(j)}
    [] pc[j] = "addBag" -> registry \cup {Bag(j)}
    [] pc[j] = "dropBag" -> registry \ {Bag(j)}
    [] OTHER -> registry \ {Launch(j)}

Following(j) ==
  CASE pc[j] = "addLaunch" -> "warmup"
    [] pc[j] = "addBag" -> "play"
    [] pc[j] = "dropBag" -> "drain"
    [] pc[j] = "dropLaunch" -> "score"
    [] pc[j] = "dropDead" -> "start"
    [] OTHER -> "put"

Release(j) ==
  /\ lock = j /\ lock' = Nobody
  /\ At(j, pc[j], Following(j))
  /\ registry' = Registered(j)
  /\ UNCHANGED <<setup, domainVars, runVars, alive, shutdownVars>>

-----------------------------------------------------------------------------
(* _emergency_shutdown, as a signal handler or at exit; a second signal    *)
(* finds _SHUTDOWN_IN_PROGRESS set and does nothing.                       *)

Shutdown ==
  /\ main = "working" /\ main' = "entered"
  /\ UNCHANGED <<setup, domainVars, runVars, pc, alive, registry, lock,
                 doomed>>

(* A mutated form: bag players are left out. *)
CopyLaunches ==
  /\ main = "entered" /\ lock = Nobody /\ main' = "killing"
  /\ doomed' = registry \cap (Runs \X {"launch"})
  /\ UNCHANGED <<setup, domainVars, runVars, pc, alive, registry, lock>>

Copy ==
  /\ main = "entered" /\ lock = Nobody /\ main' = "killing"
  /\ doomed' = registry
  /\ UNCHANGED <<setup, domainVars, runVars, pc, alive, registry, lock>>

(* A mutated form: the process is asked to end, and waited for. *)
KillPolitely ==
  /\ main = "killing"
  /\ \E p \in doomed \ alive : doomed' = doomed \ {p}
  /\ UNCHANGED <<setup, domainVars, runVars, pc, alive, registry, lock, main>>

Kill ==
  /\ main = "killing"
  /\ \E p \in doomed : alive' = alive \ {p} /\ doomed' = doomed \ {p}
  /\ UNCHANGED <<setup, domainVars, runVars, pc, registry, lock, main>>

Exit ==
  /\ main = "killing" /\ doomed = {} /\ main' = "exited"
  /\ UNCHANGED <<setup, domainVars, runVars, pc, alive, registry, lock,
                 doomed>>

-----------------------------------------------------------------------------
(* Processes end by themselves at any time, or not at all. *)
Die ==
  /\ \E p \in alive : alive' = alive \ {p}
  /\ UNCHANGED <<setup, domainVars, runVars, pc, registry, lock, shutdownVars>>

JobStep(j) ==
  \/ Get(j) \/ Put(j)
  \/ StartLaunch(j) \/ LastBag(j) \/ Warmup(j) \/ Play(j) \/ TerminateBag(j)
  \/ Drain(j) \/ TerminateLaunch(j) \/ Score(j) \/ Finally(j)
  \/ Acquire(j) \/ Release(j)

ShutdownStep == Copy \/ Kill \/ Exit

Next ==
  \/ \E j \in Active : JobStep(j)
  \/ Shutdown \/ ShutdownStep \/ Die

(* Threads run; nothing is assumed of the processes or of signals. *)
Spec ==
  /\ Init /\ [][Next]_vars
  /\ \A j \in Workers : WF_vars(j \in Active /\ JobStep(j))
  /\ WF_vars(ShutdownStep)

-----------------------------------------------------------------------------
(* Properties.                                                             *)

(* Between Popen and the end of _register_proc. *)
Unregistered ==
  {Launch(j) : j \in {i \in Workers : pc[i] = "addLaunch"}} \cup
  {Bag(j) : j \in {i \in Workers : pc[i] = "addBag"}}

(* Every live process is in the registry, or its job is on the way there:  *)
(* no path through run_single_bag, with its early return and its           *)
(* exceptions, drops a process that lives.                                 *)
LiveRegistered == alive \subseteq registry \cup Unregistered

(* Processes of two runs never meet in one ROS domain: whatever way a run  *)
(* ends, its processes are dead before its domain is given back.           *)
SeparateDomains ==
  threaded => \A p, q \in alive : used[p[1]] = used[q[1]] => p[1] = q[1]

(* A sequential study that was shut down leaves at most a process that was *)
(* being registered when the signal came.                                  *)
OnlyUnregisteredSurvive ==
  main = "exited" /\ ~threaded => alive \subseteq Unregistered

(* A shutdown ends, unless the signal interrupts the main thread while it  *)
(* holds the lock of the registry.                                         *)
ShutdownEnds ==
  main = "entered" ~> main = "exited" \/ (~threaded /\ lock # Nobody)

(* With a limit on the duration of a bag every trial ends and gives its    *)
(* domain back, whatever its processes do.                                 *)
TrialsEnd ==
  \A j \in Workers :
    limited /\ pc[j] = "start" ~> pc[j] = "idle" \/ main # "working"

(* "Install SIGINT/SIGTERM handler so force-kill terminates all subprocess *)
(* groups instead of orphaning rtabmap / ros2 bag children."               *)
(* (optimizer.py, main)                                                    *)
ForceKillTerminatesAll == main = "exited" => alive = {}
=============================================================================
