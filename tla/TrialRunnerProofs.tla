-------------------------- MODULE TrialRunnerProofs --------------------------
(***************************************************************************)
(* What TLAPS proves of TrialRunner, for any number of jobs and of runs.   *)
(***************************************************************************)
EXTENDS TrialRunner, TLAPS

(* A job between Popen of a launch and the end of its bag run. *)
LaunchAt == {"addLaunch", "warmup", "addBag", "play", "killBag", "dropBag",
             "drain", "killLaunch", "finally"}
BagAt == {"addBag", "play", "killBag"}
Busy == LaunchAt \cup {"dropDead", "dropLaunch", "dropFinal", "score"}

(* Each job has a run of its own, and the domain it was started in. *)
OwnRun ==
  /\ \A j \in Workers : run[j] <= started
  /\ \A j \in Workers : pc[j] \in Busy => run[j] # 0 /\ used[run[j]] = domain[j]
  /\ \A i, j \in Workers : run[i] = run[j] /\ run[i] # 0 => i = j

(* The lock is held by a job that registers or unregisters a process. *)
LockHeld == \A j \in Workers : lock = j => pc[j] \in Locking

RunInv == TypeOK /\ OwnRun /\ LockHeld

LEMMA RunInit == Init => RunInv
<1> SUFFICES ASSUME Init PROVE RunInv
  OBVIOUS
<1>1. TypeOK
  BY TrialRunnerAssumption DEF Init, TypeOK, Workers, Domains, Runs, Nobody
<1>2. OwnRun
  BY TrialRunnerAssumption DEF Init, OwnRun, Workers, Busy, LaunchAt
<1>3. LockHeld
  BY TrialRunnerAssumption DEF Init, LockHeld, Workers, Nobody
<1> QED
  BY <1>1, <1>2, <1>3 DEF RunInv

(* A job goes on, from where it does not ask for the lock, in the run that *)
(* it has.                                                                 *)
LEMMA GoesOn ==
  ASSUME RunInv, NEW j \in Workers, NEW here, NEW there, At(j, here, there),
         here \notin Locking, there \in Busy => here \in Busy,
         there \in Locking \cup {"idle", "start", "warmup", "play", "killBag", "drain",
                                  "killLaunch", "score", "finally", "put"},
         UNCHANGED <<setup, domainVars, runVars, registry, lock, shutdownVars>>,
         alive' \subseteq Processes
  PROVE  RunInv'
<1>1. /\ pc' = [pc EXCEPT ![j] = there] /\ pc[j] = here
      /\ UNCHANGED <<threaded, limited, pool, domain, run, used, started, registry,
                     lock, main, doomed>>
  BY DEF At, setup, domainVars, runVars, shutdownVars
<1>2. TypeOK'
  BY <1>1 DEF RunInv, TypeOK
<1>3. \A i \in Workers : pc'[i] = IF i = j THEN there ELSE pc[i]
  BY <1>1 DEF RunInv, TypeOK
<1>4. OwnRun'
  <2>1. \A i \in Workers : pc'[i] \in Busy => pc[i] \in Busy
    BY <1>1, <1>3
  <2> QED  BY <1>1, <2>1 DEF RunInv, OwnRun
<1>5. LockHeld'
  <2>1. lock # j
    BY <1>1 DEF RunInv, LockHeld
  <2> QED  BY <1>1, <1>3, <2>1 DEF RunInv, LockHeld
<1> QED  BY <1>2, <1>4, <1>5 DEF RunInv

(* Every step keeps the variables well typed and the runs apart. *)
LEMMA RunStep == RunInv /\ [Next]_vars => RunInv'
<1> SUFFICES ASSUME RunInv, [Next]_vars PROVE RunInv'
  OBVIOUS
<1> USE TrialRunnerAssumption
    DEF RunInv, TypeOK, OwnRun, LockHeld, Workers, Domains, Runs, Nobody,
        Processes, Launch, Bag, Busy, LaunchAt, Locking, At, Enabled,
        setup, domainVars, runVars, shutdownVars
<1>1. ASSUME NEW j \in Workers, Get(j) PROVE RunInv'
  <2>1. TypeOK'
    <3>1. CASE threaded
      <4>1. PICK d \in pool : domain' = [domain EXCEPT ![j] = d] /\ pool' = pool \ {d}
        BY <1>1, <3>1 DEF Get
      <4>2. d \in Domains
        BY <4>1
      <4>3. domain' \in [Workers -> Domains \cup {0}] /\ pool' \subseteq Domains
        BY <4>1, <4>2
      <4> QED
        BY <1>1, <4>3 DEF Get
    <3>2. CASE ~threaded
      BY <1>1, <3>2 DEF Get
    <3> QED
      BY <3>1, <3>2
  <2>2. \A i \in Workers : i # j => domain'[i] = domain[i] /\ pc'[i] = pc[i]
    BY <1>1 DEF Get
  <2>3. pc' = [pc EXCEPT ![j] = "start"] /\ UNCHANGED <<run, used, started, lock>>
    BY <1>1 DEF Get
  <2>4. OwnRun'
    BY <2>2, <2>3
  <2>5. LockHeld'
    BY <1>1, <2>3 DEF Get
  <2> HIDE DEF TypeOK, OwnRun, LockHeld
  <2> QED
    BY <2>1, <2>4, <2>5
<1>2. ASSUME NEW j \in Workers, Put(j) PROVE RunInv'
  <2>1. /\ pc[j] = "put" /\ pc' = [pc EXCEPT ![j] = "idle"]
        /\ domain' = [domain EXCEPT ![j] = 0]
        /\ pool' = pool \cup ({domain[j]} \ {0})
        /\ UNCHANGED <<threaded, limited, run, used, started, alive, registry, lock,
                       main, doomed>>
    BY <1>2 DEF Put
  <2>2. pool' \subseteq Domains
    <3>1. domain[j] \in Domains \cup {0}
      OBVIOUS
    <3> QED  BY <2>1, <3>1
  <2>3. TypeOK'
    BY <2>1, <2>2
  <2>4. \A i \in Workers : i # j => domain'[i] = domain[i] /\ pc'[i] = pc[i]
    BY <2>1
  <2>5. OwnRun'
    BY <2>1, <2>4
  <2>6. LockHeld'
    BY <2>1, <2>4
  <2> HIDE DEF TypeOK, OwnRun, LockHeld
  <2> QED
    BY <2>3, <2>5, <2>6
<1>3. ASSUME NEW j \in Workers, StartLaunch(j) PROVE RunInv'
  <2>1. TypeOK'
    <3>1. /\ started < MaxRuns /\ started' = started + 1
          /\ run' = [run EXCEPT ![j] = started + 1]
          /\ used' = [used EXCEPT ![started + 1] = domain[j]]
          /\ pc' = [pc EXCEPT ![j] = "addLaunch"] /\ alive' = alive \cup {<<started + 1, "launch">>}
          /\ UNCHANGED <<threaded, limited, pool, domain, registry, lock, main, doomed>>
      BY <1>3 DEF StartLaunch
    <3>2. started + 1 \in Runs
      BY <3>1
    <3>3. run' \in [Workers -> Runs \cup {0}] /\ used' \in [Runs -> Domains \cup {0}]
      BY <3>1, <3>2
    <3>4. alive' \subseteq Processes
      BY <3>1, <3>2
    <3> QED  BY <3>1, <3>3, <3>4
  <2>2. /\ started' = started + 1 /\ run' = [run EXCEPT ![j] = started + 1]
        /\ used' = [used EXCEPT ![started + 1] = domain[j]]
        /\ pc[j] = "start" /\ pc' = [pc EXCEPT ![j] = "addLaunch"]
        /\ started + 1 \in Runs /\ UNCHANGED <<domain, lock>>
    BY <1>3 DEF StartLaunch
  <2>3. OwnRun'
    <3>1. ASSUME NEW i \in Workers PROVE run'[i] <= started'
      <4>1. run'[i] = IF i = j THEN started + 1 ELSE run[i]
        BY <2>2
      <4>2. started \in Nat /\ run[i] \in Nat /\ run[i] <= started
        OBVIOUS
      <4> QED
        BY <4>1, <4>2, <2>2
    <3>2. ASSUME NEW i \in Workers, pc'[i] \in Busy
          PROVE  run'[i] # 0 /\ used'[run'[i]] = domain'[i]
      <4>1. CASE i = j
        BY <4>1, <2>2
      <4>2. CASE i # j
        <5>1. pc[i] \in Busy /\ run[i] # started + 1 /\ run[i] \in Runs
          BY <4>2, <2>2, <3>2
        <5> QED
          BY <4>2, <5>1, <2>2
      <4> QED
        BY <4>1, <4>2
    <3>3. \A i, k \in Workers : run'[i] = run'[k] /\ run'[i] # 0 => i = k
      BY <2>2
    <3> QED
      BY <3>1, <3>2, <3>3
  <2>4. LockHeld'
    BY <2>2
  <2> HIDE DEF TypeOK, OwnRun, LockHeld
  <2> QED
    BY <2>1, <2>3, <2>4
<1>4. ASSUME NEW j \in Workers, LastBag(j) PROVE RunInv'
  <2>1. /\ At(j, "start", "put")
        /\ UNCHANGED <<setup, domainVars, runVars, registry, lock, shutdownVars>>
    BY ONLY <1>4 DEF LastBag
  <2>2. alive' \subseteq Processes
    BY <1>4 DEF LastBag
  <2> HIDE DEF RunInv, At, Workers, Processes
  <2> QED  BY <2>1, <2>2, GoesOn
<1>5. ASSUME NEW j \in Workers, Warmup(j) PROVE RunInv'
  <2>1. /\ \E there \in {"dropDead", "addBag", "finally"} : At(j, "warmup", there)
        /\ UNCHANGED <<setup, domainVars, runVars, registry, lock, shutdownVars>>
    BY ONLY <1>5 DEF Warmup
  <2>2. alive' \subseteq Processes
    BY <1>5 DEF Warmup
  <2> HIDE DEF RunInv, At, Workers, Processes
  <2> QED  BY <2>1, <2>2, GoesOn
<1>6. ASSUME NEW j \in Workers, Play(j) PROVE RunInv'
  <2>1. /\ \E there \in {"dropBag", "killBag"} : At(j, "play", there)
        /\ UNCHANGED <<setup, domainVars, runVars, registry, lock, shutdownVars>>
    BY ONLY <1>6 DEF Play
  <2>2. alive' \subseteq Processes
    BY <1>6 DEF Play
  <2> HIDE DEF RunInv, At, Workers, Processes
  <2> QED  BY <2>1, <2>2, GoesOn
<1>7. ASSUME NEW j \in Workers, TerminateBag(j) PROVE RunInv'
  <2>1. /\ At(j, "killBag", "dropBag")
        /\ UNCHANGED <<setup, domainVars, runVars, registry, lock, shutdownVars>>
    BY ONLY <1>7 DEF TerminateBag
  <2>2. alive' \subseteq Processes
    BY <1>7 DEF TerminateBag
  <2> HIDE DEF RunInv, At, Workers, Processes
  <2> QED  BY <2>1, <2>2, GoesOn
<1>8. ASSUME NEW j \in Workers, Drain(j) PROVE RunInv'
  <2>1. /\ At(j, "drain", "killLaunch")
        /\ UNCHANGED <<setup, domainVars, runVars, registry, lock, shutdownVars>>
    BY ONLY <1>8 DEF Drain
  <2>2. alive' \subseteq Processes
    BY <1>8 DEF Drain
  <2> HIDE DEF RunInv, At, Workers, Processes
  <2> QED  BY <2>1, <2>2, GoesOn
<1>9. ASSUME NEW j \in Workers, TerminateLaunch(j) PROVE RunInv'
  <2>1. /\ At(j, "killLaunch", "dropLaunch")
        /\ UNCHANGED <<setup, domainVars, runVars, registry, lock, shutdownVars>>
    BY ONLY <1>9 DEF TerminateLaunch
  <2>2. alive' \subseteq Processes
    BY <1>9 DEF TerminateLaunch
  <2> HIDE DEF RunInv, At, Workers, Processes
  <2> QED  BY <2>1, <2>2, GoesOn
<1>10. ASSUME NEW j \in Workers, Score(j) PROVE RunInv'
  <2>1. /\ \E there \in {"start", "put"} : At(j, "score", there)
        /\ UNCHANGED <<setup, domainVars, runVars, registry, lock, shutdownVars>>
    BY ONLY <1>10 DEF Score
  <2>2. alive' \subseteq Processes
    BY <1>10 DEF Score
  <2> HIDE DEF RunInv, At, Workers, Processes
  <2> QED  BY <2>1, <2>2, GoesOn
<1>11. ASSUME NEW j \in Workers, Finally(j) PROVE RunInv'
  <2>1. /\ \E there \in {"dropFinal", "put"} : At(j, "finally", there)
        /\ UNCHANGED <<setup, domainVars, runVars, registry, lock, shutdownVars>>
    BY ONLY <1>11 DEF Finally
  <2>2. alive' \subseteq Processes
    BY <1>11 DEF Finally
  <2> HIDE DEF RunInv, At, Workers, Processes
  <2> QED  BY <2>1, <2>2, GoesOn
<1>12. ASSUME NEW j \in Workers, Acquire(j) PROVE RunInv'
  BY <1>12 DEF Acquire
<1>13. ASSUME NEW j \in Workers, Release(j) PROVE RunInv'
  BY <1>13 DEF Release, Registered, Following
<1>14. CASE Shutdown \/ Copy \/ Kill \/ Exit \/ Die
  <2>1. UNCHANGED <<threaded, limited, pool, domain, run, used, started, pc, registry, lock>>
    BY <1>14 DEF Shutdown, Copy, Kill, Exit, Die
  <2>2. alive' \subseteq alive /\ doomed' \subseteq doomed \cup registry
    BY <1>14 DEF Shutdown, Copy, Kill, Exit, Die
  <2>3. main' \in {"working", "entered", "killing", "exited"}
    BY <1>14 DEF Shutdown, Copy, Kill, Exit, Die
  <2> QED
    BY <2>1, <2>2, <2>3
<1>15. CASE UNCHANGED vars
  BY <1>15 DEF vars
<1>16. Active \subseteq Workers
  BY DEF Active
<1> QED
  BY <1>1, <1>2, <1>3, <1>4, <1>5, <1>6, <1>7, <1>8, <1>9, <1>10, <1>11,
     <1>12, <1>13, <1>14, <1>15, <1>16
  DEF Next, JobStep, ShutdownStep

(* Every variable keeps its type, the registry and the domains included. *)
THEOREM TypeCorrect == Spec => []TypeOK
<1>1. RunInv => TypeOK
  BY DEF RunInv
<1> QED
  BY RunInit, RunStep, <1>1, PTL DEF Spec

-----------------------------------------------------------------------------
(* A live process is of the run of a job that has not yet dealt with it.   *)
Attended ==
  \A p \in alive : \E j \in Workers :
    \/ p = Launch(j) /\ pc[j] \in LaunchAt
    \/ p = Bag(j) /\ pc[j] \in BagAt

LEMMA AttendedStep == RunInv /\ Attended /\ [Next]_vars => Attended'
<1> SUFFICES ASSUME RunInv, Attended, [Next]_vars,
                    NEW p \in alive'
             PROVE  \E j \in Workers :
                      \/ p = <<run'[j], "launch">> /\ pc'[j] \in LaunchAt
                      \/ p = <<run'[j], "bag">> /\ pc'[j] \in BagAt
  BY DEF Attended, Launch, Bag
<1> USE TrialRunnerAssumption
    DEF RunInv, TypeOK, OwnRun, Workers, Runs, Attended, Launch, Bag,
        Busy, LaunchAt, BagAt, At, setup, domainVars, runVars, shutdownVars
<1>1. ASSUME NEW j \in Workers, Get(j) \/ Put(j) \/ LastBag(j) \/ Score(j)
      PROVE \E i \in Workers :
              \/ p = <<run'[i], "launch">> /\ pc'[i] \in LaunchAt
              \/ p = <<run'[i], "bag">> /\ pc'[i] \in BagAt
  <2>1. /\ pc[j] \notin LaunchAt /\ alive' = alive /\ run' = run
        /\ \A i \in Workers : i # j => pc'[i] = pc[i]
    BY <1>1 DEF Get, Put, LastBag, Score
  <2>2. PICK i \in Workers :
          \/ p = <<run[i], "launch">> /\ pc[i] \in LaunchAt
          \/ p = <<run[i], "bag">> /\ pc[i] \in BagAt
    BY <2>1
  <2>3. i # j
    BY <2>1, <2>2
  <2> QED  BY <2>1, <2>2, <2>3
<1>2. ASSUME NEW j \in Workers, StartLaunch(j)
      PROVE \E i \in Workers :
              \/ p = <<run'[i], "launch">> /\ pc'[i] \in LaunchAt
              \/ p = <<run'[i], "bag">> /\ pc'[i] \in BagAt
  <2>1. CASE p = <<started', "launch">>
    BY <1>2, <2>1 DEF StartLaunch
  <2>2. CASE p \in alive
    BY <1>2, <2>2 DEF StartLaunch
  <2> QED
    BY <1>2, <2>1, <2>2 DEF StartLaunch
<1>3. ASSUME NEW j \in Workers, Warmup(j)
      PROVE \E i \in Workers :
              \/ p = <<run'[i], "launch">> /\ pc'[i] \in LaunchAt
              \/ p = <<run'[i], "bag">> /\ pc'[i] \in BagAt
  <2>1. CASE p \in alive
    <3>1. PICK i \in Workers :
            \/ p = <<run[i], "launch">> /\ pc[i] \in LaunchAt
            \/ p = <<run[i], "bag">> /\ pc[i] \in BagAt
      BY <2>1
    <3>2. CASE i = j
      BY <1>3, <3>1, <3>2 DEF Warmup
    <3>3. CASE i # j
      BY <1>3, <3>1, <3>3 DEF Warmup
    <3> QED
      BY <3>2, <3>3
  <2>2. CASE p \notin alive
    BY <1>3, <2>2 DEF Warmup
  <2> QED
    BY <2>1, <2>2
<1>4. ASSUME NEW j \in Workers, Play(j) \/ Drain(j)
      PROVE \E i \in Workers :
              \/ p = <<run'[i], "launch">> /\ pc'[i] \in LaunchAt
              \/ p = <<run'[i], "bag">> /\ pc'[i] \in BagAt
  <2>1. CASE p \in alive
    <3>1. PICK i \in Workers :
            \/ p = <<run[i], "launch">> /\ pc[i] \in LaunchAt
            \/ p = <<run[i], "bag">> /\ pc[i] \in BagAt
      BY <2>1
    <3>2. CASE i = j
      BY <1>4, <3>1, <3>2 DEF Play, Drain
    <3>3. CASE i # j
      BY <1>4, <3>1, <3>3 DEF Play, Drain
    <3> QED
      BY <3>2, <3>3
  <2>2. CASE p \notin alive
    BY <1>4, <2>2 DEF Play, Drain
  <2> QED
    BY <2>1, <2>2
<1>5. ASSUME NEW j \in Workers, TerminateBag(j) \/ TerminateLaunch(j) \/ Finally(j)
      PROVE \E i \in Workers :
              \/ p = <<run'[i], "launch">> /\ pc'[i] \in LaunchAt
              \/ p = <<run'[i], "bag">> /\ pc'[i] \in BagAt
  <2>1. CASE p \in alive
    <3>1. PICK i \in Workers :
            \/ p = <<run[i], "launch">> /\ pc[i] \in LaunchAt
            \/ p = <<run[i], "bag">> /\ pc[i] \in BagAt
      BY <2>1
    <3>2. CASE i = j
      BY <1>5, <3>1, <3>2 DEF TerminateBag, TerminateLaunch, Finally
    <3>3. CASE i # j
      BY <1>5, <3>1, <3>3 DEF TerminateBag, TerminateLaunch, Finally
    <3> QED
      BY <3>2, <3>3
  <2>2. CASE p \notin alive
    BY <1>5, <2>2 DEF TerminateBag, TerminateLaunch, Finally
  <2> QED
    BY <2>1, <2>2
<1>6. ASSUME NEW j \in Workers, Acquire(j)
      PROVE \E i \in Workers :
              \/ p = <<run'[i], "launch">> /\ pc'[i] \in LaunchAt
              \/ p = <<run'[i], "bag">> /\ pc'[i] \in BagAt
  BY <1>6 DEF Acquire
<1>7. ASSUME NEW j \in Workers, Release(j)
      PROVE \E i \in Workers :
              \/ p = <<run'[i], "launch">> /\ pc'[i] \in LaunchAt
              \/ p = <<run'[i], "bag">> /\ pc'[i] \in BagAt
  BY <1>7 DEF Release, Following, LockHeld, Locking
<1>8. CASE Shutdown \/ Copy \/ Kill \/ Exit \/ Die \/ UNCHANGED vars
  BY <1>8 DEF Shutdown, Copy, Kill, Exit, Die, vars
<1>9. Active \subseteq Workers
  BY DEF Active
<1> QED
  BY <1>1, <1>2, <1>3, <1>4, <1>5, <1>6, <1>7, <1>8, <1>9
  DEF Next, JobStep, ShutdownStep

LEMMA AttendedAlways == Spec => [](RunInv /\ Attended)
<1>1. Init => Attended
  BY DEF Init, Attended
<1> QED
  BY <1>1, RunInit, RunStep, AttendedStep, PTL DEF Spec

-----------------------------------------------------------------------------
(* Run by run: what is in the registry, or on the way there. *)
LEMMA RegisteredEach ==
  LiveRegistered <=>
    \A p \in alive : \/ p \in registry
                     \/ \E j \in Workers : p = Launch(j) /\ pc[j] = "addLaunch"
                     \/ \E j \in Workers : p = Bag(j) /\ pc[j] = "addBag"
BY DEF LiveRegistered, Unregistered

LEMMA RegisteredStep ==
  RunInv /\ Attended /\ LiveRegistered /\ [Next]_vars => LiveRegistered'
<1> DEFINE Known(p) ==
      \/ p \in registry'
      \/ \E j \in Workers : p = <<run'[j], "launch">> /\ pc'[j] = "addLaunch"
      \/ \E j \in Workers : p = <<run'[j], "bag">> /\ pc'[j] = "addBag"
<1> SUFFICES ASSUME RunInv, Attended, LiveRegistered, [Next]_vars,
                    NEW p \in alive'
             PROVE  Known(p)
  BY DEF LiveRegistered, Unregistered, Launch, Bag
<1> USE TrialRunnerAssumption
    DEF RunInv, TypeOK, OwnRun, Workers, Runs, Attended, Launch, Bag,
        Busy, LaunchAt, BagAt, At, setup, domainVars, runVars, shutdownVars
<1>0. p \in alive =>
        \/ p \in registry
        \/ \E j \in Workers : p = Launch(j) /\ pc[j] = "addLaunch"
        \/ \E j \in Workers : p = Bag(j) /\ pc[j] = "addBag"
  BY DEF LiveRegistered, Unregistered
<1>1. ASSUME NEW j \in Workers,
             Get(j) \/ Put(j) \/ LastBag(j) \/ Score(j) \/ Play(j) \/ Drain(j)
      PROVE  Known(p)
  BY <1>0, <1>1 DEF Get, Put, LastBag, Score, Play, Drain
<1>2. ASSUME NEW j \in Workers, StartLaunch(j)
      PROVE  Known(p)
  <2>1. CASE p \in alive
    BY <1>0, <1>2, <2>1 DEF StartLaunch
  <2>2. CASE p = <<started', "launch">>
    BY <1>2, <2>2 DEF StartLaunch
  <2> QED
    BY <1>2, <2>1, <2>2 DEF StartLaunch
<1>3. ASSUME NEW j \in Workers, Warmup(j)
      PROVE  Known(p)
  <2>1. CASE p \in alive
    BY <1>0, <1>3, <2>1 DEF Warmup
  <2>2. CASE p \notin alive
    BY <1>3, <2>2 DEF Warmup
  <2> QED
    BY <2>1, <2>2
<1>4. ASSUME NEW j \in Workers, TerminateBag(j) \/ TerminateLaunch(j) \/ Finally(j)
      PROVE  Known(p)
  BY <1>0, <1>4 DEF TerminateBag, TerminateLaunch, Finally
<1>5. ASSUME NEW j \in Workers, Acquire(j)
      PROVE  Known(p)
  BY <1>0, <1>5 DEF Acquire
<1>6. ASSUME NEW j \in Workers, Release(j)
      PROVE  Known(p)
  <2>1. /\ p \in alive /\ pc[j] \in Locking
        /\ pc' = [pc EXCEPT ![j] = Following(j)] /\ run' = run
        /\ registry' = Registered(j)
    BY <1>6 DEF Release, LockHeld
  <2>2. PICK i \in Workers :
          \/ p = <<run[i], "launch">> /\ pc[i] \in LaunchAt
          \/ p = <<run[i], "bag">> /\ pc[i] \in BagAt
    BY <2>1
  <2>3. CASE i = j
    <3>1. CASE pc[j] = "addLaunch"
      BY <2>1, <2>2, <2>3, <3>1 DEF Registered
    <3>2. CASE pc[j] = "addBag"
      BY <1>0, <2>1, <2>2, <2>3, <3>2 DEF Registered
    <3>3. CASE pc[j] = "dropBag"
      BY <1>0, <2>1, <2>2, <2>3, <3>3 DEF Registered
    <3> QED
      BY <2>1, <2>2, <2>3, <3>1, <3>2, <3>3 DEF Locking
  <2>4. CASE i # j
    <3>1. p # Launch(j) /\ p # Bag(j)
      BY <2>1, <2>2, <2>4 DEF Locking
    <3>2. p \in registry => p \in registry'
      BY <2>1, <3>1 DEF Registered
    <3> QED
      BY <1>0, <2>1, <3>1, <3>2
  <2> QED
    BY <2>3, <2>4
<1>7. CASE Shutdown \/ Copy \/ Kill \/ Exit \/ Die \/ UNCHANGED vars
  BY <1>0, <1>7 DEF Shutdown, Copy, Kill, Exit, Die, vars
<1>8. Active \subseteq Workers
  BY DEF Active
<1> QED
  BY <1>1, <1>2, <1>3, <1>4, <1>5, <1>6, <1>7, <1>8
  DEF Next, JobStep, ShutdownStep

(* No path through run_single_bag loses a live process: it is in           *)
(* _ACTIVE_PROCS, or its registration is under way.                        *)
THEOREM AllRegistered == Spec => []LiveRegistered
<1>1. Init => LiveRegistered
  BY DEF Init, LiveRegistered
<1> QED
  BY <1>1, AttendedAlways, RegisteredStep, PTL DEF Spec

-----------------------------------------------------------------------------
(* No domain is held twice, or held and in the pool, and every job that is *)
(* at work holds one.                                                      *)
DomainsApart ==
  threaded =>
    /\ \A i, j \in Workers : domain[i] = domain[j] /\ domain[i] # 0 => i = j
    /\ \A j \in Workers : domain[j] \notin pool
    /\ \A j \in Workers : pc[j] # "idle" => domain[j] # 0

LEMMA DomainsStep == RunInv /\ DomainsApart /\ [Next]_vars => DomainsApart'
<1> SUFFICES ASSUME RunInv, DomainsApart, [Next]_vars PROVE DomainsApart'
  OBVIOUS
<1> USE TrialRunnerAssumption
    DEF RunInv, TypeOK, Workers, Domains, DomainsApart, At,
        setup, domainVars, runVars, shutdownVars
<1>1. ASSUME NEW j \in Workers, Get(j) PROVE DomainsApart'
  <2>1. CASE threaded
    <3>1. PICK d \in pool : domain' = [domain EXCEPT ![j] = d] /\ pool' = pool \ {d}
      BY <1>1, <2>1 DEF Get
    <3>2. d # 0 /\ \A i \in Workers : domain[i] # d
      BY <2>1, <3>1
    <3>3. threaded' = threaded /\ pc' = [pc EXCEPT ![j] = "start"]
      BY <1>1 DEF Get
    <3>4. \A i \in Workers : domain'[i] = IF i = j THEN d ELSE domain[i]
      BY <3>1
    <3> QED
      BY <2>1, <3>1, <3>2, <3>3, <3>4
  <2>2. CASE ~threaded
    BY <1>1, <2>2 DEF Get
  <2> QED
    BY <2>1, <2>2
<1>2. ASSUME NEW j \in Workers, Put(j) PROVE DomainsApart'
  <2>1. /\ domain' = [domain EXCEPT ![j] = 0] /\ pool' = pool \cup ({domain[j]} \ {0})
        /\ threaded' = threaded /\ pc' = [pc EXCEPT ![j] = "idle"] /\ pc[j] = "put"
    BY <1>2 DEF Put
  <2>2. \A i \in Workers : domain'[i] = IF i = j THEN 0 ELSE domain[i]
    BY <2>1
  <2>3. \A i \in Workers : pc'[i] = IF i = j THEN "idle" ELSE pc[i]
    BY <2>1
  <2> QED
    BY <2>1, <2>2, <2>3
<1>3. ASSUME NEW j \in Workers,
             \/ StartLaunch(j) \/ LastBag(j) \/ Warmup(j) \/ Play(j)
             \/ TerminateBag(j) \/ Drain(j) \/ TerminateLaunch(j)
             \/ Score(j) \/ Finally(j) \/ Acquire(j)
      PROVE  DomainsApart'
  BY <1>3 DEF StartLaunch, LastBag, Warmup, Play, TerminateBag, Drain,
              TerminateLaunch, Score, Finally, Acquire
<1>4. ASSUME NEW j \in Workers, Release(j) PROVE DomainsApart'
  BY <1>4 DEF Release, LockHeld, Locking
<1>5. CASE Shutdown \/ Copy \/ Kill \/ Exit \/ Die \/ UNCHANGED vars
  BY <1>5 DEF Shutdown, Copy, Kill, Exit, Die, vars
<1>6. Active \subseteq Workers
  BY DEF Active
<1> QED
  BY <1>1, <1>2, <1>3, <1>4, <1>5, <1>6 DEF Next, JobStep, ShutdownStep

(* Two live processes in one domain are of the same run. *)
LEMMA SeparateByDomain == RunInv /\ Attended /\ DomainsApart => SeparateDomains
<1> SUFFICES ASSUME RunInv, Attended, DomainsApart, threaded,
                    NEW p \in alive, NEW q \in alive, used[p[1]] = used[q[1]]
             PROVE  p[1] = q[1]
  BY DEF SeparateDomains
<1>1. PICK i \in Workers : p[1] = run[i] /\ pc[i] \in Busy
  BY DEF Attended, Launch, Bag, LaunchAt, BagAt, Busy
<1>2. PICK j \in Workers : q[1] = run[j] /\ pc[j] \in Busy
  BY DEF Attended, Launch, Bag, LaunchAt, BagAt, Busy
<1>3. domain[i] = domain[j] /\ pc[i] # "idle" /\ pc[j] # "idle"
  BY <1>1, <1>2 DEF RunInv, OwnRun, Busy, LaunchAt
<1>4. i = j
  BY <1>3 DEF DomainsApart
<1> QED
  BY <1>1, <1>2, <1>4

(* Whatever way the bag runs of parallel trials end, processes of two runs *)
(* never meet in one ROS domain.                                           *)
THEOREM DomainsSeparate == Spec => []SeparateDomains
<1>1. Init => DomainsApart
  BY TrialRunnerAssumption DEF Init, DomainsApart, Workers, Domains
<1>2. Spec => []DomainsApart
  BY <1>1, AttendedAlways, DomainsStep, PTL DEF Spec
<1> QED
  BY <1>2, AttendedAlways, SeparateByDomain, PTL

-----------------------------------------------------------------------------
(* While the handler kills, every process is on its list or unregistered.  *)
Listed ==
  ~threaded => /\ main = "killing" => alive \subseteq doomed \cup Unregistered
               /\ main = "exited" => alive \subseteq Unregistered

LEMMA ListedStep == LiveRegistered /\ Listed /\ [Next]_vars => Listed'
<1> SUFFICES ASSUME LiveRegistered, Listed, [Next]_vars PROVE Listed'
  OBVIOUS
<1> USE DEF Listed
<1>1. ASSUME NEW j \in Active, JobStep(j) PROVE Listed'
  <2>1. Enabled(j) /\ UNCHANGED <<threaded, main>>
    BY <1>1 DEF JobStep, Get, Put, StartLaunch, LastBag, Warmup, Play,
         TerminateBag, Drain, TerminateLaunch, Score, Finally, Acquire,
         Release, At, setup, shutdownVars
  <2> QED
    BY <2>1 DEF Enabled
<1>2. CASE Shutdown
  BY <1>2 DEF Shutdown, setup
<1>3. CASE Copy
  BY <1>3 DEF Copy, setup, runVars, LiveRegistered, Unregistered, Launch, Bag
<1>4. CASE Kill
  BY <1>4 DEF Kill, setup, runVars, Unregistered, Launch, Bag
<1>5. CASE Exit
  BY <1>5 DEF Exit, setup, runVars, Unregistered, Launch, Bag
<1>6. CASE Die
  BY <1>6 DEF Die, setup, runVars, shutdownVars, Unregistered, Launch, Bag
<1>7. CASE UNCHANGED vars
  BY <1>7 DEF vars, setup, runVars, shutdownVars, Unregistered, Launch, Bag
<1> QED
  BY <1>1, <1>2, <1>3, <1>4, <1>5, <1>6, <1>7 DEF Next, ShutdownStep

(* A sequential study that was shut down leaves at most the process whose  *)
(* registration the signal interrupted.                                    *)
THEOREM FewSurvive == Spec => []OnlyUnregisteredSurvive
<1>1. Init => Listed
  BY DEF Init, Listed
<1>2. Spec => []Listed
  BY <1>1, AllRegistered, ListedStep, PTL DEF Spec
<1>3. Listed => OnlyUnregisteredSurvive
  BY DEF Listed, OnlyUnregisteredSurvive
<1> QED
  BY <1>2, <1>3, PTL
=============================================================================
