----------------------------- MODULE StudyProofs -----------------------------
(***************************************************************************)
(* What TLAPS proves of Study, for any command lines, bags, artefacts,     *)
(* number of starts and of faults.                                         *)
(***************************************************************************)
EXTENDS Study, FiniteSetTheorems, WellFoundedInduction, TLAPS

(* The process has the fields of Gone, and an option of a command line     *)
(* while it runs.                                                          *)
ProcShape ==
  /\ proc = [pc |-> proc.pc, opt |-> proc.opt, target |-> proc.target,
             before |-> proc.before, left |-> proc.left,
             crashes |-> proc.crashes, num |-> proc.num,
             known |-> proc.known, results |-> proc.results,
             values |-> proc.values]
  /\ Active => proc.opt \in Options

(* The trials form a sequence of records. *)
RowsShape ==
  /\ rows \in Seq({rows[n] : n \in DOMAIN rows})
  /\ \A n \in DOMAIN rows :
       rows[n] = [state |-> rows[n].state, opt |-> rows[n].opt,
                  results |-> rows[n].results, values |-> rows[n].values]

(* A function of 1..k is a sequence of its values. *)
LEMMA IsSeq ==
  ASSUME NEW k \in Nat, NEW f, f = [n \in 1..k |-> f[n]]
  PROVE  f \in Seq({f[n] : n \in DOMAIN f}) /\ Len(f) = k
<1> DEFINE S == {f[n] : n \in DOMAIN f}
<1>1. DOMAIN f = 1..k
  OBVIOUS
<1>2. f \in [1..k -> S]
  BY <1>1
<1> HIDE DEF S
<1>3. f \in Seq(S)
  BY <1>2
<1>4. Len(f) = k
  BY <1>1, <1>3
<1> QED
  BY <1>3, <1>4 DEF S

(* What a table with some trials marked FAIL has in common with the table. *)
LEMMA FailRunningKeeps ==
  ASSUME RowsShape, NEW refusals
  PROVE  LET table == FailRunning(rows, refusals)
         IN  /\ table \in Seq({table[n] : n \in DOMAIN table})
             /\ DOMAIN table = DOMAIN rows /\ Len(table) = Len(rows)
             /\ \A n \in DOMAIN rows :
                  /\ table[n] = [state |-> table[n].state, opt |-> rows[n].opt,
                                 results |-> rows[n].results, values |-> rows[n].values]
                  /\ table[n].state = IF rows[n].state = "RUNNING" /\ n \notin refusals
                                      THEN "FAIL" ELSE rows[n].state
<1> DEFINE table == FailRunning(rows, refusals)
<1>1. DOMAIN rows = 1..Len(rows) /\ Len(rows) \in Nat
  BY DEF RowsShape
<1>2. DOMAIN table = DOMAIN rows
  BY DEF FailRunning
<1>3. table = [n \in 1..Len(rows) |-> table[n]]
  BY <1>1 DEF FailRunning
<1>4. table \in Seq({table[n] : n \in DOMAIN table})
  BY <1>1, <1>2, <1>3
<1>5. Len(table) = Len(rows)
  BY <1>1, <1>2, <1>4
<1>6. ASSUME NEW n \in DOMAIN rows
      PROVE  /\ table[n] = [state |-> table[n].state, opt |-> rows[n].opt,
                            results |-> rows[n].results, values |-> rows[n].values]
             /\ table[n].state = IF rows[n].state = "RUNNING" /\ n \notin refusals
                                 THEN "FAIL" ELSE rows[n].state
  BY DEF FailRunning, Running, RowsShape
<1> QED
  BY <1>2, <1>4, <1>5, <1>6

(* A new trial leaves the others as they are. *)
LEMMA AppendKeeps ==
  ASSUME RowsShape, NEW opt, NEW state
  PROVE  LET table == Append(rows, NewTrial(opt, state))
         IN  /\ table \in Seq({table[n] : n \in DOMAIN table})
             /\ Len(table) = Len(rows) + 1 /\ DOMAIN table = 1..(Len(rows) + 1)
             /\ \A n \in DOMAIN rows : table[n] = rows[n]
             /\ table[Len(rows) + 1] = NewTrial(opt, state)
<1> DEFINE S == {rows[n] : n \in DOMAIN rows}
           T == S \cup {NewTrial(opt, state)}
           table == Append(rows, NewTrial(opt, state))
<1>1. rows \in Seq(T) /\ NewTrial(opt, state) \in T
  <2>1. rows \in Seq(S)
    BY DEF RowsShape
  <2> HIDE DEF S
  <2> QED
    BY <2>1
<1> HIDE DEF T
<1>2. /\ table \in Seq(T) /\ Len(table) = Len(rows) + 1
      /\ \A n \in 1..Len(rows) : table[n] = rows[n]
      /\ table[Len(rows) + 1] = NewTrial(opt, state)
      /\ DOMAIN table = 1..(Len(rows) + 1) /\ DOMAIN rows = 1..Len(rows)
  BY <1>1
<1> HIDE DEF table
<1>3. table \in Seq({table[n] : n \in DOMAIN table})
  BY <1>2
<1> QED
  BY <1>2, <1>3 DEF table

-----------------------------------------------------------------------------
(* What a step may do to the trials: add some, and end those that run.     *)
Later ==
  /\ Len(rows) <= Len(rows')
  /\ \A n \in DOMAIN rows :
       /\ n \in DOMAIN rows'
       /\ rows'[n].opt = rows[n].opt
       /\ rows'[n].state = rows[n].state \/ rows[n].state = "RUNNING"

States == {"RUNNING", "COMPLETE", "FAIL"}

RowsInv ==
  /\ RowsShape
  /\ \A n \in DOMAIN rows : rows[n].state \in States

(* The trial the process works on. *)
Working == {"bag", "play", "mark", "tell"}

LEMMA FailRunningLater ==
  ASSUME RowsInv, NEW refusals, rows' = FailRunning(rows, refusals)
  PROVE  RowsInv' /\ Later
<1>1. DOMAIN rows = 1..Len(rows) /\ Len(rows) \in Nat
  BY DEF RowsInv, RowsShape
<1>2. /\ rows' \in Seq({rows'[n] : n \in DOMAIN rows'})
      /\ DOMAIN rows' = DOMAIN rows /\ Len(rows') = Len(rows)
      /\ \A n \in DOMAIN rows :
           /\ rows'[n] = [state |-> rows'[n].state, opt |-> rows[n].opt,
                          results |-> rows[n].results, values |-> rows[n].values]
           /\ rows'[n].state = IF rows[n].state = "RUNNING" /\ n \notin refusals
                               THEN "FAIL" ELSE rows[n].state
  <2>1. RowsShape
    BY DEF RowsInv
  <2> QED
    BY ONLY <2>1, rows' = FailRunning(rows, refusals), FailRunningKeeps
<1>3. \A n \in DOMAIN rows : \A o, r, v, t :
        rows'[n] = [state |-> t, opt |-> o, results |-> r, values |-> v]
        => rows'[n].opt = o /\ rows'[n].results = r /\ rows'[n].values = v
  OBVIOUS
<1>4. RowsShape'
  BY <1>2, <1>3 DEF RowsShape
<1>5. \A n \in DOMAIN rows' : rows'[n].state \in States
  BY <1>2 DEF RowsInv, States
<1>6. Later
  BY <1>1, <1>2, <1>3 DEF Later
<1> QED
  BY <1>4, <1>5, <1>6 DEF RowsInv

LEMMA AppendLater ==
  ASSUME RowsInv, NEW opt, NEW state \in States,
         rows' = Append(rows, NewTrial(opt, state))
  PROVE  RowsInv' /\ Later
<1>1. DOMAIN rows = 1..Len(rows) /\ Len(rows) \in Nat
  BY DEF RowsInv, RowsShape
<1>2. RowsShape
  BY DEF RowsInv
<1>3. /\ rows' \in Seq({rows'[n] : n \in DOMAIN rows'})
      /\ Len(rows') = Len(rows) + 1 /\ DOMAIN rows' = 1..(Len(rows) + 1)
      /\ \A n \in DOMAIN rows : rows'[n] = rows[n]
      /\ rows'[Len(rows) + 1] = NewTrial(opt, state)
  BY <1>2, AppendKeeps
<1>4. \A n \in DOMAIN rows' :
        /\ rows'[n] = [state |-> rows'[n].state, opt |-> rows'[n].opt,
                       results |-> rows'[n].results, values |-> rows'[n].values]
        /\ rows'[n].state \in States
  <2>1. \A n \in DOMAIN rows' : n \in DOMAIN rows \/ n = Len(rows) + 1
    BY <1>1, <1>3
  <2> QED
    BY <2>1, <1>3 DEF RowsInv, RowsShape, NewTrial
<1>5. RowsShape'
  BY <1>3, <1>4 DEF RowsShape
<1>6. Later
  BY <1>1, <1>3, <1>4 DEF Later
<1> QED
  BY <1>3, <1>4, <1>5, <1>6 DEF RowsInv

LEMMA ExceptLater ==
  ASSUME RowsInv, NEW m \in DOMAIN rows, rows[m].state = "RUNNING",
         NEW state \in States, NEW results, NEW values,
         rows' = [rows EXCEPT ![m] = [state |-> state, opt |-> rows[m].opt,
                                      results |-> results, values |-> values]]
  PROVE  RowsInv' /\ Later
<1>1. DOMAIN rows = 1..Len(rows) /\ Len(rows) \in Nat
  BY DEF RowsInv, RowsShape
<1>2. rows \in [1..Len(rows) -> {rows[n] : n \in DOMAIN rows}]
  BY <1>1 DEF RowsInv, RowsShape
<1> DEFINE r == [state |-> state, opt |-> rows[m].opt, results |-> results, values |-> values]
<1>3. /\ rows' \in Seq({rows'[n] : n \in DOMAIN rows'})
      /\ Len(rows') = Len(rows) /\ DOMAIN rows' = DOMAIN rows
      /\ \A n \in DOMAIN rows : rows'[n] = IF n = m THEN r ELSE rows[n]
  <2>1. rows' = [rows EXCEPT ![m] = r]
    OBVIOUS
  <2> HIDE DEF r
  <2>2. /\ DOMAIN rows' = 1..Len(rows)
        /\ \A n \in DOMAIN rows : rows'[n] = IF n = m THEN r ELSE rows[n]
        /\ rows' = [n \in 1..Len(rows) |-> rows'[n]]
    BY <1>1, <1>2, <2>1
  <2>3. rows' \in Seq({rows'[n] : n \in DOMAIN rows'}) /\ Len(rows') = Len(rows)
    <3> DEFINE S == {rows'[n] : n \in DOMAIN rows'}
               k == Len(rows)
    <3>1. k \in Nat /\ rows' \in [1..k -> S]
      BY <1>1, <2>2
    <3> HIDE DEF S, k
    <3>2. rows' \in Seq(S) /\ Len(rows') = k
      BY ONLY <3>1
    <3>3. Len(rows') = Len(rows)
      BY <3>2 DEF k
    <3> QED
      BY <3>2, <3>3 DEF S
  <2> QED
    BY <1>1, <2>2, <2>3
<1>4. ASSUME NEW n \in DOMAIN rows
      PROVE  /\ rows'[n] = [state |-> rows'[n].state, opt |-> rows'[n].opt,
                            results |-> rows'[n].results, values |-> rows'[n].values]
             /\ rows'[n].state \in States /\ rows'[n].opt = rows[n].opt
             /\ rows'[n].state = rows[n].state \/ rows[n].state = "RUNNING"
  BY <1>3 DEF RowsInv, RowsShape
<1>5. RowsShape'
  BY <1>3, <1>4 DEF RowsShape
<1>6. Later
  BY <1>1, <1>3, <1>4 DEF Later
<1> QED
  BY <1>3, <1>4, <1>5, <1>6 DEF RowsInv

(* A record whose state changes keeps its other fields. *)
LEMMA EndTrial ==
  ASSUME RowsShape, NEW m \in DOMAIN rows
  PROVE  [rows EXCEPT ![m].state = "FAIL"] =
         [rows EXCEPT ![m] = [state |-> "FAIL", opt |-> rows[m].opt,
                              results |-> rows[m].results, values |-> rows[m].values]]
<1>1. [rows[m] EXCEPT !.state = "FAIL"] =
        [state |-> "FAIL", opt |-> rows[m].opt,
         results |-> rows[m].results, values |-> rows[m].values]
  BY DEF RowsShape
<1>2. [rows EXCEPT ![m].state = "FAIL"] = [rows EXCEPT ![m] = [rows[m] EXCEPT !.state = "FAIL"]]
  OBVIOUS
<1> QED
  BY <1>1, <1>2

-----------------------------------------------------------------------------
(* Where the process is, and what it knows. *)
ProcInv ==
  /\ ProcShape
  /\ proc.pc \in Labels \cup Ended
  /\ proc.crashes \in Nat /\ (Active => proc.crashes < MaxCrashes)
  /\ proc.crashes <= MaxCrashes
  /\ proc.known \in Nat /\ proc.known <= Len(rows)
  /\ proc.pc \in Working => proc.num = Len(rows) /\ proc.num > proc.known
  /\ others \in Nat

LEMMA ProcStep == ProcInv /\ RowsInv /\ [Next]_vars => ProcInv' /\ RowsInv' /\ Later
<1> SUFFICES ASSUME ProcInv, RowsInv, [Next]_vars
             PROVE  ProcInv' /\ RowsInv' /\ Later
  OBVIOUS
<1>0. DOMAIN rows = 1..Len(rows) /\ Len(rows) \in Nat
  BY DEF RowsInv, RowsShape
<1>a. UNCHANGED rows => RowsInv' /\ Later
  BY <1>0 DEF RowsInv, RowsShape, Later
<1> USE StudyAssumption
    DEF ProcInv, ProcShape, Labels, Ended, Active, Working, Goto, Gone, counters
<1>1. CASE Start
  BY <1>1, <1>0, <1>a DEF Start
<1>2. CASE Cleanup
  BY <1>2, <1>0, <1>a DEF Cleanup
<1>3. CASE OpenStudy
  <2>1. RowsInv' /\ Later /\ Len(rows') = Len(rows)
    BY <1>3, FailRunningLater, FailRunningKeeps DEF OpenStudy, Heal, RowsInv
  <2> QED
    <3>1. ProcShape' /\ proc'.pc = "loop" /\ proc'.crashes = 0 /\ proc'.known = Len(rows)
      BY <1>3 DEF OpenStudy
    <3> QED
      BY <1>3, <1>0, <2>1, <3>1 DEF OpenStudy
<1>4. CASE Resume
  BY <1>4, <1>0, <1>a DEF Resume
<1>5. CASE Ask
  <2>1. RowsInv' /\ Later /\ Len(rows') = Len(rows) + 1
    BY <1>5, AppendLater, AppendKeeps DEF Ask, RowsInv, States
  <2> QED
    <3>1. /\ ProcShape' /\ proc'.pc \in {"bag", "tell"} /\ proc'.num = Len(rows) + 1
          /\ proc'.crashes = proc.crashes /\ proc'.known = proc.known
      BY <1>5 DEF Ask
    <3> QED
      BY <1>5, <1>0, <2>1, <3>1 DEF Ask
<1>6. CASE AskMixed
  <2>1. RowsInv' /\ Later /\ Len(rows') = Len(rows) + 1
    BY <1>6, AppendLater, AppendKeeps DEF AskMixed, RowsInv, States
  <2> QED
    <3>1. /\ ProcShape' /\ proc'.pc = "recover"
          /\ proc'.crashes = proc.crashes /\ proc'.known = proc.known
      BY <1>6 DEF AskMixed
    <3> QED
      BY <1>6, <1>0, <2>1, <3>1 DEF AskMixed
<1>7. CASE BeginBag
  BY <1>7, <1>0, <1>a DEF BeginBag
<1>8. CASE EndBag
  BY <1>8, <1>0, <1>a DEF EndBag
<1>9. CASE WriteMarker
  BY <1>9, <1>0, <1>a DEF WriteMarker
<1>10. CASE WriteFails
  <2>1. proc.num \in DOMAIN rows /\ proc.num = Len(rows)
    BY <1>10, <1>0 DEF WriteFails
  <2>2. CASE rows[proc.num].state = "RUNNING"
    <3>1. rows' = [rows EXCEPT ![proc.num].state = "FAIL"] /\ proc' = Gone("crashed") /\ others' = others
      BY <1>10, <2>2 DEF WriteFails
    <3>2. rows' = [rows EXCEPT ![proc.num] =
                     [state |-> "FAIL", opt |-> rows[proc.num].opt,
                      results |-> rows[proc.num].results, values |-> rows[proc.num].values]]
      BY <2>1, <3>1, EndTrial DEF RowsInv
    <3>3. RowsInv' /\ Later
      BY <2>1, <2>2, <3>2, ExceptLater DEF States
    <3> QED
      BY <1>0, <3>1, <3>3 DEF Later
  <2>3. CASE rows[proc.num].state # "RUNNING"
    <3>1. ProcShape' /\ proc'.pc = "recover" /\ proc'.crashes = proc.crashes /\ proc'.known = proc.known
      BY <1>10, <2>3 DEF WriteFails
    <3>2. UNCHANGED <<rows, others>> /\ Active
      BY <1>10, <2>3 DEF WriteFails
    <3> QED
      BY <1>0, <1>a, <3>1, <3>2
  <2> QED
    BY <2>2, <2>3
<1>11. CASE Tell
  <2>1. /\ proc.num \in DOMAIN rows /\ proc.num = Len(rows)
        /\ rows[proc.num].state = "RUNNING" /\ others' = others /\ Active
    BY <1>11, <1>0 DEF Tell
  <2>2. PICK r :
          /\ rows' = [rows EXCEPT ![proc.num] = r]
          /\ \/ \E values : r = [rows[proc.num] EXCEPT !.state = "COMPLETE", !.values = values,
                                  !.results = proc.results]
             \/ r = [rows[proc.num] EXCEPT !.state = "FAIL"]
    BY <1>11 DEF Tell
  <2>3. \E state \in States : \E results, values :
          r = [state |-> state, opt |-> rows[proc.num].opt,
               results |-> results, values |-> values]
    <3> DEFINE row == rows[proc.num]
    <3>1. row = [state |-> row.state, opt |-> row.opt,
                 results |-> row.results, values |-> row.values]
      BY <2>1 DEF RowsInv, RowsShape
    <3> HIDE DEF row
    <3>2. ASSUME NEW values, NEW results
          PROVE  [row EXCEPT !.state = "COMPLETE", !.values = values, !.results = results]
                   = [state |-> "COMPLETE", opt |-> row.opt,
                      results |-> results, values |-> values]
      <4> DEFINE ended == [row EXCEPT !.state = "COMPLETE"]
                 valued == [ended EXCEPT !.values = values]
      <4>1. ended = [state |-> "COMPLETE", opt |-> row.opt,
                     results |-> row.results, values |-> row.values]
        BY ONLY <3>1
      <4> HIDE DEF ended
      <4>2. valued = [state |-> "COMPLETE", opt |-> row.opt,
                      results |-> row.results, values |-> values]
        BY ONLY <4>1
      <4> HIDE DEF valued
      <4>3. [valued EXCEPT !.results = results]
              = [state |-> "COMPLETE", opt |-> row.opt,
                 results |-> results, values |-> values]
        BY ONLY <4>2
      <4> QED  BY ONLY <4>3 DEF valued, ended
    <3>3. [row EXCEPT !.state = "FAIL"]
            = [state |-> "FAIL", opt |-> row.opt,
               results |-> row.results, values |-> row.values]
      BY ONLY <3>1
    <3>4. "COMPLETE" \in States /\ "FAIL" \in States
      BY DEF States
    <3>5. CASE r = [rows[proc.num] EXCEPT !.state = "FAIL"]
      BY <3>3, <3>4, <3>5 DEF row
    <3>6. CASE \E values : r = [rows[proc.num] EXCEPT !.state = "COMPLETE", !.values = values,
                                                      !.results = proc.results]
      BY <3>2, <3>4, <3>6 DEF row
    <3> QED  BY <2>2, <3>5, <3>6
  <2>4. PICK state \in States : \E results, values :
          rows' = [rows EXCEPT ![proc.num] =
                     [state |-> state, opt |-> rows[proc.num].opt,
                      results |-> results, values |-> values]]
    BY <2>2, <2>3
  <2>5. RowsInv' /\ Later
    BY <2>1, <2>4, ExceptLater
  <2>6. /\ ProcShape' /\ proc'.pc \in {"crashed", "summary", "ask"}
        /\ proc'.crashes = proc.crashes /\ proc'.known = proc.known
    BY <1>11 DEF Tell
  <2>7. Len(rows') \in Nat /\ Len(rows) <= Len(rows')
    BY <2>5 DEF Later, RowsInv, RowsShape
  <2> QED
    BY <1>0, <2>1, <2>5, <2>6, <2>7
<1>12. CASE TellRefused
  BY <1>12, <1>0, <1>a DEF TellRefused
<1>13. CASE Recover
  <2>1. RowsInv' /\ Later /\ Len(rows') = Len(rows)
    BY <1>13, FailRunningLater, FailRunningKeeps DEF Recover, Heal, RowsInv
  <2> QED
    <3>1. /\ ProcShape' /\ proc'.known = proc.known
          /\ proc'.crashes \in {0, proc.crashes + 1}
          /\ proc'.pc = IF proc'.crashes >= MaxCrashes THEN "aborted" ELSE "loop"
      BY <1>13 DEF Recover
    <3> QED
      BY <1>13, <1>0, <2>1, <3>1 DEF Recover
<1>14. CASE Summarise
  BY <1>14, <1>0, <1>a DEF Summarise
<1>15. CASE Kill
  BY <1>15, <1>0, <1>a DEF Kill
<1>16. CASE Other
  <2>1. RowsInv' /\ Later /\ Len(rows') = Len(rows)
    BY <1>16, <1>a, FailRunningLater, FailRunningKeeps DEF Other, RowsInv
  <2> QED
    BY <1>16, <1>0, <2>1 DEF Other
<1>17. CASE Rescore
  BY <1>17, <1>0, <1>a DEF Rescore
<1>18. CASE UNCHANGED vars
  BY <1>18, <1>0, <1>a DEF vars
<1> QED
  BY <1>1, <1>2, <1>3, <1>4, <1>5, <1>6, <1>7, <1>8, <1>9, <1>10, <1>11,
     <1>12, <1>13, <1>14, <1>15, <1>16, <1>17, <1>18 DEF Next, Step

LEMMA StudyInit == Init => ProcInv /\ RowsInv
<1> SUFFICES ASSUME Init PROVE ProcInv /\ RowsInv
  OBVIOUS
<1> USE StudyAssumption DEF Init
<1>1. rows = <<>> /\ DOMAIN rows = {} /\ Len(rows) = 0
  OBVIOUS
<1>2. RowsInv
  <2> DEFINE S == {rows[n] : n \in DOMAIN rows}
  <2>1. rows \in Seq(S)
    BY <1>1
  <2> QED
    BY <1>1, <2>1 DEF RowsInv, RowsShape
<1>3. ProcInv
  BY <1>1 DEF ProcInv, ProcShape, Gone, Active, Ended, Labels, Working
<1> QED
  BY <1>2, <1>3

LEMMA ProcAlways == Spec => [](ProcInv /\ RowsInv)
BY StudyInit, ProcStep, PTL DEF Spec

-----------------------------------------------------------------------------
(* Directories are of trials the study knows, and a study that has trials, *)
(* or is worked on, has metrics.                                           *)
DirsInv ==
  /\ \A k \in DOMAIN dirs : k[1] \in DOMAIN rows
  /\ rows # <<>> => study # <<>>
  /\ Active /\ proc.pc \notin {"cleanup", "open"} => study # <<>>

(* The steps that add nothing to the directories. *)
LEMMA SmallerDirs ==
  ASSUME DirsInv, Later, DOMAIN dirs' \subseteq DOMAIN dirs
  PROVE  \A k \in DOMAIN dirs' : k[1] \in DOMAIN rows'
BY DEF DirsInv, Later

LEMMA DirsStep ==
  ProcInv /\ RowsInv /\ DirsInv /\ [Next]_vars => DirsInv'
<1> SUFFICES ASSUME ProcInv, RowsInv, DirsInv, [Next]_vars
             PROVE  DirsInv'
  OBVIOUS
<1>0. Later
  BY ProcStep
<1>1. \A k \in DOMAIN dirs' : k[1] \in DOMAIN rows'
  <2>1. CASE BeginBag
    <3>1. DOMAIN dirs' = DOMAIN dirs \cup {TrialDir} /\ rows' = rows
      BY <2>1 DEF BeginBag
    <3>2. TrialDir[1] \in DOMAIN rows
      BY <2>1 DEF BeginBag, TrialDir, ProcInv, Working, RowsInv, RowsShape
    <3> QED
      BY <3>1, <3>2 DEF DirsInv
  <2>2. CASE ~BeginBag
    <3>1. DOMAIN dirs' \subseteq DOMAIN dirs
      BY <2>2 DEF Next, Step, Start, Cleanup, cleanup_orphan_trials, OpenStudy, Resume,
           Ask, AskMixed, EndBag, WriteMarker, WriteFails, Tell, TellRefused, Recover,
           Summarise, Kill, Other, Rescore, vars
    <3> QED
      BY <1>0, <3>1, SmallerDirs
  <2> QED
    BY <2>1, <2>2
<1> USE DEF DirsInv, Active, Ended
<1>2. CASE OpenStudy
  <2>1. proc.opt \in Options /\ proc.opt.metrics # <<>>
    BY <1>2, StudyAssumption DEF OpenStudy, ProcInv, ProcShape
  <2>2. study' # <<>>
    BY <1>2, <2>1 DEF OpenStudy
  <2> QED
    BY <1>1, <2>2
<1>3. CASE Start \/ Cleanup
  BY <1>1, <1>3 DEF Start, Cleanup, Goto, Gone, ProcInv, ProcShape, counters
<1>4. CASE Kill \/ Other \/ Rescore \/ UNCHANGED vars
  <2>1. CASE Kill
    BY <1>1, <2>1 DEF Kill, Gone
  <2>2. CASE Other
    <3>1. proc' = proc /\ study' = study
          /\ (rows' = rows \/ \E some : rows' = FailRunning(rows, some))
      BY <2>2 DEF Other
    <3>2. rows' # <<>> => rows # <<>>
      <4>1. CASE \E some : rows' = FailRunning(rows, some)
        <5>1. PICK some : rows' = FailRunning(rows, some)
          BY <4>1
        <5>2. RowsShape
          BY DEF RowsInv
        <5>3. DOMAIN rows' = DOMAIN rows
          BY ONLY <5>1, <5>2, FailRunningKeeps
        <5>4. rows = <<>> <=> DOMAIN rows = {}
          BY <5>2 DEF RowsShape
        <5>5. rows' # <<>> => DOMAIN rows' # {}
          BY <5>1, <5>2, <5>3, FailRunningKeeps
        <5> QED
          BY <5>3, <5>4, <5>5
      <4> QED
        BY <3>1, <4>1
    <3> QED
      BY <1>1, <3>1, <3>2
  <2>3. CASE Rescore \/ UNCHANGED vars
    BY <1>1, <2>3 DEF Rescore, vars, counters
  <2> QED
    BY <1>4, <2>1, <2>2, <2>3
<1>5. CASE Step /\ ~OpenStudy /\ ~Cleanup
  <2>1. study' = study /\ Active /\ proc.pc \notin {"cleanup", "open"}
    BY <1>5 DEF Step, Resume, Ask, AskMixed, BeginBag, EndBag, WriteMarker, WriteFails,
         Tell, TellRefused, Recover, Summarise
  <2> QED
    BY <1>1, <2>1
<1> QED
  BY <1>2, <1>3, <1>4, <1>5 DEF Next, Step

(* A healing either is this one, or leaves refused alone.                  *)
LEMMA RefusedKept ==
  ASSUME [Next]_vars, ~OpenStudy, ~Recover
  PROVE  refused' = refused
BY DEF Next, Step, Start, Cleanup, Resume, Ask, AskMixed, BeginBag, EndBag, WriteMarker,
       WriteFails, Tell, TellRefused, Summarise, Kill, Other, Rescore, vars

RefusedInv == refused \subseteq DOMAIN rows

LEMMA RefusedStep ==
  ProcInv /\ RowsInv /\ RefusedInv /\ [Next]_vars => RefusedInv'
<1> SUFFICES ASSUME ProcInv, RowsInv, RefusedInv, [Next]_vars
             PROVE  RefusedInv'
  OBVIOUS
<1>1. DOMAIN rows \subseteq DOMAIN rows'
  BY ProcStep DEF Later
<1>2. refused' = refused \/ refused' \subseteq DOMAIN rows
  BY RefusedKept DEF OpenStudy, Recover, Heal, Running
<1> QED
  BY <1>1, <1>2 DEF RefusedInv

(* Labels, counters and the trial numbers of rows and directories fit      *)
(* together, however the optimizer was killed, resumed or disturbed.       *)
THEOREM TypeCorrect == Spec => []TypeOK
<1>1. Init => DirsInv /\ RefusedInv
  BY DEF Init, DirsInv, RefusedInv, Gone, Active, Ended
<1>2. ProcInv /\ RowsInv /\ DirsInv /\ RefusedInv => TypeOK
  BY StudyAssumption
  DEF ProcInv, RowsInv, RowsShape, DirsInv, RefusedInv, TypeOK, States, Working
<1> QED
  BY <1>1, <1>2, ProcAlways, DirsStep, RefusedStep, PTL DEF Spec

-----------------------------------------------------------------------------
(* Of the trials that are there, a healing leaves RUNNING those that the   *)
(* storage refused to mark, and those that end later stay ended.           *)
LEMMA HealMarks ==
  ASSUME RowsShape, Heal
  PROVE  \A n \in DOMAIN rows : rows'[n].state = "RUNNING" => n \in refused'
BY FailRunningKeeps DEF Heal

LEMMA HealedStep ==
  ProcInv /\ RowsInv /\ StaleRowsHealed /\ [Next]_vars => StaleRowsHealed'
<1> SUFFICES ASSUME ProcInv, RowsInv, StaleRowsHealed, [Next]_vars
             PROVE  StaleRowsHealed'
  OBVIOUS
<1>0. DOMAIN rows = 1..Len(rows) /\ Len(rows) \in Nat /\ Later /\ ProcInv' /\ RowsInv'
  BY ProcStep DEF RowsInv, RowsShape
<1> USE DEF StaleRowsHealed, Ended
<1>1. CASE OpenStudy
  <2>1. \A n \in DOMAIN rows : rows'[n].state = "RUNNING" => n \in refused'
    BY <1>1, HealMarks DEF OpenStudy, RowsInv
  <2>2. proc'.known = Len(rows)
    BY <1>1 DEF OpenStudy, ProcInv, ProcShape
  <2> QED
    BY <1>0, <2>1, <2>2
<1>2. CASE Start \/ Cleanup \/ Kill
  BY <1>2 DEF Start, Cleanup, Kill, Gone, Goto, ProcInv, ProcShape
<1>3. CASE Other \/ Rescore \/ UNCHANGED vars
  <2>1. proc' = proc /\ refused' = refused
    BY <1>3 DEF Other, Rescore, vars
  <2>2. \A n \in 1..proc.known : n \in DOMAIN rows /\
          (rows[n].state # "RUNNING" => rows'[n].state # "RUNNING")
    BY <1>0 DEF Later, ProcInv
  <2> QED
    BY <2>1, <2>2
<1>4. CASE Recover
  <2>1. /\ proc'.known = proc.known
        /\ \A n \in DOMAIN rows : rows'[n].state = "RUNNING" => n \in refused'
    BY <1>4, HealMarks DEF Recover, RowsInv, ProcInv, ProcShape
  <2> QED
    BY <1>0, <2>1 DEF ProcInv
<1>5. CASE Step /\ ~OpenStudy /\ ~Cleanup /\ ~Recover
  <2>1. proc.pc \notin Ended \cup {"cleanup", "open"}
    BY <1>5 DEF Step, Resume, Ask, AskMixed, BeginBag, EndBag, WriteMarker, WriteFails,
         Tell, TellRefused, Summarise
  <2>2. proc'.known = proc.known \/ proc'.pc \in Ended
    <3> USE DEF ProcInv, ProcShape, Goto, Gone
    <3>1. CASE Resume \/ Summarise
      BY <3>1 DEF Resume, Summarise
    <3>2. CASE Ask \/ AskMixed
      BY <3>2 DEF Ask, AskMixed
    <3>3. CASE BeginBag \/ EndBag \/ WriteMarker
      BY <3>3 DEF BeginBag, EndBag, WriteMarker
    <3>4. CASE WriteFails
      <4>1. proc' = Gone("crashed") \/ proc' = [proc EXCEPT !.pc = "recover", !.results = <<>>]
        BY <3>4 DEF WriteFails
      <4>2. CASE proc' = Gone("crashed")
        BY <4>2
      <4>3. CASE proc' = [proc EXCEPT !.pc = "recover", !.results = <<>>]
        <5>1. proc'.known = proc.known
          BY <4>3
        <5> QED
          BY <5>1
      <4> QED
        BY <4>1, <4>2, <4>3
    <3>5. CASE Tell
      BY <3>5 DEF Tell
    <3>6. CASE TellRefused
      BY <3>6 DEF TellRefused
    <3> QED
      BY <1>5, <3>1, <3>2, <3>3, <3>4, <3>5, <3>6 DEF Step
  <2>3. \A n \in 1..proc.known : n \in DOMAIN rows /\
          (rows[n].state # "RUNNING" => rows'[n].state # "RUNNING")
    BY <1>0 DEF Later, ProcInv
  <2>4. refused' = refused
    BY <1>5, RefusedKept
  <2> QED
    BY <2>1, <2>2, <2>3, <2>4
<1> QED
  BY <1>1, <1>2, <1>3, <1>4, <1>5 DEF Next, Step

(* A trial that was there when the study was opened is RUNNING while the   *)
(* optimizer works only if the storage refused to have it marked when that *)
(* was last tried.                                                         *)
THEOREM Healed == Spec => []StaleRowsHealed
<1>1. Init => StaleRowsHealed
  BY DEF Init, StaleRowsHealed, Gone, Ended
<1> QED
  BY <1>1, ProcAlways, HealedStep, PTL DEF Spec

-----------------------------------------------------------------------------
(* Every crash that is counted, and the one that is due, was caused by a   *)
(* step of another process, unless a trial could not be sampled.           *)
Unfit == \E n \in DOMAIN rows : rows[n].opt = Unset

Due == proc.pc = "recover" \/ (proc.pc \in Working /\ rows[proc.num].state # "RUNNING")

Debt ==
  \/ Unfit
  \/ /\ Active => proc.crashes + (IF Due THEN 1 ELSE 0) <= others
     /\ proc.pc = "aborted" => MaxCrashes <= others

LEMMA DebtStep == ProcInv /\ RowsInv /\ Debt /\ [Next]_vars => Debt'
<1> SUFFICES ASSUME ProcInv, RowsInv, Debt, [Next]_vars
             PROVE  Debt'
  OBVIOUS
<1>0. DOMAIN rows = 1..Len(rows) /\ Len(rows) \in Nat /\ Later /\ ProcInv' /\ RowsInv'
  BY ProcStep DEF RowsInv, RowsShape
<1>1. CASE Unfit
  BY <1>0, <1>1 DEF Unfit, Later, Debt
<1> SUFFICES ASSUME ~Unfit PROVE Debt'
  BY <1>1
<1> USE StudyAssumption
    DEF Debt, Due, Active, Ended, ProcInv, ProcShape, Working, Goto, Gone, counters
<1>2. CASE Start \/ Cleanup \/ OpenStudy \/ Kill
  <2>1. CASE Start
    BY <2>1 DEF Start
  <2>2. CASE Cleanup
    BY <2>2 DEF Cleanup
  <2>3. CASE OpenStudy
    <3>1. proc.pc = "open" /\ proc'.pc = "loop" /\ proc'.crashes = 0 /\ others' = others
      BY <2>3 DEF OpenStudy
    <3> QED
      BY <3>1
  <2>4. CASE Kill
    BY <2>4 DEF Kill
  <2> QED
    BY <1>2, <2>1, <2>2, <2>3, <2>4
<1>3. CASE Resume \/ Summarise \/ Rescore \/ UNCHANGED vars
  BY <1>3 DEF Resume, Summarise, Rescore, vars
<1>4. CASE Ask
  <2>1. /\ proc'.pc \in {"bag", "tell"} /\ proc'.num = Len(rows) + 1
        /\ proc'.crashes = proc.crashes /\ others' = others
    BY <1>4 DEF Ask
  <2>2. rows'[Len(rows) + 1].state = "RUNNING"
    BY <1>4, AppendKeeps DEF Ask, RowsInv, NewTrial
  <2>3. proc.pc = "ask"
    BY <1>4 DEF Ask
  <2> QED
    BY <2>1, <2>2, <2>3
<1>5. CASE AskMixed
  <2>1. rows'[Len(rows) + 1].opt = Unset /\ Len(rows) + 1 \in DOMAIN rows'
    BY <1>0, <1>5, AppendKeeps DEF AskMixed, RowsInv, NewTrial
  <2> QED
    BY <2>1 DEF Unfit
<1>6. CASE BeginBag \/ EndBag \/ WriteMarker
  <2>1. /\ proc.pc \in Working /\ proc'.pc \in Working
        /\ proc'.num = proc.num /\ proc'.crashes = proc.crashes
        /\ rows' = rows /\ others' = others
    BY <1>6 DEF BeginBag, EndBag, WriteMarker
  <2> QED
    BY <2>1
<1>7. CASE WriteFails \/ TellRefused
  <2>1. CASE proc'.pc = "crashed"
    BY <2>1
  <2>2. CASE proc'.pc # "crashed"
    <3>1. /\ proc.pc \in Working /\ rows[proc.num].state # "RUNNING"
          /\ proc'.pc = "recover" /\ proc'.crashes = proc.crashes
          /\ rows' = rows /\ others' = others
      <4>1. CASE WriteFails
        <5>1. rows[proc.num].state # "RUNNING"
          BY <2>2, <4>1 DEF WriteFails
        <5> QED
          BY <4>1, <5>1 DEF WriteFails
      <4>2. CASE TellRefused
        BY <4>2 DEF TellRefused
      <4> QED
        BY <1>7, <4>1, <4>2
    <3> QED
      BY <3>1
  <2> QED
    BY <2>1, <2>2
<1>8. CASE Tell
  <2>1. /\ proc.pc = "tell" /\ proc'.pc \in {"crashed", "summary", "ask"}
        /\ proc'.crashes = proc.crashes /\ others' = others
    BY <1>8 DEF Tell
  <2> QED
    BY <2>1
<1>9. CASE Recover
  <2>1. /\ proc.pc = "recover" /\ others' = others
        /\ proc'.crashes \in {0, proc.crashes + 1}
        /\ proc'.pc = IF proc'.crashes >= MaxCrashes THEN "aborted" ELSE "loop"
    BY <1>9 DEF Recover
  <2> QED
    BY <2>1
<1>10. CASE Other
  <2>1. proc' = proc /\ others' = others + 1
    BY <1>10 DEF Other
  <2>2. CASE Due
    BY <2>1, <2>2
  <2>3. CASE ~Due
    BY <2>1, <2>3
  <2> QED
    BY <2>2, <2>3
<1> QED
  BY <1>2, <1>3, <1>4, <1>5, <1>6, <1>7, <1>8, <1>9, <1>10 DEF Next, Step

(* The optimizer gives up only after a resume with a search space of other *)
(* choices, or as many steps of another process as it tolerates crashes.   *)
THEOREM AbortsForAReason == Spec => []AbortsExplained
<1>1. Init => Debt
  BY DEF Init, Debt, Gone, Active, Ended
<1>2. ProcInv /\ Debt => AbortsExplained
  BY StudyAssumption DEF Debt, Unfit, AbortsExplained, ProcInv
<1> QED
  BY <1>1, <1>2, ProcAlways, DebtStep, PTL DEF Spec

-----------------------------------------------------------------------------
(* The completed trials of before the study was opened, and since then.    *)
OldOnes == {n \in Completed(rows) : n <= proc.known}
NewOnes == {n \in Completed(rows) : n > proc.known}

(* A trial that is told gets a value for each metric of the study.         *)
Fits ==
  /\ Len(proc.opt.metrics) = Len(study)
  /\ proc.opt.objective = "real" \/ Len(study) = 1

Looping == {"loop", "ask", "recover", "summary"} \cup Working

(* The target stands for the trials asked for on top of the old ones, and  *)
(* what is left of a call of optimize for those that are missing.          *)
Goal ==
  /\ proc.pc \in Working /\ proc.opt.objective # "real" => Len(proc.values) = 1
  /\ Fits =>
       /\ proc.pc \in Looping =>
            proc.target = Cardinality(OldOnes) + proc.opt.trials
       /\ proc.pc \in Working \cup {"ask"} =>
            /\ proc.left = proc.opt.trials - Cardinality(NewOnes)
            /\ proc.left >= 1
       /\ proc.pc \in {"summary", "done"} =>
            Cardinality(NewOnes) >= proc.opt.trials

LEMMA Counted ==
  ASSUME RowsInv, ProcInv
  PROVE  /\ IsFiniteSet(OldOnes) /\ Cardinality(OldOnes) \in Nat
         /\ IsFiniteSet(NewOnes) /\ Cardinality(NewOnes) \in Nat
         /\ CountCompleted = Cardinality(OldOnes) + Cardinality(NewOnes)
<1>1. DOMAIN rows = 1..Len(rows) /\ Len(rows) \in Nat
  BY DEF RowsInv, RowsShape
<1>2. IsFiniteSet(1..Len(rows))
  BY <1>1, FS_Interval
<1>3. OldOnes \in SUBSET (1..Len(rows)) /\ NewOnes \in SUBSET (1..Len(rows))
  BY <1>1 DEF OldOnes, NewOnes, Completed
<1>4. /\ IsFiniteSet(OldOnes) /\ Cardinality(OldOnes) \in Nat
      /\ IsFiniteSet(NewOnes) /\ Cardinality(NewOnes) \in Nat
  BY <1>2, <1>3, FS_Subset, FS_CardinalityType
<1>5. Completed(rows) = OldOnes \cup NewOnes /\ OldOnes \cap NewOnes = {}
  BY <1>1 DEF OldOnes, NewOnes, Completed, ProcInv
<1>6. Cardinality(Completed(rows)) =
        Cardinality(OldOnes) + Cardinality(NewOnes) - Cardinality({})
  BY <1>4, <1>5, FS_Union
<1> QED
  BY <1>4, <1>6, FS_EmptySet DEF CountCompleted

(* Marking trials FAIL, and adding one that is not COMPLETE, completes     *)
(* none.                                                                   *)
LEMMA SameCompleted ==
  ASSUME RowsShape,
         \/ rows' = rows \/ \E some : rows' = FailRunning(rows, some)
         \/ \E opt, state : rows' = Append(rows, NewTrial(opt, state)) /\ state # "COMPLETE"
  PROVE  Completed(rows') = Completed(rows)
<1>1. CASE rows' = rows
  BY <1>1
<1>2. CASE \E some : rows' = FailRunning(rows, some)
  <2>1. PICK some : rows' = FailRunning(rows, some)
    BY <1>2
  <2>2. /\ DOMAIN rows' = DOMAIN rows
        /\ \A n \in DOMAIN rows :
             rows'[n].state = IF rows[n].state = "RUNNING" /\ n \notin some
                              THEN "FAIL" ELSE rows[n].state
    BY <2>1, FailRunningKeeps
  <2> QED  BY <2>2 DEF Completed
<1>3. CASE \E opt, state : rows' = Append(rows, NewTrial(opt, state)) /\ state # "COMPLETE"
  <2>1. PICK opt, state : rows' = Append(rows, NewTrial(opt, state)) /\ state # "COMPLETE"
    BY <1>3
  <2>2. DOMAIN rows = 1..Len(rows) /\ Len(rows) \in Nat
    BY DEF RowsShape
  <2>3. /\ DOMAIN rows' = 1..(Len(rows) + 1)
        /\ \A n \in DOMAIN rows : rows'[n] = rows[n]
        /\ rows'[Len(rows) + 1].state = state
    BY <2>1, AppendKeeps DEF NewTrial
  <2>4. ASSUME NEW n
        PROVE  n \in Completed(rows') <=> n \in Completed(rows)
    <3>1. CASE n \in DOMAIN rows
      BY <2>2, <2>3, <3>1 DEF Completed
    <3>2. CASE n \notin DOMAIN rows
      <4>1. n \in DOMAIN rows' => n = Len(rows) + 1
        BY <2>2, <2>3, <3>2
      <4> QED  BY <2>1, <2>3, <3>2, <4>1 DEF Completed
    <3> QED  BY <3>1, <3>2
  <2> QED  BY <2>4
<1> QED  BY <1>1, <1>2, <1>3

LEMMA ValuesFit ==
  ASSUME NEW o \in Options, NEW results
  PROVE  Len(Values(o, results)) = Len(o.metrics)
<1> DEFINE f == Values(o, results)
<1>1. o.metrics \in Seq(DOMAIN METRICS)
  BY StudyAssumption
<1>2. DOMAIN o.metrics = 1..Len(o.metrics) /\ Len(o.metrics) \in Nat
  BY <1>1
<1>3. f = [n \in 1..Len(o.metrics) |-> f[n]]
  BY <1>2 DEF Values
<1> HIDE DEF f
<1> QED  BY <1>2, <1>3, IsSeq DEF f

LEMMA GoalStep ==
  ProcInv /\ RowsInv /\ StaleRowsHealed /\ Goal /\ [Next]_vars => Goal'
<1> SUFFICES ASSUME ProcInv, RowsInv, StaleRowsHealed, Goal, [Next]_vars
             PROVE  Goal'
  OBVIOUS
<1> DEFINE old == Cardinality(OldOnes)
           new == Cardinality(NewOnes)
<1>0. /\ DOMAIN rows = 1..Len(rows) /\ Len(rows) \in Nat /\ RowsShape
      /\ old \in Nat /\ new \in Nat /\ CountCompleted = old + new
      /\ proc.known \in Nat
  BY Counted DEF RowsInv, RowsShape, ProcInv
<1>a. Active => proc.opt.trials \in Nat /\ proc.opt \in Options
  BY StudyAssumption DEF ProcInv, ProcShape
<1>b. ASSUME Completed(rows') = Completed(rows), proc'.known = proc.known
      PROVE  OldOnes' = OldOnes /\ NewOnes' = NewOnes
  BY <1>b DEF OldOnes, NewOnes
<1>c. proc = [pc |-> proc.pc, opt |-> proc.opt, target |-> proc.target,
              before |-> proc.before, left |-> proc.left,
              crashes |-> proc.crashes, num |-> proc.num,
              known |-> proc.known, results |-> proc.results,
              values |-> proc.values]
  BY DEF ProcInv, ProcShape
<1> USE DEF Active, Ended, Looping, Working, Fits, Goal
<1>1. CASE OpenStudy
  <2>1. /\ proc.pc = "open" /\ proc'.pc = "loop" /\ proc'.opt = proc.opt
        /\ proc'.known = Len(rows) /\ proc'.target = CountCompleted + proc.opt.trials
        /\ rows' = FailRunning(rows, refused')
    BY <1>1, <1>c DEF OpenStudy, Heal
  <2>2. Completed(rows') = Completed(rows)
    BY <2>1, <1>0, SameCompleted
  <2>3. OldOnes' = Completed(rows)
    BY <1>0, <2>1, <2>2 DEF OldOnes, Completed
  <2> QED  BY <2>1, <2>3 DEF CountCompleted
<1>2. CASE proc'.pc \notin Looping \cup {"done"}
  BY <1>2
<1>3. CASE Resume
  <2>1. /\ proc.pc = "loop" /\ proc'.opt = proc.opt /\ proc'.known = proc.known
        /\ proc'.target = proc.target /\ proc'.left = proc.target - CountCompleted
        /\ proc'.pc = IF CountCompleted >= proc.target THEN "summary" ELSE "ask"
        /\ rows' = rows /\ study' = study
    BY <1>3, <1>c DEF Resume
  <2>2. OldOnes' = OldOnes /\ NewOnes' = NewOnes
    BY <1>b, <2>1
  <2> QED  BY <1>0, <1>a, <2>1, <2>2
<1>4. CASE Ask
  <2>1. /\ proc.pc = "ask" /\ proc'.opt = proc.opt /\ proc'.known = proc.known
        /\ proc'.target = proc.target /\ proc'.left = proc.left
        /\ proc'.pc \in {"bag", "tell"} /\ study' = study
        /\ proc.opt.objective # "real" => \E x : proc'.values = <<x>>
        /\ rows' = Append(rows, NewTrial(proc.opt, "RUNNING"))
    BY <1>4, <1>c DEF Ask
  <2>2. OldOnes' = OldOnes /\ NewOnes' = NewOnes
    <3>1. \E opt, state : rows' = Append(rows, NewTrial(opt, state)) /\ state # "COMPLETE"
      BY <2>1
    <3> QED  BY <1>0, <1>b, <2>1, <3>1, SameCompleted
  <2>3. ASSUME proc.opt.objective # "real"
        PROVE  Len(proc'.values) = 1
    <3>1. PICK x : proc'.values = <<x>>
      BY <2>1, <2>3
    <3> QED  BY <3>1
  <2> QED  BY <2>1, <2>2, <2>3
<1>5. CASE AskMixed \/ TellRefused \/ (WriteFails /\ proc'.pc = "recover")
  <2>1. /\ proc.pc \in Looping /\ proc'.opt = proc.opt /\ proc'.known = proc.known
        /\ proc'.target = proc.target /\ proc'.pc = "recover" /\ study' = study
        /\ \/ rows' = rows
           \/ rows' = Append(rows, NewTrial(Unset, "FAIL"))
    <3>1. CASE AskMixed
      BY <3>1, <1>c DEF AskMixed, Goto
    <3>2. CASE TellRefused
      BY <3>2, <1>c DEF TellRefused
    <3>3. CASE WriteFails /\ proc'.pc = "recover"
      <4>1. rows[proc.num].state # "RUNNING"
        BY <3>3, <1>c DEF WriteFails, Gone
      <4> QED  BY <3>3, <4>1, <1>c DEF WriteFails
    <3> QED  BY <1>5, <3>1, <3>2, <3>3
  <2>2. OldOnes' = OldOnes
    BY <1>0, <1>b, <2>1, SameCompleted
  <2> QED  BY <2>1, <2>2
<1>6. CASE BeginBag \/ EndBag \/ WriteMarker
  <2>1. /\ proc.pc \in Working /\ proc'.pc \in Working /\ proc'.opt = proc.opt
        /\ proc'.known = proc.known /\ proc'.target = proc.target
        /\ proc'.left = proc.left /\ proc'.values = proc.values
        /\ rows' = rows /\ study' = study
    <3>1. CASE BeginBag
      BY <3>1, <1>c DEF BeginBag, Goto
    <3>2. CASE EndBag
      BY <3>2, <1>c DEF EndBag
    <3>3. CASE WriteMarker
      BY <3>3, <1>c DEF WriteMarker, Goto
    <3> QED  BY <1>6, <3>1, <3>2, <3>3
  <2>2. OldOnes' = OldOnes /\ NewOnes' = NewOnes
    BY <1>b, <2>1
  <2> QED  BY <2>1, <2>2
<1>7. CASE Tell
  <2> DEFINE values == IF proc.opt.objective = "real"
                       THEN Values(proc.opt, proc.results) ELSE proc.values
             m == proc.num
  <2>1. /\ proc.pc = "tell" /\ rows[m].state = "RUNNING" /\ study' = study
        /\ proc'.opt = proc.opt /\ proc'.known = proc.known
        /\ proc'.target = proc.target /\ proc'.left = proc.left - 1
        /\ proc'.pc \in {"crashed", "summary", "ask"}
        /\ proc'.pc = "summary" => proc.left = 1
        /\ proc'.pc = "ask" => proc.left # 1
    BY <1>7, <1>c DEF Tell
  <2>2. m \in DOMAIN rows /\ m > proc.known /\ m \in Nat
    BY <1>0, <2>1 DEF ProcInv
  <2>3. SUFFICES ASSUME Fits PROVE Goal'
    <3>1. ~Fits => ~Fits'
      BY <2>1
    <3> QED  BY <2>1, <3>1
  <2>4. Len(values) = Len(study)
    BY <1>a, <2>1, <2>3, ValuesFit
  <2>5. rows' = [rows EXCEPT ![m] = [@ EXCEPT !.state = "COMPLETE", !.values = values,
                                              !.results = proc.results]]
    BY <1>7, <2>4 DEF Tell
  <2> HIDE DEF values
  <2>6. rows'[m].state = "COMPLETE" /\ DOMAIN rows' = DOMAIN rows
        /\ \A n \in DOMAIN rows : n # m => rows'[n] = rows[n]
    BY <1>0, <2>2, <2>5 DEF RowsShape
  <2>7. NewOnes' = NewOnes \cup {m} /\ OldOnes' = OldOnes /\ m \notin NewOnes
    BY <1>0, <2>1, <2>2, <2>6 DEF NewOnes, OldOnes, Completed
  <2>8. Cardinality(NewOnes') = new + 1
    BY <2>7, Counted, FS_AddElement
  <2>9. proc.left = proc.opt.trials - new /\ proc.left >= 1
        /\ proc.target = old + proc.opt.trials
    BY <2>1, <2>3
  <2>10. /\ proc'.pc = "summary" => new + 1 >= proc.opt.trials
         /\ proc'.pc = "ask" => /\ proc'.left = proc.opt.trials - (new + 1)
                                /\ proc'.left >= 1
    <3>1. proc.opt.trials \in Nat /\ new \in Nat
      BY <1>0, <1>a, <2>1
    <3> HIDE DEF new
    <3> QED  BY <2>1, <2>9, <3>1
  <2>11. OldOnes' = OldOnes
    BY <2>7
  <2> HIDE DEF new, m
  <2> QED  BY <2>1, <2>8, <2>9, <2>10, <2>11 DEF old
<1>8. CASE Recover
  <2>1. /\ proc.pc = "recover" /\ proc'.pc \in {"aborted", "loop"}
        /\ proc'.opt = proc.opt /\ proc'.known = proc.known
        /\ proc'.target = proc.target /\ study' = study
        /\ rows' = FailRunning(rows, refused')
    BY <1>8, <1>c DEF Recover, Heal
  <2>2. OldOnes' = OldOnes
    BY <1>0, <1>b, <2>1, SameCompleted
  <2> QED  BY <2>1, <2>2
<1>9. CASE Summarise
  <2>1. /\ proc.pc = "summary" /\ proc'.pc \in {"crashed", "done"}
        /\ proc'.opt = proc.opt /\ proc'.known = proc.known
        /\ study' = study /\ rows' = rows
    BY <1>9, <1>c DEF Summarise, Goto
  <2>2. NewOnes' = NewOnes
    BY <1>b, <2>1
  <2> QED  BY <2>1, <2>2
<1>10. CASE Other \/ Rescore \/ UNCHANGED vars
  <2>1. /\ proc' = proc /\ study' = study
        /\ rows' = rows \/ \E some : rows' = FailRunning(rows, some)
    BY <1>10 DEF Other, Rescore, vars
  <2>2. OldOnes' = OldOnes /\ NewOnes' = NewOnes
    BY <1>0, <1>b, <2>1, SameCompleted
  <2> QED  BY <2>1, <2>2
<1>11. CASE Start \/ Cleanup \/ Kill \/ (WriteFails /\ proc'.pc # "recover")
  <2>1. proc'.pc \notin Looping \cup {"done"}
    <3>1. CASE Start
      BY <3>1, <1>c DEF Start, Gone
    <3>2. CASE Cleanup
      BY <3>2, <1>c DEF Cleanup, Goto
    <3>3. CASE Kill
      BY <3>3 DEF Kill, Gone
    <3>4. CASE WriteFails /\ proc'.pc # "recover"
      <4>1. rows[proc.num].state = "RUNNING"
        BY <3>4, <1>c DEF WriteFails
      <4>2. proc' = Gone("crashed")
        BY <3>4, <4>1 DEF WriteFails
      <4> QED  BY <4>2 DEF Gone
    <3> QED  BY <1>11, <3>1, <3>2, <3>3, <3>4
  <2> QED  BY <1>2, <2>1
<1> QED
  BY <1>1, <1>3, <1>4, <1>5, <1>6, <1>7, <1>8, <1>9, <1>10, <1>11 DEF Next, Step

(* However often the optimizer recovers, and whatever is marked FAIL under *)
(* its feet: when its loop returns, as many trials were completed as it    *)
(* was asked for.                                                          *)
THEOREM TargetsMet == Spec => []TargetReached
<1>1. Init => Goal
  BY DEF Init, Goal, Gone, Looping, Working, Fits
<1>2. Goal => TargetReached
  BY DEF Goal, Fits, TargetReached, NewOnes
<1>3. Init => StaleRowsHealed
  BY DEF Init, StaleRowsHealed, Gone, Ended
<1> QED
  BY <1>1, <1>2, Healed, ProcAlways, GoalStep, PTL DEF Spec
-----------------------------------------------------------------------------
(* Division with a remainder: result i of a trial is that of a bag in a    *)
(* repetition.                                                             *)
LEMMA DivMod ==
  ASSUME NEW m \in Nat \ {0}, NEW a \in Nat
  PROVE  /\ a \div m \in Nat /\ a % m \in 0..(m - 1)
         /\ a = m * (a \div m) + (a % m)
  OBVIOUS

LEMMA MoreThan ==
  ASSUME NEW m \in Nat \ {0}, NEW p \in Nat, NEW q \in Nat, q < p
  PROVE  m * p >= m * q + m
<1>1. PICK d \in Nat : p = q + d + 1
  <2>1. p - q - 1 \in Nat /\ p = q + (p - q - 1) + 1
    OBVIOUS
  <2> QED  BY <2>1
<1>2. m * p = m * q + m * d + m /\ m * d >= 0
  BY <1>1
<1> QED  BY <1>2

LEMMA Place ==
  ASSUME NEW m \in Nat \ {0}, NEW q \in Nat, NEW s \in 0..(m - 1)
  PROVE  (m * q + s) \div m = q /\ (m * q + s) % m = s
<1> DEFINE a == m * q + s
           p == a \div m
           t == a % m
<1>1. a \in Nat /\ m * q \in Nat
  OBVIOUS
<1>2. p \in Nat /\ t \in 0..(m - 1) /\ a = m * p + t
  BY <1>1, DivMod
<1>3. m * p \in Nat
  BY <1>2
<1> HIDE DEF p, t
<1>4. ~(q < p) /\ ~(p < q)
  <2>1. q < p => m * p >= m * q + m
    BY <1>2, MoreThan
  <2>2. p < q => m * q >= m * p + m
    BY <1>2, MoreThan
  <2> QED  BY <1>1, <1>2, <1>3, <2>1, <2>2
<1>5. p = q
  BY <1>2, <1>4
<1> QED  BY <1>1, <1>2, <1>3, <1>5 DEF p, t

LEMMA NextPlace ==
  ASSUME NEW m \in Nat \ {0}, NEW a \in Nat
  PROVE  (a + 1) \div m = IF (a % m) + 1 = m THEN (a \div m) + 1 ELSE a \div m
<1> DEFINE q == a \div m
           s == a % m
<1>1. q \in Nat /\ s \in 0..(m - 1) /\ a = m * q + s
  BY DivMod
<1> HIDE DEF q, s
<1>2. CASE s + 1 = m
  <2>1. a + 1 = m * (q + 1) + 0
    BY <1>1, <1>2
  <2>2. (m * (q + 1) + 0) \div m = q + 1
    BY <1>1, Place
  <2> QED  BY <1>2, <2>1, <2>2 DEF q, s
<1>3. CASE s + 1 # m
  <2>1. a + 1 = m * q + (s + 1) /\ s + 1 \in 0..(m - 1)
    BY <1>1, <1>3
  <2>2. (m * q + (s + 1)) \div m = q
    BY <1>1, <2>1, Place
  <2> QED  BY <1>3, <2>1, <2>2 DEF q, s
<1> QED  BY <1>2, <1>3

RepOf(i) == ((i - 1) \div Len(Stems)) + 1
BagOf(i) == ((i - 1) % Len(Stems)) + 1

LEMMA PlaceOf ==
  ASSUME NEW i \in Nat \ {0}
  PROVE  /\ RepOf(i) \in Nat \ {0} /\ BagOf(i) \in Bags
         /\ i = Len(Stems) * (RepOf(i) - 1) + BagOf(i)
<1> DEFINE m == Len(Stems)
           a == i - 1
<1>1. m \in Nat \ {0} /\ a \in Nat /\ DOMAIN Stems = 1..m
  BY StudyAssumption
<1> HIDE DEF m
<1>2. a \div m \in Nat /\ a % m \in 0..(m - 1) /\ a = m * (a \div m) + (a % m)
  BY <1>1, DivMod
<1>3. RepOf(i) = (a \div m) + 1 /\ BagOf(i) = (a % m) + 1
  BY DEF RepOf, BagOf, m
<1> HIDE DEF a
<1>4. RepOf(i) - 1 = a \div m
  BY <1>2, <1>3
<1>5. i = a + 1
  BY DEF a
<1> QED  BY <1>1, <1>2, <1>3, <1>4, <1>5 DEF Bags, m

LEMMA PlaceOnce ==
  ASSUME NEW i \in Nat \ {0}, NEW j \in Nat \ {0},
         RepOf(i) = RepOf(j), BagOf(i) = BagOf(j)
  PROVE  i = j
  BY PlaceOf

(* The results of a number of whole repetitions. *)
LEMMA PlaceWithin ==
  ASSUME NEW reps \in Nat
  PROVE  /\ \A i \in 1..(reps * Len(Stems)) : RepOf(i) <= reps
         /\ \A r \in 1..reps, b \in Bags :
              LET i == Len(Stems) * (r - 1) + b
              IN  i \in 1..(reps * Len(Stems)) /\ RepOf(i) = r /\ BagOf(i) = b
<1> DEFINE m == Len(Stems)
<1>1. m \in Nat \ {0} /\ Bags = 1..m
  BY StudyAssumption DEF Bags
<1>2. ASSUME NEW i \in 1..(reps * m) PROVE RepOf(i) <= reps
  <2>1. /\ RepOf(i) \in Nat \ {0} /\ BagOf(i) \in 1..m
        /\ i = m * (RepOf(i) - 1) + BagOf(i)
    <3>1. i \in Nat \ {0}
      BY <1>1
    <3> QED  BY <1>1, <3>1, PlaceOf
  <2> DEFINE q == RepOf(i) - 1
  <2>2. reps < q => m * q >= m * reps + m
    BY <1>1, <2>1, MoreThan
  <2>3. q = reps => m * q = m * reps
    OBVIOUS
  <2>4. m * reps = reps * m /\ m * reps \in Nat /\ m * q \in Nat
    BY <1>1, <2>1
  <2>5. q \in Nat /\ RepOf(i) = q + 1 /\ i = m * q + BagOf(i) /\ i <= reps * m
    BY <1>1, <2>1
  <2> HIDE DEF q, m
  <2>6. ~(reps < q) /\ q # reps
    BY <1>1, <2>1, <2>2, <2>3, <2>4, <2>5
  <2> QED  BY <2>5, <2>6
<1>3. ASSUME NEW r \in 1..reps, NEW b \in Bags
      PROVE  LET i == m * (r - 1) + b
             IN  i \in 1..(reps * m) /\ RepOf(i) = r /\ BagOf(i) = b
  <2> DEFINE q == r - 1
             s == b - 1
             i == m * q + b
  <2>1. q \in Nat /\ s \in 0..(m - 1) /\ r = q + 1 /\ b = s + 1 /\ q < reps
    BY <1>1
  <2>2. m * reps >= m * q + m
    BY <1>1, <2>1, MoreThan
  <2>3. m * reps = reps * m /\ m * q \in Nat
    BY <1>1, <2>1
  <2>4. (m * q + s) \div m = q /\ (m * q + s) % m = s
    BY <1>1, <2>1, Place
  <2> HIDE DEF q, s, m
  <2>5. i \in 1..(reps * m) /\ i - 1 = m * q + s
    BY <1>1, <2>1, <2>2, <2>3
  <2>6. RepOf(i) = q + 1 /\ BagOf(i) = s + 1
    BY <2>4, <2>5 DEF RepOf, BagOf, m
  <2> QED  BY <2>1, <2>5, <2>6 DEF q
<1> QED  BY <1>2, <1>3

-----------------------------------------------------------------------------
(* The trial directories are records of records.                           *)
DirsShape ==
  \A k \in DOMAIN dirs :
    /\ dirs[k] = [bags |-> dirs[k].bags, marked |-> dirs[k].marked]
    /\ \A b \in DOMAIN dirs[k].bags :
         dirs[k].bags[b] = [art |-> dirs[k].bags[b].art,
                            metrics |-> dirs[k].bags[b].metrics]

(* A step leaves a directory in place, with what its bags left behind.     *)
Kept(k) ==
  /\ k \in DOMAIN dirs'
  /\ dirs[k].marked => dirs'[k].marked
  /\ \A b \in DOMAIN dirs[k].bags :
       b \in DOMAIN dirs'[k].bags /\ dirs'[k].bags[b].art = dirs[k].bags[b].art

(* What there is of bag b in a directory was there before, but for scores, *)
(* or the run of that bag begins or ends in it.                            *)
Came(k, b) ==
  \/ /\ b = DirName(Bag)
     /\ \/ BeginBag /\ dirs'[k].bags[b] = Untouched
        \/ EndBag /\ \E a \in Leaves[Bag] :
             dirs'[k].bags[b] = [art |-> a, metrics |-> Result[a].success]
  \/ /\ k \in DOMAIN dirs /\ b \in DOMAIN dirs[k].bags
     /\ dirs'[k].bags[b].art = dirs[k].bags[b].art
     /\ dirs[k].bags[b].metrics = TRUE => dirs'[k].bags[b].metrics = TRUE

(* Only the clean-ups remove directories, and those without a trial.json;  *)
(* only the end of a bag run replaces what a bag left behind.              *)
LEMMA DirsMove ==
  ASSUME DirsShape, [Next]_vars
  PROVE  /\ DirsShape'
         /\ \A k \in DOMAIN dirs' : \A b \in DOMAIN dirs'[k].bags : Came(k, b)
         /\ ~EndBag => \A k \in DOMAIN dirs :
              Kept(k) \/ (~dirs[k].marked /\ (Cleanup \/ Other))
<1>1. CASE dirs' = dirs
  BY <1>1 DEF DirsShape, Kept, Came
<1>2. CASE cleanup_orphan_trials /\ (Cleanup \/ Other)
  <2>1. PICK gone \in SUBSET {k \in DOMAIN dirs : ~dirs[k].marked} :
          dirs' = [k \in DOMAIN dirs \ gone |-> dirs[k]]
    BY <1>2 DEF cleanup_orphan_trials
  <2>2. DOMAIN dirs' \subseteq DOMAIN dirs /\ \A k \in DOMAIN dirs' : dirs'[k] = dirs[k]
    BY <2>1
  <2>3. \A k \in DOMAIN dirs : k \in DOMAIN dirs' \/ ~dirs[k].marked
    BY <2>1
  <2> QED  BY <1>2, <2>2, <2>3 DEF DirsShape, Kept, Came
<1>3. CASE BeginBag
  <2> DEFINE name == DirName(Bag)
             t == TrialDir
             dir == IF t \in DOMAIN dirs THEN dirs[t] ELSE EmptyDir
             bags == [b \in DOMAIN dir.bags \cup {name} |->
                        IF b \in DOMAIN dir.bags THEN dir.bags[b] ELSE Untouched]
  <2>1. dirs' = [k \in DOMAIN dirs \cup {t} |->
                   IF k = t THEN [dir EXCEPT !.bags = bags] ELSE dirs[k]]
    BY <1>3 DEF BeginBag
  <2>2. /\ dir = [bags |-> dir.bags, marked |-> dir.marked]
        /\ \A b \in DOMAIN dir.bags :
             dir.bags[b] = [art |-> dir.bags[b].art, metrics |-> dir.bags[b].metrics]
    BY DEF EmptyDir, DirsShape
  <2> HIDE DEF dir, t, name
  <2>3. [dir EXCEPT !.bags = bags] = [bags |-> bags, marked |-> dir.marked]
    BY <2>2
  <2>4. \A b \in DOMAIN bags :
          bags[b] = [art |-> bags[b].art, metrics |-> bags[b].metrics]
    BY <2>2 DEF Untouched
  <2>5. /\ \A b \in DOMAIN dir.bags : b \in DOMAIN bags /\ bags[b] = dir.bags[b]
        /\ \A b \in DOMAIN bags : b \in DOMAIN dir.bags \/ (b = name /\ bags[b] = Untouched)
    OBVIOUS
  <2> HIDE DEF bags
  <2>6. /\ DOMAIN dirs' = DOMAIN dirs \cup {t}
        /\ dirs'[t] = [bags |-> bags, marked |-> dir.marked]
        /\ \A k \in DOMAIN dirs : k # t => dirs'[k] = dirs[k]
    BY <2>1, <2>3
  <2>7. dirs'[t].bags = bags /\ dirs'[t].marked = dir.marked
    BY <2>6
  <2>8. DirsShape'
    BY <2>4, <2>6, <2>7 DEF DirsShape
  <2>9. IF t \in DOMAIN dirs THEN dir = dirs[t] ELSE DOMAIN dir.bags = {}
    BY DEF dir, EmptyDir
  <2>10. \A k \in DOMAIN dirs : Kept(k)
    BY <2>5, <2>6, <2>7, <2>9 DEF Kept
  <2>11. ASSUME NEW k \in DOMAIN dirs', NEW b \in DOMAIN dirs'[k].bags
         PROVE  Came(k, b)
    <3>1. CASE k # t
      BY <2>6, <2>11, <3>1 DEF Came
    <3>2. CASE k = t
      BY <1>3, <2>5, <2>7, <2>9, <2>11, <3>2 DEF Came, name
    <3> QED  BY <3>1, <3>2
  <2> QED  BY <2>8, <2>10, <2>11
<1>4. CASE EndBag
  <2> DEFINE t == TrialDir
             name == DirName(Bag)
  <2> DEFINE success(a) == Result[a].success
  <2>1. PICK a \in Leaves[Bag] :
          /\ t \in DOMAIN dirs /\ name \in DOMAIN dirs[t].bags
          /\ dirs' = [dirs EXCEPT ![t].bags[name] = [art |-> a, metrics |-> success(a)]]
    BY <1>4 DEF EndBag, BagDirThere
  <2> DEFINE s == success(a)
  <2> HIDE DEF t, name, success
  <2> DEFINE bags == [dirs[t].bags EXCEPT ![name] = [art |-> a, metrics |-> s]]
  <2>2. DOMAIN dirs' = DOMAIN dirs /\ \A k \in DOMAIN dirs : k # t => dirs'[k] = dirs[k]
    BY <2>1
  <2>3. dirs'[t] = [bags |-> bags, marked |-> dirs[t].marked]
    BY <2>1 DEF DirsShape
  <2>4. \A b \in DOMAIN bags :
          bags[b] = [art |-> bags[b].art, metrics |-> bags[b].metrics]
    <3> DEFINE r == [art |-> a, metrics |-> s]
    <3>1. r = [art |-> r.art, metrics |-> r.metrics]
      OBVIOUS
    <3> HIDE DEF r
    <3>2. bags = [dirs[t].bags EXCEPT ![name] = r]
      BY DEF r
    <3> HIDE DEF bags
    <3>3. \A b \in DOMAIN bags :
            bags[b] = r \/ (b \in DOMAIN dirs[t].bags /\ bags[b] = dirs[t].bags[b])
      BY <3>2
    <3> QED  BY <2>1, <3>1, <3>3 DEF DirsShape
  <2>5. /\ bags[name] = [art |-> a, metrics |-> s] /\ DOMAIN bags = DOMAIN dirs[t].bags
        /\ \A b \in DOMAIN bags : b # name => bags[b] = dirs[t].bags[b]
    BY <2>1
  <2> HIDE DEF bags
  <2>6. dirs'[t].bags = bags
    BY <2>3
  <2>7. ASSUME NEW k \in DOMAIN dirs', NEW b \in DOMAIN dirs'[k].bags
        PROVE  Came(k, b)
    <3>1. CASE k # t
      BY <2>2, <2>7, <3>1 DEF Came
    <3>2. CASE k = t /\ b # name
      BY <2>1, <2>5, <2>6, <2>7, <3>2 DEF Came
    <3>3. CASE k = t /\ b = name
      <4>1. dirs'[k].bags[b] = [art |-> a, metrics |-> Result[a].success]
        BY <2>1, <2>5, <2>6, <3>3 DEF success
      <4> QED  BY <1>4, <2>1, <3>3, <4>1 DEF Came, name
    <3> QED  BY <3>1, <3>2, <3>3
  <2> QED  BY <1>4, <2>2, <2>3, <2>4, <2>7 DEF DirsShape
<1>5. CASE WriteMarker
  <2> DEFINE t == LastDir
  <2>1. t \in DOMAIN dirs /\ dirs' = [dirs EXCEPT ![t].marked = TRUE]
    BY <1>5 DEF WriteMarker
  <2> HIDE DEF t
  <2>2. DOMAIN dirs' = DOMAIN dirs /\ \A k \in DOMAIN dirs : k # t => dirs'[k] = dirs[k]
    BY <2>1
  <2>3. dirs'[t] = [bags |-> dirs[t].bags, marked |-> TRUE]
    <3>1. dirs'[t] = [dirs[t] EXCEPT !.marked = TRUE]
      BY <2>1
    <3>2. dirs[t] = [bags |-> dirs[t].bags, marked |-> dirs[t].marked]
      BY <2>1 DEF DirsShape
    <3> QED  BY <3>1, <3>2
  <2>4. dirs'[t].bags = dirs[t].bags /\ dirs'[t].marked
    BY <2>3
  <2>5. \A k \in DOMAIN dirs : dirs'[k].bags = dirs[k].bags
    BY <2>2, <2>4
  <2>6. \A k \in DOMAIN dirs' : \A b \in DOMAIN dirs'[k].bags : Came(k, b)
    BY <2>2, <2>5 DEF Came
  <2>7. DirsShape'
    <3>1. ASSUME NEW k \in DOMAIN dirs
          PROVE  /\ dirs'[k] = [bags |-> dirs'[k].bags, marked |-> dirs'[k].marked]
                 /\ \A b \in DOMAIN dirs'[k].bags :
                      dirs'[k].bags[b] = [art |-> dirs'[k].bags[b].art,
                                          metrics |-> dirs'[k].bags[b].metrics]
      <4>1. /\ dirs[k] = [bags |-> dirs[k].bags, marked |-> dirs[k].marked]
            /\ \A b \in DOMAIN dirs[k].bags :
                 dirs[k].bags[b] = [art |-> dirs[k].bags[b].art,
                                    metrics |-> dirs[k].bags[b].metrics]
        BY DEF DirsShape
      <4>2. CASE k # t
        BY <2>2, <4>1, <4>2
      <4>3. CASE k = t
        <5>1. dirs'[k] = [bags |-> dirs'[k].bags, marked |-> dirs'[k].marked]
          BY ONLY <2>3, <4>3
        <5>2. dirs'[k].bags = dirs[k].bags
          BY ONLY <2>4, <4>3
        <5> QED  BY ONLY <4>1, <5>1, <5>2
      <4> QED  BY <4>2, <4>3
    <3> QED  BY ONLY <2>2, <3>1 DEF DirsShape
  <2>8. \A k \in DOMAIN dirs : Kept(k)
    BY <2>2, <2>4 DEF Kept
  <2> QED  BY <2>6, <2>7, <2>8
<1>6. CASE Rescore
  <2> DEFINE bags(k) ==
        LET scored == score_trial(Files(dirs[k].bags))
        IN  [b \in DOMAIN dirs[k].bags |->
               [dirs[k].bags[b] EXCEPT !.metrics = scored[b].metrics]]
  <2>1. dirs' = [k \in DOMAIN dirs |-> [dirs[k] EXCEPT !.bags = bags(k)]]
    BY <1>6 DEF Rescore
  <2>2. ASSUME NEW k \in DOMAIN dirs
        PROVE  /\ DOMAIN bags(k) = DOMAIN dirs[k].bags
               /\ \A b \in DOMAIN dirs[k].bags :
                    /\ bags(k)[b].art = dirs[k].bags[b].art
                    /\ dirs[k].bags[b].metrics = TRUE => bags(k)[b].metrics = TRUE
                    /\ bags(k)[b] = [art |-> bags(k)[b].art, metrics |-> bags(k)[b].metrics]
    <3>1. ASSUME NEW b \in DOMAIN dirs[k].bags, NEW s
          PROVE  LET r == [dirs[k].bags[b] EXCEPT !.metrics = s]
                 IN  /\ r.art = dirs[k].bags[b].art /\ r.metrics = s
                     /\ r = [art |-> r.art, metrics |-> r.metrics]
      <4> DEFINE x == dirs[k].bags[b]
                 r == [x EXCEPT !.metrics = s]
      <4>1. x = [art |-> x.art, metrics |-> x.metrics]
        BY <3>1 DEF DirsShape
      <4> HIDE DEF x
      <4>2. r = [art |-> x.art, metrics |-> s]
        BY <4>1
      <4> HIDE DEF r
      <4>3. r.art = x.art /\ r.metrics = s
        BY <4>2
      <4>4. r = [art |-> r.art, metrics |-> r.metrics]
        BY <4>2, <4>3
      <4> QED  BY <4>3, <4>4 DEF x, r
    <3> DEFINE scored == score_trial(Files(dirs[k].bags))
    <3>2. ASSUME NEW b \in DOMAIN dirs[k].bags, dirs[k].bags[b].metrics = TRUE
          PROVE  scored[b].metrics = TRUE
      <4> DEFINE file == Files(dirs[k].bags)
      <4>1. file[b].metrics = TRUE /\ DOMAIN file = DOMAIN dirs[k].bags
        BY <3>2 DEF Files
      <4>2. file[b] = [art |-> file[b].art, metrics |-> file[b].metrics]
        <5> DEFINE art == IF dirs[k].bags[b].art = "nothing" THEN [db |-> FALSE]
                          ELSE Artefacts[dirs[k].bags[b].art]
        <5>1. file[b] = [art |-> art, metrics |-> dirs[k].bags[b].metrics]
          BY DEF Files
        <5> HIDE DEF art, file
        <5> QED  BY <5>1
      <4> HIDE DEF file
      <4>3. scored[b] = [file[b] EXCEPT !.metrics = @ \/ file[b].art.db]
        BY <3>2, <4>1 DEF score_trial, file
      <4> QED  BY <4>1, <4>2, <4>3
    <3> HIDE DEF scored
    <3>3. DOMAIN bags(k) = DOMAIN dirs[k].bags
      OBVIOUS
    <3>4. \A b \in DOMAIN dirs[k].bags :
            bags(k)[b] = [dirs[k].bags[b] EXCEPT !.metrics = scored[b].metrics]
      BY DEF scored
    <3>5. ASSUME NEW b \in DOMAIN dirs[k].bags
          PROVE  /\ bags(k)[b].art = dirs[k].bags[b].art
                 /\ dirs[k].bags[b].metrics = TRUE => bags(k)[b].metrics = TRUE
                 /\ bags(k)[b] = [art |-> bags(k)[b].art, metrics |-> bags(k)[b].metrics]
      <4> DEFINE s == scored[b].metrics
                 x == bags(k)[b]
      <4>1. x = [dirs[k].bags[b] EXCEPT !.metrics = s]
        BY <3>4
      <4>2. dirs[k].bags[b].metrics = TRUE => s = TRUE
        BY <3>2
      <4> HIDE DEF s, x
      <4>3. /\ x.art = dirs[k].bags[b].art /\ x.metrics = s
            /\ x = [art |-> x.art, metrics |-> x.metrics]
        BY <3>1, <4>1
      <4> QED  BY <4>2, <4>3 DEF x
    <3> QED  BY <3>3, <3>5
  <2> HIDE DEF bags
  <2>3. ASSUME NEW k \in DOMAIN dirs
        PROVE  dirs'[k] = [bags |-> bags(k), marked |-> dirs[k].marked]
    BY <2>1, <2>3 DEF DirsShape
  <2>4. DOMAIN dirs' = DOMAIN dirs
    BY <2>1
  <2>5. ASSUME NEW k \in DOMAIN dirs
        PROVE  dirs'[k].bags = bags(k) /\ dirs'[k].marked = dirs[k].marked
    <3> DEFINE x == bags(k)
    <3>1. dirs'[k] = [bags |-> x, marked |-> dirs[k].marked]
      BY <2>3, <2>5
    <3> HIDE DEF x
    <3>2. dirs'[k].bags = x /\ dirs'[k].marked = dirs[k].marked
      BY <3>1
    <3> QED  BY <3>2 DEF x
  <2>6. DirsShape'
    <3>1. ASSUME NEW k \in DOMAIN dirs
          PROVE  \A b \in DOMAIN bags(k) :
                   bags(k)[b] = [art |-> bags(k)[b].art, metrics |-> bags(k)[b].metrics]
      BY <2>2
    <3>2. ASSUME NEW k \in DOMAIN dirs
          PROVE  /\ dirs'[k] = [bags |-> dirs'[k].bags, marked |-> dirs'[k].marked]
                 /\ \A b \in DOMAIN dirs'[k].bags :
                      dirs'[k].bags[b] = [art |-> dirs'[k].bags[b].art,
                                          metrics |-> dirs'[k].bags[b].metrics]
      <4>1. dirs'[k] = [bags |-> dirs'[k].bags, marked |-> dirs'[k].marked]
        BY <2>3, <2>5
      <4>2. dirs'[k].bags = bags(k)
        BY <2>5
      <4> QED  BY <3>1, <4>1, <4>2
    <3> QED  BY ONLY <2>4, <3>2 DEF DirsShape
  <2>7. ASSUME NEW k \in DOMAIN dirs PROVE Kept(k)
    <3>1. /\ k \in DOMAIN dirs' /\ dirs'[k].bags = bags(k)
          /\ dirs'[k].marked = dirs[k].marked
      BY ONLY <2>4, <2>5, <2>7
    <3>2. ASSUME NEW b \in DOMAIN dirs[k].bags
          PROVE  b \in DOMAIN dirs'[k].bags /\ dirs'[k].bags[b].art = dirs[k].bags[b].art
      <4>1. b \in DOMAIN bags(k) /\ bags(k)[b].art = dirs[k].bags[b].art
        BY <2>2, <2>7
      <4> QED  BY ONLY <3>1, <4>1
    <3> QED  BY ONLY <3>1, <3>2 DEF Kept
  <2>8. \A k \in DOMAIN dirs' : \A b \in DOMAIN dirs'[k].bags : Came(k, b)
    <3>1. ASSUME NEW k \in DOMAIN dirs, NEW b \in DOMAIN dirs'[k].bags
          PROVE  Came(k, b)
      <4>1. dirs'[k].bags = bags(k)
        BY <2>5
      <4>2. /\ b \in DOMAIN dirs[k].bags /\ bags(k)[b].art = dirs[k].bags[b].art
            /\ dirs[k].bags[b].metrics = TRUE => bags(k)[b].metrics = TRUE
        BY <2>2, <4>1
      <4> QED  BY <4>1, <4>2 DEF Came
    <3> QED  BY <2>4, <3>1
  <2> QED  BY <2>6, <2>7, <2>8
<1> QED
  BY <1>1, <1>2, <1>3, <1>4, <1>5, <1>6
  DEF Next, Step, Start, Cleanup, OpenStudy, Resume, Ask, AskMixed, WriteFails, Tell,
      TellRefused, Recover, Summarise, Kill, Other, vars

-----------------------------------------------------------------------------
(* The trial that is worked on has not ended well yet, and only a real     *)
(* objective plays bags.                                                   *)
WorkInv ==
  /\ proc.pc \in Working =>
       rows[proc.num].state # "COMPLETE" /\ rows[proc.num].opt = proc.opt
  /\ proc.pc \in {"bag", "play", "mark"} => proc.opt.objective = "real"

(* A completed trial stays as it is, and only Tell completes one.          *)
LEMMA CompletedStay ==
  ASSUME RowsInv, ProcInv, WorkInv, [Next]_vars
  PROVE  /\ \A n \in Completed(rows) : n \in DOMAIN rows' /\ rows'[n] = rows[n]
         /\ ~Tell => Completed(rows') = Completed(rows)
<1>0. DOMAIN rows = 1..Len(rows) /\ Len(rows) \in Nat /\ RowsShape
  BY DEF RowsInv, RowsShape
<1>1. CASE rows' = rows
  BY <1>1 DEF Completed
<1>2. CASE \E some : rows' = FailRunning(rows, some)
  BY <1>0, <1>2, SameCompleted DEF Completed, FailRunning, Running
<1>3. CASE \E opt, state : rows' = Append(rows, NewTrial(opt, state)) /\ state # "COMPLETE"
  <2>1. Completed(rows') = Completed(rows)
    BY <1>0, <1>3, SameCompleted
  <2>2. \A n \in DOMAIN rows : n \in DOMAIN rows' /\ rows'[n] = rows[n]
    <3>1. PICK opt, state : rows' = Append(rows, NewTrial(opt, state))
      BY <1>3
    <3> QED  BY <1>0, <3>1, AppendKeeps
  <2> QED  BY <2>1, <2>2 DEF Completed
<1>4. CASE proc.pc \in Working /\ \E r : rows' = [rows EXCEPT ![proc.num] = r]
                                          /\ (Tell \/ r.state # "COMPLETE")
  <2>1. PICK r : rows' = [rows EXCEPT ![proc.num] = r] /\ (Tell \/ r.state # "COMPLETE")
    BY <1>4
  <2>2. proc.num \in DOMAIN rows /\ rows[proc.num].state # "COMPLETE"
    BY <1>0, <1>4 DEF ProcInv, WorkInv
  <2> QED  BY <2>1, <2>2 DEF Completed
<1>5. CASE Ask
  <2>1. rows' = Append(rows, NewTrial(proc.opt, "RUNNING"))
    BY <1>5 DEF Ask
  <2> QED  BY <1>3, <2>1
<1>6. CASE AskMixed
  <2>1. rows' = Append(rows, NewTrial(Unset, "FAIL"))
    BY <1>6 DEF AskMixed
  <2> QED  BY <1>3, <2>1
<1>7. CASE WriteFails
  <2>1. proc.pc \in Working /\ proc.num \in DOMAIN rows
    BY <1>0, <1>7 DEF WriteFails, Working, ProcInv
  <2>2. CASE rows[proc.num].state = "RUNNING"
    <3>1. rows' = [rows EXCEPT ![proc.num] =
                     [state |-> "FAIL", opt |-> rows[proc.num].opt,
                      results |-> rows[proc.num].results, values |-> rows[proc.num].values]]
      BY <1>0, <1>7, <2>1, <2>2, EndTrial DEF WriteFails
    <3> DEFINE r == [state |-> "FAIL", opt |-> rows[proc.num].opt,
                     results |-> rows[proc.num].results, values |-> rows[proc.num].values]
    <3>2. r.state # "COMPLETE" /\ rows' = [rows EXCEPT ![proc.num] = r]
      BY <3>1
    <3> HIDE DEF r
    <3> QED  BY <1>4, <2>1, <3>2
  <2>3. CASE rows[proc.num].state # "RUNNING"
    BY <1>1, <1>7, <2>3 DEF WriteFails
  <2> QED  BY <2>2, <2>3
<1>8. CASE Tell
  BY <1>4, <1>8 DEF Tell, Working
<1> QED
  BY <1>1, <1>2, <1>5, <1>6, <1>7, <1>8
  DEF Next, Step, Start, Cleanup, OpenStudy, Resume, BeginBag, EndBag, WriteMarker,
      TellRefused, Recover, Heal, Summarise, Kill, Other, Rescore, vars

LEMMA WorkStep ==
  ProcInv /\ RowsInv /\ WorkInv /\ [Next]_vars => WorkInv'
<1> SUFFICES ASSUME ProcInv, RowsInv, WorkInv, [Next]_vars
             PROVE  WorkInv'
  OBVIOUS
<1>0. /\ DOMAIN rows = 1..Len(rows) /\ Len(rows) \in Nat
      /\ Later /\ RowsShape
  BY ProcStep DEF RowsInv, RowsShape
<1>c. proc = [pc |-> proc.pc, opt |-> proc.opt, target |-> proc.target,
              before |-> proc.before, left |-> proc.left,
              crashes |-> proc.crashes, num |-> proc.num,
              known |-> proc.known, results |-> proc.results,
              values |-> proc.values]
  BY DEF ProcInv, ProcShape
<1>1. CASE Ask
  <2>1. /\ proc'.opt = proc.opt /\ proc'.num = Len(rows) + 1
        /\ proc'.pc = IF proc.opt.objective = "real" THEN "bag" ELSE "tell"
        /\ rows' = Append(rows, NewTrial(proc.opt, "RUNNING"))
    BY <1>1, <1>c DEF Ask
  <2>2. rows'[Len(rows) + 1] = NewTrial(proc.opt, "RUNNING")
    BY <1>0, <2>1, AppendKeeps
  <2>3. rows'[proc'.num].state = "RUNNING" /\ rows'[proc'.num].opt = proc.opt
    BY <2>1, <2>2 DEF NewTrial
  <2> QED  BY <2>1, <2>3 DEF WorkInv, Working
<1>2. CASE proc'.pc \notin Working
  BY <1>2 DEF WorkInv, Working
<1>3. CASE BeginBag \/ EndBag \/ WriteMarker \/ Other \/ Rescore \/ UNCHANGED vars
  <2>1. /\ proc'.num = proc.num /\ proc'.opt = proc.opt
        /\ \/ proc.pc \in {"bag", "play", "mark"} /\ proc'.pc \in Working
           \/ proc'.pc = proc.pc
        /\ ~Tell \/ proc' = proc
    <3>1. CASE BeginBag
      BY <3>1, <1>c DEF BeginBag, Goto, Working, Tell
    <3>2. CASE EndBag
      BY <3>2, <1>c DEF EndBag, Working, Tell
    <3>3. CASE WriteMarker
      BY <3>3, <1>c DEF WriteMarker, Goto, Working, Tell
    <3>4. CASE Other \/ Rescore \/ UNCHANGED vars
      BY <3>4 DEF Other, Rescore, vars
    <3> QED  BY <1>3, <3>1, <3>2, <3>3, <3>4
  <2>2. proc.pc \in Working => proc.num \in DOMAIN rows
    BY <1>0 DEF ProcInv
  <2>3. rows' = rows \/ \E some : rows' = FailRunning(rows, some)
    BY <1>3 DEF BeginBag, EndBag, WriteMarker, Other, Rescore, vars
  <2>4. \A n \in DOMAIN rows : rows[n].state # "COMPLETE" =>
          rows'[n].state # "COMPLETE" /\ rows'[n].opt = rows[n].opt
    <3>1. CASE rows' = rows
      BY <3>1
    <3>2. CASE \E some : rows' = FailRunning(rows, some)
      <4>1. PICK some : rows' = FailRunning(rows, some)
        BY <3>2
      <4>2. \A n \in DOMAIN rows :
              rows'[n].state = IF rows[n].state = "RUNNING" /\ n \notin some
                               THEN "FAIL" ELSE rows[n].state
        BY <1>0, <4>1, FailRunningKeeps
      <4> QED  BY <1>0, <4>2 DEF Later
    <3> QED  BY <2>3, <3>1, <3>2
  <2> QED  BY <2>1, <2>2, <2>4 DEF WorkInv, Working
<1>4. CASE Start \/ Cleanup \/ OpenStudy \/ Resume \/ AskMixed
  BY <1>2, <1>4, <1>c
  DEF Start, Cleanup, OpenStudy, Resume, AskMixed, Goto, Gone, Working
<1>5. CASE WriteFails
  <2>1. proc' = Gone("crashed") \/ proc' = [proc EXCEPT !.pc = "recover", !.results = <<>>]
    BY <1>5 DEF WriteFails
  <2>2. proc'.pc \notin Working
    <3>1. CASE proc' = Gone("crashed")
      BY <3>1 DEF Gone, Working
    <3>2. CASE proc' = [proc EXCEPT !.pc = "recover", !.results = <<>>]
      BY <3>2, <1>c DEF Working
    <3> QED  BY <2>1, <3>1, <3>2
  <2> QED  BY <1>2, <2>2
<1>6. CASE Tell
  <2>1. proc'.pc \in {"crashed", "summary", "ask"}
    BY <1>6, <1>c DEF Tell
  <2> QED  BY <1>2, <2>1 DEF Working
<1>7. CASE TellRefused \/ Recover \/ Summarise \/ Kill
  <2>1. proc'.pc \in {"recover", "aborted", "loop", "crashed", "done", "killed"}
    <3>1. CASE TellRefused
      BY <3>1, <1>c DEF TellRefused
    <3>2. CASE Recover
      BY <3>2, <1>c DEF Recover
    <3>3. CASE Summarise
      BY <3>3, <1>c DEF Summarise, Goto
    <3>4. CASE Kill
      BY <3>4 DEF Kill, Gone
    <3> QED  BY <1>7, <3>1, <3>2, <3>3, <3>4
  <2> QED  BY <1>2, <2>1 DEF Working
<1> QED
  BY <1>1, <1>3, <1>4, <1>5, <1>6, <1>7 DEF Next, Step

-----------------------------------------------------------------------------
(* Result i of trial n is on disk, and the repetitions up to q are marked. *)
Filed(n, results, q) ==
  \A i \in DOMAIN results :
    /\ <<n, RepOf(i)>> \in DOMAIN dirs
    /\ DirName(BagOf(i)) \in DOMAIN dirs[<<n, RepOf(i)>>].bags
    /\ dirs[<<n, RepOf(i)>>].bags[DirName(BagOf(i))].art = results[i]
    /\ RepOf(i) <= q => dirs[<<n, RepOf(i)>>].marked

LEMMA FiledKept ==
  ASSUME NEW n, NEW results, NEW q, Filed(n, results, q),
         \A i \in DOMAIN results : Kept(<<n, RepOf(i)>>)
  PROVE  Filed(n, results, q)'
<1>1. ASSUME NEW i \in DOMAIN results, NEW k, k = <<n, RepOf(i)>>,
             NEW b, b = DirName(BagOf(i))
      PROVE  /\ k \in DOMAIN dirs' /\ b \in DOMAIN dirs'[k].bags
             /\ dirs'[k].bags[b].art = results[i]
             /\ RepOf(i) <= q => dirs'[k].marked
  <2>1. /\ k \in DOMAIN dirs /\ b \in DOMAIN dirs[k].bags
        /\ dirs[k].bags[b].art = results[i]
        /\ RepOf(i) <= q => dirs[k].marked
    BY <1>1 DEF Filed
  <2>2. Kept(k)
    BY <1>1
  <2> QED  BY <2>1, <2>2 DEF Kept
<1> QED  BY <1>1 DEF Filed

(* A completed trial of a real objective: a result of each bag in each     *)
(* repetition, from which its values were computed.                        *)
Recorded(n) ==
  rows[n].opt.objective = "real" =>
    /\ rows[n].opt \in Options
    /\ rows[n].results \in Seq(DOMAIN Artefacts)
    /\ Len(rows[n].results) = rows[n].opt.reps * Len(Stems)
    /\ rows[n].values = Values(rows[n].opt, rows[n].results)
    /\ Filed(n, rows[n].results, rows[n].opt.reps)

(* The repetitions that have their trial.json.                             *)
MarkedReps ==
  IF proc.pc = "mark" THEN (Len(proc.results) \div Len(Stems)) - 1
  ELSE Len(proc.results) \div Len(Stems)

(* The trial that is worked on.                                            *)
InProgress ==
  proc.pc \in Working /\ proc.opt.objective = "real" =>
    /\ proc.results \in Seq(DOMAIN Artefacts)
    /\ Filed(proc.num, proc.results, MarkedReps)
    /\ proc.pc = "tell" => Len(proc.results) = proc.opt.reps * Len(Stems)

AllRecorded == \A n \in Completed(rows) : Recorded(n)

RecordInv == others = 0 => AllRecorded /\ InProgress

(* The directories of completed trials are not touched again.              *)
LEMMA RecordsStay ==
  ASSUME RowsInv, ProcInv, WorkInv, DirsShape, AllRecorded, [Next]_vars, ~Other
  PROVE  \A n \in Completed(rows) : Recorded(n)'
<1>1. SUFFICES ASSUME NEW n \in Completed(rows), rows[n].opt.objective = "real"
               PROVE  Recorded(n)'
  BY CompletedStay DEF Recorded
<1> DEFINE results == rows[n].results
           opt == rows[n].opt
<1>2. /\ opt \in Options /\ results \in Seq(DOMAIN Artefacts)
      /\ Len(results) = opt.reps * Len(Stems) /\ opt.reps \in Nat
      /\ rows[n].values = Values(opt, results)
      /\ Filed(n, results, opt.reps)
  BY <1>1, StudyAssumption DEF AllRecorded, Recorded
<1>3. rows'[n] = rows[n]
  BY CompletedStay
<1> HIDE DEF results
<1>4. \A i \in DOMAIN results :
        <<n, RepOf(i)>> \in DOMAIN dirs /\ dirs[<<n, RepOf(i)>>].marked
  <2>1. DOMAIN results = 1..(opt.reps * Len(Stems))
    BY <1>2
  <2>2. \A i \in DOMAIN results : RepOf(i) <= opt.reps
    BY <1>2, <2>1, PlaceWithin
  <2> QED  BY <1>2, <2>2 DEF Filed
<1>5. \A i \in DOMAIN results : Kept(<<n, RepOf(i)>>)
  <2>1. CASE ~EndBag
    BY <1>4, <2>1, DirsMove
  <2>2. CASE EndBag
    <3>1. proc.num # n /\ TrialDir[1] = proc.num
      BY <2>2 DEF EndBag, WorkInv, Working, Completed, TrialDir
    <3> DEFINE t == TrialDir
    <3>2. PICK e : dirs' = [dirs EXCEPT ![t].bags[DirName(Bag)] = e]
      BY <2>2 DEF EndBag
    <3>3. \A k \in DOMAIN dirs : k # t => k \in DOMAIN dirs' /\ dirs'[k] = dirs[k]
      BY <3>2
    <3>4. \A i \in DOMAIN results : <<n, RepOf(i)>>[1] # t[1]
      BY <3>1
    <3> HIDE DEF t
    <3>5. \A i \in DOMAIN results : <<n, RepOf(i)>> # t
      BY <3>4
    <3> QED  BY <1>4, <3>3, <3>5 DEF Kept
  <2> QED  BY <2>1, <2>2
<1>6. Filed(n, results, opt.reps)'
  BY <1>2, <1>5, <1>3, FiledKept DEF results
<1> QED
  BY <1>2, <1>3, <1>6 DEF Recorded, results

(* Bags do not share a directory. (Three bags foo, foo and foo_1 do.)      *)
NamesApart == \A b, c \in Bags : DirName(b) = DirName(c) => b = c

(* The end of a bag run puts its result beside those that are there.       *)
LEMMA EndBagFiles ==
  ASSUME NamesApart, ProcInv, RowsInv, WorkInv, DirsShape, InProgress, EndBag
  PROVE  InProgress'
<1> DEFINE L == Len(Stems)
           results == proc.results
           n == proc.num
           t == TrialDir
           i == Len(results) + 1
           q == Len(results) \div L
<1>c. proc = [pc |-> proc.pc, opt |-> proc.opt, target |-> proc.target,
              before |-> proc.before, left |-> proc.left,
              crashes |-> proc.crashes, num |-> proc.num,
              known |-> proc.known, results |-> proc.results,
              values |-> proc.values]
  BY DEF ProcInv, ProcShape
<1>1. PICK a \in Leaves[Bag] :
        /\ dirs' = [dirs EXCEPT ![t].bags[DirName(Bag)] =
                      [art |-> a, metrics |-> Result[a].success]]
        /\ proc' = [proc EXCEPT
             !.results = Append(@, a),
             !.pc = IF Bag = L THEN "mark" ELSE "bag"]
  BY DEF EndBag
<1>2. /\ proc.pc = "play" /\ proc.opt.objective = "real"
      /\ t \in DOMAIN dirs /\ DirName(Bag) \in DOMAIN dirs[t].bags
      /\ L \in Nat \ {0}
  BY StudyAssumption DEF EndBag, BagDirThere, WorkInv
<1>3. /\ results \in Seq(DOMAIN Artefacts) /\ Len(results) \in Nat
      /\ Filed(n, results, q)
  <2>1. /\ proc.results \in Seq(DOMAIN Artefacts)
        /\ Filed(proc.num, proc.results, MarkedReps)
    BY <1>2 DEF InProgress, Working
  <2>2. MarkedReps = q
    BY <1>2 DEF MarkedReps
  <2>3. results \in Seq(DOMAIN Artefacts)
    BY <2>1
  <2>4. Filed(n, results, q)
    BY <2>1, <2>2
  <2> HIDE DEF results, n, q
  <2>5. Len(results) \in Nat
    BY <2>3
  <2> QED  BY <2>3, <2>4, <2>5
<1>4. /\ proc'.results = Append(results, a) /\ proc'.num = n /\ proc'.opt = proc.opt
      /\ proc'.pc = IF Bag = L THEN "mark" ELSE "bag"
  BY <1>1, <1>c
<1>5. t = <<n, RepOf(i)>> /\ Bag = BagOf(i) /\ Bag \in Bags /\ i \in Nat \ {0}
  <2>1. i \in Nat \ {0} /\ i - 1 = Len(results)
    BY <1>3
  <2>2. RepOf(i) = Rep /\ BagOf(i) = Bag
    BY <2>1 DEF RepOf, BagOf, Rep, Bag
  <2> QED  BY <2>1, <2>2, PlaceOf DEF TrialDir
<1>6. a \in DOMAIN Artefacts
  BY <1>5, StudyAssumption DEF Bags
<1>7. /\ proc'.results \in Seq(DOMAIN Artefacts)
      /\ Len(proc'.results) = i /\ DOMAIN proc'.results = 1..i
      /\ \A j \in DOMAIN results : proc'.results[j] = results[j]
      /\ proc'.results[i] = a /\ DOMAIN results = 1..Len(results)
  BY <1>3, <1>4, <1>6
<1>8. MarkedReps' = q
  <2>1. (Len(results) + 1) \div L = IF (Len(results) % L) + 1 = L THEN q + 1 ELSE q
    BY <1>2, <1>3, NextPlace
  <2>2. Bag = (Len(results) % L) + 1 /\ MarkedReps' = IF proc'.pc = "mark" THEN (i \div L) - 1 ELSE i \div L
    BY <1>7 DEF Bag, MarkedReps
  <2> DEFINE next == i \div L
  <2>3. q \in Nat
    <3> DEFINE len == Len(results)
    <3>1. len \in Nat /\ L \in Nat \ {0}
      BY <1>2, <1>3
    <3> HIDE DEF len, L
    <3>2. len \div L \in Nat
      BY <3>1, DivMod
    <3> QED  BY <3>2 DEF len
  <2>4. next = IF Bag = L THEN q + 1 ELSE q
    BY <2>1, <2>2
  <2>5. MarkedReps' = IF proc'.pc = "mark" THEN next - 1 ELSE next
    BY <2>2
  <2> HIDE DEF q, next
  <2>6. CASE Bag = L
    BY <1>4, <2>3, <2>4, <2>5, <2>6
  <2>7. CASE Bag # L
    BY <1>4, <2>4, <2>5, <2>7
  <2> QED  BY <2>6, <2>7
<1> HIDE DEF results, t, i, q, n, L
<1>9. /\ DOMAIN dirs' = DOMAIN dirs
      /\ \A k \in DOMAIN dirs : k # t => dirs'[k] = dirs[k]
      /\ dirs'[t].marked = dirs[t].marked
      /\ DOMAIN dirs'[t].bags = DOMAIN dirs[t].bags
      /\ \A b \in DOMAIN dirs[t].bags :
           b # DirName(Bag) => dirs'[t].bags[b] = dirs[t].bags[b]
      /\ dirs'[t].bags[DirName(Bag)].art = a
  <2> DEFINE bags == [dirs[t].bags EXCEPT ![DirName(Bag)] =
                        [art |-> a, metrics |-> Result[a].success]]
  <2>1. dirs'[t] = [bags |-> bags, marked |-> dirs[t].marked]
    <3>1. dirs'[t] = [dirs[t] EXCEPT !.bags = bags]
      BY <1>1, <1>2
    <3>2. dirs[t] = [bags |-> dirs[t].bags, marked |-> dirs[t].marked]
      BY <1>2 DEF DirsShape
    <3> QED  BY <3>1, <3>2
  <2>2. /\ DOMAIN bags = DOMAIN dirs[t].bags
        /\ \A b \in DOMAIN dirs[t].bags : b # DirName(Bag) => bags[b] = dirs[t].bags[b]
        /\ bags[DirName(Bag)].art = a
    BY <1>2
  <2> HIDE DEF bags
  <2>3. dirs'[t].bags = bags /\ dirs'[t].marked = dirs[t].marked
    BY <2>1
  <2> QED  BY <1>1, <2>2, <2>3
<1>10. ASSUME NEW j \in 1..i, NEW k, k = <<n, RepOf(j)>>, NEW b, b = DirName(BagOf(j))
       PROVE  /\ k \in DOMAIN dirs' /\ b \in DOMAIN dirs'[k].bags
              /\ dirs'[k].bags[b].art = proc'.results[j]
              /\ RepOf(j) <= q => dirs'[k].marked
  <2>1. CASE j = i
    <3>1. k = t /\ b = DirName(Bag)
      BY <1>5, <1>10, <2>1
    <3>2. ~(RepOf(i) <= q)
      <4>1. RepOf(i) = q + 1 /\ q \in Nat
        <5>1. i - 1 = Len(results)
          BY <1>3 DEF i
        <5>2. Len(results) \div L \in Nat
          BY <1>2, <1>3
        <5> QED  BY <5>1, <5>2 DEF RepOf, q, L
      <4> QED  BY <4>1
    <3> QED  BY <1>2, <1>7, <1>9, <2>1, <3>1, <3>2
  <2>2. CASE j # i
    <3>1. j \in DOMAIN results /\ j \in Nat \ {0}
      BY <1>3, <1>5, <1>7, <2>2 DEF i
    <3>2. /\ k \in DOMAIN dirs /\ b \in DOMAIN dirs[k].bags
          /\ dirs[k].bags[b].art = results[j]
          /\ RepOf(j) <= q => dirs[k].marked
      BY <1>3, <1>10, <3>1 DEF Filed
    <3>3. CASE k # t
      BY <1>7, <1>9, <3>1, <3>2, <3>3
    <3>4. CASE k = t
      <4>1. RepOf(j) = RepOf(i)
        BY <1>5, <1>10, <3>4
      <4>2. BagOf(j) # BagOf(i)
        BY <1>5, <2>2, <3>1, <4>1, PlaceOnce
      <4>3. b # DirName(Bag)
        <5>1. BagOf(j) \in Bags
          BY <3>1, PlaceOf
        <5> QED  BY <1>5, <1>10, <4>2, <5>1 DEF NamesApart
      <4> QED  BY <1>7, <1>9, <3>1, <3>2, <3>4, <4>3
    <3> QED  BY <3>3, <3>4
  <2> QED  BY <2>1, <2>2
<1>11. Filed(proc.num, proc.results, MarkedReps)'
  BY <1>4, <1>7, <1>8, <1>10 DEF Filed, n
<1>12. proc'.pc # "tell"
  BY <1>4
<1> QED
  BY <1>7, <1>11, <1>12 DEF InProgress

(* trial.json marks the directory of the repetition that was finished.     *)
LEMMA MarkerFiles ==
  ASSUME NEW n, n = proc.num, NEW results, results = proc.results,
         ProcInv, RowsInv, WorkInv, DirsShape, InProgress, [Next]_vars, WriteMarker
  PROVE  InProgress'
<1> DEFINE q == Len(results) \div Len(Stems)
<1>c. proc = [pc |-> proc.pc, opt |-> proc.opt, target |-> proc.target,
              before |-> proc.before, left |-> proc.left,
              crashes |-> proc.crashes, num |-> proc.num,
              known |-> proc.known, results |-> proc.results,
              values |-> proc.values]
  BY DEF ProcInv, ProcShape
<1>1. /\ proc.pc = "mark" /\ LastDir \in DOMAIN dirs
      /\ dirs' = [dirs EXCEPT ![LastDir].marked = TRUE]
      /\ proc'.results = results /\ proc'.num = n /\ proc'.opt = proc.opt
      /\ proc'.pc = IF Len(results) = proc.opt.reps * Len(Stems) THEN "tell" ELSE "bag"
  BY <1>c DEF WriteMarker, Goto
<1>2. results \in Seq(DOMAIN Artefacts) /\ Filed(n, results, q - 1)
  BY <1>1 DEF InProgress, MarkedReps, Working, WorkInv
<1>3. LastDir = <<n, q>>
  BY DEF LastDir
<1>4. MarkedReps' = q
  BY <1>1 DEF MarkedReps
<1>5. /\ DOMAIN dirs' = DOMAIN dirs /\ dirs'[LastDir].marked
  <2> DEFINE t == LastDir
  <2>1. t \in DOMAIN dirs /\ dirs' = [dirs EXCEPT ![t].marked = TRUE]
    BY <1>1
  <2> HIDE DEF t
  <2>2. dirs'[t] = [dirs[t] EXCEPT !.marked = TRUE] /\ DOMAIN dirs' = DOMAIN dirs
    BY <2>1
  <2>3. dirs[t] = [bags |-> dirs[t].bags, marked |-> dirs[t].marked]
    BY <2>1 DEF DirsShape
  <2>4. dirs'[t].marked
    BY <2>2, <2>3
  <2> QED  BY <2>2, <2>4 DEF t
<1>6. \A k \in DOMAIN dirs : Kept(k)
  <2>1. ~EndBag /\ ~Cleanup
    BY <1>1 DEF EndBag, Cleanup
  <2>2. ~Other
    BY <1>1 DEF Other
  <2> QED  BY <2>1, <2>2, DirsMove
<1>7. Filed(n, results, q - 1)'
  <2>1. \A i \in DOMAIN results : Kept(<<n, RepOf(i)>>)
    BY <1>2, <1>6 DEF Filed
  <2> QED  BY <1>2, <2>1, FiledKept
<1>8. Filed(n, results, q)'
  <2>1. results \in Seq(DOMAIN Artefacts) /\ Len(Stems) \in Nat \ {0}
    BY <1>2, StudyAssumption
  <2> DEFINE m == Len(Stems)
             len == Len(results)
  <2>2. m \in Nat \ {0} /\ len \in Nat
    BY <2>1
  <2> HIDE DEF m, len
  <2>3. len \div m \in Nat
    BY <2>2, DivMod
  <2>4. q \in Nat
    BY <2>3 DEF m, len
  <2> HIDE DEF q
  <2>5. ASSUME NEW i \in DOMAIN results, NEW k, k = <<n, RepOf(i)>>
        PROVE  RepOf(i) <= q => dirs'[k].marked
    <3>1. CASE RepOf(i) = q
      BY <1>3, <1>5, <2>5, <3>1
    <3>2. CASE RepOf(i) # q
      <4>1. i \in Nat \ {0}
        BY <2>1
      <4>2. RepOf(i) <= q => RepOf(i) <= q - 1
        <5> DEFINE r == RepOf(i)
        <5>1. r \in Nat /\ r # q
          BY <3>2, <4>1, PlaceOf
        <5> HIDE DEF r
        <5>2. r <= q => r <= q - 1
          BY <2>4, <5>1
        <5> QED  BY <5>2 DEF r
      <4> QED  BY <1>7, <2>5, <4>2 DEF Filed
    <3> QED  BY <3>1, <3>2
  <2> QED  BY <1>7, <2>5 DEF Filed
<1>9. proc'.pc = "tell" => Len(results) = proc.opt.reps * Len(Stems)
  BY <1>1
<1> QED
  BY <1>1, <1>2, <1>4, <1>8, <1>9 DEF InProgress

LEMMA ProgressStep ==
  ASSUME NamesApart, ProcInv, RowsInv, WorkInv, DirsShape, InProgress,
         [Next]_vars, ~Other
  PROVE  InProgress'
<1>c. proc = [pc |-> proc.pc, opt |-> proc.opt, target |-> proc.target,
              before |-> proc.before, left |-> proc.left,
              crashes |-> proc.crashes, num |-> proc.num,
              known |-> proc.known, results |-> proc.results,
              values |-> proc.values]
  BY DEF ProcInv, ProcShape
<1>1. CASE proc'.pc \notin Working
  BY <1>1 DEF InProgress
<1>2. CASE EndBag
  BY <1>2, EndBagFiles
<1>3. CASE WriteMarker
  BY <1>3, MarkerFiles
<1>4. CASE Ask
  <2>1. proc'.results = <<>> /\ proc'.opt = proc.opt
        /\ proc'.pc = IF proc.opt.objective = "real" THEN "bag" ELSE "tell"
    BY <1>4, <1>c DEF Ask
  <2>2. <<>> \in Seq(DOMAIN Artefacts) /\ DOMAIN <<>> = {}
    OBVIOUS
  <2>3. Filed(proc.num, proc.results, MarkedReps)'
    BY <2>1, <2>2 DEF Filed
  <2> QED  BY <2>1, <2>2, <2>3 DEF InProgress
<1>5. CASE BeginBag \/ Rescore \/ UNCHANGED vars
  <2>1. ASSUME NEW n, n = proc.num, NEW results, results = proc.results,
               NEW q, q = MarkedReps, proc'.pc \in Working,
               proc'.opt.objective = "real"
        PROVE  /\ results \in Seq(DOMAIN Artefacts) /\ Filed(n, results, q)'
               /\ proc'.num = n /\ proc'.results = results /\ MarkedReps' = q
               /\ proc'.pc = "tell" => Len(results) = proc'.opt.reps * Len(Stems)
    <3>1. /\ proc'.num = n /\ proc'.results = results /\ proc'.opt = proc.opt
          /\ proc'.pc = proc.pc \/ (proc.pc = "bag" /\ proc'.pc = "play")
      <4>1. CASE BeginBag
        BY <2>1, <4>1, <1>c DEF BeginBag, Goto
      <4>2. CASE Rescore \/ UNCHANGED vars
        BY <2>1, <4>2 DEF Rescore, vars
      <4> QED  BY <1>5, <4>1, <4>2
    <3>2. /\ results \in Seq(DOMAIN Artefacts) /\ Filed(n, results, q)
          /\ proc.pc = "tell" => Len(results) = proc.opt.reps * Len(Stems)
      BY <2>1, <3>1 DEF InProgress, Working
    <3>3. MarkedReps' = q
      BY <2>1, <3>1 DEF MarkedReps
    <3>4. \A k \in DOMAIN dirs : Kept(k)
      <4>1. CASE dirs' = dirs
        BY <4>1 DEF Kept
      <4>2. CASE BeginBag \/ Rescore
        <5>1. ~EndBag
          <6>1. CASE BeginBag
            BY <6>1 DEF BeginBag, EndBag
          <6>2. CASE Rescore
            BY <6>2 DEF Rescore, Active, Ended, EndBag
          <6> QED  BY <4>2, <6>1, <6>2
        <5>2. ~Cleanup
          <6>1. CASE BeginBag
            BY <6>1 DEF BeginBag, Cleanup
          <6>2. CASE Rescore
            BY <6>2 DEF Rescore, Active, Ended, Cleanup
          <6> QED  BY <4>2, <6>1, <6>2
        <5> QED  BY <5>1, <5>2, DirsMove
      <4> QED  BY <1>5, <4>1, <4>2 DEF vars
    <3>5. \A i \in DOMAIN results : Kept(<<n, RepOf(i)>>)
      BY <3>2, <3>4 DEF Filed
    <3>6. Filed(n, results, q)'
      BY <3>2, <3>5, FiledKept
    <3> QED  BY <3>1, <3>2, <3>3, <3>6
  <2> QED  BY <2>1 DEF InProgress
<1>6. CASE Start \/ Cleanup \/ OpenStudy \/ Resume \/ AskMixed
  BY <1>1, <1>6, <1>c
  DEF Start, Cleanup, OpenStudy, Resume, AskMixed, Goto, Gone, Working
<1>7. CASE WriteFails
  <2>1. proc' = Gone("crashed") \/ proc' = [proc EXCEPT !.pc = "recover", !.results = <<>>]
    BY <1>7 DEF WriteFails
  <2>2. CASE proc' = Gone("crashed")
    BY <1>1, <2>2 DEF Gone, Working
  <2>3. CASE proc' = [proc EXCEPT !.pc = "recover", !.results = <<>>]
    BY <1>1, <2>3, <1>c DEF Working
  <2> QED  BY <2>1, <2>2, <2>3
<1>8. CASE Tell \/ TellRefused \/ Recover \/ Summarise \/ Kill
  <2>1. proc'.pc \in {"ask", "summary", "recover", "aborted", "loop", "crashed",
                      "done", "killed"}
    <3>1. CASE Tell
      BY <3>1, <1>c DEF Tell
    <3>2. CASE TellRefused
      BY <3>2, <1>c DEF TellRefused
    <3>3. CASE Recover
      BY <3>3, <1>c DEF Recover
    <3>4. CASE Summarise
      BY <3>4, <1>c DEF Summarise, Goto
    <3>5. CASE Kill
      BY <3>5 DEF Kill, Gone
    <3> QED  BY <1>8, <3>1, <3>2, <3>3, <3>4, <3>5
  <2> QED  BY <1>1, <2>1 DEF Working
<1> QED
  BY <1>2, <1>3, <1>4, <1>5, <1>6, <1>7, <1>8 DEF Next, Step

(* What Tell completes has the results and the values of the process.      *)
LEMMA Told ==
  ASSUME NEW m, m = proc.num, NEW results, results = proc.results,
         ProcInv, RowsInv, WorkInv, Tell,
         m \in Completed(rows')
  PROVE  /\ proc.pc = "tell" /\ proc.opt \in Options
         /\ rows'[m].opt = proc.opt /\ rows'[m].results = results
         /\ proc.opt.objective = "real" => rows'[m].values = Values(proc.opt, results)
<1> DEFINE opt == proc.opt
<1>1. /\ proc.pc = "tell" /\ m \in DOMAIN rows /\ rows[m].opt = opt
      /\ opt \in Options
  BY DEF Tell, ProcInv, ProcShape, Active, Ended, WorkInv, Working, RowsInv, RowsShape
<1>2. PICK values :
        /\ opt.objective = "real" => values = Values(opt, results)
        /\ rows' = [rows EXCEPT ![m] =
             IF Len(values) = Len(study)
             THEN [@ EXCEPT !.state = "COMPLETE", !.values = values,
                            !.results = results]
             ELSE [@ EXCEPT !.state = "FAIL"]]
  <2> DEFINE values == IF opt.objective = "real" THEN Values(opt, proc.results)
                       ELSE proc.values
  <2>1. rows' = [rows EXCEPT ![proc.num] =
             IF Len(values) = Len(study)
             THEN [@ EXCEPT !.state = "COMPLETE", !.values = values,
                            !.results = proc.results]
             ELSE [@ EXCEPT !.state = "FAIL"]]
    BY DEF Tell
  <2>2. opt.objective = "real" => values = Values(opt, results)
    OBVIOUS
  <2> HIDE DEF values
  <2> QED  BY <2>1, <2>2
<1>3. rows[m] = [state |-> rows[m].state, opt |-> opt,
                 results |-> rows[m].results, values |-> rows[m].values]
  BY <1>1 DEF RowsInv, RowsShape
<1>4. CASE Len(values) # Len(study)
  <2>1. rows'[m] = [rows[m] EXCEPT !.state = "FAIL"]
    BY <1>1, <1>2, <1>4
  <2>2. rows'[m].state = "FAIL"
    BY <1>3, <2>1
  <2> QED  BY <2>2 DEF Completed
<1>5. CASE Len(values) = Len(study)
  <2>1. rows'[m] = [rows[m] EXCEPT !.state = "COMPLETE", !.values = values,
                                   !.results = results]
    BY <1>1, <1>2, <1>5
  <2>2. rows'[m] = [state |-> "COMPLETE", opt |-> opt,
                    results |-> results, values |-> values]
    <3> DEFINE x == rows[m]
    <3>1. x = [state |-> x.state, opt |-> opt, results |-> x.results, values |-> x.values]
      BY <1>3
    <3>2. rows'[m] = [x EXCEPT !.state = "COMPLETE", !.values = values,
                               !.results = results]
      BY <2>1
    <3> HIDE DEF x, opt
    <3>3. [x EXCEPT !.state = "COMPLETE", !.values = values, !.results = results] =
            [state |-> "COMPLETE", opt |-> opt, results |-> results, values |-> values]
      <4> DEFINE y == [x EXCEPT !.state = "COMPLETE"]
                 z == [y EXCEPT !.values = values]
                 w == [z EXCEPT !.results = results]
      <4>1. y = [state |-> "COMPLETE", opt |-> opt, results |-> x.results,
                 values |-> x.values]
        BY <3>1
      <4> HIDE DEF y
      <4>2. z = [state |-> "COMPLETE", opt |-> opt, results |-> x.results,
                 values |-> values]
        BY <4>1
      <4> HIDE DEF z
      <4>3. w = [state |-> "COMPLETE", opt |-> opt, results |-> results,
                 values |-> values]
        BY <4>2
      <4> QED  BY <4>3 DEF y, z
    <3> QED  BY <3>2, <3>3
  <2>3. rows'[m].opt = opt /\ rows'[m].results = results /\ rows'[m].values = values
    BY <2>2
  <2> QED  BY <1>1, <1>2, <2>3
<1> QED  BY <1>4, <1>5

(* What Tell completes was in progress.                                    *)
LEMMA TellRecords ==
  ASSUME NEW m, m = proc.num, NEW results, results = proc.results,
         ProcInv, RowsInv, WorkInv, DirsShape, InProgress, [Next]_vars, Tell,
         m \in Completed(rows')
  PROVE  Recorded(m)'
<1> DEFINE opt == proc.opt
<1>1. SUFFICES ASSUME opt.objective = "real" PROVE Recorded(m)'
  BY Told DEF Recorded
<1>2. /\ proc.pc = "tell" /\ dirs' = dirs /\ opt \in Options
      /\ rows'[m].opt = opt /\ rows'[m].results = results
      /\ rows'[m].values = Values(opt, results)
  <2>1. dirs' = dirs
    BY DEF Tell
  <2> QED  BY <1>1, <2>1, Told
<1>3. /\ results \in Seq(DOMAIN Artefacts) /\ Len(results) = opt.reps * Len(Stems)
      /\ Filed(m, results, MarkedReps)
  BY <1>1, <1>2 DEF InProgress, Working
<1>4. MarkedReps = opt.reps
  <2> DEFINE L == Len(Stems)
             reps == opt.reps
  <2>1. L \in Nat \ {0} /\ reps \in Nat
    BY <1>2, StudyAssumption
  <2>2. MarkedReps = (reps * L) \div L
    BY <1>2, <1>3 DEF MarkedReps
  <2> HIDE DEF L, reps
  <2>3. reps * L = L * reps + 0 /\ 0 \in 0..(L - 1)
    BY <2>1
  <2>4. (L * reps + 0) \div L = reps
    BY <2>1, <2>3, Place
  <2> QED  BY <2>2, <2>3, <2>4 DEF reps
<1> DEFINE reps == opt.reps
<1>5. \A r : Filed(m, results, r) => Filed(m, results, r)'
  BY <1>2 DEF Filed
<1>6. rows'[m].opt.reps = reps /\ Filed(m, results, reps)
  BY <1>2, <1>3, <1>4
<1> QED  BY <1>2, <1>3, <1>5, <1>6 DEF Recorded

LEMMA RecordStep ==
  ASSUME NamesApart
  PROVE  ProcInv /\ RowsInv /\ WorkInv /\ DirsShape /\ RecordInv /\ [Next]_vars
           => RecordInv' /\ DirsShape'
<1> SUFFICES ASSUME ProcInv, RowsInv, WorkInv, DirsShape, RecordInv, [Next]_vars
             PROVE  RecordInv' /\ DirsShape'
  OBVIOUS
<1>1. DirsShape'
  BY DirsMove
<1>2. SUFFICES ASSUME others' = 0 PROVE (AllRecorded /\ InProgress)'
  BY <1>1 DEF RecordInv
<1>3. ~Other /\ others = 0
  <2>1. others' \in {others, others + 1} /\ (Other => others' = others + 1)
    BY DEF Next, Step, Start, Cleanup, OpenStudy, Resume, Ask, AskMixed, BeginBag, EndBag,
       WriteMarker, WriteFails, Tell, TellRefused, Recover, Summarise, Kill, Other,
       Rescore, vars, counters
  <2>2. others \in Nat
    BY DEF ProcInv
  <2> QED  BY <1>2, <2>1, <2>2
<1>4. AllRecorded /\ InProgress
  BY <1>3 DEF RecordInv
<1>5. InProgress'
  BY <1>3, <1>4, ProgressStep
<1>6. \A n \in Completed(rows) : Recorded(n)'
  BY <1>3, <1>4, RecordsStay
<1>7. ASSUME NEW n \in Completed(rows'), n \notin Completed(rows)
      PROVE  Recorded(n)'
  <2>1. Tell
    BY <1>7, CompletedStay
  <2>2. n = proc.num
    BY <1>7, <2>1 DEF Tell, Completed
  <2> QED  BY <1>4, <1>7, <2>1, <2>2, TellRecords
<1> QED
  BY <1>5, <1>6, <1>7 DEF AllRecorded

(* If bags do not share a directory, and no other process works on the     *)
(* output root: however the optimizer was killed and resumed, whatever was *)
(* cleaned up and scored again, a completed trial is on disk, marked, and  *)
(* its values are those of the artefacts that are there.                   *)
THEOREM RecordsKept == ASSUME NamesApart PROVE Spec => []CompletedHasRecord
<1>1. Init => WorkInv /\ DirsShape /\ RecordInv
  <2> SUFFICES ASSUME Init PROVE WorkInv /\ DirsShape /\ RecordInv
    OBVIOUS
  <2>1. proc.pc = "off" /\ DOMAIN rows = {} /\ DOMAIN dirs = {}
    BY DEF Init, Gone
  <2> QED
    BY <2>1 DEF WorkInv, DirsShape, RecordInv, AllRecorded, InProgress, Completed, Working
<1>2. RowsInv /\ RecordInv => CompletedHasRecord
  <2> SUFFICES ASSUME RowsInv, RecordInv, others = 0, NEW n \in Completed(rows),
                      rows[n].opt.objective = "real"
               PROVE  /\ \A r \in 1..rows[n].opt.reps : OnDisk(n, r)
                      /\ rows[n].values = Values(rows[n].opt,
                           [i \in DOMAIN rows[n].results |->
                              dirs[<<n, ((i - 1) \div Len(Stems)) + 1>>]
                                .bags[DirName(((i - 1) % Len(Stems)) + 1)].art])
    BY DEF CompletedHasRecord
  <2> DEFINE results == rows[n].results
             reps == rows[n].opt.reps
             L == Len(Stems)
  <2>1. /\ reps \in Nat /\ results \in Seq(DOMAIN Artefacts)
        /\ Len(results) = reps * L
        /\ rows[n].values = Values(rows[n].opt, results)
        /\ Filed(n, results, reps)
    BY StudyAssumption DEF RecordInv, AllRecorded, Recorded
  <2>2. DOMAIN results = 1..(reps * L)
    BY <2>1
  <2>3. ASSUME NEW r \in 1..reps PROVE OnDisk(n, r)
    <3>1. ASSUME NEW b \in Bags
          PROVE  /\ <<n, r>> \in DOMAIN dirs /\ dirs[<<n, r>>].marked
                 /\ DirName(b) \in DOMAIN dirs[<<n, r>>].bags
      <4>1. PICK i \in DOMAIN results : RepOf(i) = r /\ BagOf(i) = b
        <5>1. /\ L * (r - 1) + b \in 1..(reps * L)
              /\ RepOf(L * (r - 1) + b) = r /\ BagOf(L * (r - 1) + b) = b
          BY <2>1, PlaceWithin
        <5> QED  BY <2>2, <5>1
      <4>2. r <= reps
        BY <2>1
      <4> HIDE DEF results, reps
      <4> QED  BY <2>1, <4>1, <4>2 DEF Filed
    <3>2. 1 \in Bags
      BY StudyAssumption DEF Bags
    <3> QED  BY <3>1, <3>2 DEF OnDisk
  <2>4. [i \in DOMAIN results |->
           dirs[<<n, ((i - 1) \div L) + 1>>].bags[DirName(((i - 1) % L) + 1)].art] = results
    <3>1. \A i \in DOMAIN results :
            dirs[<<n, ((i - 1) \div L) + 1>>].bags[DirName(((i - 1) % L) + 1)].art = results[i]
      BY <2>1 DEF Filed, RepOf, BagOf
    <3>2. results = [i \in DOMAIN results |-> results[i]]
      BY <2>1
    <3> HIDE DEF results
    <3> QED  BY <3>1, <3>2
  <2> QED  BY <2>1, <2>3, <2>4
<1> QED
  BY <1>1, <1>2, ProcAlways, WorkStep, RecordStep, PTL DEF Spec
(* A set of numbers has a least one. *)
LEMMA Least ==
  ASSUME NEW S, S \subseteq Nat, S # {}
  PROVE  \E m \in S : \A k \in S : m <= k
<1>1. PICK m \in S : \A k \in S : <<k, m>> \notin OpToRel(<, Nat)
  BY NatLessThanWellFounded, WFMin
<1>2. \A k \in S : ~(k < m)
  BY <1>1 DEF OpToRel
<1> QED  BY <1>2

(* A multiple of w that is not above x is one of a number not above the    *)
(* quotient; one that is not below x, of a number not below it.            *)
LEMMA Quotient ==
  ASSUME NEW x \in Int, NEW w \in Nat \ {0}, NEW k \in Int
  PROVE  /\ x \div w \in Int
         /\ k * w <= x => k <= x \div w
         /\ x <= k * w => x \div w <= k
<1> DEFINE q == x \div w
<1>1. q \in Int /\ q * w <= x /\ x < q * w + w
  OBVIOUS
<1> HIDE DEF q
<1>2. ASSUME NEW a \in Int, NEW b \in Int, a < b
      PROVE  a * w + w <= b * w
  <2>1. PICK d \in Nat : b = a + 1 + d
    <3>1. b - a - 1 \in Nat /\ b = a + 1 + (b - a - 1)
      BY <1>2
    <3> QED  BY <3>1
  <2>2. b * w = a * w + w + d * w
    BY <2>1
  <2>3. d * w \in Nat
    OBVIOUS
  <2>4. a * w \in Int
    OBVIOUS
  <2> QED  BY <2>2, <2>3, <2>4
<1>3. k * w \in Int /\ q * w \in Int
  BY <1>1
<1>4. ASSUME k * w <= x PROVE k <= q
  <2> SUFFICES ASSUME q < k PROVE FALSE
    BY <1>1
  <2>1. q * w + w <= k * w
    BY <1>1, <1>2
  <2> QED  BY <1>1, <1>3, <1>4, <2>1
<1>5. ASSUME x <= k * w PROVE q <= k
  <2> SUFFICES ASSUME k < q PROVE FALSE
    BY <1>1
  <2>1. k * w + w <= q * w
    BY <1>1, <1>2
  <2> QED  BY <1>1, <1>3, <1>5, <2>1
<1> QED  BY <1>1, <1>4, <1>5 DEF q

-----------------------------------------------------------------------------
(* Order statistics: the value at place k of a sorted sequence does not    *)
(* decrease when values are replaced by larger ones, and with it the       *)
(* aggregates of the metrics.                                              *)

(* Some place of a set has the largest value, and some the smallest.       *)
LEMMA Extremes ==
  ASSUME NEW n \in Nat, NEW x \in [1..n -> Int], NEW J, J \subseteq 1..n, J # {}
  PROVE  /\ \E i \in J : \A j \in J : x[j] <= x[i]
         /\ \E i \in J : \A j \in J : x[i] <= x[j]
<1>1. ASSUME NEW y \in [1..n -> Int]
      PROVE  \E i \in J : \A j \in J : y[j] <= y[i]
  <2> DEFINE above(i) == {j \in J : y[j] > y[i]}
             S == {Cardinality(above(i)) : i \in J}
  <2>1. \A i \in J : IsFiniteSet(above(i)) /\ Cardinality(above(i)) \in Nat
    <3>1. IsFiniteSet(1..n)
      BY FS_Interval
    <3>2. \A i \in J : above(i) \in SUBSET (1..n)
      OBVIOUS
    <3> HIDE DEF above
    <3> QED  BY <3>1, <3>2, FS_Subset, FS_CardinalityType
  <2>2. S \subseteq Nat /\ S # {}
    BY <2>1
  <2>3. PICK i \in J : \A j \in J : Cardinality(above(i)) <= Cardinality(above(j))
    <3> HIDE DEF S
    <3>1. PICK m \in S : \A k \in S : m <= k
      BY <2>2, Least
    <3> HIDE DEF above
    <3> QED  BY <3>1 DEF S
  <2>4. ASSUME NEW j \in J PROVE ~(y[j] > y[i])
    <3> SUFFICES ASSUME y[j] > y[i] PROVE FALSE
      OBVIOUS
    <3>1. above(j) \in SUBSET above(i) /\ j \in above(i) /\ j \notin above(j)
      <4>1. \A l \in J : y[l] \in Int
        OBVIOUS
      <4>2. \A l \in J : y[l] > y[j] => y[l] > y[i]
        BY <4>1
      <4>3. ~(y[j] > y[j])
        BY <4>1
      <4> QED  BY <4>2, <4>3
    <3> HIDE DEF above
    <3>2. Cardinality(above(j)) <= Cardinality(above(i)) /\ above(i) # above(j)
      BY <2>1, <3>1, FS_Subset
    <3>3. Cardinality(above(i)) = Cardinality(above(j))
      BY <2>1, <2>3, <3>2
    <3> QED  BY <2>1, <3>1, <3>2, <3>3, FS_Subset
  <2> QED  BY <2>4
<1> DEFINE y == [k \in 1..n |-> -x[k]]
<1>2. y \in [1..n -> Int] /\ \A k \in J : y[k] = -x[k] /\ x[k] \in Int
  OBVIOUS
<1> HIDE DEF y
<1>3. PICK i \in J : \A j \in J : y[j] <= y[i]
  BY <1>1, <1>2
<1>4. \A j \in J : x[i] <= x[j]
  BY <1>2, <1>3
<1> QED  BY <1>1, <1>4

Below(x, v) == {i \in DOMAIN x : x[i] < v}
UpTo(x, v) == {i \in DOMAIN x : x[i] <= v}

LEMMA Counts ==
  ASSUME NEW x \in Seq(Int), NEW v \in Int
  PROVE  /\ IsFiniteSet(Below(x, v)) /\ Cardinality(Below(x, v)) \in Nat
         /\ IsFiniteSet(UpTo(x, v)) /\ Cardinality(UpTo(x, v)) \in Nat
<1>1. DOMAIN x = 1..Len(x) /\ IsFiniteSet(1..Len(x))
  BY FS_Interval
<1>2. Below(x, v) \in SUBSET (1..Len(x)) /\ UpTo(x, v) \in SUBSET (1..Len(x))
  BY <1>1 DEF Below, UpTo
<1> QED  BY <1>1, <1>2, FS_Subset, FS_CardinalityType

(* What is at place k of a sorted sequence.                                *)
LEMMA Stat ==
  ASSUME NEW x \in Seq(Int), NEW k \in 1..Len(x)
  PROVE  LET v == Sorted[x][k]
         IN  /\ v \in {x[i] : i \in DOMAIN x} /\ v \in Int
             /\ Cardinality(Below(x, v)) < k /\ k <= Cardinality(UpTo(x, v))
<1> DEFINE n == Len(x)
           J == {i \in 1..n : k <= Cardinality(UpTo(x, x[i]))}
<1>1. n \in Nat /\ x \in [1..n -> Int] /\ DOMAIN x = 1..n /\ 1..n # {}
  OBVIOUS
<1>2. J # {}
  <2>1. PICK i \in 1..n : \A j \in 1..n : x[j] <= x[i]
    BY <1>1, Extremes
  <2>2. UpTo(x, x[i]) = 1..n
    BY <1>1, <2>1 DEF UpTo
  <2>3. Cardinality(1..n) = n
    <3> HIDE DEF n, J
    <3> QED  BY <1>1, FS_Interval
  <2> QED  BY <1>1, <2>2, <2>3
<1>3. PICK i \in J : \A j \in J : x[i] <= x[j]
  <2>1. J \subseteq 1..n
    OBVIOUS
  <2> HIDE DEF J, n
  <2> QED  BY ONLY <1>1, <1>2, <2>1, Extremes
<1>4. Cardinality(Below(x, x[i])) < k
  <2>1. CASE Below(x, x[i]) = {}
    BY <2>1, FS_EmptySet
  <2>2. CASE Below(x, x[i]) # {}
    <3>1. Below(x, x[i]) \subseteq 1..n
      BY <1>1 DEF Below
    <3>2. PICK w \in Below(x, x[i]) : \A j \in Below(x, x[i]) : x[j] <= x[w]
      BY <1>1, <2>2, <3>1, Extremes
    <3>3. w \in 1..n /\ x[w] < x[i] /\ x[w] \in Int /\ x[i] \in Int
      BY <1>1, <3>1 DEF Below
    <3>4. UpTo(x, x[w]) = Below(x, x[i])
      BY <1>1, <3>2, <3>3 DEF UpTo, Below
    <3>5. w \notin J
      BY <1>1, <1>3, <3>3
    <3>6. Cardinality(UpTo(x, x[w])) \in Nat
      BY <3>3, Counts
    <3> QED  BY <3>3, <3>4, <3>5, <3>6
  <2> QED  BY <2>1, <2>2
<1> DEFINE Vals(s) == {s[j] : j \in DOMAIN s}
           P(s, l, v) == /\ Cardinality({j \in DOMAIN s : s[j] < v}) < l
                         /\ l <= Cardinality({j \in DOMAIN s : s[j] <= v})
<1>5. Sorted[x][k] = CHOOSE v \in Vals(x) : P(x, k, v)
  BY <1>1 DEF Sorted
<1>6. x[i] \in Vals(x) /\ P(x, k, x[i])
  BY <1>1, <1>3, <1>4 DEF Below, UpTo
<1> HIDE DEF Vals
<1>7. Sorted[x][k] \in Vals(x) /\ P(x, k, Sorted[x][k])
  <2> HIDE DEF P
  <2> QED  BY <1>5, <1>6
<1>8. Vals(x) \subseteq Int
  BY <1>1 DEF Vals
<1> QED  BY <1>7, <1>8 DEF Below, UpTo, Vals

LEMMA SortedMonotone ==
  ASSUME NEW x \in Seq(Int), NEW y \in Seq(Int), Len(x) = Len(y),
         \A i \in 1..Len(x) : x[i] <= y[i], NEW k \in 1..Len(x)
  PROVE  Sorted[x][k] <= Sorted[y][k]
<1> DEFINE a == Sorted[x][k]
           b == Sorted[y][k]
<1>1. /\ a \in Int /\ Cardinality(Below(x, a)) < k
      /\ b \in Int /\ k <= Cardinality(UpTo(y, b))
  BY Stat
<1> HIDE DEF a, b
<1>2. SUFFICES ASSUME b < a PROVE FALSE
  BY <1>1 DEF a, b
<1>3. UpTo(y, b) \in SUBSET Below(x, a)
  BY <1>1, <1>2 DEF UpTo, Below
<1>4. Cardinality(UpTo(y, b)) <= Cardinality(Below(x, a))
  BY <1>1, <1>3, Counts, FS_Subset
<1>5. Cardinality(UpTo(y, b)) \in Nat /\ Cardinality(Below(x, a)) \in Nat
  BY <1>1, Counts
<1> QED  BY <1>1, <1>4, <1>5

LEMMA SortedShape ==
  ASSUME NEW x \in Seq(Int)
  PROVE  /\ DOMAIN Sorted[x] = 1..Len(x) /\ Len(Sorted[x]) = Len(x)
         /\ \A k \in 1..Len(x) : Sorted[x][k] \in Int
<1>1. DOMAIN Sorted[x] = 1..Len(x)
  BY DEF Sorted
<1>2. \A k \in 1..Len(x) : Sorted[x][k] \in Int
  BY Stat
<1>3. Sorted[x] = [k \in 1..Len(x) |-> Sorted[x][k]]
  <2> DEFINE g(k) == CHOOSE v \in {x[i] : i \in DOMAIN x} :
                       /\ Cardinality({i \in DOMAIN x : x[i] < v}) < k
                       /\ k <= Cardinality({i \in DOMAIN x : x[i] <= v})
  <2>1. Sorted[x] = [k \in 1..Len(x) |-> g(k)]
    BY DEF Sorted
  <2> HIDE DEF g
  <2> QED  BY <2>1
<1>4. Sorted[x] \in Seq(Int)
  BY <1>2, <1>3
<1> QED  BY <1>1, <1>2, <1>4

(* What the median, the largest value and a quantile are made of.          *)
LEMMA Steady ==
  ASSUME NEW x \in Seq(Int), NEW y \in Seq(Int), Len(x) = Len(y), x # <<>>,
         \A i \in 1..Len(x) : x[i] <= y[i]
  PROVE  /\ Median[x] \in Int /\ Median[x] <= Median[y]
         /\ Largest[x] \in Int /\ Largest[x] <= Largest[y]
         /\ \A pct \in 0..100 : Quantile(x, pct) \in Int /\ Quantile(x, pct) <= Quantile(y, pct)
<1> DEFINE n == Len(x)
           s == Sorted[x]
           t == Sorted[y]
<1>1. n \in Nat \ {0} /\ y # <<>>
  OBVIOUS
<1>2. /\ Len(s) = n /\ Len(t) = n
      /\ \A k \in 1..n : s[k] \in Int /\ t[k] \in Int /\ s[k] <= t[k]
  BY SortedShape, SortedMonotone
<1>3. /\ Median[x] = LET middle == (Len(s) + 1) \div 2
                     IN  IF Len(s) % 2 = 1 THEN s[middle] ELSE (s[middle] + s[middle + 1]) \div 2
      /\ Median[y] = LET middle == (Len(t) + 1) \div 2
                     IN  IF Len(t) % 2 = 1 THEN t[middle] ELSE (t[middle] + t[middle + 1]) \div 2
      /\ Largest[x] = s[n] /\ Largest[y] = t[n]
  BY DEF Median, Largest
<1>4. ASSUME NEW pct \in 0..100
      PROVE  LET index == pct * (n - 1)
                 lo == index \div 100
                 hi == MinOf(lo + 1, n - 1)
                 frac == index % 100
             IN  /\ Quantile(x, pct) = (s[lo + 1] * (100 - frac) + s[hi + 1] * frac) \div 100
                 /\ Quantile(y, pct) = (t[lo + 1] * (100 - frac) + t[hi + 1] * frac) \div 100
  BY <1>1, <1>2 DEF Quantile
<1> HIDE DEF s, t, n
<1>5. Median[x] \in Int /\ Median[x] <= Median[y]
  <2> DEFINE middle == (n + 1) \div 2
  <2>1. middle \in 1..n /\ (n % 2 # 1 => middle + 1 \in 1..n)
    <3>1. ASSUME NEW m \in Nat, n = 2 * m \/ n = 2 * m + 1
          PROVE  middle \in 1..n /\ (n % 2 # 1 => middle + 1 \in 1..n)
      <4>1. CASE n = 2 * m
        BY <1>1, <4>1
      <4>2. CASE n = 2 * m + 1
        BY <4>2
      <4> QED  BY <3>1, <4>1, <4>2
    <3>2. n \div 2 \in Nat /\ (n = 2 * (n \div 2) \/ n = 2 * (n \div 2) + 1)
      BY <1>1
    <3> QED  BY <3>1, <3>2
  <2> HIDE DEF middle
  <2>2. CASE n % 2 = 1
    BY <1>2, <1>3, <2>1, <2>2 DEF middle
  <2>3. CASE n % 2 # 1
    <3>1. /\ Median[x] = (s[middle] + s[middle + 1]) \div 2
          /\ Median[y] = (t[middle] + t[middle + 1]) \div 2
      BY <1>2, <1>3, <2>3 DEF middle
    <3>2. /\ s[middle] + s[middle + 1] \in Int /\ t[middle] + t[middle + 1] \in Int
          /\ s[middle] + s[middle + 1] <= t[middle] + t[middle + 1]
      <4>1. /\ s[middle] \in Int /\ t[middle] \in Int /\ s[middle] <= t[middle]
            /\ s[middle + 1] \in Int /\ t[middle + 1] \in Int /\ s[middle + 1] <= t[middle + 1]
        BY ONLY <1>2, <2>1, <2>3
      <4> QED  BY ONLY <4>1
    <3> QED  BY <3>1, <3>2
  <2> QED  BY <2>2, <2>3
<1>6. Largest[x] \in Int /\ Largest[x] <= Largest[y]
  BY <1>1, <1>2, <1>3
<1>7. ASSUME NEW pct \in 0..100
      PROVE  Quantile(x, pct) \in Int /\ Quantile(x, pct) <= Quantile(y, pct)
  <2> DEFINE index == pct * (n - 1)
             lo == index \div 100
             hi == MinOf(lo + 1, n - 1)
             frac == index % 100
  <2>1. index \in Nat /\ index <= 100 * (n - 1)
    <3>1. \A m \in Nat : pct * m \in Nat /\ 100 * m = pct * m + (100 - pct) * m
                        /\ (100 - pct) * m \in Nat
      OBVIOUS
    <3>2. n - 1 \in Nat
      BY <1>1
    <3> HIDE DEF n
    <3> QED  BY <3>1, <3>2
  <2> HIDE DEF index
  <2>2. frac \in 0..99 /\ lo \in 0..(n - 1)
    BY <1>1, <2>1
  <2> HIDE DEF lo, frac
  <2>3. lo + 1 \in 1..n /\ hi + 1 \in 1..n
    BY <1>1, <2>2 DEF MinOf
  <2> DEFINE a == s[lo + 1]
             b == s[hi + 1]
             c == t[lo + 1]
             d == t[hi + 1]
  <2>4. a \in Int /\ b \in Int /\ c \in Int /\ d \in Int /\ a <= c /\ b <= d
    BY <1>2, <2>3
  <2>5. /\ Quantile(x, pct) = (a * (100 - frac) + b * frac) \div 100
        /\ Quantile(y, pct) = (c * (100 - frac) + d * frac) \div 100
    BY <1>4 DEF index, lo, frac
  <2> HIDE DEF a, b, c, d
  <2>6. ASSUME NEW u \in Int, NEW v \in Int, NEW f \in Nat, u <= v
        PROVE  u * f \in Int /\ v * f \in Int /\ u * f <= v * f
    <3>1. PICK g \in Nat : v = u + g
      <4>1. v - u \in Nat /\ v = u + (v - u)
        BY <2>6
      <4> QED  BY <4>1
    <3>2. v * f = u * f + g * f /\ g * f \in Nat
      BY <3>1
    <3> QED  BY <3>2
  <2>7. 100 - frac \in Nat /\ frac \in Nat
    BY <2>2
  <2>8. /\ a * (100 - frac) \in Int /\ c * (100 - frac) \in Int
        /\ a * (100 - frac) <= c * (100 - frac)
        /\ b * frac \in Int /\ d * frac \in Int /\ b * frac <= d * frac
    BY <2>4, <2>6, <2>7
  <2>9. ASSUME NEW p \in Int, NEW q \in Int, p <= q
        PROVE  p \div 100 \in Int /\ p \div 100 <= q \div 100
    BY <2>9
  <2> QED
    <3>1. /\ a * (100 - frac) + b * frac \in Int /\ c * (100 - frac) + d * frac \in Int
          /\ a * (100 - frac) + b * frac <= c * (100 - frac) + d * frac
      <4>1. ASSUME NEW e \in Int, NEW f \in Int, NEW g \in Int, NEW h \in Int, e <= f, g <= h
            PROVE  e + g \in Int /\ f + h \in Int /\ e + g <= f + h
        BY <4>1
      <4> QED  BY <2>8, <4>1
    <3> QED  BY <2>5, <2>9, <3>1
<1> QED  BY <1>5, <1>6, <1>7

(* A trial whose bag runs have larger values has no smaller value.         *)
Aggregators == {"median", "max", "q75", "q90"}

LEMMA AggregateSteady ==
  ASSUME NEW metric, metric.aggregator \in Aggregators, NEW n \in Nat \ {0},
         NEW p, DOMAIN p = 1..n, NEW q, DOMAIN q = 1..n,
         \A i \in 1..n : /\ Value(metric, p[i]) \in Int /\ Value(metric, q[i]) \in Int
                         /\ Value(metric, p[i]) <= Value(metric, q[i])
  PROVE  Aggregate(metric, p) \in Int /\ Aggregate(metric, p) <= Aggregate(metric, q)
<1> DEFINE x == [i \in 1..n |-> Value(metric, p[i])]
           y == [i \in 1..n |-> Value(metric, q[i])]
<1>1. /\ x \in Seq(Int) /\ y \in Seq(Int) /\ Len(x) = n /\ Len(y) = n
      /\ \A i \in 1..n : x[i] <= y[i]
  <2>1. /\ x \in [1..n -> Int] /\ y \in [1..n -> Int]
        /\ \A i \in 1..n : x[i] <= y[i]
    OBVIOUS
  <2> HIDE DEF x, y
  <2> QED  BY <2>1
<1>2. x # <<>>
  BY <1>1
<1>3. p # <<>> /\ q # <<>>
  OBVIOUS
<1>4. /\ Aggregate(metric, p) = CASE p = <<>> -> metric.fail
            [] metric.aggregator = "median" -> Median[x]
            [] metric.aggregator = "max" -> Largest[x]
            [] metric.aggregator = "q75" -> Quantile(x, 75)
            [] metric.aggregator = "q90" -> Quantile(x, 90)
      /\ Aggregate(metric, q) = CASE q = <<>> -> metric.fail
            [] metric.aggregator = "median" -> Median[y]
            [] metric.aggregator = "max" -> Largest[y]
            [] metric.aggregator = "q75" -> Quantile(y, 75)
            [] metric.aggregator = "q90" -> Quantile(y, 90)
  BY DEF Aggregate
<1> HIDE DEF x, y
<1>5. /\ Median[x] \in Int /\ Median[x] <= Median[y]
      /\ Largest[x] \in Int /\ Largest[x] <= Largest[y]
      /\ Quantile(x, 75) \in Int /\ Quantile(x, 75) <= Quantile(y, 75)
      /\ Quantile(x, 90) \in Int /\ Quantile(x, 90) <= Quantile(y, 90)
  <2>1. /\ Median[x] \in Int /\ Median[x] <= Median[y]
        /\ Largest[x] \in Int /\ Largest[x] <= Largest[y]
        /\ \A pct \in 0..100 : Quantile(x, pct) \in Int /\ Quantile(x, pct) <= Quantile(y, pct)
    BY <1>1, <1>2, Steady
  <2>2. 75 \in 0..100 /\ 90 \in 0..100
    OBVIOUS
  <2> QED  BY <2>1, <2>2
<1> QED  BY <1>3, <1>4, <1>5 DEF Aggregators

(* In m repetitions of n bags no value of p is above that of q.            *)
NowhereAbove(metric, m, n, p, q) ==
  /\ DOMAIN p = 1..m /\ DOMAIN q = 1..m
  /\ \A r \in 1..m : DOMAIN p[r] = 1..n /\ DOMAIN q[r] = 1..n
  /\ \A r \in 1..m, i \in 1..n :
       /\ Value(metric, p[r][i]) \in Int /\ Value(metric, q[r][i]) \in Int
       /\ Value(metric, p[r][i]) <= Value(metric, q[r][i])

LEMMA TrialSteady ==
  ASSUME NEW metric, metric.aggregator \in Aggregators,
         NEW m \in Nat \ {0}, NEW n \in Nat \ {0},
         NEW p, NEW q, NowhereAbove(metric, m, n, p, q)
  PROVE  /\ TrialValue(metric, p) \in Int /\ TrialValue(metric, q) \in Int
         /\ TrialValue(metric, p) <= TrialValue(metric, q)
<1> USE DEF NowhereAbove
<1> DEFINE x == [r \in 1..m |-> Aggregate(metric, p[r])]
           y == [r \in 1..m |-> Aggregate(metric, q[r])]
<1>1. \A r \in 1..m : /\ Aggregate(metric, p[r]) \in Int
                      /\ Aggregate(metric, p[r]) <= Aggregate(metric, q[r])
  BY AggregateSteady
<1>2. \A r \in 1..m : Aggregate(metric, q[r]) \in Int
  <2>1. ASSUME NEW r \in 1..m
        PROVE  \A i \in 1..n : /\ Value(metric, q[r][i]) \in Int
                               /\ Value(metric, q[r][i]) <= Value(metric, q[r][i])
    <3>1. \A i \in 1..n : Value(metric, q[r][i]) \in Int
      OBVIOUS
    <3> QED  BY <3>1
  <2> QED  BY <2>1, AggregateSteady
<1>3. /\ x \in Seq(Int) /\ y \in Seq(Int) /\ Len(x) = m /\ Len(y) = m
      /\ \A i \in 1..m : x[i] <= y[i]
  <2>1. /\ x \in [1..m -> Int] /\ y \in [1..m -> Int]
        /\ \A i \in 1..m : x[i] <= y[i]
    BY <1>1, <1>2
  <2> HIDE DEF x, y
  <2> QED  BY <2>1
<1>4. TrialValue(metric, p) = Median[x] /\ TrialValue(metric, q) = Median[y]
  BY DEF TrialValue
<1> HIDE DEF x, y
<1>5. x # <<>> /\ y # <<>>
  BY <1>3
<1>6. Median[x] \in Int /\ Median[x] <= Median[y]
  BY <1>3, <1>5, Steady
<1>7. Median[y] \in Int
  <2>1. \A i \in 1..Len(y) : y[i] <= y[i]
    <3>1. \A i \in 1..Len(y) : y[i] \in Int
      BY <1>3
    <3> QED  BY <3>1
  <2> QED  BY <1>3, <1>5, <2>1, Steady
<1> QED  BY <1>4, <1>6, <1>7
-----------------------------------------------------------------------------
(* What is read from a bag run: the statistics of the bounded metrics are  *)
(* within their bounds.                                                    *)

(* A set that holds zero, and the successor of what it holds up to N.      *)
LEMMA Upward ==
  ASSUME NEW N \in Nat, NEW S, 0 \in S, \A n \in 1..N : n - 1 \in S => n \in S
  PROVE  0..N \subseteq S
<1> SUFFICES ASSUME (0..N) \ S # {} PROVE FALSE
  OBVIOUS
<1>1. PICK n \in (0..N) \ S : \A k \in (0..N) \ S : n <= k
  <2>1. (0..N) \ S \subseteq Nat
    OBVIOUS
  <2> QED  BY <2>1, Least
<1>2. n \in 1..N /\ n - 1 \in 0..N /\ ~(n <= n - 1)
  BY <1>1
<1> QED  BY <1>1, <1>2

(* A function that gives the value at n from the one before it.            *)
Recursive(f, N, A, a, step) ==
  /\ f \in [0..N -> A] /\ f[0] = a
  /\ \A n \in 1..N : f[n] = step[n][f[n - 1]]

LEMMA Recursion ==
  ASSUME NEW N \in Nat, NEW A, NEW a \in A,
         NEW step, \A n \in 1..N, x \in A : step[n][x] \in A
  PROVE  \E f : Recursive(f, N, A, a, step)
<1> DEFINE Is(f, n) == /\ f \in [0..n -> A] /\ f[0] = a
                       /\ \A i \in 1..n : f[i] = step[i][f[i - 1]]
           S == {n \in 0..N : \E f : Is(f, n)}
<1>1. 0 \in S
  <2>1. Is([i \in 0..0 |-> a], 0)
    <3>1. 0..0 = {0} /\ 1..0 = {}
      OBVIOUS
    <3> QED  BY <3>1
  <2>2. 0 \in 0..N
    OBVIOUS
  <2> HIDE DEF Is
  <2> QED  BY <2>1, <2>2
<1>2. ASSUME NEW n \in 1..N, n - 1 \in S PROVE n \in S
  <2>1. PICK f : Is(f, n - 1)
    BY <1>2
  <2> DEFINE g == [i \in 0..n |-> IF i = n THEN step[n][f[n - 1]] ELSE f[i]]
  <2>2. n - 1 \in 0..(n - 1) /\ f[n - 1] \in A /\ step[n][f[n - 1]] \in A
    BY <2>1
  <2>3. /\ \A i \in 0..n : i = n \/ i \in 0..(n - 1)
        /\ \A i \in 1..n : (i = n \/ i \in 1..(n - 1)) /\ i - 1 \in 0..(n - 1) /\ i - 1 # n
        /\ 0 # n /\ 0 \in 0..n /\ \A i \in 0..(n - 1) : i # n /\ i \in 0..n
    OBVIOUS
  <2>4. g \in [0..n -> A] /\ g[0] = a /\ g[n] = step[n][f[n - 1]]
        /\ \A i \in 0..(n - 1) : g[i] = f[i]
    BY <2>1, <2>2, <2>3
  <2> HIDE DEF g
  <2>5. \A i \in 1..n : g[i] = step[i][g[i - 1]]
    BY <2>1, <2>3, <2>4
  <2>6. Is(g, n)
    BY <2>4, <2>5
  <2> HIDE DEF Is
  <2> QED  BY <2>6
<1> HIDE DEF S
<1>3. N \in S
  BY <1>1, <1>2, Upward
<1> QED  BY <1>3 DEF S, Recursive

LEMMA TotalIs ==
  ASSUME NEW v \in Seq(Int)
  PROVE  \E sum \in [0..Len(v) -> Int] :
           /\ sum[0] = 0 /\ \A n \in 1..Len(v) : sum[n] = sum[n - 1] + v[n]
           /\ Total(v) = sum[Len(v)]
<1> DEFINE N == Len(v)
           P(f) == f = [n \in 0..N |-> IF n = 0 THEN 0 ELSE f[n - 1] + v[n]]
           sum == CHOOSE f : P(f)
           step == [n \in 1..N |-> [x \in Int |-> x + v[n]]]
<1>1. N \in Nat /\ \A n \in 1..N : v[n] \in Int
  OBVIOUS
<1>2. \A n \in 1..N, x \in Int : step[n][x] = x + v[n] /\ step[n][x] \in Int
  BY <1>1
<1>3. PICK f \in [0..N -> Int] : f[0] = 0 /\ \A n \in 1..N : f[n] = step[n][f[n - 1]]
  <2> DEFINE A == Int
  <2>1. 0 \in A /\ N \in Nat /\ \A n \in 1..N, x \in A : step[n][x] \in A
    BY <1>1, <1>2
  <2> HIDE DEF step, N, A
  <2>2. \E f : Recursive(f, N, A, 0, step)
    BY <2>1, Recursion
  <2> QED  BY <2>2 DEF A, Recursive
<1>4. \A n \in 1..N : f[n - 1] \in Int /\ f[n] = f[n - 1] + v[n]
  <2>1. ASSUME NEW n \in 1..N PROVE f[n - 1] \in Int /\ f[n] = f[n - 1] + v[n]
    <3>1. f[n - 1] \in Int
      BY <1>1, <1>3
    <3> HIDE DEF step
    <3> QED  BY <1>2, <1>3, <3>1
  <2> QED  BY <2>1
<1>5. P(f)
  <2>1. \A n \in 0..N : f[n] = IF n = 0 THEN 0 ELSE f[n - 1] + v[n]
    BY <1>1, <1>3, <1>4
  <2> HIDE DEF N
  <2> QED  BY <1>3, <2>1
<1>6. P(sum)
  <2> HIDE DEF P
  <2> QED  BY <1>5
<1>7. Total(v) = sum[N]
  BY ONLY SMTT(60) DEF Total
<1> HIDE DEF sum
<1>8. sum[0] = 0 /\ \A n \in 1..N : sum[n] = sum[n - 1] + v[n]
  <2>1. \A n \in 0..N : sum[n] = IF n = 0 THEN 0 ELSE sum[n - 1] + v[n]
    BY <1>6
  <2> HIDE DEF N, P
  <2>2. 0 \in 0..N /\ \A n \in 1..N : n \in 0..N /\ n # 0
    BY ONLY <1>1
  <2> QED  BY ONLY <2>1, <2>2
<1>9. \A n \in 0..N : sum[n] \in Int
  <2> DEFINE S == {n \in 0..N : sum[n] \in Int}
  <2>1. 0 \in S /\ \A n \in 1..N : n - 1 \in S => n \in S
    BY <1>1, <1>8
  <2> HIDE DEF S
  <2>2. 0..N \subseteq S
    BY <1>1, <2>1, Upward
  <2> QED  BY <2>2 DEF S
<1>10. sum \in [0..N -> Int]
  BY <1>6, <1>9
<1> QED  BY <1>7, <1>8, <1>10

(* The sum of numbers that are not negative.                               *)
LEMMA TotalNat ==
  ASSUME NEW v \in Seq(Nat)
  PROVE  Total(v) \in Nat
<1>1. v \in Seq(Int) /\ Len(v) \in Nat /\ \A n \in 1..Len(v) : v[n] \in Nat
  OBVIOUS
<1>2. PICK sum \in [0..Len(v) -> Int] :
        /\ sum[0] = 0 /\ \A n \in 1..Len(v) : sum[n] = sum[n - 1] + v[n]
        /\ Total(v) = sum[Len(v)]
  BY <1>1, TotalIs
<1> DEFINE S == {n \in 0..Len(v) : sum[n] \in Nat}
<1>3. 0 \in S /\ \A n \in 1..Len(v) : n - 1 \in S => n \in S
  <2>1. 0 \in S
    BY <1>1, <1>2
  <2>2. ASSUME NEW n \in 1..Len(v), sum[n - 1] \in Nat PROVE sum[n] \in Nat
    BY <1>1, <1>2, <2>2
  <2> QED  BY <2>1, <2>2
<1> HIDE DEF S
<1>4. 0..Len(v) \subseteq S
  BY <1>1, <1>3, Upward
<1> QED  BY <1>1, <1>2, <1>4 DEF S

(* The poses that are kept are poses.                                      *)
LEMMA PosesRead ==
  ASSUME NEW P, NEW a, a.poses \in Seq(P)
  PROVE  parse_tum(a) \in Seq(P)
<1> DEFINE N == Len(a.poses)
           A == Seq(P)
           Is(f) == f = [n \in 0..N |-> IF n = 0 THEN <<>>
                           ELSE IF a.poses[n][3] < 8 THEN f[n - 1]
                           ELSE Append(f[n - 1], a.poses[n])]
           read == CHOOSE f : Is(f)
           step == [n \in 1..N |-> [x \in A |-> IF a.poses[n][3] < 8 THEN x
                                                ELSE Append(x, a.poses[n])]]
<1>1. N \in Nat /\ <<>> \in A /\ \A n \in 1..N : a.poses[n] \in P
  OBVIOUS
<1>2. \A n \in 1..N, x \in A :
        /\ step[n][x] = IF a.poses[n][3] < 8 THEN x ELSE Append(x, a.poses[n])
        /\ step[n][x] \in A
  <2>1. ASSUME NEW n \in 1..N, NEW x \in A
        PROVE  /\ step[n][x] = IF a.poses[n][3] < 8 THEN x ELSE Append(x, a.poses[n])
               /\ Append(x, a.poses[n]) \in A
    BY <1>1
  <2> HIDE DEF step, A
  <2> QED  BY <2>1
<1>3. PICK f : Recursive(f, N, A, <<>>, step)
  <2> HIDE DEF step, N, A
  <2> QED  BY <1>1, <1>2, Recursion
<1>4. \A n \in 1..N : f[n - 1] \in A
  BY <1>1, <1>3 DEF Recursive
<1>5. Is(f)
  <2>1. \A n \in 0..N : f[n] = IF n = 0 THEN <<>>
                               ELSE IF a.poses[n][3] < 8 THEN f[n - 1]
                               ELSE Append(f[n - 1], a.poses[n])
    <3>1. \A n \in 1..N : f[n] = IF a.poses[n][3] < 8 THEN f[n - 1]
                                 ELSE Append(f[n - 1], a.poses[n])
      <4> HIDE DEF step, A
      <4> QED  BY <1>2, <1>3, <1>4 DEF Recursive
    <3>2. f[0] = <<>> /\ \A n \in 0..N : n = 0 \/ n \in 1..N
      BY <1>1, <1>3 DEF Recursive
    <3> HIDE DEF step, A, N
    <3> QED  BY <3>1, <3>2
  <2>2. f = [n \in 0..N |-> f[n]]
    BY <1>3 DEF Recursive
  <2> HIDE DEF N
  <2> QED  BY <2>1, <2>2
<1>6. Is(read)
  <2> HIDE DEF Is
  <2> QED  BY <1>5
<1>7. parse_tum(a) = read[N]
  BY DEF parse_tum
<1> HIDE DEF read
<1> DEFINE S == {n \in 0..N : read[n] \in A}
<1>8. 0 \in S /\ \A n \in 1..N : n - 1 \in S => n \in S
  <2>1. read[0] = <<>> /\ \A n \in 1..N : read[n] =
          IF a.poses[n][3] < 8 THEN read[n - 1] ELSE Append(read[n - 1], a.poses[n])
    <3>1. 0 \in 0..N /\ \A n \in 1..N : n \in 0..N /\ n # 0
      BY <1>1
    <3> HIDE DEF N
    <3>2. \A n \in 0..N : read[n] = IF n = 0 THEN <<>>
                                    ELSE IF a.poses[n][3] < 8 THEN read[n - 1]
                                    ELSE Append(read[n - 1], a.poses[n])
      BY <1>6
    <3> QED  BY <3>1, <3>2
  <2>2. ASSUME NEW n \in 1..N, read[n - 1] \in A PROVE read[n] \in A
    <3>1. \A y \in A, z \in P : Append(y, z) \in A
      OBVIOUS
    <3> HIDE DEF A, N
    <3> QED  BY <1>1, <2>1, <2>2, <3>1
  <2>3. 0 \in 0..N /\ \A n \in 1..N : n \in 0..N /\ n - 1 \in 0..N
    BY <1>1
  <2> HIDE DEF A, N
  <2> QED  BY <1>1, <2>1, <2>2, <2>3
<1> HIDE DEF S
<1>9. 0..N \subseteq S
  BY <1>1, <1>8, Upward
<1>10. N \in S
  BY <1>1, <1>9
<1> QED  BY <1>7, <1>10 DEF S

LEMMA SeqOf ==
  ASSUME NEW k \in Nat, NEW T, NEW f \in [1..k -> T]
  PROVE  f \in Seq(T) /\ Len(f) = k
  OBVIOUS

(* A step further adds at most the length of the step to the distance. *)
LEMMA Triangle ==
  ASSUME NEW u \in Int, NEW v \in Int, NEW w \in Int, NEW s \in Int, Abs(v - u) <= s
  PROVE  Abs(w - u) <= s + Abs(w - v)
<1>1. \A t \in Int : Abs(t) \in Int /\ Abs(t) >= t /\ Abs(t) >= -t /\ Abs(t) \in {t, -t}
  BY DEF Abs
<1> DEFINE a == v - u
           b == w - v
           c == w - u
<1>2. a \in Int /\ b \in Int /\ c \in Int /\ c = a + b
  OBVIOUS
<1> HIDE DEF a, b, c
<1>3. Abs(a) >= a /\ Abs(a) >= -a /\ Abs(b) >= b /\ Abs(b) >= -b /\ Abs(c) \in {c, -c}
  BY <1>1, <1>2
<1>4. Abs(a) \in Int /\ Abs(b) \in Int /\ Abs(a) <= s
  BY <1>1, <1>2 DEF a
<1>5. Abs(c) <= s + Abs(b)
  BY <1>2, <1>3, <1>4
<1> QED  BY <1>5 DEF b, c

(* The way is not shorter than the distance of its ends.                   *)
LEMMA PathCoversDrift ==
  ASSUME NEW p \in Seq(Int \X Int \X Nat)
  PROVE  LET n == Len(p)
             drift == IF n = 0 THEN 0 ELSE Abs(p[n][2] - p[1][2])
             path == Total([i \in 1..(n - 1) |-> Abs(p[i + 1][2] - p[i][2])])
         IN  drift \in Nat /\ path \in Nat /\ drift <= path
<1> DEFINE n == Len(p)
           m == IF n = 0 THEN 0 ELSE n - 1
           x == [i \in 1..n |-> p[i][2]]
           d == [i \in 1..(n - 1) |-> Abs(p[i + 1][2] - p[i][2])]
           drift == IF n = 0 THEN 0 ELSE Abs(p[n][2] - p[1][2])
<1>1. n \in Nat /\ \A i \in 1..n : x[i] = p[i][2] /\ x[i] \in Int
  OBVIOUS
<1> HIDE DEF x
<1>2. /\ m \in Nat /\ 1..(n - 1) = 1..m
      /\ \A i \in 1..m : i \in 1..n /\ i + 1 \in 1..n
      /\ (n # 0 => 1 \in 1..n /\ n \in 1..n /\ n = m + 1)
  BY <1>1
<1>3. \A i \in 1..m : d[i] = Abs(x[i + 1] - x[i]) /\ d[i] \in Nat
  <2>1. \A i \in 1..m : d[i] = Abs(x[i + 1] - x[i])
    BY <1>1, <1>2
  <2>2. \A i \in 1..m : x[i + 1] \in Int /\ x[i] \in Int
    BY <1>1, <1>2
  <2>3. \A u, v \in Int : Abs(u - v) \in Nat
    BY DEF Abs
  <2> HIDE DEF d, m
  <2>4. ASSUME NEW i \in 1..m PROVE d[i] \in Nat
    <3>1. Abs(x[i + 1] - x[i]) \in Nat
      BY <2>2, <2>3
    <3> QED  BY <2>1, <3>1
  <2> QED  BY <2>1, <2>4
<1>4. drift = IF n = 0 THEN 0 ELSE Abs(x[n] - x[1])
  BY <1>1, <1>2
<1>5. DOMAIN d = 1..m /\ d = [i \in 1..m |-> d[i]]
  BY <1>2
<1> HIDE DEF drift, d
<1>6. d \in Seq(Nat) /\ d \in Seq(Int) /\ Len(d) = m
  <2> HIDE DEF m
  <2>1. d \in [1..m -> Nat] /\ d \in [1..m -> Int]
    BY <1>3, <1>5
  <2> QED  BY <1>2, <2>1, SeqOf
<1>7. PICK sum \in [0..m -> Int] :
        /\ sum[0] = 0 /\ \A i \in 1..m : sum[i] = sum[i - 1] + d[i]
        /\ Total(d) = sum[m]
  <2> HIDE DEF m
  <2> QED  BY <1>6, TotalIs
<1>8. Total(d) \in Nat
  BY <1>6, TotalNat
<1>9. ASSUME n # 0 PROVE Abs(x[n] - x[1]) <= sum[m]
  <2> DEFINE S == {k \in 0..m : Abs(x[k + 1] - x[1]) <= sum[k]}
  <2>1. 0 \in S
    <3>1. Abs(x[1] - x[1]) = 0
      BY <1>1, <1>2, <1>9 DEF Abs
    <3> QED  BY <1>2, <1>7, <3>1
  <2>2. ASSUME NEW k \in 1..m, k - 1 \in S PROVE k \in S
    <3>1. /\ x[1] \in Int /\ x[k] \in Int /\ x[k + 1] \in Int
          /\ sum[k - 1] \in Int /\ d[k] \in Int
      <4>1. k \in 1..n /\ k + 1 \in 1..n /\ 1 \in 1..n /\ k - 1 \in 0..m
        BY <1>2, <1>9
      <4> HIDE DEF m, n
      <4>2. x[1] \in Int /\ x[k] \in Int /\ x[k + 1] \in Int
        BY <1>1, <4>1
      <4>3. sum[k - 1] \in Int
        BY <4>1
      <4>4. d[k] \in Int
        <5>1. d[k] \in Nat
          BY <1>3
        <5> QED  BY <5>1
      <4> QED  BY <4>2, <4>3, <4>4
    <3>2. Abs(x[k] - x[1]) <= sum[k - 1]
      <4>1. (k - 1) + 1 = k
        OBVIOUS
      <4> QED  BY <2>2, <4>1
    <3>3. sum[k] = sum[k - 1] + d[k] /\ d[k] = Abs(x[k + 1] - x[k])
      BY <1>3, <1>7
    <3>5. Abs(x[k + 1] - x[1]) <= sum[k] /\ k \in 0..m
      <4>1. k \in 0..m
        BY <1>2
      <4>2. Abs(x[k + 1] - x[1]) <= sum[k - 1] + Abs(x[k + 1] - x[k])
        BY <3>1, <3>2, Triangle
      <4> HIDE DEF m
      <4> QED  BY <3>3, <4>1, <4>2
    <3> QED  BY <3>5
  <2> HIDE DEF S, m
  <2>3. 0..m \subseteq S
    BY <1>2, <2>1, <2>2, Upward
  <2>4. m \in S
    BY <1>2, <2>3
  <2> QED  BY <1>2, <1>9, <2>4 DEF S
<1>10. drift \in Nat
  <2>1. \A u, v \in Int : Abs(u - v) \in Nat
    BY DEF Abs
  <2> QED  BY <1>1, <1>2, <1>4, <2>1
<1>11. drift <= Total(d)
  BY <1>4, <1>7, <1>8, <1>9
<1> QED  BY <1>8, <1>10, <1>11 DEF drift, d

Readable(a) ==
  /\ a.poses \in Seq(Int \X Int \X Nat)
  /\ a.ratios \in Seq(Nat) /\ a.links \in Seq(Nat) /\ a.box \in Nat

LEMMA StatsBounded ==
  ASSUME NEW a, Readable(a)
  PROVE  LET s == compute_stats(a)
         IN  /\ s["drift_per_path"] \in 0..1000 \cup {NoValue}
             /\ s["path_length_m"] > 0 => s["drift_per_path"] \in 0..1000
             /\ s["mean_icp_ratio"] \in Nat \cup {NoValue}
             /\ s["loop_closure_count"] \in Nat
             /\ s["cloud_spatial_extent_m"] \in Nat \cup {NoValue}
<1> DEFINE poses == parse_tum(a)
           n == Len(poses)
           drift == IF n = 0 THEN 0 ELSE Abs(poses[n][2] - poses[1][2])
           path == Total([i \in 1..(n - 1) |-> Abs(poses[i + 1][2] - poses[i][2])])
           s == compute_stats(a)
<1>1. /\ s["drift_per_path"] = IF path > 0 THEN (drift * 1000) \div path ELSE NoValue
      /\ s["path_length_m"] = path
      /\ s["mean_icp_ratio"] = mean_icp_ratio_from_log(a)
      /\ s["loop_closure_count"] = loop_closure_count_from_db(a)
      /\ s["cloud_spatial_extent_m"] = compute_cloud_spatial_extent_m(a)
  BY DEF compute_stats
<1>2. /\ s["drift_per_path"] \in 0..1000 \cup {NoValue}
      /\ s["path_length_m"] > 0 => s["drift_per_path"] \in 0..1000
  <2>1. poses \in Seq(Int \X Int \X Nat)
    <3> DEFINE P == Int \X Int \X Nat
    <3>1. a.poses \in Seq(P)
      BY DEF Readable
    <3> HIDE DEF P
    <3>2. parse_tum(a) \in Seq(P)
      BY <3>1, PosesRead
    <3> QED  BY <3>2 DEF P
  <2>2. drift \in Nat /\ path \in Nat /\ drift <= path
    <3> HIDE DEF poses
    <3> QED  BY <2>1, PathCoversDrift
  <2> HIDE DEF drift, path
  <2>3. ASSUME path > 0 PROVE (drift * 1000) \div path \in 0..1000
    <3>1. path \in Nat \ {0} /\ drift * 1000 \in Int
      BY <2>2, <2>3
    <3>2. 0 * path <= drift * 1000 /\ drift * 1000 <= 1000 * path
      BY <2>2
    <3> DEFINE q == (drift * 1000) \div path
               x == drift * 1000
    <3> HIDE DEF x
    <3>3. x \div path \in Int /\ 0 <= x \div path /\ x \div path <= 1000
      <4>1. x \in Int /\ 0 * path <= x /\ x <= 1000 * path
        BY <3>1, <3>2 DEF x
      <4> QED  BY <3>1, <4>1, Quotient
    <3>4. x \div path \in 0..1000
      BY <3>3
    <3> QED  BY <3>4 DEF x
  <2> QED  BY <1>1, <2>3
<1>3. s["mean_icp_ratio"] \in Nat \cup {NoValue}
  <2>1. CASE a.ratios = <<>>
    BY <1>1, <2>1 DEF mean_icp_ratio_from_log
  <2>2. CASE a.ratios # <<>>
    <3> DEFINE x == Total(a.ratios)
               w == Len(a.ratios)
    <3>1. a.ratios \in Seq(Nat)
      BY DEF Readable
    <3>2. x \in Nat /\ w \in Nat \ {0}
      BY <2>2, <3>1, TotalNat
    <3>3. s["mean_icp_ratio"] = x \div w
      BY <1>1, <2>2 DEF mean_icp_ratio_from_log, Mean
    <3> HIDE DEF x, w
    <3>4. x \div w \in Nat
      BY <3>2
    <3> QED  BY <3>3, <3>4
  <2> QED  BY <2>1, <2>2
<1>4. s["loop_closure_count"] \in Nat
  <2> DEFINE L == {i \in DOMAIN a.links : a.links[i] \in LOOP_CLOSURE_LINK_TYPES}
  <2>1. DOMAIN a.links = 1..Len(a.links) /\ Len(a.links) \in Nat
    BY DEF Readable
  <2>2. IsFiniteSet(1..Len(a.links)) /\ L \in SUBSET (1..Len(a.links))
    BY <2>1, FS_Interval
  <2>3. Cardinality(L) \in Nat
    BY <2>2, FS_Subset, FS_CardinalityType
  <2> QED  BY <1>1, <2>3 DEF loop_closure_count_from_db
<1>5. s["cloud_spatial_extent_m"] \in Nat \cup {NoValue}
  BY <1>1 DEF compute_cloud_spatial_extent_m, Readable
<1> QED  BY <1>2, <1>3, <1>4, <1>5

(* A bounded metric is minimised up to its fail value, or maximised down   *)
(* to it.                                                                  *)
Minimised == {"drift_per_path"}
Maximised == {"mean_icp_ratio", "loop_closure_count", "cloud_spatial_extent_m"}

LEMMA Kinds ==
  ASSUME NEW name \in BoundedMetrics
  PROVE  LET metric == METRICS[name]
         IN  /\ metric.aggregator \in Aggregators
             /\ \/ metric.direction = "minimize" /\ metric.field \in Minimised /\ metric.fail = 1000
                \/ metric.direction = "maximize" /\ metric.field \in Maximised /\ metric.fail = 0
<1> USE DEF METRICS, Metric, Aggregators, Minimised, Maximised
<1>1. CASE name = "drift_per_path"
  BY <1>1
<1>2. CASE name = "max_drift_per_path"
  BY <1>2
<1>3. CASE name = "q75_drift_per_path"
  BY <1>3
<1>4. CASE name = "q90_drift_per_path"
  BY <1>4
<1>5. CASE name = "mean_icp_ratio"
  BY <1>5
<1>6. CASE name = "loop_closure_count"
  BY <1>6
<1>7. CASE name = "cloud_spatial_extent_m"
  BY <1>7
<1> QED
  BY <1>1, <1>2, <1>3, <1>4, <1>5, <1>6, <1>7 DEF BoundedMetrics

(* No bag run is worse than one that failed.                               *)
LEMMA ValueBounded ==
  ASSUME NEW name \in BoundedMetrics, NEW a \in DOMAIN Artefacts
  PROVE  LET metric == METRICS[name]
             x == Value(metric, Result[a])
         IN  /\ x \in Int /\ (~Scored(a) => x = metric.fail)
             /\ metric.direction = "minimize" => x <= metric.fail
             /\ metric.direction = "maximize" => x >= metric.fail
<1> DEFINE metric == METRICS[name]
           art == Artefacts[a]
           s == compute_stats(art)
           x == Value(metric, Result[a])
<1>1. /\ \/ metric.direction = "minimize" /\ metric.field \in Minimised /\ metric.fail = 1000
         \/ metric.direction = "maximize" /\ metric.field \in Maximised /\ metric.fail = 0
  BY Kinds
<1> HIDE DEF metric
<1>2. Readable(art)
  BY StudyAssumption DEF Readable
<1>3. Result[a] = BagRunResult(art)
  BY DEF Result
<1>4. ASSUME ~Scored(a) PROVE x = metric.fail
  BY <1>1, <1>4 DEF Scored, Value
<1>5. ASSUME Scored(a)
      PROVE  /\ x \in Int
             /\ metric.direction = "minimize" => x <= metric.fail
             /\ metric.direction = "maximize" => x >= metric.fail
  <2>1. Result[a].success /\ Result[a].metrics.success
    BY <1>5 DEF Scored
  <2>2. art.played /\ art.db /\ Result[a] = [success |-> TRUE, metrics |-> score_run(art)]
    BY <1>3, <2>1 DEF BagRunResult
  <2>3. Result[a].metrics = score_run(art) /\ score_run(art).success
    BY <2>1, <2>2
  <2>4. score_run(art) = [success |-> TRUE, stats |-> s]
    BY <2>3 DEF score_run
  <2>5. Result[a].metrics.stats = s
    BY <2>3, <2>4
  <2>6. x = Extract(metric, s)
    BY <2>1, <2>5 DEF Value
  <2>7. /\ s["drift_per_path"] \in 0..1000 \cup {NoValue}
        /\ s["mean_icp_ratio"] \in Nat \cup {NoValue}
        /\ s["loop_closure_count"] \in Nat
        /\ s["cloud_spatial_extent_m"] \in Nat \cup {NoValue}
    BY <1>2, StatsBounded
  <2> HIDE DEF s
  <2>8. Extract(metric, s) = Or(s[metric.field], metric.fail)
    BY <1>1 DEF Extract, Minimised, Maximised
  <2>9. CASE metric.direction = "minimize" /\ metric.field \in Minimised /\ metric.fail = 1000
    <3>1. s[metric.field] \in 0..1000 \cup {NoValue}
      BY ONLY <2>7, <2>9 DEF Minimised
    <3>2. x = Or(s[metric.field], 1000)
      BY <2>6, <2>8, <2>9
    <3>3. x \in Int /\ x <= 1000
      BY ONLY <3>1, <3>2 DEF Or, NoValue
    <3> QED  BY ONLY <2>9, <3>3
  <2>10. CASE metric.direction = "maximize" /\ metric.field \in Maximised /\ metric.fail = 0
    <3>1. s[metric.field] \in Nat \cup {NoValue}
      BY ONLY <2>7, <2>10 DEF Maximised
    <3>2. x = Or(s[metric.field], 0)
      BY <2>6, <2>8, <2>10
    <3>3. x \in Int /\ x >= 0
      BY ONLY <3>1, <3>2 DEF Or, NoValue
    <3> QED  BY ONLY <2>10, <3>3
  <2> QED  BY <1>1, <2>9, <2>10 
<1> QED  BY <1>1, <1>4, <1>5 DEF metric
-----------------------------------------------------------------------------
(* The results of a completed trial, and of the trial that is worked on,   *)
(* are those of bag runs: one of each bag in each repetition at the end.   *)
Collected ==
  proc.pc \in Working /\ proc.opt.objective = "real" =>
    /\ proc.results \in Seq(DOMAIN Artefacts)
    /\ proc.pc = "tell" => Len(proc.results) = proc.opt.reps * Len(Stems)

Whole(n) ==
  rows[n].opt.objective = "real" =>
    /\ rows[n].opt \in Options
    /\ rows[n].results \in Seq(DOMAIN Artefacts)
    /\ Len(rows[n].results) = rows[n].opt.reps * Len(Stems)

ResultsInv ==
  /\ Collected
  /\ \A n \in Completed(rows) : Whole(n)

LEMMA CollectedStep ==
  ASSUME ProcInv, RowsInv, WorkInv, Collected, [Next]_vars
  PROVE  Collected'
<1>c. proc = [pc |-> proc.pc, opt |-> proc.opt, target |-> proc.target,
              before |-> proc.before, left |-> proc.left,
              crashes |-> proc.crashes, num |-> proc.num,
              known |-> proc.known, results |-> proc.results,
              values |-> proc.values]
  BY DEF ProcInv, ProcShape
<1>1. CASE proc'.pc \notin Working
  BY <1>1 DEF Collected
<1>2. CASE EndBag
  <2>1. PICK a \in Leaves[Bag] :
          proc' = [proc EXCEPT !.results = Append(@, a),
                               !.pc = IF Bag = Len(Stems) THEN "mark" ELSE "bag"]
    BY <1>2 DEF EndBag
  <2>2. /\ proc'.opt = proc.opt /\ proc'.results = Append(proc.results, a)
        /\ proc'.pc \in {"mark", "bag"}
    BY <1>c, <2>1
  <2>3. proc.pc = "play"
    BY <1>2 DEF EndBag
  <2>4. SUFFICES ASSUME proc.opt.objective = "real" PROVE Collected'
    BY <2>2 DEF Collected
  <2>5. proc.results \in Seq(DOMAIN Artefacts)
    BY <2>3, <2>4 DEF Collected, Working
  <2>6. a \in DOMAIN Artefacts
    <3> DEFINE m == Len(Stems)
               k == Len(proc.results)
    <3>1. m \in Nat \ {0} /\ k \in Nat /\ DOMAIN Stems = 1..m
      BY <2>5, StudyAssumption
    <3>2. Bag = (k % m) + 1
      BY DEF Bag
    <3> HIDE DEF m, k
    <3>3. Bag \in DOMAIN Stems
      BY <3>1, <3>2
    <3> QED  BY <2>1, <3>3, StudyAssumption
  <2>7. Append(proc.results, a) \in Seq(DOMAIN Artefacts)
    BY <2>5, <2>6
  <2> QED  BY <2>2, <2>7 DEF Collected
<1>3. CASE WriteMarker
  <2>1. /\ proc'.opt = proc.opt /\ proc'.results = proc.results /\ proc.pc = "mark"
        /\ proc'.pc = IF Len(proc.results) = proc.opt.reps * Len(Stems)
                      THEN "tell" ELSE "bag"
    BY <1>3, <1>c DEF WriteMarker, Goto
  <2> QED  BY <2>1 DEF Collected, Working
<1>4. CASE Ask
  <2>1. proc'.results = <<>> /\ proc'.opt = proc.opt
        /\ proc'.pc = IF proc.opt.objective = "real" THEN "bag" ELSE "tell"
    BY <1>4, <1>c DEF Ask
  <2>2. <<>> \in Seq(DOMAIN Artefacts)
    OBVIOUS
  <2> QED  BY <2>1, <2>2 DEF Collected
<1>5. CASE BeginBag \/ Other \/ Rescore \/ UNCHANGED vars
  <2>1. \/ proc' = proc
        \/ /\ proc'.opt = proc.opt /\ proc'.results = proc.results
           /\ proc.pc = "bag" /\ proc'.pc = "play"
    <3>1. CASE BeginBag
      BY <3>1, <1>c DEF BeginBag, Goto
    <3>2. CASE Other \/ Rescore \/ UNCHANGED vars
      BY <3>2 DEF Other, Rescore, vars
    <3> QED  BY <1>5, <3>1, <3>2
  <2> QED  BY <2>1 DEF Collected, Working
<1>6. CASE Start \/ Cleanup \/ OpenStudy \/ Resume \/ AskMixed
  BY <1>1, <1>6, <1>c
  DEF Start, Cleanup, OpenStudy, Resume, AskMixed, Goto, Gone, Working
<1>7. CASE WriteFails
  <2>1. proc' = Gone("crashed") \/ proc' = [proc EXCEPT !.pc = "recover", !.results = <<>>]
    BY <1>7 DEF WriteFails
  <2>2. CASE proc' = Gone("crashed")
    BY <1>1, <2>2 DEF Gone, Working
  <2>3. CASE proc' = [proc EXCEPT !.pc = "recover", !.results = <<>>]
    BY <1>1, <2>3, <1>c DEF Working
  <2> QED  BY <2>1, <2>2, <2>3
<1>8. CASE Tell \/ TellRefused \/ Recover \/ Summarise \/ Kill
  <2>1. proc'.pc \in {"ask", "summary", "recover", "aborted", "loop", "crashed",
                      "done", "killed"}
    <3>1. CASE Tell
      BY <3>1, <1>c DEF Tell
    <3>2. CASE TellRefused
      BY <3>2, <1>c DEF TellRefused
    <3>3. CASE Recover
      BY <3>3, <1>c DEF Recover
    <3>4. CASE Summarise
      BY <3>4, <1>c DEF Summarise, Goto
    <3>5. CASE Kill
      BY <3>5 DEF Kill, Gone
    <3> QED  BY <1>8, <3>1, <3>2, <3>3, <3>4, <3>5
  <2> QED  BY <1>1, <2>1 DEF Working
<1> QED
  BY <1>2, <1>3, <1>4, <1>5, <1>6, <1>7, <1>8 DEF Next, Step

LEMMA ResultsStep ==
  ProcInv /\ RowsInv /\ WorkInv /\ ResultsInv /\ [Next]_vars => ResultsInv'
<1> SUFFICES ASSUME ProcInv, RowsInv, WorkInv, ResultsInv, [Next]_vars
             PROVE  ResultsInv'
  OBVIOUS
<1>1. Collected'
  BY CollectedStep DEF ResultsInv
<1>2. ASSUME NEW n \in Completed(rows) PROVE Whole(n)'
  <2>1. rows'[n] = rows[n] /\ Whole(n)
    BY <1>2, CompletedStay DEF ResultsInv
  <2> QED  BY <2>1 DEF Whole
<1>3. ASSUME NEW n \in Completed(rows'), n \notin Completed(rows)
      PROVE  Whole(n)'
  <2>1. Tell
    BY <1>3, CompletedStay
  <2>2. n = proc.num
    BY <1>3, <2>1 DEF Tell, Completed
  <2>3. PICK results : results = proc.results
    OBVIOUS
  <2>4. /\ proc.pc = "tell" /\ proc.opt \in Options
        /\ rows'[n].opt = proc.opt /\ rows'[n].results = results
    BY <1>3, <2>1, <2>2, <2>3, Told
  <2>5. proc.opt.objective = "real" =>
          results \in Seq(DOMAIN Artefacts) /\ Len(results) = proc.opt.reps * Len(Stems)
    BY <2>3, <2>4 DEF ResultsInv, Collected, Working
  <2> QED  BY <2>4, <2>5 DEF Whole
<1> QED
  BY <1>1, <1>2, <1>3 DEF ResultsInv

(* Trials of as many repetitions, one of which has the results of the      *)
(* other but for bag runs that failed.                                     *)
LEMMA NoWorseWithoutFailures ==
  ASSUME NEW name \in BoundedMetrics, NEW reps \in Nat \ {0},
         NEW x \in Seq(DOMAIN Artefacts), Len(x) = reps * Len(Stems),
         NEW y \in Seq(DOMAIN Artefacts), Len(y) = reps * Len(Stems),
         \A i \in DOMAIN y : x[i] = y[i] \/ ~Scored(x[i])
  PROVE  ~Better(METRICS[name], TrialValue(METRICS[name], ByRep(x)),
                                TrialValue(METRICS[name], ByRep(y)))
<1> DEFINE metric == METRICS[name]
           m == Len(Stems)
           p == ByRep(x)
           q == ByRep(y)
<1>1. m \in Nat \ {0} /\ Bags = 1..m /\ DOMAIN x = 1..(reps * m) /\ DOMAIN y = 1..(reps * m)
  BY StudyAssumption DEF Bags
<1>2. (reps * m) \div m = reps
  <2> HIDE DEF m
  <2>1. reps * m = m * reps + 0 /\ 0 \in 0..(m - 1)
    BY <1>1
  <2>2. (m * reps + 0) \div m = reps
    BY <1>1, <2>1, Place
  <2> QED  BY <2>1, <2>2
<1>3. /\ DOMAIN p = 1..reps /\ DOMAIN q = 1..reps
      /\ \A r \in 1..reps :
           /\ DOMAIN p[r] = 1..m /\ DOMAIN q[r] = 1..m
           /\ \A b \in 1..m : /\ p[r][b] = Result[x[((r - 1) * m) + b]]
                              /\ q[r][b] = Result[y[((r - 1) * m) + b]]
  BY <1>1, <1>2 DEF ByRep
<1>4. \A r \in 1..reps, b \in 1..m : ((r - 1) * m) + b \in 1..(reps * m)
  <2>1. ASSUME NEW r \in 1..reps, NEW b \in Bags
        PROVE  ((r - 1) * m) + b \in 1..(reps * m)
    <3>1. m * (r - 1) + b \in 1..(reps * m)
      BY PlaceWithin
    <3>2. m * (r - 1) = (r - 1) * m
      BY <1>1
    <3> QED  BY <3>1, <3>2
  <2> QED  BY <1>1, <2>1
<1>5. ASSUME NEW i \in 1..(reps * m)
      PROVE  LET u == Value(metric, Result[x[i]])
                 v == Value(metric, Result[y[i]])
             IN  /\ u \in Int /\ v \in Int
                 /\ metric.direction = "minimize" => v <= u
                 /\ metric.direction = "maximize" => u <= v
  <2>1. x[i] \in DOMAIN Artefacts /\ y[i] \in DOMAIN Artefacts
    BY <1>1
  <2>2. x[i] = y[i] \/ ~Scored(x[i])
    BY <1>1
  <2>3. /\ Value(metric, Result[x[i]]) \in Int /\ Value(metric, Result[y[i]]) \in Int
        /\ ~Scored(x[i]) => Value(metric, Result[x[i]]) = metric.fail
        /\ metric.direction = "minimize" => Value(metric, Result[y[i]]) <= metric.fail
        /\ metric.direction = "maximize" => Value(metric, Result[y[i]]) >= metric.fail
    BY <2>1, ValueBounded
  <2>4. metric.fail \in Int
    BY Kinds
  <2> HIDE DEF metric
  <2>5. CASE x[i] = y[i]
    BY <2>3, <2>5
  <2>6. CASE ~Scored(x[i])
    BY <2>3, <2>4, <2>6
  <2> QED  BY <2>2, <2>5, <2>6
<1>6. /\ metric.aggregator \in Aggregators
      /\ metric.direction \in {"minimize", "maximize"}
  BY Kinds
<1> HIDE DEF metric, m, p, q
<1>7. ASSUME NEW r \in 1..reps, NEW b \in 1..m
      PROVE  LET u == Value(metric, p[r][b])
                 v == Value(metric, q[r][b])
             IN  /\ u \in Int /\ v \in Int
                 /\ metric.direction = "minimize" => v <= u
                 /\ metric.direction = "maximize" => u <= v
  <2> DEFINE i == ((r - 1) * m) + b
  <2>1. i \in 1..(reps * m)
    BY <1>4
  <2>2. p[r][b] = Result[x[i]] /\ q[r][b] = Result[y[i]]
    BY <1>3
  <2> HIDE DEF i
  <2> QED  BY <1>5, <2>1, <2>2
<1>8. CASE metric.direction = "minimize"
  <2>1. NowhereAbove(metric, reps, m, q, p)
    BY <1>3, <1>7, <1>8 DEF NowhereAbove
  <2>2. /\ TrialValue(metric, p) \in Int /\ TrialValue(metric, q) \in Int
        /\ TrialValue(metric, q) <= TrialValue(metric, p)
    BY <1>1, <1>6, <2>1, TrialSteady
  <2> QED  BY <1>8, <2>2 DEF Better, metric, p, q
<1>9. CASE metric.direction = "maximize"
  <2>1. NowhereAbove(metric, reps, m, p, q)
    BY <1>3, <1>7, <1>9 DEF NowhereAbove
  <2>2. /\ TrialValue(metric, p) \in Int /\ TrialValue(metric, q) \in Int
        /\ TrialValue(metric, p) <= TrialValue(metric, q)
    BY <1>1, <1>6, <2>1, TrialSteady
  <2> QED  BY <1>9, <2>2 DEF Better, metric, p, q
<1> QED  BY <1>6, <1>8, <1>9

(* Failing never pays: of two completed trials, the one that differs by    *)
(* failed bag runs only does not have a better value with any metric whose *)
(* range the fail value bounds, whatever the bags left behind.             *)
THEOREM FailuresCost == Spec => []FailingNeverPays
<1>1. Init => WorkInv /\ ResultsInv
  <2> SUFFICES ASSUME Init PROVE WorkInv /\ ResultsInv
    OBVIOUS
  <2>1. proc.pc = "off" /\ DOMAIN rows = {}
    BY DEF Init, Gone
  <2> QED
    BY <2>1 DEF WorkInv, ResultsInv, Collected, Completed, Working
<1>2. ResultsInv => FailingNeverPays
  <2> SUFFICES ASSUME ResultsInv, NEW k \in Completed(rows), NEW n \in Completed(rows),
                      rows[k].opt.objective = "real", rows[n].opt.objective = "real",
                      rows[k].opt.reps = rows[n].opt.reps,
                      \A i \in DOMAIN rows[n].results :
                        rows[k].results[i] = rows[n].results[i] \/ ~Scored(rows[k].results[i]),
                      NEW name \in BoundedMetrics
               PROVE  ~Better(METRICS[name],
                              TrialValue(METRICS[name], ByRep(rows[k].results)),
                              TrialValue(METRICS[name], ByRep(rows[n].results)))
    BY DEF FailingNeverPays
  <2> DEFINE reps == rows[n].opt.reps
  <2>1. /\ rows[k].results \in Seq(DOMAIN Artefacts)
        /\ Len(rows[k].results) = reps * Len(Stems)
        /\ rows[n].results \in Seq(DOMAIN Artefacts)
        /\ Len(rows[n].results) = reps * Len(Stems)
        /\ reps \in Nat \ {0}
    BY StudyAssumption DEF ResultsInv, Whole
  <2> HIDE DEF reps
  <2> QED  BY <2>1, NoWorseWithoutFailures
<1> QED
  BY <1>1, <1>2, ProcAlways, WorkStep, ResultsStep, PTL DEF Spec

-----------------------------------------------------------------------------
(* Whatever is in a trial directory is of a bag, and a bag run that was    *)
(* played has its metrics.json, which no later scoring takes away.         *)
Names == {DirName(b) : b \in Bags}

BagsInv ==
  \A k \in DOMAIN dirs : \A b \in DOMAIN dirs[k].bags :
    /\ b \in Names
    /\ dirs[k].bags[b].art \in DOMAIN Artefacts /\ Result[dirs[k].bags[b].art].success = TRUE
         => dirs[k].bags[b].metrics = TRUE

LEMMA BagsStep ==
  ASSUME WorkInv, DirsShape, Collected, BagsInv, [Next]_vars
  PROVE  BagsInv'
<1>1. ASSUME NEW k \in DOMAIN dirs', NEW b \in DOMAIN dirs'[k].bags
      PROVE  /\ b \in Names
             /\ dirs'[k].bags[b].art \in DOMAIN Artefacts
                  /\ Result[dirs'[k].bags[b].art].success = TRUE
                => dirs'[k].bags[b].metrics = TRUE
  <2>1. Came(k, b)
    BY <1>1, DirsMove
  <2>2. ASSUME proc.pc \in {"bag", "play"} PROVE DirName(Bag) \in Names
    <3> DEFINE m == Len(Stems)
               l == Len(proc.results)
    <3>1. m \in Nat \ {0} /\ l \in Nat /\ Bags = 1..m
      BY <2>2, StudyAssumption DEF Collected, WorkInv, Working, Bags
    <3>2. Bag = (l % m) + 1
      BY DEF Bag
    <3> HIDE DEF m, l
    <3>3. Bag \in Bags
      BY <3>1, <3>2
    <3> QED  BY <3>3 DEF Names
  <2>3. CASE b = DirName(Bag) /\ BeginBag /\ dirs'[k].bags[b] = Untouched
    <3>1. proc.pc = "bag"
      BY <2>3 DEF BeginBag
    <3>2. dirs'[k].bags[b].art = "nothing"
      BY <2>3 DEF Untouched
    <3> QED  BY <2>2, <2>3, <3>1, <3>2, StudyAssumption
  <2>4. CASE /\ b = DirName(Bag) /\ EndBag
             /\ \E a \in Leaves[Bag] :
                  dirs'[k].bags[b] = [art |-> a, metrics |-> Result[a].success]
    <3>1. proc.pc = "play"
      BY <2>4 DEF EndBag
    <3>2. PICK a : dirs'[k].bags[b] = [art |-> a, metrics |-> Result[a].success]
      BY <2>4
    <3>3. dirs'[k].bags[b].art = a /\ dirs'[k].bags[b].metrics = Result[a].success
      BY <3>2
    <3> QED  BY <2>2, <2>4, <3>1, <3>3
  <2>5. CASE /\ k \in DOMAIN dirs /\ b \in DOMAIN dirs[k].bags
             /\ dirs'[k].bags[b].art = dirs[k].bags[b].art
             /\ dirs[k].bags[b].metrics = TRUE => dirs'[k].bags[b].metrics = TRUE
    BY <2>5 DEF BagsInv
  <2> QED  BY <2>1, <2>3, <2>4, <2>5 DEF Came
<1> QED  BY <1>1 DEF BagsInv, Names, DirName, Bags

-----------------------------------------------------------------------------
(* No value is above the largest, and the order of the values does not     *)
(* change their aggregates.                                                *)
LEMMA NoneAbove ==
  ASSUME NEW x \in Seq(Int), NEW i \in 1..Len(x)
  PROVE  Largest[x] \in Int /\ x[i] <= Largest[x]
<1> DEFINE n == Len(x)
           v == Sorted[x][n]
<1>1. n \in Nat /\ n \in 1..n /\ DOMAIN x = 1..n /\ x[i] \in Int
  OBVIOUS
<1>2. v \in Int /\ n <= Cardinality(UpTo(x, v))
  BY <1>1, Stat
<1>3. Largest[x] = v
  BY DEF Largest
<1> HIDE DEF v, n
<1>4. IsFiniteSet(1..n) /\ Cardinality(1..n) = n
  BY <1>1, FS_Interval
<1>5. UpTo(x, v) \in SUBSET (1..n)
  BY <1>1 DEF UpTo
<1>6. UpTo(x, v) = 1..n
  <2>1. Cardinality(UpTo(x, v)) <= n /\ Cardinality(UpTo(x, v)) \in Nat
    BY <1>2, <1>4, <1>5, Counts, FS_Subset
  <2>2. Cardinality(UpTo(x, v)) = n
    BY <1>1, <1>2, <2>1
  <2> QED  BY <1>4, <1>5, <2>2, FS_Subset
<1> QED  BY <1>2, <1>3, <1>6 DEF UpTo, n

(* y is x in another order. *)
Reordered(x, y) ==
  /\ x \in Seq(Int) /\ y \in Seq(Int) /\ Len(x) = Len(y)
  /\ \E p \in Bijection(1..Len(x), 1..Len(x)) : \A i \in 1..Len(x) : y[i] = x[p[i]]

LEMMA SameCounts ==
  ASSUME NEW x, NEW y, Reordered(x, y), NEW v \in Int
  PROVE  /\ Cardinality(Below(y, v)) = Cardinality(Below(x, v))
         /\ Cardinality(UpTo(y, v)) = Cardinality(UpTo(x, v))
<1> DEFINE n == Len(x)
<1>1. /\ x \in Seq(Int) /\ y \in Seq(Int) /\ DOMAIN x = 1..n /\ DOMAIN y = 1..n
  BY DEF Reordered
<1>2. PICK p \in Bijection(1..n, 1..n) : \A i \in 1..n : y[i] = x[p[i]]
  BY DEF Reordered
<1>3. /\ p \in [1..n -> 1..n]
      /\ \A i, j \in 1..n : p[i] = p[j] => i = j
      /\ \A j \in 1..n : \E i \in 1..n : p[i] = j
  BY <1>2 DEF Bijection, Injection, Surjection, IsInjective
<1> HIDE DEF n
<1>4. ASSUME NEW S \in SUBSET (1..n), NEW T \in SUBSET (1..n),
             \A i \in 1..n : i \in S <=> p[i] \in T
      PROVE  Cardinality(S) = Cardinality(T)
  <2> DEFINE f == [i \in S |-> p[i]]
  <2>1. IsFiniteSet(1..n) /\ IsFiniteSet(S) /\ IsFiniteSet(T)
    <3>1. IsFiniteSet(1..n)
      BY <1>1, FS_Interval DEF n
    <3> QED  BY <1>4, <3>1, FS_Subset
  <2>2. f \in [S -> T] /\ \A i, j \in S : f[i] = f[j] => i = j
    BY <1>3, <1>4
  <2>3. \A j \in T : \E i \in S : f[i] = j
    BY <1>3, <1>4
  <2>4. f \in Bijection(S, T)
    BY <2>2, <2>3 DEF Bijection, Injection, Surjection, IsInjective
  <2> HIDE DEF f
  <2> QED  BY <2>1, <2>4, FS_Bijection DEF ExistsBijection
<1>5. /\ Below(x, v) \in SUBSET (1..n) /\ Below(y, v) \in SUBSET (1..n)
      /\ UpTo(x, v) \in SUBSET (1..n) /\ UpTo(y, v) \in SUBSET (1..n)
      /\ \A i \in 1..n : i \in Below(y, v) <=> p[i] \in Below(x, v)
      /\ \A i \in 1..n : i \in UpTo(y, v) <=> p[i] \in UpTo(x, v)
  BY <1>1, <1>2, <1>3 DEF Below, UpTo
<1> QED  BY <1>4, <1>5

(* No more values are up to u than are below what is larger than u.        *)
LEMMA Ranks ==
  ASSUME NEW x \in Seq(Int), NEW u \in Int, NEW w \in Int, u < w
  PROVE  Cardinality(UpTo(x, u)) <= Cardinality(Below(x, w))
<1>1. UpTo(x, u) \in SUBSET Below(x, w)
  <2>1. \A i \in DOMAIN x : x[i] \in Int
    OBVIOUS
  <2> QED  BY <2>1 DEF UpTo, Below
<1> QED  BY <1>1, Counts, FS_Subset

LEMMA SameSorted ==
  ASSUME NEW x, NEW y, Reordered(x, y)
  PROVE  Sorted[x] = Sorted[y]
<1> DEFINE n == Len(x)
<1>1. /\ x \in Seq(Int) /\ y \in Seq(Int) /\ Len(y) = n /\ n \in Nat
  BY DEF Reordered
<1>2. ASSUME NEW k \in 1..n PROVE Sorted[x][k] = Sorted[y][k]
  <2> DEFINE a == Sorted[x][k]
             b == Sorted[y][k]
  <2>1. /\ a \in Int /\ Cardinality(Below(x, a)) < k /\ k <= Cardinality(UpTo(x, a))
        /\ b \in Int /\ Cardinality(Below(y, b)) < k /\ k <= Cardinality(UpTo(y, b))
    BY <1>1, <1>2, Stat
  <2> HIDE DEF a, b, n
  <2>2. /\ Cardinality(Below(x, b)) < k /\ k <= Cardinality(UpTo(x, b))
    BY <2>1, SameCounts
  <2>3. ASSUME NEW u \in Int, NEW w \in Int, u < w,
               k <= Cardinality(UpTo(x, u)), Cardinality(Below(x, w)) < k
        PROVE  FALSE
    <3>1. Cardinality(UpTo(x, u)) <= Cardinality(Below(x, w))
      BY <1>1, <2>3, Ranks
    <3>2. Cardinality(UpTo(x, u)) \in Nat /\ Cardinality(Below(x, w)) \in Nat
      BY <1>1, Counts
    <3> QED  BY <1>2, <2>3, <3>1, <3>2
  <2>4. ~(a < b) /\ ~(b < a)
    BY <2>1, <2>2, <2>3
  <2>5. a = b
    BY <2>1, <2>4
  <2> QED  BY <2>5 DEF a, b
<1>3. ASSUME NEW z \in Seq(Int), Len(z) = n
      PROVE  Sorted[z] = [k \in 1..n |-> Sorted[z][k]]
  <2> DEFINE g(k) == CHOOSE v \in {z[i] : i \in DOMAIN z} :
                       /\ Cardinality({i \in DOMAIN z : z[i] < v}) < k
                       /\ k <= Cardinality({i \in DOMAIN z : z[i] <= v})
  <2>1. Sorted[z] = [k \in 1..n |-> g(k)]
    BY <1>3 DEF Sorted
  <2> HIDE DEF g
  <2> QED  BY <2>1
<1>4. Sorted[x] = [k \in 1..n |-> Sorted[x][k]] /\ Sorted[y] = [k \in 1..n |-> Sorted[y][k]]
  BY <1>1, <1>3
<1>5. [k \in 1..n |-> Sorted[x][k]] = [k \in 1..n |-> Sorted[y][k]]
  BY <1>2
<1> QED  BY <1>4, <1>5

LEMMA SameAggregates ==
  ASSUME NEW x, NEW y, Reordered(x, y), x # <<>>
  PROVE  /\ Median[x] = Median[y] /\ Largest[x] = Largest[y]
         /\ Quantile(x, 75) = Quantile(y, 75) /\ Quantile(x, 90) = Quantile(y, 90)
<1>1. x \in Seq(Int) /\ y \in Seq(Int) /\ Len(x) = Len(y) /\ x # <<>> /\ y # <<>>
  BY DEF Reordered
<1>2. Sorted[x] = Sorted[y]
  BY SameSorted
<1>3. Median[x] = Median[y]
  BY <1>1, <1>2 DEF Median
<1>4. Largest[x] = Largest[y]
  BY <1>1, <1>2 DEF Largest
<1>5. Quantile(x, 75) = Quantile(y, 75) /\ Quantile(x, 90) = Quantile(y, 90)
  BY <1>1, <1>2 DEF Quantile
<1> QED  BY <1>3, <1>4, <1>5

-----------------------------------------------------------------------------
(* What the tools read of the bags of a trial, and what the metrics make   *)
(* of the same bag runs.                                                   *)

(* A trajectory that is long enough to mean anything has a drift.          *)
LEMMA ScoredStats ==
  ASSUME NEW a \in DOMAIN Artefacts, score_run(Artefacts[a]).success
  PROVE  LET s == compute_stats(Artefacts[a])
         IN  /\ score_run(Artefacts[a]) = [success |-> TRUE, stats |-> s]
             /\ Artefacts[a].db /\ s["drift_per_path"] \in 0..1000
<1> DEFINE art == Artefacts[a]
           s == compute_stats(art)
<1>1. /\ score_run(art) = [success |-> TRUE, stats |-> s]
      /\ art.db /\ s["path_length_m"] >= 300
  BY DEF score_run, MIN_PATH_LENGTH_M
<1>2. Readable(art)
  BY StudyAssumption DEF Readable
<1>3. s["path_length_m"] \in Nat
  <2> DEFINE poses == parse_tum(art)
             n == Len(poses)
             path == Total([i \in 1..(n - 1) |-> Abs(poses[i + 1][2] - poses[i][2])])
             P == Int \X Int \X Nat
  <2>1. s["path_length_m"] = path
    BY DEF compute_stats
  <2>2. poses \in Seq(P)
    <3>1. art.poses \in Seq(P)
      BY <1>2 DEF Readable
    <3> HIDE DEF P, art
    <3> QED  BY <3>1, PosesRead
  <2> HIDE DEF poses
  <2>3. path \in Nat
    BY <2>2, PathCoversDrift
  <2> QED  BY <2>1, <2>3
<1>4. s["path_length_m"] > 0
  <2> HIDE DEF s
  <2> QED  BY <1>1, <1>3
<1>5. s["drift_per_path"] \in 0..1000
  <2> HIDE DEF art
  <2> QED  BY <1>2, <1>4, StatsBounded
<1> QED  BY <1>1, <1>5

LEMMA DriftValue ==
  ASSUME NEW metric, metric.field = "drift_per_path", metric.fail = 1000,
         NEW a \in DOMAIN Artefacts, score_run(Artefacts[a]).success
  PROVE  LET d == compute_stats(Artefacts[a])["drift_per_path"]
             x == Value(metric, Result[a])
         IN  /\ x \in Int /\ d <= x
             /\ Scored(a) /\ d # 0 => x = d
<1> DEFINE art == Artefacts[a]
           s == compute_stats(art)
           d == s["drift_per_path"]
           x == Value(metric, Result[a])
<1>1. score_run(art) = [success |-> TRUE, stats |-> s] /\ art.db /\ d \in 0..1000
  BY ScoredStats
<1>2. Result[a] = BagRunResult(art)
  BY DEF Result
<1> HIDE DEF s, art
<1>3. CASE art.played
  <2>1. Result[a] = [success |-> TRUE, metrics |-> [success |-> TRUE, stats |-> s]]
    BY <1>1, <1>2, <1>3 DEF BagRunResult
  <2>2. Result[a].success /\ Result[a].metrics.success /\ Result[a].metrics.stats = s
    BY <2>1
  <2>3. x = Extract(metric, s)
    BY <2>2 DEF Value
  <2>4. Extract(metric, s) = Or(d, 1000)
    BY DEF Extract
  <2>5. x = Or(d, 1000)
    BY <2>3, <2>4
  <2> HIDE DEF d, x
  <2>6. x \in Int /\ d <= x /\ (d # 0 => x = d)
    BY ONLY <1>1, <2>5 DEF Or, NoValue
  <2> QED  BY ONLY <2>6 DEF d, x, s, art
<1>4. CASE ~art.played
  <2>1. Result[a] = [success |-> FALSE]
    BY <1>2, <1>4 DEF BagRunResult
  <2>2. ~Result[a].success
    BY <2>1
  <2>3. x = 1000 /\ ~Scored(a)
    BY <2>2 DEF Value, Scored
  <2> HIDE DEF d, x
  <2> QED  BY <1>1, <2>3 DEF d, x, s, art
<1> QED  BY <1>3, <1>4

LEMMA ScoredRun ==
  ASSUME NEW a \in DOMAIN Artefacts, Scored(a)
  PROVE  Result[a].success = TRUE /\ score_run(Artefacts[a]).success
<1> DEFINE art == Artefacts[a]
<1>1. Result[a] = BagRunResult(art) /\ Result[a].success /\ Result[a].metrics.success
  BY DEF Result, Scored
<1> HIDE DEF art
<1>2. Result[a] = [success |-> TRUE, metrics |-> score_run(art)]
  BY <1>1 DEF BagRunResult
<1>3. Result[a].success = TRUE /\ Result[a].metrics = score_run(art)
  BY <1>2
<1> QED  BY <1>1, <1>3 DEF art

(* The directory of a repetition that left art[b] in the directory of bag b. *)
Holds(bags, art) ==
  /\ DOMAIN bags = Names
  /\ \A b \in Bags :
       /\ art[b] \in DOMAIN Artefacts
       /\ bags[DirName(b)].art = art[b]
       /\ Result[art[b]].success = TRUE => bags[DirName(b)].metrics = TRUE

Runs(runs, art) == DOMAIN runs = Bags /\ \A b \in Bags : runs[b] = Result[art[b]]

LEMMA BagsRead ==
  ASSUME NEW bags, NEW art, Holds(bags, art)
  PROVE  LET drifts == BagDrifts(Files(bags))
             ranked == RankValues(Files(bags), "drift_per_path")
         IN  /\ DOMAIN drifts \subseteq Names /\ DOMAIN ranked \subseteq Names
             /\ \A b \in Bags :
                  /\ DirName(b) \in DOMAIN drifts =>
                       /\ score_run(Artefacts[art[b]]).success
                       /\ drifts[DirName(b)] = compute_stats(Artefacts[art[b]])["drift_per_path"]
                  /\ Scored(art[b]) => DirName(b) \in DOMAIN drifts /\ DirName(b) \in DOMAIN ranked
<1> DEFINE files == Files(bags)
           drifts == BagDrifts(files)
           ranked == RankValues(files, "drift_per_path")
<1>1. DOMAIN files = Names
  BY DEF Holds, Files
<1>2. ASSUME NEW b \in Bags
      PROVE  /\ DirName(b) \in Names
             /\ files[DirName(b)].art = Artefacts[art[b]]
             /\ files[DirName(b)].metrics = bags[DirName(b)].metrics
  <2> DEFINE x == DirName(b)
  <2>1. x \in Names /\ x \in DOMAIN bags
    BY <1>2 DEF Names, Holds
  <2>2. bags[x].art # "nothing" /\ bags[x].art = art[b]
    BY <1>2, StudyAssumption DEF Holds
  <2> HIDE DEF x
  <2>3. files[x] = [art |-> Artefacts[art[b]], metrics |-> bags[x].metrics]
    BY <2>1, <2>2 DEF Files
  <2> HIDE DEF files
  <2> QED  BY <2>1, <2>3 DEF x
<1> HIDE DEF files
<1>3. /\ DOMAIN drifts = {c \in Names : /\ files[c].metrics /\ Scoreable(files[c])
                                        /\ bag_stats(files[c]).drift_per_path # NoValue}
      /\ DOMAIN ranked = {c \in Names : /\ Scoreable(files[c])
                                        /\ bag_stats(files[c])["drift_per_path"] # NoValue}
      /\ \A c \in DOMAIN drifts : drifts[c] = bag_stats(files[c]).drift_per_path
  BY <1>1 DEF BagDrifts, RankValues
<1> HIDE DEF drifts, ranked
<1>4. ASSUME NEW b \in Bags, DirName(b) \in DOMAIN drifts
      PROVE  /\ score_run(Artefacts[art[b]]).success
             /\ drifts[DirName(b)] = compute_stats(Artefacts[art[b]])["drift_per_path"]
  <2>1. art[b] \in DOMAIN Artefacts
    BY <1>4 DEF Holds
  <2>2. score_run(Artefacts[art[b]]).success
    BY <1>2, <1>3, <1>4 DEF Scoreable
  <2>3. score_run(Artefacts[art[b]]).stats = compute_stats(Artefacts[art[b]])
    BY <2>1, <2>2, ScoredStats
  <2> QED  BY <1>2, <1>3, <1>4, <2>2, <2>3 DEF bag_stats
<1>5. ASSUME NEW b \in Bags, Scored(art[b])
      PROVE  DirName(b) \in DOMAIN drifts /\ DirName(b) \in DOMAIN ranked
  <2> DEFINE a == art[b]
             x == DirName(b)
  <2>1. a \in DOMAIN Artefacts
    BY <1>5 DEF Holds
  <2>2. Result[a].success = TRUE /\ score_run(Artefacts[a]).success
    BY <1>5, <2>1, ScoredRun
  <2>3. bags[x].metrics = TRUE
    BY <1>5, <2>2 DEF Holds
  <2>4. /\ score_run(Artefacts[a]).stats = compute_stats(Artefacts[a])
        /\ Artefacts[a].db /\ compute_stats(Artefacts[a])["drift_per_path"] \in 0..1000
    <3> HIDE DEF a
    <3>1. score_run(Artefacts[a]).success
      BY ONLY <2>2
    <3>2. /\ score_run(Artefacts[a]) = [success |-> TRUE, stats |-> compute_stats(Artefacts[a])]
          /\ Artefacts[a].db /\ compute_stats(Artefacts[a])["drift_per_path"] \in 0..1000
      BY <2>1, <3>1, ScoredStats
    <3>3. score_run(Artefacts[a]).stats = compute_stats(Artefacts[a])
      BY ONLY <3>2
    <3> QED  BY ONLY <3>2, <3>3
  <2>5. x \in Names /\ files[x].art = Artefacts[a] /\ files[x].metrics = TRUE
    BY <1>2, <1>5, <2>3
  <2> HIDE DEF a, x
  <2>6. Scoreable(files[x])
    BY <2>2, <2>4, <2>5 DEF Scoreable
  <2>7. bag_stats(files[x])["drift_per_path"] # NoValue
    <3>1. bag_stats(files[x]) = compute_stats(Artefacts[a])
      BY <2>4, <2>5 DEF bag_stats
    <3>2. \A d \in 0..1000 : d # NoValue
      BY DEF NoValue
    <3>3. compute_stats(Artefacts[a])["drift_per_path"] # NoValue
      BY ONLY <2>4, <3>2
    <3> QED  BY ONLY <3>1, <3>3
  <2> QED  BY <1>3, <2>5, <2>6, <2>7 DEF x
<1> QED  BY <1>3, <1>4, <1>5 DEF drifts, ranked, files

(* No bag has a drift above the score of the worst one.                    *)
LEMMA WorstBag ==
  ASSUME NEW bags, NEW art, Holds(bags, art), NEW runs, Runs(runs, art),
         NEW c \in DOMAIN BagDrifts(Files(bags))
  PROVE  BagDrifts(Files(bags))[c] <= Aggregate(METRICS.max_drift_per_path, runs)
<1> DEFINE metric == METRICS.max_drift_per_path
           m == Len(Stems)
           drifts == BagDrifts(Files(bags))
           v == [b \in 1..m |-> Value(metric, runs[b])]
<1>1. m \in Nat \ {0} /\ Bags = 1..m
  BY StudyAssumption DEF Bags
<1>2. /\ metric.field = "drift_per_path" /\ metric.fail = 1000
      /\ metric.aggregator = "max"
  BY DEF METRICS, Metric
<1>3. "max_drift_per_path" \in BoundedMetrics /\ metric = METRICS["max_drift_per_path"]
  BY DEF BoundedMetrics
<1>4. \A b \in 1..m : v[b] = Value(metric, Result[art[b]]) /\ v[b] \in Int
  <2>1. ASSUME NEW b \in 1..m
        PROVE  Value(metric, runs[b]) = Value(metric, Result[art[b]])
                 /\ Value(metric, Result[art[b]]) \in Int
    <3>1. runs[b] = Result[art[b]] /\ art[b] \in DOMAIN Artefacts
      BY <1>1 DEF Runs, Holds
    <3>2. Value(metric, Result[art[b]]) \in Int
      BY <1>3, <3>1, ValueBounded
    <3> QED  BY <3>1, <3>2
  <2> HIDE DEF metric, m
  <2> QED  BY <2>1
<1>5. Aggregate(metric, runs) = Largest[v]
  <2>1. runs # <<>>
    BY <1>1 DEF Runs
  <2>2. DOMAIN runs = 1..m
    BY <1>1 DEF Runs
  <2>3. [b \in DOMAIN runs |-> Value(metric, runs[b])] = v
    BY <2>2
  <2> HIDE DEF metric, m, v
  <2> QED  BY <1>2, <2>1, <2>3 DEF Aggregate
<1>6. v \in Seq(Int) /\ Len(v) = m
  <2>1. v = [b \in 1..m |-> v[b]]
    OBVIOUS
  <2> HIDE DEF v, m
  <2>2. v \in [1..m -> Int]
    BY <1>4, <2>1
  <2> QED  BY <1>1, <2>2, SeqOf
<1>7. PICK b \in Bags : c = DirName(b)
  BY BagsRead DEF Names
<1>8. /\ score_run(Artefacts[art[b]]).success
      /\ drifts[c] = compute_stats(Artefacts[art[b]])["drift_per_path"]
  BY <1>7, BagsRead
<1>9. art[b] \in DOMAIN Artefacts
  BY <1>7 DEF Holds
<1> DEFINE d == compute_stats(Artefacts[art[b]])["drift_per_path"]
<1>10. d \in 0..1000
  <2>1. score_run(Artefacts[art[b]]).success
    BY <1>8
  <2> QED  BY <1>9, <2>1, ScoredStats
<1>11. d <= Value(metric, Result[art[b]])
  <2> HIDE DEF metric
  <2> QED  BY <1>2, <1>8, <1>9, DriftValue
<1> HIDE DEF metric, v, m, d, drifts
<1>12. Largest[v] \in Int /\ v[b] <= Largest[v] /\ b \in 1..m
  BY <1>1, <1>6, <1>7, NoneAbove
<1>13. d <= v[b] /\ v[b] \in Int
  BY <1>4, <1>11, <1>12
<1>14. d <= Largest[v]
  BY <1>10, <1>12, <1>13
<1> QED  BY <1>5, <1>8, <1>14 DEF d, metric, drifts

(* The report aggregates the drifts of the bags in another order.          *)
LEMMA ReportAgrees ==
  ASSUME NamesApart, NEW bags, NEW art, Holds(bags, art), NEW runs, Runs(runs, art),
         \A b \in Bags : Scored(art[b]) /\ BagDrifts(Files(bags))[DirName(b)] # 0
  PROVE  LET again == Reaggregated(BagDrifts(Files(bags)))
         IN  \A name \in DOMAIN again : again[name] = Aggregate(METRICS[name], runs)
<1> DEFINE m == Len(Stems)
           drifts == BagDrifts(Files(bags))
           x == [b \in 1..m |-> drifts[DirName(b)]]
<1>1. m \in Nat \ {0} /\ Bags = 1..m
  BY StudyAssumption DEF Bags
<1>2. \A b \in Bags :
        /\ DirName(b) \in DOMAIN drifts /\ art[b] \in DOMAIN Artefacts
        /\ score_run(Artefacts[art[b]]).success
        /\ drifts[DirName(b)] = compute_stats(Artefacts[art[b]])["drift_per_path"]
  <2>1. ASSUME NEW b \in Bags PROVE art[b] \in DOMAIN Artefacts /\ DirName(b) \in DOMAIN drifts
    <3>1. art[b] \in DOMAIN Artefacts
      BY DEF Holds
    <3>2. DirName(b) \in DOMAIN drifts
      BY BagsRead
    <3> QED  BY <3>1, <3>2
  <2>2. ASSUME NEW b \in Bags
        PROVE  /\ score_run(Artefacts[art[b]]).success
               /\ drifts[DirName(b)] = compute_stats(Artefacts[art[b]])["drift_per_path"]
    BY <2>1, BagsRead
  <2> HIDE DEF drifts
  <2> QED  BY <2>1, <2>2
<1>3. DOMAIN drifts = Names
  BY <1>2, BagsRead DEF Names
<1>4. \A b \in Bags : drifts[DirName(b)] \in 0..1000
  BY <1>2, ScoredStats
<1> HIDE DEF drifts
<1>5. x \in Seq(Int) /\ Len(x) = m /\ \A b \in Bags : x[b] = drifts[DirName(b)]
  <2>1. x \in [1..m -> Int] /\ \A b \in 1..m : x[b] = drifts[DirName(b)]
    <3>1. \A d \in 0..1000 : d \in Int
      OBVIOUS
    <3>2. ASSUME NEW b \in Bags PROVE drifts[DirName(b)] \in Int
      BY <1>4, <3>1
    <3> HIDE DEF m
    <3> QED  BY <1>1, <3>2
  <2> HIDE DEF x, m
  <2> QED  BY <1>1, <2>1, SeqOf
<1>6. ASSUME NEW metric, metric.field = "drift_per_path", metric.fail = 1000
      PROVE  [b \in DOMAIN runs |-> Value(metric, runs[b])] = x
  <2>1. ASSUME NEW b \in Bags PROVE Value(metric, runs[b]) = drifts[DirName(b)]
    <3>1. runs[b] = Result[art[b]]
      BY DEF Runs
    <3>2. Scored(art[b]) /\ drifts[DirName(b)] # 0
      BY DEF drifts
    <3>3. Value(metric, Result[art[b]]) = compute_stats(Artefacts[art[b]])["drift_per_path"]
      BY <1>2, <1>6, <3>2, DriftValue
    <3> QED  BY <1>2, <3>1, <3>3
  <2>2. DOMAIN runs = 1..m
    BY <1>1 DEF Runs
  <2> HIDE DEF m
  <2> QED  BY <1>1, <2>1, <2>2
<1>7. runs # <<>>
  BY <1>1 DEF Runs
<1> DEFINE Order(s) == \A c \in DOMAIN drifts : \E i \in DOMAIN s : s[i] = c
           order == CHOOSE s \in [1..Cardinality(DOMAIN drifts) -> DOMAIN drifts] : Order(s)
           y == [i \in DOMAIN order |-> drifts[order[i]]]
<1>8. Cardinality(Names) = m
  <2> DEFINE f == [b \in Bags |-> DirName(b)]
  <2>1. f \in [Bags -> Names] /\ \A b \in Bags : f[b] = DirName(b)
    BY DEF Names
  <2> HIDE DEF f
  <2>2. /\ \A b, c \in Bags : f[b] = f[c] => b = c
        /\ \A c \in Names : \E b \in Bags : f[b] = c
    BY <2>1 DEF NamesApart, Names
  <2>3. f \in Bijection(Bags, Names)
    BY <2>1, <2>2 DEF Bijection, Injection, Surjection, IsInjective
  <2>4. IsFiniteSet(1..m) /\ Cardinality(1..m) = m
    <3> HIDE DEF m
    <3> QED  BY <1>1, FS_Interval
  <2> QED  BY <1>1, <2>3, <2>4, FS_Bijection DEF ExistsBijection
<1>9. order \in [1..m -> Names] /\ \A c \in Names : \E i \in 1..m : order[i] = c
  <2> DEFINE f == [b \in 1..m |-> DirName(b)]
  <2>1. f \in [1..m -> Names] /\ \A b \in 1..m : f[b] = DirName(b)
    BY <1>1 DEF Names
  <2> HIDE DEF f, m
  <2>2. Order(f)
    BY <1>1, <1>3, <2>1 DEF Names
  <2>3. order \in [1..m -> Names] /\ Order(order)
    <3> HIDE DEF Order
    <3> QED  BY <1>3, <1>8, <2>1, <2>2
  <2> QED  BY <1>3, <2>3
<1>10. Reaggregated(drifts) =
         [drift_per_path |-> Median[y], q75_drift_per_path |-> Quantile(y, 75),
          q90_drift_per_path |-> Quantile(y, 90), max_drift_per_path |-> Largest[y]]
  BY DEF Reaggregated
<1> HIDE DEF order, x
<1> DEFINE p == [i \in 1..m |-> CHOOSE b \in Bags : DirName(b) = order[i]]
<1>11. p \in [1..m -> 1..m] /\ \A i \in 1..m : DirName(p[i]) = order[i]
  <2>1. ASSUME NEW i \in 1..m
        PROVE  (CHOOSE b \in Bags : DirName(b) = order[i]) \in Bags
                 /\ DirName(CHOOSE b \in Bags : DirName(b) = order[i]) = order[i]
    <3>1. \E b \in Bags : DirName(b) = order[i]
      <4>1. order[i] \in Names
        BY <1>9
      <4> QED  BY <4>1 DEF Names
    <3> QED  BY <3>1
  <2> HIDE DEF m
  <2> QED  BY <1>1, <2>1
<1> HIDE DEF p, m
<1>12. p \in Bijection(1..m, 1..m)
  <2>1. ASSUME NEW b \in 1..m PROVE \E i \in 1..m : p[i] = b
    <3>1. DirName(b) \in Names
      BY <1>1 DEF Names
    <3>2. PICK i \in 1..m : order[i] = DirName(b)
      BY <1>9, <3>1
    <3>3. DirName(p[i]) = DirName(b) /\ p[i] \in Bags /\ b \in Bags
      BY <1>1, <1>11, <3>2
    <3> QED  BY <3>3 DEF NamesApart
  <2>2. p \in Surjection(1..m, 1..m)
    BY <1>11, <2>1 DEF Surjection
  <2>3. IsFiniteSet(1..m)
    BY <1>1, FS_Interval
  <2>4. p \in Injection(1..m, 1..m)
    BY <2>2, <2>3, FS_SurjSameCardinalityImpliesInj
  <2> QED  BY <2>2, <2>4 DEF Bijection
<1>13. /\ y \in Seq(Int) /\ Len(y) = m /\ \A i \in 1..m : y[i] = x[p[i]]
  <2>1. DOMAIN order = 1..m
    BY <1>9
  <2>2. \A i \in 1..m : y[i] = x[p[i]] /\ y[i] \in Int
    <3>1. ASSUME NEW i \in 1..m PROVE drifts[order[i]] = x[p[i]] /\ drifts[order[i]] \in Int
      <4>1. p[i] \in Bags /\ DirName(p[i]) = order[i]
        BY <1>1, <1>11
      <4>2. drifts[DirName(p[i])] \in 0..1000 /\ x[p[i]] = drifts[DirName(p[i])]
        <5>1. \A b \in Bags : drifts[DirName(b)] \in 0..1000 /\ x[b] = drifts[DirName(b)]
          BY <1>4, <1>5
        <5> QED  BY ONLY <4>1, <5>1
      <4>3. drifts[order[i]] = drifts[DirName(p[i])]
        BY <4>1
      <4>4. drifts[DirName(p[i])] \in Int
        BY ONLY <4>2
      <4> QED  BY ONLY <4>2, <4>3, <4>4
    <3> QED  BY <2>1, <3>1
  <2>3. y = [i \in 1..m |-> y[i]]
    BY <2>1
  <2> HIDE DEF y
  <2>4. y \in [1..m -> Int]
    BY <2>2, <2>3
  <2> QED  BY <1>1, <2>2, <2>4, SeqOf
<1> HIDE DEF y
<1>14. Reordered(x, y) /\ x # <<>>
  BY <1>1, <1>5, <1>12, <1>13 DEF Reordered
<1>15. /\ Median[y] = Median[x] /\ Largest[y] = Largest[x]
       /\ Quantile(y, 75) = Quantile(x, 75) /\ Quantile(y, 90) = Quantile(x, 90)
  BY <1>14, SameAggregates
<1>16. ASSUME NEW metric, metric.field = "drift_per_path", metric.fail = 1000
       PROVE  /\ metric.aggregator = "median" => Aggregate(metric, runs) = Median[x]
              /\ metric.aggregator = "max" => Aggregate(metric, runs) = Largest[x]
              /\ metric.aggregator = "q75" => Aggregate(metric, runs) = Quantile(x, 75)
              /\ metric.aggregator = "q90" => Aggregate(metric, runs) = Quantile(x, 90)
  <2>1. [b \in DOMAIN runs |-> Value(metric, runs[b])] = x
    BY <1>6, <1>16
  <2> QED  BY <1>7, <2>1 DEF Aggregate
<1>17. /\ Aggregate(METRICS["drift_per_path"], runs) = Median[x]
       /\ Aggregate(METRICS["max_drift_per_path"], runs) = Largest[x]
       /\ Aggregate(METRICS["q75_drift_per_path"], runs) = Quantile(x, 75)
       /\ Aggregate(METRICS["q90_drift_per_path"], runs) = Quantile(x, 90)
  <2>1. Aggregate(METRICS["drift_per_path"], runs) = Median[x]
    <3> DEFINE metric == METRICS["drift_per_path"]
    <3>1. metric.field = "drift_per_path" /\ metric.fail = 1000 /\ metric.aggregator = "median"
      BY DEF METRICS, Metric
    <3> HIDE DEF metric
    <3>2. Aggregate(metric, runs) = Median[x]
      BY <1>16, <3>1
    <3> QED  BY <3>2 DEF metric
  <2>2. Aggregate(METRICS["max_drift_per_path"], runs) = Largest[x]
    <3> DEFINE metric == METRICS["max_drift_per_path"]
    <3>1. metric.field = "drift_per_path" /\ metric.fail = 1000 /\ metric.aggregator = "max"
      BY DEF METRICS, Metric
    <3> HIDE DEF metric
    <3>2. Aggregate(metric, runs) = Largest[x]
      BY <1>16, <3>1
    <3> QED  BY <3>2 DEF metric
  <2>3. Aggregate(METRICS["q75_drift_per_path"], runs) = Quantile(x, 75)
    <3> DEFINE metric == METRICS["q75_drift_per_path"]
    <3>1. metric.field = "drift_per_path" /\ metric.fail = 1000 /\ metric.aggregator = "q75"
      BY DEF METRICS, Metric
    <3> HIDE DEF metric
    <3>2. Aggregate(metric, runs) = Quantile(x, 75)
      BY <1>16, <3>1
    <3> QED  BY <3>2 DEF metric
  <2>4. Aggregate(METRICS["q90_drift_per_path"], runs) = Quantile(x, 90)
    <3> DEFINE metric == METRICS["q90_drift_per_path"]
    <3>1. metric.field = "drift_per_path" /\ metric.fail = 1000 /\ metric.aggregator = "q90"
      BY DEF METRICS, Metric
    <3> HIDE DEF metric
    <3>2. Aggregate(metric, runs) = Quantile(x, 90)
      BY <1>16, <3>1
    <3> QED  BY <3>2 DEF metric
  <2> QED  BY <2>1, <2>2, <2>3, <2>4
<1>18. ASSUME NEW again,
              again = [drift_per_path |-> Median[x], q75_drift_per_path |-> Quantile(x, 75),
                       q90_drift_per_path |-> Quantile(x, 90), max_drift_per_path |-> Largest[x]]
       PROVE  \A name \in DOMAIN again : again[name] = Aggregate(METRICS[name], runs)
  BY <1>17, <1>18
<1> QED  BY <1>10, <1>15, <1>18 DEF drifts

(* A repetition of a completed trial holds the results of its bags.        *)
LEMMA RepetitionHolds ==
  ASSUME NamesApart, BagsInv, AllRecorded, NEW n \in Completed(rows),
         rows[n].opt.objective = "real", NEW r \in 1..rows[n].opt.reps
  PROVE  /\ <<n, r>> \in DOMAIN dirs
         /\ \E art : /\ Holds(dirs[<<n, r>>].bags, art)
                     /\ Runs(ByRep(rows[n].results)[r], art)
                     /\ \A b \in Bags : \E i \in DOMAIN rows[n].results :
                          art[b] = rows[n].results[i]
<1> DEFINE results == rows[n].results
           reps == rows[n].opt.reps
           m == Len(Stems)
           k == <<n, r>>
           place(b) == m * (r - 1) + b
           art == [b \in Bags |-> results[place(b)]]
<1>1. /\ results \in Seq(DOMAIN Artefacts) /\ reps \in Nat \ {0}
      /\ Len(results) = reps * m /\ Filed(n, results, reps)
  BY StudyAssumption DEF AllRecorded, Recorded
<1>2. m \in Nat \ {0} /\ Bags = 1..m /\ DOMAIN results = 1..(reps * m)
  BY <1>1, StudyAssumption DEF Bags
<1>3. r \in 1..reps
  OBVIOUS
<1> HIDE DEF results, reps
<1>4. \A b \in Bags : /\ place(b) \in DOMAIN results
                      /\ RepOf(place(b)) = r /\ BagOf(place(b)) = b
  BY <1>1, <1>2, <1>3, PlaceWithin
<1> HIDE DEF place, m
<1>5. ASSUME NEW b \in Bags
      PROVE  /\ k \in DOMAIN dirs /\ DirName(b) \in DOMAIN dirs[k].bags
             /\ dirs[k].bags[DirName(b)].art = art[b] /\ art[b] \in DOMAIN Artefacts
  <2>1. results[place(b)] \in DOMAIN Artefacts /\ art[b] = results[place(b)]
    BY <1>1, <1>4, <1>5
  <2> HIDE DEF art
  <2> QED  BY <1>1, <1>4, <1>5, <2>1 DEF Filed
<1>6. k \in DOMAIN dirs
  <2>1. 1 \in Bags
    BY <1>2
  <2> QED  BY <1>5, <2>1
<1>7. Holds(dirs[k].bags, art)
  <2>1. DOMAIN dirs[k].bags = Names
    BY <1>5, <1>6 DEF BagsInv, Names
  <2> HIDE DEF art, k
  <2>2. ASSUME NEW b \in Bags, Result[art[b]].success = TRUE
        PROVE  dirs[k].bags[DirName(b)].metrics = TRUE
    BY <1>5, <1>6, <2>2 DEF BagsInv
  <2> QED  BY <1>5, <2>1, <2>2 DEF Holds
<1>8. Runs(ByRep(results)[r], art)
  <2>1. Len(results) \div m = reps
    <3>1. reps * m = m * reps + 0 /\ 0 \in 0..(m - 1)
      BY <1>1, <1>2
    <3>2. (m * reps + 0) \div m = reps
      BY <1>1, <1>2, <3>1, Place
    <3> QED  BY <1>1, <3>1, <3>2
  <2>2. /\ DOMAIN ByRep(results)[r] = Bags
        /\ \A b \in Bags : ByRep(results)[r][b] = Result[results[((r - 1) * m) + b]]
    BY <1>3, <2>1 DEF ByRep, m
  <2>3. \A b \in Bags : ((r - 1) * m) + b = place(b)
    <3>1. (r - 1) * m = m * (r - 1)
      BY <1>1, <1>2, <1>3
    <3> QED  BY <3>1 DEF place
  <2> QED  BY <2>2, <2>3 DEF Runs
<1>9. \A b \in Bags : \E i \in DOMAIN results : art[b] = results[i]
  BY <1>4
<1> QED  BY <1>6, <1>7, <1>8, <1>9 DEF results, k

(* Such a repetition is ranked if all its bags were scored: no trial has   *)
(* more bag directories than there are bags.                               *)
LEMMA AllScoredIsRanked ==
  ASSUME BagsInv, NEW k \in DOMAIN dirs, NEW art, Holds(dirs[k].bags, art),
         \A b \in Bags : Scored(art[b])
  PROVE  k \in Ranked([t \in DOMAIN dirs |-> Files(dirs[t].bags)], "drift_per_path")
<1> DEFINE trials == [t \in DOMAIN dirs |-> Files(dirs[t].bags)]
           found == DOMAIN RankValues(Files(dirs[k].bags), "drift_per_path")
<1>1. found = Names
  BY BagsRead DEF Names
<1>2. IsFiniteSet(Names) /\ Names # {}
  <2> DEFINE f == [b \in Bags |-> DirName(b)]
  <2>1. f \in Surjection(Bags, Names)
    BY DEF Surjection, Names
  <2>2. IsFiniteSet(Bags) /\ 1 \in Bags
    BY StudyAssumption, FS_Interval DEF Bags
  <2> HIDE DEF f
  <2> QED  BY <2>1, <2>2, FS_Surjection DEF Names
<1>3. ASSUME NEW u \in DOMAIN trials
      PROVE  Cardinality(found) >= Cardinality(DOMAIN trials[u])
  <2>1. DOMAIN trials[u] = DOMAIN dirs[u].bags
    BY <1>3 DEF Files
  <2>2. DOMAIN dirs[u].bags \in SUBSET Names
    BY <1>3 DEF BagsInv
  <2> HIDE DEF trials, found
  <2>3. /\ Cardinality(DOMAIN dirs[u].bags) <= Cardinality(Names)
        /\ Cardinality(DOMAIN dirs[u].bags) \in Nat /\ Cardinality(Names) \in Nat
    BY <1>2, <2>2, FS_Subset, FS_CardinalityType
  <2> QED  BY <1>1, <2>1, <2>3
<1>4. trials[k] = Files(dirs[k].bags) /\ DOMAIN trials = DOMAIN dirs
  OBVIOUS
<1> HIDE DEF trials
<1> QED  BY <1>1, <1>2, <1>3, <1>4 DEF Ranked, trials

(* The tools that read the directories agree with the optimizer, if bags   *)
(* do not share a directory and no other process works on the output root: *)
(* no drift is above the score of the worst bag, the report aggregates the *)
(* bags to the values of the trial unless one failed or closed its loop    *)
(* exactly, and a trial whose bags were all scored is ranked.              *)
THEOREM ReadersAgreeWithStudy == ASSUME NamesApart PROVE Spec => []ReadersAgree
<1>1. Init => WorkInv /\ DirsShape /\ RecordInv /\ ResultsInv /\ BagsInv
  <2> SUFFICES ASSUME Init PROVE WorkInv /\ DirsShape /\ RecordInv /\ ResultsInv /\ BagsInv
    OBVIOUS
  <2>1. proc.pc = "off" /\ DOMAIN rows = {} /\ DOMAIN dirs = {}
    BY DEF Init, Gone
  <2> QED
    BY <2>1 DEF WorkInv, DirsShape, RecordInv, AllRecorded, InProgress, ResultsInv,
                Collected, BagsInv, Completed, Working
<1>2. WorkInv /\ DirsShape /\ ResultsInv /\ BagsInv /\ [Next]_vars => BagsInv'
  BY BagsStep DEF ResultsInv
<1>3. RecordInv /\ BagsInv => ReadersAgree
  <2> SUFFICES ASSUME RecordInv, BagsInv, others = 0 PROVE ReadersAgree
    BY DEF ReadersAgree
  <2> DEFINE trials == [k \in DOMAIN dirs |-> Files(dirs[k].bags)]
             ranked == Ranked(trials, "drift_per_path")
             drifts(k) == BagDrifts(trials[k])
             again(k) == Reaggregated(drifts(k))
             runs(n, r) == ByRep(rows[n].results)[r]
  <2>1. ASSUME NEW n \in Completed(rows), rows[n].opt.objective = "real",
               NEW r \in 1..rows[n].opt.reps
        PROVE  /\ \A c \in DOMAIN drifts(<<n, r>>) :
                    drifts(<<n, r>>)[c] <= Aggregate(METRICS.max_drift_per_path, runs(n, r))
               /\ (\A b \in Bags : /\ runs(n, r)[b].success /\ runs(n, r)[b].metrics.success
                                   /\ drifts(<<n, r>>)[DirName(b)] # 0)
                    => \A metric \in DOMAIN again(<<n, r>>) :
                         again(<<n, r>>)[metric] = Aggregate(METRICS[metric], runs(n, r))
               /\ (\A i \in DOMAIN rows[n].results : Scored(rows[n].results[i]))
                    => <<n, r>> \in ranked
    <3> DEFINE k == <<n, r>>
               bags == dirs[k].bags
    <3>1. AllRecorded
      BY DEF RecordInv
    <3>2. k \in DOMAIN dirs
      BY <2>1, <3>1, RepetitionHolds
    <3>3. PICK art : /\ Holds(bags, art) /\ Runs(runs(n, r), art)
                     /\ \A b \in Bags : \E i \in DOMAIN rows[n].results :
                          art[b] = rows[n].results[i]
      BY <2>1, <3>1, RepetitionHolds
    <3>4. drifts(k) = BagDrifts(Files(bags))
      BY <3>2
    <3> DEFINE run == runs(n, r)
    <3> HIDE DEF k, bags, drifts, run
    <3>5. \A c \in DOMAIN drifts(k) :
            drifts(k)[c] <= Aggregate(METRICS.max_drift_per_path, run)
      BY <3>3, <3>4, WorstBag DEF run
    <3>6. ASSUME \A b \in Bags : run[b].success /\ run[b].metrics.success
                                   /\ drifts(k)[DirName(b)] # 0
          PROVE  \A metric \in DOMAIN again(k) :
                   again(k)[metric] = Aggregate(METRICS[metric], run)
      <4>1. \A b \in Bags : Scored(art[b]) /\ BagDrifts(Files(bags))[DirName(b)] # 0
        BY <3>3, <3>4, <3>6 DEF Runs, Scored, run
      <4> QED  BY <3>3, <3>4, <4>1, ReportAgrees DEF run
    <3>7. ASSUME \A i \in DOMAIN rows[n].results : Scored(rows[n].results[i])
          PROVE  k \in ranked
      <4>1. \A b \in Bags : Scored(art[b])
        BY <3>3, <3>7
      <4> QED  BY <3>2, <3>3, <4>1, AllScoredIsRanked DEF bags
    <3> QED  BY <3>5, <3>6, <3>7 DEF k, run
  <2> QED  BY <2>1 DEF ReadersAgree
<1> QED
  BY <1>1, <1>2, <1>3, ProcAlways, WorkStep, RecordStep, ResultsStep, PTL DEF Spec

-----------------------------------------------------------------------------
(* When bags do not share a directory.                                     *)

(* No stem is that of another bag with a number after it, "foo" and        *)
(* "foo_1".                                                                *)
NoStemNumbered == \A b, c \in Bags : \A i \in Nat : Stems[b] # Append(Stems[c], i)

(* The directories that run_trial gives bags of the same stem are numbered *)
(* apart, and they are met by others only if a stem is itself numbered: so *)
(* it can be seen from the names of the bags whether the records and the   *)
(* tools that read them can be relied on.                                  *)
THEOREM StemsKeepApart == ASSUME NoStemNumbered PROVE NamesApart
<1> DEFINE before(b) == {c \in 1..(b - 1) : Stems[c] = Stems[b]}
           S == STRING \cup Nat
<1>1. ASSUME NEW b \in Bags
      PROVE  /\ b \in Nat \ {0} /\ Stems[b] \in Seq(S) /\ before(b) \in SUBSET Bags
             /\ IsFiniteSet(before(b)) /\ Cardinality(before(b)) \in Nat
             /\ DirName(b) = IF before(b) = {} THEN Stems[b]
                             ELSE Append(Stems[b], Cardinality(before(b)))
  <2>1. b \in Nat \ {0} /\ Stems[b] \in Seq(S) /\ Bags = 1..Len(Stems) /\ Len(Stems) \in Nat
    BY <1>1, StudyAssumption DEF Bags
  <2>2. before(b) \in SUBSET (1..(b - 1)) /\ before(b) \in SUBSET Bags
    BY <1>1, <2>1
  <2>3. IsFiniteSet(1..(b - 1))
    BY <2>1, FS_Interval
  <2>4. DirName(b) = IF before(b) = {} THEN Stems[b]
                     ELSE Append(Stems[b], Cardinality(before(b)))
    BY DEF DirName
  <2> HIDE DEF before
  <2> QED  BY <2>1, <2>2, <2>3, <2>4, FS_Subset, FS_CardinalityType
<1> HIDE DEF S
<1>2. ASSUME NEW b \in Bags, NEW c \in Bags, DirName(b) = DirName(c)
      PROVE  Stems[b] = Stems[c] /\ Cardinality(before(b)) = Cardinality(before(c))
  <2> DEFINE p == before(b)
             q == before(c)
  <2>1. /\ DirName(b) = IF p = {} THEN Stems[b] ELSE Append(Stems[b], Cardinality(p))
        /\ DirName(c) = IF q = {} THEN Stems[c] ELSE Append(Stems[c], Cardinality(q))
        /\ Cardinality(p) \in Nat /\ Cardinality(q) \in Nat
        /\ Stems[b] \in Seq(S) /\ Stems[c] \in Seq(S)
    BY <1>1, <1>2
  <2> HIDE DEF p, q
  <2>2. CASE p = {} /\ q = {}
    BY <1>2, <2>1, <2>2 DEF p, q
  <2>3. CASE p = {} /\ q # {}
    BY <1>2, <2>1, <2>3 DEF NoStemNumbered
  <2>4. CASE p # {} /\ q = {}
    BY <1>2, <2>1, <2>4 DEF NoStemNumbered
  <2>5. CASE p # {} /\ q # {}
    <3>1. ASSUME NEW x \in Seq(S), NEW y \in Seq(S), NEW i, NEW j, Append(x, i) = Append(y, j)
          PROVE  x = y /\ i = j
      <4> DEFINE s == Append(x, i)
                 t == Append(y, j)
      <4>1. /\ Len(x) \in Nat /\ Len(s) = Len(x) + 1 /\ s[Len(x) + 1] = i
            /\ \A k \in 1..Len(x) : s[k] = x[k]
        BY <3>1
      <4>2. /\ Len(y) \in Nat /\ Len(t) = Len(y) + 1 /\ t[Len(y) + 1] = j
            /\ \A k \in 1..Len(y) : t[k] = y[k]
        BY <3>1
      <4>3. s = t
        BY <3>1
      <4> HIDE DEF s, t
      <4>4. Len(x) = Len(y)
        BY <4>1, <4>2, <4>3
      <4>5. i = j /\ \A k \in 1..Len(x) : x[k] = y[k]
        BY <4>1, <4>2, <4>3, <4>4
      <4>6. x = [k \in 1..Len(x) |-> x[k]] /\ y = [k \in 1..Len(y) |-> y[k]]
        BY <3>1
      <4> QED  BY <4>4, <4>5, <4>6
    <3>2. Append(Stems[b], Cardinality(p)) = Append(Stems[c], Cardinality(q))
      BY <1>2, <2>1, <2>5
    <3> DEFINE x == Stems[b]
               y == Stems[c]
               i == Cardinality(p)
               j == Cardinality(q)
    <3>3. x \in Seq(S) /\ y \in Seq(S) /\ Append(x, i) = Append(y, j)
      BY <2>1, <3>2
    <3> HIDE DEF x, y, i, j
    <3>4. x = y /\ i = j
      BY <3>1, <3>3
    <3> QED  BY <3>4 DEF x, y, i, j, p, q
  <2> QED  BY <2>2, <2>3, <2>4, <2>5
<1>3. ASSUME NEW b \in Bags, NEW c \in Bags, b < c, Stems[b] = Stems[c]
      PROVE  Cardinality(before(b)) # Cardinality(before(c))
  <2>1. before(b) \in SUBSET before(c) /\ b \in before(c) /\ b \notin before(b)
    <3>1. b \in Nat \ {0} /\ c \in Nat \ {0}
      BY <1>1
    <3> QED  BY <1>3, <3>1
  <2> HIDE DEF before
  <2> QED  BY <1>1, <2>1, FS_Subset
<1> HIDE DEF before
<1>4. ASSUME NEW b \in Bags, NEW c \in Bags, DirName(b) = DirName(c)
      PROVE  b = c
  <2>1. ~(b < c) /\ ~(c < b)
    BY <1>2, <1>3, <1>4
  <2> QED  BY <1>1, <2>1
<1> QED  BY <1>4 DEF NamesApart

-----------------------------------------------------------------------------
(* What the order statistics of the metrics are.                           *)

(* Sorted puts every value as often as it is there, in ascending order:    *)
(* the definition by ranks that the aggregates rest on is that of sorting, *)
(* as sorted() of _quantile.                                               *)
THEOREM SortedSorts ==
  ASSUME NEW x \in Seq(Int)
  PROVE  /\ Len(Sorted[x]) = Len(x)
         /\ \A j, k \in 1..Len(x) : j <= k => Sorted[x][j] <= Sorted[x][k]
         /\ \A v \in Int : Cardinality({k \in 1..Len(x) : Sorted[x][k] = v})
                             = Cardinality({i \in 1..Len(x) : x[i] = v})
<1> DEFINE n == Len(x)
<1>1. n \in Nat /\ DOMAIN x = 1..n /\ \A i \in 1..n : x[i] \in Int
  OBVIOUS
<1>2. ASSUME NEW k \in 1..n
      PROVE  /\ Sorted[x][k] \in Int
             /\ Cardinality(Below(x, Sorted[x][k])) < k
             /\ k <= Cardinality(UpTo(x, Sorted[x][k]))
  BY <1>2, Stat
<1> HIDE DEF n
<1>3. ASSUME NEW j \in 1..n, NEW k \in 1..n, j <= k
      PROVE  Sorted[x][j] <= Sorted[x][k]
  <2> DEFINE a == Sorted[x][j]
             b == Sorted[x][k]
  <2>1. /\ a \in Int /\ Cardinality(Below(x, a)) < j
        /\ b \in Int /\ k <= Cardinality(UpTo(x, b))
    BY <1>2, <1>3
  <2> HIDE DEF a, b
  <2>2. SUFFICES ASSUME b < a PROVE FALSE
    BY <2>1 DEF a, b
  <2>3. Cardinality(UpTo(x, b)) <= Cardinality(Below(x, a))
    BY <2>1, <2>2, Ranks
  <2>4. Cardinality(UpTo(x, b)) \in Nat /\ Cardinality(Below(x, a)) \in Nat
    BY <2>1, Counts
  <2> QED  BY <1>1, <1>3, <2>1, <2>3, <2>4
<1>4. ASSUME NEW v \in Int
      PROVE  Cardinality({k \in 1..n : Sorted[x][k] = v}) = Cardinality({i \in 1..n : x[i] = v})
  <2> DEFINE p == Cardinality(Below(x, v))
             q == Cardinality(UpTo(x, v))
             Places == {k \in 1..n : Sorted[x][k] = v}
             Places2 == {i \in 1..n : x[i] = v}
  <2>1. /\ IsFiniteSet(Below(x, v)) /\ IsFiniteSet(UpTo(x, v)) /\ p \in Nat /\ q \in Nat
    BY <1>4, Counts
  <2>2. /\ Below(x, v) \in SUBSET UpTo(x, v) /\ UpTo(x, v) \in SUBSET (1..n)
        /\ Places2 = UpTo(x, v) \ Below(x, v)
        /\ UpTo(x, v) \cap Below(x, v) = Below(x, v)
    BY <1>1, <1>4 DEF Below, UpTo
  <2>3. Cardinality(Places2) = q - p
    BY <2>1, <2>2, FS_Difference
  <2>4. p <= q /\ q <= n
    <3>1. p <= q
      BY <2>1, <2>2, FS_Subset
    <3>2. IsFiniteSet(1..n) /\ Cardinality(1..n) = n
      BY <1>1, FS_Interval
    <3>3. Cardinality(UpTo(x, v)) <= Cardinality(1..n)
      BY <2>2, <3>2, FS_Subset
    <3> HIDE DEF Places, Places2
    <3> QED  BY <3>1, <3>2, <3>3
  <2>5. Places = (p + 1)..q
    <3>1. ASSUME NEW k \in Places PROVE k \in (p + 1)..q
      <4>1. k \in 1..n /\ Sorted[x][k] = v
        OBVIOUS
      <4>2. p < k /\ k <= q
        BY <1>2, <4>1
      <4> QED  BY <1>1, <2>1, <4>1, <4>2
    <3>2. ASSUME NEW k \in (p + 1)..q PROVE k \in Places
      <4> DEFINE w == Sorted[x][k]
      <4>1. k \in 1..n /\ p < k /\ k <= q
        BY <1>1, <2>1, <2>4
      <4>2. w \in Int /\ Cardinality(Below(x, w)) < k /\ k <= Cardinality(UpTo(x, w))
        BY <1>2, <4>1
      <4> HIDE DEF w
      <4>3. ~(w < v)
        <5> SUFFICES ASSUME w < v PROVE FALSE
          OBVIOUS
        <5>1. Cardinality(UpTo(x, w)) <= p /\ Cardinality(UpTo(x, w)) \in Nat
          BY <1>4, <4>2, Ranks, Counts
        <5> QED  BY <1>1, <2>1, <4>1, <4>2, <5>1
      <4>4. ~(v < w)
        <5> SUFFICES ASSUME v < w PROVE FALSE
          OBVIOUS
        <5>1. q <= Cardinality(Below(x, w)) /\ Cardinality(Below(x, w)) \in Nat
          BY <1>4, <4>2, Ranks, Counts
        <5> QED  BY <1>1, <2>1, <4>1, <4>2, <5>1
      <4>5. w = v
        BY <1>4, <4>2, <4>3, <4>4
      <4> QED  BY <4>1, <4>5 DEF w
    <3> HIDE DEF Places, p, q
    <3> QED  BY <3>1, <3>2
  <2> HIDE DEF p, q, Places, Places2
  <2>6. Cardinality((p + 1)..q) = q - p
    <3>1. Cardinality((p + 1)..q) = IF p + 1 > q THEN 0 ELSE q - (p + 1) + 1
      BY <2>1, FS_Interval
    <3> QED  BY <2>1, <2>4, <3>1
  <2> QED  BY <2>3, <2>5, <2>6 DEF Places, Places2
<1> QED  BY <1>3, <1>4, SortedShape DEF n

(* The median and the maximum are the quantiles 50 and 100, of however     *)
(* many values: statistics.median, max and the interpolation of _quantile  *)
(* agree.                                                                  *)
THEOREM QuantilesMeet ==
  ASSUME NEW x \in Seq(Int), x # <<>>
  PROVE  Median[x] = Quantile(x, 50) /\ Largest[x] = Quantile(x, 100)
<1> DEFINE n == Len(x)
           s == Sorted[x]
<1>1. n \in Nat \ {0}
  OBVIOUS
<1>2. Len(s) = n /\ \A k \in 1..n : s[k] \in Int
  BY SortedShape
<1>3. /\ Median[x] = LET middle == (Len(s) + 1) \div 2
                     IN  IF Len(s) % 2 = 1 THEN s[middle] ELSE (s[middle] + s[middle + 1]) \div 2
      /\ Largest[x] = s[n]
  BY DEF Median, Largest
<1> DEFINE At(lo, hi, frac) == (s[lo + 1] * (100 - frac) + s[hi + 1] * frac) \div 100
<1>4. ASSUME NEW pct \in 0..100
      PROVE  Quantile(x, pct) = At((pct * (n - 1)) \div 100,
                                   MinOf((pct * (n - 1)) \div 100 + 1, n - 1),
                                   (pct * (n - 1)) % 100)
  BY <1>1, <1>2 DEF Quantile
<1> HIDE DEF s, n, At
<1>5. Largest[x] = Quantile(x, 100)
  <2>1. /\ (100 * (n - 1)) \div 100 = n - 1 /\ (100 * (n - 1)) % 100 = 0
        /\ MinOf((n - 1) + 1, n - 1) = n - 1
    BY <1>1 DEF MinOf
  <2>2. 100 \in 0..100
    OBVIOUS
  <2>3. Quantile(x, 100) = (s[(n - 1) + 1] * (100 - 0) + s[(n - 1) + 1] * 0) \div 100
    <3>1. Quantile(x, 100) = At(n - 1, n - 1, 0)
      BY <1>4, <2>1, <2>2
    <3> QED  BY <3>1 DEF At
  <2>4. (n - 1) + 1 = n /\ s[n] \in Int
    BY <1>1, <1>2
  <2>5. \A a \in Int : (a * (100 - 0) + a * 0) \div 100 = a
    OBVIOUS
  <2> QED  BY <1>3, <2>3, <2>4, <2>5
<1>6. Median[x] = Quantile(x, 50)
  <2>1. 50 \in 0..100
    OBVIOUS
  <2>2. PICK m \in Nat : n = 2 * m + 1 \/ n = 2 * m + 2
    <3>1. (n - 1) \div 2 \in Nat /\ (n = 2 * ((n - 1) \div 2) + 1 \/ n = 2 * ((n - 1) \div 2) + 2)
      BY <1>1
    <3> QED  BY <3>1
  <2>3. CASE n = 2 * m + 1
    <3>1. /\ (50 * (n - 1)) \div 100 = m /\ (50 * (n - 1)) % 100 = 0
          /\ (n + 1) \div 2 = m + 1 /\ n % 2 = 1
      BY <2>3
    <3> DEFINE hi == MinOf(m + 1, n - 1)
               b == s[hi + 1]
    <3>2. Quantile(x, 50) = (s[m + 1] * (100 - 0) + b * 0) \div 100
      <4>1. Quantile(x, 50) = At(m, hi, 0)
        BY <1>4, <2>1, <3>1
      <4> QED  BY <4>1 DEF At
    <3>3. s[m + 1] \in Int /\ b \in Int
      BY <1>2, <2>3 DEF MinOf
    <3> HIDE DEF b
    <3>4. ASSUME NEW y \in Int, NEW z \in Int PROVE (y * (100 - 0) + z * 0) \div 100 = y
      OBVIOUS
    <3>5. Quantile(x, 50) = s[m + 1]
      BY <3>2, <3>3, <3>4
    <3>6. Median[x] = s[m + 1]
      BY <1>2, <1>3, <3>1
    <3> QED  BY <3>5, <3>6
  <2>4. CASE n = 2 * m + 2
    <3>1. /\ (50 * (n - 1)) \div 100 = m /\ (50 * (n - 1)) % 100 = 50
          /\ (n + 1) \div 2 = m + 1 /\ n % 2 # 1 /\ MinOf(m + 1, n - 1) = m + 1
      BY <2>4 DEF MinOf
    <3>2. Quantile(x, 50) = (s[m + 1] * (100 - 50) + s[(m + 1) + 1] * 50) \div 100
      <4>1. Quantile(x, 50) = At(m, m + 1, 50)
        BY <1>4, <2>1, <3>1
      <4> QED  BY <4>1 DEF At
    <3>3. s[m + 1] \in Int /\ s[(m + 1) + 1] \in Int
      BY <1>2, <2>4
    <3>4. ASSUME NEW y \in Int, NEW z \in Int
          PROVE  (y * (100 - 50) + z * 50) \div 100 = (y + z) \div 2
      <4>1. y * (100 - 50) + z * 50 = 50 * (y + z)
        OBVIOUS
      <4>2. \A c \in Int : (50 * c) \div 100 = c \div 2
        OBVIOUS
      <4> QED  BY <4>1, <4>2
    <3>5. Quantile(x, 50) = (s[m + 1] + s[(m + 1) + 1]) \div 2
      BY <3>2, <3>3, <3>4
    <3>6. Median[x] = (s[m + 1] + s[(m + 1) + 1]) \div 2
      BY <1>2, <1>3, <3>1
    <3> QED  BY <3>5, <3>6
  <2> QED  BY <2>2, <2>3, <2>4
<1> QED  BY <1>5, <1>6
=============================================================================
