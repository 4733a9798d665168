--------------------------- MODULE Bisection_proofs ---------------------------
(***************************************************************************)
(* Proofs about Bisection, for any number of targets, reports and commits, *)
(* any limit on the replicas, and any behaviour of the queries at the      *)
(* commits.                                                                *)
(*                                                                         *)
(* What a worker counts down is the number of its reports without a        *)
(* commit; together with the order in which it stops its job and notifies  *)
(* the main goroutine, this is what the final message rests on.            *)
(***************************************************************************)
EXTENDS Bisection, FiniteSetTheorems, TLAPS

Unreported(t) == {r \in ReportsOf(t) : offending[r] = NoCommit}

WorkerShape ==
  \A t \in Targets :
    /\ worker[t] = "none" => Unreported(t) = ReportsOf(t)
    /\ worker[t] # "none" => left[t] = Cardinality(Unreported(t))
    /\ worker[t] \in {"stop", "notify", "returned"} => left[t] = 0
    /\ worker[t] \in {"notify", "returned"} => job[t] = "stopped"
    /\ t \notin waiting => worker[t] = "returned"

MainShape ==
  /\ \A t \in unset : worker[t] = "none"
  /\ main = "job" => current \notin unset /\ worker[current] = "none"
  /\ main \in {"send", "returned"} => waiting = {}
  /\ process = "finished" => main = "returned"

(* What a shutdown has come to is stopped, or was started after it. *)
ShutdownShape ==
  /\ \A g \in Shutters : ShuttingDown(g) =>
       \A t \in Targets \ toStop[g] : job[t] \in {"stopped", "revived"}
  /\ process = "shutdown" => \E g \in Shutters : ShuttingDown(g) /\ toStop[g] = {}

SystemShape ==
  \A r \in Reports : system[r] # NoCommit => good[r] < system[r] /\ system[r] < bad[r]

IInv == TypeOK /\ WorkerShape /\ MainShape /\ ShutdownShape /\ SystemShape

-----------------------------------------------------------------------------
(* Whatever a set of the reports of a target is, it can be counted. *)
LEMMA Counted ==
  ASSUME NEW S \in SUBSET Reports
  PROVE  /\ IsFiniteSet(S)
         /\ Cardinality(S) \in Nat
         /\ Cardinality(S) <= Cardinality(Reports)
         /\ Cardinality(Reports) \in Nat
  BY BisectionAssumption, FS_Subset, FS_CardinalityType

LEMMA TargetOfReport == ASSUME NEW r \in Reports PROVE Target[r] \in Targets
  BY BisectionAssumption

LEMMA CommitNumbers ==
  ASSUME NEW r \in Reports
  PROVE  /\ BadCommitOf(r) \in Nat \ {0}
         /\ CommitsOf(r) = 0 .. BadCommitOf(r)
         /\ CommitsOf(r) \subseteq AllCommits
         /\ AllCommits \subseteq Nat
<1>1. Target[r] \in Targets
  BY TargetOfReport
<1>2. \A t \in Targets : BadCommit[t] \in Nat \ {0}
  BY BisectionAssumption
<1>3. QED
  BY <1>1, <1>2 DEF BadCommitOf, CommitsOf, Commits, GoodCommit, AllCommits

LEMMA Initial == Init => IInv
<1> SUFFICES ASSUME Init PROVE IInv
  OBVIOUS
<1>1. TypeOK
  <2>1. Targets # {}
    BY BisectionAssumption
  <2>2. current \in Targets
    BY <2>1 DEF Init
  <2>3. \A r \in Reports :
          GoodCommit <= good[r] /\ good[r] < bad[r] /\ bad[r] <= BadCommitOf(r)
    BY CommitNumbers DEF Init, GoodCommit
  <2>4. left \in [Targets -> 0 .. Cardinality(Reports)]
    BY Counted DEF Init
  <2>5. \A r \in Reports : history[r] \in Histories(r)
    BY DEF Init
  <2>6. good \in [Reports -> Int] /\ bad \in [Reports -> Int]
    BY CommitNumbers DEF Init, GoodCommit
  <2>7. QED
    BY <2>2, <2>3, <2>4, <2>5, <2>6 DEF Init, TypeOK, Shutters
<1>2. WorkerShape
  BY DEF Init, WorkerShape, Unreported, ReportsOf
<1>3. MainShape
  BY DEF Init, MainShape
<1>4. ShutdownShape
  BY DEF Init, ShutdownShape, ShuttingDown
<1>5. SystemShape
  BY DEF Init, SystemShape
<1>6. QED
  BY <1>1, <1>2, <1>3, <1>4, <1>5 DEF IInv

-----------------------------------------------------------------------------
LEMMA TypePreserved == IInv /\ [Next]_vars => TypeOK'
<1> SUFFICES ASSUME IInv, [Next]_vars PROVE TypeOK'
  OBVIOUS
<1> USE DEF IInv
<1> USE DEF vars, inputs, mainVars, workerVars, jobVars
<1>1. CASE GatherOriginals
  BY <1>1 DEF GatherOriginals, TypeOK, Running
<1>2. CASE RunJob
  <2>1. FirstLeft(current) \in 0 .. Cardinality(Reports)
    BY Counted DEF FirstLeft, ReportsOf
  <2>2. left' \in [Targets -> 0 .. Cardinality(Reports)]
    BY <1>2, <2>1 DEF RunJob, TypeOK
  <2>3. QED
    BY <1>2, <2>2 DEF RunJob, TypeOK
<1>3. CASE WaitForWorkers
  BY <1>3 DEF WaitForWorkers, TypeOK
<1>4. CASE Finish
  BY <1>4 DEF Finish, TypeOK
<1>5. CASE SetUpFails
  BY <1>5 DEF SetUpFails, Fatal, TypeOK
<1>6. CASE MainPanics
  BY <1>6 DEF MainPanics, TypeOK, Shutters
<1>7. ASSUME NEW t \in Targets, NEW r \in Reports, TestSystem(t, r) PROVE TypeOK'
  <2>1. /\ system[r] \in Nat
        /\ good[r] < system[r] /\ system[r] < bad[r]
    BY <1>7, CommitNumbers DEF TestSystem, TypeOK, SystemShape, NoCommit
  <2>2. /\ good' \in [Reports -> Int] /\ bad' \in [Reports -> Int]
        /\ \A q \in Reports :
             GoodCommit <= good'[q] /\ good'[q] < bad'[q] /\ bad'[q] <= BadCommitOf(q)
    <3>1. CASE IsBad(r)
      <4>1. good' = good /\ bad' = [bad EXCEPT ![r] = system[r]]
        BY <1>7, <3>1 DEF TestSystem
      <4>2. QED
        BY <2>1, <4>1, CommitNumbers DEF TypeOK
    <3>2. CASE ~IsBad(r)
      BY <1>7, <2>1, <3>2, CommitNumbers DEF TestSystem, TypeOK, GoodCommit
    <3>3. QED
      BY <3>1, <3>2
  <2>3. system' \in [Reports -> AllCommits \cup {NoCommit}]
    BY <1>7 DEF TestSystem, TypeOK
  <2>4. QED
    BY <1>7, <2>2, <2>3 DEF TestSystem, TypeOK
<1>8. ASSUME NEW t \in Targets, NEW r \in Reports, TakeCommit(t, r) PROVE TypeOK'
  <2>1. r \in Unreported(t) /\ Unreported(t) \in SUBSET Reports
    BY <1>8 DEF TakeCommit, Announced, Unreported, ReportsOf
  <2>2. left[t] = Cardinality(Unreported(t)) /\ Unreported(t) # {}
    BY <1>8, <2>1 DEF TakeCommit, WorkerShape
  <2>3. left[t] \in 1 .. Cardinality(Reports)
    BY <2>1, <2>2, Counted, FS_EmptySet
  <2>4. left' \in [Targets -> 0 .. Cardinality(Reports)]
    BY <1>8, <2>3, Counted DEF TakeCommit, TypeOK
  <2>5. bad[r] \in AllCommits
    BY CommitNumbers DEF TypeOK, GoodCommit
  <2>6. QED
    BY <1>8, <2>4, <2>5 DEF TakeCommit, TypeOK
<1>9. ASSUME NEW t \in Targets, StopJob(t) PROVE TypeOK'
  BY <1>9 DEF StopJob, TypeOK
<1>10. ASSUME NEW t \in Targets, NotifyMain(t) PROVE TypeOK'
  BY <1>10 DEF NotifyMain, Done, TypeOK
<1>11. ASSUME NEW t \in Targets, WorkerPanics(t) PROVE TypeOK'
  BY <1>11 DEF WorkerPanics, TypeOK
<1>12. CASE Interrupt
  BY <1>12 DEF Interrupt, TypeOK, Shutters
<1>13. CASE ForceShutdown
  BY <1>13 DEF ForceShutdown, TypeOK
<1>14. ASSUME NEW g \in Shutters, NEW t \in Targets, StopNext(g, t) PROVE TypeOK'
  BY <1>14 DEF StopNext, TypeOK
<1>15. ASSUME NEW g \in Shutters, Exit(g) PROVE TypeOK'
  BY <1>15 DEF Exit, TypeOK
<1>16. ASSUME NEW r \in Reports, NEW c \in CommitsOf(r), BringOnline(r, c) PROVE TypeOK'
  <2>1. c \in AllCommits
    BY CommitNumbers
  <2>2. QED
    BY <1>16, <2>1 DEF BringOnline, TypeOK
<1>17. CASE UNCHANGED vars
  BY <1>17 DEF TypeOK
<1>18. QED
  BY <1>1, <1>2, <1>3, <1>4, <1>5, <1>6, <1>7, <1>8, <1>9, <1>10, <1>11, <1>12, <1>13,
     <1>14, <1>15, <1>16, <1>17 DEF Next, Main, Worker, Shutdown

-----------------------------------------------------------------------------
LEMMA WorkerPreserved == IInv /\ [Next]_vars => WorkerShape'
<1> SUFFICES ASSUME IInv, [Next]_vars PROVE WorkerShape'
  OBVIOUS
<1> USE DEF IInv
<1> USE DEF vars, inputs, mainVars, workerVars, jobVars
<1> DEFINE Counts == <<offending, worker, left, waiting, job>>
(* Steps of others than the workers, which leave what they count alone. *)
<1>1. ASSUME UNCHANGED Counts PROVE WorkerShape'
  BY <1>1 DEF WorkerShape, Unreported
<1>2. CASE RunJob
  <2>1. ASSUME NEW t \in Targets, t = current
        PROVE  /\ worker'[t] = "select" /\ t \in waiting'
               /\ left'[t] = Cardinality(Unreported(t)')
    <3>1. worker[t] = "none" /\ Unreported(t) = ReportsOf(t) /\ t \in waiting
      BY <1>2, <2>1 DEF RunJob, MainShape, WorkerShape
    <3>2. Unreported(t)' = ReportsOf(t)
      BY <1>2, <3>1 DEF RunJob, Unreported
    <3>3. QED
      BY <1>2, <2>1, <3>1, <3>2 DEF RunJob, FirstLeft, TypeOK
  <2>2. ASSUME NEW t \in Targets, t # current
        PROVE  /\ worker'[t] = worker[t] /\ left'[t] = left[t] /\ job'[t] = job[t]
               /\ Unreported(t)' = Unreported(t) /\ waiting' = waiting
    BY <1>2, <2>2 DEF RunJob, TypeOK, Unreported
  <2>3. QED
    BY <2>1, <2>2 DEF WorkerShape
<1>3. ASSUME NEW t \in Targets, NEW r \in Reports, TakeCommit(t, r) PROVE WorkerShape'
  <2>1. /\ Target[r] = t /\ offending[r] = NoCommit /\ worker[t] = "select"
        /\ offending' = [offending EXCEPT ![r] = bad[r]]
        /\ left' = [left EXCEPT ![t] = @ - 1]
        /\ worker' = [worker EXCEPT ![t] = IF left[t] = 1 THEN "stop" ELSE "select"]
        /\ UNCHANGED <<waiting, job>>
    BY <1>3 DEF TakeCommit, Announced
  <2>2. bad[r] # NoCommit
    BY DEF TypeOK, GoodCommit, NoCommit
  <2>3. Unreported(t)' = Unreported(t) \ {r}
    BY <2>1, <2>2 DEF Unreported, ReportsOf, TypeOK
  <2>4. r \in Unreported(t) /\ Unreported(t) \in SUBSET Reports
    BY <2>1 DEF Unreported, ReportsOf
  <2>5. Cardinality(Unreported(t)') = Cardinality(Unreported(t)) - 1
    BY <2>3, <2>4, Counted, FS_RemoveElement
  <2>6. left'[t] = Cardinality(Unreported(t)')
    BY <2>1, <2>5 DEF WorkerShape, TypeOK
  <2>7. /\ worker'[t] \in {"stop", "select"} /\ worker'[t] = "stop" => left'[t] = 0
        /\ t \in waiting
    BY <2>1 DEF WorkerShape, TypeOK
  <2>8. ASSUME NEW u \in Targets, u # t
        PROVE  /\ worker'[u] = worker[u] /\ left'[u] = left[u]
               /\ Unreported(u)' = Unreported(u)
    BY <2>1, <2>8 DEF TypeOK, Unreported, ReportsOf
  <2>9. QED
    BY <2>1, <2>6, <2>7, <2>8 DEF WorkerShape
<1>4. ASSUME NEW t \in Targets, StopJob(t) PROVE WorkerShape'
  <2>1. UNCHANGED <<offending, left, waiting>>
    BY <1>4 DEF StopJob
  <2>2. \A u \in Targets : Unreported(u)' = Unreported(u)
    BY <2>1 DEF Unreported
  <2>3. QED
    BY <1>4, <2>1, <2>2 DEF StopJob, WorkerShape, TypeOK
<1>5. ASSUME NEW t \in Targets, NotifyMain(t) PROVE WorkerShape'
  <2>1. UNCHANGED <<offending, left, job>>
    BY <1>5 DEF NotifyMain
  <2>2. \A u \in Targets : Unreported(u)' = Unreported(u)
    BY <2>1 DEF Unreported
  <2>3. QED
    BY <1>5, <2>1, <2>2 DEF NotifyMain, Done, WorkerShape, TypeOK
<1>6. ASSUME NEW g \in Shutters, NEW t \in Targets, StopNext(g, t) PROVE WorkerShape'
  <2>1. /\ UNCHANGED <<offending, worker, left, waiting>>
        /\ job' = [job EXCEPT ![t] = "stopped"]
    BY <1>6 DEF StopNext
  <2>2. \A u \in Targets : Unreported(u)' = Unreported(u)
    BY <2>1 DEF Unreported
  <2>3. QED
    BY <2>1, <2>2 DEF WorkerShape, TypeOK
<1>7. ASSUME NEW t \in Targets, NEW r \in Reports, TestSystem(t, r) PROVE WorkerShape'
  BY <1>1, <1>7 DEF TestSystem
<1>8. ASSUME \/ GatherOriginals \/ WaitForWorkers \/ Finish \/ SetUpFails \/ MainPanics
             \/ \E t \in Targets : WorkerPanics(t)
             \/ Interrupt \/ ForceShutdown \/ \E g \in Shutters : Exit(g)
             \/ \E r \in Reports : \E c \in CommitsOf(r) : BringOnline(r, c)
             \/ UNCHANGED vars
      PROVE  WorkerShape'
  BY <1>1, <1>8 DEF GatherOriginals, WaitForWorkers, Finish, SetUpFails, Fatal, MainPanics,
    WorkerPanics, Interrupt, ForceShutdown, Exit, BringOnline
<1>9. QED
  BY <1>2, <1>3, <1>4, <1>5, <1>6, <1>7, <1>8 DEF Next, Main, Worker, Shutdown

-----------------------------------------------------------------------------
LEMMA MainPreserved == IInv /\ [Next]_vars => MainShape'
<1> SUFFICES ASSUME IInv, [Next]_vars PROVE MainShape'
  OBVIOUS
<1> USE DEF IInv, MainShape
<1> USE DEF vars, inputs, mainVars, workerVars, jobVars
<1>1. CASE GatherOriginals
  BY <1>1 DEF GatherOriginals, Running, TypeOK
<1>2. CASE RunJob
  BY <1>2 DEF RunJob, Running, TypeOK
<1>3. CASE WaitForWorkers
  BY <1>3 DEF WaitForWorkers, Running
<1>4. CASE Finish
  BY <1>4 DEF Finish, Running
<1>5. CASE SetUpFails
  BY <1>5 DEF SetUpFails, Fatal
<1>6. CASE MainPanics
  BY <1>6 DEF MainPanics, Running
<1>7. ASSUME NEW t \in Targets, NEW r \in Reports, TakeCommit(t, r) PROVE MainShape'
  BY <1>7 DEF TakeCommit, Running, TypeOK
<1>8. ASSUME NEW t \in Targets, StopJob(t) PROVE MainShape'
  BY <1>8 DEF StopJob, Running, TypeOK
<1>9. ASSUME NEW t \in Targets, NotifyMain(t) PROVE MainShape'
  BY <1>9 DEF NotifyMain, Done, Running, TypeOK
<1>10. ASSUME \/ \E t \in Targets : WorkerPanics(t) \/ \E r \in Reports : TestSystem(t, r)
              \/ Interrupt \/ ForceShutdown
              \/ \E g \in Shutters : Exit(g) \/ \E t \in Targets : StopNext(g, t)
              \/ \E r \in Reports : \E c \in CommitsOf(r) : BringOnline(r, c)
              \/ UNCHANGED vars
       PROVE  MainShape'
  BY <1>10 DEF WorkerPanics, TestSystem, Interrupt, ForceShutdown, Exit, StopNext,
    BringOnline, Running
<1>11. QED
  BY <1>1, <1>2, <1>3, <1>4, <1>5, <1>6, <1>7, <1>8, <1>9, <1>10
  DEF Next, Main, Worker, Shutdown

-----------------------------------------------------------------------------
LEMMA ShutdownPreserved == IInv /\ [Next]_vars => ShutdownShape'
<1> SUFFICES ASSUME IInv, [Next]_vars PROVE ShutdownShape'
  OBVIOUS
<1> USE DEF IInv, ShutdownShape, ShuttingDown
<1> USE DEF vars, inputs, mainVars, workerVars, jobVars
(* Only a step of a running program is taken. *)
<1>1. CASE RunJob
  BY <1>1 DEF RunJob, Running, TypeOK, Shutters
<1>2. CASE MainPanics
  BY <1>2 DEF MainPanics, Running, TypeOK, Shutters
<1>3. CASE Finish
  BY <1>3 DEF Finish, Running, TypeOK, Shutters
<1>4. ASSUME NEW t \in Targets, StopJob(t) PROVE ShutdownShape'
  BY <1>4 DEF StopJob, Running, TypeOK, Shutters
<1>5. CASE Interrupt
  BY <1>5 DEF Interrupt, Running, TypeOK, Shutters
<1>6. ASSUME NEW g \in Shutters, NEW t \in Targets, StopNext(g, t) PROVE ShutdownShape'
  BY <1>6 DEF StopNext, Running, TypeOK, Shutters
<1>7. ASSUME NEW g \in Shutters, Exit(g) PROVE ShutdownShape'
  BY <1>7 DEF Exit, AllStopped, Running, TypeOK, Shutters
<1>8. CASE GatherOriginals \/ WaitForWorkers \/ SetUpFails \/ ForceShutdown
  BY <1>8 DEF GatherOriginals, WaitForWorkers, SetUpFails, Fatal, ForceShutdown, Running,
    TypeOK, Shutters
<1>9. ASSUME \/ \E t \in Targets : \/ WorkerPanics(t) \/ NotifyMain(t)
                                   \/ \E r \in Reports : TestSystem(t, r) \/ TakeCommit(t, r)
             \/ \E r \in Reports : \E c \in CommitsOf(r) : BringOnline(r, c)
             \/ UNCHANGED vars
      PROVE  ShutdownShape'
  BY <1>9 DEF WorkerPanics, NotifyMain, TestSystem, TakeCommit, BringOnline, Running
<1>10. QED
  BY <1>1, <1>2, <1>3, <1>4, <1>5, <1>6, <1>7, <1>8, <1>9 DEF Next, Main, Worker, Shutdown

-----------------------------------------------------------------------------
LEMMA SystemPreserved == IInv /\ [Next]_vars => SystemShape'
<1> SUFFICES ASSUME IInv, [Next]_vars PROVE SystemShape'
  OBVIOUS
<1> USE DEF IInv, SystemShape
<1>1. ASSUME UNCHANGED jobVars PROVE SystemShape'
  BY <1>1 DEF jobVars
<1>2. ASSUME NEW t \in Targets, NEW r \in Reports, TestSystem(t, r) PROVE SystemShape'
  BY <1>2 DEF TestSystem, TypeOK
<1>3. ASSUME NEW r \in Reports, NEW c \in CommitsOf(r), BringOnline(r, c) PROVE SystemShape'
  BY <1>3 DEF BringOnline, TypeOK, GoodCommit
<1>4. ASSUME ~ \E t \in Targets, r \in Reports : TestSystem(t, r),
             ~ \E r \in Reports : \E c \in CommitsOf(r) : BringOnline(r, c)
      PROVE  UNCHANGED jobVars
  BY <1>4 DEF Next, Main, Worker, Shutdown, vars, jobVars, GatherOriginals, RunJob,
    WaitForWorkers, Finish, SetUpFails, Fatal, MainPanics, TakeCommit, StopJob, NotifyMain,
    WorkerPanics, Interrupt, ForceShutdown, StopNext, Exit
<1>5. QED
  BY <1>1, <1>2, <1>3, <1>4

-----------------------------------------------------------------------------
THEOREM Invariance == Spec => []IInv
<1>1. Init => IInv
  BY Initial
<1>2. IInv /\ [Next]_vars => IInv'
  BY TypePreserved, WorkerPreserved, MainPreserved, ShutdownPreserved, SystemPreserved
  DEF IInv
<1>3. QED
  BY <1>1, <1>2, PTL DEF Spec

(* Every variable keeps its type: in particular no worker counts below     *)
(* zero, and the good commit of a report stays before the bad one.         *)
THEOREM TypeCorrectness == Spec => []TypeOK
<1>1. IInv => TypeOK
  BY DEF IInv
<1>2. QED
  BY <1>1, Invariance, PTL

(* When the program says that it finished all bisections, every report has *)
(* its commit and every job is stopped.                                    *)
THEOREM FinishIsComplete == Spec => []FinishedMeansBisected
<1>1. IInv => FinishedMeansBisected
  <2> SUFFICES ASSUME IInv, process = "finished"
               PROVE  /\ \A r \in Reports : offending[r] # NoCommit
                      /\ \A t \in Targets : job[t] = "stopped"
    BY DEF FinishedMeansBisected
  <2>1. \A t \in Targets : worker[t] = "returned"
    BY DEF IInv, MainShape, WorkerShape
  <2>2. \A t \in Targets : job[t] = "stopped" /\ Cardinality(Unreported(t)) = 0
    BY <2>1 DEF IInv, WorkerShape
  <2>3. ASSUME NEW t \in Targets PROVE Unreported(t) = {}
    <3>1. Unreported(t) \in SUBSET Reports
      BY DEF Unreported, ReportsOf
    <3>2. QED
      BY <2>2, <3>1, Counted, FS_EmptySet
  <2>4. ASSUME NEW r \in Reports PROVE offending[r] # NoCommit
    BY <2>3, TargetOfReport DEF Unreported, ReportsOf
  <2>5. QED
    BY <2>2, <2>4
<1>2. QED
  BY <1>1, Invariance, PTL

(* A graceful shutdown leaves no job running but those the main goroutine  *)
(* went on to start.                                                       *)
THEOREM ShutdownIsClean == Spec => []ShutdownStopsJobs
<1>1. IInv => ShutdownStopsJobs
  BY DEF IInv, ShutdownShape, ShutdownStopsJobs
<1>2. QED
  BY <1>1, Invariance, PTL

-----------------------------------------------------------------------------
(* The results of the bad commit are there before any system is tested, so *)
(* that a verdict is about the bug, as long as the bug shows as an error.  *)
OriginalShape ==
  \A r \in Reports : Target[r] \notin unset =>
    original[r] = Results(Strategy[r], history[r][BadCommitOf(r)])

BoundaryShape ==
  \A r \in Reports :
    /\ good[r] = GoodCommit \/ ~CountsAsBad(r, good[r])
    /\ bad[r] = BadCommitOf(r) \/ CountsAsBad(r, bad[r])

LEMMA VerdictIsExact ==
  ASSUME "rows" \notin Behaviours, TypeOK, OriginalShape,
         NEW r \in Reports, Target[r] \notin unset,
         NEW c \in CommitsOf(r), system[r] = c
  PROVE  IsBad(r) <=> CountsAsBad(r, c)
<1> DEFINE h == history[r]
<1>1. /\ h[BadCommitOf(r)] = "error" /\ h[c] \in {"fine", "early error", "error"}
      /\ Strategy[r] = "none" => h[c] \in {"fine", "error"}
  <2>1. /\ h \in [CommitsOf(r) -> Behaviours]
        /\ h[BadCommitOf(r)] \in IF Strategy[r] = "none" THEN {"error"} ELSE Bugs
        /\ Strategy[r] = "none" => \A d \in CommitsOf(r) : h[d] \in {"fine", "error"}
    BY DEF TypeOK, Histories
  <2>2. h[c] \in Behaviours
    BY <2>1
  <2>3. QED
    BY <2>1, <2>2, BisectionAssumption DEF Bugs
<1>2. original[r] = Results(Strategy[r], "error")
  BY <1>1 DEF OriginalShape
<1> DEFINE Valid(orig, new) == ValidateReductionResult(Strategy[r], orig, new)
<1>3. Valid(Results(Strategy[r], h[c]), Results(Strategy[r], "error")) = (h[c] = "error")
  <2>1. CASE Strategy[r] = "none"
    <3>1. Results(Strategy[r], "error") = << "error" >>
      BY <2>1 DEF Results
    <3>2. Results(Strategy[r], h[c]) = IF h[c] = "error" THEN << "error" >> ELSE << "rows" >>
      BY <2>1 DEF Results
    <3>3. ASSUME NEW x, NEW y PROVE Valid(<< x >>, << y >>) = (Failed(x) = Failed(y))
      BY <2>1 DEF ValidateReductionResult
    <3>4. QED
      BY <3>1, <3>2, <3>3 DEF Failed
  <2>2. CASE Strategy[r] = "equivalence"
    <3>1. Results(Strategy[r], "error") = << "rows", "error" >>
      BY <2>2 DEF Results
    <3>2. ASSUME NEW x, NEW y
          PROVE  Valid(<< x, y >>, << "rows", "error" >>)
                   = (Failed(x) = Failed("rows") /\ Failed(y) = Failed("error"))
      <4> DEFINE o == << x, y >>
                 n == << "rows", "error" >>
      <4>1. /\ DOMAIN o = {1, 2} /\ o[1] = x /\ o[2] = y
            /\ Len(n) = 2 /\ n[1] = "rows" /\ n[2] = "error"
        OBVIOUS
      <4> HIDE DEF o, n
      <4>2. Valid(o, n) = ((\A i \in {1, 2} : Failed(o[i]) = Failed(n[i])) /\ Failed(n[2]))
        BY <2>2, <4>1 DEF ValidateReductionResult, Failed
      <4>3. Valid(o, n) = (Failed(x) = Failed("rows") /\ Failed(y) = Failed("error"))
        BY <4>1, <4>2 DEF Failed
      <4>4. QED
        BY <4>3 DEF o, n
    <3>3. CASE h[c] = "fine"
      BY <2>2, <3>1, <3>2, <3>3 DEF Results, Failed
    <3>4. CASE h[c] = "early error"
      BY <2>2, <3>1, <3>2, <3>4 DEF Results, Failed
    <3>5. CASE h[c] = "error"
      BY <3>1, <3>2, <3>5 DEF Failed
    <3>6. QED
      BY <1>1, <3>3, <3>4, <3>5
  <2>3. QED
    BY <2>1, <2>2, BisectionAssumption
<1> HIDE DEF Valid
<1>4. IsBad(r) = (Valid(Results(Strategy[r], h[c]), Results(Strategy[r], "error")) # invert)
  BY <1>2 DEF IsBad, Valid
<1>5. CountsAsBad(r, c) = ((h[c] = "error") # invert)
  BY <1>1, Zenon DEF CountsAsBad
<1>6. IsBad(r) = CountsAsBad(r, c)
  BY <1>3, <1>4, <1>5, Zenon
<1>7. QED
  BY <1>6

BInv == IInv /\ OriginalShape /\ BoundaryShape /\ OffendingIsBoundary

(* What stays as long as the behaviours do. *)
LEMMA BoundaryFrame ==
  ASSUME UNCHANGED inputs
  PROVE  \A r, c : CountsAsBad(r, c)' = CountsAsBad(r, c)
  BY DEF inputs, CountsAsBad

LEMMA InputsNeverChange == [Next]_vars => UNCHANGED inputs
  BY DEF Next, Main, Worker, Shutdown, vars, GatherOriginals, RunJob, WaitForWorkers,
    Finish, SetUpFails, Fatal, MainPanics, TestSystem, TakeCommit, StopJob, NotifyMain,
    WorkerPanics, Interrupt, ForceShutdown, StopNext, Exit, BringOnline

LEMMA OriginalPreserved == IInv /\ OriginalShape /\ [Next]_vars => OriginalShape'
<1> SUFFICES ASSUME IInv, OriginalShape, [Next]_vars PROVE OriginalShape'
  OBVIOUS
<1> USE DEF OriginalShape
<1>1. UNCHANGED history
  BY InputsNeverChange DEF inputs
<1>2. CASE GatherOriginals
  BY <1>1, <1>2 DEF GatherOriginals, IInv, TypeOK
<1>3. CASE ~GatherOriginals
  <2>1. UNCHANGED <<unset, original>>
    BY <1>3 DEF Next, Main, Worker, Shutdown, vars, mainVars, RunJob, WaitForWorkers,
      Finish, SetUpFails, Fatal, MainPanics, TestSystem, TakeCommit, StopJob, NotifyMain,
      WorkerPanics, Interrupt, ForceShutdown, StopNext, Exit, BringOnline
  <2>2. QED
    BY <1>1, <2>1
<1>4. QED
  BY <1>2, <1>3

LEMMA BoundaryPreserved ==
  ASSUME "rows" \notin Behaviours
  PROVE  BInv /\ [Next]_vars => BoundaryShape' /\ OffendingIsBoundary'
<1> SUFFICES ASSUME BInv, [Next]_vars PROVE BoundaryShape' /\ OffendingIsBoundary'
  OBVIOUS
<1> USE DEF BInv, IInv
<1>1. \A r, c : CountsAsBad(r, c)' = CountsAsBad(r, c)
  BY BoundaryFrame, InputsNeverChange
<1>2. ASSUME NEW t \in Targets, NEW r \in Reports, TestSystem(t, r)
      PROVE  BoundaryShape' /\ OffendingIsBoundary'
  <2>1. /\ Target[r] = t /\ t \notin unset /\ system[r] # NoCommit
    BY <1>2 DEF TestSystem, MainShape
  <2>2. system[r] \in CommitsOf(r)
    BY <2>1, CommitNumbers DEF TypeOK, SystemShape, GoodCommit, NoCommit
  <2>3. IsBad(r) <=> CountsAsBad(r, system[r])
    BY <2>1, <2>2, VerdictIsExact
  <2>4. BoundaryShape'
    <3>1. CASE IsBad(r)
      <4>1. good' = good /\ bad' = [bad EXCEPT ![r] = system[r]]
        BY <1>2, <3>1 DEF TestSystem
      <4>2. QED
        BY <1>1, <2>3, <3>1, <4>1 DEF BoundaryShape, TypeOK
    <3>2. CASE ~IsBad(r)
      <4>1. bad' = bad /\ good' = [good EXCEPT ![r] = system[r]]
        BY <1>2, <3>2 DEF TestSystem
      <4>2. QED
        BY <1>1, <2>3, <3>2, <4>1 DEF BoundaryShape, TypeOK
    <3>3. QED
      BY <3>1, <3>2
  <2>5. UNCHANGED offending
    BY <1>2 DEF TestSystem, workerVars
  <2>6. QED
    BY <1>1, <2>4, <2>5 DEF OffendingIsBoundary
<1>3. ASSUME NEW t \in Targets, NEW r \in Reports, TakeCommit(t, r)
      PROVE  BoundaryShape' /\ OffendingIsBoundary'
  <2>1. /\ bad[r] = good[r] + 1 /\ offending' = [offending EXCEPT ![r] = bad[r]]
        /\ UNCHANGED <<good, bad>>
    BY <1>3 DEF TakeCommit, Announced, jobVars
  <2>2. bad[r] - 1 = good[r]
    BY <2>1 DEF TypeOK
  <2>3. /\ bad[r] = BadCommitOf(r) \/ CountsAsBad(r, bad[r])
        /\ bad[r] - 1 = GoodCommit \/ ~CountsAsBad(r, bad[r] - 1)
    BY <2>2 DEF BoundaryShape
  <2>4. OffendingIsBoundary'
    BY <1>1, <2>1, <2>3 DEF OffendingIsBoundary, TypeOK
  <2>5. BoundaryShape'
    BY <1>1, <2>1 DEF BoundaryShape
  <2>6. QED
    BY <2>4, <2>5
<1>4. ASSUME ~ \E t \in Targets, r \in Reports : TestSystem(t, r) \/ TakeCommit(t, r)
      PROVE  UNCHANGED <<good, bad, offending>>
  BY <1>4 DEF Next, Main, Worker, Shutdown, vars, jobVars, workerVars, GatherOriginals,
    RunJob, WaitForWorkers, Finish, SetUpFails, Fatal, MainPanics, StopJob, NotifyMain,
    WorkerPanics, Interrupt, ForceShutdown, StopNext, Exit, BringOnline
<1>5. ASSUME UNCHANGED <<good, bad, offending>>
      PROVE  BoundaryShape' /\ OffendingIsBoundary'
  BY <1>1, <1>5 DEF BoundaryShape, OffendingIsBoundary
<1>6. QED
  BY <1>2, <1>3, <1>4, <1>5

(* A bug that shows as an error is traced to a commit where it begins, for *)
(* any history of the bug, with and without the flag invert.  Of bugs that *)
(* show in the rows this is false.                                         *)
THEOREM BoundaryIsFound ==
  ASSUME "rows" \notin Behaviours
  PROVE  Spec => []OffendingIsBoundary
<1>1. Init => BInv
  <2> SUFFICES ASSUME Init PROVE BInv
    OBVIOUS
  <2>1. OriginalShape
    BY TargetOfReport DEF Init, OriginalShape
  <2>2. BoundaryShape /\ OffendingIsBoundary
    BY DEF Init, BoundaryShape, OffendingIsBoundary
  <2>3. QED
    BY <2>1, <2>2, Initial DEF BInv
<1>2. BInv /\ [Next]_vars => BInv'
  <2>1. IInv /\ [Next]_vars => IInv'
    BY TypePreserved, WorkerPreserved, MainPreserved, ShutdownPreserved, SystemPreserved
    DEF IInv
  <2>2. QED
    BY <2>1, OriginalPreserved, BoundaryPreserved DEF BInv
<1>3. BInv => OffendingIsBoundary
  BY DEF BInv
<1>4. QED
  BY <1>1, <1>2, <1>3, PTL DEF Spec
=============================================================================
