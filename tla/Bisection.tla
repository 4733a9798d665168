----------------------------- MODULE Bisection -----------------------------
(***************************************************************************)
(* dinkel bisect (cmd/bisect/runner.go): the commit that introduced the    *)
(* bug of each report is searched for, target by target.  Three kinds of   *)
(* goroutines take part: the main one (bisectBugreports and runJob), one   *)
(* worker per target, and the one that waits for an interrupt.             *)
(*                                                                         *)
(* The jobs are those of the biscepter library, which is not part of the   *)
(* repository: for each report it keeps a good and a bad commit, brings    *)
(* systems between them online, is told of each whether it is good or bad, *)
(* and announces the bad one when the two are neighbours.                  *)
(***************************************************************************)
EXTENDS Integers, Sequences, FiniteSets

CONSTANTS
  Targets,
  Reports,
  Target,           \* the target of a report
  Strategy,         \* its strategy: "none" or "equivalence"
  Behaviours,       \* of its query at a commit
  BadCommit,        \* of a target: commits are numbered from GoodCommit on
  MaxConcurrency    \* the flag max-concurrency, 0 if there is no limit

GoodCommit == 0
Commits(t) == GoodCommit .. BadCommit[t]
NoCommit == -1

ASSUME BisectionAssumption ==
  /\ IsFiniteSet(Reports) /\ Reports # {}
  /\ Target \in [Reports -> Targets]
  /\ Strategy \in [Reports -> {"none", "equivalence"}]
  /\ \A t \in Targets : \E r \in Reports : Target[r] = t
  /\ BadCommit \in [Targets -> Nat \ {0}]
  /\ Behaviours \subseteq {"fine", "early error", "rows", "error"}
  /\ MaxConcurrency \in Nat

(* How a bug may show: the rows of the last result differ from the rows of *)
(* the baseline, or there is an error in place of them.                    *)
Bugs == Behaviours \cap {"rows", "error"}

ReportsOf(t) == {r \in Reports : Target[r] = t}
CommitsOf(r) == Commits(Target[r])
BadCommitOf(r) == BadCommit[Target[r]]
AllCommits == UNION {Commits(t) : t \in Targets}

VARIABLES
  history,     \* how the query of a report behaves at each commit
  invert,      \* the flag invert
  process,     \* whether the program runs, or how it ended
  main,        \* where the main goroutine is
  unset,       \* targets whose job is still to be set up
  current,     \* the target being set up
  original,    \* origResults, << >> before they were gathered
  worker,      \* per target: where its goroutine is
  left,        \* bisectionsLeft
  waiting,     \* targets that the wait group waits for
  handler,     \* where the interrupt goroutine is
  toStop,      \* jobs that a graceful shutdown is still to stop
  offending,   \* the OffendingCommit written for a report
  job,         \* biscepter: the state of each job
  good, bad,   \* biscepter: the two commits of each report
  system       \* biscepter: the commit online for a report

mainVars == <<main, unset, current, original>>
workerVars == <<worker, left, offending>>
jobVars == <<good, bad, system>>
inputs == <<history, invert>>
vars == <<inputs, process, mainVars, workerVars, waiting, handler, toStop, job, jobVars>>

Shutters == {"main", "handler"}
Running == process = "running"

-----------------------------------------------------------------------------
(* The results of a query of a baseline and a transformed statement, or of *)
(* a single statement without a strategy: getQueryResults, where the       *)
(* statements after an error are padded with empty results.                *)
Results(strategy, behaviour) ==
  CASE strategy = "none" -> IF behaviour = "error" THEN << "error" >> ELSE << "rows" >>
    [] strategy = "equivalence" ->
         CASE behaviour = "fine" -> << "rows", "rows" >>
           [] behaviour = "rows" -> << "rows", "other rows" >>
           [] behaviour = "error" -> << "rows", "error" >>
           [] behaviour = "early error" -> << "error", "empty" >>

Failed(result) == result = "error"

(* ValidateReductionResult of the two strategies. *)
ValidateReductionResult(strategy, orig, new) ==
  LET last(results) == results[Len(results)]
  IN IF strategy = "none" THEN Failed(last(orig)) = Failed(last(new))
       ELSE /\ \A i \in DOMAIN orig : Failed(orig[i]) = Failed(new[i])
            /\ Failed(last(new)) \/ new[Len(new) \div 2] # last(new)

(* The bug does not show at the good commit, and does at the bad one. *)
Histories(r) ==
  {h \in [CommitsOf(r) -> Behaviours] :
     /\ h[GoodCommit] = "fine"
     /\ h[BadCommitOf(r)] \in IF Strategy[r] = "none" THEN {"error"} ELSE Bugs
     /\ Strategy[r] = "none" => \A c \in CommitsOf(r) : h[c] \in {"fine", "error"}
     /\ \A c \in CommitsOf(r) : h[c] \in Bugs => h[c] = h[BadCommitOf(r)]}

Init ==
  /\ history \in {h \in [Reports -> UNION {Histories(r) : r \in Reports}] :
                    \A r \in Reports : h[r] \in Histories(r)}
  /\ invert \in BOOLEAN
  /\ process = "running"
  /\ main = "target"
  /\ unset = Targets
  /\ current = CHOOSE t \in Targets : TRUE
  /\ original = [r \in Reports |-> << >>]
  /\ worker = [t \in Targets |-> "none"]
  /\ left = [t \in Targets |-> 0]
  /\ waiting = Targets
  /\ handler = "select"
  /\ toStop = [g \in Shutters |-> {}]
  /\ offending = [r \in Reports |-> NoCommit]
  /\ job = [t \in Targets |-> "idle"]
  /\ good = [r \in Reports |-> GoodCommit]
  /\ bad = [r \in Reports |-> BadCommitOf(r)]
  /\ system = [r \in Reports |-> NoCommit]

-----------------------------------------------------------------------------
(* The main goroutine. *)

(* logrus.Fatalf ends the program on the spot. *)
Fatal ==
  /\ process' = "crashed"
  /\ UNCHANGED <<inputs, mainVars, workerVars, waiting, handler, toStop, job, jobVars>>

(* runJob brings the bad commit of the next target of a map online, and    *)
(* gathers the results that those of the other commits are compared to.    *)
GatherOriginals ==
  /\ Running /\ main = "target" /\ unset # {}
  /\ current' \in unset
  /\ unset' = unset \ {current'}
  /\ original' = [r \in Reports |->
                    IF Target[r] = current'
                      THEN Results(Strategy[r], history[r][BadCommitOf(r)])
                      ELSE original[r]]
  /\ main' = "job"
  /\ UNCHANGED <<inputs, process, workerVars, waiting, handler, toStop, job, jobVars>>

(* Wrong on purpose: the worker waits for one report. *)
FirstLeftMutant(t) == 1

(* Wrong on purpose: it counts the last index. *)
LastIndexMutant(t) == Cardinality(ReportsOf(t)) - 1

(* len(reports), where a worker starts to count down. *)
FirstLeft(t) == Cardinality(ReportsOf(t))

(* job.Run: the replicas and the worker start.  A job that an interrupt    *)
(* stopped before is started all the same.                                 *)
RunJob ==
  /\ Running /\ main = "job"
  /\ job' = [job EXCEPT ![current] = IF @ = "idle" THEN "running" ELSE "revived"]
  /\ worker' = [worker EXCEPT ![current] = "select"]
  /\ left' = [left EXCEPT ![current] = FirstLeft(current)]
  /\ main' = IF unset = {} THEN "wait" ELSE "target"
  /\ UNCHANGED <<inputs, process, unset, current, original, offending, waiting,
                 handler, toStop, jobVars>>

(* RunCommitByHash, a query at the bad commit or job.Run fails. *)
SetUpFails ==
  /\ Running
  /\ main = "job" \/ (main = "target" /\ unset # {})
  /\ Fatal

(* GetConfigForTarget fails: the deferred function recovers the panic.     *)
MainPanics ==
  /\ Running /\ main = "target" /\ unset # {}
  /\ main' = "shutdown"
  /\ toStop' = [toStop EXCEPT !["main"] = Targets]
  /\ UNCHANGED <<inputs, process, unset, current, original, workerVars, waiting,
                 handler, job, jobVars>>

WaitForWorkers ==
  /\ Running /\ main = "wait" /\ waiting = {}
  /\ main' = "send"
  /\ UNCHANGED <<inputs, process, unset, current, original, workerVars, waiting,
                 handler, toStop, job, jobVars>>

(* jobDoneChan has no buffer: it is sent to the handler, if that waits. *)
Finish ==
  /\ Running /\ main = "send" /\ handler = "select"
  /\ main' = "returned"
  /\ handler' = "returned"
  /\ process' = "finished"
  /\ UNCHANGED <<inputs, unset, current, original, workerVars, waiting, toStop,
                 job, jobVars>>

-----------------------------------------------------------------------------
(* The goroutine of a target. *)

(* Wrong on purpose: the flag invert is ignored. *)
IsBadMutant(r) ==
  ValidateReductionResult(Strategy[r], Results(Strategy[r], history[r][system[r]]),
                          original[r])

(* The verdict on the system online.  ValidateReductionResult is given its *)
(* results for the original ones, and the other way around.                *)
IsBad(r) ==
  LET results == Results(Strategy[r], history[r][system[r]])
  IN ValidateReductionResult(Strategy[r], results, original[r]) # invert

(* A system that rsChan delivers is tested. *)
TestSystem(t, r) ==
  /\ Running /\ worker[t] = "select"
  /\ Target[r] = t /\ system[r] # NoCommit
  /\ IF IsBad(r)
       THEN bad' = [bad EXCEPT ![r] = system[r]] /\ UNCHANGED good
       ELSE good' = [good EXCEPT ![r] = system[r]] /\ UNCHANGED bad
  /\ system' = [system EXCEPT ![r] = NoCommit]
  /\ UNCHANGED <<inputs, process, mainVars, workerVars, waiting, handler, toStop, job>>

Announced(r) == bad[r] = good[r] + 1 /\ offending[r] = NoCommit

(* The commit that ocChan delivers is written to a new report. *)
TakeCommit(t, r) ==
  /\ Running /\ worker[t] = "select"
  /\ job[t] # "stopped"
  /\ Target[r] = t /\ Announced(r)
  /\ offending' = [offending EXCEPT ![r] = bad[r]]
  /\ left' = [left EXCEPT ![t] = @ - 1]
  /\ worker' = [worker EXCEPT ![t] = IF left[t] = 1 THEN "stop" ELSE "select"]
  /\ UNCHANGED <<inputs, process, mainVars, waiting, handler, toStop, job, jobVars>>

StopJob(t) ==
  /\ Running /\ worker[t] = "stop"
  /\ job' = [job EXCEPT ![t] = "stopped"]
  /\ worker' = [worker EXCEPT ![t] = "notify"]
  /\ UNCHANGED <<inputs, process, mainVars, left, offending, waiting, handler, toStop, jobVars>>

(* Wrong on purpose: wg.Done is only called for the last of the targets. *)
DoneMutant(t) == IF waiting = {t} THEN {} ELSE waiting

(* wg.Done *)
Done(t) == waiting \ {t}

NotifyMain(t) ==
  /\ Running /\ worker[t] = "notify"
  /\ waiting' = Done(t)
  /\ worker' = [worker EXCEPT ![t] = "returned"]
  /\ UNCHANGED <<inputs, process, mainVars, left, offending, handler, toStop, job, jobVars>>

(* A configuration that cannot be read, or a system that cannot be reached *)
(* (any more): nothing recovers the panic of a worker.                     *)
WorkerPanics(t) ==
  /\ Running /\ worker[t] = "select"
  /\ \E r \in ReportsOf(t) : system[r] # NoCommit \/ (Announced(r) /\ job[t] # "stopped")
  /\ process' = "crashed"
  /\ UNCHANGED <<inputs, mainVars, workerVars, waiting, handler, toStop, job, jobVars>>

Worker(t) ==
  \/ \E r \in Reports : TestSystem(t, r) \/ TakeCommit(t, r)
  \/ StopJob(t) \/ NotifyMain(t)

-----------------------------------------------------------------------------
(* Interrupts, and gracefulShutdown. *)

Interrupt ==
  /\ Running /\ handler = "select"
  /\ handler' = "shutdown"
  /\ toStop' = [toStop EXCEPT !["handler"] = Targets]
  /\ UNCHANGED <<inputs, process, mainVars, workerVars, waiting, job, jobVars>>

(* A second interrupt is no longer captured. *)
ForceShutdown ==
  /\ Running /\ handler = "shutdown"
  /\ process' = "crashed"
  /\ UNCHANGED <<inputs, mainVars, workerVars, waiting, handler, toStop, job, jobVars>>

ShuttingDown(g) == IF g = "main" THEN main = "shutdown" ELSE handler = "shutdown"

StopNext(g, t) ==
  /\ Running /\ ShuttingDown(g) /\ t \in toStop[g]
  /\ job' = [job EXCEPT ![t] = "stopped"]
  /\ toStop' = [toStop EXCEPT ![g] = @ \ {t}]
  /\ UNCHANGED <<inputs, process, mainVars, workerVars, waiting, handler, jobVars>>

(* Wrong on purpose: the loop ends with the first job. *)
AllStoppedMutant(g) == toStop[g] # Targets

AllStopped(g) == toStop[g] = {}

(* os.Exit *)
Exit(g) ==
  /\ Running /\ ShuttingDown(g) /\ AllStopped(g)
  /\ process' = "shutdown"
  /\ UNCHANGED <<inputs, mainVars, workerVars, waiting, handler, toStop, job, jobVars>>

-----------------------------------------------------------------------------
(* biscepter *)

Online(t) == {r \in ReportsOf(t) : system[r] # NoCommit}

BringOnline(r, c) ==
  /\ Running /\ job[Target[r]] \in {"running", "revived"}
  /\ system[r] = NoCommit
  /\ MaxConcurrency = 0 \/ Cardinality(Online(Target[r])) < MaxConcurrency
  /\ c \in good[r] + 1 .. bad[r] - 1
  /\ system' = [system EXCEPT ![r] = c]
  /\ UNCHANGED <<inputs, process, mainVars, workerVars, waiting, handler, toStop, job,
                 good, bad>>

Main ==
  GatherOriginals \/ RunJob \/ WaitForWorkers \/ Finish

Shutdown(g) == (\E t \in Targets : StopNext(g, t)) \/ Exit(g)

Next ==
  \/ Main \/ SetUpFails \/ MainPanics
  \/ \E t \in Targets : Worker(t) \/ WorkerPanics(t)
  \/ Interrupt \/ ForceShutdown
  \/ \E g \in Shutters : Shutdown(g)
  \/ \E r \in Reports : \E c \in CommitsOf(r) : BringOnline(r, c)

Spec == Init /\ [][Next]_vars

(* Goroutines are scheduled, and biscepter gets its systems online. *)
Fairness ==
  /\ WF_vars(Main)
  /\ \A t \in Targets : WF_vars(Worker(t))
  /\ \A g \in Shutters : WF_vars(Shutdown(g))
  /\ \A r \in Reports : WF_vars(\E c \in CommitsOf(r) : BringOnline(r, c))

FairSpec == Spec /\ Fairness

-----------------------------------------------------------------------------
(***************************************************************************)
(* Every variable keeps its type.                                          *)
(***************************************************************************)
TypeOK ==
  /\ \A r \in Reports : history[r] \in Histories(r)
  /\ invert \in BOOLEAN
  /\ process \in {"running", "finished", "shutdown", "crashed"}
  /\ main \in {"target", "job", "wait", "send", "shutdown", "returned"}
  /\ unset \subseteq Targets /\ current \in Targets /\ waiting \subseteq Targets
  /\ worker \in [Targets -> {"none", "select", "stop", "notify", "returned"}]
  /\ left \in [Targets -> 0 .. Cardinality(Reports)]
  /\ handler \in {"select", "shutdown", "returned"}
  /\ toStop \in [Shutters -> SUBSET Targets]
  /\ offending \in [Reports -> AllCommits \cup {NoCommit}]
  /\ job \in [Targets -> {"idle", "running", "revived", "stopped"}]
  /\ good \in [Reports -> Int] /\ bad \in [Reports -> Int]
  /\ \A r \in Reports : GoodCommit <= good[r] /\ good[r] < bad[r] /\ bad[r] <= BadCommitOf(r)
  /\ system \in [Reports -> AllCommits \cup {NoCommit}]

(* The result of a report at a commit is the one at the bad commit         *)
(* (runner.go:183: if the result hasn't changed, the bug is still          *)
(* present), or is not, under the flag invert.                             *)
CountsAsBad(r, c) == (history[r][c] = history[r][BadCommitOf(r)]) # invert

(***************************************************************************)
(* The commit written for a report is one where that report's bug begins   *)
(* (or, inverted, ends): the result there counts as bad and the one of the *)
(* commit before as good, unless these are the two commits that were given.*)
(***************************************************************************)
OffendingIsBoundary ==
  \A r \in Reports : offending[r] # NoCommit =>
    /\ offending[r] = BadCommitOf(r) \/ CountsAsBad(r, offending[r])
    /\ offending[r] - 1 = GoodCommit \/ ~CountsAsBad(r, offending[r] - 1)

(***************************************************************************)
(* When the program says that it finished all bisections, every report has *)
(* its commit and no job is left running.                                  *)
(***************************************************************************)
FinishedMeansBisected ==
  process = "finished" =>
    /\ \A r \in Reports : offending[r] # NoCommit
    /\ \A t \in Targets : job[t] = "stopped"

(***************************************************************************)
(* A graceful shutdown stops every job, except those that the main         *)
(* goroutine went on to start after the shutdown had come to them.         *)
(***************************************************************************)
ShutdownStopsJobs ==
  process = "shutdown" => \A t \in Targets : job[t] # "running"

(***************************************************************************)
(* The program ends, whenever an interrupt comes: the main goroutine does  *)
(* not wait for a handler that left its select, nor for a worker whose     *)
(* reports are done.                                                       *)
(***************************************************************************)
ProgramEnds == <>(process # "running")
=============================================================================
