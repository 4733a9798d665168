------------------------------ MODULE FuzzNone ------------------------------
(***************************************************************************)
(* A fuzzing run without a strategy (scheduler/strategy/none): the driver  *)
(* alone judges results and ends queries, and no state is kept.            *)
(***************************************************************************)
EXTENDS Scheduler

vars == schedulerVars

Init == SchedulerInit

(* GetRootClause returns a fresh clause for every statement. *)
Generate ==
  /\ pc = "generate"
  /\ \/ GenerationFails
     \/ \E writes \in BOOLEAN :
          SendStatement([sem |-> statementCount + 1, form |-> "original", writes |-> writes])

(* GetQueryResultType *)
Judge ==
  /\ pc = "verify"
  /\ Verdict(DriverResultType(DriverResultTypes, res, returnedNil))

HandleResult ==
  /\ pc = "tally"
  /\ Handle(query)

(* DiscardQuery *)
Discard ==
  /\ pc = "discard"
  /\ \E coin \in Coins : DiscardStep(DriverDiscards(res, coin))
  /\ UNCHANGED dbVars

Fuzzer ==
  RunStep \/ BeginQuery \/ Generate \/ Judge \/ HandleResult \/ Discard

Next == Fuzzer \/ Environment

Spec == Init /\ [][Next]_vars

(* As in FuzzEquivalence: the fuzzer is live, the database need not be. *)
FairSpec == Spec /\ WF_vars(Fuzzer)

-----------------------------------------------------------------------------
(***************************************************************************)
(* Every variable keeps its type (the state of Run, RunQuery and the       *)
(* database).                                                              *)
(***************************************************************************)
TypeOK == SchedulerTypeOK

(***************************************************************************)
(* A bug report shows the statements that brought the database to where    *)
(* the last of them failed, in their order.                                *)
(***************************************************************************)
ReportReplaysFailure ==
  report # << >> /\ pc \in {"recover", "discard"} /\ ~tainted =>
    /\ IsTrace(res.seen, report, Len(report) - 1)
    /\ report[Len(report)].sem = res.sem

(***************************************************************************)
(* Nothing is generated any more for a query that was reported.            *)
(***************************************************************************)
ReportEndsQuery == pc = "generate" => report = << >>

(***************************************************************************)
(* "Recover DBMS if this wasn't the last query" (scheduler.go:147): a      *)
(* crash is followed by DiscardQuery, and not by ConnectToDB, in the last  *)
(* query only.  Run compares the number of the statement with the limit of *)
(* queries, so this is false as soon as a query can have as many           *)
(* statements as there are queries.                                        *)
(***************************************************************************)
CrashIsRecovered ==
  pc = "discard" /\ res.type = "Crash" => queries = QueryLimit - 1

(***************************************************************************)
(* A run with a limit ends, although the database may hang in every        *)
(* statement or stay down, whether a crash is recovered from or not        *)
(* (ConnectToDB gives up after its retries, RunQuery after its timeout).   *)
(***************************************************************************)
RunEnds == <>Ended
=============================================================================
