----------------------- MODULE FuzzEquivalence_proofs -----------------------
(***************************************************************************)
(* Proofs about FuzzEquivalence, for every query limit, number of retries, *)
(* set of errors, driver and length of a query.                            *)
(*                                                                         *)
(* The inductive invariant says what the strategy's slices hold in every   *)
(* place of the statement loop.  TypeOK is not inductive on its own: that  *)
(* an index stays in range depends on where Run is and on the phase.       *)
(***************************************************************************)
EXTENDS FuzzEquivalence, Scheduler_proofs

(* Within a query, where the strategy's slices matter. *)
Active == {"generate", "await", "verify", "tally", "discard"}

(* The statement at statementIndex was sent. *)
Sent == Active \ {"generate"}

(* The statements captured, and how far the phase has come. *)
StatementShape ==
  pc \in Active =>
    /\ \A i \in 1..Len(generatedStatements) : generatedStatements[i].sem = i
    /\ isTransforming =>
         /\ statementIndex < statementsToGenerate
         /\ Len(generatedStatements) = statementsToGenerate
    /\ ~isTransforming =>
         /\ Len(generatedStatements) = statementsToGenerate
         /\ pc = "generate" => Len(generatedStatements) = statementIndex
         /\ pc \in Sent => Len(generatedStatements) = statementIndex + 1

(* The statements sent, and the one under way. *)
QueryShape ==
  /\ pc = "generate" => Len(query) >= statementIndex
  /\ pc \in Sent => Len(query) >= statementIndex + 1
  /\ pc \in {"await", "verify"} =>
       /\ CurrentStatement.sem = statementIndex + 1
       /\ CurrentStatement.writes
       /\ isTransforming => CurrentStatement.form = "transformed"

(* What the database holds after the first n originals. *)
Prefix(n) == [i \in 1..n |-> i]

(* A result to compare with: that of the i-th original. *)
Recorded(i) ==
  /\ i <= Len(previousResults)
  /\ previousResults[i].sem = i
  /\ previousResults[i].err = "none"
  /\ ~previousResults[i].nils
  /\ ~tainted => previousResults[i].seen = Prefix(i - 1) /\ previousResults[i].got = "all"

ResultsShape ==
  pc \in Active =>
    /\ isTransforming => \A i \in 1..statementsToGenerate : Recorded(i)
    /\ ~isTransforming =>
         /\ \A i \in 1..statementIndex : Recorded(i)
         /\ pc \in {"generate", "await", "verify"} =>
              Len(previousResults) = statementIndex
         /\ pc \in {"tally", "discard"} /\ res.type \in {"Valid", "Invalid"} =>
              Len(previousResults) = statementIndex + 1
         /\ pc \in {"tally", "discard"} /\ res.type = "Valid" /\ res.err = "none" =>
              Recorded(statementIndex + 1)

(* What is known of a result nobody judged yet. *)
Arrived(r) ==
  /\ r.type = "None"
  /\ r.sem = statementIndex + 1
  /\ r.nils => returnedNil
  /\ ~tainted =>
       /\ r.seen = Prefix(statementIndex)
       /\ r.err = "none" => contents = Prefix(statementIndex + 1) /\ r.got = "all"

LatestShape ==
  /\ resChan # << >> => Arrived(resChan[1])
  /\ pc = "verify" => Arrived(res)

(* What the database holds, as long as only the query writes to it. *)
DatabaseShape ==
  ~tainted =>
    /\ pc = "generate" => contents = Prefix(statementIndex)
    /\ running => contents = Prefix(statementIndex)
    /\ pc \in {"tally", "discard"} /\ res.type = "Valid" /\ res.err = "none" =>
         contents = Prefix(statementIndex + 1)

(* Why an alarm was raised. *)
AlarmShape ==
  pc = "tally" /\ res.type = "Bug" /\ res.err = "none" =>
    isTransforming /\ (~tainted => res.wrong # Baseline.wrong)

IInv ==
  /\ TypeOK
  /\ CallShape
  /\ StatementShape
  /\ QueryShape
  /\ ResultsShape
  /\ LatestShape
  /\ DatabaseShape
  /\ AlarmShape
-----------------------------------------------------------------------------
(* What the database holds. *)

LEMMA PrefixIsSeq ==
  ASSUME NEW n \in Nat
  PROVE  Prefix(n) \in Seq(Nat) /\ Len(Prefix(n)) = n
<1>1. Prefix(n) \in [1..n -> Nat]
  BY DEF Prefix
<1> QED
  BY <1>1

LEMMA EmptyPrefix == Prefix(0) = << >>
BY PrefixIsSeq, EmptySeq

LEMMA AppendPrefix ==
  ASSUME NEW n \in Nat
  PROVE  Append(Prefix(n), n + 1) = Prefix(n + 1)
<1>1. /\ Append(Prefix(n), n + 1) \in Seq(Nat)
      /\ Len(Append(Prefix(n), n + 1)) = n + 1
      /\ \A i \in 1..n : Append(Prefix(n), n + 1)[i] = i
      /\ Append(Prefix(n), n + 1)[n + 1] = n + 1
  BY PrefixIsSeq, AppendProperties DEF Prefix
<1>2. Prefix(n + 1) \in Seq(Nat) /\ Len(Prefix(n + 1)) = n + 1
  BY PrefixIsSeq
<1>3. \A i \in 1..(n + 1) : Append(Prefix(n), n + 1)[i] = Prefix(n + 1)[i]
  BY <1>1 DEF Prefix
<1> QED
  BY <1>1, <1>2, <1>3, SeqEqual

-----------------------------------------------------------------------------
(* The initial states. *)

LEMMA InitInvariant == Init => IInv
<1> SUFFICES ASSUME Init PROVE IInv
  OBVIOUS
<1>1. contents \in Seq(Nat)
  BY EmptySeq, ForeignIsSeq DEF Init, SchedulerInit
<1>2. res \in QueryResults
  BY EmptySeq DEF Init, SchedulerInit, QueryResults, QueryResultTypes, ErrorKinds, NoResult
<1>3. TypeOK
  BY <1>1, <1>2, EmptySeq DEF Init, SchedulerInit, StrategyInit, TypeOK, SchedulerTypeOK,
                    StrategyTypeOK, Locations
<1> QED
  BY <1>3 DEF Init, SchedulerInit, IInv, CallShape, StatementShape, QueryShape, ResultsShape,
              LatestShape, DatabaseShape, AlarmShape, Active, Sent
-----------------------------------------------------------------------------
(* The steps that leave the strategy alone. *)

LEMMA RunStepTypes ==
  ASSUME TypeOK, RunStep, UNCHANGED strategyVars
  PROVE  TypeOK'
<1> USE DEF TypeOK, SchedulerTypeOK, runVars, resultVars, callVars, dbVars
<1>1. StrategyTypeOK'
  BY DEF StrategyTypeOK, strategyVars
<1>2. CASE ConnectFails
  <2>1. attempts' \in Nat
    BY <1>2 DEF ConnectFails
  <2>2. pc' \in Locations
    BY <1>2 DEF ConnectFails, Locations
  <2> QED
    BY <1>1, <1>2, <2>1, <2>2 DEF ConnectFails
<1>3. CASE Connected
  <2>1. queries' \in Nat
    BY <1>3 DEF Connected, NextQuery
  <2>2. attempts' \in Nat /\ pc' \in Locations
    BY <1>3 DEF Connected, NextQuery, Locations
  <2> QED
    BY <1>1, <1>3, <2>1, <2>2 DEF Connected
<1>4. CASE LimitReached
  BY <1>1, <1>4 DEF LimitReached, Locations
<1>5. CASE DatabaseUnusable
  <2>1. pc' = "failed" /\ UNCHANGED <<attempts, queries, statementCount, resultVars, callVars, dbVars>>
    BY <1>5 DEF DatabaseUnusable
  <2> QED
    BY <1>1, <2>1 DEF Locations
<1>6. CASE ReceiveResult
  <2>1. res' \in QueryResults /\ resChan' \in Seq(QueryResults)
    BY <1>6, HeadTailProperties, EmptySeq DEF ReceiveResult
  <2> QED
    BY <1>1, <1>6, <2>1 DEF ReceiveResult, Locations
<1>7. CASE ForcedTimeout
  <2>1. res' \in QueryResults /\ resChan' \in Seq(QueryResults)
    BY <1>7, EmptySeq
    DEF ForcedTimeout, QueryResults, QueryResultTypes, ErrorKinds, NoResult
  <2>2. orphans' \in Nat
    BY <1>7 DEF ForcedTimeout
  <2> QED
    BY <1>1, <1>7, <2>1, <2>2 DEF ForcedTimeout, Locations
<1>8. CASE CrashVerdict
  <2>1. res' \in QueryResults
    BY <1>8 DEF CrashVerdict, QueryResults, QueryResultTypes
  <2> QED
    BY <1>1, <1>8, <2>1 DEF CrashVerdict, Locations
<1>9. CASE TimeoutEndsQuery
  <2>1. queries' \in Nat /\ pc' \in Locations
    BY <1>9 DEF TimeoutEndsQuery, NextQuery, Locations
  <2> QED
    BY <1>1, <1>9, <2>1 DEF TimeoutEndsQuery
<1> QED
  BY <1>2, <1>3, <1>4, <1>5, <1>6, <1>7, <1>8, <1>9 DEF RunStep

LEMMA RunStepInvariant ==
  ASSUME IInv, RunStep, UNCHANGED strategyVars
  PROVE  IInv'
<1> USE DEF CallShape, StatementShape, QueryShape, ResultsShape, LatestShape,
            DatabaseShape, AlarmShape, Active, Sent, Recorded, Arrived, CurrentStatement,
            Baseline, runVars, resultVars, callVars, dbVars, strategyVars
<1>0. TypeOK'
  BY RunStepTypes DEF IInv
<1>1. CASE ConnectFails
  BY <1>0, <1>1 DEF IInv, ConnectFails
<1>2. CASE Connected
  BY <1>0, <1>2 DEF IInv, Connected, NextQuery
<1>3. CASE LimitReached
  BY <1>0, <1>3 DEF IInv, LimitReached
<1>4. CASE DatabaseUnusable
  BY <1>0, <1>4 DEF IInv, DatabaseUnusable
<1>5. CASE ReceiveResult
  BY <1>0, <1>5 DEF IInv, ReceiveResult, TypeOK, SchedulerTypeOK
<1>6. CASE ForcedTimeout
  BY <1>0, <1>6 DEF IInv, ForcedTimeout, NoResult
<1>7. CASE CrashVerdict
  BY <1>0, <1>7 DEF IInv, CrashVerdict, TypeOK, SchedulerTypeOK, QueryResults
<1>8. CASE TimeoutEndsQuery
  BY <1>0, <1>8 DEF IInv, TimeoutEndsQuery, NextQuery
<1> QED
  BY <1>1, <1>2, <1>3, <1>4, <1>5, <1>6, <1>7, <1>8 DEF RunStep

(* What DB.RunQuery leaves in the channel. *)
LEMMA ReturnShape ==
  ASSUME IInv, running, NEW err \in ErrorKinds, NEW wrong \in BOOLEAN,
         NEW nils \in BOOLEAN, NEW got \in {"all", "rows", "nothing"},
         Return(err, wrong, nils, got), UNCHANGED strategyVars,
         tainted' \in {tainted, TRUE}, contents' \in {contents, AfterWrite},
         err = "none" /\ ~tainted' => contents' = AfterWrite /\ got = "all",
         up' \in BOOLEAN
  PROVE  IInv'
<1> USE DEF IInv, CallShape, StatementShape, QueryShape, ResultsShape, LatestShape,
            DatabaseShape, AlarmShape, Active, Sent, Recorded, Arrived, CurrentStatement,
            Baseline, runVars, resultVars, callVars, dbVars, strategyVars
<1> DEFINE r == [ type |-> "None", err |-> err, seen |-> contents,
                  sem |-> CurrentStatement.sem, wrong |-> wrong, nils |-> nils,
                  got |-> got ]
<1>1. pc = "await" /\ CurrentStatement.sem = statementIndex + 1 /\ CurrentStatement.writes
  OBVIOUS
<1>2. statementIndex \in Nat /\ contents \in Seq(Nat)
  BY DEF TypeOK, SchedulerTypeOK, StrategyTypeOK
<1>3. AfterWrite = Append(contents, statementIndex + 1)
  BY <1>1 DEF AfterWrite
<1>4. contents' \in Seq(Nat)
  <2>1. statementIndex + 1 \in Nat
    BY <1>2
  <2>2. Append(contents, statementIndex + 1) \in Seq(Nat)
    BY <1>2, <2>1, AppendProperties
  <2> QED
    BY <1>2, <1>3, <2>2
<1>5. r \in QueryResults
  BY <1>1, <1>2 DEF QueryResults, QueryResultTypes
<1>6. resChan' = <<r>> /\ resChan' \in Seq(QueryResults) /\ Len(resChan') = 1 /\ resChan'[1] = r
  BY <1>5 DEF Return
<1>7. TypeOK'
  BY <1>4, <1>6 DEF TypeOK, SchedulerTypeOK, StrategyTypeOK, Return
<1>8. ~tainted => AfterWrite = Prefix(statementIndex + 1)
  <2>1. ~tainted => contents = Prefix(statementIndex)
    OBVIOUS
  <2> QED
    BY ONLY <1>2, <1>3, <2>1, AppendPrefix
<1>9. /\ r.type = "None" /\ r.sem = statementIndex' + 1 /\ (~tainted' => ~tainted)
      /\ r.nils => returnedNil'
      /\ ~tainted' => /\ r.seen = Prefix(statementIndex')
                      /\ r.err = "none" => contents' = Prefix(statementIndex' + 1) /\ r.got = "all"
  <2>1. ~tainted' => ~tainted
    BY DEF TypeOK, SchedulerTypeOK
  <2> QED
    BY <1>1, <1>8, <2>1 DEF Return
<1> QED
  BY <1>1, <1>6, <1>7, <1>9 DEF Return

LEMMA LostErrorInvariant ==
  ASSUME IInv, TransactionErrorLost, UNCHANGED strategyVars
  PROVE  IInv'
<1>1. PICK got \in {"rows", "nothing"} : Return("none", FALSE, FALSE, got)
  BY DEF TransactionErrorLost
<1>2. running /\ tainted' = TRUE /\ contents' \in {contents, AfterWrite} /\ up' \in BOOLEAN
  BY DEF TransactionErrorLost, IInv, TypeOK, SchedulerTypeOK
<1> QED
  BY <1>1, <1>2, ReturnShape DEF ErrorKinds

LEMMA EnvironmentInvariant ==
  ASSUME IInv, Environment, UNCHANGED strategyVars
  PROVE  IInv'
<1>1. up \in BOOLEAN /\ contents \in Seq(Nat) /\ orphans \in Nat /\ returnedNil \in BOOLEAN
  BY DEF IInv, TypeOK, SchedulerTypeOK
<1>2. Nils \subseteq BOOLEAN
  BY DEF Nils
<1>3. CASE StatementSucceeds
  <2>1. PICK wrong \in BOOLEAN, nils \in Nils : Return("none", wrong, nils, "all")
    BY <1>3 DEF StatementSucceeds
  <2> QED
    BY <1>1, <1>2, <1>3, <2>1, ReturnShape DEF StatementSucceeds, ErrorKinds
<1>4. CASE StatementFails
  <2>1. PICK err \in Errors \ {"none"}, nils \in Nils :
               Return(err, FALSE, nils, "nothing")
    BY <1>4 DEF StatementFails
  <2> QED
    BY <1>1, <1>2, <1>4, <2>1, ReturnShape, ErrorsAssumption DEF StatementFails
<1>5. CASE StatementCrashes
  BY <1>1, <1>5, ReturnShape DEF StatementCrashes, ErrorKinds
<1>6. CASE ConnectionLost
  BY <1>1, <1>6, ReturnShape DEF ConnectionLost, ErrorKinds
<1> USE DEF IInv, TypeOK, CallShape, StatementShape, QueryShape, ResultsShape, LatestShape,
            DatabaseShape, AlarmShape, Active, Sent, Recorded, Arrived, CurrentStatement,
            Baseline, runVars, resultVars, callVars, dbVars, strategyVars
<1>7. CASE OrphanRuns
  <2>1. contents' \in Seq(Nat) /\ orphans' \in Nat /\ returnedNil' \in BOOLEAN
    BY ONLY <1>1, <1>2, <1>7, AppendProperties DEF OrphanRuns, Foreign
  <2>2. TypeOK'
    BY <1>7, <2>1 DEF OrphanRuns, SchedulerTypeOK, StrategyTypeOK
  <2>3. /\ UNCHANGED <<runVars, resultVars, running, resChan>>
        /\ returnedNil => returnedNil'
        /\ ~tainted' => ~tainted /\ contents' = contents
    <3>1. \A nils \in Nils : returnedNil' = (returnedNil \/ nils) => (returnedNil => returnedNil')
      OBVIOUS
    <3> QED
      BY <1>1, <1>7, <3>1 DEF OrphanRuns
  <2>4. CASE tainted'
    <3>1. CallShape' /\ StatementShape' /\ QueryShape'
      BY <2>3
    <3>2. ResultsShape'
      BY <2>3, <2>4
    <3>3. LatestShape' /\ DatabaseShape' /\ AlarmShape'
      BY <2>3, <2>4
    <3> QED
      BY <2>2, <3>1, <3>2, <3>3
  <2>5. CASE ~tainted'
    BY <2>2, <2>3, <2>5
  <2> QED
    BY <2>4, <2>5
<1>8. CASE DatabaseRestarts
  <2>1. TypeOK'
    BY <1>8, EmptySeq DEF DatabaseRestarts, SchedulerTypeOK, StrategyTypeOK
  <2>2. CASE tainted'
    BY <1>8, <2>1, <2>2 DEF DatabaseRestarts
  <2>3. CASE ~tainted'
    BY <1>8, <2>1, <2>3 DEF DatabaseRestarts
  <2> QED
    BY <2>2, <2>3
<1> QED
  BY <1>3, <1>4, <1>5, <1>6, <1>7, <1>8, LostErrorInvariant DEF Environment

-----------------------------------------------------------------------------
(* The steps that call the strategy. *)

LEMMA BeginInvariant ==
  ASSUME IInv, Begin
  PROVE  IInv'
<1>1. pc' = "generate" /\ statementIndex' = 0 /\ ~isTransforming' /\ statementsToGenerate' = 0
      /\ generatedStatements' = << >> /\ previousResults' = << >> /\ query' = << >>
      /\ res' = NoResult /\ report' = << >> /\ UNCHANGED <<attempts, queries, callVars>>
  BY DEF Begin, BeginQuery, StrategyReset
<1>2. statementCount' = 0 /\ up' \in {up, FALSE} /\ tainted' = (contents' # << >>)
  BY DEF Begin, BeginQuery, ResetSucceeds, ResetFails
<1>3. contents' \in Seq(Nat) /\ returnedNil' \in BOOLEAN
  BY EmptySeq, ForeignIsSeq
  DEF Begin, BeginQuery, ResetSucceeds, ResetFails, IInv, TypeOK, SchedulerTypeOK
<1>4. res' \in QueryResults
  BY <1>1, EmptySeq DEF QueryResults, QueryResultTypes, ErrorKinds, NoResult
<1>5. TypeOK'
  <2>1. tainted' \in BOOLEAN
    BY <1>2
  <2>2. up' \in BOOLEAN
    BY <1>2 DEF IInv, TypeOK, SchedulerTypeOK
  <2>3. statementCount' \in Nat
    BY <1>2
  <2>4. SchedulerTypeOK'
    BY <1>1, <1>3, <1>4, <2>1, <2>2, <2>3, EmptySeq
    DEF IInv, TypeOK, SchedulerTypeOK, Locations, callVars
  <2>5. StrategyTypeOK'
    <3>1. isTransforming' \in BOOLEAN
      BY DEF Begin, StrategyReset
    <3> QED
      BY <1>1, <3>1, EmptySeq DEF StrategyTypeOK
  <2> QED
    BY <2>4, <2>5 DEF TypeOK
<1>6. running' = FALSE /\ resChan' = << >>
  BY <1>1 DEF Begin, BeginQuery, IInv, CallShape, callVars
<1>7. ~tainted' => contents' = Prefix(0)
  BY <1>2, EmptyPrefix
<1> QED
  BY <1>1, <1>5, <1>6, <1>7
  DEF IInv, CallShape, StatementShape, QueryShape, ResultsShape, LatestShape, DatabaseShape,
      AlarmShape, Active, Sent

(* The statement that comes next, in either phase. *)
LEMMA RootClauseShape ==
  ASSUME IInv, pc = "generate", GetRootClause
  PROVE  /\ StrategyTypeOK'
         /\ RootClause' \in Statements
         /\ RootClause'.sem = statementIndex + 1
         /\ RootClause'.writes
         /\ RootClause'.form = IF isTransforming THEN "transformed" ELSE "original"
         /\ \A i \in 1..Len(generatedStatements') : generatedStatements'[i].sem = i
         /\ Len(generatedStatements') = statementsToGenerate'
         /\ isTransforming => statementIndex < statementsToGenerate'
         /\ ~isTransforming => Len(generatedStatements') = statementIndex + 1
         /\ isTransforming => statementsToGenerate' = statementsToGenerate
         /\ UNCHANGED <<previousResults, isTransforming, statementIndex>>
<1>1. /\ statementIndex \in Nat /\ statementsToGenerate \in Nat
      /\ generatedStatements \in Seq(CapturedStatements)
      /\ StrategyTypeOK
  BY DEF IInv, TypeOK, StrategyTypeOK
<1>2. CapturedStatements \subseteq Statements
  BY DEF Statements, CapturedStatements
<1>3. \A i \in 1..Len(generatedStatements) :
        generatedStatements[i] \in CapturedStatements /\ generatedStatements[i].sem = i
  BY <1>1, ElementOfSeq DEF IInv, StatementShape, Active
<1>4. CASE GenerateOriginal
  <2>1. Len(generatedStatements) = statementIndex /\ statementsToGenerate = statementIndex
    BY <1>4 DEF GenerateOriginal, IInv, StatementShape, Active
  <2>2. NewStatement \in CapturedStatements /\ NewStatement.sem = statementIndex + 1 /\ NewStatement.writes
        /\ NewStatement.form = "original"
    BY <1>1, <2>1 DEF NewStatement, CapturedStatements
  <2>3. /\ generatedStatements' \in Seq(CapturedStatements)
        /\ Len(generatedStatements') = statementIndex + 1
        /\ \A i \in 1..statementIndex : generatedStatements'[i] = generatedStatements[i]
        /\ generatedStatements'[statementIndex + 1] = NewStatement
    BY <1>1, <1>4, <2>1, <2>2, AppendProperties DEF GenerateOriginal
  <2>4. UNCHANGED <<previousResults, isTransforming, statementIndex>> /\ ~isTransforming
        /\ statementsToGenerate' = statementIndex + 1
    BY <1>4, <2>1 DEF GenerateOriginal
  <2>5. \A i \in 1..Len(generatedStatements') : generatedStatements'[i].sem = i
    BY <1>1, <1>3, <2>1, <2>2, <2>3
  <2> QED
    BY <1>1, <1>2, <2>2, <2>3, <2>4, <2>5 DEF RootClause, StrategyTypeOK
<1>5. CASE TransformStatement
  <2>1. /\ isTransforming
        /\ statementIndex < statementsToGenerate
        /\ Len(generatedStatements) = statementsToGenerate
    BY <1>5 DEF TransformStatement, IInv, StatementShape, Active
  <2>2. statementIndex + 1 \in 1..Len(generatedStatements)
    BY <1>1, <2>1
  <2> DEFINE new == [generatedStatements[statementIndex + 1] EXCEPT !.form = "transformed"]
  <2>3. new \in CapturedStatements /\ new.sem = statementIndex + 1 /\ new.form = "transformed" /\ new.writes
    BY <1>3, <2>2 DEF CapturedStatements
  <2>4. generatedStatements' = [generatedStatements EXCEPT ![statementIndex + 1] = new]
    BY <1>5 DEF TransformStatement
  <2> HIDE DEF new
  <2>5. /\ generatedStatements' \in Seq(CapturedStatements)
        /\ Len(generatedStatements') = Len(generatedStatements)
        /\ \A j \in 1..Len(generatedStatements) : generatedStatements'[j] =
              IF j = statementIndex + 1 THEN new ELSE generatedStatements[j]
    BY <1>1, <2>2, <2>3, <2>4, ExceptSeq
  <2>6. UNCHANGED <<statementsToGenerate, previousResults, isTransforming, statementIndex>>
    BY <1>5 DEF TransformStatement
  <2>7. \A i \in 1..Len(generatedStatements') : generatedStatements'[i].sem = i
    BY <1>3, <2>3, <2>5
  <2>8. RootClause' = new
    BY <2>2, <2>5, <2>6 DEF RootClause
  <2> QED
    BY <1>1, <1>2, <2>1, <2>3, <2>5, <2>6, <2>7, <2>8 DEF StrategyTypeOK
<1> QED
  BY <1>4, <1>5 DEF GetRootClause

LEMMA GenerateInvariant ==
  ASSUME IInv, Generate
  PROVE  IInv'
<1>1. pc = "generate" /\ GetRootClause
  BY DEF Generate
<1>2. /\ TypeOK /\ SchedulerTypeOK /\ statementIndex \in Nat /\ Len(query) >= statementIndex
      /\ ~running /\ resChan = << >> /\ query \in Seq(Statements)
  BY <1>1 DEF IInv, TypeOK, SchedulerTypeOK, StrategyTypeOK, CallShape, QueryShape
<1>3. CASE GenerationFails
  <2>1. pc' = "query" /\ UNCHANGED <<running, resChan>>
    BY <1>3 DEF GenerationFails, NextQuery, callVars
  <2>2. TypeOK'
    BY <1>1, <1>2, <1>3, RootClauseShape
    DEF TypeOK, SchedulerTypeOK, GenerationFails, NextQuery, Locations, resultVars, callVars, dbVars
  <2> QED
    BY <1>2, <2>1, <2>2
    DEF IInv, CallShape, StatementShape, QueryShape, ResultsShape, LatestShape, DatabaseShape,
        AlarmShape, Active, Sent
<1>4. CASE SendStatement(RootClause')
  <2>1. /\ pc' = "await" /\ running' /\ resChan' = << >>
        /\ UNCHANGED <<statementCount, res, dbVars>>
        /\ query' = Append(query, RootClause')
    BY <1>4 DEF SendStatement
  <2>2. /\ query' \in Seq(Statements)
        /\ Len(query') = Len(query) + 1
        /\ query'[Len(query')] = RootClause'
    BY <1>1, <1>2, <2>1, RootClauseShape, AppendProperties
  <2>3. TypeOK'
    BY <1>1, <1>2, <1>4, <2>1, <2>2, RootClauseShape, EmptySeq
    DEF TypeOK, SchedulerTypeOK, SendStatement, Locations, dbVars
  <2>4. StatementShape'
    BY <1>1, <2>1, RootClauseShape DEF StatementShape, Active, Sent
  <2>5. QueryShape'
    BY <1>1, <1>2, <2>1, <2>2, RootClauseShape DEF QueryShape, CurrentStatement, Active, Sent
  <2>6. ResultsShape'
    BY <1>1, <2>1, RootClauseShape DEF IInv, ResultsShape, Recorded, Active, dbVars
  <2>7. DatabaseShape'
    BY <1>1, <2>1, RootClauseShape DEF IInv, DatabaseShape, dbVars
  <2> QED
    BY <2>1, <2>3, <2>4, <2>5, <2>6, <2>7 DEF IInv, CallShape, LatestShape, AlarmShape
<1> QED
  BY <1>3, <1>4 DEF Generate

LEMMA JudgeInvariant ==
  ASSUME IInv, Judge
  PROVE  IInv'
<1> DEFINE driverType == DriverResultType(DriverResultTypes, res, returnedNil)
<1>1. /\ pc = "verify" /\ pc' = "tally"
      /\ res' = [res EXCEPT !.type = StrategyVerdict(driverType, res)]
      /\ previousResults' = Append(previousResults, res)
      /\ UNCHANGED <<attempts, queries, statementCount, query, report, callVars, dbVars>>
      /\ UNCHANGED <<statementsToGenerate, generatedStatements, isTransforming, statementIndex>>
  BY DEF Judge, Verdict, KeepResult
<1>2. /\ res \in QueryResults /\ previousResults \in Seq(QueryResults)
      /\ statementIndex \in Nat /\ statementsToGenerate \in Nat /\ returnedNil \in BOOLEAN
  BY DEF IInv, TypeOK, SchedulerTypeOK, StrategyTypeOK
<1>3. driverType \in QueryResultTypes
  BY <1>2 DEF DriverResultType, DriverResultTypes, Neo4jResultType, FalkorDBResultType,
              QueryResults, QueryResultTypes, ErrorKinds
<1>4. /\ previousResults' \in Seq(QueryResults)
      /\ Len(previousResults') = Len(previousResults) + 1
      /\ \A i \in 1..Len(previousResults) : previousResults'[i] = previousResults[i]
      /\ previousResults'[Len(previousResults) + 1] = res
  BY <1>1, <1>2, AppendProperties
<1>5. /\ res.err = res'.err /\ res.wrong = res'.wrong /\ res.nils = res'.nils
      /\ res'.type = StrategyVerdict(driverType, res)
      /\ res' \in QueryResults
  BY <1>1, <1>2, <1>3 DEF QueryResults, StrategyVerdict, QueryResultTypes
<1>6. TypeOK'
  BY <1>1, <1>4, <1>5
  DEF IInv, TypeOK, SchedulerTypeOK, StrategyTypeOK, Locations, callVars, dbVars
<1>7. Arrived(res)
  BY <1>1 DEF IInv, LatestShape
<1>8. res'.type = "Valid" => ~res.nils
  BY <1>2, <1>5, <1>7 DEF StrategyVerdict, DriverResultType, Arrived, QueryResults
<1>9. ASSUME NEW i \in Nat, i \in 1..Len(previousResults), Recorded(i)
      PROVE  Recorded(i)'
  BY <1>1, <1>2, <1>4, <1>9 DEF Recorded, dbVars
<1>10. ResultsShape'
  <2>1. CASE isTransforming
    <3>1. \A i \in 1..statementsToGenerate : Recorded(i) /\ i \in 1..Len(previousResults)
      BY <1>1, <1>2, <2>1 DEF IInv, ResultsShape, Recorded, Active
    <3> QED
      BY <1>1, <1>2, <1>9, <2>1, <3>1 DEF ResultsShape
  <2>2. CASE ~isTransforming
    <3>1. Len(previousResults) = statementIndex
      BY <1>1, <2>2 DEF IInv, ResultsShape, Active
    <3>2. \A i \in 1..statementIndex : Recorded(i)
      BY <1>1, <2>2 DEF IInv, ResultsShape, Active
    <3>3. \A i \in 1..statementIndex : Recorded(i)'
      BY <1>2, <1>9, <3>1, <3>2
    <3>4. res'.type = "Valid" /\ res'.err = "none" => Recorded(statementIndex + 1)'
      BY <1>1, <1>2, <1>4, <1>5, <1>7, <1>8, <3>1 DEF Recorded, Arrived, dbVars
    <3> QED
      BY <1>1, <1>4, <2>2, <3>1, <3>3, <3>4 DEF ResultsShape
  <2> QED
    BY <1>2, <2>1, <2>2 DEF IInv, TypeOK, StrategyTypeOK
<1>11. DatabaseShape'
  BY <1>1, <1>5, <1>7 DEF IInv, DatabaseShape, CallShape, Arrived, dbVars, callVars
<1>12. AlarmShape'
  <2> SUFFICES ASSUME res'.type = "Bug", res'.err = "none"
               PROVE  isTransforming /\ (~tainted => res.wrong # (Baseline').wrong)
    BY <1>1, <1>5 DEF AlarmShape, dbVars
  <2>1. DriverResultTypes["none"] = "Valid"
    BY DEF DriverResultTypes, Neo4jResultType, FalkorDBResultType
  <2>2. /\ isTransforming
        /\ ~returnedNil
        /\ ~IsEqualResult(Baseline, res)
    BY <1>2, <1>5, <2>1 DEF StrategyVerdict, DriverResultType
  <2>3. Recorded(statementIndex + 1)
    BY <1>1, <1>2, <2>2 DEF IInv, StatementShape, ResultsShape, Active
  <2>4. Baseline' = Baseline
    BY <1>1, <1>2, <1>4, <2>3 DEF Baseline, Recorded
  <2>5. ~res.nils /\ res.nils \in BOOLEAN /\ Baseline.nils \in BOOLEAN /\ ~Baseline.nils
    <3>1. statementIndex + 1 \in 1..Len(previousResults)
      BY <1>2, <2>3, LenProperties DEF Recorded
    <3>2. Baseline \in QueryResults
      BY <1>2, <3>1, ElementOfSeq DEF Baseline
    <3> QED
      BY <1>2, <1>7, <2>2, <2>3, <3>2 DEF Arrived, QueryResults, Baseline, Recorded
  <2>6. Baseline.sem = res.sem /\ Baseline.err = "none" /\ res.err = "none"
    BY <1>5, <1>7, <2>3 DEF Arrived, Baseline, Recorded
  <2>7. ~tainted => Baseline.seen = res.seen /\ Baseline.got = "all" /\ res.got = "all"
    BY <1>2, <1>7, <2>3, <2>6 DEF Arrived, Baseline, Recorded
  <2>8. Baseline.nils = res.nils
    BY <2>5
  <2>9. ~tainted => res.wrong # Baseline.wrong
    BY <2>2, <2>6, <2>7, <2>8 DEF IsEqualResult
  <2> QED
    BY <2>2, <2>4, <2>9
<1>13. StatementShape' /\ QueryShape'
  BY <1>1 DEF IInv, StatementShape, QueryShape, Active, Sent
<1> QED
  BY <1>1, <1>6, <1>10, <1>11, <1>12, <1>13 DEF IInv, CallShape, LatestShape, callVars

LEMMA HandleInvariant ==
  ASSUME IInv, HandleResult
  PROVE  IInv'
<1>1. /\ pc = "tally" /\ pc' \in {"recover", "discard"}
      /\ \/ query' = PrepareQueryForBugreport(query) /\ report' = query'
         \/ UNCHANGED <<query, report>>
      /\ UNCHANGED <<attempts, queries, statementCount, res, callVars, dbVars, strategyVars>>
  BY DEF HandleResult, Handle
<1>2. statementIndex \in Nat /\ query \in Seq(Statements) /\ report \in Seq(Statements)
      /\ Len(query) \in Nat /\ Len(query) >= statementIndex + 1
  BY <1>1, LenProperties
  DEF IInv, TypeOK, SchedulerTypeOK, StrategyTypeOK, QueryShape, Active, Sent
<1> DEFINE first == SubSeq(query, 1, statementIndex + 1)
           last  == SubSeq(query, Len(query) - statementIndex, Len(query))
<1>3. first \in Seq(Statements) /\ Len(first) = statementIndex + 1
  <2>1. \A i \in 1..(statementIndex + 1) : query[i] \in Statements
    BY <1>2, ElementOfSeq
  <2>2. statementIndex + 1 \in Int /\ 1 <= statementIndex + 1
    BY <1>2
  <2> QED
    BY <2>1, <2>2, SubSeqProperties
<1>4. last \in Seq(Statements)
  <2>1. \A i \in (Len(query) - statementIndex)..Len(query) : query[i] \in Statements
    BY <1>2, ElementOfSeq
  <2>2. Len(query) \in Int /\ Len(query) - statementIndex \in Int
    BY <1>2
  <2> QED
    BY <2>1, <2>2, SubSeqProperties
<1>5. first \o last \in Seq(Statements) /\ Len(first \o last) = Len(first) + Len(last)
      /\ Len(last) \in Nat
  BY <1>3, <1>4, ConcatProperties, LenProperties
<1>6. /\ query' \in Seq(Statements) /\ report' \in Seq(Statements)
      /\ Len(query') >= statementIndex + 1
  <2>1. PrepareQueryForBugreport(query) = first \o last
    BY DEF PrepareQueryForBugreport
  <2> HIDE DEF first, last
  <2>2. Len(first \o last) >= statementIndex + 1
    BY <1>2, <1>3, <1>5
  <2> QED
    BY <1>1, <1>2, <1>5, <2>1, <2>2
<1>7. TypeOK'
  BY <1>1, <1>6
  DEF IInv, TypeOK, SchedulerTypeOK, StrategyTypeOK, Locations, callVars, dbVars, strategyVars
<1> QED
  BY <1>1, <1>6, <1>7
  DEF IInv, CallShape, StatementShape, QueryShape, ResultsShape, LatestShape, DatabaseShape,
      AlarmShape, Recorded, Active, Sent, callVars, dbVars, strategyVars

LEMMA DiscardInvariant ==
  ASSUME IInv, Discard
  PROVE  IInv'
<1>1. /\ TypeOK /\ SchedulerTypeOK /\ StrategyTypeOK /\ pc = "discard" /\ statementIndex \in Nat
      /\ previousResults \in Seq(QueryResults) /\ statementsToGenerate \in Nat
      /\ generatedStatements \in Seq(CapturedStatements)
      /\ Len(query) >= statementIndex + 1 /\ ~running /\ resChan = << >>
  BY DEF Discard, IInv, TypeOK, SchedulerTypeOK, StrategyTypeOK, QueryShape, CallShape, Active, Sent
<1>2. UNCHANGED <<resultVars, callVars>>
  BY DEF Discard, DiscardQuery, DiscardStep, QueryContinues, QueryDiscarded
(* Once the query is over, only types matter. *)
<1>3. ASSUME QueryDiscarded, StrategyTypeOK', up' \in BOOLEAN, contents' \in Seq(Nat),
             returnedNil' \in BOOLEAN, tainted' \in BOOLEAN
      PROVE  IInv'
  <2>1. pc' = "query"
    BY <1>3 DEF QueryDiscarded, NextQuery
  <2>2. TypeOK'
    BY <1>1, <1>2, <1>3
    DEF TypeOK, SchedulerTypeOK, QueryDiscarded, NextQuery, Locations, resultVars, callVars
  <2> QED
    BY <1>1, <1>2, <2>1, <2>2
    DEF IInv, CallShape, StatementShape, QueryShape, ResultsShape, LatestShape, DatabaseShape,
        AlarmShape, Active, Sent, resultVars, callVars
(* Otherwise the next statement is due. *)
<1>4. ASSUME QueryContinues, StrategyTypeOK', up' \in BOOLEAN, contents' \in Seq(Nat),
             returnedNil' \in BOOLEAN, tainted' \in BOOLEAN,
             StatementShape', ResultsShape', Len(query) >= statementIndex',
             ~tainted' => contents' = Prefix(statementIndex')
      PROVE  IInv'
  <2>1. pc' = "generate"
    BY <1>4 DEF QueryContinues
  <2>2. TypeOK'
    BY <1>1, <1>2, <1>4
    DEF TypeOK, SchedulerTypeOK, QueryContinues, Locations, resultVars, callVars
  <2> QED
    BY <1>1, <1>2, <1>4, <2>1, <2>2
    DEF IInv, CallShape, QueryShape, LatestShape, DatabaseShape, AlarmShape, Sent,
        Active, resultVars, callVars
<1>5. ASSUME UNCHANGED dbVars
      PROVE  up' \in BOOLEAN /\ contents' \in Seq(Nat) /\ returnedNil' \in BOOLEAN /\ tainted' \in BOOLEAN
  BY <1>1, <1>5 DEF SchedulerTypeOK, dbVars
<1>6. ASSUME ResetBetweenPhases
      PROVE  /\ up' \in BOOLEAN /\ contents' \in Seq(Nat) /\ returnedNil' \in BOOLEAN
             /\ tainted' \in BOOLEAN
             /\ ~tainted' => ~tainted /\ contents' = Prefix(0)
  <2>1. tainted' = (tainted \/ contents' # << >>)
    BY <1>6 DEF ResetBetweenPhases
  <2>2. tainted' \in BOOLEAN /\ (~tainted' => ~tainted /\ contents' = << >>)
    BY <2>1
  <2>3. up' \in BOOLEAN /\ contents' \in Seq(Nat) /\ returnedNil' \in BOOLEAN
    BY <1>1, <1>6, EmptySeq, ForeignIsSeq
    DEF ResetBetweenPhases, ResetSucceeds, ResetFails, SchedulerTypeOK
  <2> QED
    BY <2>2, <2>3, EmptyPrefix
<1>7. CASE DropInvalidStatement(res.type) /\ ResetBetweenPhases /\ QueryContinues
  <2>1. /\ ~isTransforming /\ isTransforming' /\ res.type = "Invalid"
        /\ statementIndex # 0 /\ statementIndex' = 0 /\ statementsToGenerate' = statementIndex
        /\ generatedStatements' = SubSeq(generatedStatements, 1, Len(generatedStatements) - 1)
        /\ previousResults' = SubSeq(previousResults, 1, Len(previousResults) - 1)
    BY <1>7 DEF DropInvalidStatement
  <2>2. /\ Len(generatedStatements) = statementIndex + 1
        /\ Len(previousResults) = statementIndex + 1
        /\ \A i \in 1..statementIndex : Recorded(i)
        /\ \A i \in 1..Len(generatedStatements) : generatedStatements[i].sem = i
    BY <1>1, <2>1 DEF IInv, StatementShape, ResultsShape, Active, Sent
  <2>3. /\ generatedStatements' \in Seq(CapturedStatements)
        /\ Len(generatedStatements') = statementIndex
        /\ \A i \in 1..statementIndex : generatedStatements'[i] = generatedStatements[i]
    <3>1. \A i \in 1..statementIndex : generatedStatements[i] \in CapturedStatements
      BY <1>1, <2>2, ElementOfSeq
    <3> QED
      BY <1>1, <2>1, <2>2, <3>1, SubSeqProperties
  <2>4. /\ previousResults' \in Seq(QueryResults)
        /\ Len(previousResults') = statementIndex
        /\ \A i \in 1..statementIndex : previousResults'[i] = previousResults[i]
    <3>1. \A i \in 1..statementIndex : previousResults[i] \in QueryResults
      BY <1>1, <2>2, ElementOfSeq
    <3> QED
      BY <1>1, <2>1, <2>2, <3>1, SubSeqProperties
  <2>5. StrategyTypeOK'
    BY <1>1, <2>1, <2>3, <2>4 DEF StrategyTypeOK
  <2>6. StatementShape'
    BY <1>1, <2>1, <2>2, <2>3 DEF StatementShape
  <2>7. ResultsShape'
    BY <1>1, <1>6, <1>7, <2>1, <2>2, <2>4 DEF ResultsShape, Recorded
  <2> QED
    BY <1>1, <1>4, <1>6, <1>7, <2>1, <2>5, <2>6, <2>7
<1>8. CASE GiveUp(res.type) /\ QueryDiscarded /\ UNCHANGED dbVars
  BY <1>1, <1>3, <1>5, <1>8 DEF GiveUp, StrategyTypeOK, strategyVars
<1>9. CASE \E coin \in Coins :
             /\ ~DriverDiscards(res, coin)
             /\ NextOriginal(res.type)
             /\ DiscardStep(LastStatement(res))
             /\ UNCHANGED dbVars
  <2>1. /\ ~isTransforming /\ ~isTransforming' /\ res.type = "Valid" /\ res.err = "none"
        /\ statementIndex' = statementIndex + 1
        /\ UNCHANGED <<statementsToGenerate, generatedStatements, previousResults, isTransforming>>
        /\ UNCHANGED dbVars
        /\ QueryContinues
    BY <1>9 DEF DriverDiscards, NextOriginal, DiscardStep, LastStatement
  <2>2. pc' = "generate"
    BY <2>1 DEF QueryContinues
  <2>3. StrategyTypeOK'
    BY <1>1, <2>1 DEF StrategyTypeOK
  <2>4. StatementShape'
    BY <1>1, <2>1, <2>2 DEF IInv, StatementShape, Active, Sent
  <2>5. ResultsShape'
    <3>1. \A i \in 1..(statementIndex + 1) : Recorded(i)
      BY <1>1, <2>1 DEF IInv, ResultsShape, Active
    <3>2. Len(previousResults) = statementIndex + 1
      BY <1>1, <2>1 DEF IInv, ResultsShape, Active
    <3> QED
      BY <1>1, <2>1, <2>2, <3>1, <3>2 DEF ResultsShape, Recorded, dbVars
  <2>6. ~tainted' => contents' = Prefix(statementIndex')
    BY <1>1, <2>1 DEF IInv, DatabaseShape, dbVars
  <2> QED
    BY <1>1, <1>4, <1>5, <2>1, <2>3, <2>4, <2>5, <2>6
<1>10. CASE \E coin \in Coins :
              /\ DriverDiscards(res, coin)
              /\ StartTransforming(res.type)
              /\ ResetBetweenPhases
              /\ DiscardStep(LastStatement(res))
  <2>1. /\ ~isTransforming /\ isTransforming' /\ res.type = "Valid"
        /\ statementIndex' = 0
        /\ UNCHANGED <<statementsToGenerate, generatedStatements, previousResults>>
        /\ ResetBetweenPhases
        /\ DiscardStep(LastStatement(res))
    BY <1>10 DEF StartTransforming
  <2>2. StrategyTypeOK'
    BY <1>1, <2>1 DEF StrategyTypeOK
  <2>3. CASE QueryDiscarded
    BY <1>3, <1>6, <2>1, <2>2, <2>3
  <2>4. CASE QueryContinues /\ res.err = "none"
    <3>1. /\ Len(generatedStatements) = statementIndex + 1
          /\ statementsToGenerate = statementIndex + 1
          /\ \A i \in 1..Len(generatedStatements) : generatedStatements[i].sem = i
      BY <1>1, <2>1 DEF IInv, StatementShape, Active, Sent
    <3>2. StatementShape'
      BY <1>1, <2>1, <3>1 DEF StatementShape
    <3>3. \A i \in 1..(statementIndex + 1) : Recorded(i)
      BY <1>1, <2>1, <2>4 DEF IInv, ResultsShape, Active
    <3>4. ResultsShape'
      BY <1>6, <2>1, <3>1, <3>3 DEF ResultsShape, Recorded
    <3> QED
      BY <1>1, <1>4, <1>6, <2>1, <2>2, <2>4, <3>2, <3>4
  <2> QED
    BY <2>1, <2>3, <2>4 DEF DiscardStep, LastStatement
<1>11. CASE NextTransformed(res.type) /\ DiscardStep(LastStatement(res)) /\ UNCHANGED dbVars
  <2>1. /\ isTransforming /\ isTransforming' /\ res.type = "Valid"
        /\ statementIndex' = statementIndex + 1
        /\ UNCHANGED <<statementsToGenerate, generatedStatements, previousResults>>
        /\ UNCHANGED dbVars
        /\ DiscardStep(LastStatement(res))
    BY <1>11 DEF NextTransformed
  <2>2. StrategyTypeOK'
    BY <1>1, <2>1 DEF StrategyTypeOK
  <2>3. CASE QueryDiscarded
    BY <1>3, <1>5, <2>1, <2>2, <2>3
  <2>4. CASE QueryContinues /\ res.err = "none" /\ statementIndex' # statementsToGenerate
    <3>1. StatementShape'
      BY <1>1, <2>1, <2>4 DEF IInv, StatementShape, Active
    <3>2. ResultsShape'
      BY <1>1, <2>1, <2>4 DEF IInv, ResultsShape, Recorded, Active, dbVars
    <3>3. ~tainted' => contents' = Prefix(statementIndex')
      BY <1>1, <2>1, <2>4 DEF IInv, DatabaseShape, dbVars
    <3> QED
      BY <1>1, <1>4, <1>5, <2>1, <2>2, <2>4, <3>1, <3>2, <3>3
  <2> QED
    BY <1>1, <2>1, <2>3, <2>4 DEF DiscardStep, LastStatement
<1> QED
  BY <1>7, <1>8, <1>9, <1>10, <1>11 DEF Discard, DiscardQuery

-----------------------------------------------------------------------------
(* Stuttering. *)

LEMMA StutterInvariant ==
  ASSUME IInv, UNCHANGED vars
  PROVE  IInv'
BY DEF IInv, TypeOK, SchedulerTypeOK, StrategyTypeOK, CallShape, StatementShape, QueryShape,
       ResultsShape, LatestShape, DatabaseShape, AlarmShape, Recorded, Arrived,
       CurrentStatement, Baseline, vars, schedulerVars, strategyVars, runVars, resultVars,
       callVars, dbVars

(***************************************************************************)
(* The invariant holds in every state of a fuzzing run.                    *)
(***************************************************************************)
THEOREM Invariance == Spec => []IInv
<1>1. IInv /\ [Next]_vars => IInv'
  BY RunStepInvariant, EnvironmentInvariant, BeginInvariant, GenerateInvariant, JudgeInvariant,
     HandleInvariant, DiscardInvariant, StutterInvariant
  DEF Next, Fuzzer
<1> QED
  BY InitInvariant, <1>1, PTL DEF Spec

(***************************************************************************)
(* Every variable keeps its type.                                          *)
(***************************************************************************)
THEOREM TypeCorrectness == Spec => []TypeOK
<1>1. IInv => TypeOK
  BY DEF IInv
<1> QED
  BY Invariance, <1>1, PTL

(***************************************************************************)
(* GetQueryResultType compares a transformed statement with the result of  *)
(* its own original, in every query of every length.                       *)
(***************************************************************************)
THEOREM ComparisonIsAligned == Spec => []ComparedWithOriginal
<1>1. IInv => ComparedWithOriginal
  <2> SUFFICES ASSUME IInv, pc = "verify", isTransforming
               PROVE  /\ statementIndex < Len(previousResults)
                      /\ Baseline.sem = res.sem
                      /\ Baseline.err = "none"
                      /\ CurrentStatement.form = "transformed"
    BY DEF ComparedWithOriginal
  <2>1. statementIndex \in Nat /\ statementsToGenerate \in Nat /\ Len(previousResults) \in Nat
    BY LenProperties DEF IInv, TypeOK, StrategyTypeOK
  <2>2. Recorded(statementIndex + 1)
    BY <2>1 DEF IInv, StatementShape, ResultsShape, Active
  <2>3. res.sem = statementIndex + 1
    BY DEF IInv, LatestShape, Arrived
  <2>4. CurrentStatement.form = "transformed"
    BY DEF IInv, QueryShape
  <2> QED
    BY <2>1, <2>2, <2>3, <2>4 DEF Recorded, Baseline
<1> QED
  BY Invariance, <1>1, PTL

(***************************************************************************)
(* Without interference, a mismatch is the fault of the database: one of   *)
(* the two compared results is wrong.                                      *)
(***************************************************************************)
THEOREM AlarmsAreJustified == Spec => []NoFalseAlarm
<1>1. IInv => NoFalseAlarm
  <2> SUFFICES ASSUME IInv, pc = "tally", res.type = "Bug", res.err = "none", ~tainted
               PROVE  isTransforming /\ (res.wrong \/ Baseline.wrong)
    BY DEF NoFalseAlarm
  <2>1. isTransforming /\ res.wrong # Baseline.wrong
    BY DEF IInv, AlarmShape
  <2>2. statementIndex \in Nat /\ statementsToGenerate \in Nat
        /\ previousResults \in Seq(QueryResults) /\ res \in QueryResults
    BY DEF IInv, TypeOK, SchedulerTypeOK, StrategyTypeOK
  <2>3. statementIndex + 1 \in 1..Len(previousResults)
    BY <2>1, <2>2, LenProperties DEF IInv, StatementShape, ResultsShape, Recorded, Active
  <2>4. Baseline \in QueryResults
    BY <2>2, <2>3, ElementOfSeq DEF Baseline
  <2>5. res.wrong \in BOOLEAN /\ Baseline.wrong \in BOOLEAN
    BY <2>2, <2>4 DEF QueryResults
  <2> QED
    BY <2>1, <2>5
<1> QED
  BY Invariance, <1>1, PTL

-----------------------------------------------------------------------------
(* A reported query is over. *)

(***************************************************************************)
(* Nothing is reported before the result is handled, and afterwards the    *)
(* verdict is one on which DiscardQuery gives up.                          *)
(***************************************************************************)
ReportInv ==
  /\ pc \in {"generate", "await", "verify", "tally"} => report = << >>
  /\ pc = "discard" /\ report # << >> => res.type \in {"Bug", "Crash"}

LEMMA ReportStep ==
  ASSUME ReportInv, [Next]_vars
  PROVE  ReportInv'
<1> USE DEF ReportInv
<1>1. CASE UNCHANGED vars
  BY <1>1 DEF vars, schedulerVars, runVars, resultVars
<1>2. CASE RunStep
  BY <1>2
  DEF RunStep, ConnectFails, Connected, LimitReached, DatabaseUnusable, ReceiveResult,
      ForcedTimeout, CrashVerdict, TimeoutEndsQuery, NextQuery, resultVars
<1>3. CASE Environment
  <2>1. UNCHANGED <<pc, report, res>>
    BY <1>3
    DEF Environment, StatementSucceeds, StatementFails, StatementCrashes, ConnectionLost,
        TransactionErrorLost, Return, OrphanRuns, DatabaseRestarts, runVars, resultVars
  <2> QED
    BY <2>1
<1>4. CASE Begin
  BY <1>4 DEF Begin, BeginQuery
<1>5. CASE Generate
  <2>1. pc = "generate" /\ report' = report /\ pc' \in {"query", "await"}
    BY <1>5 DEF Generate, GenerationFails, NextQuery, SendStatement, resultVars
  <2> QED
    BY <2>1
<1>6. CASE Judge
  BY <1>6 DEF Judge, Verdict
<1>7. CASE HandleResult
  BY <1>7 DEF HandleResult, Handle
<1>8. CASE Discard
  <2>1. pc = "discard" /\ report' = report /\ pc' \in {"query", "generate"}
    BY <1>8
    DEF Discard, DiscardQuery, DiscardStep, QueryContinues, QueryDiscarded, NextQuery, resultVars
  <2>2. pc' = "generate" => res.type \in {"Valid", "Invalid"}
    BY <1>8, <2>1
    DEF Discard, DiscardQuery, DropInvalidStatement, GiveUp, QueryDiscarded, NextQuery,
        NextOriginal, StartTransforming, NextTransformed
  <2> QED
    BY <2>1, <2>2
<1> QED
  BY <1>1, <1>2, <1>3, <1>4, <1>5, <1>6, <1>7, <1>8 DEF Next, Fuzzer

(***************************************************************************)
(* No statement is generated any more for a query that was reported, with  *)
(* any limit of queries: DiscardQuery gives up on a crash and on a bug.    *)
(***************************************************************************)
THEOREM ReportedQueryIsOver == Spec => []ReportEndsQuery
<1>1. Init => ReportInv
  BY DEF Init, SchedulerInit, ReportInv
<1>2. ReportInv => ReportEndsQuery
  BY DEF ReportInv, ReportEndsQuery
<1> QED
  BY <1>1, <1>2, ReportStep, PTL DEF Spec

-----------------------------------------------------------------------------
(* What is reported. *)

(***************************************************************************)
(* The query begins with its originals and ends with the statements that   *)
(* were transformed so far; a dropped original lies between the two.  n    *)
(* is how many statements of the current phase were sent.                  *)
(***************************************************************************)
Originals(n) == IF isTransforming THEN statementsToGenerate ELSE n

QueryForm(n) ==
  /\ \A i \in 1..Originals(n) : query[i].sem = i /\ query[i].form = "original"
  /\ ~isTransforming => Len(query) = n
  /\ isTransforming =>
       /\ Len(query) >= statementsToGenerate + n
       /\ \A i \in 1..n :
            LET stmt == query[Len(query) - n + i] IN stmt.sem = i /\ stmt.form = "transformed"

(* The two halves of a report. *)
ReportForm ==
  LET half == statementIndex + 1
  IN /\ Len(report) = 2 * half
     /\ \A i \in 1..half :
          /\ report[i].sem = i
          /\ report[i].form = "original"
          /\ report[half + i].sem = i
          /\ isTransforming => report[half + i].form = "transformed"

(* The latest result is that of the current statement. *)
LatestTold ==
  /\ res.sem = statementIndex + 1
  /\ ~tainted => res.seen = Prefix(statementIndex)

ReplayInv ==
  /\ pc = "generate" => QueryForm(statementIndex)
  /\ pc \in Sent /\ (pc = "discard" => report = << >>) => QueryForm(statementIndex + 1)
  /\ pc \in {"recover", "discard"} /\ report # << >> => ReportForm
  /\ pc \in {"discard", "recover"} => res.type # "Timeout"
  /\ pc \in {"tally", "discard", "recover"} /\ res.type # "Timeout" => LatestTold

LEMMA ReplayRunStep ==
  ASSUME IInv, ReplayInv, RunStep, UNCHANGED strategyVars
  PROVE  ReplayInv'
<1> USE DEF ReplayInv, QueryForm, Originals, ReportForm, LatestTold, Active, Sent, runVars,
            resultVars, callVars, dbVars, strategyVars
<1>1. CASE ConnectFails
  BY <1>1 DEF ConnectFails
<1>2. CASE Connected
  BY <1>2 DEF Connected, NextQuery
<1>3. CASE LimitReached
  BY <1>3 DEF LimitReached
<1>4. CASE DatabaseUnusable
  BY <1>4 DEF DatabaseUnusable
<1>5. CASE ReceiveResult
  BY <1>5 DEF ReceiveResult
<1>6. CASE ForcedTimeout
  BY <1>6 DEF ForcedTimeout, NoResult
<1>7. CASE CrashVerdict
  <2>1. res'.sem = res.sem /\ res'.seen = res.seen /\ Arrived(res)
    BY <1>7 DEF CrashVerdict, IInv, TypeOK, SchedulerTypeOK, QueryResults, LatestShape
  <2> QED
    BY <1>7, <2>1 DEF CrashVerdict, Arrived
<1>8. CASE TimeoutEndsQuery
  BY <1>8 DEF TimeoutEndsQuery, NextQuery
<1> QED
  BY <1>1, <1>2, <1>3, <1>4, <1>5, <1>6, <1>7, <1>8 DEF RunStep

LEMMA ReplayEnvironment ==
  ASSUME IInv, ReplayInv, Environment, UNCHANGED strategyVars
  PROVE  ReplayInv'
<1>1. /\ UNCHANGED <<pc, query, report, res>>
      /\ ~tainted' => ~tainted
  BY DEF Environment, StatementSucceeds, StatementFails, StatementCrashes, ConnectionLost,
         TransactionErrorLost, Return, OrphanRuns, DatabaseRestarts, runVars, resultVars,
         dbVars, IInv, TypeOK, SchedulerTypeOK
<1> QED
  BY <1>1 DEF ReplayInv, QueryForm, Originals, ReportForm, LatestTold, Sent, Active, strategyVars

LEMMA ReplayGenerate ==
  ASSUME IInv, ReplayInv, Generate
  PROVE  ReplayInv'
<1>1. /\ pc = "generate" /\ GetRootClause /\ QueryForm(statementIndex)
      /\ statementIndex \in Nat /\ query \in Seq(Statements) /\ statementsToGenerate \in Nat
  BY DEF Generate, ReplayInv, IInv, TypeOK, SchedulerTypeOK, StrategyTypeOK
<1>2. CASE GenerationFails
  BY <1>2 DEF GenerationFails, NextQuery, ReplayInv, Sent, Active
<1>3. CASE SendStatement(RootClause')
  <2>1. /\ pc' = "await" /\ query' = Append(query, RootClause')
        /\ UNCHANGED <<isTransforming, statementIndex>>
        /\ isTransforming => statementsToGenerate' = statementsToGenerate
        /\ RootClause' \in Statements
        /\ RootClause'.sem = statementIndex + 1
        /\ RootClause'.form = IF isTransforming THEN "transformed" ELSE "original"
    BY <1>1, <1>3, RootClauseShape DEF SendStatement
  <2>2. /\ Len(query') = Len(query) + 1 /\ Len(query) \in Nat
        /\ \A i \in 1..Len(query) : query'[i] = query[i]
        /\ query'[Len(query) + 1] = RootClause'
    BY <1>1, <2>1, AppendProperties, LenProperties
  <2>3. CASE isTransforming
    <3>1. /\ Len(query) >= statementsToGenerate + statementIndex
          /\ \A i \in 1..statementsToGenerate : query[i].sem = i /\ query[i].form = "original"
          /\ \A i \in 1..statementIndex :
               /\ query[Len(query) - statementIndex + i].sem = i
               /\ query[Len(query) - statementIndex + i].form = "transformed"
      BY <1>1, <2>3 DEF QueryForm, Originals
    <3>2. Len(query') >= statementsToGenerate + (statementIndex + 1)
      BY <1>1, <2>2, <3>1
    <3>3. \A i \in 1..statementsToGenerate : query'[i].sem = i /\ query'[i].form = "original"
      BY <1>1, <2>2, <3>1
    <3>4. ASSUME NEW i \in 1..(statementIndex + 1)
          PROVE  /\ query'[Len(query') - (statementIndex + 1) + i].sem = i
                 /\ query'[Len(query') - (statementIndex + 1) + i].form = "transformed"
      <4>1. Len(query') - (statementIndex + 1) + i = Len(query) - statementIndex + i
        BY <1>1, <2>2
      <4>2. CASE i = statementIndex + 1
        <5>1. Len(query) - statementIndex + i = Len(query) + 1
          BY <1>1, <2>2, <4>2
        <5> QED
          BY <2>1, <2>2, <2>3, <4>1, <4>2, <5>1
      <4>3. CASE i \in 1..statementIndex
        <5>1. Len(query) - statementIndex + i \in 1..Len(query)
          BY <1>1, <2>2, <3>1, <4>3
        <5> QED
          BY <2>2, <3>1, <4>1, <4>3, <5>1
      <4> QED
        BY <1>1, <4>2, <4>3
    <3>5. QueryForm(statementIndex + 1)'
      BY <2>1, <2>3, <3>2, <3>3, <3>4 DEF QueryForm, Originals
    <3> QED
      BY <2>1, <3>5 DEF ReplayInv
  <2>4. CASE ~isTransforming
    <3>1. /\ Len(query) = statementIndex
          /\ \A i \in 1..statementIndex : query[i].sem = i /\ query[i].form = "original"
      BY <1>1, <2>4 DEF QueryForm, Originals
    <3>2. \A i \in 1..(statementIndex + 1) : query'[i].sem = i /\ query'[i].form = "original"
      BY <1>1, <2>1, <2>2, <2>4, <3>1
    <3>3. QueryForm(statementIndex + 1)'
      BY <2>1, <2>2, <2>4, <3>1, <3>2 DEF QueryForm, Originals
    <3> QED
      BY <2>1, <3>3 DEF ReplayInv
  <2> QED
    BY <2>3, <2>4
<1> QED
  BY <1>2, <1>3 DEF Generate

LEMMA ReplayJudge ==
  ASSUME IInv, ReplayInv, Judge
  PROVE  ReplayInv'
<1>1. /\ pc = "verify" /\ pc' = "tally" /\ UNCHANGED <<query, tainted>>
      /\ res'.sem = res.sem /\ res'.seen = res.seen
      /\ UNCHANGED <<statementsToGenerate, isTransforming, statementIndex>>
  BY DEF Judge, Verdict, KeepResult, IInv, TypeOK, SchedulerTypeOK, QueryResults, dbVars
<1>2. Arrived(res)
  BY <1>1 DEF IInv, LatestShape
<1> QED
  BY <1>1, <1>2 DEF ReplayInv, QueryForm, Originals, LatestTold, Arrived, Sent, Active

(* PrepareQueryForBugreport keeps as many of the originals as of the       *)
(* statements at the end. *)
LEMMA PreparedForm ==
  ASSUME IInv, pc = "tally", QueryForm(statementIndex + 1)
  PROVE  LET half     == statementIndex + 1
             prepared == PrepareQueryForBugreport(query)
         IN /\ Len(prepared) = 2 * half
            /\ \A i \in 1..half :
                 /\ prepared[i].sem = i
                 /\ prepared[i].form = "original"
                 /\ prepared[half + i].sem = i
                 /\ isTransforming => prepared[half + i].form = "transformed"
<1> DEFINE half  == statementIndex + 1
           first == SubSeq(query, 1, half)
           last  == SubSeq(query, Len(query) - statementIndex, Len(query))
<1>1. /\ statementIndex \in Nat /\ query \in Seq(Statements) /\ Len(query) \in Nat
      /\ Len(query) >= half /\ half \in Nat /\ statementsToGenerate \in Nat
      /\ isTransforming => half <= statementsToGenerate
  BY LenProperties
  DEF IInv, TypeOK, SchedulerTypeOK, StrategyTypeOK, QueryShape, StatementShape, Active, Sent
<1>2. /\ first \in Seq(Statements) /\ Len(first) = half
      /\ \A i \in 1..half : first[i] = query[i]
  <2>1. \A i \in 1..half : query[i] \in Statements
    BY <1>1, ElementOfSeq
  <2> QED
    BY <1>1, <2>1, SubSeqProperties
<1>3. /\ last \in Seq(Statements) /\ Len(last) = half
      /\ \A i \in 1..half : last[i] = query[Len(query) - half + i]
  <2>1. \A i \in (Len(query) - statementIndex)..Len(query) : query[i] \in Statements
    BY <1>1, ElementOfSeq
  <2>2. /\ last \in Seq(Statements)
        /\ Len(last) = Len(query) - (Len(query) - statementIndex) + 1
        /\ \A i \in 1 .. Len(query) - (Len(query) - statementIndex) + 1 :
             last[i] = query[Len(query) - statementIndex + i - 1]
    BY <1>1, <2>1, SubSeqProperties
  <2> HIDE DEF last
  <2> QED
    BY <1>1, <2>2
<1> HIDE DEF first, last
<1> DEFINE both == first \o last
<1>4. /\ Len(both) = 2 * half
      /\ \A i \in 1..half : both[i] = first[i]
      /\ \A i \in 1..half : both[half + i] = last[i]
  <2>1. /\ Len(first \o last) = Len(first) + Len(last)
        /\ \A i \in 1 .. Len(first) + Len(last) : (first \o last)[i] =
             IF i <= Len(first) THEN first[i] ELSE last[i - Len(first)]
    BY <1>2, <1>3, ConcatProperties
  <2>2. /\ Len(both) = half + half
        /\ \A i \in 1 .. half + half : both[i] = IF i <= half THEN first[i] ELSE last[i - half]
    BY <1>2, <1>3, <2>1
  <2> HIDE DEF both, half
  <2>3. \A i \in 1..half : both[half + i] = last[i]
    <3> TAKE i \in 1..half
    <3>1. half + i \in 1 .. half + half /\ ~(half + i <= half) /\ (half + i) - half = i
      BY <1>1
    <3> QED
      BY <2>2, <3>1
  <2>4. \A i \in 1..half : both[i] = first[i]
    BY <1>1, <2>2
  <2>5. Len(both) = 2 * half
    BY <1>1, <2>2
  <2> QED
    BY <2>3, <2>4, <2>5
<1>5. PrepareQueryForBugreport(query) = both
  BY DEF PrepareQueryForBugreport, first, last
<1>6. \A i \in 1..half : query[i].sem = i /\ query[i].form = "original"
  BY <1>1 DEF QueryForm, Originals
<1>7. \A i \in 1..half :
        /\ query[Len(query) - half + i].sem = i
        /\ isTransforming => query[Len(query) - half + i].form = "transformed"
  <2>1. CASE isTransforming
    BY <2>1 DEF QueryForm
  <2>2. CASE ~isTransforming
    BY <1>1, <1>6, <2>2 DEF QueryForm
  <2> QED
    BY <2>1, <2>2
<1> HIDE DEF half, both
<1>8. \A i \in 1..half :
        /\ both[i].sem = i
        /\ both[i].form = "original"
        /\ both[half + i].sem = i
        /\ isTransforming => both[half + i].form = "transformed"
  <2> TAKE i \in 1..half
  <2>1. both[i] = query[i] /\ both[half + i] = query[Len(query) - half + i]
    BY <1>2, <1>3, <1>4
  <2> QED
    BY <1>6, <1>7, <2>1
<1> QED
  BY <1>4, <1>5, <1>8 DEF half

LEMMA ReplayHandle ==
  ASSUME IInv, ReportInv, ReplayInv, HandleResult
  PROVE  ReplayInv'
<1>1. /\ pc = "tally" /\ pc' \in {"recover", "discard"} /\ report = << >>
      /\ res.type # "Timeout"
      /\ UNCHANGED <<res, tainted, strategyVars>>
      /\ \/ query' = PrepareQueryForBugreport(query) /\ report' = PrepareQueryForBugreport(query)
         \/ UNCHANGED <<query, report>>
  BY DEF HandleResult, Handle, ReportInv, dbVars
<1>2. QueryForm(statementIndex + 1) /\ LatestTold
  BY <1>1 DEF ReplayInv, Sent, Active
<1>3. CASE UNCHANGED <<query, report>>
  BY <1>1, <1>2, <1>3
  DEF ReplayInv, QueryForm, Originals, LatestTold, Sent, Active, strategyVars
<1>4. CASE query' = PrepareQueryForBugreport(query) /\ report' = PrepareQueryForBugreport(query)
  <2>1. Len(PrepareQueryForBugreport(query)) = 2 * (statementIndex + 1)
    BY <1>1, <1>2, PreparedForm
  <2>2. statementIndex \in Nat
    BY DEF IInv, TypeOK, StrategyTypeOK
  <2>3. report' # << >>
    BY <1>4, <2>1, <2>2, EmptySeq
  <2>4. ReportForm'
    BY <1>1, <1>2, <1>4, PreparedForm DEF ReportForm, strategyVars
  <2> QED
    BY <1>1, <1>2, <2>3, <2>4 DEF ReplayInv, LatestTold, Sent, Active, strategyVars
<1> QED
  BY <1>1, <1>3, <1>4

LEMMA ReplayDiscard ==
  ASSUME IInv, ReportInv, ReplayInv, Discard
  PROVE  ReplayInv'
<1>1. /\ pc = "discard" /\ UNCHANGED <<query, report, res>>
      /\ statementIndex \in Nat /\ statementsToGenerate \in Nat
      /\ ~isTransforming => statementsToGenerate = statementIndex + 1
  BY DEF Discard, DiscardQuery, DiscardStep, QueryContinues, QueryDiscarded, resultVars, IInv, TypeOK,
         StrategyTypeOK, StatementShape, Active, Sent
<1>2. CASE QueryDiscarded
  BY <1>2 DEF QueryDiscarded, NextQuery, ReplayInv, Sent, Active
<1>3. CASE QueryContinues
  <2>1. pc' = "generate" /\ res.type \in {"Valid", "Invalid"}
    BY <1>3
    DEF Discard, DiscardQuery, QueryContinues, DropInvalidStatement, GiveUp, QueryDiscarded,
        NextQuery, NextOriginal, StartTransforming, NextTransformed
  <2>2. QueryForm(statementIndex + 1)
    BY <1>1, <2>1 DEF ReportInv, ReplayInv, Sent, Active
  <2>3. \/ /\ ~isTransforming /\ isTransforming' /\ statementIndex' = 0
           /\ statementsToGenerate' \in {statementIndex, statementsToGenerate}
        \/ /\ statementIndex' = statementIndex + 1
           /\ UNCHANGED <<isTransforming, statementsToGenerate>>
    BY <1>3, <2>1
    DEF Discard, DiscardQuery, QueryContinues, DropInvalidStatement, GiveUp, QueryDiscarded,
        NextQuery, NextOriginal, StartTransforming, NextTransformed
  <2>4. QueryForm(statementIndex)'
    <3>1. CASE /\ ~isTransforming /\ isTransforming' /\ statementIndex' = 0
               /\ statementsToGenerate' \in {statementIndex, statementsToGenerate}
      BY <1>1, <2>2, <3>1 DEF QueryForm, Originals
    <3>2. CASE /\ statementIndex' = statementIndex + 1
               /\ UNCHANGED <<isTransforming, statementsToGenerate>>
      BY <1>1, <2>2, <3>2 DEF QueryForm, Originals
    <3> QED
      BY <2>3, <3>1, <3>2
  <2> QED
    BY <2>1, <2>4 DEF ReplayInv, Sent, Active
<1> QED
  BY <1>2, <1>3 DEF Discard, DiscardQuery, DiscardStep

LEMMA ReplayStep ==
  ASSUME IInv, ReportInv, ReplayInv, [Next]_vars
  PROVE  ReplayInv'
<1>1. CASE UNCHANGED vars
  BY <1>1
  DEF vars, schedulerVars, runVars, resultVars, dbVars, strategyVars, ReplayInv, QueryForm,
      Originals, ReportForm, LatestTold, Sent, Active
<1>2. CASE Begin
  <2>1. pc' = "generate" /\ query' = << >> /\ statementIndex' = 0 /\ ~isTransforming'
    BY <1>2 DEF Begin, BeginQuery, StrategyReset
  <2>2. QueryForm(statementIndex)'
    BY <2>1, EmptySeq DEF QueryForm, Originals
  <2> QED
    BY <2>1, <2>2 DEF ReplayInv, Sent, Active
<1> QED
  BY <1>1, <1>2, ReplayRunStep, ReplayEnvironment, ReplayGenerate, ReplayJudge, ReplayHandle,
     ReplayDiscard
  DEF Next, Fuzzer

LEMMA FormReplays ==
  ASSUME IInv, ReplayInv, ReportInv, report # << >>, pc \in {"recover", "discard"},
         ~tainted
  PROVE  LET half   == Len(report) \div 2
             first  == SubSeq(report, 1, half)
             second == SubSeq(report, half + 1, Len(report))
         IN /\ Len(report) = 2 * half
            /\ Meanings(first) = Meanings(second)
            /\ \A i \in 1..half : first[i].form = "original"
            /\ isTransforming => \A i \in 1..half : second[i].form = "transformed"
            /\ Meanings(second) = Append(res.seen, res.sem)
<1> DEFINE half   == statementIndex + 1
           first  == SubSeq(report, 1, half)
           second == SubSeq(report, half + 1, Len(report))
<1>1. /\ statementIndex \in Nat /\ half \in Nat /\ report \in Seq(Statements)
      /\ ReportForm /\ res.sem = half /\ res.seen = Prefix(statementIndex)
  BY DEF IInv, TypeOK, SchedulerTypeOK, StrategyTypeOK, ReplayInv, LatestTold
<1>2. Len(report) = 2 * half /\ Len(report) \div 2 = half
  BY <1>1 DEF ReportForm
<1>3. /\ first \in Seq(Statements) /\ Len(first) = half
      /\ \A i \in 1..half : first[i] = report[i]
  <2>1. \A i \in 1..half : report[i] \in Statements
    BY <1>1, <1>2, ElementOfSeq
  <2> QED
    BY <1>1, <2>1, SubSeqProperties
<1>4. /\ second \in Seq(Statements) /\ Len(second) = half
      /\ \A i \in 1..half : second[i] = report[half + i]
  <2>1. \A i \in (half + 1)..Len(report) : report[i] \in Statements
    BY <1>1, ElementOfSeq
  <2>2. /\ second \in Seq(Statements)
        /\ Len(second) = Len(report) - (half + 1) + 1
        /\ \A i \in 1 .. Len(report) - (half + 1) + 1 : second[i] = report[half + 1 + i - 1]
    BY <1>1, <1>2, <2>1, SubSeqProperties
  <2> HIDE DEF second
  <2> QED
    BY <1>1, <1>2, <2>2
<1> HIDE DEF first, second
<1>5. \A i \in 1..half :
        /\ first[i].sem = i
        /\ first[i].form = "original"
        /\ second[i].sem = i
        /\ isTransforming => second[i].form = "transformed"
  BY <1>1, <1>3, <1>4 DEF ReportForm
<1>6. DOMAIN first = 1..half /\ DOMAIN second = 1..half
  BY <1>3, <1>4, LenProperties
<1>7. Meanings(first) = Prefix(half) /\ Meanings(second) = Prefix(half)
  BY <1>5, <1>6 DEF Meanings, Prefix
<1>8. Prefix(half) = Append(res.seen, res.sem)
  BY <1>1, AppendPrefix
<1> HIDE DEF half
<1> QED
  BY <1>2, <1>5, <1>7, <1>8 DEF first, second

(***************************************************************************)
(* A bug report can be replayed: it has two halves of the same meaning,    *)
(* the first of originals, and running the second on an empty database     *)
(* leads to the state the failing statement found, in queries of every     *)
(* length and whatever original was dropped.                               *)
(***************************************************************************)
THEOREM ReportsAreReplayable == Spec => []ReportReplaysFailure
<1>1. Init => ReportInv /\ ReplayInv
  BY DEF Init, SchedulerInit, ReportInv, ReplayInv, Sent, Active
<1>2. IInv /\ ReportInv /\ ReplayInv /\ [Next]_vars => ReportInv' /\ ReplayInv'
  BY ReportStep, ReplayStep
<1>3. IInv /\ ReportInv /\ ReplayInv => ReportReplaysFailure
  BY FormReplays DEF ReportReplaysFailure
<1> QED
  BY Invariance, <1>1, <1>2, <1>3, PTL DEF Spec

-----------------------------------------------------------------------------
(***************************************************************************)
(* FuzzEquivalence implements DifferentialOracle: every step of the        *)
(* fuzzing run is a step of the oracle or leaves it alone.                 *)
(***************************************************************************)

(***************************************************************************)
(* What IInv does not say: why the latest result got its type, and that a  *)
(* kept result is the latest one.                                          *)
(***************************************************************************)
OutcomeInv ==
  /\ pc \in {"generate", "await", "verify"} => res.type \in {"None", "Valid", "Invalid"}
  /\ pc \in {"tally", "discard"} =>
       /\ ~isTransforming /\ res.type \in {"Valid", "Invalid"} =>
            previousResults[statementIndex + 1] = [res EXCEPT !.type = "None"]
       /\ isTransforming /\ res.type = "Valid" => IsEqualResult(Baseline, res)

RInv == IInv /\ OutcomeInv

(* The situations in which the oracle is not done. *)
Open == OracleOutcome \in {"recording", "comparing"}

-----------------------------------------------------------------------------
(* OutcomeInv is an invariant. *)

LEMMA OutcomeInit == Init => OutcomeInv
BY DEF Init, SchedulerInit, OutcomeInv

LEMMA OutcomeStep ==
  ASSUME RInv, [Next]_vars
  PROVE  OutcomeInv'
<1> USE DEF RInv, OutcomeInv, Baseline
<1>1. CASE UNCHANGED vars
  BY <1>1 DEF vars, schedulerVars, runVars, resultVars, strategyVars
<1>2. CASE RunStep /\ UNCHANGED strategyVars
  <2> USE DEF strategyVars, resultVars, NextQuery
  <2>1. CASE ConnectFails
    BY <1>2, <2>1 DEF ConnectFails
  <2>2. CASE Connected
    BY <1>2, <2>2 DEF Connected
  <2>3. CASE LimitReached
    BY <1>2, <2>3 DEF LimitReached
  <2>4. CASE DatabaseUnusable
    BY <1>2, <2>4 DEF DatabaseUnusable
  <2>5. CASE ReceiveResult
    <3>1. resChan[1].type = "None" /\ Len(resChan) = 1 /\ resChan \in Seq(QueryResults)
      BY <2>5 DEF ReceiveResult, IInv, TypeOK, SchedulerTypeOK, CallShape, LatestShape, Arrived
    <3>2. res' = resChan[1] /\ pc' = "verify"
      BY <2>5, <3>1 DEF ReceiveResult
    <3> QED
      BY <3>1, <3>2
  <2>6. CASE ForcedTimeout
    <3>1. res'.type = "Timeout" /\ pc' = "tally"
      BY <2>6 DEF ForcedTimeout, NoResult
    <3> QED
      BY <3>1
  <2>7. CASE CrashVerdict
    <3>1. res'.type = "Crash" /\ pc' = "tally"
      BY <2>7 DEF CrashVerdict, IInv, TypeOK, SchedulerTypeOK, QueryResults
    <3> QED
      BY <3>1
  <2>8. CASE TimeoutEndsQuery
    BY <1>2, <2>8 DEF TimeoutEndsQuery
  <2> QED
    BY <1>2, <2>1, <2>2, <2>3, <2>4, <2>5, <2>6, <2>7, <2>8 DEF RunStep
<1>3. CASE Environment /\ UNCHANGED strategyVars
  <2>1. UNCHANGED <<pc, res>>
    BY <1>3
    DEF Environment, StatementSucceeds, StatementFails, StatementCrashes, ConnectionLost,
        TransactionErrorLost, Return, OrphanRuns, DatabaseRestarts, runVars, resultVars
  <2> QED
    BY <1>3, <2>1 DEF strategyVars
<1>4. CASE Begin
  BY <1>4 DEF Begin, BeginQuery, NoResult
<1>5. CASE Generate
  <2>1. res' = res /\ pc = "generate" /\ pc' \in {"query", "await"}
    BY <1>5 DEF Generate, GenerationFails, NextQuery, SendStatement, resultVars
  <2> QED
    BY <2>1
<1>6. CASE Judge
  <2> DEFINE driverType == DriverResultType(DriverResultTypes, res, returnedNil)
  <2>1. /\ pc = "verify" /\ pc' = "tally"
        /\ res' = [res EXCEPT !.type = StrategyVerdict(driverType, res)]
        /\ previousResults' = Append(previousResults, res)
        /\ UNCHANGED <<statementsToGenerate, isTransforming, statementIndex>>
    BY <1>6 DEF Judge, Verdict, KeepResult
  <2>2. /\ res \in QueryResults /\ previousResults \in Seq(QueryResults)
        /\ statementIndex \in Nat /\ statementsToGenerate \in Nat
    BY DEF IInv, TypeOK, SchedulerTypeOK, StrategyTypeOK
  <2>3. /\ \A i \in 1..Len(previousResults) : previousResults'[i] = previousResults[i]
        /\ previousResults'[Len(previousResults) + 1] = res
    BY <2>1, <2>2, AppendProperties
  <2>4. res.type = "None"
    BY <2>1 DEF IInv, LatestShape, Arrived
  <2>5. CASE ~isTransforming
    <3>1. Len(previousResults) = statementIndex
      BY <2>1, <2>5 DEF IInv, ResultsShape, Active
    <3>2. [res' EXCEPT !.type = "None"] = res
      BY <2>1, <2>2, <2>4 DEF QueryResults
    <3> QED
      BY <2>1, <2>3, <2>5, <3>1, <3>2
  <2>6. CASE isTransforming
    <3>1. Recorded(statementIndex + 1)
      BY <2>1, <2>2, <2>6 DEF IInv, StatementShape, ResultsShape, Active
    <3>2. Baseline' = Baseline
      BY <2>1, <2>2, <2>3, <3>1 DEF Recorded
    <3>3. IsEqualResult(Baseline, res') <=> IsEqualResult(Baseline, res)
      BY <2>1, <2>2 DEF IsEqualResult, QueryResults
    <3>4. res'.type = "Valid" => IsEqualResult(Baseline, res)
      BY <2>1, <2>2, <2>6 DEF StrategyVerdict, QueryResults
    <3> QED
      BY <2>1, <2>6, <3>2, <3>3, <3>4
  <2> QED
    BY <2>5, <2>6 DEF IInv, TypeOK, StrategyTypeOK
<1>7. CASE HandleResult
  BY <1>7 DEF HandleResult, Handle, strategyVars
<1>8. CASE Discard
  <2>1. pc = "discard" /\ res' = res /\ pc' \in {"query", "generate"}
    BY <1>8
    DEF Discard, DiscardQuery, DiscardStep, QueryContinues, QueryDiscarded, NextQuery, resultVars
  <2>2. pc' = "generate" => res.type \in {"Valid", "Invalid"}
    BY <1>8, <2>1
    DEF Discard, DiscardQuery, DropInvalidStatement, GiveUp, QueryDiscarded, NextQuery,
        NextOriginal, StartTransforming, NextTransformed
  <2> QED
    BY <2>1, <2>2
<1> QED
  BY <1>1, <1>2, <1>3, <1>4, <1>5, <1>6, <1>7, <1>8 DEF Next, Fuzzer
-----------------------------------------------------------------------------
(* How the steps of the fuzzing run map to steps of the oracle. *)

(* The oracle before and after a step that does not concern it. *)
LEMMA MapsToInput ==
  ASSUME UNCHANGED strategyVars, OracleOutcome' = OracleOutcome
  PROVE  Oracle!OracleNext
<1>1. UNCHANGED <<OracleBaselines, OracleCompared, OracleOutcome>>
  BY DEF OracleBaselines, OracleCompared, strategyVars
<1> QED
  BY <1>1 DEF Oracle!OracleNext, Oracle!NewInput

LEMMA MapsToAbandon ==
  ASSUME Open, pc = "generate" \/ res.type # "Valid" \/ res.err # "none",
         OracleOutcome' = "idle"
  PROVE  Oracle!OracleNext
<1>1. OracleBaselines' = << >> /\ OracleCompared' = 0
  BY DEF OracleBaselines, OracleCompared
<1> QED
  BY <1>1 DEF Open, Oracle!OracleNext, Oracle!AbandonQuery, Oracle!Trustworthy

(* Where the oracle is while the query is open. *)
LEMMA OutcomeOfOpenQuery ==
  ASSUME RInv, pc \in Active,
         ~(isTransforming /\ res.type = "Bug" /\ DriverResultTypes[res.err] = "Valid")
  PROVE  /\ OracleOutcome = IF isTransforming THEN "comparing" ELSE "recording"
         /\ Open
<1>1. ~(isTransforming /\ statementIndex = statementsToGenerate)
  BY DEF RInv, IInv, TypeOK, StrategyTypeOK, StatementShape
<1> QED
  BY <1>1 DEF OracleOutcome, Open, QueryIsOver, Active

(* The oracle's baselines while the query is open. *)
LEMMA BaselinesOfOpenQuery ==
  ASSUME RInv, pc \in Active
  PROVE  LET n == IF isTransforming THEN statementsToGenerate ELSE statementIndex
         IN /\ n \in 0..Len(previousResults)
            /\ SubSeq(previousResults, 1, n) \in Seq(QueryResults)
            /\ Len(SubSeq(previousResults, 1, n)) = n
            /\ \A i \in 1..n : SubSeq(previousResults, 1, n)[i] = previousResults[i]
<1> DEFINE n == IF isTransforming THEN statementsToGenerate ELSE statementIndex
<1>1. previousResults \in Seq(QueryResults) /\ n \in Nat /\ Len(previousResults) \in Nat
  BY LenProperties DEF RInv, IInv, TypeOK, StrategyTypeOK
<1>2. n <= Len(previousResults)
  <2>1. \A i \in 1..n : i <= Len(previousResults)
    BY DEF RInv, IInv, ResultsShape, Recorded
  <2> QED
    BY <1>1, <2>1
<1> HIDE DEF n
<1>3. \A i \in 1..n : previousResults[i] \in QueryResults
  BY <1>1, <1>2, ElementOfSeq
<1>4. /\ SubSeq(previousResults, 1, n) \in Seq(QueryResults)
      /\ Len(SubSeq(previousResults, 1, n)) = IF 1 <= n THEN n - 1 + 1 ELSE 0
      /\ \A i \in 1..(n - 1 + 1) : SubSeq(previousResults, 1, n)[i] = previousResults[1 + i - 1]
  BY <1>1, <1>3, SubSeqProperties
<1>5. /\ n \in 0..Len(previousResults)
      /\ SubSeq(previousResults, 1, n) \in Seq(QueryResults)
      /\ Len(SubSeq(previousResults, 1, n)) = n
      /\ \A i \in 1..n : SubSeq(previousResults, 1, n)[i] = previousResults[i]
  BY <1>1, <1>2, <1>4
<1> QED
  BY <1>5 DEF n

LEMMA RunStepRefines ==
  ASSUME RInv, RunStep, UNCHANGED strategyVars
  PROVE  Oracle!OracleNext
<1> USE DEF strategyVars, NextQuery, OracleOutcome, QueryIsOver
<1>1. CASE ConnectFails \/ Connected \/ LimitReached
  <2>1. OracleOutcome' = OracleOutcome
    BY <1>1 DEF ConnectFails, Connected, LimitReached, resultVars
  <2> QED
    BY <2>1, MapsToInput
<1>2. CASE DatabaseUnusable
  <2>1. CASE pc = "query"
    <3>1. OracleOutcome' = OracleOutcome
      BY <1>2, <2>1 DEF DatabaseUnusable, resultVars
    <3> QED
      BY <3>1, MapsToInput
  <2>2. CASE pc = "generate"
    <3>1. res.type # "Bug"
      BY <2>2 DEF RInv, OutcomeInv
    <3>2. Open
      BY <2>2, <3>1, OutcomeOfOpenQuery DEF Active
    <3>3. OracleOutcome' = "idle"
      BY <1>2, <3>1, <3>2 DEF DatabaseUnusable, resultVars, Open
    <3> QED
      BY <2>2, <3>2, <3>3, MapsToAbandon
  <2> QED
    BY <1>2, <2>1, <2>2 DEF DatabaseUnusable
<1>3. CASE ReceiveResult
  <2>1. /\ pc = "await" /\ pc' = "verify" /\ res' = resChan[1] /\ resChan # << >>
    BY <1>3 DEF ReceiveResult, RInv, IInv, TypeOK, SchedulerTypeOK, CallShape
  <2>2. res.type # "Bug" /\ res'.type = "None"
    BY <2>1 DEF RInv, OutcomeInv, IInv, LatestShape, Arrived
  <2> QED
    BY <2>1, <2>2, MapsToInput
<1>4. CASE ForcedTimeout
  <2>1. pc = "await" /\ pc' = "tally" /\ res'.type = "Timeout"
    BY <1>4 DEF ForcedTimeout, NoResult
  <2>2. res.type # "Bug"
    BY <2>1 DEF RInv, OutcomeInv
  <2> QED
    BY <2>1, <2>2, MapsToInput
<1>5. CASE CrashVerdict
  <2>1. pc = "verify" /\ pc' = "tally" /\ res'.type = "Crash"
    BY <1>5 DEF CrashVerdict, RInv, IInv, TypeOK, SchedulerTypeOK, QueryResults
  <2>2. res.type # "Bug"
    BY <2>1 DEF RInv, OutcomeInv
  <2> QED
    BY <2>1, <2>2, MapsToInput
<1>6. CASE TimeoutEndsQuery
  <2>1. pc = "tally" /\ pc' = "query" /\ res' = res /\ res.type = "Timeout"
    BY <1>6 DEF TimeoutEndsQuery, resultVars
  <2>2. Open
    BY <2>1, OutcomeOfOpenQuery DEF Active
  <2>3. OracleOutcome' = "idle"
    BY <2>1, <2>2 DEF Open
  <2> QED
    BY <2>1, <2>2, <2>3, MapsToAbandon
<1> QED
  BY <1>1, <1>2, <1>3, <1>4, <1>5, <1>6 DEF RunStep

LEMMA EnvironmentRefines ==
  ASSUME Environment, UNCHANGED strategyVars
  PROVE  Oracle!OracleNext
<1>1. UNCHANGED <<pc, res>>
  BY DEF Environment, StatementSucceeds, StatementFails, StatementCrashes, ConnectionLost,
         TransactionErrorLost, Return, OrphanRuns, DatabaseRestarts, runVars, resultVars
<1>2. OracleOutcome' = OracleOutcome
  BY <1>1 DEF OracleOutcome, QueryIsOver, strategyVars
<1> QED
  BY <1>2, MapsToInput

LEMMA BeginRefines ==
  ASSUME Begin
  PROVE  Oracle!OracleNext
<1>1. /\ pc' = "generate" /\ ~isTransforming' /\ statementIndex' = 0
      /\ previousResults' = << >>
  BY DEF Begin, BeginQuery, StrategyReset
<1>2. OracleOutcome' = "recording"
  BY <1>1 DEF OracleOutcome, QueryIsOver
<1>3. OracleBaselines' = << >> /\ OracleCompared' = 0
  BY <1>1, <1>2, SubSeqEmpty DEF OracleBaselines, OracleCompared
<1>4. OracleOutcome \in {"idle", "agreed", "alarm"}
  BY DEF Begin, BeginQuery, OracleOutcome, QueryIsOver
<1> QED
  BY <1>2, <1>3, <1>4 DEF Oracle!OracleNext, Oracle!StartQuery

LEMMA GenerateRefines ==
  ASSUME RInv, Generate
  PROVE  Oracle!OracleNext
<1>1. /\ pc = "generate" /\ res' = res /\ pc' \in {"query", "await"}
      /\ GetRootClause
  BY DEF Generate, GenerationFails, NextQuery, SendStatement, resultVars
<1>2. res.type # "Bug" /\ Open
      /\ OracleOutcome = IF isTransforming THEN "comparing" ELSE "recording"
  BY <1>1, OutcomeOfOpenQuery DEF RInv, OutcomeInv, Active
<1>3. /\ UNCHANGED <<previousResults, isTransforming, statementIndex>>
      /\ isTransforming => statementsToGenerate' = statementsToGenerate
  BY <1>1, RootClauseShape DEF RInv
<1>4. ~(isTransforming /\ statementIndex = statementsToGenerate)
  BY <1>1 DEF RInv, IInv, TypeOK, StrategyTypeOK, StatementShape, Active
<1>5. CASE pc' = "query"
  <2>1. OracleOutcome' = "idle"
    BY <1>1, <1>2, <1>3, <1>4, <1>5 DEF OracleOutcome, QueryIsOver
  <2> QED
    BY <1>1, <1>2, <2>1, MapsToAbandon
<1>6. CASE pc' = "await"
  <2>1. OracleOutcome' = OracleOutcome
    BY <1>1, <1>2, <1>3, <1>4, <1>6 DEF OracleOutcome, QueryIsOver
  <2>2. UNCHANGED <<OracleBaselines, OracleCompared>>
    BY <1>2, <1>3, <2>1 DEF OracleBaselines, OracleCompared
  <2> QED
    BY <2>1, <2>2 DEF Oracle!OracleNext, Oracle!NewInput
<1> QED
  BY <1>1, <1>5, <1>6

LEMMA HandleRefines ==
  ASSUME RInv, HandleResult
  PROVE  Oracle!OracleNext
<1>1. /\ pc = "tally" /\ res' = res /\ UNCHANGED strategyVars
      /\ \/ pc' = "discard"
         \/ pc' = "recover" /\ res.type = "Crash"
  BY DEF HandleResult, Handle, RecoversFromCrash
<1>2. CASE pc' = "discard"
  <2>1. OracleOutcome' = OracleOutcome
    BY <1>1, <1>2 DEF OracleOutcome, QueryIsOver, strategyVars
  <2> QED
    BY <1>1, <2>1, MapsToInput
<1>3. CASE pc' = "recover" /\ res.type = "Crash"
  <2>1. Open /\ OracleOutcome = IF isTransforming THEN "comparing" ELSE "recording"
    BY <1>1, <1>3, OutcomeOfOpenQuery DEF Active
  <2>2. OracleOutcome' = "idle"
    BY <1>1, <1>3, <2>1 DEF OracleOutcome, QueryIsOver, strategyVars
  <2> QED
    BY <1>3, <2>1, <2>2, MapsToAbandon
<1> QED
  BY <1>1, <1>2, <1>3

LEMMA JudgeRefines ==
  ASSUME RInv, RInv', Judge
  PROVE  Oracle!OracleNext
<1> DEFINE driverType == DriverResultType(DriverResultTypes, res, returnedNil)
           n == IF isTransforming THEN statementsToGenerate ELSE statementIndex
<1>1. /\ pc = "verify" /\ pc' = "tally"
      /\ res' = [res EXCEPT !.type = StrategyVerdict(driverType, res)]
      /\ previousResults' = Append(previousResults, res)
      /\ UNCHANGED <<statementsToGenerate, isTransforming, statementIndex>>
  BY DEF Judge, Verdict, KeepResult
<1>2. /\ res \in QueryResults /\ previousResults \in Seq(QueryResults)
      /\ statementIndex \in Nat /\ statementsToGenerate \in Nat /\ n \in Nat
      /\ returnedNil \in BOOLEAN
  BY DEF RInv, IInv, TypeOK, SchedulerTypeOK, StrategyTypeOK
<1>3. res'.type = StrategyVerdict(driverType, res) /\ res'.err = res.err
  BY <1>1, <1>2 DEF QueryResults
<1>4. /\ OracleOutcome = IF isTransforming THEN "comparing" ELSE "recording"
      /\ Open
  BY <1>1, OutcomeOfOpenQuery DEF RInv, OutcomeInv, Active
<1>5. ~(isTransforming /\ statementIndex = statementsToGenerate)
  BY <1>1 DEF RInv, IInv, TypeOK, StrategyTypeOK, StatementShape, Active
<1>6. n \in 0..Len(previousResults)
  BY <1>1, BaselinesOfOpenQuery DEF Active
<1>7. SubSeq(previousResults', 1, n) = SubSeq(previousResults, 1, n)
  <2>1. /\ previousResults' \in Seq(QueryResults)
        /\ \A i \in 1..n : previousResults'[i] = previousResults[i]
        /\ Len(previousResults') = Len(previousResults) + 1
    BY <1>1, <1>2, <1>6, AppendProperties
  <2>2. /\ SubSeq(previousResults, 1, n) \in Seq(QueryResults)
        /\ Len(SubSeq(previousResults, 1, n)) = n
        /\ \A i \in 1..n : SubSeq(previousResults, 1, n)[i] = previousResults[i]
    BY <1>1, BaselinesOfOpenQuery DEF Active
  <2>3. n' = n /\ pc' \in Active
    BY <1>1 DEF Active
  <2>4. /\ SubSeq(previousResults', 1, n) \in Seq(QueryResults)
        /\ Len(SubSeq(previousResults', 1, n)) = n
        /\ \A i \in 1..n : SubSeq(previousResults', 1, n)[i] = previousResults'[i]
    <3> HIDE DEF n
    <3>1. \A i \in 1..n : previousResults'[i] \in QueryResults
      BY <1>2, <1>6, <2>1, ElementOfSeq
    <3>2. /\ SubSeq(previousResults', 1, n) \in Seq(QueryResults)
          /\ Len(SubSeq(previousResults', 1, n)) = IF 1 <= n THEN n - 1 + 1 ELSE 0
          /\ \A i \in 1..(n - 1 + 1) : SubSeq(previousResults', 1, n)[i] = previousResults'[1 + i - 1]
      BY <1>2, <3>1, SubSeqProperties
    <3> QED
      BY <1>2, <3>2
  <2> HIDE DEF n
  <2> QED
    BY <2>1, <2>2, <2>4, SeqEqual
<1>8. OracleOutcome' # "idle"
  BY <1>1 DEF OracleOutcome, QueryIsOver
<1>9. UNCHANGED <<OracleBaselines, OracleCompared>>
  BY <1>1, <1>4, <1>7, <1>8 DEF OracleBaselines, OracleCompared
<1>10. CASE isTransforming /\ res'.type = "Bug" /\ DriverResultTypes[res.err] = "Valid"
  <2>1. OracleOutcome' = "alarm"
    BY <1>1, <1>3, <1>10 DEF OracleOutcome, DriverResultTypes
  <2>2. ~IsEqualResult(Baseline, res)
    BY <1>2, <1>3, <1>10 DEF StrategyVerdict, DriverResultType
  <2>3. statementIndex < statementsToGenerate
    BY <1>1, <1>10 DEF RInv, IInv, StatementShape, Active
  <2>4. /\ OracleBaselines[OracleCompared + 1] = Baseline
        /\ OracleCompared = statementIndex
        /\ Len(OracleBaselines) = statementsToGenerate
    <3>1. /\ Len(SubSeq(previousResults, 1, statementsToGenerate)) = statementsToGenerate
          /\ \A i \in 1..statementsToGenerate :
               SubSeq(previousResults, 1, statementsToGenerate)[i] = previousResults[i]
      BY <1>1, <1>10, BaselinesOfOpenQuery DEF Active
    <3>2. statementIndex + 1 \in 1..statementsToGenerate
      BY <1>2, <2>3
    <3> QED
      BY <1>4, <1>10, <3>1, <3>2 DEF OracleBaselines, OracleCompared, Baseline
  <2>5. OracleCompared < Len(OracleBaselines)
    BY <2>3, <2>4
  <2>6. ~IsEqualResult(OracleBaselines[OracleCompared + 1], res)
    BY <2>2, <2>4
  <2>7. OracleOutcome = "comparing"
    BY <1>4, <1>10
  <2> QED
    BY <1>9, <2>1, <2>5, <2>6, <2>7
    DEF Oracle!OracleNext, Oracle!Differ, Oracle!IsEqualResult, IsEqualResult
<1>11. CASE ~(isTransforming /\ res'.type = "Bug" /\ DriverResultTypes[res.err] = "Valid")
  <2>1. OracleOutcome' = OracleOutcome
    BY <1>1, <1>3, <1>4, <1>5, <1>11 DEF OracleOutcome, QueryIsOver, DriverResultTypes
  <2> QED
    BY <1>9, <2>1 DEF Oracle!OracleNext, Oracle!NewInput
<1> QED
  BY <1>10, <1>11

(* Appending the result of the current original to the baselines. *)
LEMMA OneMoreBaseline ==
  ASSUME RInv, pc = "discard", ~isTransforming, res.type = "Valid", res.err = "none"
  PROVE  /\ SubSeq(previousResults, 1, statementIndex + 1)
              = Append(SubSeq(previousResults, 1, statementIndex), [res EXCEPT !.type = "None"])
         /\ Oracle!Trustworthy(res)
<1>1. /\ previousResults \in Seq(QueryResults) /\ statementIndex \in Nat
      /\ res \in QueryResults
      /\ Len(previousResults) = statementIndex + 1
      /\ Recorded(statementIndex + 1)
      /\ previousResults[statementIndex + 1] = [res EXCEPT !.type = "None"]
  BY DEF RInv, IInv, TypeOK, SchedulerTypeOK, StrategyTypeOK, ResultsShape, OutcomeInv, Active
<1> DEFINE k == statementIndex + 1
<1>2. k \in 1..Len(previousResults) /\ k \in k..Len(previousResults) /\ 1 \in 1..Len(previousResults)
      /\ k \in 1..Len(previousResults) /\ k - 1 = statementIndex
  BY <1>1
<1>3. SubSeq(previousResults, 1, k) = SubSeq(previousResults, 1, k - 1) \o <<previousResults[k]>>
  BY <1>1, <1>2, SubSeqRecursiveSecond
<1>4. SubSeq(previousResults, 1, statementIndex) \in Seq(QueryResults)
  BY BaselinesOfOpenQuery DEF Active
<1>5. [res EXCEPT !.type = "None"] \in QueryResults
  BY <1>1, <1>2, ElementOfSeq
<1>6. Append(SubSeq(previousResults, 1, statementIndex), [res EXCEPT !.type = "None"])
        = SubSeq(previousResults, 1, statementIndex) \o <<[res EXCEPT !.type = "None"]>>
  BY <1>4, <1>5, AppendIsConcat
<1>7. ~res.nils
  BY <1>1 DEF Recorded, QueryResults
<1> QED
  BY <1>1, <1>2, <1>3, <1>6, <1>7 DEF Oracle!Trustworthy

LEMMA DiscardRefines ==
  ASSUME RInv, RInv', Discard
  PROVE  Oracle!OracleNext
<1>1. /\ pc = "discard" /\ res' = res
      /\ QueryDiscarded => pc' = "query"
      /\ QueryContinues => pc' = "generate"
  BY DEF Discard, DiscardQuery, DiscardStep, QueryContinues, QueryDiscarded, NextQuery, resultVars
<1>2. /\ statementIndex \in Nat /\ statementsToGenerate \in Nat
      /\ previousResults \in Seq(QueryResults) /\ res \in QueryResults
  BY DEF RInv, IInv, TypeOK, SchedulerTypeOK, StrategyTypeOK
<1>3. ASSUME ~(isTransforming /\ res.type = "Bug" /\ DriverResultTypes[res.err] = "Valid")
      PROVE  /\ OracleOutcome = IF isTransforming THEN "comparing" ELSE "recording"
             /\ Open
  BY <1>1, <1>3, OutcomeOfOpenQuery DEF Active
<1>4. CASE DropInvalidStatement(res.type) /\ ResetBetweenPhases /\ QueryContinues
  <2>1. /\ ~isTransforming /\ isTransforming' /\ res.type = "Invalid" /\ pc' = "generate"
        /\ statementIndex # 0 /\ statementIndex' = 0 /\ statementsToGenerate' = statementIndex
        /\ previousResults' = SubSeq(previousResults, 1, Len(previousResults) - 1)
    BY <1>1, <1>4 DEF DropInvalidStatement
  <2>2. OracleOutcome = "recording" /\ OracleOutcome' = "comparing"
    BY <1>1, <1>2, <1>3, <2>1 DEF OracleOutcome, QueryIsOver
  <2>3. Len(previousResults) = statementIndex + 1
    BY <1>1, <2>1 DEF RInv, IInv, ResultsShape, Active
  <2>4. previousResults' = SubSeq(previousResults, 1, statementIndex)
    BY <1>2, <2>1, <2>3
  <2>5. /\ SubSeq(previousResults, 1, statementIndex) \in Seq(QueryResults)
        /\ Len(SubSeq(previousResults, 1, statementIndex)) = statementIndex
    BY <1>1, <2>1, BaselinesOfOpenQuery DEF Active
  <2>6. SubSeq(previousResults', 1, statementIndex) = previousResults'
    BY <2>4, <2>5, SubSeqFull
  <2>7. OracleBaselines' = OracleBaselines /\ OracleCompared' = 0 /\ OracleCompared = 0
    BY <2>1, <2>2, <2>4, <2>6 DEF OracleBaselines, OracleCompared
  <2>8. OracleBaselines # << >>
    BY <1>2, <2>1, <2>2, <2>5 DEF OracleBaselines
  <2> QED
    BY <2>2, <2>7, <2>8 DEF Oracle!OracleNext, Oracle!StartComparing
<1>5. CASE GiveUp(res.type) /\ QueryDiscarded /\ UNCHANGED dbVars
  <2>1. res.type # "Valid" /\ pc' = "query" /\ UNCHANGED strategyVars
    BY <1>1, <1>5 DEF GiveUp
  <2>2. CASE isTransforming /\ res.type = "Bug" /\ DriverResultTypes[res.err] = "Valid"
    <3>1. OracleOutcome' = OracleOutcome
      BY <1>1, <2>1, <2>2 DEF OracleOutcome, strategyVars, DriverResultTypes
    <3> QED
      BY <2>1, <3>1, MapsToInput
  <2>3. CASE ~(isTransforming /\ res.type = "Bug" /\ DriverResultTypes[res.err] = "Valid")
    <3>1. Open /\ OracleOutcome \notin {"alarm", "agreed"}
      BY <1>3, <2>3 DEF Open
    <3>2. OracleOutcome' = "idle"
      BY <1>1, <2>1, <2>3, <3>1 DEF OracleOutcome, QueryIsOver, strategyVars, DriverResultTypes
    <3> QED
      BY <2>1, <3>1, <3>2, MapsToAbandon
  <2> QED
    BY <2>2, <2>3
<1>6. CASE \E coin \in Coins :
             /\ ~DriverDiscards(res, coin)
             /\ NextOriginal(res.type)
             /\ DiscardStep(LastStatement(res))
             /\ UNCHANGED dbVars
  <2>1. /\ ~isTransforming /\ isTransforming' = isTransforming /\ res.type = "Valid"
        /\ res.err = "none" /\ statementIndex' = statementIndex + 1
        /\ previousResults' = previousResults
        /\ QueryContinues
    BY <1>6 DEF DriverDiscards, NextOriginal, DiscardStep, LastStatement
  <2>2. OracleOutcome = "recording" /\ OracleOutcome' = "recording"
    BY <1>1, <1>3, <2>1 DEF OracleOutcome, QueryIsOver
  <2>3. /\ OracleBaselines' = Append(OracleBaselines, [res EXCEPT !.type = "None"])
        /\ OracleCompared' = OracleCompared
        /\ Oracle!Trustworthy(res)
    BY <1>1, <2>1, <2>2, OneMoreBaseline DEF OracleBaselines, OracleCompared
  <2> QED
    BY <2>2, <2>3 DEF Oracle!OracleNext, Oracle!Record
<1>7. CASE \E coin \in Coins :
             /\ DriverDiscards(res, coin)
             /\ StartTransforming(res.type)
             /\ ResetBetweenPhases
             /\ DiscardStep(LastStatement(res))
  <2>1. /\ ~isTransforming /\ isTransforming' /\ res.type = "Valid" /\ statementIndex' = 0
        /\ UNCHANGED <<statementsToGenerate, previousResults>>
        /\ DiscardStep(LastStatement(res))
    BY <1>7 DEF StartTransforming
  <2>2. statementsToGenerate = statementIndex + 1
    BY <1>1, <1>2, <2>1 DEF RInv, IInv, StatementShape, Active, Sent
  <2>3. OracleOutcome = "recording" /\ Open
    BY <1>3, <2>1
  <2>4. CASE res.err # "none"
    <3>1. pc' = "query"
      BY <1>1, <2>1, <2>4 DEF DiscardStep, LastStatement
    <3>2. OracleOutcome' = "idle"
      BY <1>1, <1>2, <2>1, <2>2, <3>1 DEF OracleOutcome, QueryIsOver
    <3> QED
      BY <2>3, <2>4, <3>2, MapsToAbandon
  <2>5. CASE res.err = "none"
    <3>1. pc' = "generate"
      BY <1>1, <1>2, <2>1, <2>2, <2>5 DEF DiscardStep, LastStatement
    <3>2. OracleOutcome' = "comparing"
      BY <1>1, <1>2, <2>1, <2>2, <3>1 DEF OracleOutcome, QueryIsOver
    <3>3. /\ OracleBaselines' = Append(OracleBaselines, [res EXCEPT !.type = "None"])
          /\ OracleCompared' = OracleCompared
          /\ Oracle!Trustworthy(res)
      BY <1>1, <2>1, <2>2, <2>3, <2>5, <3>2, OneMoreBaseline DEF OracleBaselines, OracleCompared
    <3> QED
      BY <2>3, <3>2, <3>3 DEF Oracle!OracleNext, Oracle!Record
  <2> QED
    BY <2>4, <2>5
<1>8. CASE NextTransformed(res.type) /\ DiscardStep(LastStatement(res)) /\ UNCHANGED dbVars
  <2>1. /\ isTransforming /\ isTransforming' /\ res.type = "Valid"
        /\ statementIndex' = statementIndex + 1
        /\ UNCHANGED <<statementsToGenerate, previousResults>>
        /\ DiscardStep(LastStatement(res))
    BY <1>8 DEF NextTransformed
  <2>2. statementIndex < statementsToGenerate
    BY <1>1, <2>1 DEF RInv, IInv, StatementShape, Active
  <2>3. OracleOutcome = "comparing"
    BY <1>3, <2>1
  <2>4. /\ Len(SubSeq(previousResults, 1, statementsToGenerate)) = statementsToGenerate
        /\ SubSeq(previousResults, 1, statementsToGenerate)[statementIndex + 1] = Baseline
    <3>1. statementIndex + 1 \in 1..statementsToGenerate
      BY <1>2, <2>2
    <3> QED
      BY <1>1, <2>1, <3>1, BaselinesOfOpenQuery DEF Active, Baseline
  <2>5. IsEqualResult(Baseline, res) /\ res.err = "none"
    <3>1. IsEqualResult(Baseline, res)
      BY <1>1, <2>1 DEF RInv, OutcomeInv
    <3>2. Baseline.err = "none"
      BY <1>1, <1>2, <2>1, <2>2 DEF RInv, IInv, ResultsShape, Recorded, Baseline, Active
    <3> QED
      BY <3>1, <3>2 DEF IsEqualResult
  <2>6. OracleOutcome' = IF statementIndex + 1 = statementsToGenerate THEN "agreed" ELSE "comparing"
    <3>1. CASE statementIndex + 1 = statementsToGenerate
      BY <1>1, <2>1, <3>1 DEF OracleOutcome
    <3>2. CASE statementIndex + 1 # statementsToGenerate
      <4>1. pc' = "generate"
        BY <1>1, <2>1, <2>5, <3>2 DEF DiscardStep, LastStatement
      <4> QED
        BY <1>1, <2>1, <3>2, <4>1 DEF OracleOutcome, QueryIsOver
    <3> QED
      BY <3>1, <3>2
  <2>7. /\ OracleCompared = statementIndex /\ OracleCompared' = statementIndex + 1
        /\ OracleBaselines = SubSeq(previousResults, 1, statementsToGenerate)
        /\ OracleBaselines' = OracleBaselines
    BY <2>1, <2>3, <2>6 DEF OracleBaselines, OracleCompared
  <2>8. OracleCompared < Len(OracleBaselines)
    BY <2>2, <2>4, <2>7
  <2>9. IsEqualResult(OracleBaselines[OracleCompared + 1], res)
    BY <2>4, <2>5, <2>7
  <2>10. OracleCompared' = OracleCompared + 1
    BY <2>7
  <2>11. OracleOutcome' = IF OracleCompared' = Len(OracleBaselines) THEN "agreed" ELSE "comparing"
    BY <2>4, <2>6, <2>7
  <2> QED
    BY <2>3, <2>7, <2>8, <2>9, <2>10, <2>11
    DEF Oracle!OracleNext, Oracle!Agree, Oracle!IsEqualResult, IsEqualResult
<1> QED
  BY <1>4, <1>5, <1>6, <1>7, <1>8 DEF Discard, DiscardQuery

(***************************************************************************)
(* A fuzzing run with this strategy is a run of the oracle.                *)
(***************************************************************************)
THEOREM Refinement == Spec => ImplementsOracle
<1>1. Init => RInv /\ Oracle!OracleInit
  <2> SUFFICES ASSUME Init PROVE RInv /\ Oracle!OracleInit
    OBVIOUS
  <2>1. OracleOutcome = "idle"
    BY DEF Init, SchedulerInit, StrategyInit, OracleOutcome, QueryIsOver
  <2>2. OracleBaselines = << >> /\ OracleCompared = 0
    BY <2>1 DEF OracleBaselines, OracleCompared
  <2> QED
    BY <2>1, <2>2, InitInvariant, OutcomeInit DEF RInv, Oracle!OracleInit
<1>2. RInv /\ [Next]_vars => OutcomeInv'
  BY OutcomeStep
<1>3. RInv /\ RInv' /\ [Next]_vars => [Oracle!OracleNext]_Oracle!oracleVars
  <2> SUFFICES ASSUME RInv, RInv', [Next]_vars
               PROVE  [Oracle!OracleNext]_Oracle!oracleVars
    OBVIOUS
  <2>1. CASE Next
    BY <2>1, RunStepRefines, EnvironmentRefines, BeginRefines, GenerateRefines, JudgeRefines,
       HandleRefines, DiscardRefines
    DEF Next, Fuzzer
  <2>2. CASE UNCHANGED vars
    <3>1. UNCHANGED strategyVars /\ OracleOutcome' = OracleOutcome /\ res' = res /\ pc' = pc
      BY <2>2
      DEF vars, schedulerVars, strategyVars, runVars, resultVars, OracleOutcome, QueryIsOver,
          DriverResultTypes
    <3> QED
      BY <3>1, MapsToInput
  <2> QED
    BY <2>1, <2>2
<1>4. Spec => []IInv
  BY Invariance
<1> QED
  BY <1>1, <1>2, <1>3, <1>4, PTL DEF Spec, RInv, ImplementsOracle, Oracle!OracleSpec
=============================================================================
