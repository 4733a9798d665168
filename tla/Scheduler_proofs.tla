-------------------------- MODULE Scheduler_proofs --------------------------
(***************************************************************************)
(* What the proofs about every strategy need of Scheduler: types of its    *)
(* constants, and what a query leaves in the database, statement by        *)
(* statement.                                                              *)
(***************************************************************************)
EXTENDS Scheduler, SequenceTheorems, FiniteSetTheorems, TLAPS

(* At most one of the goroutine and its result is there, while Run waits. *)
CallShape ==
  /\ running => pc = "await" /\ resChan = << >>
  /\ resChan # << >> => pc = "await" /\ Len(resChan) = 1

LEMMA ForeignIsSeq == <<Foreign>> \in Seq(Nat)
BY DEF Foreign

LEMMA NoResultIsResult == NoResult \in QueryResults
BY EmptySeq DEF NoResult, QueryResults, QueryResultTypes, ErrorKinds

-----------------------------------------------------------------------------
(* Traces. *)

LEMMA WritersAreFinite ==
  ASSUME NEW statements \in Seq(Statements), NEW n \in Nat
  PROVE  /\ IsFiniteSet(Writers(statements, n))
         /\ Cardinality(Writers(statements, n)) \in Nat
<1>1. IsFiniteSet(1..n)
  BY FS_Interval
<1>2. Writers(statements, n) \subseteq 1..n
  BY DEF Writers
<1>3. IsFiniteSet(Writers(statements, n))
  BY <1>1, <1>2, FS_Subset
<1> QED
  BY <1>3, FS_CardinalityType

(* The last statement writes or does not. *)
LEMMA TraceGrows ==
  ASSUME NEW statements \in Seq(Statements), NEW n \in Nat, n + 1 \in 1..Len(statements),
         NEW trace \in Seq(Nat), IsTrace(trace, statements, n)
  PROVE  LET s == statements[n + 1]
         IN IsTrace(IF s.writes THEN Append(trace, s.sem) ELSE trace, statements, n + 1)
<1> DEFINE s == statements[n + 1]
           W(i) == Writers(statements, i)
<1>1. s \in Statements
  BY ElementOfSeq
<1>2. CASE ~s.writes
  <2>1. W(n + 1) = W(n)
    BY <1>2 DEF Writers
  <2> QED
    BY <1>2, <2>1 DEF IsTrace
<1>3. CASE s.writes
  <2>1. W(n + 1) = W(n) \cup {n + 1} /\ n + 1 \notin W(n)
    BY <1>3 DEF Writers
  <2>2. Cardinality(W(n + 1)) = Cardinality(W(n)) + 1
    BY <2>1, FS_AddElement, WritersAreFinite
  <2>3. \A i \in W(n) : Cardinality(W(i)) \in 1..Cardinality(W(n))
    <3> SUFFICES ASSUME NEW i \in W(n) PROVE Cardinality(W(i)) \in 1..Cardinality(W(n))
      OBVIOUS
    <3>1. i \in Nat /\ i \in 1..n /\ i \in W(i) /\ W(i) \subseteq W(n)
      BY DEF Writers
    <3>2. Cardinality(W(i)) <= Cardinality(W(n))
      BY <3>1, FS_Subset, WritersAreFinite
    <3>3. Cardinality(W(i)) # 0
      BY <3>1, FS_EmptySet, WritersAreFinite
    <3> QED
      BY <3>1, <3>2, <3>3, WritersAreFinite
  <2>4. s.sem \in Nat
    BY <1>1 DEF Statements
  <2> DEFINE grown == Append(trace, s.sem)
  <2>5. /\ Len(grown) = Len(trace) + 1
        /\ \A k \in 1..Len(trace) : grown[k] = trace[k]
        /\ grown[Len(trace) + 1] = s.sem
    BY <2>4, AppendProperties
  <2> HIDE DEF grown
  <2>6. Len(trace) = Cardinality(W(n))
    BY DEF IsTrace
  <2>7. \A i \in W(n + 1) : grown[Cardinality(W(i))] = statements[i].sem
    <3> TAKE i \in W(n + 1)
    <3>1. CASE i = n + 1
      BY <2>2, <2>5, <2>6, <3>1
    <3>2. CASE i \in W(n)
      BY <2>3, <2>5, <2>6, <3>2 DEF IsTrace
    <3> QED
      BY <2>1, <3>1, <3>2
  <2>8. IsTrace(grown, statements, n + 1)
    BY <2>2, <2>5, <2>6, <2>7 DEF IsTrace
  <2> QED
    BY <1>3, <2>8 DEF grown
<1> QED
  BY <1>2, <1>3

(* Only the first n statements matter. *)
LEMMA TraceOfPrefix ==
  ASSUME NEW p \in Seq(Statements), NEW q \in Seq(Statements), NEW n \in Nat,
         n <= Len(p), \A i \in 1..n : q[i] = p[i],
         NEW trace, IsTrace(trace, p, n)
  PROVE  IsTrace(trace, q, n)
<1>1. \A i \in 0..n : Writers(q, i) = Writers(p, i)
  BY DEF Writers
<1>2. Writers(p, n) \subseteq 1..n
  BY DEF Writers
<1> QED
  BY <1>1, <1>2 DEF IsTrace

LEMMA EmptyTrace ==
  ASSUME NEW q \in Seq(Statements)
  PROVE  IsTrace(<< >>, q, 0)
<1>1. Writers(q, 0) = {}
  BY DEF Writers
<1> QED
  BY <1>1, FS_EmptySet DEF IsTrace

(* A statement joins the query. *)
LEMMA TraceBeforeLast ==
  ASSUME NEW q \in Seq(Statements), NEW stmt \in Statements,
         NEW trace, IsTrace(trace, q, Len(q))
  PROVE  LET longer == Append(q, stmt) IN IsTrace(trace, longer, Len(longer) - 1)
<1> DEFINE longer == Append(q, stmt)
<1>1. /\ longer \in Seq(Statements) /\ Len(longer) = Len(q) + 1 /\ Len(q) \in Nat
      /\ \A i \in 1..Len(q) : longer[i] = q[i]
  BY AppendProperties, LenProperties
<1> HIDE DEF longer
<1>2. Len(longer) - 1 = Len(q)
  BY <1>1
<1>3. IsTrace(trace, longer, Len(q))
  BY <1>1, TraceOfPrefix
<1> QED
  BY <1>2, <1>3 DEF longer

(* The last statement of the query was run. *)
LEMMA TraceAfterLast ==
  ASSUME query \in Seq(Statements), query # << >>, contents \in Seq(Nat),
         IsTrace(contents, query, Len(query) - 1)
  PROVE  IsTrace(AfterWrite, query, Len(query))
<1>1. Len(query) - 1 \in Nat /\ (Len(query) - 1) + 1 = Len(query) /\ Len(query) \in 1..Len(query)
  BY LenProperties, EmptySeq
<1> QED
  BY <1>1, TraceGrows DEF AfterWrite, CurrentStatement

-----------------------------------------------------------------------------
(***************************************************************************)
(* For the strategies that report a query as it is: the database holds the *)
(* trace of the query, a result tells of the statement before it, and what *)
(* is reported is the query.                                               *)
(***************************************************************************)
InQuery == {"await", "verify", "tally", "discard", "recover"}

ShowsFailure(r) ==
  /\ r.sem = CurrentStatement.sem
  /\ IsTrace(r.seen, query, Len(query) - 1)

Returned(r) ==
  /\ ShowsFailure(r)
  /\ r.err = "none" => IsTrace(contents, query, Len(query))

TraceShape ==
  ~tainted =>
    /\ pc = "generate" => IsTrace(contents, query, Len(query))
    /\ running => IsTrace(contents, query, Len(query) - 1)
    /\ resChan # << >> => Returned(resChan[1])
    /\ pc = "verify" => Returned(res)
    /\ pc \in {"tally", "discard"} /\ res.type # "Timeout" => Returned(res)
    /\ pc = "recover" => ShowsFailure(res)

ReportIsQuery ==
  /\ pc \in {"generate", "await", "verify", "tally"} => report = << >>
  /\ pc \in {"discard", "recover"} =>
       /\ res.type # "Timeout"
       /\ report # << >> => report = query

TraceInv ==
  /\ CallShape
  /\ pc \in InQuery => query # << >>
  /\ TraceShape
  /\ ReportIsQuery

LEMMA TraceRunStep ==
  ASSUME SchedulerTypeOK, TraceInv, RunStep
  PROVE  TraceInv'
<1> USE DEF TraceInv, CallShape, InQuery, ShowsFailure, Returned, TraceShape, ReportIsQuery,
            CurrentStatement, runVars, resultVars, callVars, dbVars
<1>1. CASE ConnectFails
  BY <1>1 DEF ConnectFails
<1>2. CASE Connected
  BY <1>2 DEF Connected, NextQuery
<1>3. CASE LimitReached
  BY <1>3 DEF LimitReached
<1>4. CASE DatabaseUnusable
  BY <1>4 DEF DatabaseUnusable
<1>5. CASE ReceiveResult
  BY <1>5 DEF ReceiveResult, SchedulerTypeOK
<1>6. CASE ForcedTimeout
  BY <1>6 DEF ForcedTimeout, NoResult
<1>7. CASE CrashVerdict
  <2>1. res'.sem = res.sem /\ res'.seen = res.seen /\ res'.err = res.err
    BY <1>7 DEF CrashVerdict, SchedulerTypeOK, QueryResults
  <2> QED
    BY <1>7, <2>1 DEF CrashVerdict
<1>8. CASE TimeoutEndsQuery
  BY <1>8 DEF TimeoutEndsQuery, NextQuery
<1> QED
  BY <1>1, <1>2, <1>3, <1>4, <1>5, <1>6, <1>7, <1>8 DEF RunStep

(* The goroutine leaves a result behind. *)
LEMMA TraceReturn ==
  ASSUME SchedulerTypeOK, TraceInv, running, NEW err, NEW wrong, NEW nils, NEW got,
         Return(err, wrong, nils, got), tainted' \in {tainted, TRUE},
         contents' \in {contents, AfterWrite},
         err = "none" /\ ~tainted' => contents' = AfterWrite
  PROVE  TraceInv'
<1> DEFINE r == [ type |-> "None", err |-> err, seen |-> contents,
                  sem |-> CurrentStatement.sem, wrong |-> wrong, nils |-> nils, got |-> got ]
<1>1. /\ resChan' = <<r>> /\ running' = FALSE
      /\ UNCHANGED <<runVars, resultVars>>
      /\ pc = "await" /\ query # << >> /\ query \in Seq(Statements) /\ contents \in Seq(Nat)
  BY DEF Return, TraceInv, CallShape, InQuery, SchedulerTypeOK
<1>2. /\ resChan'[1].sem = CurrentStatement.sem /\ resChan'[1].seen = contents
      /\ resChan'[1].err = err /\ Len(resChan') = 1
  BY <1>1
<1>3. ASSUME ~tainted'
      PROVE  Returned(resChan[1])'
  <2>1. IsTrace(contents, query, Len(query) - 1)
    BY <1>3 DEF TraceInv, TraceShape, SchedulerTypeOK
  <2>2. IsTrace(AfterWrite, query, Len(query))
    BY <1>1, <2>1, TraceAfterLast
  <2>3. query' = query /\ CurrentStatement' = CurrentStatement
    BY <1>1 DEF resultVars, CurrentStatement
  <2>4. ShowsFailure(resChan[1])'
    BY <1>2, <2>1, <2>3 DEF ShowsFailure
  <2>5. resChan'[1].err = "none" => IsTrace(contents', query', Len(query'))
    BY <1>2, <1>3, <2>2, <2>3
  <2> QED
    BY <2>4, <2>5 DEF Returned
<1>4. pc' = pc /\ query' = query /\ report' = report
  BY <1>1 DEF runVars, resultVars
<1> QED
  BY <1>1, <1>2, <1>3, <1>4 DEF TraceInv, CallShape, TraceShape, ReportIsQuery, InQuery

LEMMA TraceEnvironment ==
  ASSUME SchedulerTypeOK, TraceInv, Environment
  PROVE  TraceInv'
<1>1. CASE StatementSucceeds
  BY <1>1, TraceReturn DEF StatementSucceeds
<1>2. CASE StatementFails
  <2>1. PICK err \in Errors \ {"none"}, nils \in Nils :
               Return(err, FALSE, nils, "nothing")
    BY <1>2 DEF StatementFails
  <2> QED
    BY <1>2, <2>1, TraceReturn DEF StatementFails
<1>3. CASE StatementCrashes
  BY <1>3, TraceReturn DEF StatementCrashes
<1>4. CASE ConnectionLost
  BY <1>4, TraceReturn DEF ConnectionLost
<1>5. CASE OrphanRuns \/ DatabaseRestarts
  <2>1. /\ UNCHANGED <<runVars, resultVars, running, resChan>>
        /\ ~tainted' => ~tainted /\ contents' = contents
    BY <1>5 DEF OrphanRuns, DatabaseRestarts, SchedulerTypeOK, callVars, dbVars
  <2> QED
    BY <2>1
    DEF TraceInv, CallShape, InQuery, ShowsFailure, Returned, TraceShape, ReportIsQuery,
        CurrentStatement, runVars, resultVars
<1>6. CASE TransactionErrorLost
  BY <1>6, TraceReturn DEF TransactionErrorLost
<1> QED
  BY <1>1, <1>2, <1>3, <1>4, <1>5, <1>6 DEF Environment

(* The steps a strategy takes part in, as long as it reports the query and *)
(* ends one that was reported. *)
LEMMA TraceQueryStep ==
  ASSUME SchedulerTypeOK, TraceInv,
         \/ BeginQuery
         \/ GenerationFails
         \/ \E stmt \in Statements : SendStatement(stmt)
         \/ \E type \in QueryResultTypes : Verdict(type)
         \/ Handle(query)
         \/ QueryDiscarded /\ UNCHANGED dbVars
         \/ QueryContinues /\ UNCHANGED dbVars /\ res.err = "none" /\ report = << >>
  PROVE  TraceInv'
<1>0. query \in Seq(Statements) /\ res \in QueryResults
  BY DEF SchedulerTypeOK
<1> USE DEF TraceInv, CallShape, InQuery, ShowsFailure, Returned, TraceShape, ReportIsQuery,
            runVars, resultVars, callVars, dbVars
<1>1. CASE BeginQuery
  <2>1. IsTrace(<< >>, query', 0) /\ query' = << >> /\ Len(query') = 0
    BY <1>1, EmptyTrace, EmptySeq DEF BeginQuery
  <2> QED
    BY <1>1, <2>1 DEF BeginQuery
<1>2. CASE GenerationFails
  BY <1>2 DEF GenerationFails, NextQuery
<1>3. CASE \E stmt \in Statements : SendStatement(stmt)
  <2>1. PICK stmt \in Statements : SendStatement(stmt)
    BY <1>3
  <2>2. /\ pc = "generate" /\ pc' = "await" /\ query' = Append(query, stmt) /\ running' = TRUE
        /\ resChan' = << >> /\ UNCHANGED <<report, tainted, contents>>
    BY <2>1 DEF SendStatement
  <2>3. query' # << >>
    BY <1>0, <2>2, AppendProperties
  <2>4. ~tainted => IsTrace(contents, query', Len(query') - 1)
    BY <1>0, <2>2, TraceBeforeLast
  <2> QED
    BY <2>2, <2>3, <2>4
<1>4. CASE \E type \in QueryResultTypes : Verdict(type)
  <2>1. PICK type \in QueryResultTypes : Verdict(type)
    BY <1>4
  <2>2. res'.sem = res.sem /\ res'.seen = res.seen /\ res'.err = res.err
    BY <1>0, <2>1 DEF Verdict, QueryResults
  <2> QED
    BY <2>1, <2>2 DEF Verdict, CurrentStatement
<1>5. CASE Handle(query)
  BY <1>5 DEF Handle, CurrentStatement
<1>6. CASE QueryDiscarded /\ UNCHANGED dbVars
  BY <1>6 DEF QueryDiscarded, NextQuery
<1>7. CASE QueryContinues /\ UNCHANGED dbVars /\ res.err = "none" /\ report = << >>
  BY <1>7 DEF QueryContinues
<1> QED
  BY <1>1, <1>2, <1>3, <1>4, <1>5, <1>6, <1>7
=============================================================================
