------------------------- MODULE StatementGeneration -------------------------
(***************************************************************************)
(* How statements are generated, and generated again: the recursion of     *)
(* generateStatement with its limit (translator/translator.go), the clause *)
(* capturers it works on (translator/helperclauses/clausecapturer.go), and *)
(* the bytes it draws (module Seed).                                       *)
(*                                                                         *)
(* The statement is generated while fuzzing, under the limit on AST nodes, *)
(* from a random or given seed; its bug report holds the bytes; reducing   *)
(* the report generates it again from them, without a limit; then copies   *)
(* of the capturers are changed at one clause and generated, accepted or   *)
(* not, and copied in turn (scheduler/reduce.go).                          *)
(*                                                                         *)
(* The clauses are those that write labels (clauses/label.go), whose only  *)
(* schema is the list of labels that are known: a small grammar in which   *)
(* clauses choose by bytes, declare names, and refer to those declared     *)
(* before.  The last one imports names as CALL subqueries do               *)
(* (clauses/call_subquery.go).  A byte here stands for all the bytes of    *)
(* one choice; the types of labels, and drop-ins, are left out.            *)
(***************************************************************************)
EXTENDS Seed, FiniteSets, SequencesExt

CONSTANTS
  MaxASTNodes,    \* the limit while fuzzing
  MaxProposals,   \* steps of the reduction
  MaxImports,     \* the names that an import may choose from
  GivenStrings    \* the byte strings the fuzzer may be given
ASSUME StatementGenerationAssumption ==
  /\ MaxASTNodes \in Nat \ {0, 1} /\ MaxProposals \in Nat /\ MaxImports \in Nat
  /\ GivenStrings \subseteq Seq(Bytes)

(* Stands for math.MaxInt64: the limit where there is none. *)
Unlimited == 1000000

VARIABLES
  capturers,  \* the clause capturers in memory
  root,       \* the capturer of the statement that is generated
  schema,     \* the labels that are known, in order
  shares,     \* the capturer whose captured schema shares its labels, or 0
  calls,      \* the calls of generateStatement, the innermost last
  text,       \* what was written
  entered,    \* how many calls there were
  outcome,    \* of GenerateStatement
  phase,      \* what the statement is generated for
  accepted,   \* the capturer that the reduction keeps
  reported,   \* the bytes and the text of the bug report
  proposals   \* the steps of the reduction so far

generationVars == <<capturers, schema, shares, calls, text, entered, outcome>>
reductionVars == <<root, phase, accepted, reported, proposals>>
vars == <<generationVars, reductionVars, seedVars>>

-----------------------------------------------------------------------------
(* Clause capturers.  kept holds the text that one gave when it was last   *)
(* generated, and nothing when it is new or changed.                       *)

Capturer(clause) ==
  [clause |-> clause, name |-> << >>, generated |-> FALSE, regenerated |-> FALSE,
   capturedSchema |-> << >>, capturedModifiedSchema |-> << >>, subclauses |-> << >>,
   kept |-> {}]

(* A capturer and all below it, whose indices are greater. *)
Descendants(heap, i) ==
  LET below[j \in DOMAIN heap] ==
        {j} \cup UNION {below[heap[j].subclauses[k]] : k \in DOMAIN heap[j].subclauses}
  IN below[i]

(* Wrong on purpose: the subclauses of a copy are those of the original. *)
CopyMutant(i) == Append(capturers, capturers[i])

(* Copies of a capturer and of all below it; that of itself comes first. *)
Copy(i) ==
  LET originals == Descendants(capturers, i)
      rank(j) == Cardinality({k \in originals : k <= j})
      copied(j) == [capturers[j] EXCEPT
                      !.subclauses = [k \in DOMAIN @ |-> Len(capturers) + rank(@[k])]]
  IN capturers \o [n \in 1 .. Cardinality(originals) |->
                     copied(CHOOSE j \in originals : rank(j) = n)]

(* UpdateClause with a clause, and with a capturer. *)
Updated(heap, i, clause) ==
  [heap EXCEPT ![i] = [@ EXCEPT !.clause = clause, !.name = << >>, !.generated = FALSE,
                                !.regenerated = TRUE, !.subclauses = << >>, !.kept = {}]]
Lifted(heap, i, j) == [heap EXCEPT ![i] = [heap[j] EXCEPT !.kept = {}]]

-----------------------------------------------------------------------------
(* Clauses.  What one generates depends on the labels it knows and a byte. *)

Draws(clause, known) ==
  \/ clause \in {"Labels", "LabelName", "NewLabel"}
  \/ clause = "ExistingLabel" /\ known # << >>

Subclauses(clause, known, b) ==
  CASE clause = "Labels" -> << "LabelName", IF b % 2 = 0 THEN "CallSubqueryClause" ELSE "Labels" >>
    [] clause = "LabelName" -> << IF b = 0 THEN "NewLabel" ELSE "ExistingLabel" >>
    [] (clause = "ExistingLabel" /\ known = << >>) -> << "NewLabel" >>
    [] OTHER -> << >>

WrittenName(clause, known, b) ==
  CASE clause = "NewLabel" -> << b >>
    [] (clause = "ExistingLabel" /\ known # << >>) -> << known[(b % Len(known)) + 1] >>
    [] OTHER -> << >>

(* The names a clause asks about one by one. *)
Imports(clause, known) ==
  IF clause = "CallSubqueryClause" /\ Cardinality(Range(known)) <= MaxImports
  THEN Range(known) ELSE {}

-----------------------------------------------------------------------------
(* The recursion of generateStatement.  A call whose clause is not yet     *)
(* generated has next = 0.  start and drawn say how much was written, and  *)
(* how many bytes were drawn, when it was, clean that nothing below it was *)
(* new or changed so far, and imports are the names still to ask about.    *)

Call(i, max) ==
  [capturer |-> i, max |-> max, nodes |-> 1, next |-> 0, start |-> 0, drawn |-> 0,
   clean |-> TRUE, imports |-> {}]

Top == calls[Len(calls)]
Outer == SubSeq(calls, 1, Len(calls) - 1)
Caller == Outer[Len(Outer)]
Clause == capturers[Top.capturer]
Drawn == index + Len(overflow)

Entering == calls # << >> /\ Top.next = 0 /\ Top.max # 1
Generated(imports) ==
  [k \in DOMAIN calls |->
     [IF k < Len(calls) THEN calls[k]
      ELSE [Top EXCEPT !.next = 1, !.start = Len(text), !.drawn = Drawn, !.imports = imports]
      EXCEPT !.clean = @ /\ Clause.kept # {}]]

(* GenerateStatement, under a limit. *)
Start(i, max) ==
  /\ calls' = << Call(i, max) >>
  /\ text' = << >> /\ entered' = 1 /\ outcome' = "generating"
  /\ schema' = << >> /\ shares' = 0

(* A call returns: the statement is done, or the caller counts the nodes.  *)
Return(nodes) ==
  IF Outer = << >>
  THEN /\ calls' = << >>
       /\ outcome' = IF nodes >= Top.max THEN "failed" ELSE "generated"
  ELSE /\ calls' = [Outer EXCEPT ![Len(Outer)] =
                      [Caller EXCEPT !.nodes = Caller.nodes + nodes, !.next = Caller.next + 1]]
       /\ UNCHANGED outcome

LimitReached ==
  /\ calls # << >> /\ Top.next = 0 /\ Top.max = 1
  /\ Return(1)
  /\ UNCHANGED <<capturers, schema, shares, text, entered, reductionVars, seedVars>>

(* A caller of a call that met the limit returns, too: no ModifySchema. *)
GiveUp ==
  /\ calls # << >> /\ Top.next > 0 /\ Top.nodes >= Top.max
  /\ Return(Top.nodes)
  /\ UNCHANGED <<capturers, schema, shares, text, entered, reductionVars, seedVars>>

(* Generate of a capturer that has its subclauses. *)
GenerateAgain ==
  /\ Entering /\ Clause.generated
  /\ calls' = Generated({})
  /\ UNCHANGED <<capturers, schema, shares, text, entered, outcome, reductionVars, seedVars>>

(* Generate of one that has to generate its clause: an updated one takes   *)
(* its captured schema for the current one, and shares it from then on.    *)
GenerateClause ==
  /\ Entering /\ ~Clause.generated
  /\ LET known == IF Clause.regenerated THEN Clause.capturedSchema ELSE schema
         owner == IF Clause.regenerated THEN Top.capturer ELSE shares
     IN \E b \in Bytes :
          LET below == Subclauses(Clause.clause, known, b)
              named == WrittenName(Clause.clause, known, b)
              after == IF Clause.clause = "NewLabel" THEN known \o named ELSE known
              captured ==
                [capturers EXCEPT ![Top.capturer] =
                   [@ EXCEPT !.capturedSchema = known, !.name = named,
                             !.subclauses = [k \in DOMAIN below |-> Len(capturers) + k]]]
          IN /\ IF Draws(Clause.clause, known) THEN GetByte(b)
                ELSE b = (CHOOSE any \in Bytes : TRUE) /\ UNCHANGED seedVars
             /\ calls' = Generated(Imports(Clause.clause, known))
             /\ schema' = after /\ shares' = owner
             /\ capturers' =
                  (IF owner = 0 THEN captured
                   ELSE [captured EXCEPT ![owner].capturedSchema = after])
                  \o [k \in DOMAIN below |-> Capturer(below[k])]
  /\ UNCHANGED <<text, entered, outcome, reductionVars>>

(* Generate goes through the map of names, in any order. *)
Import ==
  /\ calls # << >> /\ Top.imports # {}
  /\ \E name \in Top.imports, b \in Bytes :
       /\ GetByte(b)
       /\ calls' = [calls EXCEPT ![Len(calls)].imports = @ \ {name}]
       /\ capturers' = IF b = 0
                       THEN [capturers EXCEPT ![Top.capturer].name = Append(@, name)]
                       ELSE capturers
  /\ UNCHANGED <<schema, shares, text, entered, outcome, reductionVars>>

(* Wrong on purpose: the limit is that of the caller. *)
RemainingMutant == Top.max
Remaining == Top.max - Top.nodes

Subcall ==
  /\ calls # << >> /\ Top.next \in DOMAIN Clause.subclauses /\ Top.nodes < Top.max
  /\ calls' = Append(calls, Call(Clause.subclauses[Top.next], Remaining))
  /\ entered' = entered + 1
  /\ UNCHANGED <<capturers, schema, shares, text, outcome, reductionVars, seedVars>>

(* ModifySchema captures the schema, or puts the captured one back, and    *)
(* the text is written.                                                    *)
AtEnd ==
  /\ calls # << >> /\ Top.imports = {}
  /\ Top.next > Len(Clause.subclauses) /\ Top.nodes < Top.max
Said == SubSeq(text, Top.start + 1, Len(text)) \o Clause.name

Finish ==
  /\ AtEnd
  /\ text' = text \o Clause.name
  /\ IF Clause.generated
     THEN schema' = Clause.capturedModifiedSchema /\ shares' = 0
     ELSE UNCHANGED <<schema, shares>>
  /\ capturers' = [capturers EXCEPT ![Top.capturer] =
       [@ EXCEPT !.capturedModifiedSchema = schema', !.generated = TRUE, !.kept = {Said}]]
  /\ Return(Top.nodes)
  /\ UNCHANGED <<entered, reductionVars, seedVars>>

-----------------------------------------------------------------------------
(* What statements are generated for. *)

Init ==
  /\ \E bytes \in GivenStrings : SeedInit(bytes)
  /\ capturers = << Capturer("Labels") >> /\ root = 1
  /\ calls = << Call(1, MaxASTNodes) >> /\ text = << >> /\ entered = 1
  /\ schema = << >> /\ shares = 0 /\ outcome = "generating"
  /\ phase = "fuzz" /\ accepted = 0 /\ proposals = 0
  /\ reported = [bytes |-> << >>, text |-> << >>]

(* Run reports a bug, and Reduce generates the statement from the report. *)
Report ==
  /\ phase = "fuzz" /\ outcome = "generated"
  /\ reported' = [bytes |-> GetByteString, text |-> text]
  /\ NewSeed(GetByteString)
  /\ capturers' = << Capturer("Labels") >> /\ root' = 1
  /\ Start(1, Unlimited)
  /\ phase' = "regenerate"
  /\ UNCHANGED <<accepted, proposals>>

(* What the reduction goes on with: the last proposal may be rejected. *)
Bases ==
  IF phase = "propose" THEN {root, accepted} ELSE IF phase = "regenerate" THEN {root} ELSE {}

(* A copy of it is changed at a clause, or at none, and generated, with a  *)
(* new seed of the same bytes.                                             *)
Propose ==
  /\ outcome = "generated" /\ proposals < MaxProposals
  /\ \E base \in Bases : \E heap \in {Copy(base)} :
       LET top == Len(capturers) + 1
       IN /\ accepted' = base /\ root' = top
          /\ Start(top, Unlimited)
          /\ \/ capturers' = heap
             \/ \E i \in Descendants(heap, top) :
                  \/ \E clause \in {"EmptyClause", "NewLabel"} :
                       capturers' = Updated(heap, i, clause)
                  \/ \E k \in DOMAIN heap[i].subclauses :
                       capturers' = Lifted(heap, i, heap[i].subclauses[k])
  /\ NewSeed(reported.bytes)
  /\ phase' = "propose" /\ proposals' = proposals + 1
  /\ UNCHANGED reported

(* What is left is generated once more for the report. *)
ReportReduced ==
  /\ outcome = "generated"
  /\ \E base \in Bases :
       /\ accepted' = base /\ root' = base
       /\ Start(base, Unlimited)
  /\ phase' = "report"
  /\ UNCHANGED <<capturers, reported, proposals, seedVars>>

Next ==
  \/ LimitReached \/ GiveUp \/ GenerateAgain \/ GenerateClause \/ Import \/ Subcall \/ Finish
  \/ Report \/ Propose \/ ReportReduced

Spec == Init /\ [][Next]_vars

-----------------------------------------------------------------------------
(***************************************************************************)
(* A clause capturer under which no clause was changed gives the text it   *)
(* gave before and draws no byte (clausecapturer.go:24), whatever was done *)
(* to its copies and to those it was copied from.                          *)
(***************************************************************************)
CapturedIsKept ==
  AtEnd /\ Top.clean => Said \in Clause.kept /\ Drawn = Top.drawn

(***************************************************************************)
(* Exactly the statements of fewer than MaxASTNodes clauses are generated: *)
(* the recursion, which hands what is left of the limit on from call to    *)
(* call, fails as soon as that many calls were made and never makes more.  *)
(***************************************************************************)
LimitIsExact ==
  phase = "fuzz" =>
    /\ entered <= MaxASTNodes
    /\ outcome = "generated" => entered < MaxASTNodes
    /\ outcome = "failed" => entered = MaxASTNodes

(***************************************************************************)
(* The bytes of a report generate the reported statement, and no other is  *)
(* drawn, whether the fuzzer drew random bytes, given ones, or both.       *)
(***************************************************************************)
ReportRegenerates ==
  phase = "regenerate" =>
    /\ IsPrefix(text, reported.text)
    /\ overflow = << >>
    /\ outcome = "generated" => text = reported.text
    /\ outcome # "failed"
=============================================================================
