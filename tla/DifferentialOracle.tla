------------------------- MODULE DifferentialOracle -------------------------
(***************************************************************************)
(* What a strategy that looks for logic bugs promises, whatever statements *)
(* it generates: within one query it first records trustworthy results,    *)
(* then compares each of them, once and in order, with a result that has   *)
(* to be the same.  The first difference is an alarm and ends the query;   *)
(* a query counts as passed only when everything recorded was compared.    *)
(* It is given up before that when there is no next statement or when the  *)
(* latest result is no good.                                               *)
(***************************************************************************)
EXTENDS Dbms

CONSTANT
  MayStopEarly \* whether a query may also be given up for no reason

VARIABLES
  result,    \* the latest result of the database (an input)
  due,       \* whether the next statement has yet to be generated (an input)
  baselines, \* the recorded results
  compared,  \* how many of them were compared
  outcome    \* where the query stands

oracleVars == <<result, due, baselines, compared, outcome>>

(* Nothing the driver knows of went missing on the way from the database. *)
Trustworthy(r) == r.err = "none" /\ ~r.nils

OracleInit ==
  /\ baselines = << >>
  /\ compared = 0
  /\ outcome = "idle"

StartQuery ==
  /\ outcome \in {"idle", "agreed", "alarm"}
  /\ outcome' = "recording"
  /\ baselines' = << >>
  /\ compared' = 0

Record ==
  /\ outcome = "recording"
  /\ Trustworthy(result)
  /\ baselines' = Append(baselines, [result EXCEPT !.type = "None"])
  /\ outcome' \in {"recording", "comparing"}
  /\ UNCHANGED compared

StartComparing ==
  /\ outcome = "recording"
  /\ baselines # << >>
  /\ outcome' = "comparing"
  /\ UNCHANGED <<baselines, compared>>

Agree ==
  /\ outcome = "comparing"
  /\ compared < Len(baselines)
  /\ IsEqualResult(baselines[compared + 1], result)
  /\ compared' = compared + 1
  /\ outcome' = IF compared' = Len(baselines) THEN "agreed" ELSE "comparing"
  /\ UNCHANGED baselines

Differ ==
  /\ outcome = "comparing"
  /\ compared < Len(baselines)
  /\ ~IsEqualResult(baselines[compared + 1], result)
  /\ outcome' = "alarm"
  /\ UNCHANGED <<baselines, compared>>

AbandonQuery ==
  /\ outcome \in {"recording", "comparing"}
  /\ MayStopEarly \/ due \/ result.type # "Valid" \/ ~Trustworthy(result)
  /\ outcome' = "idle"
  /\ baselines' = << >>
  /\ compared' = 0

(* The inputs change at any time. *)
NewInput == UNCHANGED <<baselines, compared, outcome>>

OracleNext ==
  \/ StartQuery \/ Record \/ StartComparing \/ Agree \/ Differ \/ AbandonQuery
  \/ NewInput

OracleSpec == OracleInit /\ [][OracleNext]_oracleVars
=============================================================================
