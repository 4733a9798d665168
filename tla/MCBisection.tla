---------------------------- MODULE MCBisection ----------------------------
EXTENDS Bisection, TLC

(* A report of one target and two of another. *)
SomeTargets == {"neo4j", "falkordb"}
SomeReports == 1 .. 3
TargetOf == 1 :> "neo4j" @@ 2 :> "falkordb" @@ 3 :> "falkordb"
StrategyOf == 1 :> "equivalence" @@ 2 :> "none" @@ 3 :> "none"
LastCommits == "neo4j" :> 3 @@ "falkordb" :> 2

(* A single one. *)
OneTarget == {"neo4j"}
OneReport == {1}
OneTargetOf == 1 :> "neo4j"
OneStrategyOf == 1 :> "equivalence"
OneLastCommit == "neo4j" :> 3
=============================================================================
