-------------------------------- MODULE Dbms --------------------------------
(***************************************************************************)
(* The vocabulary of dbms/dbms.go: the types a query result can have, what *)
(* a driver makes of the error its database produced, and when two results *)
(* are equal.                                                              *)
(*                                                                         *)
(* A result is a record.  "seen" and "sem" stand for the rows: a database  *)
(* without logic bugs returns rows that depend only on what it held when   *)
(* the statement ran ("seen") and on what the statement means ("sem").     *)
(* "wrong" marks rows a logic bug of the database falsified, "nils" rows   *)
(* the client library lost (it handed out nil records for them).  "got" is *)
(* what the driver got of a result that has no error: all of it, the rows  *)
(* without the schema, or nothing.                                         *)
(***************************************************************************)
EXTENDS Naturals, Sequences

QueryResultTypes ==
  {"None", "Valid", "Invalid", "Bug", "Crash", "ReportedBug", "Timeout"}

(***************************************************************************)
(* The errors a driver tells apart.  "none" is a nil ProducedError,        *)
(* "connection" a lost connection (neo4j's ConnectivityError, redis' EOF), *)
(* "network" a net.OpError, "ignored" and "reported" the messages the      *)
(* configured regular expressions match.                                   *)
(***************************************************************************)
ErrorKinds ==
  {"none", "connection", "network", "timeout", "ignored", "reported", "other"}

Neo4jResultType ==
  [ none |-> "Valid", connection |-> "Timeout", network |-> "Bug",
    timeout |-> "Timeout", ignored |-> "Invalid", reported |-> "ReportedBug",
    other |-> "Bug" ]

FalkorDBResultType ==
  [ none |-> "Valid", connection |-> "Valid", network |-> "ReportedBug",
    timeout |-> "Timeout", ignored |-> "Invalid", reported |-> "ReportedBug",
    other |-> "Bug" ]

(* Wrong on purpose: only the statement that lost rows is Invalid. *)
NilForgottenMutant(resultTypes, res, returnedNil) ==
  IF res.nils THEN "Invalid" ELSE resultTypes[res.err]

(* A driver that saw a nil record since its last Reset judges every        *)
(* statement Invalid, whatever that statement returned.                    *)
DriverResultType(resultTypes, res, returnedNil) ==
  IF returnedNil THEN "Invalid" ELSE resultTypes[res.err]

(* Wrong on purpose: an error does not end the query. *)
ErrorIgnoredMutant(res, coin) == coin

(* The driver's verdict on going on with the query: an error ends it, and  *)
(* otherwise the seed decides.                                             *)
DriverDiscards(res, coin) == res.err # "none" \/ coin

(* The zero value of dbms.QueryResult. *)
NoResult ==
  [ type |-> "None", err |-> "none", seen |-> << >>, sem |-> 0, wrong |-> FALSE,
    nils |-> FALSE, got |-> "nothing" ]

QueryResults ==
  [ type: QueryResultTypes, err: ErrorKinds, seen: Seq(Nat), sem: Nat,
    wrong: BOOLEAN, nils: BOOLEAN, got: {"all", "rows", "nothing"} ]

IsEqualResult(a, b) ==
  /\ a.got = b.got
  /\ \/ a.got = "nothing"
     \/ <<a.seen, a.sem, a.wrong, a.nils>> = <<b.seen, b.sem, b.wrong, b.nils>>
  /\ a.err = b.err
=============================================================================
