-------------------------- MODULE MCFuzzPartitioning --------------------------
(* Instances of FuzzPartitioning small enough for TLC. *)
EXTENDS FuzzPartitioning, TLC

SomeErrors == {"none", "ignored", "connection", "other", "timeout"}
=============================================================================
