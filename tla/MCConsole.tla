----------------------------- MODULE MCConsole -----------------------------
(* A model-checking instance of Console.                                   *)
EXTENDS Console

\* A configuration that the container accepts, one that radiusd refuses, and one
\* that ends the entrypoint at its first step.
SomeConfigs == {
  [pin |-> "chain",    eap |-> TRUE,  host |-> FALSE],
  [pin |-> "chain",    eap |-> FALSE, host |-> FALSE],
  [pin |-> "unusable", eap |-> TRUE,  host |-> FALSE]}
=============================================================================
