---------------------------- MODULE MCContainer ----------------------------
(* A model-checking instance of Container.                                 *)
EXTENDS ContainerPhased

\* One that verifies the DC's certificate itself, one without a tunnel, and one that
\* cannot be used.  Containers whose EAP files are refused are MCConsole's.
SomeConfigs == {
  [pin |-> "peer",     eap |-> TRUE, host |-> TRUE],
  [pin |-> "plain",    eap |-> TRUE, host |-> FALSE],
  [pin |-> "unusable", eap |-> TRUE, host |-> TRUE]}
=============================================================================
