--------------------------- MODULE ContainerPhased ---------------------------
(***************************************************************************)
(* The container implements what ContainerPhases promises of it.           *)
(***************************************************************************)
EXTENDS Container

\* A container that the restart policy is about to bring back counts as starting.
VerdictOf ==
  IF phase \in {"none", "off", "unregister", "leave"} THEN "stopped"
  ELSE IF phase = "restarting" THEN "starting"
  ELSE health.verdict

Phases == INSTANCE ContainerPhases WITH
  verdict <- VerdictOf,
  member  <- secret # None /\ secret = dc.account,
  trusted <- channel

\* Whatever the entrypoint, the probes and the DC do, a container is found
\* healthy only over a channel made since it began, with an account that the DC
\* had then, and it joins only before it is found healthy: what the control plane
\* takes for granted of its containers (entrypoint.sh:366-515, healthcheck.sh).
KeepsItsPhases == Phases!Spec
=============================================================================
