--------------------------- MODULE ContainerPhases ---------------------------
(***************************************************************************)
(* What a container of an instance promises to the control plane, which    *)
(* sees of it only the verdict of its health check, and to the DC, which   *)
(* sees only its machine account.  ControlPlane has these steps for its    *)
(* containers; Container has every step of the entrypoint, and implements  *)
(* this one (ContainerPhased).                                             *)
(***************************************************************************)
VARIABLES
  verdict,  \* "stopped", or the verdict of the health check
  member,   \* does the DC have the account that the container has the secret of?
  trusted   \* has winbindd a secure channel to the DC?

vars == <<verdict, member, trusted>>

Init == verdict = "stopped" /\ member = FALSE /\ trusted = FALSE

\* Started, restarted, or ended by itself and about to be restarted: whatever it
\* had before, it begins without a channel.
Begin == verdict' = "starting" /\ trusted' = FALSE /\ UNCHANGED member

Stop == verdict' = "stopped" /\ trusted' = FALSE /\ UNCHANGED member

\* A container that has not been found healthy since it began joins.
Join ==
  /\ verdict \in {"starting", "unhealthy"}
  /\ member' = TRUE
  /\ UNCHANGED <<verdict, trusted>>

\* Only a member gets a channel, and without one nothing is found healthy.
Connect ==
  /\ verdict # "stopped" /\ member
  /\ trusted' = TRUE
  /\ UNCHANGED <<verdict, member>>

TurnHealthy ==
  /\ verdict \in {"starting", "unhealthy"} /\ trusted
  /\ verdict' = "healthy"
  /\ UNCHANGED <<member, trusted>>

TurnUnhealthy ==
  /\ verdict \in {"starting", "healthy"}
  /\ verdict' = "unhealthy"
  /\ UNCHANGED <<member, trusted>>

\* The channel breaks, or the account is deleted under it; the channel may
\* outlive the account.
Lose ==
  /\ trusted' \in {trusted, FALSE}
  /\ member' \in {member, FALSE}
  /\ UNCHANGED verdict

\* A machine secret that is dropped is dropped from a stopped container.
Leave ==
  /\ verdict = "stopped"
  /\ member' = FALSE
  /\ UNCHANGED <<verdict, trusted>>

Next ==
  \/ Begin \/ Stop \/ Join \/ Connect
  \/ TurnHealthy \/ TurnUnhealthy \/ Lose \/ Leave

Spec == Init /\ [][Next]_vars
=============================================================================
