--------------------------- MODULE MCControlPlane ---------------------------
(* Model-checking instances of ControlPlane: the values of its constants.  *)
EXTENDS ControlPlaneGated, TLC

CONSTANTS n1, n2, w1, w2, good, bad, gone, c1, c2, c3

OneName   == {n1}
TwoNames  == {n1, n2}
\* `bad' starts but never turns healthy, `gone' cannot be created.
ThreeImages == {good, bad, gone}
TwoImages   == {good, bad}
\* Everything but start, stop and restart.
AllRequests == RequestKinds \ {"lifecycle"}
CfgSymmetry  == Permutations({c1, c2})
PairSymmetry == Permutations(TwoNames) \cup Permutations({w1, w2})
\* Every failure but that of the health watch.
AllFaults == {"git", "engine", "leave", "stop"}

(***************************************************************************)
(* What the repository says and the code does not do: one run refutes each *)
(* of these.                                                               *)
(***************************************************************************)

\* "Lift every instance onto the maintained default image" (api.py:142-146):
\* an update-all that reports no failure leaves no container, of an instance that is on
\* its list, on another image.
UpdateAllLiftsEveryInstance ==
  [][\A w \in Workers :
       req[w].op = "updateAll" /\ req[w].pc = "next" /\ req'[w].reply = "ok" =>
         \A n \in Names :
           Readable(n) /\ container[n] # None => container[n].image = DefaultImage]_vars

\* A missing secret or certificate "raises here, before the running container
\* is touched" (docker_service.py:294-303): a container that runs while no request is
\* at it has not loaded another configuration than the one that it was created for.
RunningContainerKeepsItsConfig ==
  \A n \in Names :
    /\ container[n] # None /\ container[n].phase \in Running
    /\ \A w \in Workers : ~Touches(w, n)
    => container[n].loaded \in {container[n].cfg, Torn}
=============================================================================
