---------------------------- MODULE MCKnownGood ----------------------------
(* ControlPlane with a history variable: which images were ever healthy.   *)
EXTENDS MCControlPlane

\* History: the images on which a container of the instance was ever healthy.
VARIABLE proven

ProvenInit == Init /\ proven = [n \in Names |-> {}]

ProvenNext ==
  /\ Next
  /\ proven' = [n \in Names |->
                  IF record[n] = None THEN {}
                  ELSE IF Healthy(n) THEN proven[n] \cup {container[n].image}
                  ELSE proven[n]]

ProvenSpec == ProvenInit /\ [][ProvenNext]_<<vars, proven>>

\* "Auto-rollback to the last known-good" (docs/architecture.md:114-115), whose image
\* every update notes first (updater.py:5-6): where that is an image that was healthy
\* once, an update does not put one in its place that never was.
KnownGoodIsKept ==
  \A w \in Workers :
    LET n == req[w].name IN
    req[w].pc = "prev" /\ prev[n] \in proven[n] => req[w].old.image \in proven[n]
=============================================================================
