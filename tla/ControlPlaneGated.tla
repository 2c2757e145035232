-------------------------- MODULE ControlPlaneGated --------------------------
(***************************************************************************)
(* ControlPlane as an implementation of GatedUpdate.  While a worker       *)
(* updates an instance, the instance still is what the worker found; it    *)
(* becomes what the record says with the worker's answer, or when a crash  *)
(* takes the worker away.                                                  *)
(***************************************************************************)
EXTENDS ControlPlane

UpdateOps == {"update", "updateAll"}

Updates(w, n) == req[w].name = n /\ req[w].op \in UpdateOps

SettledRecord(n) ==
  IF \E w \in Workers : Updates(w, n)
    THEN req[CHOOSE w \in Workers : Updates(w, n)].old
    ELSE record[n]

\* The container is what a record asks for, and has loaded what it asks for.
ServedRecord(n) ==
  IF container[n] # None /\ container[n].loaded = container[n].cfg
    THEN [image |-> container[n].image, cfg |-> container[n].cfg]
    ELSE None

Remains(n) ==
  container[n] # None \/ volume[n] = TRUE \/ rendered[n] # None \/ prev[n] # None

KindOf(w) ==
  CASE req[w].name = None -> "none"
    [] req[w].name # None /\ req[w].op = "create" -> "create"
    [] req[w].name # None /\ req[w].op \in {"patch", "ldapCa", "rollback"} -> "change"
    [] req[w].name # None /\ req[w].op = "reconcile" -> "refresh"
    [] req[w].name # None /\ req[w].op = "delete" -> "remove"
    [] req[w].name # None /\ req[w].op \in UpdateOps ->
         IF req[w].restoring THEN "giveUp" ELSE "update"

\* During a rollback what the record says is the target until the old one is back.
WantOf(w) ==
  CASE req[w].name = None \/ req[w].op = "delete" -> None
    [] req[w].name # None /\ req[w].op # "delete" /\ req[w].restoring -> record[req[w].name]
    [] req[w].name # None /\ req[w].op # "delete" /\ ~req[w].restoring -> req[w].want

Asked(w) ==
  [kind |-> KindOf(w), name |-> req[w].name, want |-> WantOf(w),
   batch |-> req[w].op \in {"reconcile", "updateAll"},
   answer |-> IF req[w].name = None THEN req[w].reply ELSE "none"]

Gated == INSTANCE GatedUpdate WITH
  Clients <- Workers,
  Unreadable <- {r \in Records : r.image = Torn},
  settled <- [n \in Names |-> SettledRecord(n)],
  serving <- [n \in Names |-> ServedRecord(n)],
  healthy <- [n \in Names |-> Healthy(n)],
  remains <- [n \in Names |-> Remains(n)],
  asked   <- [w \in Workers |-> Asked(w)]

\* Through all failed calls, rollbacks, batches and crashes an operator sees
\* updates that happen or do not, and say which: the instance is on the new,
\* healthy image, or is what it was; an interrupted update leaves one of the two
\* (updater.py:49-113, reconciler.py:20-45).
GatedUpdates == Gated!Spec
=============================================================================
