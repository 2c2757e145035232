----------------------------- MODULE GatedUpdate -----------------------------
(***************************************************************************)
(* What the management API of linuxmuster-radius promises an operator who  *)
(* sends one request per instance at a time, without the files, containers *)
(* and retries that it is made of.                                         *)
(*                                                                         *)
(* An update is one step: the instance turns to the new image, which is    *)
(* healthy by then, or it stays what it was and the answer says so.  Only  *)
(* a create brings an instance into being, only a removal ends it, and     *)
(* nothing of it is left when it ends.  A crash in the middle of an update *)
(* leaves one of the two records, never a third, or one that nobody can    *)
(* read; so does a crash in the middle of a create or a change.            *)
(***************************************************************************)
CONSTANTS
  Names,     \* instance names
  Clients,   \* who can have a request under way
  Unreadable,  \* what a file can say that is no record
  None       \* "absent"

VARIABLES
  settled,  \* what each instance is, as far as anybody was told
  serving,  \* the record its container was made from and has loaded
  healthy,  \* is that container healthy?
  remains,  \* is anything of it on the host?
  asked     \* what each client is waiting for, and the answer it got last

host == <<serving, healthy, remains>>
vars == <<settled, host, asked>>

Nothing == [kind |-> "none", name |-> None, want |-> None, batch |-> FALSE,
            answer |-> "none"]

Init ==
  /\ settled = [n \in Names |-> None]
  /\ serving = [n \in Names |-> None]
  /\ healthy = [n \in Names |-> FALSE]
  /\ remains = [n \in Names |-> FALSE]
  /\ asked   = [c \in Clients |-> Nothing]

-----------------------------------------------------------------------------
Kind(c) == asked[c].kind
Name(c) == asked[c].name
Want(c) == asked[c].want

Others(c) == \A d \in Clients \ {c} : asked'[d] = asked[d]

\* A client asks for something, alone or as the next one of a batch.
Ask(c) ==
  LET a == asked'[c] IN
  /\ Kind(c) = "none" /\ Others(c)
  /\ a.name \in Names /\ \A d \in Clients : Name(d) # a.name
  /\ a.kind \in {"create", "change", "refresh", "update", "remove"}
  /\ a.answer = "none" /\ a.batch \in {asked[c].batch, FALSE}
  /\ a.kind # "create" => settled[a.name] # None
  /\ a.kind = "refresh" => a.want = settled[a.name]
  /\ a.kind = "update" => a.want.cfg = settled[a.name].cfg
  /\ UNCHANGED <<settled, host>>

\* A walk over all instances begins, and ends with an answer.
Walk(c) ==
  /\ Kind(c) = "none" /\ Others(c)
  /\ asked'[c].kind = "none" /\ asked'[c].name = None
  /\ asked'[c].batch # asked[c].batch
  /\ UNCHANGED <<settled, host>>

\* A batch may go on after an answer, unless there is a failure.
Answer(c, a) ==
  /\ Others(c)
  /\ asked'[c] \in {[Nothing EXCEPT !.batch = b, !.answer = a] :
                      b \in {asked[c].batch} \cup (IF a = "error" THEN {FALSE} ELSE {})}

\* Whatever happens on the host happens to an instance that exists.
Drift(n) ==
  /\ settled[n] # None
  /\ ~remains'[n] => serving'[n] = None /\ ~healthy'[n]
  /\ \A m \in Names \ {n} :
       serving'[m] = serving[m] /\ healthy'[m] = healthy[m] /\ remains'[m] = remains[m]

\* A create or a change is recorded; it can fail later, or with this.
Record(c) ==
  /\ Kind(c) \in {"create", "change"}
  /\ Kind(c) = "change" => settled[Name(c)] # None
  /\ settled' = [settled EXCEPT ![Name(c)] = Want(c)]
  /\ UNCHANGED asked \/ Answer(c, "error")
  /\ UNCHANGED host

\* Before that there is nothing to read for a moment.
Empty(c) ==
  /\ Kind(c) \in {"create", "change"}
  /\ Kind(c) = "change" => settled[Name(c)] # None
  /\ \E r \in Unreadable : settled' = [settled EXCEPT ![Name(c)] = r]
  /\ UNCHANGED <<host, asked>>

\* What was asked for is there.
Done(c) ==
  /\ Kind(c) \in {"create", "change", "refresh"}
  /\ settled[Name(c)] = Want(c)
  /\ serving[Name(c)] = Want(c)
  /\ Answer(c, "ok")
  /\ UNCHANGED <<settled, host>>

\* The instance turns to the new image, which serves it and is healthy.
Update(c) ==
  /\ Kind(c) = "update"
  /\ serving[Name(c)] = Want(c) /\ healthy[Name(c)]
  /\ settled' = [settled EXCEPT ![Name(c)] = Want(c)]
  /\ Answer(c, "updated")
  /\ UNCHANGED host

\* The update has failed; what it was to put in place is then taken back.
GiveUp(c) ==
  /\ Kind(c) \in {"update", "giveUp"}
  /\ Others(c)
  /\ asked'[c] \in {[asked[c] EXCEPT !.kind = "giveUp", !.want = r] :
                      r \in {Want(c), settled[Name(c)]} \cup Unreadable}
  /\ Drift(Name(c))
  /\ UNCHANGED settled

\* The instance is served again as it was before the update.
RolledBack(c) ==
  /\ Kind(c) = "giveUp"
  /\ Want(c) = settled[Name(c)]
  /\ serving[Name(c)] = settled[Name(c)]
  /\ Answer(c, "rolledBack")
  /\ UNCHANGED <<settled, host>>

\* An update fails by being given up; then the record is put back in any case.
Fail(c) ==
  /\ Kind(c) \in {"create", "change", "refresh", "giveUp", "remove"}
  /\ Answer(c, "error")
  /\ Drift(Name(c)) \/ UNCHANGED host
  /\ UNCHANGED settled

\* An instance ends when nothing is left of it; the change log may fail then.
Remove(c) ==
  /\ Kind(c) = "remove"
  /\ ~remains[Name(c)]
  /\ settled' = [settled EXCEPT ![Name(c)] = None]
  /\ Answer(c, "removed") \/ Answer(c, "error")
  /\ UNCHANGED host

\* The engine cannot say how the new image is: an error, and no way back.
Unsure(c) ==
  /\ Kind(c) = "update"
  /\ serving[Name(c)] = Want(c)
  /\ settled' = [settled EXCEPT ![Name(c)] = Want(c)]
  /\ Answer(c, "error")
  /\ UNCHANGED host

\* Every request is lost.  An update under way has taken place, or it has not, or it was
\* about to write that down.
Crash ==
  /\ asked' = [c \in Clients |-> Nothing]
  /\ \A n \in Names :
       \/ settled'[n] = settled[n]
       \/ \E c \in Clients :
            /\ Kind(c) \in {"update", "giveUp"}
            /\ Name(c) = n /\ settled'[n] \in {Want(c)} \cup Unreadable
  /\ UNCHANGED host

Next ==
  \/ UNCHANGED <<settled, asked>> /\ \E n \in Names : Drift(n)
  \/ \E c \in Clients :
       \/ Ask(c) \/ Walk(c) \/ Empty(c) \/ Record(c) \/ Done(c) \/ Update(c) \/ GiveUp(c)
       \/ RolledBack(c) \/ Fail(c) \/ Unsure(c) \/ Remove(c)
  \/ Crash

Spec == Init /\ [][Next]_vars
=============================================================================
