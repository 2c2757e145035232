---------------------------- MODULE ControlPlane ----------------------------
(***************************************************************************)
(* The management API of linuxmuster-radius: requests (controlplane/       *)
(* lmnradius/api.py) that run concurrently in the server's threadpool over *)
(* the instance store (store.py), the reconciler (reconciler.py), the      *)
(* updater (updater.py) and the Docker engine (docker_service.py).         *)
(*                                                                         *)
(* One worker is one request in flight.  Each of its steps is one visible  *)
(* effect on what outlives the process: the record and rollback pointer on *)
(* disk, the rendered configuration that is bind-mounted into the          *)
(* container, the container, its state volume, and the computer account on *)
(* the domain controller.  A crash of the control plane forgets every      *)
(* worker and leaves all of that as it is.                                 *)
(***************************************************************************)
EXTENDS Naturals, FiniteSets

CONSTANTS
  Names,          \* instance names
  Workers,        \* requests that can be in flight at once
  Images,         \* container images an operator may ask for
  Cfgs,           \* everything else a record holds, as opaque values
  None,           \* "absent"
  Torn,           \* what a file says of which not all has been written
  DefaultImage,   \* DEFAULT_IMAGE, the target of update-all
  LocalImages,    \* images the engine can create a container from
  GoodImages,     \* images whose container can become healthy
  BadSecretCfgs,  \* configurations whose radius_secret cannot be rendered
  Requests,       \* the kinds of request the operators send
  Exclusive,      \* TRUE: the operators send one request per instance at a time
  FaultKinds,     \* which external calls may fail
  MaxFaults,      \* how many of them fail in a behaviour
  MaxCrashes      \* how often the control plane is killed in a behaviour

\* What operators ask for, and what a file can hold or a request apply.
Valid   == [image : Images, cfg : Cfgs]
Records == [image : Images \cup {Torn}, cfg : Cfgs]

Running == {"starting", "healthy", "unhealthy"}

\* The request that has created a container has its id, until it has started it.
Containers ==
  [image : Images, cfg : Cfgs, loaded : Cfgs \cup {None, Torn}, maker : Workers \cup {None},
   phase : Running \cup {"created", "stopped"}]

RequestKinds == {"create", "patch", "ldapCa", "update", "rollback", "delete",
                 "reconcile", "updateAll", "lifecycle"}

ASSUME ConstantsOK ==
  /\ DefaultImage \in Images
  /\ GoodImages \subseteq LocalImages
  /\ LocalImages \subseteq Images
  /\ BadSecretCfgs \subseteq Cfgs
  /\ Requests \subseteq RequestKinds
  /\ Exclusive \in BOOLEAN
  /\ None \notin Names \cup Workers \cup Images \cup Cfgs \cup Records \cup Containers
  /\ Torn \notin Images \cup Cfgs \cup {None}
  /\ MaxFaults \in Nat
  /\ MaxCrashes \in Nat

VARIABLES
  record,     \* instances/<name>.yaml
  prev,       \* instances/<name>.prev, the image before the last update
  rendered,   \* rendered/<name>/: the configuration mounted into the container
  container,  \* the engine's container lmnradius-<name>
  volume,     \* the engine's volume holding the machine-account secret
  account,    \* does the domain controller have the computer account?
  mounts,     \* configurations whose secrets, EAP files and DC CA all exist
  req,        \* what each worker is doing
  report,     \* history: what became of the news that a domain leave failed
  faults, crashes

ledger  == <<record, prev>>
engine  == <<container, volume, rendered>>
outside == <<account, mounts>>
budget  == <<faults, crashes>>
vars    == <<ledger, engine, outside, req, report, budget>>

Labels == {"idle", "next", "prev", "prevWrite", "put", "putWrite", "render",
           "renderPolicy", "recreate", "run", "start", "settle", "watch", "get", "stop",
           "leave", "rmContainer", "rmVolume", "rmRendered", "rmPrev", "rmRecord"}

\* A request in flight: where it is, what it is for, the record it applies, the
\* record it found, whether it is rolling back, the rest of its batch, whether
\* the batch went well so far, the outcome of a domain leave, and its answer.
RequestStates ==
  [pc : Labels, op : RequestKinds \cup {"none"}, name : Names \cup {None},
   want : Records \cup {None}, old : Records \cup {None}, restoring : BOOLEAN,
   todo : [Names -> Records \cup {None}], clean : BOOLEAN,
   leave : {"none", "neverJoined", "notAttempted", "left", "failed"},
   reply : {"none", "ok", "updated", "rolledBack", "removed", "error"}]

NoTodo == [n \in Names |-> None]

Idle == [pc |-> "idle", op |-> "none", name |-> None, want |-> None,
         old |-> None, restoring |-> FALSE, todo |-> NoTodo, clean |-> TRUE,
         leave |-> "none", reply |-> "none"]

TypeOK ==
  /\ record    \in [Names -> Records \cup {None}]
  /\ prev      \in [Names -> Images \cup {None, Torn}]
  /\ rendered  \in [Names -> Cfgs \cup {None, Torn}]
  /\ container \in [Names -> Containers \cup {None}]
  /\ volume    \in [Names -> BOOLEAN]
  /\ account   \in [Names -> BOOLEAN]
  /\ mounts    \in [Names -> SUBSET Cfgs]
  /\ req       \in [Workers -> RequestStates]
  /\ report    \in [Names -> {"none", "told", "lost"}]
  /\ faults    \in Nat
  /\ crashes   \in Nat

Init ==
  /\ record    = [n \in Names |-> None]
  /\ prev      = [n \in Names |-> None]
  /\ rendered  = [n \in Names |-> None]
  /\ container = [n \in Names |-> None]
  /\ volume    = [n \in Names |-> FALSE]
  /\ account   = [n \in Names |-> FALSE]
  /\ mounts    = [n \in Names |-> {}]
  /\ req       = [w \in Workers |-> Idle]
  /\ report    = [n \in Names |-> "none"]
  /\ faults    = 0
  /\ crashes   = 0

-----------------------------------------------------------------------------
(* Control flow of one worker.                                             *)

\* An external call fails.
Fault(kind) ==
  /\ kind \in FaultKinds
  /\ faults < MaxFaults
  /\ faults' = faults + 1
  /\ UNCHANGED crashes

Goto(w, label) == req' = [req EXCEPT ![w].pc = label]

\* The worker has an instance's record in hand, or still has it on its list.
Touches(w, n) == req[w].name = n \/ req[w].todo[n] # None

\* Store.get and Store.list have nothing to show for a file that is empty or names
\* no image.
Readable(n) == record[n] # None /\ record[n].image # Torn

\* The code takes no lock; whether two requests meet on one instance is up to
\* those who send them.
Free(n) == Exclusive => \A w \in Workers : ~Touches(w, n)

\* Where requests overlap, what one has looked up another may have removed since.
LostRace == ~Exclusive

\* A request on instance n starts at `label', having read its record.
Begin(w, o, n, r, label) ==
  /\ o \in Requests
  /\ req[w].pc = "idle"
  /\ Free(n)
  /\ req' = [req EXCEPT ![w] = [Idle EXCEPT !.pc = label, !.op = o, !.name = n,
                                            !.want = r, !.old = record[n]]]

\* The response is sent; the worker is free again.
Respond(w, answer) == req' = [req EXCEPT ![w] = [Idle EXCEPT !.reply = answer]]

\* A batch notes the outcome of one instance and turns to the next.
Advance(w, answer) ==
  req' = [req EXCEPT ![w].pc = "next", ![w].name = None, ![w].want = None,
                     ![w].old = None, ![w].restoring = FALSE,
                     ![w].clean = IF answer \in {"ok", "updated"} THEN @ ELSE FALSE,
                     ![w].reply = answer]

\* The work on one instance ends.  update-all carries on whatever happened;
\* reconcile has no handler, its first exception is the response.
Carries(w, answer) ==
  \/ req[w].op = "updateAll"
  \/ req[w].op = "reconcile" /\ answer # "error"

Finish(w, answer) ==
  \/ Carries(w, answer) /\ Advance(w, answer)
  \/ ~Carries(w, answer) /\ Respond(w, answer)

Updating(w) == req[w].op \in {"update", "updateAll"} /\ ~req[w].restoring

\* Mutation: roll back to what the store holds now, not to what was read first.
Restore_Latest(w) ==
  req' = [req EXCEPT ![w].pc = "put", ![w].want = record[req[w].name],
                     ![w].restoring = TRUE]

\* Mutation: the rollback runs the old container but does not put its record back.
Restore_ContainerOnly(w) ==
  req' = [req EXCEPT ![w].pc = "render", ![w].want = req[w].old,
                     ![w].restoring = TRUE]

\* The updater re-applies the instance it read before it changed anything.
Restore(w) ==
  req' = [req EXCEPT ![w].pc = "put", ![w].want = req[w].old,
                     ![w].restoring = TRUE]

\* Mutation: update() has no handler around apply().
Raise_NoRollback(w) == Finish(w, "error")

\* An exception leaves apply() or remove().
Raise(w) ==
  \/ Updating(w) /\ Restore(w)
  \/ ~Updating(w) /\ Finish(w, "error")

-----------------------------------------------------------------------------
(* Requests.                                                               *)

\* Writing the pinned CA of the DC can complete a configuration's files.
PinLdapCa(n, c) ==
  mounts' \in {mounts, [mounts EXCEPT ![n] = @ \cup {c}]}

\* POST /v1/instances: an upsert, the old record is not looked at.
CreateInstance(w, n, r) ==
  /\ Begin(w, "create", n, r, "put")
  /\ PinLdapCa(n, r.cfg)
  /\ UNCHANGED <<ledger, engine, account, report, budget>>

\* PATCH /v1/instances/{name}: merges into the record it has just read.
PatchInstance(w, n, r) ==
  /\ Readable(n)
  /\ Begin(w, "patch", n, r, "put")
  /\ UNCHANGED <<ledger, engine, outside, report, budget>>

\* PUT /v1/instances/{name}/ldap-ca
SetLdapCa(w, n, c) ==
  /\ Readable(n)
  /\ Begin(w, "ldapCa", n, [record[n] EXCEPT !.cfg = c], "put")
  /\ PinLdapCa(n, c)
  /\ UNCHANGED <<ledger, engine, account, report, budget>>

\* POST /v1/instances/{name}/update
UpdateInstance(w, n, i) ==
  /\ Readable(n)
  /\ Begin(w, "update", n, [record[n] EXCEPT !.image = i], "prev")
  /\ UNCHANGED <<ledger, engine, outside, report, budget>>

\* Mutation: roll back without asking whether an image was recorded.
RollbackInstance_Unrecorded(w, n) ==
  /\ Readable(n)
  /\ Begin(w, "rollback", n, [record[n] EXCEPT !.image = prev[n]], "put")
  /\ UNCHANGED <<ledger, engine, outside, report, budget>>

\* POST /v1/instances/{name}/rollback
RollbackInstance(w, n) ==
  /\ Readable(n)
  /\ prev[n] # None
  /\ Begin(w, "rollback", n, [record[n] EXCEPT !.image = prev[n]], "put")
  /\ UNCHANGED <<ledger, engine, outside, report, budget>>

\* DELETE /v1/instances/{name}
DeleteInstance(w, n) ==
  /\ Readable(n)
  /\ Begin(w, "delete", n, None, "get")
  /\ UNCHANGED <<ledger, engine, outside, report, budget>>

Listed == [n \in Names |-> IF Readable(n) THEN record[n] ELSE None]

\* POST /v1/reconcile and /v1/update-all: both walk a snapshot of the store.
BeginBatch(w, o) ==
  /\ o \in Requests
  /\ req[w].pc = "idle"
  /\ \A n \in Names : Readable(n) => Free(n)
  /\ req' = [req EXCEPT ![w] = [Idle EXCEPT !.pc = "next", !.op = o, !.todo = Listed]]
  /\ UNCHANGED <<ledger, engine, outside, report, budget>>

Reconcile(w) == BeginBatch(w, "reconcile")
UpdateAll(w) == BeginBatch(w, "updateAll")

Take(w, n, r, label) ==
  req' = [req EXCEPT ![w].pc = label, ![w].name = n, ![w].want = r,
                     ![w].old = record[n], ![w].todo[n] = None]

\* The next instance of a reconcile is applied as the snapshot has it.
NextReconcile(w, n) ==
  /\ req[w].pc = "next" /\ req[w].op = "reconcile"
  /\ req[w].todo[n] # None
  /\ Take(w, n, req[w].todo[n], "render")
  /\ UNCHANGED <<ledger, engine, outside, report, budget>>

\* The next instance of an update-all is skipped if the snapshot already has
\* the target image, and read again if not; it may be gone by then, or unreadable.
NextUpdate(w, n) ==
  LET onTarget == req[w].todo[n].image = DefaultImage IN
  /\ req[w].pc = "next" /\ req[w].op = "updateAll"
  /\ req[w].todo[n] # None
  /\ \/ /\ ~onTarget /\ Readable(n)
        /\ Take(w, n, [record[n] EXCEPT !.image = DefaultImage], "prev")
     \/ /\ ~onTarget /\ ~Readable(n)
        /\ req' = [req EXCEPT ![w].todo[n] = None, ![w].clean = FALSE]
     \/ /\ onTarget
        /\ req' = [req EXCEPT ![w].todo[n] = None]
  /\ UNCHANGED <<ledger, engine, outside, report, budget>>

EndBatch(w) ==
  /\ req[w].pc = "next"
  /\ req[w].todo = NoTodo
  /\ Respond(w, IF req[w].clean THEN "ok" ELSE "error")
  /\ UNCHANGED <<ledger, engine, outside, report, budget>>

\* POST /v1/instances/{name}/start, /stop, /restart run on the event loop, one
\* at a time.  The engine refuses to start what cannot bind the RADIUS ports.
PortsFree(n) ==
  \A m \in Names \ {n} : container[m] # None => container[m].phase \notin Running

\* The entrypoint loads the mounted configuration whenever it starts.
Started(n) ==
  [container EXCEPT ![n].phase = "starting", ![n].loaded = rendered[n]]

StartInstance(n) ==
  /\ Free(n)
  /\ Readable(n)
  /\ container[n] # None
  /\ container[n].phase \notin Running
  /\ PortsFree(n)
  /\ container' = Started(n)
  /\ UNCHANGED <<ledger, volume, rendered, outside, req, report, budget>>

StopInstance(n) ==
  /\ Free(n)
  /\ Readable(n)
  /\ container[n] # None
  /\ container[n].phase \in Running
  /\ container' = [container EXCEPT ![n].phase = "stopped"]
  /\ UNCHANGED <<ledger, volume, rendered, outside, req, report, budget>>

RestartInstance(n) ==
  /\ Free(n)
  /\ Readable(n)
  /\ container[n] # None
  /\ PortsFree(n)
  /\ container' = Started(n)
  /\ UNCHANGED <<ledger, volume, rendered, outside, req, report, budget>>

-----------------------------------------------------------------------------
(* apply(): persist the record, then ensure_running().                     *)

\* A file is written in two steps: opened, which empties it, and filled.
TruncatePrev(w) ==
  /\ req[w].pc = "prev"
  /\ prev' = [prev EXCEPT ![req[w].name] = Torn]
  /\ Goto(w, "prevWrite")
  /\ UNCHANGED <<record, engine, outside, report, budget>>

\* update() notes the image it is about to replace.
WritePrev(w) ==
  /\ req[w].pc = "prevWrite"
  /\ prev' = [prev EXCEPT ![req[w].name] = req[w].old.image]
  /\ Goto(w, "put")
  /\ UNCHANGED <<record, engine, outside, report, budget>>

Truncate(w) ==
  /\ req[w].pc = "put"
  /\ record' = [record EXCEPT ![req[w].name] = [req[w].want EXCEPT !.image = Torn]]
  /\ Goto(w, "putWrite")
  /\ UNCHANGED <<prev, engine, outside, report, budget>>

\* Store.put: the file is written before git can refuse the commit.
Put(w) ==
  /\ req[w].pc = "putWrite"
  /\ record' = [record EXCEPT ![req[w].name] = req[w].want]
  /\ \/ Goto(w, "render") /\ UNCHANGED budget
     \/ Fault("git") /\ Raise(w)
  /\ UNCHANGED <<prev, engine, outside, report>>

\* Two files are written into the directory that the running container has mounted.
\* A secret that cannot be rendered is found out before the first.
Render(w) ==
  /\ req[w].pc = "render"
  /\ \/ /\ req[w].want.cfg \in BadSecretCfgs
        /\ Raise(w)
        /\ UNCHANGED rendered
     \/ /\ req[w].want.cfg \notin BadSecretCfgs
        /\ rendered' = [rendered EXCEPT ![req[w].name] = Torn]
        /\ Goto(w, "renderPolicy")
  /\ UNCHANGED <<ledger, container, volume, outside, report, budget>>

\* Mutation: a missing EAP certificate is tolerated.
RenderPolicy_CertsOptional(w) ==
  /\ req[w].pc = "renderPolicy"
  /\ rendered' = [rendered EXCEPT ![req[w].name] = req[w].want.cfg]
  /\ Goto(w, "recreate")
  /\ UNCHANGED <<ledger, container, volume, outside, report, budget>>

\* Mutation: the old container goes before the new mounts are checked.
RenderPolicy_AfterTeardown(w) ==
  /\ req[w].pc = "renderPolicy"
  /\ rendered' = [rendered EXCEPT ![req[w].name] = req[w].want.cfg]
  /\ container' = [container EXCEPT ![req[w].name] = None]
  /\ IF req[w].want.cfg \in mounts[req[w].name] THEN Goto(w, "run") ELSE Raise(w)
  /\ UNCHANGED <<ledger, volume, outside, report, budget>>

\* Only when both are there, if the disk has room, the other mount sources are checked.
RenderPolicy(w) ==
  /\ req[w].pc = "renderPolicy"
  /\ \/ /\ rendered' = [rendered EXCEPT ![req[w].name] = req[w].want.cfg]
        /\ IF req[w].want.cfg \in mounts[req[w].name] THEN Goto(w, "recreate") ELSE Raise(w)
        /\ UNCHANGED budget
     \/ Fault("disk") /\ Raise(w) /\ UNCHANGED rendered
  /\ UNCHANGED <<ledger, container, volume, outside, report>>

\* Mutation: a container that is already there is taken as good enough.
RemoveOld_KeepExisting(w) ==
  /\ req[w].pc = "recreate"
  /\ Goto(w, IF container[req[w].name] = None THEN "run" ELSE "settle")
  /\ UNCHANGED <<ledger, engine, outside, report, budget>>

RemoveOld(w) ==
  /\ req[w].pc = "recreate"
  /\ \/ /\ container' = [container EXCEPT ![req[w].name] = None]
        /\ Goto(w, "run")
        /\ UNCHANGED budget
     \/ Fault("engine") /\ Raise(w) /\ UNCHANGED container
     \/ LostRace /\ Raise(w) /\ UNCHANGED <<container, budget>>
  /\ UNCHANGED <<ledger, volume, rendered, outside, report>>

\* containers.run creates the container (and its named volume), then starts it.
\* An image that is neither pullable nor local, or a name that is taken, fails.
CreateContainer(w) ==
  LET n == req[w].name
      creatable == container[n] = None /\ req[w].want.image \in LocalImages
  IN
  /\ req[w].pc = "run"
  /\ \/ /\ creatable
        /\ container' = [container EXCEPT ![n] =
                           [image |-> req[w].want.image, cfg |-> req[w].want.cfg,
                            loaded |-> None, maker |-> w, phase |-> "created"]]
        /\ volume' = [volume EXCEPT ![n] = TRUE]
        /\ report' = IF volume[n] THEN report ELSE [report EXCEPT ![n] = "none"]
        /\ Goto(w, "start")
        /\ UNCHANGED budget
     \/ /\ ~creatable
        /\ Raise(w)
        /\ UNCHANGED <<container, volume, report, budget>>
     \/ Fault("engine") /\ Raise(w) /\ UNCHANGED <<container, volume, report>>
  /\ UNCHANGED <<ledger, rendered, outside>>

\* By the id: a container that another request has put in its place is not started.
StartContainer(w) ==
  LET n == req[w].name
      startable == container[n] # None /\ container[n].maker = w /\ PortsFree(n)
  IN
  /\ req[w].pc = "start"
  /\ \/ /\ startable
        /\ container' = [Started(n) EXCEPT ![n].maker = None]
        /\ Goto(w, "settle")
        /\ UNCHANGED budget
     \/ /\ ~startable
        /\ Raise(w)
        /\ UNCHANGED <<container, budget>>
     \/ Fault("engine") /\ Raise(w) /\ UNCHANGED container
  /\ UNCHANGED <<ledger, volume, rendered, outside, report>>

Healthy(n) == container[n] # None /\ container[n].phase = "healthy"

\* Mutation: what _wait_settled sees is good enough for an update.
Settle_NoHealthGate(w) ==
  /\ req[w].pc = "settle"
  /\ \/ Updating(w) /\ Finish(w, "updated")
     \/ req[w].restoring /\ Finish(w, "rolledBack")
     \/ ~Updating(w) /\ ~req[w].restoring /\ Finish(w, "ok")
  /\ UNCHANGED <<ledger, engine, outside, report, budget>>

\* _wait_settled only watches, up to a deadline; apply() returns.
Settle(w) ==
  /\ req[w].pc = "settle"
  /\ \/ /\ \/ Updating(w) /\ Goto(w, "watch")
           \/ req[w].restoring /\ Finish(w, "rolledBack")
           \/ ~Updating(w) /\ ~req[w].restoring /\ Finish(w, "ok")
        /\ UNCHANGED budget
     \/ Fault("engine") /\ Raise(w)
  /\ UNCHANGED <<ledger, engine, outside, report>>

\* Mutation: _wait_healthy polls without a deadline.
WatchHealth_NoDeadline(w) ==
  /\ req[w].pc = "watch"
  /\ \/ Healthy(req[w].name) /\ Finish(w, "updated")
     \/ /\ container[req[w].name] # None
        /\ container[req[w].name].phase = "unhealthy"
        /\ Restore(w)
  /\ UNCHANGED <<ledger, engine, outside, report, budget>>

\* _wait_healthy polls up to a deadline: any moment may be the last look.  An
\* engine error while it looks is not an unhealthy container: it leaves update()
\* outside the handler that rolls back.
WatchHealth(w) ==
  /\ req[w].pc = "watch"
  /\ \/ Healthy(req[w].name) /\ Finish(w, "updated") /\ UNCHANGED budget
     \/ ~Healthy(req[w].name) /\ Restore(w) /\ UNCHANGED budget
     \/ Fault("watch") /\ Finish(w, "error")
  /\ UNCHANGED <<ledger, engine, outside, report>>

-----------------------------------------------------------------------------
(* remove(): leave the domain, drop every artefact, the record last.       *)

\* Mutation: the record is deleted before the instance is torn down.
GetForRemoval_RecordFirst(w) ==
  LET found == record[req[w].name] IN
  /\ req[w].pc = "get"
  /\ req' = [req EXCEPT ![w].want = found,
                        ![w].pc = IF found = None THEN "rmPrev" ELSE "stop"]
  /\ record' = [record EXCEPT ![req[w].name] = None]
  /\ UNCHANGED <<prev, engine, outside, report, budget>>

\* Reconciler.remove reads the record again.  It may be gone or emptied by now, which
\* is the same to it, or name no image, which is an exception.
GetForRemoval(w) ==
  LET n == req[w].name
      found == Listed[n]
  IN
  /\ req[w].pc = "get"
  /\ \/ req' = [req EXCEPT ![w].want = found,
                           ![w].pc = IF found = None THEN "rmPrev" ELSE "stop"]
     \/ record[n] # None /\ ~Readable(n) /\ Raise(w)
  /\ UNCHANGED <<ledger, engine, outside, report, budget>>

\* A failing stop is logged and ignored, a failing lookup is not.
StopForLeave(w) ==
  LET n == req[w].name IN
  /\ req[w].pc = "stop"
  /\ \/ /\ container[n] # None /\ container[n].phase \in Running
        /\ container' = [container EXCEPT ![n].phase = "stopped"]
        /\ Goto(w, "leave")
        /\ UNCHANGED budget
     \/ /\ container[n] # None => container[n].phase \notin Running
        /\ Goto(w, "leave")
        /\ UNCHANGED <<container, budget>>
     \/ /\ container[n] # None
        /\ Fault("stop")
        /\ Goto(w, "leave")
        /\ UNCHANGED container
     \/ LostRace /\ Goto(w, "leave") /\ UNCHANGED <<container, budget>>
     \/ Fault("engine") /\ Raise(w) /\ UNCHANGED container
  /\ UNCHANGED <<ledger, volume, rendered, outside, report>>

\* The domain leave is done with, and did not work.
LeftBehind(w) == req[w].leave \in {"failed", "notAttempted"}

SetLeave(w, l) == req' = [req EXCEPT ![w].leave = l, ![w].pc = "rmContainer"]

\* Mutation: the exit code of the leave container is not looked at.
LeaveDomain_ExitIgnored(w) ==
  LET n == req[w].name IN
  /\ req[w].pc = "leave"
  /\ \/ ~volume[n] /\ SetLeave(w, "neverJoined") /\ UNCHANGED <<account, budget>>
     \/ volume[n] /\ Fault("leave") /\ SetLeave(w, "left") /\ UNCHANGED account
     \/ /\ volume[n]
        /\ SetLeave(w, "left")
        /\ account' = [account EXCEPT ![n] = FALSE]
        /\ UNCHANGED budget
  /\ UNCHANGED <<ledger, engine, mounts, report>>

\* The one-off leave container.  It needs the secrets and the pinned CA, not
\* the EAP files: for a configuration not in `mounts' either may be missing.
LeaveDomain(w) ==
  LET n == req[w].name
      complete == req[w].want.cfg \in mounts[n]
      runnable == req[w].want.image \in LocalImages
  IN
  /\ req[w].pc = "leave"
  /\ \/ ~volume[n] /\ SetLeave(w, "neverJoined") /\ UNCHANGED <<account, budget>>
     \/ volume[n] /\ ~complete /\ SetLeave(w, "notAttempted") /\ UNCHANGED <<account, budget>>
     \/ volume[n] /\ ~runnable /\ SetLeave(w, "failed") /\ UNCHANGED <<account, budget>>
     \/ volume[n] /\ Fault("leave") /\ SetLeave(w, "failed") /\ UNCHANGED account
     \/ Fault("engine") /\ Raise(w) /\ UNCHANGED account
     \/ /\ volume[n] /\ runnable
        /\ SetLeave(w, "left")
        /\ account' = [account EXCEPT ![n] = FALSE]
        /\ UNCHANGED budget
  /\ UNCHANGED <<ledger, engine, mounts, report>>

\* A container that could not be stopped may have joined again since the leave.
Rejoined(w) ==
  LET n == req[w].name IN
  req[w].leave = "left" /\ account[n] /\ container[n] # None /\ container[n].phase \in Running

RemoveContainer(w) ==
  /\ req[w].pc = "rmContainer"
  /\ \/ /\ container' = [container EXCEPT ![req[w].name] = None]
        /\ report' = IF Rejoined(w) THEN [report EXCEPT ![req[w].name] = "lost"] ELSE report
        /\ Goto(w, "rmVolume")
        /\ UNCHANGED budget
     \/ Fault("engine") /\ Raise(w) /\ UNCHANGED <<container, report>>
     \/ LostRace /\ Raise(w) /\ UNCHANGED <<container, report, budget>>
  /\ UNCHANGED <<ledger, volume, rendered, outside>>

\* The engine refuses to remove a volume that a container uses.
RemoveVolume(w) ==
  LET n == req[w].name IN
  /\ req[w].pc = "rmVolume"
  /\ \/ /\ container[n] = None \/ ~volume[n]
        /\ volume' = [volume EXCEPT ![n] = FALSE]
        /\ Goto(w, "rmRendered")
        /\ UNCHANGED budget
     \/ /\ volume[n] /\ container[n] # None
        /\ Raise(w)
        /\ UNCHANGED <<volume, budget>>
     \/ Fault("engine") /\ Raise(w) /\ UNCHANGED volume
  /\ UNCHANGED <<ledger, container, rendered, outside, report>>

RemoveRendered(w) ==
  /\ req[w].pc = "rmRendered"
  /\ rendered' = [rendered EXCEPT ![req[w].name] = None]
  /\ Goto(w, "rmPrev")
  /\ UNCHANGED <<ledger, container, volume, outside, report, budget>>

\* Mutation: Store.delete forgets the rollback pointer.
RemovePrev_Kept(w) ==
  /\ req[w].pc = "rmPrev"
  /\ Goto(w, "rmRecord")
  /\ UNCHANGED <<ledger, engine, outside, report, budget>>

\* Store.delete: the rollback pointer goes first, then the record.
RemovePrev(w) ==
  /\ req[w].pc = "rmPrev"
  /\ prev' = [prev EXCEPT ![req[w].name] = None]
  /\ Goto(w, "rmRecord")
  /\ UNCHANGED <<record, engine, outside, report, budget>>

\* git can refuse the commit after the file is gone: the error is answered in place of
\* the result of the leave.
RemoveRecord(w) ==
  LET n == req[w].name
      ReportAs(r) == report' = IF LeftBehind(w) THEN [report EXCEPT ![n] = r] ELSE report
  IN
  /\ req[w].pc = "rmRecord"
  /\ record' = [record EXCEPT ![n] = None]
  /\ \/ Finish(w, "removed") /\ ReportAs("told") /\ UNCHANGED budget
     \/ record[n] # None /\ Fault("git") /\ Raise(w) /\ ReportAs("lost")
  /\ UNCHANGED <<prev, engine, outside>>

-----------------------------------------------------------------------------
(* The engine, the containers and the operator's files go their own way.   *)

BecomeHealthy(n) ==
  /\ container[n] # None
  /\ container[n].phase \in {"starting", "unhealthy"}
  /\ container[n].image \in GoodImages
  /\ account[n]
  /\ container' = [container EXCEPT ![n].phase = "healthy"]
  /\ UNCHANGED <<ledger, volume, rendered, outside, req, report, budget>>

BecomeUnhealthy(n) ==
  /\ container[n] # None
  /\ container[n].phase \in {"starting", "healthy"}
  /\ container' = [container EXCEPT ![n].phase = "unhealthy"]
  /\ UNCHANGED <<ledger, volume, rendered, outside, req, report, budget>>

\* The restart policy brings a container back that exited by itself.
CrashRestart(n) ==
  /\ container[n] # None
  /\ container[n].phase \in Running
  /\ container' = Started(n)
  /\ UNCHANGED <<ledger, volume, rendered, outside, req, report, budget>>

\* A container that is not a member joins the domain before it serves; it may
\* have been found unhealthy by then.
Join(n) ==
  /\ container[n] # None
  /\ container[n].phase \in {"starting", "unhealthy"}
  /\ ~account[n]
  /\ account' = [account EXCEPT ![n] = TRUE]
  /\ UNCHANGED <<ledger, engine, mounts, req, report, budget>>

\* The operator puts the secret files in place and issues the certificate.
ProvideFiles(n, c) ==
  /\ c \notin mounts[n]
  /\ mounts' = [mounts EXCEPT ![n] = @ \cup {c}]
  /\ UNCHANGED <<ledger, engine, account, req, report, budget>>

\* The service is killed (and restarted by systemd): all requests are lost.  What one
\* of them knew of a failed leave is lost with it; without the volume there is no second
\* leave that could fail.
Crash ==
  /\ crashes < MaxCrashes
  /\ \E w \in Workers : req[w].pc # "idle"
  /\ crashes' = crashes + 1
  /\ req' = [w \in Workers |-> Idle]
  /\ report' = [n \in Names |->
                  IF ~volume[n] /\ \E w \in Workers : req[w].name = n /\ LeftBehind(w)
                    THEN "lost" ELSE report[n]]
  /\ UNCHANGED <<ledger, engine, outside, faults>>

-----------------------------------------------------------------------------
Request(w) ==
  \/ \E n \in Names :
       \/ \E r \in Valid : CreateInstance(w, n, r) \/ PatchInstance(w, n, r)
       \/ \E c \in Cfgs : SetLdapCa(w, n, c)
       \/ \E i \in Images : UpdateInstance(w, n, i)
       \/ RollbackInstance(w, n)
       \/ DeleteInstance(w, n)
  \/ Reconcile(w)
  \/ UpdateAll(w)

WorkerStep(w) ==
  \/ \E n \in Names : NextReconcile(w, n) \/ NextUpdate(w, n)
  \/ EndBatch(w)
  \/ TruncatePrev(w) \/ WritePrev(w) \/ Truncate(w) \/ Put(w)
  \/ Render(w) \/ RenderPolicy(w) \/ RemoveOld(w)
  \/ CreateContainer(w) \/ StartContainer(w) \/ Settle(w)
  \/ WatchHealth(w)
  \/ GetForRemoval(w) \/ StopForLeave(w) \/ LeaveDomain(w) \/ RemoveContainer(w)
  \/ RemoveVolume(w) \/ RemoveRendered(w) \/ RemovePrev(w) \/ RemoveRecord(w)

Lifecycle(n) ==
  /\ "lifecycle" \in Requests
  /\ StartInstance(n) \/ StopInstance(n) \/ RestartInstance(n)

Environment(n) ==
  \/ BecomeHealthy(n) \/ BecomeUnhealthy(n) \/ CrashRestart(n) \/ Join(n)
  \/ \E c \in Cfgs : ProvideFiles(n, c)

Next ==
  \/ \E w \in Workers : Request(w) \/ WorkerStep(w)
  \/ \E n \in Names : Lifecycle(n) \/ Environment(n)
  \/ Crash

Spec == Init /\ [][Next]_vars

\* Every thread of the pool is scheduled, and every loop it runs has a deadline.  Calls to
\* the engine have a timeout.  The git commands (store.py:116-158) and the wait for a
\* leave container have none: that they come to an end is assumed.
FairSpec == Spec /\ \A w \in Workers : WF_vars(WorkerStep(w))

-----------------------------------------------------------------------------
(* Properties.                                                             *)

\* remove() drops the record last, so whatever an instance left on this host
\* can still be found, and removed, through a record: no crash, failed call or
\* refused commit may orphan a container, a machine-account volume, a rendered
\* AP secret or a rollback pointer (reconciler.py:28-38, store.py:92-105).  A record
\* that a crash has emptied counts; it takes a create to make it readable again.
ArtefactsHaveRecord ==
  \A n \in Names :
    record[n] = None =>
      /\ container[n] = None
      /\ ~volume[n]
      /\ rendered[n] = None
      /\ prev[n] = None

\* A container exists only for a configuration whose secrets, EAP certificate
\* and pinned CA were all there (docker_service.py:340-382, "fails closed").
FailClosed ==
  \A n \in Names : container[n] # None => container[n].cfg \in mounts[n]

\* A container is only ever taken away by a removal, or by an apply that has
\* rendered the new configuration and found all of its files
\* (docker_service.py:310-319, "validate BEFORE we tear down").
NoTeardownBeforeValidation ==
  [][\A n \in Names :
       container[n] # None /\ container'[n] = None =>
         \E w \in Workers :
           /\ req[w].name = n
           /\ \/ req[w].op = "delete"
              \/ rendered[n] = req[w].want.cfg /\ req[w].want.cfg \in mounts[n]]_vars

\* An answer is sent, or one instance of a batch is done with.
Answers(w, answers) ==
  /\ req[w].pc \notin {"idle", "next"}
  /\ req'[w].pc \in {"idle", "next"}
  /\ req'[w].reply \in answers

\* An update that does not end in "updated" leaves the record it found, whether
\* the new image failed to start, never turned healthy, or the rollback itself
\* failed half-way (updater.py:58-94).  Only a call that fails while the health
\* is watched ends the update where it stands.
FailedUpdateRestoresRecord ==
  [][\A w \in Workers :
       /\ req[w].op \in {"update", "updateAll"}
       /\ req[w].pc # "watch"
       /\ Answers(w, {"rolledBack", "error"})
       => record'[req[w].name] = req[w].old]_vars

\* A success is about the container that is there now: it was made from the
\* record on disk, loaded that record's configuration, and after an update it
\* is healthy on the new image (updater.py:77-84, docker_service.py:294-338).
SuccessMeansDeployed ==
  [][\A w \in Workers :
       LET n == req[w].name IN
       Answers(w, {"ok", "updated", "rolledBack"}) =>
         /\ container[n] # None
         /\ record[n] = [image |-> container[n].image, cfg |-> container[n].cfg]
         /\ container[n].loaded = container[n].cfg
         /\ req'[w].reply = "updated" => container[n].phase = "healthy"]_vars

\* "A failed leave is reported, never hidden" (api.py:229-231): no computer account
\* outlives its instance without the operator having got the result of a leave that did
\* not work.  The code gives it away in three cases, which `report' has as "lost": git
\* refuses the removal of the record, the service is killed after the volume is gone, or
\* a container that could not be stopped joins again after the leave.
LeftoverAccountIsReported ==
  \A n \in Names : record[n] = None /\ account[n] => report[n] # "none"

\* Every request is answered: no retry, batch or health watch goes on forever
\* (updater.py:128-145, docker_service.py:404-417).
EveryRequestIsAnswered ==
  \A w \in Workers : req[w].pc # "idle" ~> req[w].pc = "idle"

=============================================================================
