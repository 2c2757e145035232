# linuxmuster-radius: a TLA+ model of the control plane and its containers

linuxmuster-radius runs FreeRADIUS instances for school WLANs as Docker containers
that are members of an Active Directory (AD) domain. A small control plane (a REST
service under systemd) keeps a record per instance, renders its configuration, and
creates, updates and removes its container; the container's entrypoint joins the
domain and supervises the daemons. This directory holds a model of that system in
TLA+, TLC runs that check it on small instances, and proofs, checked by TLAPS, of the
properties that matter most.

All paths below are relative to the repository; `lmnradius/` stands for
`controlplane/lmnradius/`.

    tlc -workers 2 -config cp_one.cfg MCControlPlane    # one of the runs
    tlapm ControlPlaneExclusive.tla                     # one of the proofs


## 1. The system

### 1.1 Components

| Component | Source | State it keeps | Operations that change it |
|---|---|---|---|
| management API | `lmnradius/api.py` | none of its own; one thread of the server's pool per request | `POST/PATCH/DELETE /v1/instances…`, `/ldap-ca`, `/update`, `/rollback`, `/start`, `/stop`, `/restart`, `/cert`, `/v1/ca`, `/v1/reconcile`, `/v1/update-all` |
| instance store | `lmnradius/store.py` | `instances/<name>.yaml`, `<name>.prev`, the git change log | `put`, `delete`, `set_prev` |
| reconciler | `lmnradius/reconciler.py` | none | `apply`, `remove`, `reconcile_all` |
| updater | `lmnradius/updater.py` | none (the rollback pointer is the store's) | `update`, `update_all`, `rollback` |
| Docker lifecycle | `lmnradius/docker_service.py` | the rendered directory; the engine's container and volume | `ensure_running`, `start`, `stop`, `restart`, `remove`; `test` and the status views only read |
| EAP certificate authority | `lmnradius/ca.py` | `certs/ca/*`, `certs/<name>/*` | `init_ca`, `issue_server_cert`, `write_ldap_ca`; `export_ca` reads |
| SSID policy | `lmnradius/render.py`, `image/templates/` | none | `render_ssid_policy`, run by FreeRADIUS for every login |
| container | `image/entrypoint.sh`, `image/healthcheck.sh` | machine secret in `/var/lib/samba`, its daemons | start, join, DNS record, waits, supervision, `leave`, health probe |
| package scripts | `debian/preinst`, `postinst`, `prerm`, `postrm` | the unit's enable link, deb-systemd-helper's record of it | `preinst`, `configure` (with the import of the change log and the update-all), `remove`, `purge` |
| console: CLI, status verdicts | `lmnradius/cli.py`, `diagnostics.py`, the views of `docker_service.py` | none | a command is a request and what its exit code makes of the answer |
| models, settings, token | `models.py`, `config.py`, `security.py`, `main.py` | none | validation |

External, and modelled only through what the code sees of them: the Docker engine, git,
the domain controller (DC), winbindd, stunnel, FreeRADIUS' unlang.

### 1.2 Interaction

The API hands a request to the reconciler or the updater, which call the store and the
Docker lifecycle one after another. **No lock is held anywhere**: FastAPI runs these
endpoints in a threadpool, so two requests interleave at every call. The components
share state only through what outlives the process: files, the engine's objects, and
the computer account on the DC. The rendered directory is bind-mounted, so a running
container can read, on its next start, what a later request has written. The package's
`postinst` works in the same git repository as the running service. The container and the
control plane never talk to each other; they meet in the environment, the mounted files,
the volume and the health verdict of the engine.

### 1.3 What is hard

* **Several effects, no transaction.** An update writes the rollback pointer, the record,
  the rendered files, removes a container, creates one, starts it, watches it. Each call
  can fail, and the process can be killed between any two.
* **Interleaving.** Two requests on one instance; two git processes and one
  `index.lock`; a CA that is checked, then generated for seconds, then written.
* **Retries.** A removal, an update or a batch is repeated after a failure, and must not
  conclude from what the first try has already destroyed.
* **Time.** Bounded waits for the trust, the tunnel and the health verdict race with the
  thing they wait for.
* **Staleness.** `update` re-applies the record it read at its beginning; `update-all`
  judges a container by its record; a trust that was fine at the start is lost later.

The hazards, each at its line and with the property that covers it, are the list
`hazards` of `PROJECT.json`.


## 2. The modules

Ordered by importance, which is also the order in which they were written.

| Module | Models | Composition |
|---|---|---|
| `ControlPlane` | requests over store, reconciler, updater and Docker lifecycle, with the container as an automaton of phases | the four components composed: each step of a request is a step of one of them |
| `MCControlPlane` | values for its constants; two statements of the docs that the code does not keep | extends `ControlPlane` |
| `MCKnownGood` | the same system with a history of which images were ever healthy | extends `MCControlPlane` |
| `GatedUpdate` | what an operator is promised: an update that happens or does not, and says which | abstract; no files, containers or retries |
| `ControlPlaneGated` | the mapping from `ControlPlane` to it | extends `ControlPlane`, instance of `GatedUpdate` |
| `ControlPlaneProofs`, `ControlPlaneExclusive`, `ControlPlaneRefinement` | proofs | the first two extend `ControlPlane`, the third also `ControlPlaneGated` |
| `ChangeLog`, `MCChangeLog` | `Store.put`/`delete` at the granularity of file operations and git processes, next to the package's import | what `Truncate` and `Put`, and `RemoveRecord`, are in `ControlPlane` |
| `RecordStore` | the store as its callers see it: a call has its effect once, before its answer | abstract; no git, no import |
| `ChangeLogStored` | the mapping from `ChangeLog` to it | extends `ChangeLog`, instance of `RecordStore` |
| `ChangeLogProofs` | proofs | extends `ChangeLogStored` |
| `EapCa`, `EapCaProofs` | the CA at the granularity of file operations, and what containers serve from its files | supplies what `ProvideFiles` abstracts in `ControlPlane` |
| `Container` | one container's life against a DC that goes and comes back | what `Started`, `Join`, `BecomeHealthy` and `LeaveDomain` abstract in `ControlPlane` |
| `ContainerPhases`, `ContainerPhased`, `MCContainer` | the container as `ControlPlane` has it, and the mapping from `Container` to it | `ContainerPhased` extends `Container`, instance of `ContainerPhases` |
| `Console`, `MCConsole` | the commands that wait for a container, the views they decide on, their exit codes | extends `Container`: the command and the container side by side |
| `ContainerProofs` | proofs about both | extends `ContainerPhased` and `Console` |
| `ServiceState`, `ServiceStateProofs` | the maintainer scripts, the unit and its process | the update-all it ends with is `ControlPlane`'s |
| `SsidPolicy`, `SsidPolicyProofs` | the generated policy, the login, and the console test | static: one list of SSIDs, one login |

### 2.1 ControlPlane

A *worker* is one request in flight; `req[w].pc` names the next call it makes. The pure
Python between two calls is part of the step before it. What outlives the process:

| Variable | In the code |
|---|---|
| `record[n]`, `prev[n]` | `instances/<n>.yaml` (image and, as an opaque value, the rest), `<n>.prev` |
| `rendered[n]` | `rendered/<n>/clients.conf`, `ssid-policy` |
| `container[n]` | the engine's `lmnradius-<n>`: image, the configuration in its environment, the rendered files it has `loaded` on its last start, and its phase |
| `volume[n]`, `account[n]` | `/var/lib/samba` of the instance; its computer account on the DC |
| `mounts[n]` | the configurations whose secret files, EAP files and pinned CA exist |

A file is written in two steps, since `write_text` empties it when it opens it: `Torn` is a file
that a kill has left empty, and of the two rendered files that not both are the new ones. A record
that cannot be read, because it is empty or names no image, is not `Readable`: requests
answer 404, batches pass over it, only a create gets past it. `container[n].maker` is the request
that has created the container and goes on by its id; the others act by name. `report[n]` is
history: what has become of the news that a domain leave has failed.

| Steps of a worker | Code |
|---|---|
| `CreateInstance`, `PatchInstance`, `SetLdapCa`, `UpdateInstance`, `RollbackInstance`, `DeleteInstance`, `Reconcile`, `UpdateAll` | the endpoint up to its first lasting effect, with its early answers (409, 404, 422) |
| `TruncatePrev`, `WritePrev`; `Truncate`, `Put` | the two halves of the write of `<n>.prev`; those of `Store.put`, the second with git |
| `Render`, `RenderPolicy`, `RemoveOld`, `CreateContainer`, `StartContainer`, `Settle` | `ensure_running`: render the two files, `_mounts` (fails closed), remove the old container, create, start, `_wait_settled` |
| `WatchHealth` | `_wait_healthy`, then answer or roll back |
| `Raise` | what an exception does at this point: in `apply` during an update it starts the rollback, otherwise it is the answer |
| `GetForRemoval` … `RemoveRecord` | `Reconciler.remove`, `DockerService.remove`, `Store.delete`, in their order |
| `NextReconcile`, `NextUpdate`, `EndBatch` | the loops of `reconcile_all` and `update_all` |

Faults are external calls that fail: `"engine"` (an `APIError`), `"git"` (put or delete
raises *after* its effect on the file), `"leave"` (the one-off container exits non-zero),
`"stop"` (the stop before the leave fails and is only logged), `"disk"` (no room for the rendered
files) and `"watch"` (the engine fails while the health is watched). `Crash` is a kill of the
service. Where requests overlap, a lookup and the call after it are two calls, and what was found
may be gone by the second (`LostRace`).

The constant `Exclusive` says whether the operators send at most one request per
instance at a time. The code neither needs nor enforces it; with `Exclusive = FALSE`
the model shows what happens when two requests meet (`cp_race`, and section 6).

**GatedUpdate** is what remains of all this for somebody who sends requests and reads the
answers: `settled[n]` is what an instance *is*, `serving[n]` what its container was made from
and has loaded, `asked[c]` what a client waits for. An update is the one step `Update`: the
instance turns to the new image, which by then serves it and is healthy. Otherwise it is
given up (`GiveUp`), rolled back or failed, and `settled` has not moved. `ControlPlaneGated`
maps the code to it: while a worker updates an instance, the instance is the record that
worker found (`req[w].old`), whatever the file says at the moment; the worker's answer, or a
crash, makes it what the file says. So a rollback that does not put the record back, a
success answered too early, a removal that forgets an artefact, or a batch that goes on after
an error is not a step of `GatedUpdate`. `Empty`, and the `Unreadable` records, are what it has of
a write that a kill interrupts.

### 2.2 ChangeLog

`put` writes the file, then runs `rev-parse`, `add`, `rev-parse`, `diff --cached`, `commit`;
`delete` unlinks, then `rm` and so on. A write is two steps, since `write_text` empties the file
when it opens it (`Truncate`, `Write`). Each git process is two steps, *start* (takes
`index.lock`, or fails if it is taken) and *finish* (publishes and releases); `repo` says whether
git accepts the directory, which every call asks anew (`Skip`). `pkg` is the postinst's import. A
killed git leaves the lock; `RemoveStaleLock` is the operator. The import compares (`PackageDiff`)
and commits (`PackageCommit`) in two processes, between which the service may have committed what
was staged. `told[n]` is history: an error was answered, a connection broken or a warning logged
for a request on `n`. `alone` says of a request that no other one for its instance has overlapped
it. `Write` asks it too: where another request has had the file, the write may go to a file that
is unlinked by now, or mix with the other one's, and the model allows either (`Torn` is a file
that is empty or such a mixture, and no record).

`RecordStore` is what is left for a caller: a call for a record takes effect once
(`TakeEffect`), before it is answered, and nothing but a call changes a record. The effect of
a put goes through a moment in which the record cannot be read (`Tear`), and a kill can end
there. `ChangeLogStored` maps `ChangeLog` to it: a call has taken effect when the file is
written or unlinked; all that git does after that is a stutter, or else a second effect of a
deletion, when `git rm` removes a file that another request has put back. `ControlPlane`
has the two steps of `TakeEffect` and `Tear` as `Put` and `Truncate`, and `RemoveRecord` as one.

### 2.3 EapCa

A file is missing, empty (`Torn`: opened with `O_TRUNC`, not yet written) or has its
content. A key pair is a number. `req[w].writes` is the list of files a request has still
to write; `Truncate` and `Flush` are the two halves of `_write_file`. `StartContainer` is
a container that reads the files, with `radiusd -XC` as its check; `ExportCa` hands the
anchor out, and `exported` remembers it, because clients keep it.

### 2.4 Container

`phase` is where `entrypoint.sh` stands. `Prepare` and `Assemble` put the files together,
`TestJoin` … `CheckConfig` are the phases after it, `Supervise` the loop that watches the
daemons, `Unregister`/`LeaveDomain` the mode `leave`. The join is two steps, the account on the DC
(`Join`) and its password on the volume (`StoreSecret`), and so is the registration of the
A record, with the machine account (`RegisterDns`) and then with the join account
(`RegisterDnsJoin`), which warns and goes on if that fails too. A bounded wait is a bounded number of
tries (`Wait`). `dc` is the domain controller: reachable or not, taking the join account or not
(`admits`: its password may be changed, or it is locked), with the computer
account, the LDAPS certificate, and the A record with the owner that decides who may
change it. `phase` is `"none"` without a container and volume, `"off"` for a stopped container.
A removal leaves the domain whether anything was joined or not (`BeginLeave`). Daemons die, the
DC goes away or refuses, the account is deleted, the certificate is renewed, and operators stop,
start, re-create and remove, at any point.

Assumed of the outside, where the code depends on it: the join account may write any A
record of the zone (the guide has it delegated); `radiusd -XC` opens the LDAP pool and so
fails without a tunnel; a DNS node outlives the account that wrote it.

`ContainerPhases` is what `ControlPlane` takes for granted of this: a verdict, a membership
and a trust, with the steps `Started`, `Join`, `BecomeHealthy`, `BecomeUnhealthy` have there. It
promises that a container is found healthy only over a channel made since it began, that a
channel needs an account the DC had at that moment, and that a container joins only before
it is found healthy. `ContainerPhased` maps `phase` and `health` to the verdict; a container
that waits for the restart policy counts as starting.

`Console` puts one command beside the container: `create`, `set-ldap-ca`, `reconcile` (one
instance), `update` and `rollback` start it (`Boot`), wait (`_wait_settled`, then for an update
`_wait_healthy`) and answer. `Seen`, `CrashLooping` and `Problem` are the views of `status`,
`state_view` and `_status_problem`; `restarts` is the engine's `RestartCount`, 0 or more.
Other operators start, stop, restart and remove the instance meanwhile. `ended` is history:
the container has ended by itself since anybody told it to start, and not been healthy since.

### 2.5 ServiceState

`stage` is where dpkg stands: `Begin` and `Preinst`, `Unpack` (with the `prerm`, which does
nothing on an upgrade), then the postinst in three steps, `Enable` (postinst:115-130),
`Start` (132-147) and `Lift` (148-164), between any two of which the administrator acts, the
service fails or the machine goes down. A version is a number; 1 (`Legacy`) is 7.3.5, whose
scripts are external, and known from what the comments of the present ones say of them. `link` is the
enable link, `known` the record of deb-systemd-helper (`was-enabled` is true of a unit
without a record), `proc` the version of the code that runs, `images` the version whose default image
the instances were lifted onto. `off` is history: the administrator has disabled the
service, and neither he nor a purge has taken that back.

Assumed of the outside: `try-restart` starts nothing; whether it restarts a masked unit
that runs is left open. policy-rc.d, if there is one, forbids every start and stop. After an
interruption dpkg configures again what was unpacked, and unpacks again what was not.

### 2.6 SsidPolicy

`Policy` is the list of branches `render_ssid_policy` generates, `Taken` the semantics of
unlang's `if`/`elsif`/`else`, `WifiGate` the `--require-membership-of` of `ntlm_auth`,
`Login` the answer. `direct` are the groups in the user's `memberOf`, `nested` those that
only winbind's token has. `trouble` is what a login of the user fails on before any group is
asked (a wrong password, a locked account, …). `PreviewLogin`/`PreviewRow` are the console
test, which asks winbind: the login makes the exit code, the rows are printed beside it.


## 3. The runs

| Run | Question | Bounds |
|---|---|---|
| `cp_one` | whatever fails or is killed: what is left behind, torn down, rolled back, reported, and is it all an implementation of `GatedUpdate`? | one instance, one request at a time, all request kinds; 2 images (one good, the default not creatable), 3 configurations (one cannot be rendered); 2 faults of any kind, 1 crash, between any two steps and inside the writes |
| `cp_two` | two instances that compete for the RADIUS ports: batches beside creates, removals, stops and restarts | 2 instances, 2 workers, 2 images, updates in batches only; no fault, no crash (`cp_one` has both) |
| `cp_race` | two requests on one instance without a lock, and a call that fails: is every one answered, and no container made without its files? | 1 instance, 2 workers, `Exclusive = FALSE`, fairness |
| `log` | is everything that is missing in the change log answered for, is a silent upgrade complete, what does an answer say about the record and its commit, do the files implement `RecordStore`? | 1 record with 2 contents, 2 requests, 1 crash, 1 outage of the repository, 1 upgrade |
| `ca_serial` | can the CA sign, does what is served verify against every anchor exported, does an answer leave a matching triple? | 2 instances, 2 workers, 2 passphrases, 4 key pairs, 2 crashes |
| `container` | does an instance come up again after whatever has happened to it, is a dead daemon or a lost trust noticed, is the A record right, is `leave` honest, does it implement `ContainerPhases`? | 3 machine accounts, 2 DC certificates, 3 configurations (a pin that verifies, no tunnel and no DNS name, an unusable pin), one try more per wait; refused EAP files are left to `console` |
| `console` | does a crash loop pass as success, does its verdict flicker, does every wait end by itself? | one command at a time beside other operators; 3 configurations (good, refused by radiusd, ended at the first step), 2 machine accounts |
| `service` | does the package keep the administrator's decision, and does no old code stay behind? | 7.3.5 and two versions after it (`Last = 3`) |
| `policy` | who gets in, onto which VLAN, and what does the test say? | every list of up to 3 SSIDs (names may repeat), every user and trouble, every called SSID |
| `v_updateall`, `v_mixed`, `v_knowngood` | statements of the docs that the code does not keep (section 6) | one instance, 1 crash or none |

Why these bounds are enough. In `ControlPlane` instances interact only through the host ports (and
a request touches one instance at a time), so two show every interaction; two workers show every
pairwise race. Two faults and one crash, at any point, followed by any further requests, cover a
failure, a failed reaction to it (`Raise` while `restoring`), and a retry that fails again. In
`cp_two` an instance is updated by `update-all` only, and no other request differs in what it
shares with a second instance: the ports, the list a batch has read, and the worker. Images differ
in three ways only, configurations in whether they can be rendered and whether their files exist.
In `ChangeLog` two requests beside the upgrade contend for the lock in every order, and one
request destroys what another has written only on the same record, which takes two contents. What
several records in the one repository do to each other is left to the theorems of section 5, which
hold for any number of records, requests, kills and upgrades; with two records the run has several
times as many states. `EapCa` needs one key pair for the CA and one per issue, so four allow two
instances to be issued and one to be renewed, and a second CA to be attempted. In `Container`
three accounts allow two re-joins. In `Console` what can differ is where the container ends by
itself: at once, at the final check, or not at all until something kills it; a certificate that
changes is left to `container`. In `ServiceState` a version is only ever compared with the one
before it; three give an upgrade from 7.3.5 and one between two versions that keep records, and
the theorems of section 5 hold for any number. The policy is a function of the list; an SSID, one
that shadows it and one that is not served need three names and three rows.

Every property has a mutation (`…_…` operators beside the definitions they change, listed
under `mutants` in `PROJECT.json`): a plausible bug in that place, which TLC must find with
the same run.

Deadlock is checked everywhere but in `policy`, where a behaviour is one login.

### Fairness

* `ControlPlane.FairSpec`: weak fairness of each worker's steps. Threads of the pool are
  scheduled, calls to the engine have the client's timeout, and both loops have deadlines
  (`updater.py:128-145`, `docker_service.py:404-417`); `WatchHealth` may therefore always
  give up. Two things have no timeout in the code, and are assumed to come to an end: the git
  commands (`store.py:116-158`) and the wait for the one-off leave container. Operators and
  containers owe nothing.
* `Container.Fairness`: weak fairness of the entrypoint (a shell script goes on), of the
  engine's restart policy and of its health probes; strong fairness of `Connect`, because
  winbindd tries again for as long as it lives, while the script's wait may interrupt it
  each time: it says that a DC that is there is reached within the wait now and then. All
  disturbances are free, and `Recovers` only promises something if they end.
* `Console.ConsoleSpec`: weak fairness of the entrypoint, the restart policy, the probes and
  the polls (`Look`). No fairness of the deadlines, nor of winbindd: `VerdictIsReached` says
  that the waits need neither, since a container that comes to nothing is seen as a crash loop.
* The other modules have no liveness property and no fairness.


## 4. The properties

Type invariants (`TypeOK`) apart:

* **ArtefactsHaveRecord.** No container, volume, rendered secret or rollback pointer
  without a record that leads to it: the record is dropped last.
* **FailClosed, NoTeardownBeforeValidation.** No container without its files, and no
  running container removed before the new configuration is known to be complete.
* **FailedUpdateRestoresRecord.** An update that is not answered "updated" has put back
  the record it found, even if the rollback itself failed.
* **SuccessMeansDeployed.** A success answer is about the container that is there.
* **LeftoverAccountIsReported.** No computer account outlives its instance unless the operator
  has got the result of a leave that did not work. The code loses that news in three cases,
  which the property names (`report` is `"lost"`, section 6.2); in every other history of faults,
  kills and retries it holds.
* **EveryRequestIsAnswered.** Also when two requests fight over one container.
* **BrokenLogIsLoud, SuccessIsLogged, UpgradeImportsRecords.** A record the change log
  does not have was answered with an error; a success is in the log; an upgrade without a
  warning leaves nothing out.
* **KeepsRecords.** Refinement: whatever git, the import, outages and kills do, the files are
  those of `RecordStore`.
* **CaCanSign, ServedVerifies, IssuedIsUsable.** The CA certificate always has its key;
  whatever was ever exported verifies everything that is served; and an answer "issued" leaves a
  matching triple.
* **GatedUpdates.** Refinement: what an operator sees through all failed calls, rollbacks,
  batches and crashes is `GatedUpdate`.
* **Recovers.** Once the disturbances end, a container whose files, DC and join account are good
  comes up, stays up and is found healthy, whatever they have left. One whose account was deleted
  while it supervised stays up and unhealthy until somebody restarts it, as
  `docs/operations.md:251-252` has it: the property promises health to a container that is joined.
* **NoDaemonStaysDead, LostTrustIsNoticed.** The supervision ends over a dead daemon, and a
  trust that is lost later shows in the verdict.
* **RecordFollowsHost.** A start that is not cut short ends with the host's address in the A
  record, or the DC did not answer or took neither account, which is a warning only.
* **LeaveIsHonest.** A leave that exits with 0 leaves neither account nor address.
* **KeepsItsPhases.** Refinement: it is the container that `ControlPlane` has.
* **CrashLoopIsNotSuccess, CrashLoopStands, VerdictIsReached.** An exit code 0 is never about a
  container that has ended unseen; the verdict does not come and go with each restart; a wait
  ends with what the container does, not with its deadline.
* **OffStaysOff, OnStaysOn, RunsInstalledCode, LiftsToInstalledDefault.** dpkg neither
  enables nor starts what the administrator has switched off, and disables nothing; when it
  is done what runs is what is installed, and the instances were lifted by that.
* **NoStrangerAdmitted, EntitledIsAdmitted, PreviewDenialIsTrue, PreviewIsExact.** The policy
  is sound, and whoever the entry that serves the called SSID entitles gets its VLAN, repeated
  names or not; the console test never denies what the server grants, and without nested groups
  and repeated names its login and row together grant nothing the server denies. Its exit code is
  the login's alone (`cli.py:400-406`), and nothing is claimed of it.


## 5. The proofs

TLAPS checks, for every value of the constants:

| Theorem | Statement | Assumptions beside those on the constants |
|---|---|---|
| `ControlPlaneProofs!TypeCorrect` | `Spec => []TypeOK` | none |
| `ControlPlaneProofs!AlwaysFailsClosed` | `Spec => []FailClosed` | none |
| `ControlPlaneExclusive!NothingOrphaned` | `Spec => []ArtefactsHaveRecord` | `Exclusive` |
| `ControlPlaneExclusive!FailedUpdatesRestore` | `Spec => FailedUpdateRestoresRecord` | `Exclusive` |
| `ControlPlaneExclusive!TeardownIsValidated` | `Spec => NoTeardownBeforeValidation` | `Exclusive` |
| `ControlPlaneExclusive!SuccessIsDeployed` | `Spec => SuccessMeansDeployed` | `Exclusive` |
| `ControlPlaneExclusive!LeftoversAreReported` | `Spec => []LeftoverAccountIsReported` | `Exclusive` |
| `ControlPlaneRefinement!UpdatesAreGated` | `Spec => GatedUpdates` | `Exclusive` |
| `ChangeLogProofs!TypeCorrect` | `Spec => []TypeOK` | none |
| `ChangeLogProofs!DifferencesAreLoud` | `Spec => []BrokenLogIsLoud` | none |
| `ChangeLogProofs!SuccessesAreLogged` | `Spec => SuccessIsLogged` | none |
| `ChangeLogProofs!UpgradesAreComplete` | `Spec => UpgradeImportsRecords` | none |
| `ChangeLogProofs!RecordsAreKept` | `Spec => KeepsRecords` | none |
| `EapCaProofs!CaTypeCorrect` | `Spec => []TypeOK` | `Exclusive` |
| `EapCaProofs!CaAlwaysSigns` | `Spec => []CaCanSign` | `Exclusive` |
| `EapCaProofs!ClientsCanVerify` | `Spec => []ServedVerifies` | `Exclusive` |
| `EapCaProofs!IssuesAreUsable` | `Spec => IssuedIsUsable` | `Exclusive` |
| `ServiceStateProofs!TypeCorrect` | `Spec => []TypeOK` | none |
| `ServiceStateProofs!PackageRespectsOff` | `Spec => OffStaysOff` | none |
| `ServiceStateProofs!EnabledStaysEnabled` | `Spec => []OnStaysOn` | none |
| `ServiceStateProofs!NothingStaleRuns` | `Spec => []RunsInstalledCode` | none |
| `ServiceStateProofs!UpgradesLiftOntoInstalled` | `Spec => LiftsToInstalledDefault` | none |
| `SsidPolicyProofs!StrangersStayOut` | `Spec => []NoStrangerAdmitted` | none |
| `SsidPolicyProofs!EntitledComeIn` | `Spec => []EntitledIsAdmitted` | none |
| `SsidPolicyProofs!DenialsAreTrue` | `Spec => []PreviewDenialIsTrue` | none |
| `SsidPolicyProofs!PreviewsAreExact` | `Spec => []PreviewIsExact` | none |
| `ContainerProofs!TypeCorrect` | `Spec => []TypeOK` | none |
| `ContainerProofs!LeavesAreHonest` | `Spec => LeaveIsHonest` | none |
| `ContainerProofs!ContainerKeepsItsPhases` | `Spec => KeepsItsPhases` | none |
| `ContainerProofs!CrashLoopsFail` | `ConsoleSpec => CrashLoopIsNotSuccess` | none |
| `ContainerProofs!CrashLoopsStand` | `ConsoleSpec => CrashLoopStands` | none |
| `ContainerProofs!ConsoleTypeCorrect` | `ConsoleSpec => []ConsoleTypeOK` | none |

`Exclusive` is needed where it is named: without it TLC finds counterexamples (section 6).

**ControlPlane.** `TypeOK` is not inductive: a step that reads the record it was given needs
to know that the worker has one at that label. `TypeInv` adds `WorkerOK`, which says what a
worker has in hand where. `ExclusiveInv` adds `Owner` (no two workers have one instance in
hand or on their lists), `Listed` (what a batch has on its list is what the store still
holds), `InPlace`/`Applied` (what an apply has achieved at each label: the record written,
the files rendered, the container made from them), and the counterpart for a removal, whose
steps take away one artefact after another. The proof has a lemma per step and is about one
instance at a time: no step disturbs any but its own. `FilesInv`, that whoever is about to
replace a container has found the files of the new one, needs no such thing: files are not
taken away again, so it stands however many requests meet (`AlwaysFailsClosed`), and with
`ExclusiveInv` it gives `TeardownIsValidated`.

`LeftoversAreReported` rests on `LeaveInv`: an account without news (`Untold`) has its volume still,
or a removal that knows it has failed and is about to say so (`Accounted`, `Behind`); and from the
leave on a removal knows, or there is no account, or the container that could not be stopped may
be joining again (`AtLarge`), which the removal of that container ends.

For the refinement `PlaceInv` adds to `ExclusiveInv` which kind of request can be at which label
and what the record is when a worker is about to write it (`Place`): an update finds there the
record it started from, a rollback some record, and only a create may find none; between the two
halves of a write it is what the first has left. Each step is then mapped to one of `GatedUpdate`:
`Elsewhere` says that nothing is seen of a step but at the worker's own instance, `MovesOn` covers
the steps inside an apply, `TakesBack` those of a rollback, `GivesUp` and `Fails` what an
exception does there, `LetGo` an answer. The choice of the updating worker in `SettledRecord` is
determined because there is only one (`Owner`).

**ChangeLog.** The requests take no lock of their own, so the proof rests on the one that git
takes. `LogInv` has four parts beside the types. `LockInv`: `index.lock` has one holder at
most, so what the holder has read of the file is what it publishes. `AloneInv`: what a request
has achieved at each label as long as nobody else had its record (`Achieved`): from the
`diff` on the index is the file, and the import is not about to publish something older
(`PackageFresh`); so an "ok" is about what the last commit has. `ImportInv` says the same of the
import for every record nobody has touched since it began. `LoudInv` is about requests that do
meet, and needs no knowledge of who wins: every difference has somebody who is going to deal
with it (`Attended`). If the index is not the file, somebody has the file in hand or is
before his `add` or `rm` (`Ahead`), or holds the lock to bring the index up to the file
(`Publishing`); if the index is not `HEAD`, somebody has still to compare them (`Checking`); and
whoever holds the lock with something older has somebody after him. A request that leaves
this duty undone says so, and so does a kill. The refinement needs `AloneInv` again: a request that
was alone finds the file it has emptied when it writes, and its `git rm` finds none to remove.

**EapCa.** `CaInv` describes each request in flight by its stage: which files are still to be
written and what the others hold. A request that creates the CA exists only while there is
no complete certificate, one that issues only while there is one, so with `Exclusive` the
creator is alone and issuers are on different instances. `SignedInv` ties whatever is on
disk, served or exported to the one certificate.

**ServiceState.** `Inv` says what the scripts rely on and no property mentions: every unit
that was ever configured is on record (`Recorded`), what is on record is enabled or switched
off (`EnabledOrOff`), a decision taken under 7.3.5 is on record from the preinst on unless
systemd was down (`DecisionKnown`), and a process without its files is one that a configure is
about to restart (`Leftovers`, which also needs that a package that was never configured
has no process from before).

**Container.** `ContainerInv` adds to the types that the daemons run only from the wait for the
trust on (`PhasesOK`), which makes the channel end with them and keeps the verdict from being
healthy before, that a join has made a machine account of its own, and that a leave that has failed
at nothing has already taken the address away (`DcOK`). From it each step is a step of
`ContainerPhases` or none.

**Console.** `ConsoleInv` ties the history `ended` to what the engine shows: a container that has
ended by itself and runs again has a restart count and is not healthy (`EndedIsSeen`), since
only the last phase of the entrypoint starts radiusd, and without radiusd no probe succeeds.

**SsidPolicy.** The first row with the called name is the branch that is taken, and the only
one (`WellFoundedInduction` on the natural numbers gives the first); the rest follows by
cases.

Only model-checked: the liveness properties (`EveryRequestIsAnswered`, `Recovers`,
`NoDaemonStaysDead`, `LostTrustIsNoticed`, `RecordFollowsHost`, `VerdictIsReached`): the prover
cannot do liveness under fairness. Every invariant, action property and refinement of a passing
run is a theorem. No module has a recursive operator.


## 6. What the code does not keep

### 6.1 Findings (runs that end in a violation)

* **`v_updateall`: a crash hides an instance from update-all.** `update_all` skips an instance by
  the image in its record (`updater.py:103`), and `update` writes the record before it recreates
  the container. Killed in between, the service will skip the instance for ever and report
  success.
* **`v_mixed`: a failed patch changes a running container.** `ensure_running` renders into
  the mounted directory (`docker_service.py:312`) before `_mounts` looks for the files. If
  that raises, the old container stays, and its next restart loads the new files under the
  old environment.
* **`v_knowngood`: a known-good rollback target is given up.** `<name>.prev` becomes whatever
  image the record has when an update begins (`updater.py:55`). A crash during an update leaves
  there an image that was never healthy, and the next update is about to put it in the place of
  one that was.

### 6.2 Known limits (change the constants of a run to see them)

| What | How to see it |
|---|---|
| Two `POST /v1/ca` at once both pass the check of `ca.py:165`: key and certificate end up crosswise, or the second replaces the anchor of the first, which clients have pinned. | `ca_serial` with `Exclusive = FALSE`: `CaCanSign` |
| Two `POST …/cert` for one instance interleave their three files. | `ca_serial` with `Exclusive = FALSE`: `IssuedIsUsable` |

And by reading, modelled where it matters but no property of its own:

* An update in flight brings back an instance that is deleted meanwhile: its rollback puts the
  old record (`updater.py:69`). `cp_race` goes through this, without a property that forbids it;
  `Exclusive` excludes it from the other runs.
* The news of a failed leave is lost in three ways, in which `LeftoverAccountIsReported` counts it
  as `"lost"`. If git refuses the deletion of the record right after, its error is answered in
  place of the report. If the service is killed when the volume is gone, nobody is answered, and
  every later removal says "never joined" (`docker_service.py:485-487`). And if the stop before
  the leave fails, which is only logged (`docker_service.py:450-452`), the container still runs
  and may join again between the leave and its removal. In each the computer account stays.
* An engine error while the health is watched is outside the handler that rolls back
  (`updater.py:77`): the update is answered with an error and stays in place. `GatedUpdate` has that
  as `Unsure`, and `FailedUpdateRestoresRecord` excepts it.
* `lmnradius update` and `rollback` exit with 0 whatever they report, a rolled back update and a
  container that is not healthy included; `test` of the trust alone exits with 0 if the trust
  is broken (`cli.py:409-441`, `481-506`). Scripts have to read the output. `CrashLoopIsNotSuccess`
  is about the commands that do look (`cli.py:103-128`) and about what the updater calls a success.
* If somebody removes the instance while an update waits for its health, the wait runs to its
  deadline (`updater.py:128-145`) and then puts the old instance back. `VerdictIsReached` excepts it.
* A certificate pinned with `--ldap-ca-tofu` is fetched before the request (`cli.py:131-184`) and
  may be stale when it is applied; the container then ends at its final check and is seen as a
  crash loop.
* A kill inside the write of `ca.cert.pem` leaves an empty file; `init_ca` then answers
  "already initialised" and every issue fails until the file is removed by hand
  (`ca.py:151-166`; state `Torn` of `EapCa`).
* `reconcile_all` has no handler: the first instance that fails ends the loop
  (`reconciler.py:43`), where `docs/operations.md:360` speaks of all instances. In
  `ControlPlane` a reconcile that fails answers an error with the rest of its list not
  applied.
* A kill in the middle of `Store.put` leaves an empty file (`store.py:85`). `get` and `list` then
  pass over the record: updates, reconciles, update-all and a `DELETE` (404) do not reach the
  instance, whose container runs on, until somebody creates it again. `ArtefactsHaveRecord` counts
  such a record, since it is where an operator would look; `SettledRecord` has it as `Unreadable`.
* A kill in the middle of the write of `<name>.prev` leaves an empty pointer (`updater.py:56`). A
  rollback asks only whether the file is there and records an image without a name
  (`updater.py:115-125`). No container can be made from that, the old one is gone by then, and
  the record can be read by nobody any more, since the validation of the image rejects it
  (`models.py:239-243`).
* `_commit` and the other git helpers are silent where git does not accept the directory
  at all (`store.py:110`): `BrokenLogIsLoud` is about a repository that stays usable.
* The import of `postinst:88-94` adds the files that are there; a record that was deleted
  while the log was broken stays in `HEAD`. `UpgradeImportsRecords` is about existing files.
* If the DC answers the join but did not answer `testjoin` just before, an instance that is
  joined joins again (`entrypoint.sh:371`, "never re-join"); it keeps the new secret and works.
* Two rows with one SSID are accepted (`models.py:222-227`); the second is never reached,
  although the console test shows it. `EntitledIsAdmitted` speaks of the first.
* `lmnradius test` with a login exits with 0 when the login works, although no row of an SSID
  may grant the user access (`cli.py:400-406`).
* Where policy-rc.d forbids the restart, or the unit is masked and runs, the configure's
  update-all goes through the old process, with the old package's default image
  (`postinst:155-162`); nothing says so. Without the conjunct `~forbidden /\ ~left`,
  `LiftsToInstalledDefault` is violated in run `service`.
* The record that the preinst of an interrupted upgrade from 7.3.5 leaves outlives a removal
  of 7.3.5, whose prerm has cut the link: a later installation leaves the service disabled,
  where `debian/changelog:28-30` has it enabled. `RemoveLegacy` counts that as a decision
  (`off' = known`); with `off' = FALSE` run `service` violates `OnStaysOn`.

## 7. Abstractions and bounds

* Configurations, passphrases, images, SSIDs and groups are model values; of a
  configuration the model knows whether its secret can be rendered and its files exist.
* `mounts` only grows: operators do not take secret files away again.
* A full disk is modelled where the rendered files are written (`"disk"`). Elsewhere a write of
  a file may be interrupted, but does not fail: a record or pointer that cannot be written is not
  modelled.
* The engine's containers are named, so a second `create` is refused; ports are bound by
  every running container, so a second instance starts only where the first does not run
  (`docs/references.md:284`).
* Clocks: a health watch, a settle wait and the entrypoint's waits end or time out
  nondeterministically (`ControlPlane`) or after a number of tries (`Container`).
* Bounds on counters: `MaxFaults`, `MaxCrashes`, `MaxOutages`, `MaxUpgrades`, `MaxPairs`,
  `MaxSsids`, `Last` (versions of the package), `Wait`, `Retries` (the health check's own).

Not modelled, and why: `config.py`, `security.py`, `main.py` (read once, no state);
of `cli.py` the argument parsing, the printing and the commands that print one answer and exit;
field validation in `models.py` and string escaping in `render.py` (covered by unit tests, no
behaviour over time); the texts of `diagnostics.py`; the build of the package and the images,
`lockfile_gate.py` (a comparison of two files at build time), CI and test-bed files.


## 8. Plan

Done: the modules and theorems above.

Next, in this order:

1. `Console` over the two containers of an update (the old one and the new one have different
   images, here they differ in whether the EAP files are accepted).
2. The refinement of `ControlPlane` with overlapping requests, to an abstract specification that
   says what two requests on one instance may do to each other.
