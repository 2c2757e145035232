------------------------------ MODULE Console ------------------------------
(***************************************************************************)
(* What the operator's console says of an instance: the command line       *)
(* client (controlplane/lmnradius/cli.py) gets its answer, and makes its   *)
(* exit code, from what docker_service.py reads off the engine (status,    *)
(* state_view) while it waits for a container it has just started          *)
(* (_wait_settled), and updater.py decides on the same view.               *)
(*                                                                         *)
(* Container is that container in full.  One command is under way here;    *)
(* other operators start, stop, restart and remove the instance meanwhile. *)
(***************************************************************************)
EXTENDS Container

VARIABLES
  exists,    \* does the engine have a container of the instance?
  restarts,  \* RestartCount of the engine, which only says "some" here
  cmd,       \* the command under way, and how the last one ended
  ended      \* history: did the container end by itself since it was told to
             \* start, without having been healthy since?

console  == <<exists, restarts, cmd, ended>>
allVars  == <<vars, console>>

Commands == {"none", "apply", "update", "restore"}

ConsoleTypeOK ==
  /\ TypeOK
  /\ exists \in BOOLEAN
  /\ restarts \in {0, 1}
  /\ cmd.pc \in {"idle", "settle", "watch"} /\ cmd.op \in Commands
  /\ cmd.exit \in {"none", "zero", "one"}
  /\ ended \in BOOLEAN

ConsoleInit ==
  /\ Init
  /\ exists = FALSE /\ restarts = 0 /\ ended = FALSE
  /\ cmd = [pc |-> "idle", op |-> "none", back |-> None, exit |-> "none"]

-----------------------------------------------------------------------------
(* What the engine tells.                                                  *)

\* The verdict of a container that does not run is "unhealthy": the engine has
\* stopped its health check.
Seen == IF Running THEN health.verdict ELSE "unhealthy"

\* Mutation: the old view, a container is in trouble while it is not running.
CrashLooping_Restarting == exists /\ phase = "restarting"

\* state_view: the restart policy had to restart it, and it is not healthy.
CrashLooping ==
  exists /\ (phase = "restarting" \/ (restarts > 0 /\ Seen # "healthy"))

\* Mutation: _status_problem looks at running and health only.
Problem_NoCrashLoop == ~exists \/ ~Running \/ Seen = "unhealthy"

\* _status_problem
Problem == ~exists \/ CrashLooping \/ ~Running \/ Seen = "unhealthy"

\* Mutation: the wait is for a verdict of the health check.
Settled_NoCrashLoop == ~exists \/ (Running /\ Seen \in {"healthy", "unhealthy"})

\* What _wait_settled waits for.
Settled ==
  \/ ~exists \/ ~Running
  \/ Seen \in {"healthy", "unhealthy"}
  \/ CrashLooping

-----------------------------------------------------------------------------
(* The engine is told to start a container, a new one or one that is there. *)

Boot(c) ==
  /\ ~Leaving
  /\ conf' = c
  /\ End("files")
  /\ wanted' = TRUE
  /\ health' = Unprobed
  /\ exists' = TRUE /\ restarts' = 0 /\ ended' = FALSE
  /\ rc' = "none"
  /\ UNCHANGED <<secret, dc>>

Begin(o, back) ==
  /\ cmd.pc = "idle"
  /\ cmd' = [pc |-> "settle", op |-> o, back |-> back, exit |-> "none"]

\* create.  The certificate that is pinned comes from the operator's file, or with
\* --ldap-ca-tofu from the DC, some time ago: it need not be what the DC has now.
Create(c, cert) == Begin("apply", None) /\ Boot(WithPin(c, cert))

\* set-ldap-ca
SetLdapCa(cert) ==
  /\ exists
  /\ Begin("apply", None)
  /\ Boot([conf EXCEPT !.cert = cert])

\* reconcile, of one instance.
Reconcile == exists /\ Begin("apply", None) /\ Boot(conf)

\* rollback, to an image that is good or not.
Rollback(good) ==
  /\ exists
  /\ Begin("restore", None)
  /\ Boot([conf EXCEPT !.eap = good])

\* update.  A good image takes the files that are there, a bad one refuses them.
Update(good) == exists /\ Begin("update", conf) /\ Boot([conf EXCEPT !.eap = good])

Answer(code) == cmd' = [pc |-> "idle", op |-> "none", back |-> None, exit |-> code]

\* The wait for the new container is over.  Only create, set-ldap-ca and
\* reconcile look into the answer.
Proceed ==
  /\ \/ cmd.op = "apply" /\ Answer(IF Problem THEN "one" ELSE "zero")
     \/ cmd.op = "update" /\ cmd' = [cmd EXCEPT !.pc = "watch"]
     \/ cmd.op = "restore" /\ Answer("zero")
  /\ UNCHANGED <<vars, exists, restarts, ended>>

\* The updater applies the instance as it was.
Restore ==
  /\ cmd' = [cmd EXCEPT !.pc = "settle", !.op = "restore", !.back = None]
  /\ Boot(cmd.back)

\* A look that ends a wait: _wait_settled, then for an update _wait_healthy.
Look ==
  \/ cmd.pc = "settle" /\ Settled /\ Proceed
  \/ /\ cmd.pc = "watch" /\ exists /\ Seen = "healthy"
     /\ Answer("zero")
     /\ UNCHANGED <<vars, exists, restarts, ended>>
  \/ /\ cmd.pc = "watch" /\ exists /\ Seen # "healthy"
     /\ Seen = "unhealthy" \/ CrashLooping
     /\ Restore

\* Both waits have a deadline; without a container _wait_healthy only has that.
Deadline ==
  \/ cmd.pc = "settle" /\ ~Settled /\ Proceed
  \/ cmd.pc = "watch" /\ ~(exists /\ Seen = "healthy") /\ Restore

\* The engine fails: an HTTP error, and exit code 1.
Fails ==
  /\ cmd.pc # "idle"
  /\ Answer("one")
  /\ UNCHANGED <<vars, exists, restarts, ended>>

-----------------------------------------------------------------------------
(* What else goes on.                                                      *)

StartInstance == exists /\ ~(wanted /\ Running) /\ Boot(conf) /\ UNCHANGED cmd

RestartInstance == exists /\ Boot(conf) /\ UNCHANGED cmd

StopInstance == exists /\ StopContainer /\ UNCHANGED console

\* rm of a stopped instance.
RemoveInstance ==
  /\ exists /\ BeginLeave
  /\ exists' = FALSE
  /\ UNCHANGED <<restarts, cmd, ended>>

\* None of this is the operators' or the control plane's doing.
Aside ==
  /\ ended' = /\ ended \/ (Running /\ phase' = "restarting")
              /\ ~(phase' = "supervise" /\ health'.verdict = "healthy")
  /\ UNCHANGED <<exists, restarts, cmd>>

\* The container, its daemons and the DC go their own way.
Inside ==
  \/ (Entrypoint \/ Connect \/ Probe) /\ Aside
  \/ (\E d \in Daemons : DaemonDies(d)) /\ Aside
  \/ (Outage \/ DcBack \/ Refuse \/ Admit \/ DeleteAccount \/ RenewCert) /\ Aside

ComesBack == Restart /\ restarts' = 1 /\ UNCHANGED <<exists, cmd, ended>>

Others == StartInstance \/ RestartInstance \/ StopInstance \/ RemoveInstance

Command ==
  \/ \E cert \in Certs : SetLdapCa(cert) \/ \E c \in Configs : Create(c, cert)
  \/ Reconcile
  \/ \E good \in BOOLEAN : Update(good) \/ Rollback(good)

ConsoleNext == Command \/ Look \/ Deadline \/ Fails \/ Others \/ Inside \/ ComesBack

\* The control plane polls; that it ever gets to a deadline is not asked for.
ConsoleSpec ==
  /\ ConsoleInit /\ [][ConsoleNext]_allVars
  /\ WF_allVars(Entrypoint /\ Aside)
  /\ WF_allVars(ComesBack)
  /\ WF_allVars(Probe /\ Aside)
  /\ WF_allVars(Look)

-----------------------------------------------------------------------------
(* Properties.                                                             *)

\* "A container that crash-loops right after the start must not pass as success"
\* (cli.py:301-304): when create, set-ldap-ca or reconcile exits with 0, or an
\* update is reported as done, the container is there, runs, and either has not
\* ended by itself since anybody told it to start or has been healthy since.
CrashLoopIsNotSuccess ==
  [][cmd.op \in {"apply", "update"} /\ cmd'.pc = "idle" /\ cmd'.exit = "zero" =>
       exists /\ Running /\ ~ended]_allVars

\* The verdict "crash-looping" does not come and go with every restart: only an
\* operator, a healthy probe or a removal ends it (docker_service.py:89-115).
CrashLoopStands ==
  [][CrashLooping /\ ~CrashLooping' =>
       ~exists' \/ ~wanted' \/ (restarts' = 0 /\ phase' = "files") \/ Seen' = "healthy"]_allVars

\* A wait for a container ends with what the container does, and needs its
\* deadline for nothing: a crash loop is seen, whenever the polls happen to come,
\* unless somebody keeps interfering or the instance is removed
\* (docker_service.py:404-417, updater.py:128-145).
VerdictIsReached ==
  <>[][~Others]_allVars =>
    [](cmd.pc # "idle" => <>(cmd.pc = "idle" \/ ~exists))
=============================================================================
