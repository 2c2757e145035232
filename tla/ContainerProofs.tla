--------------------------- MODULE ContainerProofs ---------------------------
(***************************************************************************)
(* Proofs about the container: its types, what a "leave" leaves on the DC, *)
(* and that it implements ContainerPhases; and about what the console says *)
(* of it: a crash loop does not pass as success, and does not look like    *)
(* anything else meanwhile.                                                *)
(***************************************************************************)
EXTENDS ContainerPhased, Console, TLAPS

\* Before the daemons are started, and when none is left.
Unmanned == {"none", "off", "restarting", "files", "assemble", "testjoin", "join",
             "store", "dns", "dnsJoin", "unregister", "leave"}

\* What a container has at hand where.
PhasesOK ==
  /\ phase \in Unmanned => live = {}
  /\ channel => "winbindd" \in live
  /\ phase \in {"files", "assemble", "testjoin", "join", "store", "dns", "dnsJoin"}
       => health.verdict # "healthy"

\* A join has made a machine account of its own, and a leave that has failed at nothing
\* has taken the address out of the record.
DcOK ==
  /\ phase = "store" => dc.account # Admin
  /\ phase = "leave" /\ rc = "zero" => dc.addr = "none"

ContainerInv == TypeOK /\ PhasesOK /\ DcOK

USE ContainerConstants

LEMMA NoTry == 0 \in 0 .. Wait
OBVIOUS

LEMMA ContainerInit == Init => ContainerInv
<1> SUFFICES ASSUME Init PROVE ContainerInv
  OBVIOUS
<1>1. TypeOK
  <2>1. conf \in Contents /\ dc \in Dcs
    BY DEF Init, WithPin, Contents, Dcs
  <2>2. health \in Healths
    BY DEF Init, Unprobed, Healths, Retries
  <2>3. phase = "none" /\ wanted = FALSE /\ live = {} /\ waited = 0 /\ secret = None
        /\ channel = FALSE /\ rc = "none"
    BY DEF Init
  <2> QED BY <2>1, <2>2, <2>3, NoTry DEF TypeOK
<1>2. PhasesOK /\ DcOK
  BY DEF Init, PhasesOK, DcOK
<1> QED BY <1>1, <1>2 DEF ContainerInv

-----------------------------------------------------------------------------
(* One lemma for each step of the entrypoint.                              *)

\* The steps of the entrypoint that leave the DC and the volume alone.
LEMMA PreparationKeeps ==
  ASSUME ContainerInv, Prepare \/ Assemble \/ TestJoin
  PROVE  ContainerInv'
<1>1. UNCHANGED Outside
  BY DEF Prepare, Assemble, TestJoin
<1>2. /\ phase \in {"files", "assemble", "testjoin"}
      /\ phase' \in {"restarting", "assemble", "testjoin", "join", "dns"}
      /\ waited' = 0
      /\ live' = {} /\ channel' = FALSE
  BY DEF Prepare, Assemble, TestJoin, Goto, Exit, End, ContainerInv, PhasesOK, Unmanned, TypeOK
<1>3. TypeOK'
  BY <1>1, <1>2, NoTry DEF Outside, ContainerInv, TypeOK
<1>4. PhasesOK' /\ DcOK'
  BY <1>1, <1>2 DEF Outside, ContainerInv, PhasesOK, Unmanned, DcOK
<1> QED BY <1>3, <1>4 DEF ContainerInv

LEMMA JoinKeeps ==
  ASSUME ContainerInv, Join \/ StoreSecret
  PROVE  ContainerInv'
<1>1. /\ phase \in {"join", "store"} /\ phase' \in {"restarting", "store", "dns"}
      /\ waited' = 0 /\ live' = {} /\ channel' = FALSE
      /\ UNCHANGED <<conf, wanted, health, rc>>
  BY DEF Join, StoreSecret, Goto, Exit, End, ContainerInv, PhasesOK, Unmanned, TypeOK
<1>2. secret' \in Accounts \cup {None}
  <2>1. dc.account # None => dc.account \in Accounts \cup {Admin}
    BY DEF Dcs, ContainerInv, TypeOK
  <2>2. CASE Join
    BY <2>2 DEF Join, ContainerInv, TypeOK
  <2>3. CASE StoreSecret
    BY <2>1, <2>3 DEF StoreSecret, ContainerInv, TypeOK, DcOK
  <2> QED BY <2>2, <2>3
<1>3. dc' \in Dcs
  BY DEF Join, StoreSecret, Dcs, ContainerInv, TypeOK
<1>4. TypeOK'
  BY <1>1, <1>2, <1>3, NoTry DEF ContainerInv, TypeOK
<1>5. PhasesOK'
  BY <1>1 DEF ContainerInv, PhasesOK, Unmanned
<1>6. DcOK'
  <2>1. phase' = "store" => dc'.account \in Accounts
    BY <1>1 DEF Join, StoreSecret, Exit, End, Goto, Dcs, ContainerInv, TypeOK
  <2> QED BY <1>1, <2>1 DEF DcOK
<1> QED BY <1>4, <1>5, <1>6 DEF ContainerInv

LEMMA RegisterDnsKeeps ==
  ASSUME ContainerInv, RegisterDns \/ RegisterDnsJoin
  PROVE  ContainerInv'
<1>1. /\ phase \in {"dns", "dnsJoin"} /\ waited' = 0 /\ UNCHANGED channel
      /\ \/ phase' = "dnsJoin" /\ live' = {} /\ phase = "dns"
         \/ phase' = "trust" /\ live' = {"winbindd"}
      /\ UNCHANGED <<conf, wanted, secret, health, rc>>
  BY DEF RegisterDns, RegisterDnsJoin, Start, Goto, ContainerInv, PhasesOK, Unmanned
<1>2. dc' \in Dcs
  <2>1. UNCHANGED dc \/ Registered(Admin) \/ Registered(secret)
    BY DEF RegisterDns, RegisterDnsJoin
  <2> QED BY <2>1 DEF Registered, Own, Dcs, ContainerInv, TypeOK
<1>3. TypeOK'
  BY <1>1, <1>2, NoTry DEF ContainerInv, TypeOK, Daemons
<1>4. PhasesOK' /\ DcOK'
  BY <1>1 DEF ContainerInv, PhasesOK, Unmanned, DcOK
<1> QED BY <1>3, <1>4 DEF ContainerInv

\* The waits, the check and the supervision.
LEMMA DaemonStepsKeep ==
  ASSUME ContainerInv, WaitTrust \/ WaitTunnel \/ CheckConfig \/ Supervise
  PROVE  ContainerInv'
<1>1. UNCHANGED Outside
  BY DEF WaitTrust, WaitTunnel, CheckConfig, Supervise
<1>2. phase \in {"trust", "tunnel", "check", "supervise"}
  BY DEF WaitTrust, WaitTunnel, CheckConfig, Supervise
<1> DEFINE Over == phase' = "restarting" /\ live' = {} /\ waited' = 0 /\ channel' = FALSE
           On == /\ phase' \in {"trust", "tunnel", "check", "supervise"}
                 /\ live \subseteq live' /\ live' \subseteq Daemons
                 /\ waited' \in 0 .. Wait
                 /\ UNCHANGED channel
<1>3. Exit => Over
  BY DEF Exit, End
<1>4. ASSUME NEW p \in {"tunnel", "check", "supervise"}, Goto(p) PROVE On
  BY <1>4 DEF Goto, ContainerInv, TypeOK
<1>5. ASSUME NEW p \in {"tunnel", "supervise"}, NEW d \in Daemons, Start(p, d) PROVE On
  BY <1>5 DEF Start, ContainerInv, TypeOK
<1>6. Retry => On
  BY <1>2 DEF Retry, ContainerInv, TypeOK
<1>7. Over \/ On
  <2> HIDE DEF Over, On
  <2>1. "stunnel" \in Daemons /\ "radiusd" \in Daemons
    BY DEF Daemons
  <2> QED BY <2>1, <1>3, <1>4, <1>5, <1>6, Zenon
        DEF WaitTrust, WaitTunnel, CheckConfig, Supervise
<1>8. CASE Over
  <2>1. TypeOK'
    BY <1>1, <1>8, NoTry DEF Outside, ContainerInv, TypeOK
  <2>2. PhasesOK' /\ DcOK'
    BY <1>1, <1>8 DEF PhasesOK, DcOK
  <2> QED BY <2>1, <2>2 DEF ContainerInv
<1>9. CASE On
  <2>1. TypeOK'
    BY <1>1, <1>9 DEF Outside, ContainerInv, TypeOK
  <2>2. PhasesOK' /\ DcOK'
    BY <1>1, <1>9 DEF ContainerInv, PhasesOK, Unmanned, DcOK
  <2> QED BY <2>1, <2>2 DEF ContainerInv
<1> QED BY <1>7, <1>8, <1>9

LEMMA LeavingKeeps ==
  ASSUME ContainerInv, BeginLeave \/ Unregister \/ LeaveDomain
  PROVE  ContainerInv'
<1>1. CASE BeginLeave
  BY <1>1 DEF BeginLeave, ContainerInv, TypeOK, PhasesOK, Unmanned, DcOK
<1>2. CASE Unregister
  <2>1. TypeOK'
    BY <1>2 DEF Unregister, Goto, Dcs, ContainerInv, TypeOK
  <2>2. PhasesOK'
    BY <1>2 DEF Unregister, Goto, ContainerInv, PhasesOK, Unmanned
  <2>3. DcOK'
    <3>1. dc'.addr = "none" \/ rc' = "one"
      BY <1>2 DEF Unregister, Dcs, ContainerInv, TypeOK
    <3> QED BY <1>2, <3>1 DEF Unregister, Goto, DcOK
  <2> QED BY <2>1, <2>2, <2>3 DEF ContainerInv
<1>3. CASE LeaveDomain
  <2>1. TypeOK'
    BY <1>3 DEF LeaveDomain, Goto, Dcs, ContainerInv, TypeOK
  <2>2. PhasesOK' /\ DcOK'
    BY <1>3 DEF LeaveDomain, Goto, Dcs, ContainerInv, PhasesOK, Unmanned, DcOK
  <2> QED BY <2>1, <2>2 DEF ContainerInv
<1> QED BY <1>1, <1>2, <1>3

\* What the engine and the operator do.
LEMMA EngineKeeps ==
  ASSUME ContainerInv, Restart \/ StopContainer \/ Probe \/ \E c \in Configs : Launch(c)
  PROVE  ContainerInv'
<1> Unprobed \in Healths /\ Unprobed.verdict = "starting"
  BY DEF Unprobed, Healths, Retries
<1>1. CASE Restart
  <2>1. TypeOK'
    BY <1>1 DEF Restart, Goto, ContainerInv, TypeOK
  <2>2. PhasesOK' /\ DcOK'
    BY <1>1 DEF Restart, Goto, ContainerInv, PhasesOK, Unmanned, DcOK
  <2> QED BY <2>1, <2>2 DEF ContainerInv
<1>2. CASE StopContainer
  <2>1. TypeOK'
    BY <1>2, NoTry DEF StopContainer, End, ContainerInv, TypeOK
  <2>2. PhasesOK' /\ DcOK'
    BY <1>2 DEF StopContainer, End, ContainerInv, PhasesOK, Unmanned, DcOK
  <2> QED BY <2>1, <2>2 DEF ContainerInv
<1>3. CASE Probe
  <2>1. /\ UNCHANGED <<phase, conf, live, waited, wanted, secret, channel, dc, rc>>
        /\ health' \in Healths
    BY <1>3 DEF Probe, Healths, Retries, ContainerInv, TypeOK
  <2>2. health'.verdict = "healthy" => channel \/ health.verdict = "healthy"
    BY <1>3 DEF Probe, Healths, Retries, ContainerInv, TypeOK
  <2>3. TypeOK'
    BY <2>1 DEF ContainerInv, TypeOK
  <2>4. PhasesOK' /\ DcOK'
    BY <2>1, <2>2 DEF ContainerInv, PhasesOK, Unmanned, DcOK
  <2> QED BY <2>3, <2>4 DEF ContainerInv
<1>4. ASSUME NEW c \in Configs, Launch(c) PROVE ContainerInv'
  <2>1. WithPin(c, dc.cert) \in Contents
    BY DEF WithPin, Contents, Dcs, ContainerInv, TypeOK
  <2>2. TypeOK'
    BY <2>1, <1>4, NoTry DEF Launch, End, ContainerInv, TypeOK
  <2>3. PhasesOK' /\ DcOK'
    BY <1>4 DEF Launch, End, PhasesOK, DcOK
  <2> QED BY <2>2, <2>3 DEF ContainerInv
<1> QED BY <1>1, <1>2, <1>3, <1>4

\* What happens around the container.
LEMMA SurroundingsKeep ==
  ASSUME ContainerInv,
         \/ \E d \in Daemons : DaemonDies(d)
         \/ Connect \/ Outage \/ DcBack \/ Refuse \/ Admit \/ DeleteAccount \/ RenewCert
  PROVE  ContainerInv'
<1>1. ASSUME NEW d \in Daemons, DaemonDies(d) PROVE ContainerInv'
  <2>1. TypeOK'
    BY <1>1 DEF DaemonDies, ContainerInv, TypeOK
  <2>2. PhasesOK' /\ DcOK'
    BY <1>1 DEF DaemonDies, ContainerInv, PhasesOK, Unmanned, DcOK
  <2> QED BY <2>1, <2>2 DEF ContainerInv
<1>2. CASE Connect
  <2>1. TypeOK'
    BY <1>2 DEF Connect, ContainerInv, TypeOK
  <2>2. PhasesOK' /\ DcOK'
    BY <1>2 DEF Connect, ContainerInv, PhasesOK, Unmanned, DcOK
  <2> QED BY <2>1, <2>2 DEF ContainerInv
<1>3. CASE Outage \/ DcBack \/ Refuse \/ Admit \/ DeleteAccount \/ RenewCert
  <2>1. UNCHANGED Around /\ channel' \in {channel, FALSE}
    BY <1>3 DEF Outage, DcBack, Refuse, Admit, DeleteAccount, RenewCert, ContainerInv, TypeOK
  <2>2. /\ dc' \in Dcs
        /\ dc'.addr = dc.addr /\ dc'.account \in {dc.account, None}
    <3>1. \/ \E up \in BOOLEAN : dc' = [dc EXCEPT !.up = up]
          \/ \E b \in BOOLEAN : dc' = [dc EXCEPT !.admits = b]
          \/ dc' = [dc EXCEPT !.account = None]
          \/ \E c \in Certs : dc' = [dc EXCEPT !.cert = c]
      BY <1>3 DEF Outage, DcBack, Refuse, Admit, DeleteAccount, RenewCert
    <3> QED BY <3>1 DEF Dcs, ContainerInv, TypeOK
  <2>3. TypeOK'
    BY <2>1, <2>2 DEF Around, ContainerInv, TypeOK
  <2>4. PhasesOK' /\ DcOK'
    <3>1. channel' => channel
      BY <2>1
    <3>2. /\ UNCHANGED <<phase, live, health, rc>>
          /\ dc'.addr = dc.addr /\ dc'.account \in {dc.account, None}
      BY <2>1, <2>2 DEF Around
    <3> QED BY <3>1, <3>2 DEF ContainerInv, PhasesOK, Unmanned, DcOK
  <2> QED BY <2>3, <2>4 DEF ContainerInv
<1> QED BY <1>1, <1>2, <1>3

LEMMA ContainerStep == ContainerInv /\ [Next]_vars => ContainerInv'
<1> SUFFICES ASSUME ContainerInv, [Next]_vars PROVE ContainerInv'
  OBVIOUS
<1>1. CASE UNCHANGED vars
  BY <1>1 DEF vars, ContainerInv, TypeOK, PhasesOK, Unmanned, DcOK
<1>2. CASE Entrypoint
  BY <1>2, PreparationKeeps, JoinKeeps, RegisterDnsKeeps, DaemonStepsKeep, LeavingKeeps
     DEF Entrypoint
<1>3. CASE Restart \/ Connect \/ Probe
  BY <1>3, EngineKeeps, SurroundingsKeep
<1>4. CASE Disturbance
  BY <1>4, EngineKeeps, LeavingKeeps, SurroundingsKeep DEF Disturbance
<1> QED BY <1>1, <1>2, <1>3, <1>4 DEF Next

LEMMA ContainerAlways == Spec => []ContainerInv
BY ContainerInit, ContainerStep, PTL DEF Spec

\* The type invariant of the container (entrypoint.sh, healthcheck.sh).
THEOREM TypeCorrect == Spec => []TypeOK
<1>1. ContainerInv => TypeOK
  BY DEF ContainerInv
<1> QED BY <1>1, ContainerAlways, PTL

-----------------------------------------------------------------------------
(* What the DC is left with.                                               *)

LEMMA LeaveStep ==
  ASSUME ContainerInv, [Next]_vars
  PROVE  phase = "leave" /\ phase' = "none" /\ rc' = "zero"
           => dc'.account = None /\ dc'.addr = "none"
<1> SUFFICES ASSUME phase = "leave", phase' = "none", rc' = "zero"
             PROVE  dc'.account = None /\ dc'.addr = "none"
  OBVIOUS
<1>1. LeaveDomain
  BY DEF Next, Entrypoint, Prepare, Assemble, TestJoin, Join, StoreSecret, RegisterDns,
         RegisterDnsJoin, WaitTrust, WaitTunnel, CheckConfig, Supervise, Unregister, Restart,
         Connect, Probe, Disturbance, StopContainer, BeginLeave, Launch, DaemonDies, Outage,
         DcBack, Refuse, Admit, DeleteAccount, RenewCert, Goto, Leaving, Around, vars
<1>2. Admitted /\ dc' = [dc EXCEPT !.account = None] /\ UNCHANGED rc
  BY <1>1 DEF LeaveDomain
<1> QED BY <1>2 DEF Dcs, ContainerInv, TypeOK, DcOK

\* A "leave" that exits with 0 leaves neither a computer account nor an A record
\* on the DC (entrypoint.sh:243-265).
THEOREM LeavesAreHonest == Spec => LeaveIsHonest
<1>1. ContainerInv /\ [Next]_vars
        => [phase = "leave" /\ phase' = "none" /\ rc' = "zero"
              => dc'.account = None /\ dc'.addr = "none"]_vars
  BY LeaveStep
<1> QED BY <1>1, ContainerAlways, PTL DEF Spec, LeaveIsHonest

-----------------------------------------------------------------------------
(* The refinement: each step of the container is a step of ContainerPhases *)
(* or none.                                                                *)

Member == secret # None /\ secret = dc.account

LEMMA PhasesInit == Init => Phases!Init
BY DEF Init, Phases!Init, VerdictOf

\* The entrypoint ends: the next thing is a new beginning.
LEMMA ExitBegins ==
  ASSUME Exit, UNCHANGED Outside
  PROVE  Phases!Begin
BY DEF Exit, End, Outside, Phases!Begin, VerdictOf

\* It goes on: nothing that anybody outside can see.
LEMMA GoingOnIsSilent ==
  ASSUME UNCHANGED <<channel, health, secret>>, Member' = Member,
         phase \notin {"none", "off", "unregister", "leave", "restarting"},
         phase' \notin {"none", "off", "unregister", "leave", "restarting"}
  PROVE  UNCHANGED Phases!vars
BY DEF Phases!vars, VerdictOf, Member

LEMMA EntrypointRefines ==
  ASSUME ContainerInv, Entrypoint
  PROVE  [Phases!Next]_(Phases!vars)
<1>1. CASE Prepare \/ Assemble \/ TestJoin \/ WaitTrust \/ WaitTunnel \/ CheckConfig \/ Supervise
  <2>1. UNCHANGED Outside
    BY <1>1 DEF Prepare, Assemble, TestJoin, WaitTrust, WaitTunnel, CheckConfig, Supervise
  <2>2. CASE Exit
    BY <2>1, <2>2, ExitBegins DEF Phases!Next
  <2>3. CASE ~Exit
    <3>1. /\ UNCHANGED channel
          /\ phase \notin {"none", "off", "unregister", "leave", "restarting"}
          /\ phase' \notin {"none", "off", "unregister", "leave", "restarting"}
      BY <1>1, <2>3 DEF Prepare, Assemble, TestJoin, WaitTrust, WaitTunnel, CheckConfig,
                        Supervise, Goto, Start, Retry
    <3>2. Member' = Member
      BY <2>1 DEF Outside, Member
    <3> QED BY <2>1, <3>1, <3>2, GoingOnIsSilent DEF Outside
  <2> QED BY <2>2, <2>3
<1>2. CASE Join
  <2>1. CASE ~Admitted
    BY <1>2, <2>1, ExitBegins DEF Join, Outside, Phases!Next
  <2>2. CASE Admitted
    <3>1. /\ phase = "join" /\ phase' = "store" /\ UNCHANGED <<channel, health, secret>>
      BY <1>2, <2>2 DEF Join, Goto
    <3>2. secret # dc'.account
      BY <1>2, <2>2 DEF Join, Dcs, ContainerInv, TypeOK
    <3>3. Phases!Lose
      BY <3>1, <3>2 DEF Phases!Lose, VerdictOf
    <3> QED BY <3>3 DEF Phases!Next
  <2> QED BY <2>1, <2>2
<1>3. CASE StoreSecret
  <2>1. CASE Exit /\ UNCHANGED secret
    BY <1>3, <2>1, ExitBegins DEF StoreSecret, Outside, Phases!Next
  <2>2. CASE ~(Exit /\ UNCHANGED secret)
    <3>1. /\ phase = "store" /\ phase' = "dns" /\ UNCHANGED <<channel, health, dc>>
          /\ dc.account = None \/ secret' = dc.account
      BY <1>3, <2>2 DEF StoreSecret, Goto
    <3>2. health.verdict \in {"starting", "unhealthy"}
      BY <3>1 DEF Healths, ContainerInv, TypeOK, PhasesOK
    <3>3. CASE dc.account = None
      BY <3>1, <3>3 DEF Phases!Next, Phases!Lose, VerdictOf
    <3>4. CASE dc.account # None
      BY <3>1, <3>2, <3>4 DEF Phases!Next, Phases!Join, VerdictOf
    <3> QED BY <3>3, <3>4
  <2> QED BY <2>1, <2>2
<1>6. CASE RegisterDns \/ RegisterDnsJoin
  <2>1. /\ phase \in {"dns", "dnsJoin"} /\ phase' \in {"dnsJoin", "trust"}
        /\ UNCHANGED <<channel, health, secret>>
    BY <1>6 DEF RegisterDns, RegisterDnsJoin, Start, Goto
  <2>2. UNCHANGED dc \/ Registered(Admin) \/ Registered(secret)
    BY <1>6 DEF RegisterDns, RegisterDnsJoin
  <2>3. dc'.account = dc.account
    BY <2>2 DEF Registered, Dcs, ContainerInv, TypeOK
  <2>4. Member' = Member
    BY <2>1, <2>3 DEF Member
  <2> QED BY <2>1, <2>4, GoingOnIsSilent
<1>4. CASE Unregister
  <2>1. phase = "unregister" /\ phase' = "leave" /\ UNCHANGED <<channel, secret>>
    BY <1>4 DEF Unregister, Goto
  <2>2. dc'.account = dc.account
    BY <1>4 DEF Unregister, Dcs, ContainerInv, TypeOK
  <2> QED BY <2>1, <2>2 DEF Phases!vars, VerdictOf
<1>5. CASE LeaveDomain
  <2>1. phase = "leave" /\ phase' = "none" /\ UNCHANGED channel /\ secret' = None
    BY <1>5 DEF LeaveDomain, Goto
  <2> QED BY <2>1 DEF Phases!Next, Phases!Leave, VerdictOf
<1> QED BY <1>1, <1>2, <1>3, <1>4, <1>5, <1>6 DEF Entrypoint

LEMMA ProbeRefines ==
  ASSUME ContainerInv, Probe
  PROVE  [Phases!Next]_(Phases!vars)
<1>1. /\ phase \notin {"none", "off", "unregister", "leave", "restarting"} /\ phase' = phase
      /\ UNCHANGED <<channel, secret, dc>>
  BY DEF Probe, Running
<1>2. VerdictOf = health.verdict /\ VerdictOf' = health'.verdict
  BY <1>1 DEF VerdictOf
<1>3. health.verdict \in {"starting", "healthy", "unhealthy"}
  BY DEF Healths, ContainerInv, TypeOK
<1>4. \/ channel /\ health'.verdict = "healthy"
      \/ health'.verdict = "unhealthy"
      \/ health'.verdict = health.verdict
  BY DEF Probe, Healths, ContainerInv, TypeOK
<1>5. CASE health'.verdict = health.verdict
  BY <1>1, <1>2, <1>5 DEF Phases!vars
<1>6. CASE channel /\ health'.verdict = "healthy" /\ health'.verdict # health.verdict
  BY <1>1, <1>2, <1>3, <1>6 DEF Phases!Next, Phases!TurnHealthy
<1>7. CASE health'.verdict = "unhealthy" /\ health'.verdict # health.verdict
  BY <1>1, <1>2, <1>3, <1>7 DEF Phases!Next, Phases!TurnUnhealthy
<1> QED BY <1>4, <1>5, <1>6, <1>7

LEMMA EngineRefines ==
  ASSUME ContainerInv, Restart \/ StopContainer \/ BeginLeave \/ \E c \in Configs : Launch(c)
  PROVE  [Phases!Next]_(Phases!vars)
<1>1. CASE Restart
  <2>1. /\ phase = "restarting" /\ phase' = "files" /\ health'.verdict = "starting"
        /\ UNCHANGED <<channel, secret, dc>>
    BY <1>1 DEF Restart, Goto, Unprobed
  <2> QED BY <2>1 DEF Phases!vars, VerdictOf
<1>2. CASE StopContainer
  <2>1. phase' = "off" /\ channel' = FALSE /\ UNCHANGED <<secret, dc>>
    BY <1>2 DEF StopContainer, End
  <2> QED BY <2>1 DEF Phases!Next, Phases!Stop, VerdictOf
<1>3. CASE BeginLeave
  <2>1. phase = "off" /\ UNCHANGED <<channel, dc>>
        /\ \/ phase' = "none" /\ secret' = None
           \/ phase' = "unregister" /\ UNCHANGED secret
    BY <1>3 DEF BeginLeave
  <2> QED BY <2>1 DEF Phases!vars, Phases!Next, Phases!Leave, VerdictOf
<1>4. ASSUME NEW c \in Configs, Launch(c) PROVE Phases!Begin
  <2>1. /\ phase' = "files" /\ health'.verdict = "starting" /\ channel' = FALSE
        /\ UNCHANGED <<secret, dc>>
    BY <1>4 DEF Launch, End, Unprobed
  <2> QED BY <2>1 DEF Phases!Begin, VerdictOf
<1> QED BY <1>1, <1>2, <1>3, <1>4 DEF Phases!Next

LEMMA SurroundingsRefine ==
  ASSUME ContainerInv,
         \/ \E d \in Daemons : DaemonDies(d)
         \/ Connect \/ Outage \/ DcBack \/ Refuse \/ Admit \/ DeleteAccount \/ RenewCert
  PROVE  [Phases!Next]_(Phases!vars)
<1>1. CASE Connect
  <2>1. /\ phase \notin {"none", "off", "unregister", "leave", "restarting"} /\ Member
        /\ channel' = TRUE /\ UNCHANGED <<phase, health, secret, dc>>
    BY <1>1 DEF Connect, Joined, Member, ContainerInv, PhasesOK, Unmanned
  <2>2. VerdictOf # "stopped" /\ VerdictOf' = VerdictOf
    BY <2>1 DEF VerdictOf, Healths, ContainerInv, TypeOK
  <2> QED BY <2>1, <2>2 DEF Phases!Next, Phases!Connect, Member
<1>2. CASE ~Connect
  <2>1. UNCHANGED <<phase, health, secret>> /\ channel' \in {channel, FALSE}
    BY <1>2 DEF DaemonDies, Outage, DcBack, Refuse, Admit, DeleteAccount, RenewCert, Around,
                ContainerInv, TypeOK
  <2>2. dc'.account = dc.account \/ dc'.account = None
    BY <1>2 DEF DaemonDies, Outage, DcBack, Refuse, Admit, DeleteAccount, RenewCert, Dcs,
                ContainerInv, TypeOK
  <2>3. Phases!Lose
    BY <2>1, <2>2 DEF Phases!Lose, VerdictOf
  <2> QED BY <2>3 DEF Phases!Next
<1> QED BY <1>1, <1>2

LEMMA StepRefines == ContainerInv /\ [Next]_vars => [Phases!Next]_(Phases!vars)
<1> SUFFICES ASSUME ContainerInv, [Next]_vars PROVE [Phases!Next]_(Phases!vars)
  OBVIOUS
<1>1. CASE UNCHANGED vars
  BY <1>1 DEF vars, Phases!vars, VerdictOf
<1>2. CASE Next
  BY <1>2, EntrypointRefines, ProbeRefines, EngineRefines, SurroundingsRefine
     DEF Next, Disturbance
<1> QED BY <1>1, <1>2

\* The container, with every step of its entrypoint and its probes, keeps what
\* the control plane takes for granted of it (entrypoint.sh:366-515,
\* healthcheck.sh): it is found healthy only over a channel made since it began.
THEOREM ContainerKeepsItsPhases == Spec => KeepsItsPhases
BY PhasesInit, StepRefines, ContainerAlways, PTL DEF Spec, KeepsItsPhases, Phases!Spec

-----------------------------------------------------------------------------
(* The console.                                                            *)

\* Only the last step of the entrypoint starts radiusd, and only with radiusd is
\* a container found healthy.
HealthyIsUp ==
  /\ health \in Healths
  /\ "radiusd" \in live => phase = "supervise"
  /\ Running /\ health.verdict = "healthy" => phase = "supervise"

\* A container that has ended by itself runs again only because the restart
\* policy has restarted it, and is not healthy yet.
EndedIsSeen ==
  ended /\ Running => restarts = 1 /\ health.verdict # "healthy"

ConsoleInv == HealthyIsUp /\ EndedIsSeen

LEMMA Fresh == Unprobed \in Healths /\ Unprobed.verdict = "starting"
BY DEF Unprobed, Healths, Retries

LEMMA ConsoleInvInit == ConsoleInit => ConsoleInv
BY Fresh DEF ConsoleInit, Init, ConsoleInv, HealthyIsUp, EndedIsSeen, Running

\* Whoever starts the container, it begins anew.
LEMMA BootKeeps ==
  ASSUME NEW c, Boot(c)
  PROVE  ConsoleInv'
BY Fresh DEF Boot, End, ConsoleInv, HealthyIsUp, EndedIsSeen, Running

-----------------------------------------------------------------------------
(* What the container does by itself.                                      *)

LEMMA EntrypointUp ==
  ASSUME HealthyIsUp, Entrypoint
  PROVE  HealthyIsUp'
<1>1. UNCHANGED health
  BY DEF Entrypoint, Prepare, Assemble, TestJoin, Join, StoreSecret, RegisterDns,
         RegisterDnsJoin, WaitTrust, WaitTunnel, CheckConfig, Supervise, Unregister,
         LeaveDomain, Outside
<1>2. \/ phase' = "restarting" /\ live' = {}
      \/ phase' = "supervise"
      \/ phase # "supervise" /\ live' \subseteq live \cup {"winbindd", "stunnel"}
  BY DEF Entrypoint, Prepare, Assemble, TestJoin, Join, StoreSecret, RegisterDns,
         RegisterDnsJoin, WaitTrust, WaitTunnel, CheckConfig, Supervise, Unregister,
         LeaveDomain, Exit, End, Goto, Start, Retry
<1>3. phase # "supervise" /\ Running => health.verdict # "healthy"
  BY DEF HealthyIsUp
<1>4. Running' /\ phase # "restarting" => Running
  BY DEF Running, Entrypoint, Prepare, Assemble, TestJoin, Join, StoreSecret, RegisterDns,
         RegisterDnsJoin, WaitTrust, WaitTunnel, CheckConfig, Supervise, Unregister,
         LeaveDomain, Exit, End, Goto, Start, Retry
<1>5. phase # "restarting"
  BY DEF Entrypoint, Prepare, Assemble, TestJoin, Join, StoreSecret, RegisterDns,
         RegisterDnsJoin, WaitTrust, WaitTunnel, CheckConfig, Supervise, Unregister, LeaveDomain
<1> QED BY <1>1, <1>2, <1>3, <1>4, <1>5 DEF HealthyIsUp, Running

\* Supervised and healthy, it has come back; else it is as it was, or has ended.
LEMMA InsideKeeps ==
  ASSUME ConsoleInv, Inside
  PROVE  ConsoleInv'
<1>1. Aside /\ (Entrypoint \/ Connect \/ Probe \/ Disturbance)
  BY DEF Inside, Disturbance
<1>2. HealthyIsUp'
  <2>1. CASE Entrypoint
    BY <2>1, EntrypointUp DEF ConsoleInv
  <2>2. CASE Probe
    <3>1. UNCHANGED <<phase, live>> /\ health' \in Healths
      BY <2>2 DEF Probe, Healths, Retries, ConsoleInv, HealthyIsUp
    <3>2. health'.verdict = "healthy" => "radiusd" \in live \/ health.verdict = "healthy"
      BY <2>2 DEF Probe, Healths, ConsoleInv, HealthyIsUp
    <3> QED BY <3>1, <3>2 DEF ConsoleInv, HealthyIsUp, Running
  <2>3. CASE ~Entrypoint /\ ~Probe
    <3>1. UNCHANGED <<phase, health>> /\ live' \subseteq live
      BY <2>3 DEF Inside, Connect, DaemonDies, Outage, DcBack, Refuse, Admit, DeleteAccount,
             RenewCert, Around
    <3> QED BY <3>1 DEF ConsoleInv, HealthyIsUp, Running
  <2> QED BY <2>1, <2>2, <2>3
<1>3. EndedIsSeen'
  <2> SUFFICES ASSUME ended', Running' PROVE restarts' = 1 /\ health'.verdict # "healthy"
    BY DEF EndedIsSeen
  <2>1. Running \/ phase = "restarting" \/ phase = "off"
    BY DEF Running, Inside, Entrypoint, Prepare, Assemble, TestJoin, Join, StoreSecret,
           RegisterDns, RegisterDnsJoin, WaitTrust, WaitTunnel, CheckConfig, Supervise,
           Unregister, LeaveDomain, Connect,
           Probe, DaemonDies, Outage, DcBack, Refuse, Admit, DeleteAccount, RenewCert,
           Around, Goto
  <2>2. Running
    BY <2>1 DEF Running, Inside, Entrypoint, Prepare, Assemble, TestJoin, Join, StoreSecret,
           RegisterDns, RegisterDnsJoin, WaitTrust, WaitTunnel, CheckConfig, Supervise,
           Unregister, LeaveDomain, Connect,
           Probe, DaemonDies, Outage, DcBack, Refuse, Admit, DeleteAccount, RenewCert, Around
  <2>3. ended /\ UNCHANGED restarts
    BY <1>1 DEF Aside, Running
  <2>4. ~(phase' = "supervise" /\ health'.verdict = "healthy")
    BY <1>1 DEF Aside
  <2> QED BY <1>2, <2>2, <2>3, <2>4 DEF ConsoleInv, EndedIsSeen, HealthyIsUp
<1> QED BY <1>2, <1>3 DEF ConsoleInv

LEMMA ConsoleInvStep == ConsoleInv /\ [ConsoleNext]_allVars => ConsoleInv'
<1> SUFFICES ASSUME ConsoleInv, [ConsoleNext]_allVars PROVE ConsoleInv'
  OBVIOUS
<1>1. CASE UNCHANGED <<vars, exists, restarts, ended>>
  BY <1>1 DEF vars, ConsoleInv, HealthyIsUp, EndedIsSeen, Running
<1>2. CASE \E c : Boot(c)
  BY <1>2, BootKeeps
<1>3. CASE Inside
  BY <1>3, InsideKeeps
<1>4. CASE ComesBack
  <2>1. phase' = "files" /\ health' = Unprobed /\ restarts' = 1 /\ live' = live
        /\ phase = "restarting"
    BY <1>4 DEF ComesBack, Restart, Goto
  <2> QED BY <2>1, Fresh DEF ConsoleInv, HealthyIsUp, EndedIsSeen
<1>5. CASE StopInstance
  <2>1. phase' = "off" /\ live' = {} /\ UNCHANGED health
    BY <1>5 DEF StopInstance, StopContainer, End
  <2> QED BY <2>1 DEF ConsoleInv, HealthyIsUp, EndedIsSeen, Running
<1>6. CASE RemoveInstance
  <2>1. /\ phase = "off" /\ phase' \in {"none", "unregister"}
        /\ UNCHANGED <<live, health>>
    BY <1>6 DEF RemoveInstance, BeginLeave, vars
  <2> QED BY <2>1 DEF ConsoleInv, HealthyIsUp, EndedIsSeen, Running
<1> QED BY <1>1, <1>2, <1>3, <1>4, <1>5, <1>6
    DEF ConsoleNext, Command, SetLdapCa, Create, Reconcile, Update, Rollback, Look, Deadline,
        Proceed, Restore, Fails, Others, StartInstance, RestartInstance, allVars, console

LEMMA ConsoleAlways == ConsoleSpec => []ConsoleInv
BY ConsoleInvInit, ConsoleInvStep, PTL DEF ConsoleSpec

-----------------------------------------------------------------------------
(* The types, of the command and of the container under it.                *)

\* A command is a record, there is none while the console is idle, and an update
\* remembers what it goes back to.
CommandOK ==
  /\ DOMAIN cmd = {"pc", "op", "back", "exit"}
  /\ cmd.pc \in {"idle", "settle", "watch"} /\ cmd.op \in Commands
  /\ cmd.exit \in {"none", "zero", "one"}
  /\ cmd.pc = "idle" => cmd.op = "none"
  /\ cmd.pc = "watch" => cmd.op = "update"
  /\ cmd.op = "update" => cmd.back \in Contents

\* The steps of a command.
LEMMA CommandStep == CommandOK /\ conf \in Contents /\ [ConsoleNext]_allVars => CommandOK'
<1> SUFFICES ASSUME CommandOK, conf \in Contents, [ConsoleNext]_allVars PROVE CommandOK'
  OBVIOUS
<1>1. CASE UNCHANGED cmd
  BY <1>1 DEF CommandOK
<1>2. CASE Command
  <2>1. \/ \E o \in {"apply", "restore"} : Begin(o, None)
        \/ Begin("update", conf)
    BY <1>2 DEF Command, SetLdapCa, Create, Reconcile, Update, Rollback
  <2> QED BY <2>1 DEF Begin, CommandOK, Commands
<1>3. CASE \E code \in {"zero", "one"} : Answer(code)
  BY <1>3 DEF Answer, CommandOK, Commands
<1>4. CASE cmd.op = "update" /\ cmd' = [cmd EXCEPT !.pc = "watch"]
  BY <1>4 DEF CommandOK
<1>5. CASE Restore
  BY <1>5 DEF Restore, CommandOK, Commands
<1> QED BY <1>1, <1>2, <1>3, <1>4, <1>5
    DEF ConsoleNext, Look, Deadline, Proceed, Fails, Others, StartInstance, RestartInstance,
        StopInstance, RemoveInstance, Inside, Aside, ComesBack, allVars, console

LEMMA BootTypes ==
  ASSUME ContainerInv, NEW c \in Contents, Boot(c)
  PROVE  ContainerInv' /\ exists' \in BOOLEAN /\ restarts' \in {0, 1} /\ ended' \in BOOLEAN
<1>1. TypeOK'
  BY Fresh, NoTry DEF Boot, End, ContainerInv, TypeOK
<1>2. PhasesOK' /\ DcOK'
  BY Fresh DEF Boot, End, PhasesOK, DcOK
<1>3. exists' = TRUE /\ restarts' = 0 /\ ended' = FALSE
  BY DEF Boot
<1> QED BY <1>1, <1>2, <1>3 DEF ContainerInv

ConsoleTypes ==
  /\ ContainerInv /\ CommandOK
  /\ exists \in BOOLEAN /\ restarts \in {0, 1} /\ ended \in BOOLEAN

LEMMA ConsoleTypesInit == ConsoleInit => ConsoleTypes
<1> SUFFICES ASSUME ConsoleInit PROVE ConsoleTypes
  OBVIOUS
<1>1. CommandOK
  BY DEF ConsoleInit, CommandOK, Commands
<1>2. ContainerInv
  BY ContainerInit DEF ConsoleInit
<1>3. exists = FALSE /\ restarts = 0 /\ ended = FALSE
  BY DEF ConsoleInit
<1> QED BY <1>1, <1>2, <1>3 DEF ConsoleTypes

LEMMA ConsoleTypesStep == ConsoleTypes /\ [ConsoleNext]_allVars => ConsoleTypes'
<1> SUFFICES ASSUME ConsoleTypes, [ConsoleNext]_allVars PROVE ConsoleTypes'
  OBVIOUS
<1>1. conf \in Contents /\ dc.cert \in Certs
  BY DEF ConsoleTypes, ContainerInv, TypeOK, Dcs
<1>2. CommandOK'
  BY <1>1, CommandStep DEF ConsoleTypes
<1>3. CASE \E c \in Contents : Boot(c)
  BY <1>2, <1>3, BootTypes DEF ConsoleTypes
<1>4. ASSUME [Next]_vars, exists' \in BOOLEAN, restarts' \in {0, 1}, ended' \in BOOLEAN
      PROVE  ConsoleTypes'
  BY <1>2, <1>4, ContainerStep DEF ConsoleTypes
<1>5. CASE Command \/ StartInstance \/ RestartInstance
  <2>1. ASSUME NEW c \in Configs, NEW cert \in Certs PROVE WithPin(c, cert) \in Contents
    BY ContainerConstants DEF WithPin, Contents
  <2>2. ASSUME NEW cert \in Certs PROVE [conf EXCEPT !.cert = cert] \in Contents
    BY <1>1 DEF Contents
  <2>3. ASSUME NEW good \in BOOLEAN PROVE [conf EXCEPT !.eap = good] \in Contents
    BY <1>1 DEF Contents
  <2> QED BY <1>1, <1>3, <1>5, <2>1, <2>2, <2>3 DEF Command, SetLdapCa, Create, Reconcile,
       Update, Rollback, StartInstance, RestartInstance
<1>6. CASE cmd.pc = "watch" /\ Restore
  BY <1>3, <1>6 DEF Restore, ConsoleTypes, CommandOK
<1>7. CASE UNCHANGED <<vars, exists, restarts, ended>>
  <2>1. UNCHANGED vars /\ UNCHANGED exists /\ UNCHANGED restarts /\ UNCHANGED ended
    BY <1>7
  <2> QED BY <1>4, <2>1 DEF ConsoleTypes
<1>8. CASE StopInstance \/ RemoveInstance
  <2>1. [Next]_vars
    BY <1>8 DEF StopInstance, RemoveInstance, Next, Disturbance
  <2>2. (exists' = FALSE \/ UNCHANGED exists) /\ UNCHANGED restarts /\ UNCHANGED ended
    BY <1>8 DEF StopInstance, RemoveInstance, console
  <2> QED BY <1>4, <2>1, <2>2 DEF ConsoleTypes
<1>9. CASE Inside \/ ComesBack
  <2>1. [Next]_vars
    BY <1>9 DEF Inside, ComesBack, Next, Disturbance
  <2>2. UNCHANGED exists /\ (restarts' = 1 \/ UNCHANGED restarts) /\ (UNCHANGED ended \/ Aside)
    BY <1>9 DEF Inside, Aside, ComesBack
  <2>3. ended' \in BOOLEAN
    BY <2>2 DEF Aside, ConsoleTypes
  <2> QED BY <1>4, <2>1, <2>2, <2>3 DEF ConsoleTypes
<1> QED BY <1>5, <1>6, <1>7, <1>8, <1>9 DEF ConsoleNext, Look, Deadline, Proceed, Fails, Others,
       allVars, console

LEMMA TypesAlways == ConsoleSpec => []ConsoleTypes
BY ConsoleTypesInit, ConsoleTypesStep, PTL DEF ConsoleSpec

\* The type invariant of the console and the container under it.
THEOREM ConsoleTypeCorrect == ConsoleSpec => []ConsoleTypeOK
<1>1. ConsoleTypes => ConsoleTypeOK
  BY DEF ConsoleTypes, ConsoleTypeOK, ContainerInv, CommandOK
<1> QED BY <1>1, TypesAlways, PTL

-----------------------------------------------------------------------------
(* What the console answers.                                               *)

LEMMA SuccessStep ==
  ASSUME ConsoleInv, CommandOK, [ConsoleNext]_allVars,
         cmd.op \in {"apply", "update"}, cmd'.pc = "idle", cmd'.exit = "zero"
  PROVE  exists /\ Running /\ ~ended
<1>1. cmd.pc # "idle"
  BY DEF CommandOK
<1>2. cmd' # cmd
  BY <1>1
<1>3. Look \/ Deadline
  <2>1. ~Command
    BY <1>1 DEF Command, SetLdapCa, Create, Reconcile, Update, Rollback, Begin
  <2>2. ~Fails
    BY DEF Fails, Answer
  <2>3. ~Others
    BY <1>2 DEF Others, StartInstance, RestartInstance, StopInstance, RemoveInstance, console
  <2>4. ~Inside /\ ~ComesBack /\ ~UNCHANGED allVars
    BY <1>2 DEF Inside, Aside, ComesBack, console, allVars
  <2> QED BY <2>1, <2>2, <2>3, <2>4 DEF ConsoleNext
<1>4. cmd' # [cmd EXCEPT !.pc = "watch"] /\ ~Restore
  BY DEF Restore, CommandOK
<1>5. \/ cmd.pc = "settle" /\ ~Problem
      \/ cmd.pc = "watch" /\ exists /\ Seen = "healthy"
  BY <1>3, <1>4 DEF Look, Deadline, Proceed, Answer
<1>6. CASE ~Problem
  <2>1. exists /\ Running /\ (restarts > 0 => Seen = "healthy")
    BY <1>6 DEF Problem, CrashLooping
  <2>2. ~(restarts = 1 /\ health.verdict # "healthy")
    BY <2>1 DEF Seen
  <2> QED BY <2>1, <2>2 DEF ConsoleInv, EndedIsSeen
<1>7. CASE exists /\ Seen = "healthy"
  BY <1>7 DEF Seen, ConsoleInv, EndedIsSeen
<1> QED BY <1>5, <1>6, <1>7

\* "A container that crash-loops right after the start must not pass as success"
\* (cli.py:301-304): neither in an exit code nor as the success of an update.
THEOREM CrashLoopsFail == ConsoleSpec => CrashLoopIsNotSuccess
<1>1. ConsoleInv /\ ConsoleTypes /\ [ConsoleNext]_allVars
        => [cmd.op \in {"apply", "update"} /\ cmd'.pc = "idle" /\ cmd'.exit = "zero" =>
              exists /\ Running /\ ~ended]_allVars
  BY SuccessStep DEF ConsoleTypes
<1> QED BY <1>1, ConsoleAlways, TypesAlways, PTL DEF ConsoleSpec, CrashLoopIsNotSuccess

LEMMA LoopStep ==
  ASSUME ConsoleInv, [ConsoleNext]_allVars, CrashLooping, ~CrashLooping'
  PROVE  ~exists' \/ ~wanted' \/ (restarts' = 0 /\ phase' = "files") \/ Seen' = "healthy"
<1>1. CASE UNCHANGED <<vars, exists, restarts>>
  BY <1>1 DEF vars, CrashLooping, Seen, Running
<1>2. CASE \E c : Boot(c)
  BY <1>2 DEF Boot, End
<1>3. CASE Inside
  <2>1. UNCHANGED <<exists, restarts>>
    BY <1>3 DEF Inside, Aside
  <2>2. phase = "restarting" => phase' = "restarting"
    BY <1>3 DEF Inside, Entrypoint, Prepare, Assemble, TestJoin, Join, StoreSecret, RegisterDns,
         RegisterDnsJoin, WaitTrust,
       WaitTunnel, CheckConfig, Supervise, Unregister, LeaveDomain, Connect, Probe, Running,
       DaemonDies, Outage, DcBack, Refuse, Admit, DeleteAccount, RenewCert, Around
  <2> QED BY <2>1, <2>2 DEF CrashLooping
<1>4. CASE ComesBack
  <2>1. /\ phase' = "files" /\ health' = Unprobed /\ restarts' = 1 /\ UNCHANGED exists
    BY <1>4 DEF ComesBack, Restart, Goto
  <2>2. Seen' # "healthy"
    BY <2>1, Fresh DEF Seen, Running
  <2> QED BY <2>1, <2>2 DEF CrashLooping
<1>5. CASE StopInstance
  BY <1>5 DEF StopInstance, StopContainer
<1>6. CASE RemoveInstance
  BY <1>6 DEF RemoveInstance
<1> QED BY <1>1, <1>2, <1>3, <1>4, <1>5, <1>6
    DEF ConsoleNext, Command, SetLdapCa, Create, Reconcile, Update, Rollback, Look, Deadline,
        Proceed, Restore, Fails, Others, StartInstance, RestartInstance, allVars, console

\* The verdict "crash-looping" does not come and go with every restart
\* (docker_service.py:89-115).
THEOREM CrashLoopsStand == ConsoleSpec => CrashLoopStands
<1>1. ConsoleInv /\ [ConsoleNext]_allVars
        => [CrashLooping /\ ~CrashLooping' =>
              ~exists' \/ ~wanted' \/ (restarts' = 0 /\ phase' = "files") \/ Seen' = "healthy"]_allVars
  BY LoopStep
<1> QED BY <1>1, ConsoleAlways, PTL DEF ConsoleSpec, CrashLoopStands
=============================================================================
