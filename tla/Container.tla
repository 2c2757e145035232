----------------------------- MODULE Container -----------------------------
(***************************************************************************)
(* The container of one instance: image/entrypoint.sh from its start to    *)
(* the supervision of its daemons, the one-off "leave", the health check,  *)
(* the restart policy of the engine, and the domain controller (DC), which *)
(* can become unreachable or change between any two of their steps.        *)
(*                                                                         *)
(* Every join makes a new machine account; the volume holds the secret of  *)
(* one.  Time is abstracted: a bounded wait makes a bounded number of      *)
(* tries.                                                                  *)
(***************************************************************************)
EXTENDS Naturals

CONSTANTS
  Configs,   \* what the control plane may create the container with
  Accounts,  \* machine accounts that a join can make
  Certs,     \* certificates that the DC's LDAPS listener can have
  Admin,     \* owner of what an administrator has made on the DC beforehand
  None,
  Wait       \* how many tries a bounded wait makes

Pins == {"plain", "unverified", "chain", "peer", "unusable"}

ASSUME ContainerConstants ==
  /\ Configs \subseteq [pin : Pins, eap : BOOLEAN, host : BOOLEAN]
  /\ Admin \notin Accounts
  /\ None \notin Accounts \cup {Admin}
  /\ Wait \in Nat

VARIABLES
  phase,    \* where the entrypoint is
  conf,     \* environment and files of the container
  live,     \* the daemons that run
  waited,   \* failed tries of the current wait
  wanted,   \* does the restart policy hold (nobody has stopped it)?
  secret,   \* the machine secret on the volume
  health,   \* the engine's verdict and the failed probes behind it
  channel,  \* does winbindd have a secure channel to the DC?
  dc,       \* the DC: reachable?, does it take the join account's password?,
            \* computer account, certificate, A record
  rc        \* the exit code of the "leave" that removes it

vars == <<phase, conf, live, waited, wanted, secret, health, channel, dc, rc>>

Daemons == {"winbindd", "stunnel", "radiusd"}
Retries == 3

Contents == [pin : Pins, eap : BOOLEAN, host : BOOLEAN, cert : Certs]
Healths == [verdict : {"starting", "healthy", "unhealthy"}, failed : 0 .. Retries]
Dcs == [up : BOOLEAN, admits : BOOLEAN, cert : Certs,
        account : Accounts \cup {Admin, None}, owner : Accounts \cup {Admin, None},
        addr : {"none", "host", "other"}]

TypeOK ==
  /\ phase \in {"none", "off", "restarting", "files", "assemble", "testjoin", "join",
                "store", "dns", "dnsJoin", "trust", "tunnel", "check", "supervise",
                "unregister", "leave"}
  /\ conf \in Contents
  /\ live \subseteq Daemons
  /\ waited \in 0 .. Wait
  /\ wanted \in BOOLEAN
  /\ secret \in Accounts \cup {None}
  /\ health \in Healths
  /\ channel \in BOOLEAN
  /\ dc \in Dcs
  /\ rc \in {"none", "zero", "one"}

WithPin(c, cert) == [pin |-> c.pin, eap |-> c.eap, host |-> c.host, cert |-> cert]

Unprobed == [verdict |-> "starting", failed |-> 0]

\* There is neither a container nor a volume.  The computer account and the A record
\* may come from devices.csv.
Init ==
  /\ phase = "none" /\ wanted = FALSE /\ live = {} /\ waited = 0
  /\ \E cert \in Certs, imported \in BOOLEAN :
       /\ \E c \in Configs : conf = WithPin(c, cert)
       /\ dc = [up |-> TRUE, admits |-> TRUE, cert |-> cert,
                account |-> IF imported THEN Admin ELSE None,
                owner   |-> IF imported THEN Admin ELSE None,
                addr    |-> IF imported THEN "other" ELSE "none"]
  /\ secret = None /\ channel = FALSE /\ health = Unprobed /\ rc = "none"

-----------------------------------------------------------------------------
(* The main process begins and ends.                                       *)

\* When the entrypoint is gone the kernel kills what is left of its namespace.
End(p) == phase' = p /\ live' = {} /\ waited' = 0 /\ channel' = FALSE

\* It ends by itself, and the policy "unless-stopped" will start it again.
Exit == End("restarting")

Goto(p) == phase' = p /\ waited' = 0 /\ UNCHANGED <<live, channel>>

Start(p, daemon) ==
  /\ phase' = p /\ waited' = 0
  /\ live' = live \cup {daemon}
  /\ UNCHANGED channel

\* Mutation: one try too many.
Retry_OffByOne == waited <= Wait /\ waited' = waited + 1 /\ UNCHANGED <<phase, live, channel>>

\* A try that fails; after the last one the wait is over.
Retry == waited < Wait /\ waited' = waited + 1 /\ UNCHANGED <<phase, live, channel>>

Leaving == phase \in {"unregister", "leave"}

Restart ==
  /\ phase = "restarting" /\ wanted
  /\ Goto("files")
  /\ health' = Unprobed
  /\ UNCHANGED <<conf, wanted, secret, dc, rc>>

StopContainer ==
  /\ wanted /\ ~Leaving
  /\ wanted' = FALSE
  /\ End("off")
  /\ UNCHANGED <<conf, secret, health, dc, rc>>

\* start, restart, or a new container; a "peer" pin is fetched from the DC.  For
\* a container that is restarting anyway, a start is the step Restart.
Launch(c) ==
  /\ ~Leaving
  /\ conf' \in {conf, WithPin(c, dc.cert)}
  /\ phase = "restarting" => conf' # conf
  /\ End("files")
  /\ wanted' = TRUE
  /\ health' = Unprobed
  /\ rc' = "none"
  /\ UNCHANGED <<secret, dc>>

-----------------------------------------------------------------------------
(* The entrypoint, step by step.                                           *)

Outside == <<conf, wanted, secret, health, dc, rc>>

\* A pinned CA that cannot be read or holds no certificate is FATAL.
Prepare ==
  /\ phase = "files"
  /\ \/ conf.pin = "unusable" /\ Exit
     \/ conf.pin # "unusable" /\ Goto("assemble")
  /\ UNCHANGED Outside

\* The configuration tree is put together on the tmpfs.  An EAP file that is
\* missing is FATAL here, one that radiusd refuses only at the final check.
Assemble ==
  /\ phase = "assemble"
  /\ \/ ~conf.eap /\ Exit
     \/ Goto("testjoin")
  /\ UNCHANGED Outside

\* Does the DC accept the machine secret of the volume?
Joined == dc.up /\ secret # None /\ secret = dc.account

\* Mutation: a volume with a secret in it counts as joined.
TestJoin_Populated ==
  /\ phase = "testjoin"
  /\ \/ secret # None /\ Goto("dns")
     \/ secret = None /\ Goto("join")
  /\ UNCHANGED Outside

\* net ads testjoin: an unreachable DC looks like a volume that is not joined.
TestJoin ==
  /\ phase = "testjoin"
  /\ \/ Joined /\ Goto("dns")
     \/ ~Joined /\ Goto("join")
  /\ UNCHANGED Outside

\* May the join account do what it is asked for?
Admitted == dc.up /\ dc.admits

\* net ads join with the join account makes a machine account, or adopts the one
\* that is there, with a password nobody has had before.  If it fails, set -e.
Join ==
  /\ phase = "join"
  /\ \/ ~Admitted /\ Exit /\ UNCHANGED dc
     \/ /\ Admitted
        /\ dc' \in {[dc EXCEPT !.account = a] : a \in Accounts \ {secret, dc.owner}}
        /\ Goto("store")
  /\ UNCHANGED <<conf, wanted, secret, health, rc>>

\* Its last step puts that password on the volume, whatever has become of the account.
StoreSecret ==
  /\ phase = "store"
  /\ \/ ~dc.up /\ Exit /\ UNCHANGED secret
     \/ /\ secret' \in IF dc.account # None THEN {dc.account}
                         ELSE Accounts \ {secret, dc.owner}
        /\ Goto("dns")
  /\ UNCHANGED <<conf, wanted, health, dc, rc>>

\* The node of an A record belongs to whoever made it, for good.
Own(owner) == IF dc.owner = None THEN owner ELSE dc.owner

\* The machine account may write a node that is its own or not there yet.
MayWrite == Joined /\ dc.owner \in {None, secret}

Registered(owner) == dc' = [dc EXCEPT !.addr = "host", !.owner = Own(owner)]

\* Mutation: no second try with the join account.
RegisterDns_MachineOnly ==
  /\ phase = "dns"
  /\ \/ conf.host /\ MayWrite /\ Registered(secret)
     \/ ~(conf.host /\ MayWrite) /\ UNCHANGED dc
  /\ Start("trust", "winbindd")
  /\ UNCHANGED <<conf, wanted, secret, health, rc>>

\* net ads dns register with the machine account (-P).  Then winbindd is started.
RegisterDns ==
  /\ phase = "dns"
  /\ \/ conf.host /\ MayWrite /\ Registered(secret) /\ Start("trust", "winbindd")
     \/ conf.host /\ ~MayWrite /\ Goto("dnsJoin") /\ UNCHANGED dc
     \/ ~conf.host /\ Start("trust", "winbindd") /\ UNCHANGED dc
  /\ UNCHANGED <<conf, wanted, secret, health, rc>>

\* The second try, with the join account (-A); where it fails too there is a warning.
RegisterDnsJoin ==
  /\ phase = "dnsJoin"
  /\ \/ Admitted /\ Registered(Admin)
     \/ ~Admitted /\ UNCHANGED dc
  /\ Start("trust", "winbindd")
  /\ UNCHANGED <<conf, wanted, secret, health, rc>>

Tunnelled == conf.pin # "plain"

\* The wait for "wbinfo -t"; for ldaps:// stunnel is started next.
WaitTrust ==
  /\ phase = "trust"
  /\ \/ channel /\ Tunnelled  /\ Start("tunnel", "stunnel")
     \/ channel /\ ~Tunnelled /\ Goto("check")
     \/ ~channel /\ "winbindd" \notin live /\ Exit
     \/ ~channel /\ "winbindd" \in live /\ (Retry \/ (waited = Wait /\ Exit))
  /\ UNCHANGED Outside

\* The wait for the listener of the tunnel ends after some tries in any case.
WaitTunnel ==
  /\ phase = "tunnel"
  /\ \/ "stunnel" \notin live /\ Exit
     \/ "stunnel" \in live /\ (Retry \/ Goto("check"))
  /\ UNCHANGED Outside

\* Does the tunnel accept the certificate that the DC has now?
Verified ==
  \/ conf.pin \in {"plain", "unverified", "chain"}
  \/ conf.pin = "peer" /\ conf.cert = dc.cert

\* radiusd -XC reads the EAP files and opens the LDAP connections of its pool.
ConfigAccepted ==
  conf.eap /\ dc.up /\ Verified /\ (Tunnelled => "stunnel" \in live)

CheckConfig ==
  /\ phase = "check"
  /\ \/ ConfigAccepted  /\ Start("supervise", "radiusd")
     \/ ~ConfigAccepted /\ Exit
  /\ UNCHANGED Outside

Expected == IF Tunnelled THEN Daemons ELSE Daemons \ {"stunnel"}

\* Mutation: the tunnel is not watched.
Supervise_TunnelForgotten ==
  /\ phase = "supervise"
  /\ ~(Expected \ {"stunnel"} \subseteq live)
  /\ Exit
  /\ UNCHANGED Outside

\* The supervisor's loop ends when a daemon is gone.
Supervise ==
  /\ phase = "supervise"
  /\ ~(Expected \subseteq live)
  /\ Exit
  /\ UNCHANGED Outside

-----------------------------------------------------------------------------
(* "leave", in a container of its own on the same volume.                  *)

\* Removal of a stopped instance, joined or not.  The leave may be impossible to run,
\* and with an unusable pin the entrypoint does not come to it.  The control plane
\* drops the container and the volume in any case.
BeginLeave ==
  /\ phase = "off"
  /\ \/ rc' = "one" /\ secret' = None /\ phase' = "none"
     \/ conf.pin # "unusable" /\ rc' = "zero" /\ phase' = "unregister" /\ UNCHANGED secret
  /\ UNCHANGED <<conf, live, waited, wanted, health, channel, dc>>

\* Mutation: a record that could not be removed is not reported.
Unregister_NotReported ==
  /\ phase = "unregister"
  /\ dc' = [dc EXCEPT !.addr = IF dc.up THEN "none" ELSE @]
  /\ Goto("leave")
  /\ UNCHANGED <<conf, wanted, secret, health, rc>>

\* net ads dns unregister with the machine account, else with the join account: the
\* node stays, without an address.
Unregister ==
  /\ phase = "unregister"
  /\ \/ (MayWrite \/ Admitted) /\ dc' = [dc EXCEPT !.addr = "none"] /\ UNCHANGED rc
     \/ ~(MayWrite \/ Admitted) /\ rc' = "one" /\ UNCHANGED dc
  /\ Goto("leave")
  /\ UNCHANGED <<conf, wanted, secret, health>>

\* net ads leave; where there is no account it may fail or not.
LeaveDomain ==
  /\ phase = "leave"
  /\ \/ Admitted /\ dc' = [dc EXCEPT !.account = None] /\ UNCHANGED rc
     \/ (~Admitted \/ dc.account = None) /\ rc' = "one" /\ UNCHANGED dc
  /\ secret' = None
  /\ Goto("none")
  /\ UNCHANGED <<conf, wanted, health>>

-----------------------------------------------------------------------------
(* The engine's health check, every 30 s while the container runs.          *)

Running == phase \notin {"none", "off", "restarting", "unregister", "leave"}

\* Mutation: only the listener is asked.
Probe_ListenerOnly ==
  /\ Running
  /\ health' = IF "radiusd" \in live THEN [verdict |-> "healthy", failed |-> 0]
               ELSE [health EXCEPT !.failed = IF @ < Retries THEN @ + 1 ELSE @]
  /\ UNCHANGED <<phase, conf, live, waited, wanted, secret, channel, dc, rc>>

\* healthcheck.sh; a failure in the start period may not be counted.
Probe ==
  /\ Running
  /\ \/ /\ channel /\ "radiusd" \in live
        /\ health' = [verdict |-> "healthy", failed |-> 0]
     \/ /\ ~(channel /\ "radiusd" \in live)
        /\ \/ /\ health.failed + 1 < Retries
              /\ health' = [health EXCEPT !.failed = @ + 1]
           \/ /\ health.failed + 1 >= Retries
              /\ health' = [verdict |-> "unhealthy", failed |-> Retries]
           \/ /\ health.verdict = "starting" /\ phase # "supervise"
              /\ UNCHANGED health
  /\ UNCHANGED <<phase, conf, live, waited, wanted, secret, channel, dc, rc>>

-----------------------------------------------------------------------------
(* What happens around it.                                                 *)

DaemonDies(d) ==
  /\ d \in live
  /\ live' = live \ {d}
  /\ channel' = (channel /\ d # "winbindd")
  /\ UNCHANGED <<phase, waited, conf, wanted, secret, health, dc, rc>>

\* winbindd reaches the DC with the machine secret.
Connect ==
  /\ "winbindd" \in live /\ ~channel /\ Joined
  /\ channel' = TRUE
  /\ UNCHANGED <<phase, live, waited, conf, wanted, secret, health, dc, rc>>

Around == <<phase, conf, live, waited, wanted, secret, health, rc>>

Outage == dc.up /\ dc' = [dc EXCEPT !.up = FALSE] /\ channel' = FALSE /\ UNCHANGED Around

DcBack == ~dc.up /\ dc' = [dc EXCEPT !.up = TRUE] /\ UNCHANGED <<channel, Around>>

\* The join account's password is changed, or it is locked, until somebody sees to it.
Refuse == dc.admits /\ dc' = [dc EXCEPT !.admits = FALSE] /\ UNCHANGED <<channel, Around>>

Admit == ~dc.admits /\ dc' = [dc EXCEPT !.admits = TRUE] /\ UNCHANGED <<channel, Around>>

\* An import of devices.csv without the row deletes the account; the channel
\* that winbindd has may outlive it.
DeleteAccount ==
  /\ dc.up /\ dc.account # None
  /\ dc' = [dc EXCEPT !.account = None]
  /\ channel' \in {channel, FALSE}
  /\ UNCHANGED Around

RenewCert ==
  /\ dc' \in {[dc EXCEPT !.cert = c] : c \in Certs \ {dc.cert}}
  /\ UNCHANGED <<channel, Around>>

Entrypoint ==
  \/ Prepare \/ Assemble \/ TestJoin \/ Join \/ StoreSecret \/ RegisterDns
  \/ RegisterDnsJoin \/ WaitTrust \/ WaitTunnel \/ CheckConfig \/ Supervise
  \/ Unregister \/ LeaveDomain

\* What nobody is obliged to do.
Disturbance ==
  \/ StopContainer \/ BeginLeave \/ \E c \in Configs : Launch(c)
  \/ \E d \in Daemons : DaemonDies(d)
  \/ Outage \/ DcBack \/ Refuse \/ Admit \/ DeleteAccount \/ RenewCert

Next == Entrypoint \/ Restart \/ Connect \/ Probe \/ Disturbance

\* The shell goes on, the engine restarts and probes, and winbindd, which tries
\* all the time, reaches a DC that is there within the wait now and then.
Fairness ==
  /\ WF_vars(Entrypoint)
  /\ WF_vars(Restart)
  /\ WF_vars(Probe)
  /\ SF_vars(Connect)

Spec == Init /\ [][Next]_vars /\ Fairness

-----------------------------------------------------------------------------
(* Properties.                                                             *)

\* Once nothing disturbs it any more, an instance that is wanted, whose files are
\* good and whose DC is reachable and takes the join account comes up, stays up and
\* is found healthy, whatever state the disturbances have left: a stale secret, a
\* dead daemon, a join or a wait cut short (entrypoint.sh:369-515).  If the computer
\* account is deleted while it supervises it stays up and is not healthy, until an
\* operator restarts it (docs/operations.md:251-252); deleted before, it joins again.
Recovers ==
  (/\ <>[](wanted /\ Admitted /\ conf.eap /\ conf.pin # "unusable" /\ Verified)
   /\ <>[][~Disturbance]_vars)
     => <>[](phase = "supervise" /\ (Joined => health.verdict = "healthy"))

\* "A dead auth backend or a dead LDAP tunnel must not linger behind a live
\* listener" (entrypoint.sh:493-497).
NoDaemonStaysDead ==
  (phase = "supervise" /\ ~(Expected \subseteq live)) ~> (phase # "supervise")

\* A broken trust is noticed: no instance is healthy for ever without a channel
\* to the DC (healthcheck.sh:7-17).
LostTrustIsNoticed ==
  []<>(channel \/ phase # "supervise" \/ health.verdict # "healthy")

\* A start that is not cut short, and whose DC stays there and takes the join account,
\* ends with the host's address in the A record, whoever owns the record, also after a
\* removal and a new join (entrypoint.sh:388-407).  Otherwise there is a warning.
RecordFollowsHost ==
  (phase = "dns" /\ conf.host) ~>
    (dc.addr = "host" \/ ~Admitted \/ phase \in {"none", "off", "restarting", "files"})

\* A "leave" that exits with 0 leaves neither a computer account nor an A record
\* on the DC (entrypoint.sh:243-265).
LeaveIsHonest ==
  [][phase = "leave" /\ phase' = "none" /\ rc' = "zero" =>
       dc'.account = None /\ dc'.addr = "none"]_vars
=============================================================================
