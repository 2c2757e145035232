---------------------------- MODULE ServiceState ----------------------------
(***************************************************************************)
(* The service of the control plane as the package's maintainer scripts    *)
(* (debian/preinst, postinst, prerm, postrm) handle it: what an upgrade, a *)
(* removal, a reinstallation and a purge make of the administrator's       *)
(* decision to switch it off, while the administrator acts, the service    *)
(* fails and the machine goes down between any two of their steps.         *)
(*                                                                         *)
(* 7.3.5 and older (Legacy) kept no record of the decision.                *)
(***************************************************************************)
EXTENDS Naturals

CONSTANT Last   \* the last version there is

ASSUME LastAssumption == Last \in Nat /\ Last > 1

No     == 0     \* no files of the package, no process
Legacy == 1
Versions == Legacy .. Last

VARIABLES
  version,    \* of the package's files
  target,     \* the version dpkg is about to unpack
  stage,      \* where dpkg is
  configured, \* does dpkg pass a most recently configured version ($2)?
  link,       \* the enable link of the unit in /etc/systemd/system
  masked,     \* has the administrator masked the unit?
  known,      \* does deb-systemd-helper have a record of the unit?
  proc,       \* the version of the code the service runs
  images,     \* the version whose default image the instances are on
  up,         \* is systemd running?
  forbidden,  \* does policy-rc.d forbid to start and stop services?
  off,        \* history: the administrator has switched the service off
  blind,      \* history: the upgrade from Legacy found no running systemd
  left        \* history: the last configure left a masked service alone

unit == <<link, masked, known>>
hist == <<off, blind, left>>
vars == <<version, target, stage, configured, unit, proc, images, up, forbidden, hist>>

TypeOK ==
  /\ version \in Versions \cup {No}
  /\ target  \in Versions \cup {No}
  /\ stage \in {"idle", "preinst", "unpack", "enable", "start", "lift"}
  /\ proc   \in Versions \cup {No}
  /\ images \in Versions
  /\ {configured, link, masked, known, up, forbidden, off, blind, left} \subseteq BOOLEAN

\* Nothing, a Legacy installation, or what is left of a removed one.
Init ==
  /\ \/ version = No /\ link = FALSE /\ proc = No /\ configured \in BOOLEAN /\ off = FALSE
     \/ /\ version = Legacy /\ link \in BOOLEAN /\ configured = TRUE
        /\ proc \in {No, Legacy} /\ off = ~link
  /\ up \in BOOLEAN /\ (proc # No => up)
  /\ masked \in BOOLEAN /\ forbidden \in BOOLEAN
  /\ known = FALSE /\ target = No /\ stage = "idle" /\ images = Legacy
  /\ blind = FALSE /\ left = FALSE

-----------------------------------------------------------------------------
(* The maintainer scripts, in dpkg's order.                                *)

\* systemctl is-enabled, which says "masked" of a masked unit.
Enabled == link /\ ~masked

\* deb-systemd-helper was-enabled: true of a unit it does not know.
WasEnabled == known => link

\* An installation, an upgrade, or the same version once more.
Begin(v) ==
  /\ stage = "idle" /\ v > Legacy /\ v >= version
  /\ target' = v
  /\ stage' = "preinst"
  /\ blind' = FALSE
  /\ UNCHANGED <<version, configured, unit, proc, images, up, forbidden, off, left>>

\* Mutation: only an enabled service is recorded.
Preinst_EnabledOnly ==
  /\ stage = "preinst"
  /\ known' = (known \/ (version # No /\ Enabled))
  /\ blind' = (version # No /\ ~known /\ ~Enabled /\ ~up)
  /\ stage' = "unpack"
  /\ UNCHANGED <<version, target, configured, link, masked, proc, images, up, forbidden, off, left>>

\* An upgrade records once what the service is, unless systemd is down and the
\* missing link may be nobody's decision.
Preinst ==
  /\ stage = "preinst"
  /\ known' = (known \/ (version # No /\ (Enabled \/ up)))
  /\ blind' = (version # No /\ ~known /\ ~Enabled /\ ~up)
  /\ stage' = "unpack"
  /\ UNCHANGED <<version, target, configured, link, masked, proc, images, up, forbidden, off, left>>

\* A service that runs goes on with the code it has loaded: the prerm stops it
\* for a removal only.
Unpack ==
  /\ stage = "unpack"
  /\ version' = target
  /\ stage' = "enable"
  /\ UNCHANGED <<target, configured, unit, proc, images, up, forbidden, hist>>

\* dpkg-reconfigure.
Reconfigure ==
  /\ stage = "idle" /\ version > Legacy
  /\ stage' = "enable"
  /\ UNCHANGED <<version, target, configured, unit, proc, images, up, forbidden, hist>>

\* postinst: enable the unit, or only take note of it.
Enable ==
  /\ stage = "enable"
  /\ link' = WasEnabled
  /\ known' = TRUE
  /\ off' = (off /\ ~WasEnabled)
  /\ stage' = "start"
  /\ UNCHANGED <<version, target, configured, masked, proc, images, up, forbidden, blind, left>>

\* systemctl restart, start and try-restart, which starts nothing.
Restarted    == version
Started      == IF proc = No THEN version ELSE proc
TryRestarted == IF proc = No THEN No ELSE version

\* Mutation: "start" also on an upgrade.
Invoked_AlwaysStart ==
  IF ~up \/ forbidden THEN {proc}
  ELSE IF Enabled THEN {Started}
  ELSE IF masked THEN {proc, TryRestarted}
  ELSE {TryRestarted}

\* What may be running after the postinst's deb-systemd-invoke.  Whether
\* systemd restarts a masked unit that runs is left open.
Invoked ==
  IF ~up \/ forbidden THEN {proc}
  ELSE IF Enabled THEN {IF configured THEN Restarted ELSE Started}
  ELSE IF masked THEN {proc, TryRestarted}
  ELSE {TryRestarted}

Start ==
  /\ stage = "start"
  /\ proc' \in Invoked
  /\ left' = (up /\ masked)
  /\ stage' = IF up /\ configured THEN "lift" ELSE "idle"
  /\ configured' = TRUE
  /\ UNCHANGED <<version, target, unit, images, up, forbidden, off, blind>>

\* Mutation: nobody asks whether the service runs.
Lift_NotAsked ==
  /\ stage = "lift"
  /\ images' \in {images, proc}
  /\ stage' = "idle"
  /\ UNCHANGED <<version, target, configured, unit, proc, up, forbidden, hist>>

\* "lmnradius update-all" through a service that runs; a failure is ignored.
Lift ==
  /\ stage = "lift"
  /\ images' \in IF proc = No THEN {images} ELSE {images, proc}
  /\ stage' = "idle"
  /\ UNCHANGED <<version, target, configured, unit, proc, up, forbidden, hist>>

\* Mutation: the prerm disables the service, as it did up to 7.3.5.
Remove_Disables ==
  /\ stage = "idle" /\ version > Legacy
  /\ version' = No
  /\ proc' = IF up /\ ~forbidden THEN No ELSE proc
  /\ link' = FALSE
  /\ UNCHANGED <<target, stage, configured, masked, known, images, up, forbidden, hist>>

\* The link and the record outlive the removal.
Remove ==
  /\ stage = "idle" /\ version > Legacy
  /\ version' = No
  /\ proc' = IF up /\ ~forbidden THEN No ELSE proc
  /\ UNCHANGED <<target, stage, configured, unit, images, up, forbidden, hist>>

\* A Legacy prerm disables the service.  A record that an interrupted upgrade
\* has made already stays, and says so for good.
RemoveLegacy ==
  /\ stage = "idle" /\ version = Legacy
  /\ version' = No /\ proc' = No /\ link' = FALSE
  /\ off' = known
  /\ UNCHANGED <<target, stage, configured, masked, known, images, up, forbidden, blind, left>>

Purge ==
  /\ stage = "idle" /\ version = No
  /\ configured' = FALSE /\ link' = FALSE /\ known' = FALSE
  /\ off' = FALSE
  /\ UNCHANGED <<version, target, stage, masked, proc, images, up, forbidden, blind, left>>

Package ==
  \/ \E v \in Versions : Begin(v)
  \/ Preinst \/ Unpack \/ Reconfigure \/ Enable \/ Start \/ Lift
  \/ Remove \/ RemoveLegacy \/ Purge

-----------------------------------------------------------------------------
(* The administrator and the machine, at any time.                         *)

Elsewhere == <<version, target, stage, configured, images, forbidden, blind, left>>

\* systemctl enable [--now]
AdminEnables(now) ==
  /\ version # No /\ ~masked
  /\ link' = TRUE /\ off' = FALSE
  /\ proc' = IF now /\ up THEN Started ELSE proc
  /\ UNCHANGED <<masked, known, up, Elsewhere>>

\* systemctl disable [--now].  It is no decision about a package that is not
\* configured yet.
AdminDisables(now) ==
  /\ version # No
  /\ link' = FALSE
  /\ off' = (off \/ (link /\ (known \/ version = Legacy)))
  /\ proc' = IF now THEN No ELSE proc
  /\ UNCHANGED <<masked, known, up, Elsewhere>>

AdminMasks(m) ==
  /\ masked' = m
  /\ UNCHANGED <<link, known, proc, up, off, Elsewhere>>

AdminStarts ==
  /\ up /\ version # No /\ ~masked
  /\ proc' = Started
  /\ UNCHANGED <<unit, up, off, Elsewhere>>

\* systemctl stop, or a failure; systemd starts a service that failed again.
Stops ==
  /\ proc # No
  /\ \/ proc' = No
     \/ version # No /\ ~masked /\ proc' = version
  /\ UNCHANGED <<unit, up, off, Elsewhere>>

\* dpkg begins an interrupted unpacking, or configuring, all over again.
GoesDown ==
  /\ up /\ up' = FALSE
  /\ proc' = No
  /\ stage' = IF stage \in {"enable", "start", "lift"} THEN "enable" ELSE "idle"
  /\ UNCHANGED <<version, target, configured, unit, images, forbidden, hist>>

Boots ==
  /\ ~up /\ stage \in {"idle", "enable"} /\ up' = TRUE
  /\ proc' = IF Enabled THEN version ELSE No
  /\ UNCHANGED <<unit, off, Elsewhere>>

Next ==
  \/ Package
  \/ \E now \in BOOLEAN : AdminEnables(now) \/ AdminDisables(now)
  \/ \E m \in BOOLEAN : AdminMasks(m)
  \/ AdminStarts \/ Stops \/ GoesDown \/ Boots

Spec == Init /\ [][Next]_vars

-----------------------------------------------------------------------------
(* Properties.                                                             *)

\* "Disabled: it stays disabled and stopped ... Masked: left alone"
\* (debian/changelog:12-16, 27-29): no step of dpkg enables or starts a service
\* that the administrator has switched off, however many upgrades, removals and
\* interruptions lie in between; the documented exception is an upgrade from
\* Legacy that found no running systemd.
OffStaysOff ==
  [][stage' # stage =>
       /\ off /\ ~blind => (link' => link) /\ (proc' # No => proc # No)
       /\ masked => (proc' # No => proc # No)]_vars

\* "Removing the package now only stops the service" (debian/changelog:26-29):
\* an installed service that the administrator has not switched off is enabled.
OnStaysOn ==
  stage = "idle" /\ version > Legacy /\ ~off => link

\* "A service that still runs gets the new code" (postinst:134-138): where
\* policy-rc.d lets it and nobody has masked the unit, what runs when dpkg is
\* done is the code that is installed.
RunsInstalledCode ==
  stage = "idle" /\ ~forbidden /\ ~left => proc \in {No, version}

\* "Lift all instances onto this package's pinned default image"
\* (postinst:148-151): through the service of this package, not through one
\* that still has the default of another.
LiftsToInstalledDefault ==
  [][images' # images /\ ~forbidden /\ ~left => images' = version]_vars
=============================================================================
