------------------------- MODULE ServiceStateProofs -------------------------
(***************************************************************************)
(* For any number of versions, and whatever the administrator and the      *)
(* machine do in between: the package keeps the administrator's decision,  *)
(* in both directions, and leaves no code running that is not installed.   *)
(***************************************************************************)
EXTENDS ServiceState, TLAPS

-----------------------------------------------------------------------------
(* The inductive invariant.                                                *)

\* deb-systemd-helper knows every unit that has been configured.
Recorded == version > Legacy /\ stage # "enable" => known

\* What the helper knows, and what a Legacy package has installed, is enabled
\* unless the administrator has switched it off.
EnabledOrOff ==
  /\ off => ~link
  /\ known \/ version = Legacy => link \/ off

\* A decision is on record from the preinst on, if systemd was running.
DecisionKnown ==
  /\ stage = "unpack" /\ version = Legacy /\ ~known => blind
  /\ off => \/ known
            \/ version = Legacy /\ stage \in {"idle", "preinst"}
            \/ version = Legacy /\ stage = "unpack" /\ blind
            \/ stage = "enable" /\ blind

\* What runs without the files it was started from is a service that a
\* configure is about to restart.
Leftovers ==
  /\ ~up => proc = No
  /\ version = No /\ ~forbidden => proc = No
  /\ ~configured /\ version # No => stage \in {"enable", "start"}
  /\ ~configured /\ ~forbidden => proc \in {No, version}
  /\ stage \notin {"enable", "start"} /\ ~forbidden /\ ~left => proc \in {No, version}

Staged ==
  /\ stage \in {"preinst", "unpack"} => target > Legacy
  /\ stage \in {"enable", "start", "lift"} => version > Legacy

Inv == TypeOK /\ Recorded /\ EnabledOrOff /\ DecisionKnown /\ Leftovers /\ Staged

-----------------------------------------------------------------------------
(* Its proof.                                                              *)

THEOREM InitInv == Init => Inv
<1>. SUFFICES ASSUME Init PROVE Inv
  OBVIOUS
<1>. USE LastAssumption DEF Init, No, Legacy, Versions
<1>1. TypeOK
  <2>1. /\ {version, target, proc} \subseteq Versions \cup {No}
        /\ stage = "idle" /\ images \in Versions
    OBVIOUS
  <2>2. {configured, link, masked, known, up, forbidden, off, blind, left} \subseteq BOOLEAN
    <3>1. configured \in BOOLEAN /\ link \in BOOLEAN /\ off \in BOOLEAN
      BY Zenon
    <3>2. masked \in BOOLEAN /\ up \in BOOLEAN /\ forbidden \in BOOLEAN
      BY Zenon
    <3>3. known \in BOOLEAN /\ blind \in BOOLEAN /\ left \in BOOLEAN
      BY Zenon
    <3>. QED
      BY <3>1, <3>2, <3>3
  <2>. QED
    BY <2>1, <2>2 DEF TypeOK
<1>2. Recorded
  BY DEF Recorded
<1>3. EnabledOrOff
  <2>1. No # Legacy
    OBVIOUS
  <2>. QED
    BY <2>1, Zenon DEF EnabledOrOff
<1>4. DecisionKnown
  BY DEF DecisionKnown
<1>5. Leftovers
  BY DEF Leftovers
<1>6. Staged
  BY DEF Staged
<1>. QED
  BY <1>1, <1>2, <1>3, <1>4, <1>5, <1>6 DEF Inv

THEOREM StepInv == Inv /\ [Next]_vars => Inv'
<1>. SUFFICES ASSUME Inv, [Next]_vars PROVE Inv'
  OBVIOUS
<1>1. ASSUME NEW v \in Versions, Begin(v) PROVE Inv'
  <2> USE LastAssumption DEF Inv, Begin, No, Legacy, Versions, unit, hist
  <2>1. TypeOK'
    BY <1>1 DEF TypeOK
  <2>2. Recorded'
    BY <1>1 DEF TypeOK, Recorded, Staged
  <2>3. EnabledOrOff'
    BY <1>1 DEF TypeOK, EnabledOrOff, Recorded, DecisionKnown
  <2>4. DecisionKnown'
    BY <1>1 DEF TypeOK, DecisionKnown, Recorded, EnabledOrOff, Staged
  <2>5. Leftovers'
    BY <1>1 DEF TypeOK, Leftovers, Staged
  <2>6. Staged'
    BY <1>1 DEF TypeOK, Staged
  <2>. QED
    BY <2>1, <2>2, <2>3, <2>4, <2>5, <2>6
<1>2. CASE Preinst
  <2> USE LastAssumption DEF Inv, Preinst, No, Legacy, Versions, unit, hist, Enabled
  <2>1. TypeOK'
    <3>1. known' \in BOOLEAN /\ blind' \in BOOLEAN
      BY <1>2, Zenon
    <3>. QED
      BY <1>2, <3>1 DEF TypeOK
  <2>2. Recorded'
    BY <1>2 DEF TypeOK, Recorded, Staged
  <2>3. EnabledOrOff'
    BY <1>2 DEF TypeOK, EnabledOrOff, Recorded, DecisionKnown
  <2>4. DecisionKnown'
    BY <1>2 DEF TypeOK, DecisionKnown, Recorded, EnabledOrOff, Staged
  <2>5. Leftovers'
    BY <1>2 DEF TypeOK, Leftovers, Staged
  <2>6. Staged'
    BY <1>2 DEF TypeOK, Staged
  <2>. QED
    BY <2>1, <2>2, <2>3, <2>4, <2>5, <2>6
<1>3. CASE Unpack
  <2> USE LastAssumption DEF Inv, Unpack, No, Legacy, Versions, unit, hist
  <2>1. TypeOK'
    BY <1>3 DEF TypeOK
  <2>2. Recorded'
    BY <1>3 DEF TypeOK, Recorded, Staged
  <2>3. EnabledOrOff'
    <3>1. version' # Legacy
      BY <1>3 DEF Staged
    <3>2. UNCHANGED <<off, link, known>>
      BY <1>3
    <3>. QED
      BY <3>1, <3>2, Zenon DEF EnabledOrOff
  <2>4. DecisionKnown'
    BY <1>3 DEF TypeOK, DecisionKnown, Recorded, EnabledOrOff, Staged
  <2>5. Leftovers'
    BY <1>3 DEF TypeOK, Leftovers, Staged
  <2>6. Staged'
    BY <1>3 DEF TypeOK, Staged
  <2>. QED
    BY <2>1, <2>2, <2>3, <2>4, <2>5, <2>6
<1>4. CASE Reconfigure
  <2> USE LastAssumption DEF Inv, Reconfigure, No, Legacy, Versions, unit, hist
  <2>1. TypeOK'
    BY <1>4 DEF TypeOK
  <2>2. Recorded'
    BY <1>4 DEF TypeOK, Recorded, Staged
  <2>3. EnabledOrOff'
    BY <1>4 DEF TypeOK, EnabledOrOff, Recorded, DecisionKnown
  <2>4. DecisionKnown'
    BY <1>4 DEF TypeOK, DecisionKnown, Recorded, EnabledOrOff, Staged
  <2>5. Leftovers'
    BY <1>4 DEF TypeOK, Leftovers, Staged
  <2>6. Staged'
    BY <1>4 DEF TypeOK, Staged
  <2>. QED
    BY <2>1, <2>2, <2>3, <2>4, <2>5, <2>6
<1>5. CASE Enable
  <2> USE LastAssumption DEF Inv, Enable, No, Legacy, Versions, unit, hist, WasEnabled
  <2>1. TypeOK'
    BY <1>5 DEF TypeOK
  <2>2. Recorded'
    BY <1>5 DEF TypeOK, Recorded, Staged
  <2>3. EnabledOrOff'
    BY <1>5 DEF TypeOK, EnabledOrOff, Recorded, DecisionKnown
  <2>4. DecisionKnown'
    BY <1>5 DEF TypeOK, DecisionKnown, Recorded, EnabledOrOff, Staged
  <2>5. Leftovers'
    BY <1>5 DEF TypeOK, Leftovers, Staged
  <2>6. Staged'
    BY <1>5 DEF TypeOK, Staged
  <2>. QED
    BY <2>1, <2>2, <2>3, <2>4, <2>5, <2>6
<1>6. CASE Start
  <2> USE LastAssumption DEF Inv, Start, No, Legacy, Versions, unit, hist, Invoked, Enabled, Restarted, Started, TryRestarted
  <2>1. TypeOK'
    BY <1>6 DEF TypeOK
  <2>2. Recorded'
    BY <1>6 DEF TypeOK, Recorded, Staged
  <2>3. EnabledOrOff'
    BY <1>6 DEF TypeOK, EnabledOrOff, Recorded, DecisionKnown
  <2>4. DecisionKnown'
    BY <1>6 DEF TypeOK, DecisionKnown, Recorded, EnabledOrOff, Staged
  <2>5. Leftovers'
    BY <1>6 DEF TypeOK, Leftovers, Staged
  <2>6. Staged'
    BY <1>6 DEF TypeOK, Staged
  <2>. QED
    BY <2>1, <2>2, <2>3, <2>4, <2>5, <2>6
<1>7. CASE Lift
  <2> USE LastAssumption DEF Inv, Lift, No, Legacy, Versions, unit, hist
  <2>1. TypeOK'
    BY <1>7 DEF TypeOK
  <2>2. Recorded'
    BY <1>7 DEF TypeOK, Recorded, Staged
  <2>3. EnabledOrOff'
    BY <1>7 DEF TypeOK, EnabledOrOff, Recorded, DecisionKnown
  <2>4. DecisionKnown'
    BY <1>7 DEF TypeOK, DecisionKnown, Recorded, EnabledOrOff, Staged
  <2>5. Leftovers'
    BY <1>7 DEF TypeOK, Leftovers, Staged
  <2>6. Staged'
    BY <1>7 DEF TypeOK, Staged
  <2>. QED
    BY <2>1, <2>2, <2>3, <2>4, <2>5, <2>6
<1>8. CASE Remove
  <2> USE LastAssumption DEF Inv, Remove, No, Legacy, Versions, unit, hist
  <2>1. TypeOK'
    BY <1>8 DEF TypeOK
  <2>2. Recorded'
    BY <1>8 DEF TypeOK, Recorded, Staged
  <2>3. EnabledOrOff'
    BY <1>8 DEF TypeOK, EnabledOrOff, Recorded, DecisionKnown
  <2>4. DecisionKnown'
    BY <1>8 DEF TypeOK, DecisionKnown, Recorded, EnabledOrOff, Staged
  <2>5. Leftovers'
    BY <1>8 DEF TypeOK, Leftovers, Staged
  <2>6. Staged'
    BY <1>8 DEF TypeOK, Staged
  <2>. QED
    BY <2>1, <2>2, <2>3, <2>4, <2>5, <2>6
<1>9. CASE RemoveLegacy
  <2> USE LastAssumption DEF Inv, RemoveLegacy, No, Legacy, Versions, unit, hist
  <2>1. TypeOK'
    BY <1>9 DEF TypeOK
  <2>2. Recorded'
    BY <1>9 DEF TypeOK, Recorded, Staged
  <2>3. EnabledOrOff'
    BY <1>9 DEF TypeOK, EnabledOrOff, Recorded, DecisionKnown
  <2>4. DecisionKnown'
    BY <1>9 DEF TypeOK, DecisionKnown, Recorded, EnabledOrOff, Staged
  <2>5. Leftovers'
    BY <1>9 DEF TypeOK, Leftovers, Staged
  <2>6. Staged'
    BY <1>9 DEF TypeOK, Staged
  <2>. QED
    BY <2>1, <2>2, <2>3, <2>4, <2>5, <2>6
<1>10. CASE Purge
  <2> USE LastAssumption DEF Inv, Purge, No, Legacy, Versions, unit, hist
  <2>1. TypeOK'
    BY <1>10 DEF TypeOK
  <2>2. Recorded'
    BY <1>10 DEF TypeOK, Recorded, Staged
  <2>3. EnabledOrOff'
    BY <1>10 DEF TypeOK, EnabledOrOff, Recorded, DecisionKnown
  <2>4. DecisionKnown'
    BY <1>10 DEF TypeOK, DecisionKnown, Recorded, EnabledOrOff, Staged
  <2>5. Leftovers'
    BY <1>10 DEF TypeOK, Leftovers, Staged
  <2>6. Staged'
    BY <1>10 DEF TypeOK, Staged
  <2>. QED
    BY <2>1, <2>2, <2>3, <2>4, <2>5, <2>6
<1>11. ASSUME NEW now \in BOOLEAN, AdminEnables(now) PROVE Inv'
  <2> USE LastAssumption DEF Inv, AdminEnables, No, Legacy, Versions, unit, hist, Started, Elsewhere
  <2>1. TypeOK'
    BY <1>11 DEF TypeOK
  <2>2. Recorded'
    BY <1>11 DEF TypeOK, Recorded, Staged
  <2>3. EnabledOrOff'
    BY <1>11 DEF TypeOK, EnabledOrOff, Recorded, DecisionKnown
  <2>4. DecisionKnown'
    BY <1>11 DEF TypeOK, DecisionKnown, Recorded, EnabledOrOff, Staged
  <2>5. Leftovers'
    BY <1>11 DEF TypeOK, Leftovers, Staged
  <2>6. Staged'
    BY <1>11 DEF TypeOK, Staged
  <2>. QED
    BY <2>1, <2>2, <2>3, <2>4, <2>5, <2>6
<1>12. ASSUME NEW now \in BOOLEAN, AdminDisables(now) PROVE Inv'
  <2> USE LastAssumption DEF Inv, AdminDisables, No, Legacy, Versions, unit, hist, Elsewhere
  <2>1. TypeOK'
    BY <1>12 DEF TypeOK
  <2>2. Recorded'
    BY <1>12 DEF TypeOK, Recorded, Staged
  <2>3. EnabledOrOff'
    BY <1>12 DEF TypeOK, EnabledOrOff, Recorded, DecisionKnown
  <2>4. DecisionKnown'
    BY <1>12 DEF TypeOK, DecisionKnown, Recorded, EnabledOrOff, Staged
  <2>5. Leftovers'
    BY <1>12 DEF TypeOK, Leftovers, Staged
  <2>6. Staged'
    BY <1>12 DEF TypeOK, Staged
  <2>. QED
    BY <2>1, <2>2, <2>3, <2>4, <2>5, <2>6
<1>13. ASSUME NEW m \in BOOLEAN, AdminMasks(m) PROVE Inv'
  <2> USE LastAssumption DEF Inv, AdminMasks, No, Legacy, Versions, unit, hist, Elsewhere
  <2>1. TypeOK'
    BY <1>13 DEF TypeOK
  <2>2. Recorded'
    BY <1>13 DEF TypeOK, Recorded, Staged
  <2>3. EnabledOrOff'
    BY <1>13 DEF TypeOK, EnabledOrOff, Recorded, DecisionKnown
  <2>4. DecisionKnown'
    BY <1>13 DEF TypeOK, DecisionKnown, Recorded, EnabledOrOff, Staged
  <2>5. Leftovers'
    BY <1>13 DEF TypeOK, Leftovers, Staged
  <2>6. Staged'
    BY <1>13 DEF TypeOK, Staged
  <2>. QED
    BY <2>1, <2>2, <2>3, <2>4, <2>5, <2>6
<1>14. CASE AdminStarts
  <2> USE LastAssumption DEF Inv, AdminStarts, No, Legacy, Versions, unit, hist, Started, Elsewhere
  <2>1. TypeOK'
    BY <1>14 DEF TypeOK
  <2>2. Recorded'
    BY <1>14 DEF TypeOK, Recorded, Staged
  <2>3. EnabledOrOff'
    BY <1>14 DEF TypeOK, EnabledOrOff, Recorded, DecisionKnown
  <2>4. DecisionKnown'
    BY <1>14 DEF TypeOK, DecisionKnown, Recorded, EnabledOrOff, Staged
  <2>5. Leftovers'
    BY <1>14 DEF TypeOK, Leftovers, Staged
  <2>6. Staged'
    BY <1>14 DEF TypeOK, Staged
  <2>. QED
    BY <2>1, <2>2, <2>3, <2>4, <2>5, <2>6
<1>15. CASE Stops
  <2> USE LastAssumption DEF Inv, Stops, No, Legacy, Versions, unit, hist, Elsewhere
  <2>1. TypeOK'
    BY <1>15 DEF TypeOK
  <2>2. Recorded'
    BY <1>15 DEF TypeOK, Recorded, Staged
  <2>3. EnabledOrOff'
    BY <1>15 DEF TypeOK, EnabledOrOff, Recorded, DecisionKnown
  <2>4. DecisionKnown'
    BY <1>15 DEF TypeOK, DecisionKnown, Recorded, EnabledOrOff, Staged
  <2>5. Leftovers'
    BY <1>15 DEF TypeOK, Leftovers, Staged
  <2>6. Staged'
    BY <1>15 DEF TypeOK, Staged
  <2>. QED
    BY <2>1, <2>2, <2>3, <2>4, <2>5, <2>6
<1>16. CASE GoesDown
  <2> USE LastAssumption DEF Inv, GoesDown, No, Legacy, Versions, unit, hist
  <2>1. TypeOK'
    BY <1>16 DEF TypeOK
  <2>2. Recorded'
    BY <1>16 DEF TypeOK, Recorded, Staged
  <2>3. EnabledOrOff'
    BY <1>16 DEF TypeOK, EnabledOrOff, Recorded, DecisionKnown
  <2>4. DecisionKnown'
    BY <1>16 DEF TypeOK, DecisionKnown, Recorded, EnabledOrOff, Staged
  <2>5. Leftovers'
    BY <1>16 DEF TypeOK, Leftovers, Staged
  <2>6. Staged'
    BY <1>16 DEF TypeOK, Staged
  <2>. QED
    BY <2>1, <2>2, <2>3, <2>4, <2>5, <2>6
<1>17. CASE Boots
  <2> USE LastAssumption DEF Inv, Boots, No, Legacy, Versions, unit, hist, Enabled, Elsewhere
  <2>1. TypeOK'
    BY <1>17 DEF TypeOK
  <2>2. Recorded'
    BY <1>17 DEF TypeOK, Recorded, Staged
  <2>3. EnabledOrOff'
    BY <1>17 DEF TypeOK, EnabledOrOff, Recorded, DecisionKnown
  <2>4. DecisionKnown'
    BY <1>17 DEF TypeOK, DecisionKnown, Recorded, EnabledOrOff, Staged
  <2>5. Leftovers'
    BY <1>17 DEF TypeOK, Leftovers, Staged
  <2>6. Staged'
    BY <1>17 DEF TypeOK, Staged
  <2>. QED
    BY <2>1, <2>2, <2>3, <2>4, <2>5, <2>6
<1>18. CASE UNCHANGED vars
  BY <1>18 DEF Inv, TypeOK, Recorded, EnabledOrOff, DecisionKnown, Leftovers, Staged, vars, unit, hist
<1>. QED
  BY <1>1, <1>2, <1>3, <1>4, <1>5, <1>6, <1>7, <1>8, <1>9, <1>10, <1>11, <1>12, <1>13, <1>14, <1>15, <1>16, <1>17,
     <1>18 DEF Next, Package
\* Type correctness, for any number of versions.
THEOREM TypeCorrect == Spec => []TypeOK
<1>1. Inv => TypeOK
  BY DEF Inv
<1>. QED
  BY <1>1, InitInv, StepInv, PTL DEF Spec

\* An installed service is enabled unless the administrator has switched it
\* off: no removal, upgrade or interruption by the package disables it.
THEOREM EnabledStaysEnabled == Spec => []OnStaysOn
<1>1. Inv => OnStaysOn
  BY DEF Inv, OnStaysOn, Recorded, EnabledOrOff
<1>. QED
  BY <1>1, InitInv, StepInv, PTL DEF Spec

\* When dpkg is done, no process runs code that is not installed.
THEOREM NothingStaleRuns == Spec => []RunsInstalledCode
<1>1. Inv => RunsInstalledCode
  BY DEF Inv, RunsInstalledCode, Leftovers
<1>. QED
  BY <1>1, InitInv, StepInv, PTL DEF Spec

-----------------------------------------------------------------------------
(* The decision to switch the service off.                                 *)

\* What OffStaysOff says of a step of dpkg.
KeepsOff ==
  /\ off /\ ~blind => (link' => link) /\ (proc' # No => proc # No)
  /\ masked => (proc' # No => proc # No)

THEOREM DpkgKeepsOff == Inv /\ [Next]_vars /\ stage' # stage => KeepsOff
<1>. SUFFICES ASSUME Inv, Next, stage' # stage PROVE KeepsOff
  BY DEF vars
<1>1. CASE Enable
  BY <1>1 DEF Enable, WasEnabled, KeepsOff, Inv, DecisionKnown, EnabledOrOff, Legacy
<1>2. CASE Start
  BY <1>2 DEF Start, Invoked, Enabled, TryRestarted, KeepsOff, Inv, EnabledOrOff, unit
<1>3. CASE GoesDown
  BY <1>3 DEF GoesDown, KeepsOff, unit
<1>4. CASE Preinst
  BY <1>4 DEF Preinst, KeepsOff
<1>5. ASSUME NEW v \in Versions, Begin(v) PROVE KeepsOff
  BY <1>5 DEF Begin, KeepsOff, unit
<1>6. CASE Unpack \/ Reconfigure \/ Lift
  BY <1>6 DEF Unpack, Reconfigure, Lift, KeepsOff, unit
<1>7. CASE Remove \/ RemoveLegacy \/ Purge
  BY <1>7 DEF Remove, RemoveLegacy, Purge
<1>8. ASSUME NEW now \in BOOLEAN, AdminEnables(now) \/ AdminDisables(now) PROVE KeepsOff
  BY <1>8 DEF AdminEnables, AdminDisables, Elsewhere
<1>9. ASSUME NEW now \in BOOLEAN, AdminMasks(now) PROVE KeepsOff
  BY <1>9 DEF AdminMasks, Elsewhere
<1>10. CASE AdminStarts \/ Stops \/ Boots
  BY <1>10 DEF AdminStarts, Stops, Boots, Elsewhere
<1>. QED
  BY <1>1, <1>2, <1>3, <1>4, <1>5, <1>6, <1>7, <1>8, <1>9, <1>10 DEF Next, Package

\* No step of dpkg enables or starts a service that has been switched off.
THEOREM PackageRespectsOff == Spec => OffStaysOff
<1>1. Inv /\ [Next]_vars => [stage' # stage => KeepsOff]_vars
  BY DpkgKeepsOff DEF vars
<1>. QED
  BY <1>1, InitInv, StepInv, PTL DEF Spec, OffStaysOff, KeepsOff

-----------------------------------------------------------------------------
(* The update of the instances.                                            *)

\* Only Lift moves the instances.
THEOREM OnlyLiftLifts == [Next]_vars /\ images' # images => Lift
  BY Zenon DEF Next, Package, vars, unit, hist, Begin, Preinst, Unpack, Reconfigure, Enable,
     Start, Remove, RemoveLegacy, Purge, AdminEnables, AdminDisables, AdminMasks, AdminStarts,
     Stops, GoesDown, Boots, Elsewhere

\* An upgrade lifts the instances onto the default of the installed package.
THEOREM UpgradesLiftOntoInstalled == Spec => LiftsToInstalledDefault
<1>1. Inv /\ Lift /\ images' # images /\ ~forbidden /\ ~left => images' = version
  BY DEF Inv, Leftovers, Lift
<1>2. Inv /\ [Next]_vars
        => [images' # images /\ ~forbidden /\ ~left => images' = version]_vars
  BY <1>1, OnlyLiftLifts
<1>. QED
  BY <1>2, InitInv, StepInv, PTL DEF Spec, LiftsToInstalledDefault
=============================================================================
