----------------------------- MODULE SsidPolicy -----------------------------
(***************************************************************************)
(* Who gets into which SSID, and onto which VLAN: the unlang policy that   *)
(* render_ssid_policy (controlplane/lmnradius/render.py) generates from an *)
(* instance's list of SSIDs, run by FreeRADIUS behind the wifi gate of the *)
(* mschap module, and what DockerService.test tells the operator about it. *)
(***************************************************************************)
EXTENDS Naturals, Sequences

CONSTANTS
  Names,     \* SSIDs, configured or not
  Groups,    \* AD groups
  Wifi,      \* the group of the base gate (wifi_group)
  Vlans,
  None,
  MaxSsids   \* the longest list of SSIDs

ASSUME SsidPolicyConstants ==
  /\ Wifi \in Groups
  /\ None \notin Vlans
  /\ MaxSsids \in Nat \ {0}

Entries == [name : Names, group : Groups, vlan : Vlans \cup {None}]

VARIABLES
  ssids,   \* the instance's list, never empty; a name may occur twice
  direct,  \* the groups the user is a member of: what rlm_ldap sees in memberOf
  nested,  \* the groups those are members of: part of winbind's token only
  trouble, \* what fails a login before any group is looked at
  called,  \* the SSID of the request (Called-Station-SSID)
  answer   \* what the server has answered

vars == <<ssids, direct, nested, trouble, called, answer>>

\* What ntlm_auth may say; a DC reports bad credentials in one way or the other.
Failures == {"WRONG_PASSWORD", "NO_SUCH_USER", "LOGON_FAILURE", "WINBIND_UNAVAILABLE"}

Answers == [accept : BOOLEAN, vlan : Vlans \cup {None}]

TypeOK ==
  /\ ssids \in UNION {[1 .. k -> Entries] : k \in 1 .. MaxSsids}
  /\ direct \subseteq Groups /\ nested \subseteq Groups
  /\ trouble \in Failures \cup {"none"}
  /\ called \in Names
  /\ answer \in Answers \cup {None}

Init ==
  /\ ssids \in UNION {[1 .. k -> Entries] : k \in 1 .. MaxSsids}
  /\ direct \in SUBSET Groups /\ nested \in SUBSET (Groups \ direct)
  /\ trouble \in Failures \cup {"none"}
  /\ called \in Names
  /\ answer = None

-----------------------------------------------------------------------------
(* The generated policy: one branch per SSID and a final one.              *)

\* Mutation: the branches are not chained.
Keyword_NotChained(i) == "if"

Keyword(i) == IF i = 1 THEN "if" ELSE "elsif"

Branch(i) == [keyword |-> Keyword(i), entry |-> ssids[i]]

\* Mutation: nothing denies an SSID that is not served.
Policy_NoElse == [i \in 1 .. Len(ssids) |-> Branch(i)]

Policy ==
  [i \in 1 .. Len(ssids) + 1 |->
     IF i <= Len(ssids) THEN Branch(i) ELSE [keyword |-> "else", entry |-> None]]

-----------------------------------------------------------------------------
(* unlang: an "if" begins a chain, of which at most one branch is taken.   *)

Matches(i) == Policy[i].keyword = "else" \/ Policy[i].entry.name = called

Taken(i) ==
  /\ Matches(i)
  /\ Policy[i].keyword = "if" \/
     ~ \E j \in 1 .. i - 1 :
         Matches(j) /\ \A k \in j + 1 .. i : Policy[k].keyword # "if"

\* Mutation: membership is looked up in the wifi gate's group.
Rejects_WrongGroup(i) == Policy[i].keyword = "else" \/ Wifi \notin direct

\* A branch rejects a user who is not in its group; the last rejects everybody.
Rejects(i) == Policy[i].keyword = "else" \/ Policy[i].entry.group \notin direct

TakenBranches == {i \in DOMAIN Policy : Taken(i)}

\* ntlm_auth --require-membership-of, on the token of the user.
NtlmAuth(group) ==
  IF trouble # "none" THEN trouble
  ELSE IF group \in direct \cup nested THEN "OK" ELSE "LOGON_FAILURE"

WifiGate == NtlmAuth(Wifi) = "OK"

Admitted == WifiGate /\ \A i \in TakenBranches : ~Rejects(i)

\* Mutation: an entry without a VLAN is rendered as VLAN "None".
VlanOf_NoneRendered(accept) ==
  IF ~accept \/ TakenBranches = {} THEN None
  ELSE LET vlan == Policy[CHOOSE i \in TakenBranches : TRUE].entry.vlan IN
       IF vlan = None THEN "None" ELSE vlan

\* The reply has the VLAN of a branch that was taken.
VlanOf(accept) ==
  IF accept /\ TakenBranches # {}
    THEN Policy[CHOOSE i \in TakenBranches : TRUE].entry.vlan
    ELSE None

Login ==
  /\ answer = None
  /\ answer' = [accept |-> Admitted, vlan |-> VlanOf(Admitted)]
  /\ UNCHANGED <<ssids, direct, nested, trouble, called>>

\* Mutation: the rows are looked up as rlm_ldap would, the gate is left out.
PreviewLogin_DirectOnly == trouble = "none" /\ Wifi \in direct

\* "lmnradius test": the login with the wifi gate.  It alone makes the exit code,
\* the rows of the SSIDs are only printed.
PreviewLogin == NtlmAuth(Wifi) = "OK"

\* Mutation: rows only after a login that failed on the group.
PreviewRow_OnFailure(i) ==
  NtlmAuth(Wifi) = "LOGON_FAILURE" /\ NtlmAuth(ssids[i].group) = "OK"

\* A row per SSID, if the login has not failed on something else than a group.
PreviewRow(i) ==
  /\ NtlmAuth(Wifi) \in {"OK", "LOGON_FAILURE"}
  /\ NtlmAuth(ssids[i].group) = "OK"

Next == Login

Spec == Init /\ [][Next]_vars

-----------------------------------------------------------------------------
(* Properties.                                                             *)

Accepted == answer # None /\ answer.accept

ListedOnce == \A i, j \in DOMAIN ssids : ssids[i].name = ssids[j].name => i = j

\* "lmnradius test" shows the operator that the user gets into the called SSID: a
\* login that works and a row of that SSID that is granted.
Previewed == PreviewLogin /\ \E i \in DOMAIN ssids : ssids[i].name = called /\ PreviewRow(i)

\* Nobody gets in through an SSID that the instance does not serve, or without
\* being in the group of an entry for it, and the VLAN is that of such an entry
\* (render.py:68-106, "a matching SSID with the wrong group is rejected, and a
\* final else denies any SSID not served here").
NoStrangerAdmitted ==
  Accepted =>
    /\ WifiGate
    /\ \E i \in DOMAIN ssids :
         /\ ssids[i].name = called
         /\ ssids[i].group \in direct
         /\ answer.vlan = ssids[i].vlan

\* The entry that serves the called SSID: the first one with its name.
Serves(i) ==
  ssids[i].name = called /\ \A j \in DOMAIN ssids : ssids[j].name = called => i <= j

\* Whoever the entry that serves the called SSID entitles gets in, with the VLAN of
\* that entry, whatever is listed before and after it (render.py:79-101).
EntitledIsAdmitted ==
  \A i \in DOMAIN ssids :
    answer # None /\ Serves(i) /\ ssids[i].group \in direct /\ WifiGate =>
      answer = [accept |-> TRUE, vlan |-> ssids[i].vlan]

\* What "lmnradius test" denies is denied: the preview may be more generous than
\* the server, on nested groups and on an SSID that is listed twice, but never
\* the other way round (docker_service.py:586-601).
PreviewDenialIsTrue == Accepted => Previewed

\* Where every SSID is listed once and no group is nested, the login and the row
\* together show exactly what the server does, whatever a login fails on
\* (docs/operations.md:251-260, "for directly assigned groups").  The exit code is
\* not part of it: it is that of the login, rows or not (cli.py:400-406).
PreviewIsExact ==
  answer # None /\ ListedOnce /\ nested = {} => (Accepted <=> Previewed)
=============================================================================
