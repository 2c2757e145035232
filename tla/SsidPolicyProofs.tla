-------------------------- MODULE SsidPolicyProofs --------------------------
(***************************************************************************)
(* Whatever the list of SSIDs, its length and its repetitions: the policy  *)
(* generated from it admits nobody whom no entry entitles, and everybody   *)
(* whom the first entry for the called SSID does.  The argument is that of *)
(* the chain, the branch that is taken being the first one that matches;   *)
(* the final else makes sure that there is one.                            *)
(***************************************************************************)
EXTENDS SsidPolicy, WellFoundedInduction, TLAPS

Listed == \E k \in Nat \ {0} : ssids \in [1 .. k -> Entries]

\* The branch that unlang takes.
First(i) ==
  i \in DOMAIN Policy /\ Matches(i) /\ \A j \in DOMAIN Policy : j < i => ~Matches(j)

LEMMA PolicyShape ==
  ASSUME NEW k \in Nat \ {0}, ssids \in [1 .. k -> Entries]
  PROVE  /\ Len(ssids) = k /\ DOMAIN ssids = 1 .. k
         /\ DOMAIN Policy = 1 .. k + 1
         /\ \A i \in 1 .. k : /\ Policy[i].keyword = IF i = 1 THEN "if" ELSE "elsif"
                              /\ Policy[i].entry = ssids[i]
         /\ Policy[k + 1].keyword = "else"
<1>1. Len(ssids) = k /\ DOMAIN ssids = 1 .. k
  OBVIOUS
<1>2. DOMAIN Policy = 1 .. k + 1
  BY <1>1 DEF Policy
<1>3. ASSUME NEW i \in 1 .. k
      PROVE  Policy[i] = [keyword |-> IF i = 1 THEN "if" ELSE "elsif", entry |-> ssids[i]]
  BY <1>1, <1>3 DEF Policy, Branch, Keyword
<1>4. \A i \in 1 .. k : /\ Policy[i].keyword = IF i = 1 THEN "if" ELSE "elsif"
                       /\ Policy[i].entry = ssids[i]
  <2> TAKE i \in 1 .. k
  <2>1. Policy[i] = [keyword |-> IF i = 1 THEN "if" ELSE "elsif", entry |-> ssids[i]]
    BY <1>3
  <2> QED
    BY <2>1
<1>5. Policy[k + 1].keyword = "else"
  BY <1>1 DEF Policy
<1> QED
  BY <1>1, <1>2, <1>4, <1>5

\* In a chain exactly the first branch that matches is taken.
LEMMA TakenIsFirst ==
  ASSUME NEW k \in Nat \ {0}, ssids \in [1 .. k -> Entries], NEW i \in DOMAIN Policy
  PROVE  Taken(i) <=> First(i)
<1>1. i \in 1 .. k + 1 /\ DOMAIN Policy = 1 .. k + 1
  BY PolicyShape
<1>2. \A j \in 2 .. k + 1 : Policy[j].keyword # "if"
  BY PolicyShape
<1>3. \A j \in 1 .. i - 1 : \A l \in j + 1 .. i : l \in 2 .. k + 1
  BY <1>1
<1>4. Taken(i) <=> Matches(i) /\ (i = 1 \/ ~ \E j \in 1 .. i - 1 : Matches(j))
  <2>1. CASE i = 1
    <3>1. Policy[i].keyword = "if"
      BY <2>1, PolicyShape
    <3> QED
      BY <2>1, <3>1 DEF Taken
  <2>2. CASE i # 1
    <3>1. Policy[i].keyword # "if"
      BY <1>1, <1>2, <2>2
    <3>2. \A j \in 1 .. i - 1 : \A l \in j + 1 .. i : Policy[l].keyword # "if"
      BY <1>2, <1>3
    <3> QED
      BY <2>2, <3>1, <3>2 DEF Taken
  <2> QED
    BY <2>1, <2>2
<1>5. \A j \in DOMAIN Policy : j < i <=> j \in 1 .. i - 1
  BY <1>1
<1>6. 1 .. i - 1 \subseteq DOMAIN Policy
  BY <1>1
<1>7. i = 1 => 1 .. i - 1 = {}
  BY <1>1
<1> QED
  BY <1>4, <1>5, <1>6, <1>7 DEF First

\* The final else matches everything, so that some branch is the first.
LEMMA SomeFirst ==
  ASSUME NEW k \in Nat \ {0}, ssids \in [1 .. k -> Entries]
  PROVE  \E i \in DOMAIN Policy : First(i)
<1> DEFINE M == {i \in DOMAIN Policy : Matches(i)}
<1>1. DOMAIN Policy = 1 .. k + 1
  BY PolicyShape
<1>2. k + 1 \in M
  BY <1>1, PolicyShape DEF Matches
<1>3. M \subseteq Nat
  BY <1>1
<1>4. PICK i \in M : \A j \in M : ~(<<j, i>> \in OpToRel(<, Nat))
  BY <1>2, <1>3, NatLessThanWellFounded, WFMin
<1>5. \A j \in M : ~(j < i)
  BY <1>3, <1>4 DEF OpToRel
<1> QED
  BY <1>4, <1>5 DEF First

LEMMA FirstIsUnique ==
  ASSUME NEW k \in Nat \ {0}, ssids \in [1 .. k -> Entries],
         NEW i \in DOMAIN Policy, NEW j \in DOMAIN Policy, First(i), First(j)
  PROVE  i = j
<1>1. i \in Nat /\ j \in Nat
  BY PolicyShape
<1>2. ~(i < j) /\ ~(j < i)
  BY DEF First
<1> QED
  BY <1>1, <1>2

\* The server's answer is the verdict of the first branch that matches.
LEMMA FirstDecides ==
  ASSUME NEW k \in Nat \ {0}, ssids \in [1 .. k -> Entries],
         NEW i \in DOMAIN Policy, First(i)
  PROVE  /\ Admitted <=> WifiGate /\ ~Rejects(i)
         /\ Admitted => VlanOf(Admitted) = Policy[i].entry.vlan
<1>1. TakenBranches = {i}
  BY TakenIsFirst, FirstIsUnique DEF TakenBranches
<1>2. Admitted <=> WifiGate /\ ~Rejects(i)
  BY <1>1 DEF Admitted
<1>3. (CHOOSE j \in TakenBranches : TRUE) = i
  BY <1>1
<1>4. TakenBranches # {}
  BY <1>1
<1>5. Admitted => VlanOf(Admitted) = Policy[i].entry.vlan
  BY <1>3, <1>4 DEF VlanOf
<1> QED
  BY <1>2, <1>5

\* A branch that does not reject is one of the entries, and the user is in its
\* group.
LEMMA NotRejected ==
  ASSUME NEW k \in Nat \ {0}, ssids \in [1 .. k -> Entries],
         NEW i \in DOMAIN Policy, Matches(i)
  PROVE  /\ ~Rejects(i) =>
              /\ i \in 1 .. k
              /\ ssids[i].name = called
              /\ ssids[i].group \in direct
         /\ i \in 1 .. k => (Rejects(i) <=> ssids[i].group \notin direct)
<1>1. DOMAIN Policy = 1 .. k + 1 /\ (i = k + 1 => Policy[i].keyword = "else")
  BY PolicyShape
<1>2. i \in 1 .. k => Policy[i].entry = ssids[i] /\ Policy[i].keyword # "else"
  BY PolicyShape
<1>3. i \in 1 .. k \/ i = k + 1
  BY <1>1
<1> QED
  BY <1>1, <1>2, <1>3 DEF Rejects, Matches

-----------------------------------------------------------------------------
(* What is invariant: the answer is the one that the policy gives.         *)

Answered == answer # None => answer = [accept |-> Admitted, vlan |-> VlanOf(Admitted)]

PolicyInv == Listed /\ Answered /\ trouble \in Failures \cup {"none"}

\* The answer is computed once, from a list, a user and a request that stay.
LEMMA PolicyInvariant == Spec => []PolicyInv
<1>1. Init => PolicyInv
  <2> SUFFICES ASSUME Init PROVE PolicyInv
    OBVIOUS
  <2>1. Listed /\ trouble \in Failures \cup {"none"}
    BY SsidPolicyConstants DEF Init, Listed
  <2> QED
    BY <2>1 DEF Init, PolicyInv, Answered
<1>2. PolicyInv /\ [Next]_vars => PolicyInv'
  <2> SUFFICES ASSUME PolicyInv, [Next]_vars PROVE PolicyInv'
    OBVIOUS
  <2>1. UNCHANGED <<ssids, direct, nested, trouble, called>>
    BY DEF Next, Login, vars
  <2>2. Listed' /\ (trouble \in Failures \cup {"none"})'
    BY <2>1 DEF PolicyInv, Listed
  <2>3. Admitted' = Admitted /\ (VlanOf(Admitted))' = VlanOf(Admitted)
    BY <2>1 DEF Admitted, VlanOf, WifiGate, NtlmAuth, TakenBranches, Taken, Rejects, Matches,
                Policy, Branch, Keyword
  <2>4. CASE Login
    BY <2>2, <2>3, <2>4 DEF Login, PolicyInv, Answered
  <2>5. CASE UNCHANGED vars
    BY <2>2, <2>3, <2>5 DEF vars, PolicyInv, Answered
  <2> QED
    BY <2>4, <2>5 DEF Next
<1> QED
  BY <1>1, <1>2, PTL DEF Spec

-----------------------------------------------------------------------------
(* The theorems.                                                           *)

\* Nobody gets in whom no entry entitles, and the VLAN is that of the entry
\* (render.py:68-106), for lists of any length, with or without repetitions.
THEOREM StrangersStayOut == Spec => []NoStrangerAdmitted
<1>1. PolicyInv => NoStrangerAdmitted
  <2> SUFFICES ASSUME PolicyInv, Accepted PROVE NoStrangerAdmitted
    BY DEF NoStrangerAdmitted
  <2>1. PICK k \in Nat \ {0} : ssids \in [1 .. k -> Entries]
    BY DEF PolicyInv, Listed
  <2>2. Admitted /\ answer.vlan = VlanOf(Admitted)
    BY DEF PolicyInv, Answered, Accepted
  <2>3. PICK i \in DOMAIN Policy : First(i)
    BY <2>1, SomeFirst
  <2>4. WifiGate /\ ~Rejects(i) /\ answer.vlan = Policy[i].entry.vlan
    BY <2>1, <2>2, <2>3, FirstDecides
  <2>5. i \in 1 .. k /\ ssids[i].name = called /\ ssids[i].group \in direct
    BY <2>1, <2>3, <2>4, NotRejected DEF First
  <2>6. Policy[i].entry = ssids[i] /\ DOMAIN ssids = 1 .. k
    BY <2>1, <2>5, PolicyShape
  <2> QED
    BY <2>4, <2>5, <2>6 DEF NoStrangerAdmitted
<1> QED
  BY <1>1, PolicyInvariant, PTL

\* Whoever the first entry with the called name entitles gets in, with its VLAN,
\* for lists of any length, with or without repetitions (render.py:79-101).
THEOREM EntitledComeIn == Spec => []EntitledIsAdmitted
<1>1. PolicyInv => EntitledIsAdmitted
  <2> SUFFICES ASSUME PolicyInv,
                      NEW i \in DOMAIN ssids,
                      answer # None, Serves(i),
                      ssids[i].group \in direct, WifiGate
               PROVE  answer = [accept |-> TRUE, vlan |-> ssids[i].vlan]
    BY DEF EntitledIsAdmitted
  <2>1. PICK k \in Nat \ {0} : ssids \in [1 .. k -> Entries]
    BY DEF PolicyInv, Listed
  <2>2. answer = [accept |-> Admitted, vlan |-> VlanOf(Admitted)]
    BY DEF PolicyInv, Answered
  <2>3. i \in 1 .. k /\ i \in DOMAIN Policy /\ DOMAIN Policy = 1 .. k + 1
    BY <2>1, PolicyShape
  <2>4. \A j \in 1 .. k : Matches(j) <=> ssids[j].name = called
    BY <2>1, PolicyShape DEF Matches
  <2>5. First(i)
    <3>1. Matches(i)
      BY <2>3, <2>4 DEF Serves
    <3>2. ASSUME NEW j \in DOMAIN Policy, j < i PROVE ~Matches(j)
      <4>1. j \in 1 .. k /\ j \in DOMAIN ssids /\ ~(i <= j)
        BY <2>1, <2>3, <3>2, PolicyShape
      <4> QED
        BY <2>4, <4>1 DEF Serves
    <3> QED
      BY <2>3, <3>1, <3>2 DEF First
  <2>6. ~Rejects(i)
    BY <2>1, <2>3, <2>5, NotRejected DEF First
  <2>7. Admitted /\ VlanOf(Admitted) = Policy[i].entry.vlan
    BY <2>1, <2>3, <2>5, <2>6, FirstDecides
  <2>8. Policy[i].entry = ssids[i]
    BY <2>1, <2>3, PolicyShape
  <2>9. Admitted = TRUE
    BY <2>7 DEF Admitted, WifiGate
  <2> QED
    BY <2>2, <2>7, <2>8, <2>9
<1> QED
  BY <1>1, PolicyInvariant, PTL

\* The groups of ntlm_auth's answer "OK".
LEMMA NtlmAuthOk ==
  ASSUME trouble \in Failures \cup {"none"}, NEW group
  PROVE  NtlmAuth(group) = "OK" <=> trouble = "none" /\ group \in direct \cup nested
  BY DEF NtlmAuth, Failures

\* What "lmnradius test" denies, the server denies (docker_service.py:586-601).
THEOREM DenialsAreTrue == Spec => []PreviewDenialIsTrue
<1>1. PolicyInv /\ NoStrangerAdmitted => PreviewDenialIsTrue
  <2> SUFFICES ASSUME PolicyInv, NoStrangerAdmitted, Accepted PROVE Previewed
    BY DEF PreviewDenialIsTrue
  <2>1. trouble \in Failures \cup {"none"}
    BY DEF PolicyInv
  <2>2. WifiGate
    BY DEF NoStrangerAdmitted
  <2>3. PICK i \in DOMAIN ssids : ssids[i].name = called /\ ssids[i].group \in direct
    BY DEF NoStrangerAdmitted
  <2>4. PreviewRow(i)
    BY <2>1, <2>2, <2>3, NtlmAuthOk DEF PreviewRow, WifiGate
  <2> QED
    BY <2>2, <2>3, <2>4 DEF Previewed, PreviewLogin, WifiGate
<1> QED
  BY <1>1, PolicyInvariant, StrangersStayOut, PTL

\* Without nesting and repetition, what it shows is what the server does, for any
\* list of SSIDs (docker_service.py:586-652).
THEOREM PreviewsAreExact == Spec => []PreviewIsExact
<1>1. PolicyInv /\ EntitledIsAdmitted /\ PreviewDenialIsTrue => PreviewIsExact
  <2> SUFFICES ASSUME PolicyInv, EntitledIsAdmitted, PreviewDenialIsTrue,
                      answer # None, ListedOnce, nested = {}
               PROVE  Accepted <=> Previewed
    BY DEF PreviewIsExact
  <2>1. ASSUME Previewed PROVE Accepted
    <3>1. PICK i \in DOMAIN ssids : ssids[i].name = called /\ PreviewRow(i)
      BY <2>1 DEF Previewed
    <3>2. trouble \in Failures \cup {"none"}
      BY DEF PolicyInv
    <3>3. ssids[i].group \in direct
      BY <3>1, <3>2, NtlmAuthOk DEF PreviewRow
    <3>4. WifiGate
      BY <2>1 DEF Previewed, PreviewLogin, WifiGate
    <3>5. DOMAIN ssids \subseteq Int
      BY PolicyShape DEF PolicyInv, Listed
    <3>6. Serves(i)
      BY <3>1, <3>5 DEF Serves, ListedOnce
    <3> QED
      BY <3>1, <3>3, <3>4, <3>6 DEF EntitledIsAdmitted, Accepted
  <2> QED
    BY <2>1 DEF PreviewDenialIsTrue
<1> QED
  BY <1>1, PolicyInvariant, EntitledComeIn, DenialsAreTrue, PTL
=============================================================================
