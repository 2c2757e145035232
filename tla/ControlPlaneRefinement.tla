----------------------- MODULE ControlPlaneRefinement -----------------------
(***************************************************************************)
(* With one request per instance at a time ControlPlane implements         *)
(* GatedUpdate, for every value of the constants.  ExclusiveInv says what  *)
(* a worker has achieved at each label; what is missing for a step to be   *)
(* one of GatedUpdate is which kind of request can be at which label, and  *)
(* what the record is when the worker is about to write it (Place).        *)
(***************************************************************************)
EXTENDS ControlPlaneGated, ControlPlaneExclusive

SingleOps == {"create", "patch", "ldapCa", "update", "rollback"}
Batches   == {"reconcile", "updateAll"}

\* Where a request of each kind can be, and what it finds there.
Place(w) ==
  LET n == req[w].name IN
  /\ req[w].pc = "idle" => req[w].op = "none"
  /\ req[w].pc = "next" => req[w].op \in Batches
  /\ req[w].pc \in ApplySteps => req[w].op \in SingleOps \cup Batches
  /\ req[w].pc = "put" =>
       /\ req[w].op # "reconcile"
       /\ req[w].op # "create" => record[n] # None
       /\ Updating(w) => record[n] = req[w].old
  /\ req[w].pc = "putWrite" =>
       /\ req[w].op # "reconcile"
       /\ record[n].image = Torn

PlaceInv == ExclusiveInv /\ \A w \in Workers : Place(w)

-----------------------------------------------------------------------------
(* What is seen of an instance.                                            *)

\* Whoever has an instance's name, has it in hand.
LEMMA InHand ==
  ASSUME TypeInv, NEW w \in Workers, req[w].name # None
  PROVE  req[w].name \in Names /\ req[w].pc \in ApplySteps \cup RemoveSteps
BY DEF TypeInv, ControlOK, ReqOK, RequestStates, Labels, WorkerOK, ApplySteps, RemoveSteps

LEMMA SettledByUpdater ==
  ASSUME ExclusiveInv, NEW w \in Workers, NEW n \in Names, Updates(w, n)
  PROVE  SettledRecord(n) = req[w].old
<1> DEFINE c == CHOOSE v \in Workers : Updates(v, n)
<1>1. c \in Workers /\ Updates(c, n)
  OBVIOUS
<1> HIDE DEF c
<1>2. c = w
  BY <1>1 DEF Updates, Touches, ExclusiveInv, Owner
<1>3. SettledRecord(n) = req[c].old
  BY DEF SettledRecord, c
<1> QED BY <1>2, <1>3

LEMMA SettledByRecord ==
  ASSUME NEW n \in Names, \A w \in Workers : ~Updates(w, n)
  PROVE  SettledRecord(n) = record[n]
BY DEF SettledRecord

\* The same, of the state a step leads to.
LEMMA SettledByUpdaterThen ==
  ASSUME ExclusiveInv', NEW w \in Workers, NEW n \in Names,
         req'[w].name = n, req'[w].op \in UpdateOps
  PROVE  SettledRecord(n)' = req'[w].old
<1> DEFINE Turns(v) == req'[v].name = n /\ req'[v].op \in UpdateOps
           c == CHOOSE v \in Workers : Turns(v)
<1>1. c \in Workers /\ req'[c].name = n /\ req'[c].op \in UpdateOps
  OBVIOUS
<1>2. SettledRecord(n)' = req'[c].old
  BY DEF SettledRecord, Updates
<1> HIDE DEF c
<1>3. c = w
  BY <1>1 DEF Touches, ExclusiveInv, Owner
<1> QED BY <1>2, <1>3

LEMMA SettledByRecordThen ==
  ASSUME NEW n \in Names,
         \A w \in Workers : ~(req'[w].name = n /\ req'[w].op \in UpdateOps)
  PROVE  SettledRecord(n)' = record'[n]
BY DEF SettledRecord, Updates

LEMMA SettledExists ==
  ASSUME ExclusiveInv, NEW n \in Names, record[n] # None
  PROVE  SettledRecord(n) # None
<1>1. ASSUME NEW w \in Workers, Updates(w, n) PROVE req[w].old # None
  <2>1. req[w].op # "delete" /\ req[w].op \in {"update", "updateAll"} /\ req[w].name # None
    BY <1>1, NoneApart DEF Updates, UpdateOps
  <2>2. req[w].pc \in ApplySteps
    BY <2>1, InHand DEF ExclusiveInv, TypeInv, ControlOK, WorkerOK
  <2> QED BY <2>1, <2>2, NoneApart DEF ExclusiveInv, TypeInv, ControlOK, WorkerOK
<1> QED BY <1>1, SettledByUpdater, SettledByRecord

\* An instance that has a container or a volume, files or a pointer, is one.
LEMMA RemainsSettled ==
  ASSUME ExclusiveInv, NEW n \in Names, Remains(n)
  PROVE  SettledRecord(n) # None
<1>1. record[n] # None
  BY DEF ExclusiveInv, Clean, Remains
<1> QED BY <1>1, SettledExists

-----------------------------------------------------------------------------
(* The steps of GatedUpdate, in terms of what is seen of the instances.    *)

\* The host has the same to show of instance m.
Unseen(m) ==
  /\ ServedRecord(m)' = ServedRecord(m)
  /\ Healthy(m)' = Healthy(m)
  /\ Remains(m)' = Remains(m)

\* No client but w, and no instance but n, is concerned.
Local(w, n) ==
  /\ \A v \in Workers \ {w} : Asked(v)' = Asked(v)
  /\ \A m \in Names \ {n} : Unseen(m) /\ SettledRecord(m)' = SettledRecord(m)

LEMMA HostUnseen ==
  ASSUME \A m \in Names : Unseen(m)
  PROVE  UNCHANGED Gated!host
BY Zenon DEF Gated!host, Unseen

LEMMA SettledStays ==
  ASSUME \A m \in Names : SettledRecord(m)' = SettledRecord(m)
  PROVE  [m \in Names |-> SettledRecord(m)]' = [m \in Names |-> SettledRecord(m)]
OBVIOUS

LEMMA AskedStays ==
  ASSUME \A v \in Workers : Asked(v)' = Asked(v)
  PROVE  [v \in Workers |-> Asked(v)]' = [v \in Workers |-> Asked(v)]
OBVIOUS

LEMMA Drifts ==
  ASSUME NEW n \in Names, SettledRecord(n) # None, \A m \in Names \ {n} : Unseen(m)
  PROVE  Gated!Drift(n)
<1>1. ~Remains(n)' => ServedRecord(n)' = None /\ ~Healthy(n)'
  BY DEF Remains, ServedRecord, Healthy
<1> QED BY <1>1 DEF Gated!Drift, Unseen

LEMMA DriftOnly ==
  ASSUME NEW n \in Names, SettledRecord(n) # None,
         \A m \in Names \ {n} : Unseen(m),
         \A m \in Names : SettledRecord(m)' = SettledRecord(m),
         \A v \in Workers : Asked(v)' = Asked(v)
  PROVE  Gated!Next
BY Drifts, SettledStays, AskedStays DEF Gated!Next

LEMMA Stutters ==
  ASSUME \A m \in Names : Unseen(m) /\ SettledRecord(m)' = SettledRecord(m),
         \A v \in Workers : Asked(v)' = Asked(v)
  PROVE  UNCHANGED Gated!vars
BY HostUnseen, SettledStays, AskedStays, Zenon DEF Gated!vars

LEMMA Elsewhere ==
  ASSUME ExclusiveInv, ExclusiveInv', NEW w \in Workers, NEW n \in Names,
         \A v \in Workers \ {w} : req'[v] = req[v] /\ req[v].name # n,
         req[w].name \in {n, None}, req'[w].name \in {n, None},
         \A m \in Names \ {n} : SameAt(m)
  PROVE  Local(w, n)
<1>1. ASSUME NEW v \in Workers \ {w} PROVE Asked(v)' = Asked(v)
  <2>1. req'[v] = req[v] /\ (req[v].name # None => SameAt(req[v].name))
    BY InHand DEF ExclusiveInv
  <2>2. KindOf(v)' = KindOf(v)
    BY <2>1 DEF KindOf
  <2>3. WantOf(v)' = WantOf(v)
    BY <2>1 DEF WantOf, SameAt
  <2> QED BY <2>1, <2>2, <2>3 DEF Asked
<1>2. ASSUME NEW m \in Names \ {n} PROVE Unseen(m)
  <2>1. SameAt(m)
    OBVIOUS
  <2>2. ServedRecord(m)' = ServedRecord(m)
    BY <2>1 DEF SameAt, ServedRecord
  <2>3. Healthy(m)' = Healthy(m)
    BY <2>1 DEF SameAt, Healthy
  <2>4. Remains(m)' = Remains(m)
    BY <2>1 DEF SameAt, Remains
  <2> QED BY <2>2, <2>3, <2>4 DEF Unseen
<1>3. ASSUME NEW m \in Names \ {n} PROVE SettledRecord(m)' = SettledRecord(m)
  <2>1. /\ record'[m] = record[m]
        /\ req[w].name # m /\ req'[w].name # m
        /\ \A v \in Workers \ {w} : req'[v] = req[v]
    BY NoneApart DEF SameAt
  <2>2. CASE \E v \in Workers : Updates(v, m)
    <3>1. PICK v \in Workers : Updates(v, m)
      BY <2>2
    <3>2. req'[v] = req[v]
      BY <2>1, <3>1 DEF Updates
    <3>3. SettledRecord(m) = req[v].old
      BY <3>1, SettledByUpdater
    <3>4. SettledRecord(m)' = req'[v].old
      BY <3>1, <3>2, SettledByUpdaterThen DEF Updates
    <3> QED BY <3>2, <3>3, <3>4
  <2>3. CASE \A v \in Workers : ~Updates(v, m)
    <3>1. SettledRecord(m) = record[m]
      BY <2>3, SettledByRecord
    <3>2. \A v \in Workers : ~(req'[v].name = m /\ req'[v].op \in UpdateOps)
      BY <2>1, <2>3 DEF Updates
    <3>3. SettledRecord(m)' = record'[m]
      BY <3>2, SettledByRecordThen
    <3> QED BY <2>1, <3>1, <3>3
  <2> QED BY <2>2, <2>3
<1> QED BY <1>1, <1>2, <1>3 DEF Local

\* The worker itself, before the step and after it.
LEMMA SettledHere ==
  ASSUME ExclusiveInv, NEW w \in Workers, NEW n \in Names, req[w].name = n
  PROVE  SettledRecord(n) = IF req[w].op \in UpdateOps THEN req[w].old ELSE record[n]
<1>1. CASE req[w].op \in UpdateOps
  BY <1>1, SettledByUpdater DEF Updates
<1>2. CASE req[w].op \notin UpdateOps
  <2>1. \A v \in Workers : ~Updates(v, n)
    BY <1>2 DEF Updates, ExclusiveInv, Owner, Touches
  <2> QED BY <1>2, <2>1, SettledByRecord
<1> QED BY <1>1, <1>2

LEMMA SettledHereThen ==
  ASSUME ExclusiveInv', NEW w \in Workers, NEW n \in Names, req'[w].name = n
  PROVE  SettledRecord(n)' = IF req'[w].op \in UpdateOps THEN req'[w].old ELSE record'[n]
<1>1. CASE req'[w].op \in UpdateOps
  BY <1>1, SettledByUpdaterThen
<1>2. CASE req'[w].op \notin UpdateOps
  <2>1. \A v \in Workers : ~(req'[v].name = n /\ req'[v].op \in UpdateOps)
    BY <1>2 DEF ExclusiveInv, Owner, Touches
  <2> QED BY <1>2, <2>1, SettledByRecordThen
<1> QED BY <1>1, <1>2

\* Nobody has the instance in hand: it is what its record says.
LEMMA SettledFree ==
  ASSUME NEW n \in Names, \A v \in Workers : req[v].name # n
  PROVE  SettledRecord(n) = record[n]
BY SettledByRecord DEF Updates

LEMMA SettledFreeThen ==
  ASSUME NEW n \in Names, \A v \in Workers : req'[v].name # n
  PROVE  SettledRecord(n)' = record'[n]
BY SettledByRecordThen

-----------------------------------------------------------------------------
(* The answers.                                                            *)

LEMMA AskedNothing ==
  ASSUME NEW w \in Workers, req'[w].name = None
  PROVE  Asked(w)' = [kind |-> "none", name |-> None, want |-> None,
                      batch |-> req'[w].op \in Batches, answer |-> req'[w].reply]
<1>1. KindOf(w)' = "none" /\ WantOf(w)' = None
  BY DEF KindOf, WantOf
<1> QED BY <1>1 DEF Asked, Batches

LEMMA AnsweredIs ==
  ASSUME NEW b, NEW a
  PROVE  [Gated!Nothing EXCEPT !.batch = b, !.answer = a]
           = [kind |-> "none", name |-> None, want |-> None, batch |-> b, answer |-> a]
<1> DEFINE One == [kind |-> "none", name |-> None, want |-> None, batch |-> b, answer |-> "none"]
<1>1. [Gated!Nothing EXCEPT !.batch = b] = One
  BY SMT DEF Gated!Nothing
<1>2. [One EXCEPT !.answer = a]
        = [kind |-> "none", name |-> None, want |-> None, batch |-> b, answer |-> a]
  BY SMT
<1>3. [Gated!Nothing EXCEPT !.batch = b, !.answer = a]
        = [[Gated!Nothing EXCEPT !.batch = b] EXCEPT !.answer = a]
  BY DEF Gated!Nothing
<1> QED BY <1>1, <1>2, <1>3, Zenon

LEMMA AnswerIs ==
  ASSUME NEW w \in Workers, NEW a, req'[w].name = None, req'[w].reply = a,
         \/ (req'[w].op \in Batches) = (req[w].op \in Batches)
         \/ a = "error" /\ req'[w].op \notin Batches,
         \A v \in Workers \ {w} : Asked(v)' = Asked(v)
  PROVE  Gated!Answer(w, a)
<1> DEFINE b == req'[w].op \in Batches
<1>1. Asked(w)' = [Gated!Nothing EXCEPT !.batch = b, !.answer = a]
  <2>1. Asked(w)' = [kind |-> "none", name |-> None, want |-> None, batch |-> b, answer |-> a]
    BY AskedNothing, Zenon
  <2> HIDE DEF b
  <2> QED BY <2>1, AnsweredIs, Zenon
<1>2. b \in {Asked(w).batch} \cup (IF a = "error" THEN {FALSE} ELSE {})
  <2>1. Asked(w).batch = (req[w].op \in Batches)
    BY DEF Asked, Batches
  <2>2. CASE b = (req[w].op \in Batches)
    BY <2>1, <2>2, Zenon
  <2>3. CASE a = "error" /\ ~b
    <3>1. b = FALSE
      BY <2>3
    <3> HIDE DEF b
    <3> QED BY <2>3, <3>1
  <2> QED BY <2>2, <2>3
<1> HIDE DEF b
<1>3. Gated!Others(w)
  BY DEF Gated!Others
<1> QED BY <1>1, <1>2, <1>3 DEF Gated!Answer

LEMMA FinishAnswers ==
  ASSUME ExclusiveInv, NEW w \in Workers, NEW a \in Replies, Finish(w, a),
         \A v \in Workers \ {w} : Asked(v)' = Asked(v)
  PROVE  Gated!Answer(w, a) /\ req'[w].name = None
<1>1. ControlOK
  BY DEF ExclusiveInv, TypeInv
<1>2. req'[w].name = None /\ req'[w].reply = a
  BY <1>1, FinishKeeps
<1>3. CASE Carries(w, a) /\ Advance(w, a)
  <2>1. req'[w].op = req[w].op
    BY <1>1, <1>3, AdvanceKeeps
  <2> QED BY <1>2, <2>1, AnswerIs
<1>4. CASE ~Carries(w, a) /\ Respond(w, a)
  <2>1. req'[w] = [Idle EXCEPT !.reply = a]
    BY <1>1, <1>4 DEF Respond, ControlOK, ReqOK
  <2>2. req'[w].op = "none"
    BY <2>1 DEF Idle
  <2>3. req'[w].op \notin Batches
    BY <2>2 DEF Batches
  <2>4. req[w].op \notin Batches \/ a = "error"
    BY <1>4 DEF Carries, Batches
  <2>5. (req'[w].op \in Batches) = (req[w].op \in Batches) \/ a = "error"
    BY <2>3, <2>4
  <2> QED BY <1>2, <2>3, <2>5, AnswerIs
<1> QED BY <1>3, <1>4 DEF Finish

-----------------------------------------------------------------------------
(* The steps of a worker that has an instance in hand.                     *)

LEMMA AskedHere ==
  ASSUME NEW w \in Workers
  PROVE  /\ Asked(w).kind = KindOf(w) /\ Asked(w).name = req[w].name
         /\ Asked(w).want = WantOf(w)
BY DEF Asked

LEMMA KindHere ==
  ASSUME NEW w \in Workers, req[w].name # None
  PROVE  /\ req[w].op = "create" => KindOf(w) = "create"
         /\ req[w].op \in {"patch", "ldapCa", "rollback"} => KindOf(w) = "change"
         /\ req[w].op = "reconcile" => KindOf(w) = "refresh"
         /\ req[w].op = "delete" => KindOf(w) = "remove"
         /\ Updating(w) => KindOf(w) = "update"
         /\ req[w].op \in UpdateOps /\ req[w].restoring => KindOf(w) = "giveUp"
         /\ req[w].op # "delete" /\ req[w].restoring => WantOf(w) = record[req[w].name]
         /\ req[w].op # "delete" /\ ~req[w].restoring => WantOf(w) = req[w].want
BY DEF KindOf, WantOf, Updating, UpdateOps

\* As long as it does the same for the same instance, it is asked the same.
LEMMA SameAsked ==
  ASSUME NEW w \in Workers, req[w].name # None,
         req'[w].op = req[w].op, req'[w].name = req[w].name,
         req'[w].restoring = req[w].restoring,
         req[w].op # "delete" => req'[w].want = req[w].want,
         req[w].restoring => record'[req[w].name] = record[req[w].name]
  PROVE  Asked(w)' = Asked(w)
<1>1. KindOf(w)' = KindOf(w)
  BY DEF KindOf
<1>2. WantOf(w)' = WantOf(w)
  BY DEF WantOf
<1> QED BY <1>1, <1>2 DEF Asked

\* An update has failed, or goes on putting the record back.
LEMMA Turned ==
  ASSUME NEW w \in Workers, NEW r, req[w].name # None,
         req'[w].op = req[w].op, req'[w].name = req[w].name,
         KindOf(w)' = "giveUp", WantOf(w)' = r
  PROVE  Asked(w)' = [Asked(w) EXCEPT !.kind = "giveUp", !.want = r]
<1> DEFINE b == req[w].op \in {"reconcile", "updateAll"}
           failed == [kind |-> "giveUp", name |-> req[w].name, want |-> WantOf(w),
                      batch |-> b, answer |-> "none"]
<1>1. Asked(w)' = [kind |-> "giveUp", name |-> req[w].name, want |-> r,
                   batch |-> b, answer |-> "none"]
  BY DEF Asked
<1>2. Asked(w) = [kind |-> KindOf(w), name |-> req[w].name, want |-> WantOf(w),
                  batch |-> b, answer |-> "none"]
  BY DEF Asked
<1> HIDE DEF b
<1>3. [Asked(w) EXCEPT !.kind = "giveUp"] = failed
  BY <1>2, SMT
<1>4. [failed EXCEPT !.want = r] = Asked(w)'
  BY <1>1, SMT
<1>5. [Asked(w) EXCEPT !.kind = "giveUp", !.want = r]
        = [[Asked(w) EXCEPT !.kind = "giveUp"] EXCEPT !.want = r]
  OBVIOUS
<1> HIDE DEF failed
<1> QED BY <1>3, <1>4, <1>5, Zenon

\* What an update was to put in place is taken back, or is being taken back.
LEMMA TakesBack ==
  ASSUME ExclusiveInv, ExclusiveInv', NEW w \in Workers, NEW n \in Names, NEW r,
         req[w].name = n, Local(w, n), req[w].op \in UpdateOps, req[w].old # None,
         req'[w].op = req[w].op, req'[w].name = n, req'[w].old = req[w].old,
         req'[w].restoring = TRUE, record'[n] = r,
         r \in {WantOf(w), SettledRecord(n)} \cup {t \in Records : t.image = Torn}
  PROVE  Gated!Next
<1>1. n # None /\ req[w].op \notin {"create", "patch", "ldapCa", "rollback", "reconcile", "delete"}
  BY NoneApart DEF UpdateOps
<1>2. KindOf(w) \in {"update", "giveUp"}
  BY <1>1, KindHere DEF Updating, UpdateOps
<1>3. KindOf(w)' = "giveUp"
  BY <1>1 DEF KindOf
<1>4. WantOf(w)' = r
  BY <1>1 DEF WantOf
<1>5. Asked(w)' = [Asked(w) EXCEPT !.kind = "giveUp", !.want = r]
  <2>1. req[w].name # None /\ req'[w].name = req[w].name
    BY <1>1
  <2> QED BY <1>3, <1>4, <2>1, Turned, Zenon
<1>6. SettledRecord(n) = req[w].old /\ SettledRecord(n)' = req[w].old
  BY SettledHere, SettledHereThen
<1>7. Gated!Others(w) /\ Gated!Drift(n)
  BY <1>6, Drifts DEF Gated!Others, Local
<1>8. \A m \in Names : SettledRecord(m)' = SettledRecord(m)
  BY <1>6 DEF Local
<1>9. Gated!GiveUp(w)
  BY <1>2, <1>5, <1>7, <1>8, AskedHere, SettledStays
     DEF Gated!GiveUp, Gated!Kind, Gated!Name, Gated!Want
<1> QED BY <1>9 DEF Gated!Next

LEMMA MovesOn ==
  ASSUME ExclusiveInv, ExclusiveInv', NEW w \in Workers, NEW n \in Names,
         req[w].name = n, Local(w, n),
         record'[n] = record[n], record[n] # None,
         req'[w].op = req[w].op, req'[w].name = n, req'[w].old = req[w].old,
         req'[w].restoring = req[w].restoring,
         req[w].op # "delete" => req'[w].want = req[w].want
  PROVE  Gated!Next
<1>1. \A v \in Workers : Asked(v)' = Asked(v)
  BY SameAsked, NoneApart DEF Local
<1>2. SettledRecord(n)' = SettledRecord(n)
  BY SettledHere, SettledHereThen
<1> QED BY <1>1, <1>2, SettledExists, DriftOnly DEF Local

LEMMA GivesUp ==
  ASSUME ExclusiveInv, ExclusiveInv', NEW w \in Workers, NEW n \in Names,
         req[w].name = n, Local(w, n), req[w].pc \in ApplySteps,
         Updating(w), Restore(w), record'[n] = req[w].want
  PROVE  Gated!Next
<1>1. /\ req'[w].op = req[w].op /\ req'[w].name = n /\ req'[w].old = req[w].old
      /\ req'[w].restoring = TRUE
  BY Applying DEF Restore, RequestStates
<1>2. req[w].op \in UpdateOps /\ req[w].old # None
  BY Applying, NoneApart DEF Updating, UpdateOps
<1>3. WantOf(w) = req[w].want
  BY KindHere, NoneApart DEF Updating
<1> QED BY <1>1, <1>2, <1>3, TakesBack

\* What a worker has answered about, it has no more in hand.
LEMMA LetGo ==
  ASSUME ExclusiveInv, ExclusiveInv', NEW w \in Workers, NEW n \in Names,
         req[w].name = n, NEW a \in Replies, Finish(w, a), Local(w, n)
  PROVE  Gated!Answer(w, a) /\ SettledRecord(n)' = record'[n]
<1>1. Gated!Answer(w, a) /\ req'[w].name = None
  BY FinishAnswers DEF Local
<1>2. \A v \in Workers \ {w} : req'[v] = req[v]
  BY FinishKeeps DEF ExclusiveInv, TypeInv
<1>3. \A v \in Workers : req'[v].name # n
  BY <1>1, <1>2, NoneApart DEF ExclusiveInv, Owner, Touches
<1> QED BY <1>1, <1>3, SettledFreeThen

LEMMA Fails ==
  ASSUME PlaceInv, ExclusiveInv', NEW w \in Workers, NEW n \in Names,
         req[w].name = n, Local(w, n), req[w].pc \in ApplySteps \cup RemoveSteps,
         ~Updating(w), Finish(w, "error"), record'[n] = SettledRecord(n),
         SettledRecord(n) # None
  PROVE  Gated!Next
<1>1. Gated!Answer(w, "error") /\ SettledRecord(n)' = SettledRecord(n)
  BY LetGo DEF PlaceInv, Replies
<1>2. Gated!Drift(n)
  BY Drifts DEF Local
<1>3. KindOf(w) \in {"create", "change", "refresh", "giveUp", "remove"}
  <2>1. req[w].op \in SingleOps \cup Batches \cup {"delete"}
    BY Removing DEF PlaceInv, Place
  <2> QED BY <2>1, KindHere, NoneApart DEF SingleOps, Batches, Updating, UpdateOps
<1>4. \A m \in Names : SettledRecord(m)' = SettledRecord(m)
  BY <1>1 DEF Local
<1>5. Gated!Fail(w)
  BY <1>1, <1>2, <1>3, <1>4, AskedHere, SettledStays DEF Gated!Fail, Gated!Kind, Gated!Name
<1> QED BY <1>5 DEF Gated!Next

\* What an apply does once the record is on disk, until it has a container.
LEMMA Applies ==
  ASSUME PlaceInv, ExclusiveInv', NEW w \in Workers, NEW n \in Names,
         req[w].name = n, Local(w, n), record' = record,
         req[w].pc \in {"render", "renderPolicy", "recreate", "run", "start", "settle"},
         (\E l \in Labels : Goto(w, l)) \/ Raise(w)
  PROVE  Gated!Next
<1>1. req[w].pc \in ApplySteps /\ ExclusiveInv
  BY DEF ApplySteps, PlaceInv
<1>2. /\ record[n] = req[w].want /\ record[n] # None
      /\ req[w].restoring => record[n] = req[w].old
  BY <1>1, Applying, NoneApart DEF Applied
<1>3. CASE \E l \in Labels : Goto(w, l)
  <2>1. /\ req'[w].op = req[w].op /\ req'[w].name = n /\ req'[w].old = req[w].old
        /\ req'[w].restoring = req[w].restoring /\ req'[w].want = req[w].want
    BY <1>1, <1>3, Applying DEF Goto, RequestStates
  <2> QED BY <1>1, <1>2, <2>1, MovesOn
<1>4. CASE Updating(w) /\ Restore(w)
  BY <1>1, <1>2, <1>4, GivesUp
<1>5. CASE ~Updating(w) /\ Finish(w, "error")
  <2>1. SettledRecord(n) = record[n]
    BY <1>1, <1>2, <1>5, SettledHere DEF Updating, UpdateOps
  <2> QED BY <1>1, <1>2, <1>5, <2>1, Fails
<1> QED BY <1>3, <1>4, <1>5 DEF Raise

-----------------------------------------------------------------------------
(* A step of a worker is about its own instance.                           *)

LEMMA NameKept ==
  ASSUME TypeInv, NEW w \in Workers, WorkerStep(w), req[w].pc \in ApplySteps \cup RemoveSteps
  PROVE  req'[w].name \in {req[w].name, None}
<1>1. ControlOK /\ req[w] \in RequestStates /\ req \in [Workers -> RequestStates]
  BY DEF TypeInv, ControlOK, ReqOK
<1>2. ASSUME NEW l, Goto(w, l) PROVE req'[w].name = req[w].name
  BY <1>1, <1>2 DEF Goto, RequestStates
<1>3. ASSUME NEW a \in Replies, Finish(w, a) PROVE req'[w].name = None
  BY <1>1, <1>3, FinishKeeps
<1>4. Restore(w) => req'[w].name = req[w].name
  BY <1>1 DEF Restore, RequestStates
<1>5. Raise(w) => req'[w].name \in {req[w].name, None}
  BY <1>3, <1>4 DEF Raise, Replies
<1>6. ASSUME NEW l, SetLeave(w, l) PROVE req'[w].name = req[w].name
  BY <1>1, <1>6 DEF SetLeave, RequestStates
<1>7. CASE \/ TruncatePrev(w) \/ WritePrev(w) \/ Truncate(w) \/ Put(w) \/ Render(w)
           \/ RenderPolicy(w) \/ RemoveOld(w) \/ CreateContainer(w) \/ StartContainer(w)
  <2>1. Raise(w) \/ \E l : Goto(w, l)
    BY <1>7, Zenon DEF TruncatePrev, WritePrev, Truncate, Put, Render, RenderPolicy, RemoveOld,
       CreateContainer, StartContainer
  <2> QED BY <1>2, <1>5, <2>1
<1>12. CASE Settle(w) \/ WatchHealth(w)
  BY <1>2, <1>3, <1>4, <1>5, <1>12 DEF Settle, WatchHealth, Replies
<1>8. CASE GetForRemoval(w)
  BY <1>1, <1>5, <1>8 DEF GetForRemoval, RequestStates
<1>9. CASE StopForLeave(w) \/ LeaveDomain(w) \/ RemoveContainer(w) \/ RemoveVolume(w)
           \/ RemoveRendered(w) \/ RemovePrev(w) \/ RemoveRecord(w)
  <2>1. \/ \E l : Goto(w, l) \/ SetLeave(w, l)
        \/ Raise(w) \/ Finish(w, "removed")
    BY <1>9, Zenon DEF StopForLeave, LeaveDomain, RemoveContainer, RemoveVolume,
       RemoveRendered, RemovePrev, RemoveRecord
  <2> QED BY <2>1, <1>2, <1>3, <1>5, <1>6 DEF Replies
<1>10. \A n \in Names : ~NextReconcile(w, n) /\ ~NextUpdate(w, n)
  BY DEF NextReconcile, NextUpdate, ApplySteps, RemoveSteps
<1>11. ~EndBatch(w)
  BY DEF EndBatch, ApplySteps, RemoveSteps
<1> QED BY <1>7, <1>8, <1>9, <1>10, <1>11, <1>12 DEF WorkerStep

LEMMA StepIsLocal ==
  ASSUME ExclusiveInv, ExclusiveInv', NEW w \in Workers, NEW n \in Names, req[w].name = n,
         WorkerStep(w), req[w].pc \in ApplySteps \cup RemoveSteps
  PROVE  Local(w, n)
<1>1. \A v \in Workers \ {w} : req'[v] = req[v] /\ req[v].name # n
  BY OthersSilent DEF ExclusiveInv, Owner, Touches
<1>2. \A m \in Names \ {n} : SameAt(m)
  BY SameElsewhere DEF ExclusiveInv
<1>3. req'[w].name \in {n, None}
  BY NameKept DEF ExclusiveInv
<1> QED BY <1>1, <1>2, <1>3, Elsewhere

-----------------------------------------------------------------------------
(* Each step of an apply or a removal is one of GatedUpdate.               *)

LEMMA WritePrevGated ==
  ASSUME PlaceInv, ExclusiveInv', NEW w \in Workers, TruncatePrev(w) \/ WritePrev(w)
  PROVE  Gated!Next
<1>1. req[w].pc \in {"prev", "prevWrite"} /\ req[w].pc \in ApplySteps /\ ExclusiveInv
  BY DEF TruncatePrev, WritePrev, ApplySteps, PlaceInv
<1>2. PICK n \in Names : req[w].name = n
  BY <1>1, Applying
<1>3. Local(w, n)
  BY <1>1, <1>2, StepIsLocal DEF WorkerStep
<1>4. record' = record /\ record[n] # None
  BY <1>1, <1>2, Applying DEF TruncatePrev, WritePrev
<1>5. /\ req'[w].op = req[w].op /\ req'[w].name = n /\ req'[w].old = req[w].old
      /\ req'[w].restoring = req[w].restoring /\ req'[w].want = req[w].want
  BY <1>1, <1>2, Applying DEF TruncatePrev, WritePrev, Goto, RequestStates
<1> QED BY <1>1, <1>2, <1>3, <1>4, <1>5, MovesOn

\* The container is made; if anything raises, the update is given up.
LEMMA ApplyGated ==
  ASSUME PlaceInv, ExclusiveInv', NEW w \in Workers,
         \/ Render(w) \/ RenderPolicy(w) \/ RemoveOld(w)
         \/ CreateContainer(w) \/ StartContainer(w)
  PROVE  Gated!Next
<1>1. /\ req[w].pc \in {"render", "renderPolicy", "recreate", "run", "start", "settle"}
      /\ req[w].pc \in ApplySteps /\ ExclusiveInv
  BY DEF Render, RenderPolicy, RemoveOld, CreateContainer, StartContainer, ApplySteps, PlaceInv
<1>2. PICK n \in Names : req[w].name = n
  BY <1>1, Applying
<1>3. Local(w, n)
  BY <1>1, <1>2, StepIsLocal DEF WorkerStep
<1>4. record' = record /\ ((\E l \in Labels : Goto(w, l)) \/ Raise(w))
  BY DEF Render, RenderPolicy, RemoveOld, CreateContainer, StartContainer, Labels, ledger
<1> QED BY <1>1, <1>2, <1>3, <1>4, Applies

LEMMA Serves ==
  ASSUME ExclusiveInv, NEW w \in Workers, NEW n \in Names, req[w].name = n,
         req[w].pc \in {"settle", "watch"}
  PROVE  /\ record[n] = req[w].want /\ ServedRecord(n) = req[w].want
         /\ record[n] # None
         /\ req[w].restoring => req[w].want = req[w].old
<1>1. req[w].pc \in ApplySteps
  BY DEF ApplySteps
<1>2. /\ record[n] = req[w].want /\ container[n] # None
      /\ container[n].image = req[w].want.image
      /\ container[n].cfg = req[w].want.cfg
      /\ container[n].loaded = req[w].want.cfg
      /\ req[w].restoring => req[w].want = req[w].old
      /\ record[n] # None
  BY <1>1, Applying, NoneApart DEF Applied
<1>3. req[w].want = [image |-> req[w].want.image, cfg |-> req[w].want.cfg]
  BY <1>1, Applying DEF Records
<1>4. ServedRecord(n) = [image |-> req[w].want.image, cfg |-> req[w].want.cfg]
  BY <1>2 DEF ServedRecord
<1> QED BY <1>2, <1>3, <1>4

LEMMA SettleGated ==
  ASSUME PlaceInv, ExclusiveInv', NEW w \in Workers, Settle(w)
  PROVE  Gated!Next
<1>1. req[w].pc = "settle" /\ req[w].pc \in ApplySteps /\ ExclusiveInv
  BY DEF Settle, ApplySteps, PlaceInv
<1>2. PICK n \in Names : req[w].name = n
  BY <1>1, Applying
<1>3. Local(w, n)
  BY <1>1, <1>2, StepIsLocal DEF WorkerStep
<1>4. record' = record /\ UNCHANGED engine /\ UNCHANGED prev
  BY DEF Settle, ledger
<1>5. \A m \in Names : Unseen(m)
  BY <1>4 DEF Unseen, ServedRecord, Healthy, Remains, engine
<1>6. /\ record[n] = req[w].want /\ ServedRecord(n) = req[w].want
      /\ req[w].restoring => req[w].want = req[w].old
  BY <1>1, <1>2, Serves
<1>7. CASE Goto(w, "watch") \/ Raise(w)
  BY <1>1, <1>2, <1>3, <1>4, <1>7, Applies DEF Labels
<1>8. CASE req[w].restoring /\ Finish(w, "rolledBack")
  <2>1. req[w].op \in UpdateOps
    BY <1>1, <1>8, Applying DEF Applied, UpdateOps
  <2>2. KindOf(w) = "giveUp" /\ WantOf(w) = record[n] /\ SettledRecord(n) = record[n]
    <3>1. req[w].name # None /\ req[w].op # "delete"
      BY <1>2, <2>1, NoneApart DEF UpdateOps
    <3>2. KindOf(w) = "giveUp" /\ WantOf(w) = record[n]
      BY <1>2, <1>8, <2>1, <3>1, KindHere
    <3>3. SettledRecord(n) = req[w].old
      BY <1>1, <1>2, <2>1, SettledHere
    <3> QED BY <1>6, <1>8, <3>2, <3>3
  <2>3. Gated!Answer(w, "rolledBack") /\ SettledRecord(n)' = record[n]
    BY <1>1, <1>2, <1>3, <1>4, <1>8, LetGo DEF Replies
  <2>4. \A m \in Names : SettledRecord(m)' = SettledRecord(m)
    BY <1>3, <2>2, <2>3 DEF Local
  <2>5. Gated!RolledBack(w)
    BY <1>2, <1>5, <1>6, <2>2, <2>3, <2>4, AskedHere, HostUnseen, SettledStays
       DEF Gated!RolledBack, Gated!Kind, Gated!Name, Gated!Want
  <2> QED BY <2>5 DEF Gated!Next
<1>9. CASE ~Updating(w) /\ ~req[w].restoring /\ Finish(w, "ok")
  <2>1. req[w].op \in {"create", "patch", "ldapCa", "rollback", "reconcile"}
    BY <1>1, <1>9 DEF PlaceInv, Place, SingleOps, Batches, Updating
  <2>2. /\ KindOf(w) \in {"create", "change", "refresh"} /\ WantOf(w) = record[n]
        /\ SettledRecord(n) = record[n]
    <3>1. req[w].name # None /\ req[w].op # "delete" /\ req[w].op \notin UpdateOps
      BY <1>2, <2>1, NoneApart DEF UpdateOps
    <3>2. KindOf(w) \in {"create", "change", "refresh"}
      BY <2>1, <3>1, KindHere
    <3>3. WantOf(w) = req[w].want
      BY <1>9, <3>1, KindHere
    <3>4. SettledRecord(n) = record[n]
      BY <1>1, <1>2, <3>1, SettledHere
    <3> QED BY <1>6, <3>2, <3>3, <3>4
  <2>3. Gated!Answer(w, "ok") /\ SettledRecord(n)' = record[n]
    BY <1>1, <1>2, <1>3, <1>4, <1>9, LetGo DEF Replies
  <2>4. \A m \in Names : SettledRecord(m)' = SettledRecord(m)
    BY <1>3, <2>2, <2>3 DEF Local
  <2>5. Gated!Done(w)
    BY <1>2, <1>5, <1>6, <2>2, <2>3, <2>4, AskedHere, HostUnseen, SettledStays
       DEF Gated!Done, Gated!Kind, Gated!Name, Gated!Want
  <2> QED BY <2>5 DEF Gated!Next
<1> QED BY <1>7, <1>8, <1>9 DEF Settle

LEMMA WatchHealthGated ==
  ASSUME PlaceInv, ExclusiveInv', NEW w \in Workers, WatchHealth(w)
  PROVE  Gated!Next
<1>1. /\ req[w].pc = "watch" /\ req[w].pc \in ApplySteps /\ Updating(w)
      /\ ExclusiveInv
  BY DEF WatchHealth, ApplySteps, PlaceInv, ExclusiveInv, TypeInv, ControlOK, WorkerOK
<1>2. PICK n \in Names : req[w].name = n
  BY <1>1, Applying
<1>3. Local(w, n)
  BY <1>1, <1>2, StepIsLocal DEF WorkerStep
<1>4. record' = record /\ UNCHANGED engine /\ UNCHANGED prev
  BY DEF WatchHealth, ledger
<1>5. \A m \in Names : Unseen(m)
  BY <1>4 DEF Unseen, ServedRecord, Healthy, Remains, engine
<1>6. record[n] = req[w].want /\ ServedRecord(n) = req[w].want
  BY <1>1, <1>2, Serves
<1>7. KindOf(w) = "update" /\ WantOf(w) = req[w].want
  BY <1>1, <1>2, KindHere, NoneApart DEF Updating
<1>8. CASE Restore(w)
  BY <1>1, <1>2, <1>3, <1>4, <1>6, <1>8, GivesUp
<1>9. ASSUME NEW a \in Replies, Finish(w, a)
      PROVE  /\ Gated!Answer(w, a)
             /\ [m \in Names |-> SettledRecord(m)]'
                  = [[m \in Names |-> SettledRecord(m)] EXCEPT ![n] = req[w].want]
  <2>1. Gated!Answer(w, a) /\ SettledRecord(n)' = req[w].want
    BY <1>1, <1>2, <1>3, <1>4, <1>6, <1>9, LetGo
  <2> QED BY <1>3, <2>1 DEF Local
<1>10. CASE Healthy(n) /\ Finish(w, "updated")
  <2>1. Gated!Update(w)
    BY <1>2, <1>5, <1>6, <1>7, <1>9, <1>10, AskedHere, HostUnseen
       DEF Gated!Update, Gated!Kind, Gated!Name, Gated!Want, Replies
  <2> QED BY <2>1 DEF Gated!Next
<1>11. CASE Finish(w, "error")
  <2>1. Gated!Unsure(w)
    BY <1>2, <1>5, <1>6, <1>7, <1>9, <1>11, AskedHere, HostUnseen
       DEF Gated!Unsure, Gated!Kind, Gated!Name, Gated!Want, Replies
  <2> QED BY <2>1 DEF Gated!Next
<1> QED BY <1>2, <1>8, <1>10, <1>11 DEF WatchHealth

\* A create or a change is recorded.
LEMMA IsRecorded ==
  ASSUME ExclusiveInv, ExclusiveInv', NEW w \in Workers, NEW n \in Names, req[w].name = n,
         Local(w, n), \A m \in Names : Unseen(m),
         KindOf(w) \in {"create", "change"}, WantOf(w) = req[w].want,
         KindOf(w) = "change" => SettledRecord(n) # None,
         SettledRecord(n)' = req[w].want,
         Asked(w)' = Asked(w) \/ Gated!Answer(w, "error")
  PROVE  Gated!Next
<1>1. [m \in Names |-> SettledRecord(m)]'
        = [[m \in Names |-> SettledRecord(m)] EXCEPT ![n] = req[w].want]
  BY DEF Local
<1>2. [v \in Workers |-> Asked(v)]' = [v \in Workers |-> Asked(v)] \/ Gated!Answer(w, "error")
  BY DEF Local
<1>3. Gated!Record(w)
  BY <1>1, <1>2, AskedHere, HostUnseen DEF Gated!Record, Gated!Kind, Gated!Name, Gated!Want
<1> QED BY <1>3 DEF Gated!Next

\* Before that its record cannot be read; an update does not show it.
LEMMA TruncateGated ==
  ASSUME PlaceInv, ExclusiveInv', NEW w \in Workers, Truncate(w)
  PROVE  Gated!Next
<1>1. /\ req[w].pc = "put" /\ req[w].pc \in ApplySteps /\ ExclusiveInv /\ Place(w)
      /\ WorkerOK(w)
  BY DEF Truncate, ApplySteps, PlaceInv, ExclusiveInv, TypeInv, ControlOK
<1>2. PICK n \in Names : req[w].name = n
  BY <1>1, Applying
<1>3. Local(w, n)
  BY <1>1, <1>2, StepIsLocal DEF WorkerStep
<1> DEFINE torn == [req[w].want EXCEPT !.image = Torn]
<1>4. record'[n] = torn /\ UNCHANGED engine /\ UNCHANGED prev
  BY <1>1, <1>2, Applying DEF Truncate, StateOK
<1>5. torn \in {t \in Records : t.image = Torn}
  BY <1>1, Applying DEF Records
<1> HIDE DEF torn
<1>6. \A m \in Names : Unseen(m)
  BY <1>4 DEF Unseen, ServedRecord, Healthy, Remains, engine
<1>7. /\ req'[w].op = req[w].op /\ req'[w].name = n /\ req'[w].old = req[w].old
      /\ req'[w].restoring = req[w].restoring /\ req'[w].want = req[w].want
  BY <1>1, <1>2, Applying DEF Truncate, Goto, RequestStates
<1>8. req[w].name # None /\ req[w].op # "delete"
  BY <1>1, <1>2, NoneApart DEF Place, SingleOps, Batches
<1>9. CASE req[w].op \notin UpdateOps
  <2>1. ~req[w].restoring
    BY <1>1, <1>9, Applying DEF Applied, UpdateOps
  <2>2. /\ KindOf(w) \in {"create", "change"}
        /\ KindOf(w) = "change" => record[n] # None
    BY <1>1, <1>2, <1>8, <1>9, KindHere DEF Place, SingleOps, Batches, UpdateOps
  <2>3. SettledRecord(n) = record[n] /\ SettledRecord(n)' = torn
    BY <1>1, <1>2, <1>4, <1>7, <1>9, SettledHere, SettledHereThen
  <2>4. Asked(w)' = Asked(w)
    BY <1>2, <1>7, <1>8, <2>1, SameAsked
  <2>5. [m \in Names |-> SettledRecord(m)]' = [[m \in Names |-> SettledRecord(m)] EXCEPT ![n] = torn]
    BY <1>3, <2>3 DEF Local
  <2>6. [v \in Workers |-> Asked(v)]' = [v \in Workers |-> Asked(v)]
    BY <1>3, <2>4 DEF Local
  <2>7. Gated!Empty(w)
    BY <1>2, <1>5, <1>6, <2>2, <2>3, <2>5, <2>6, AskedHere, HostUnseen
       DEF Gated!Empty, Gated!Kind, Gated!Name
  <2> QED BY <2>7 DEF Gated!Next
<1>10. CASE req[w].op \in UpdateOps /\ ~req[w].restoring
  <2>1. SettledRecord(n) = req[w].old /\ SettledRecord(n) # None
    BY <1>1, <1>2, <1>10, SettledHere, NoneApart DEF WorkerOK, UpdateOps
  <2>2. SettledRecord(n)' = SettledRecord(n)
    BY <1>7, <1>10, <2>1, SettledHereThen
  <2>3. Asked(w)' = Asked(w)
    BY <1>2, <1>7, <1>8, <1>10, SameAsked
  <2> QED BY <1>3, <2>1, <2>2, <2>3, DriftOnly DEF Local
<1>11. CASE req[w].op \in UpdateOps /\ req[w].restoring
  <2>1. req[w].old # None
    BY <1>1, <1>11, NoneApart DEF WorkerOK, UpdateOps
  <2>2. req'[w].restoring = TRUE
    BY <1>1, <1>7, <1>11, Applying DEF RequestStates
  <2> QED BY <1>1, <1>2, <1>3, <1>4, <1>5, <1>7, <1>11, <2>1, <2>2, TakesBack
<1> QED BY <1>9, <1>10, <1>11

LEMMA PutGated ==
  ASSUME PlaceInv, ExclusiveInv', NEW w \in Workers, Put(w)
  PROVE  Gated!Next
<1>1. /\ req[w].pc = "putWrite" /\ req[w].pc \in ApplySteps /\ ExclusiveInv /\ Place(w)
      /\ WorkerOK(w)
  BY DEF Put, ApplySteps, PlaceInv, ExclusiveInv, TypeInv, ControlOK
<1>2. PICK n \in Names : req[w].name = n
  BY <1>1, Applying
<1>3. Local(w, n)
  BY <1>1, <1>2, StepIsLocal DEF WorkerStep
<1>4. record'[n] = req[w].want /\ UNCHANGED engine /\ UNCHANGED prev
  BY <1>1, <1>2, Applying DEF Put, StateOK
<1>5. \A m \in Names : Unseen(m)
  BY <1>4 DEF Unseen, ServedRecord, Healthy, Remains, engine
<1>6. Goto(w, "render") \/ Raise(w)
  BY DEF Put
<1>7. Goto(w, "render") =>
        /\ req'[w].op = req[w].op /\ req'[w].name = n /\ req'[w].old = req[w].old
        /\ req'[w].restoring = req[w].restoring /\ req'[w].want = req[w].want
  BY <1>1, <1>2, Applying DEF Goto, RequestStates
<1>8. req[w].name # None /\ req[w].op # "delete"
  BY <1>1, <1>2, NoneApart DEF Place, SingleOps, Batches
<1>9. CASE req[w].op \notin UpdateOps
  <2>1. ~req[w].restoring /\ ~Updating(w)
    BY <1>1, <1>9, Applying DEF Applied, Updating, UpdateOps
  <2>2. KindOf(w) \in {"create", "change"} /\ record[n] # None
    BY <1>1, <1>2, <1>8, <1>9, KindHere, Applying DEF Place, SingleOps, Batches, UpdateOps
  <2>3. WantOf(w) = req[w].want
    BY <1>8, <2>1, KindHere
  <2>4. SettledRecord(n) = record[n]
    BY <1>1, <1>2, <1>9, SettledHere
  <2>5. CASE Goto(w, "render")
    <3>1. SettledRecord(n)' = req[w].want
      BY <1>4, <1>7, <1>9, <2>5, SettledHereThen
    <3>2. Asked(w)' = Asked(w)
      BY <1>2, <1>7, <1>8, <2>1, <2>5, SameAsked
    <3> QED BY <1>1, <1>2, <1>3, <1>5, <2>2, <2>3, <2>4, <3>1, <3>2, IsRecorded
  <2>6. CASE Raise(w)
    <3>1. Finish(w, "error")
      BY <2>1, <2>6 DEF Raise
    <3>2. Gated!Answer(w, "error") /\ SettledRecord(n)' = req[w].want
      BY <1>1, <1>2, <1>3, <1>4, <3>1, LetGo DEF Replies
    <3> QED BY <1>1, <1>2, <1>3, <1>5, <2>2, <2>3, <2>4, <3>2, IsRecorded
  <2> QED BY <1>6, <2>5, <2>6
<1>10. CASE Updating(w)
  <2>1. ~req[w].restoring /\ req[w].op \in UpdateOps
    BY <1>10 DEF Updating, UpdateOps
  <2>2. SettledRecord(n) = req[w].old /\ SettledRecord(n) # None
    BY <1>1, <1>2, <2>1, SettledHere, NoneApart DEF WorkerOK, UpdateOps
  <2>3. CASE Goto(w, "render")
    <3>1. SettledRecord(n)' = SettledRecord(n)
      BY <1>7, <2>1, <2>2, <2>3, SettledHereThen
    <3>2. Asked(w)' = Asked(w)
      BY <1>2, <1>7, <1>8, <2>1, <2>3, SameAsked
    <3> QED BY <1>3, <2>2, <3>1, <3>2, DriftOnly DEF Local
  <2>4. CASE Raise(w)
    BY <1>1, <1>2, <1>3, <1>4, <1>10, <2>4, GivesUp DEF Raise
  <2> QED BY <1>6, <2>3, <2>4
<1>11. CASE req[w].op \in UpdateOps /\ req[w].restoring
  <2>1. req[w].want = req[w].old /\ ~Updating(w)
    BY <1>1, <1>11, Applying DEF Applied, Updating
  <2>2. SettledRecord(n) = req[w].old /\ SettledRecord(n) # None
    BY <1>1, <1>2, <1>11, SettledHere, NoneApart DEF WorkerOK, UpdateOps
  <2>3. CASE Goto(w, "render")
    <3>1. req'[w].restoring = TRUE
      BY <1>1, <1>7, <1>11, <2>3, Applying DEF RequestStates
    <3> QED BY <1>1, <1>2, <1>3, <1>4, <1>7, <1>11, <2>1, <2>2, <2>3, <3>1, TakesBack
  <2>4. CASE Raise(w)
    BY <1>1, <1>2, <1>3, <1>4, <2>1, <2>2, <2>4, Fails DEF Raise
  <2> QED BY <1>6, <2>3, <2>4
<1> QED BY <1>9, <1>10, <1>11 DEF Updating, UpdateOps

LEMMA RemovalGated ==
  ASSUME PlaceInv, ExclusiveInv', NEW w \in Workers,
         \/ GetForRemoval(w) \/ StopForLeave(w) \/ LeaveDomain(w) \/ RemoveContainer(w)
         \/ RemoveVolume(w) \/ RemoveRendered(w) \/ RemovePrev(w)
  PROVE  Gated!Next
<1>1. req[w].pc \in RemoveSteps /\ ExclusiveInv
  BY Zenon DEF GetForRemoval, StopForLeave, LeaveDomain, RemoveContainer, RemoveVolume,
     RemoveRendered, RemovePrev, RemoveSteps, PlaceInv
<1>2. PICK n \in Names : req[w].name = n
  BY <1>1, Removing
<1>3. Local(w, n)
  BY <1>1, <1>2, StepIsLocal DEF WorkerStep
<1>4. record' = record /\ record[n] # None /\ req[w].op = "delete"
  <2>1. record' = record
    BY Zenon DEF GetForRemoval, StopForLeave, LeaveDomain, RemoveContainer, RemoveVolume,
       RemoveRendered, RemovePrev, ledger
  <2> QED BY <1>1, <1>2, <2>1, Removing
<1>5. CASE Raise(w)
  <2>1. ~Updating(w) /\ Finish(w, "error") /\ SettledRecord(n) = record[n]
    BY <1>1, <1>2, <1>4, <1>5, SettledHere DEF Raise, Updating, UpdateOps
  <2> QED BY <1>1, <1>2, <1>3, <1>4, <2>1, Fails
<1>6. ASSUME NEW new, req' = [req EXCEPT ![w] = new], new.op = req[w].op, new.name = n,
             new.old = req[w].old, new.restoring = req[w].restoring
      PROVE  Gated!Next
  <2>1. req'[w] = new
    BY <1>1, <1>6, Removing
  <2> QED BY <1>1, <1>2, <1>3, <1>4, <1>6, <2>1, MovesOn
<1>7. ASSUME NEW l, Goto(w, l) PROVE Gated!Next
  <2> DEFINE new == [req[w] EXCEPT !.pc = l]
  <2>1. /\ new.op = req[w].op /\ new.name = n /\ new.old = req[w].old
        /\ new.restoring = req[w].restoring
    BY <1>1, <1>2, Removing DEF RequestStates
  <2>2. req' = [req EXCEPT ![w] = new]
    BY <1>7 DEF Goto
  <2> HIDE DEF new
  <2> QED BY <1>6, <2>1, <2>2
<1>8. ASSUME NEW l, SetLeave(w, l) PROVE Gated!Next
  <2> DEFINE new == [req[w] EXCEPT !.leave = l, !.pc = "rmContainer"]
  <2>1. /\ new.op = req[w].op /\ new.name = n /\ new.old = req[w].old
        /\ new.restoring = req[w].restoring
    BY <1>1, <1>2, Removing DEF RequestStates
  <2>2. req' = [req EXCEPT ![w] = new]
    BY <1>8 DEF SetLeave
  <2> HIDE DEF new
  <2> QED BY <1>6, <2>1, <2>2
<1>9. CASE GetForRemoval(w)
  <2> DEFINE found == Listed[n]
             l == IF found = None THEN "rmPrev" ELSE "stop"
             new == [req[w] EXCEPT !.want = found, !.pc = l]
  <2>1. /\ new.op = req[w].op /\ new.name = n /\ new.old = req[w].old
        /\ new.restoring = req[w].restoring
    BY <1>1, <1>2, Removing DEF RequestStates
  <2>2. req' = [req EXCEPT ![w] = new] \/ Raise(w)
    BY <1>2, <1>9 DEF GetForRemoval
  <2> HIDE DEF new
  <2> QED BY <1>5, <1>6, <2>1, <2>2
<1>10. CASE ~GetForRemoval(w)
  <2>1. Raise(w) \/ \E l : Goto(w, l) \/ SetLeave(w, l)
    BY <1>10, Zenon DEF StopForLeave, LeaveDomain, RemoveContainer, RemoveVolume,
       RemoveRendered, RemovePrev
  <2> QED BY <1>5, <1>7, <1>8, <2>1
<1> QED BY <1>9, <1>10

\* When the record goes, nothing else is left.
LEMMA RemoveRecordGated ==
  ASSUME PlaceInv, ExclusiveInv', NEW w \in Workers, RemoveRecord(w)
  PROVE  Gated!Next
<1>1. /\ req[w].pc = "rmRecord" /\ req[w].pc \in RemoveSteps /\ ExclusiveInv
      /\ req[w].op = "delete"
  BY Removing DEF RemoveRecord, RemoveSteps, PlaceInv
<1>2. PICK n \in Names : req[w].name = n
  BY <1>1, Removing
<1>3. Local(w, n)
  BY <1>1, <1>2, StepIsLocal DEF WorkerStep
<1>4. record'[n] = None /\ UNCHANGED engine /\ UNCHANGED prev
  BY <1>1, <1>2, Removing DEF RemoveRecord, StateOK
<1>5. \A m \in Names : Unseen(m)
  BY <1>4 DEF Unseen, ServedRecord, Healthy, Remains, engine
<1>6. ~Remains(n)
  BY <1>1, <1>2, Removing DEF Removed, Remains
<1>7. KindOf(w) = "remove"
  BY <1>1, <1>2, KindHere, NoneApart
<1>8. Finish(w, "removed") \/ Finish(w, "error")
  BY <1>1, Zenon DEF RemoveRecord, Raise, Updating
<1>9. ASSUME NEW a \in Replies, Finish(w, a)
      PROVE  /\ Gated!Answer(w, a)
             /\ [m \in Names |-> SettledRecord(m)]'
                  = [[m \in Names |-> SettledRecord(m)] EXCEPT ![n] = None]
  <2>1. Gated!Answer(w, a) /\ SettledRecord(n)' = None
    BY <1>1, <1>2, <1>3, <1>4, <1>9, LetGo
  <2> QED BY <1>3, <2>1 DEF Local
<1>10. Gated!Remove(w)
  BY <1>2, <1>5, <1>6, <1>7, <1>8, <1>9, AskedHere, HostUnseen
     DEF Gated!Remove, Gated!Kind, Gated!Name, Replies
<1> QED BY <1>10 DEF Gated!Next

-----------------------------------------------------------------------------
(* What is asked for: a request, or the next instance of a batch.          *)

LEMMA NothingSeen ==
  ASSUME \A m \in Names : SameAt(m)
  PROVE  \A m \in Names : Unseen(m)
BY DEF SameAt, Unseen, ServedRecord, Healthy, Remains

LEMMA Asks ==
  ASSUME ExclusiveInv, ExclusiveInv', NEW w \in Workers, NEW n \in Names,
         \A m \in Names : SameAt(m),
         \A v \in Workers \ {w} : req'[v] = req[v],
         req[w].name = None, \A v \in Workers : req[v].name # n,
         req'[w].name = n, req'[w].restoring = FALSE,
         req'[w].op \in SingleOps \cup Batches \cup {"delete"},
         req'[w].op \in Batches => req'[w].op = req[w].op,
         req'[w].op # "create" => record[n] # None,
         req'[w].op = "reconcile" => req'[w].want = record[n],
         req'[w].op \in UpdateOps => req'[w].want.cfg = record[n].cfg /\ req'[w].old = record[n]
  PROVE  Gated!Next
<1>1. Local(w, n)
  BY Elsewhere
<1>2. SettledRecord(n) = record[n] /\ SettledRecord(n)' = record[n]
  <2>1. record'[n] = record[n]
    BY DEF SameAt
  <2> QED BY <2>1, SettledFree, SettledHereThen
<1>3. \A m \in Names : SettledRecord(m)' = SettledRecord(m)
  BY <1>1, <1>2 DEF Local
<1>4. n # None
  BY NoneApart
<1>5. KindOf(w) = "none"
  BY DEF KindOf
<1>6. /\ KindOf(w)' \in {"create", "change", "refresh", "update", "remove"}
      /\ KindOf(w)' # "create" => record[n] # None
      /\ KindOf(w)' = "refresh" => req'[w].op = "reconcile"
      /\ KindOf(w)' = "update" => req'[w].op \in UpdateOps
  BY <1>4 DEF KindOf, SingleOps, Batches, UpdateOps
<1>7. req'[w].op # "delete" => WantOf(w)' = req'[w].want
  BY <1>4 DEF WantOf
<1>8. /\ KindOf(w)' = "refresh" => WantOf(w)' = record[n]
      /\ KindOf(w)' = "update" => WantOf(w)'.cfg = record[n].cfg
  BY <1>6, <1>7 DEF UpdateOps
<1>9. /\ Asked(w)'.kind = KindOf(w)' /\ Asked(w)'.name = n
      /\ Asked(w)'.want = WantOf(w)' /\ Asked(w)'.answer = "none"
  BY <1>4 DEF Asked
<1>10. Asked(w)'.batch \in {Asked(w).batch, FALSE}
  <2>1. /\ Asked(w)'.batch = (req'[w].op \in Batches)
        /\ Asked(w).batch = (req[w].op \in Batches)
    BY DEF Asked, Batches
  <2>2. CASE req'[w].op \in Batches
    BY <2>1, <2>2
  <2>3. CASE req'[w].op \notin Batches
    <3>1. (req'[w].op \in Batches) = FALSE
      BY <2>3
    <3>2. Asked(w)'.batch = FALSE
      BY <2>1, <3>1, Zenon
    <3> QED BY <3>2
  <2> QED BY <2>2, <2>3
<1>11. Gated!Others(w) /\ \A d \in Workers : Asked(d).name # n
  BY <1>1, AskedHere DEF Gated!Others, Local
<1>12. Gated!Ask(w)
  BY <1>2, <1>3, <1>5, <1>6, <1>8, <1>9, <1>10, <1>11, AskedHere, HostUnseen, NothingSeen,
     SettledStays
     DEF Gated!Ask, Gated!Kind, Gated!Name
<1> QED BY <1>12 DEF Gated!Next

LEMMA Walks ==
  ASSUME ExclusiveInv, ExclusiveInv', NEW w \in Workers,
         \A m \in Names : SameAt(m),
         \A v \in Workers \ {w} : req'[v] = req[v],
         req[w].name = None, req'[w].name = None,
         req'[w].op \in Batches <=> req[w].op \notin Batches
  PROVE  Gated!Next
<1>1. \A v \in Workers \ {w} : Asked(v)' = Asked(v)
  <2> TAKE v \in Workers \ {w}
  <2>1. req'[v] = req[v] /\ (req[v].name # None => SameAt(req[v].name))
    BY InHand DEF ExclusiveInv
  <2>2. KindOf(v)' = KindOf(v)
    BY <2>1 DEF KindOf
  <2>3. WantOf(v)' = WantOf(v)
    BY <2>1 DEF WantOf, SameAt
  <2> QED BY <2>1, <2>2, <2>3 DEF Asked
<1>2. \A m \in Names : SettledRecord(m)' = SettledRecord(m)
  <2> TAKE m \in Names
  <2>1. record'[m] = record[m]
    BY DEF SameAt
  <2>2. CASE \E v \in Workers : Updates(v, m)
    <3>1. PICK v \in Workers : Updates(v, m)
      BY <2>2
    <3>2. req'[v] = req[v]
      BY <3>1, NoneApart DEF Updates
    <3> QED BY <3>1, <3>2, SettledByUpdater, SettledByUpdaterThen DEF Updates
  <2>3. CASE \A v \in Workers : ~Updates(v, m)
    <3>1. \A v \in Workers : ~(req'[v].name = m /\ req'[v].op \in UpdateOps)
      BY <2>3, NoneApart DEF Updates
    <3> QED BY <2>1, <2>3, <3>1, SettledByRecord, SettledByRecordThen
  <2> QED BY <2>2, <2>3
<1>3. /\ Asked(w).kind = "none" /\ Asked(w)'.kind = "none" /\ Asked(w)'.name = None
      /\ Asked(w).batch = (req[w].op \in Batches)
      /\ Asked(w)'.batch = (req'[w].op \in Batches)
  BY DEF Asked, KindOf, Batches
<1>4. Asked(w)'.batch # Asked(w).batch
  BY <1>3
<1>5. Gated!Walk(w)
  BY <1>1, <1>2, <1>3, <1>4, HostUnseen, NothingSeen, SettledStays
     DEF Gated!Walk, Gated!Kind, Gated!Others
<1> QED BY <1>5 DEF Gated!Next

LEMMA NextReconcileGated ==
  ASSUME PlaceInv, ExclusiveInv', NEW w \in Workers, NEW n \in Names, NextReconcile(w, n)
  PROVE  Gated!Next
<1>1. /\ req[w].pc = "next" /\ req[w].todo[n] # None /\ req[w].op = "reconcile"
      /\ ExclusiveInv
  BY DEF NextReconcile, PlaceInv
<1>2. \A m \in Names : SameAt(m)
  BY DEF SameAt, NextReconcile, ledger, engine
<1>3. \A v \in Workers \ {w} : req'[v] = req[v]
  BY <1>1, Batching DEF NextReconcile, Take
<1>4. req[w].name = None /\ \A v \in Workers : req[v].name # n
  BY <1>1, Batching, NoneApart DEF ExclusiveInv, Owner, Touches
<1>5. record[n] = req[w].todo[n] /\ ~req[w].restoring
  BY <1>1, Batching DEF OnList
<1>6. /\ req'[w].name = n /\ req'[w].op = "reconcile" /\ req'[w].want = req[w].todo[n]
      /\ req'[w].restoring = req[w].restoring
  BY <1>1, Batching DEF NextReconcile, Take, RequestStates
<1>7. req'[w].restoring = FALSE
  BY <1>1, <1>5, <1>6, Batching DEF RequestStates
<1> QED BY <1>1, <1>2, <1>3, <1>4, <1>5, <1>6, <1>7, Asks DEF Batches, UpdateOps

LEMMA NextUpdateGated ==
  ASSUME PlaceInv, ExclusiveInv', NEW w \in Workers, NEW n \in Names, NextUpdate(w, n)
  PROVE  Gated!Next \/ UNCHANGED Gated!vars
<1>1. /\ req[w].pc = "next" /\ req[w].todo[n] # None /\ req[w].op = "updateAll"
      /\ ExclusiveInv
  BY DEF NextUpdate, PlaceInv
<1>2. \A m \in Names : SameAt(m)
  BY DEF SameAt, NextUpdate, ledger, engine
<1>3. req[w].name = None /\ \A v \in Workers : req[v].name # n
  BY <1>1, Batching, NoneApart DEF ExclusiveInv, Owner, Touches
<1>4. CASE record[n] \in Records /\ Take(w, n, [record[n] EXCEPT !.image = DefaultImage], "prev")
  <2> DEFINE r == [record[n] EXCEPT !.image = DefaultImage]
  <2>1. record[n] \in Records /\ record[n] # None
    BY <1>4, NoneApart
  <2>2. r.cfg = record[n].cfg
    BY <2>1 DEF Records
  <2> HIDE DEF r
  <2>3. Take(w, n, r, "prev")
    BY <1>4 DEF r
  <2>4. \A v \in Workers \ {w} : req'[v] = req[v]
    BY <1>1, <2>3, Batching DEF Take
  <2>5. /\ req'[w].name = n /\ req'[w].op = req[w].op /\ req'[w].want = r
        /\ req'[w].old = record[n] /\ req'[w].restoring = req[w].restoring
    BY <1>1, <2>3, Batching DEF Take, RequestStates
  <2>6. req'[w].restoring = FALSE
    BY <1>1, <2>5, Batching DEF RequestStates
  <2> QED BY <1>1, <1>2, <1>3, <2>1, <2>2, <2>4, <2>5, <2>6, Asks DEF Batches, UpdateOps
<1>5. ASSUME NEW still, NEW rest,
             req' = [req EXCEPT ![w] = [req[w] EXCEPT !.clean = still, !.todo = rest]]
      PROVE  UNCHANGED Gated!vars
  <2> DEFINE new == [req[w] EXCEPT !.clean = still, !.todo = rest]
  <2>1. /\ new.op = req[w].op /\ new.name = req[w].name /\ new.old = req[w].old
        /\ new.reply = req[w].reply
    BY <1>1, Batching DEF RequestStates
  <2> HIDE DEF new
  <2>2. req'[w] = new /\ \A v \in Workers \ {w} : req'[v] = req[v]
    BY <1>1, <1>5, Batching DEF new
  <2>3. ASSUME NEW v \in Workers PROVE Asked(v)' = Asked(v)
    <3>1. CASE v = w
      <4>1. Asked(w)' = Asked(w)
        BY <1>3, <2>1, <2>2 DEF Asked, KindOf, WantOf
      <4> QED BY <3>1, <4>1
    <3>2. CASE v # w
      <4>1. req'[v] = req[v] /\ (req[v].name # None => SameAt(req[v].name))
        BY <1>1, <1>2, <2>2, <3>2, InHand DEF ExclusiveInv
      <4>2. KindOf(v)' = KindOf(v)
        BY <4>1 DEF KindOf
      <4>3. WantOf(v)' = WantOf(v)
        BY <4>1 DEF WantOf, SameAt
      <4> QED BY <4>1, <4>2, <4>3 DEF Asked
    <3> QED BY <3>1, <3>2
  <2>4. ASSUME NEW m \in Names PROVE SettledRecord(m)' = SettledRecord(m)
    <3>1. \A v \in Workers : /\ req'[v].name = req[v].name /\ req'[v].op = req[v].op
                             /\ req'[v].old = req[v].old
      BY <2>1, <2>2
    <3>2. record'[m] = record[m]
      BY <1>2 DEF SameAt
    <3>3. CASE \E v \in Workers : Updates(v, m)
      BY <1>1, <3>1, <3>3, SettledByUpdater, SettledByUpdaterThen DEF Updates
    <3>4. CASE \A v \in Workers : ~Updates(v, m)
      BY <3>1, <3>2, <3>4, SettledByRecord, SettledByRecordThen DEF Updates
    <3> QED BY <3>3, <3>4
  <2> QED BY <1>2, <2>3, <2>4, NothingSeen, Stutters
<1>6. \/ record[n] \in Records /\ Take(w, n, [record[n] EXCEPT !.image = DefaultImage], "prev")
      \/ \E still \in BOOLEAN :
           req' = [req EXCEPT ![w] = [req[w] EXCEPT !.clean = still,
                                         !.todo = [req[w].todo EXCEPT ![n] = None]]]
  BY <1>1, NextUpdateReq DEF ExclusiveInv
<1> QED BY <1>4, <1>5, <1>6, Zenon

LEMMA EndBatchGated ==
  ASSUME PlaceInv, ExclusiveInv', NEW w \in Workers, EndBatch(w)
  PROVE  Gated!Next
<1>1. req[w].pc = "next" /\ req[w].name = None /\ req[w].op \in Batches /\ ExclusiveInv
  BY Batching DEF EndBatch, PlaceInv, Place
<1>2. \A m \in Names : SameAt(m)
  BY DEF SameAt, EndBatch, ledger, engine
<1>3. PICK a : Respond(w, a)
  BY DEF EndBatch
<1> DEFINE new == [Idle EXCEPT !.reply = a]
<1>4. new.name = None /\ new.op = "none"
  BY DEF Idle
<1>5. req'[w] = new /\ \A v \in Workers \ {w} : req'[v] = req[v]
  BY <1>1, <1>3, Batching DEF Respond
<1> HIDE DEF new
<1>6. req'[w].op \notin Batches
  BY <1>4, <1>5 DEF Batches
<1> QED BY <1>1, <1>2, <1>4, <1>5, <1>6, Walks

LEMMA BeginGated ==
  ASSUME ExclusiveInv, ExclusiveInv', Exclusive, NEW w \in Workers, NEW n \in Names,
         NEW o \in SingleOps \cup {"delete"}, NEW r, NEW l, Begin(w, o, n, r, l),
         UNCHANGED <<ledger, engine>>,
         o # "create" => record[n] # None,
         o = "update" => r.cfg = record[n].cfg
  PROVE  Gated!Next
<1>1. \A m \in Names : SameAt(m)
  BY DEF SameAt, ledger, engine
<1>2. \A v \in Workers : req[v].name # n
  BY DEF Begin, Free, Touches
<1>3. req[w].name = None
  BY DEF Begin, ExclusiveInv, TypeInv, ControlOK, WorkerOK
<1> DEFINE new == [Idle EXCEPT !.pc = l, !.op = o, !.name = n, !.want = r, !.old = record[n]]
<1>4. /\ new.op = o /\ new.name = n /\ new.want = r /\ new.old = record[n]
      /\ new.restoring = FALSE
  BY DEF Idle
<1>5. req'[w] = new /\ \A v \in Workers \ {w} : req'[v] = req[v]
  BY DEF Begin, ExclusiveInv, TypeInv, ControlOK, ReqOK
<1> HIDE DEF new
<1>6. o \notin Batches /\ o # "reconcile" /\ (o \in UpdateOps => o = "update")
  BY DEF SingleOps, Batches, UpdateOps
<1> QED BY <1>1, <1>2, <1>3, <1>4, <1>5, <1>6, Asks

LEMMA RequestGated ==
  ASSUME PlaceInv, ExclusiveInv', Exclusive, NEW w \in Workers, Request(w)
  PROVE  Gated!Next
<1> USE DEF PlaceInv
<1>1. ASSUME NEW n \in Names, NEW r \in Valid,
             CreateInstance(w, n, r) \/ PatchInstance(w, n, r)
      PROVE  Gated!Next
  BY <1>1, BeginGated DEF CreateInstance, PatchInstance, Readable, SingleOps
<1>2. ASSUME NEW n \in Names, NEW c \in Cfgs, SetLdapCa(w, n, c) PROVE Gated!Next
  BY <1>2, BeginGated DEF SetLdapCa, Readable, SingleOps
<1>3. ASSUME NEW n \in Names, NEW i \in Images, UpdateInstance(w, n, i) PROVE Gated!Next
  <2>1. record[n] \in Records
    BY <1>3 DEF UpdateInstance, Readable, ExclusiveInv, TypeInv, StateOK
  <2>2. [record[n] EXCEPT !.image = i].cfg = record[n].cfg
    BY <2>1 DEF Records
  <2> QED BY <1>3, <2>2, BeginGated DEF UpdateInstance, Readable, SingleOps
<1>4. ASSUME NEW n \in Names, RollbackInstance(w, n) \/ DeleteInstance(w, n) PROVE Gated!Next
  BY <1>4, BeginGated DEF RollbackInstance, DeleteInstance, Readable, SingleOps
<1>5. ASSUME NEW o \in Batches, BeginBatch(w, o) PROVE Gated!Next
  <2>1. req' = [req EXCEPT ![w] = [Idle EXCEPT !.pc = "next", !.op = o, !.todo = Listed]]
    BY <1>5 DEF BeginBatch
  <2>2. \A m \in Names : SameAt(m)
    BY <1>5 DEF SameAt, BeginBatch, ledger, engine
  <2>3. req[w].name = None /\ req[w].op \notin Batches
    BY <1>5 DEF BeginBatch, ExclusiveInv, TypeInv, ControlOK, WorkerOK, Place, Batches
  <2> DEFINE new == [Idle EXCEPT !.pc = "next", !.op = o, !.todo = Listed]
  <2>4. new.op = o /\ new.name = None
    BY DEF Idle
  <2>5. req'[w] = new /\ \A v \in Workers \ {w} : req'[v] = req[v]
    BY <2>1 DEF ExclusiveInv, TypeInv, ControlOK, ReqOK
  <2> HIDE DEF new
  <2> QED BY <2>2, <2>3, <2>4, <2>5, Walks
<1> QED BY <1>1, <1>2, <1>3, <1>4, <1>5 DEF Request, Reconcile, UpdateAll, Batches

-----------------------------------------------------------------------------
(* What goes on outside the requests, and a crash.                         *)

\* Nobody's request moves, and no record changes.
LEMMA NobodyMoves ==
  ASSUME req' = req, record' = record
  PROVE  /\ \A v \in Workers : Asked(v)' = Asked(v)
         /\ \A m \in Names : SettledRecord(m)' = SettledRecord(m)
BY DEF Asked, KindOf, WantOf, SettledRecord, Updates

LEMMA LifecycleGated ==
  ASSUME ExclusiveInv, NEW n \in Names, Lifecycle(n)
  PROVE  Gated!Next
<1>1. req' = req /\ UNCHANGED <<ledger, volume, rendered>> /\ container[n] # None
  BY DEF Lifecycle, StartInstance, StopInstance, RestartInstance
<1>2. SettledRecord(n) # None
  BY <1>1, RemainsSettled DEF Remains
<1>3. \A m \in Names \ {n} : container'[m] = container[m]
  BY DEF Lifecycle, StartInstance, StopInstance, RestartInstance, Started, ExclusiveInv,
         TypeInv, StateOK
<1>4. \A m \in Names \ {n} : Unseen(m)
  BY <1>1, <1>3 DEF Unseen, ServedRecord, Healthy, Remains, ledger
<1> QED BY <1>1, <1>2, <1>4, NobodyMoves, DriftOnly DEF ledger

LEMMA EnvironmentGated ==
  ASSUME ExclusiveInv, NEW n \in Names, Environment(n)
  PROVE  Gated!Next \/ UNCHANGED Gated!vars
<1>1. req' = req /\ UNCHANGED <<ledger, volume, rendered>>
  BY DEF Environment, BecomeHealthy, BecomeUnhealthy, CrashRestart, Join, ProvideFiles, engine
<1>2. CASE BecomeHealthy(n) \/ BecomeUnhealthy(n) \/ CrashRestart(n)
  <2>1. SettledRecord(n) # None
    BY <1>2, RemainsSettled DEF Remains, BecomeHealthy, BecomeUnhealthy, CrashRestart
  <2>2. \A m \in Names \ {n} : container'[m] = container[m]
    BY <1>2 DEF BecomeHealthy, BecomeUnhealthy, CrashRestart, Started, ExclusiveInv, TypeInv,
                StateOK
  <2>3. \A m \in Names \ {n} : Unseen(m)
    BY <1>1, <2>2 DEF Unseen, ServedRecord, Healthy, Remains, ledger
  <2> QED BY <1>1, <2>1, <2>3, NobodyMoves, DriftOnly DEF ledger
<1>3. CASE Join(n) \/ \E c \in Cfgs : ProvideFiles(n, c)
  <2>1. UNCHANGED <<ledger, engine>>
    BY <1>3 DEF Join, ProvideFiles
  <2>2. \A m \in Names : SameAt(m)
    BY <2>1 DEF SameAt, ledger, engine
  <2> QED BY <1>1, <2>2, NobodyMoves, NothingSeen, Stutters DEF ledger
<1> QED BY <1>2, <1>3 DEF Environment

LEMMA CrashGated ==
  ASSUME PlaceInv, Crash
  PROVE  Gated!Next
<1>1. \A w \in Workers : req'[w] = Idle
  BY DEF Crash
<1>2. UNCHANGED <<ledger, engine>>
  BY DEF Crash
<1>3. \A m \in Names : SameAt(m)
  BY <1>2 DEF SameAt, ledger, engine
<1>4. Idle.name = None /\ Idle.op = "none" /\ Idle.reply = "none"
  BY DEF Idle
<1>5. ASSUME NEW w \in Workers PROVE Asked(w)' = Gated!Nothing
  <2>1. (Idle.op \in Batches) = FALSE
    BY <1>4 DEF Batches
  <2>2. req'[w] = Idle
    BY <1>1
  <2>3. Asked(w)' = [kind |-> "none", name |-> None, want |-> None,
                     batch |-> Idle.op \in Batches, answer |-> Idle.reply]
    BY <1>4, <2>2, AskedNothing
  <2>4. Asked(w)' = [kind |-> "none", name |-> None, want |-> None,
                     batch |-> FALSE, answer |-> "none"]
    BY <1>4, <2>1, <2>3, Zenon
  <2> QED BY <2>4 DEF Gated!Nothing
<1>6. ASSUME NEW n \in Names
      PROVE  \/ SettledRecord(n)' = SettledRecord(n)
             \/ \E c \in Workers :
                  /\ KindOf(c) \in {"update", "giveUp"} /\ req[c].name = n
                  /\ SettledRecord(n)' \in {WantOf(c)} \cup {t \in Records : t.image = Torn}
  <2>1. SettledRecord(n)' = record[n]
    <3>1. \A v \in Workers : ~(req'[v].name = n /\ req'[v].op \in UpdateOps)
      BY <1>1, <1>4 DEF UpdateOps
    <3> QED BY <1>3, <3>1, SettledByRecordThen DEF SameAt
  <2>2. CASE \A w \in Workers : ~Updates(w, n)
    BY <2>1, <2>2, SettledByRecord
  <2>3. ASSUME NEW w \in Workers, Updates(w, n)
        PROVE  \/ SettledRecord(n) = record[n]
               \/ /\ KindOf(w) \in {"update", "giveUp"}
                /\ record[n] \in {WantOf(w)} \cup {t \in Records : t.image = Torn}
    <3>1. /\ ExclusiveInv /\ Place(w) /\ WorkerOK(w) /\ Applied(w)
      BY DEF PlaceInv, ExclusiveInv, TypeInv, ControlOK, InPlace
    <3>2. req[w].name = n /\ n # None /\ req[w].op \in UpdateOps /\ req[w].op # "delete"
      BY <2>3, NoneApart DEF Updates, UpdateOps
    <3>3. req[w].pc \in ApplySteps
      BY <3>1, <3>2, InHand DEF ExclusiveInv, WorkerOK
    <3>4. SettledRecord(n) = req[w].old
      BY <2>3, <3>1, SettledByUpdater
    <3>5. CASE req[w].restoring
      BY <3>2, <3>5, KindHere
    <3>6. CASE ~req[w].restoring
      <4>1. Updating(w)
        BY <3>2, <3>6 DEF Updating, UpdateOps
      <4>2. KindOf(w) = "update" /\ WantOf(w) = req[w].want
        BY <3>2, <3>6, <4>1, KindHere
      <4>3. req[w].pc \in {"prev", "prevWrite", "put"} => record[n] = req[w].old
        BY <3>1, <3>2, <4>1 DEF Applied, Place
      <4>4. req[w].pc = "putWrite" => record[n] \in {t \in Records : t.image = Torn}
        BY <3>1, <3>2 DEF Applied, Place, ExclusiveInv, TypeInv, StateOK
      <4>5. req[w].pc \notin {"prev", "prevWrite", "put", "putWrite"} => record[n] = req[w].want
        BY <3>1, <3>2, <3>3 DEF Applied, ApplySteps
      <4> QED BY <3>4, <4>2, <4>3, <4>4, <4>5
    <3> QED BY <3>5, <3>6
  <2> QED BY <2>1, <2>2, <2>3 DEF Updates
<1>7. UNCHANGED Gated!host
  BY <1>3, HostUnseen, NothingSeen
<1>8. Gated!Crash
  BY <1>5, <1>6, <1>7, AskedHere DEF Gated!Crash, Gated!Kind, Gated!Name, Gated!Want
<1> QED BY <1>8 DEF Gated!Next

-----------------------------------------------------------------------------
(* Place is kept.                                                          *)

LEMMA PlaceElsewhere ==
  ASSUME ExclusiveInv, NEW v \in Workers, Place(v), req'[v] = req[v],
         \A m \in Names : req[v].name = m => record'[m] = record[m]
  PROVE  Place(v)'
<1>1. req[v].pc \in {"put", "putWrite"} => req[v].name \in Names
  BY DEF ApplySteps, ExclusiveInv, TypeInv, ControlOK, WorkerOK
<1> QED BY <1>1 DEF Place, Updating

LEMMA IdlePlace ==
  ASSUME NEW w \in Workers, NEW a, req'[w] = [Idle EXCEPT !.reply = a]
  PROVE  Place(w)'
<1> DEFINE new == [Idle EXCEPT !.reply = a]
<1>1. new.pc = "idle" /\ new.op = "none"
  BY DEF Idle
<1> HIDE DEF new
<1>2. req'[w] = new
  BY DEF new
<1> QED BY <1>1, <1>2 DEF Place, ApplySteps

LEMMA FinishPlace ==
  ASSUME ExclusiveInv, NEW w \in Workers, NEW a \in Replies, Finish(w, a)
  PROVE  Place(w)'
<1>1. CASE Carries(w, a) /\ Advance(w, a)
  <2>1. req'[w].pc = "next" /\ req'[w].op = req[w].op
    BY <1>1, AdvanceKeeps DEF ExclusiveInv, TypeInv
  <2> QED BY <1>1, <2>1 DEF Carries, Place, Batches, ApplySteps
<1>2. CASE Respond(w, a)
  <2>1. req'[w] = [Idle EXCEPT !.reply = a]
    BY <1>2 DEF Respond, ExclusiveInv, TypeInv, ControlOK, ReqOK
  <2> QED BY <2>1, IdlePlace
<1> QED BY <1>1, <1>2 DEF Finish

LEMMA RaisePlace ==
  ASSUME PlaceInv, NEW w \in Workers, Raise(w), req[w].pc \in ApplySteps \cup RemoveSteps,
         req[w].pc \in ApplySteps => record'[req[w].name] # None
  PROVE  Place(w)'
<1>1. CASE Updating(w) /\ Restore(w)
  <2>1. req[w] \in RequestStates /\ req \in [Workers -> RequestStates]
    BY DEF PlaceInv, ExclusiveInv, TypeInv, ControlOK, ReqOK
  <2>2. req[w].pc \in ApplySteps
    BY <1>1, Removing DEF PlaceInv, Updating
  <2>3. /\ req'[w].pc = "put" /\ req'[w].op = req[w].op /\ req'[w].name = req[w].name
        /\ req'[w].restoring = TRUE
    BY <1>1, <2>1 DEF Restore, RequestStates
  <2>4. req'[w].op \in {"update", "updateAll"}
    BY <1>1, <2>3 DEF Updating
  <2>5. req'[w].op \in SingleOps \cup Batches /\ req'[w].op # "reconcile"
    BY <2>4 DEF SingleOps, Batches
  <2>6. ~Updating(w)'
    BY <2>3 DEF Updating
  <2>7. record'[req'[w].name] # None
    BY <2>2, <2>3
  <2> QED BY <2>3, <2>5, <2>6, <2>7 DEF Place
<1>2. CASE ~Updating(w) /\ Finish(w, "error")
  BY <1>2, FinishPlace DEF PlaceInv, Replies
<1> QED BY <1>1, <1>2 DEF Raise

LEMMA GotoPlace ==
  ASSUME PlaceInv, NEW w \in Workers, NEW l, Goto(w, l),
         \/ req[w].pc \in ApplySteps /\ l \in ApplySteps \ {"put", "putWrite"}
         \/ l \in RemoveSteps
  PROVE  Place(w)'
<1>1. req'[w].pc = l /\ req'[w].op = req[w].op
  BY DEF Goto, PlaceInv, ExclusiveInv, TypeInv, ControlOK, ReqOK, RequestStates
<1>2. req[w].pc \in ApplySteps => req[w].op \in SingleOps \cup Batches
  BY DEF PlaceInv, Place
<1> QED BY <1>1, <1>2 DEF Place, ApplySteps, RemoveSteps

LEMMA WorkerPlace ==
  ASSUME PlaceInv, NEW w \in Workers, WorkerStep(w)
  PROVE  Place(w)'
<1>1. /\ ExclusiveInv /\ Place(w) /\ req[w] \in RequestStates
      /\ req \in [Workers -> RequestStates] /\ StateOK
  BY DEF PlaceInv, ExclusiveInv, TypeInv, ControlOK, ReqOK
<1>2. ASSUME NEW n \in Names, NextReconcile(w, n) PROVE Place(w)'
  <2>1. req[w].op = "reconcile" /\ req'[w].op = req[w].op /\ req'[w].pc = "render"
    BY <1>1, <1>2 DEF NextReconcile, Take, RequestStates
  <2> QED BY <2>1 DEF Place, Batches
<1>3. ASSUME NEW n \in Names, NextUpdate(w, n) PROVE Place(w)'
  <2>1. /\ req[w].op = "updateAll" /\ req'[w].op = req[w].op
        /\ req'[w].pc \in {"prev", "next"}
    BY <1>1, <1>3 DEF NextUpdate, Take, RequestStates
  <2> QED BY <2>1 DEF Place, Batches
<1>4. CASE EndBatch(w)
  <2>1. PICK a : req'[w] = [Idle EXCEPT !.reply = a]
    BY <1>1, <1>4 DEF EndBatch, Respond
  <2> QED BY <2>1, IdlePlace
<1>11. CASE TruncatePrev(w)
  <2>1. req[w].pc = "prev" /\ Goto(w, "prevWrite")
    BY <1>11 DEF TruncatePrev
  <2> QED BY <2>1, GotoPlace DEF ApplySteps
<1>5. CASE WritePrev(w)
  <2>1. req[w].pc = "prevWrite" /\ req[w].pc \in ApplySteps /\ Updating(w)
    BY <1>1, <1>5, Applying DEF WritePrev, ApplySteps
  <2>2. /\ req'[w].op = req[w].op /\ req'[w].name = req[w].name /\ req'[w].old = req[w].old
        /\ req'[w].pc = "put"
    BY <1>1, <1>5 DEF WritePrev, Goto, RequestStates
  <2>3. record[req[w].name] = req[w].old /\ record[req[w].name] # None /\ record' = record
    BY <1>1, <1>5, <2>1, Applying DEF Applied, WritePrev
  <2> QED BY <2>1, <2>2, <2>3 DEF Place, Updating, SingleOps, Batches
<1>12. CASE Truncate(w)
  <2>1. req[w].pc = "put" /\ req[w].pc \in ApplySteps
    BY <1>12 DEF Truncate, ApplySteps
  <2>2. req'[w].pc = "putWrite" /\ req'[w].op = req[w].op /\ req'[w].name = req[w].name
    BY <1>1, <1>12 DEF Truncate, Goto, RequestStates
  <2>3. record'[req[w].name] = [req[w].want EXCEPT !.image = Torn]
    BY <1>1, <1>12, <2>1, Applying DEF Truncate, StateOK
  <2>4. record'[req[w].name].image = Torn
    BY <2>1, <2>3, Applying DEF Records
  <2> QED BY <1>1, <2>1, <2>2, <2>4 DEF Place, ApplySteps
<1>6. CASE Put(w)
  <2>1. req[w].pc = "putWrite" /\ req[w].pc \in ApplySteps
    BY <1>6 DEF Put, ApplySteps
  <2>2. record'[req[w].name] # None
    BY <1>1, <1>6, <2>1, Applying, NoneApart DEF Put, StateOK
  <2> QED BY <1>6, <2>1, <2>2, GotoPlace, RaisePlace DEF Put, ApplySteps
<1>7. CASE \/ Render(w) \/ RenderPolicy(w) \/ RemoveOld(w)
           \/ CreateContainer(w) \/ StartContainer(w)
  <2>1. /\ req[w].pc \in {"render", "renderPolicy", "recreate", "run", "start"}
        /\ req[w].pc \in ApplySteps /\ record' = record
        /\ \/ Raise(w)
           \/ \E l \in {"renderPolicy", "recreate", "run", "start", "settle"} : Goto(w, l)
    BY <1>7 DEF Render, RenderPolicy, RemoveOld, CreateContainer, StartContainer, ApplySteps, ledger
  <2>2. record'[req[w].name] # None
    BY <1>1, <2>1, Applying
  <2> QED BY <2>1, <2>2, GotoPlace, RaisePlace DEF ApplySteps
<1>8. CASE Settle(w) \/ WatchHealth(w)
  <2>1. req[w].pc \in {"settle", "watch"} /\ record' = record
    BY <1>8, Zenon DEF Settle, WatchHealth, ledger
  <2>2. req[w].pc \in ApplySteps
    BY <2>1 DEF ApplySteps
  <2>3. record'[req[w].name] # None
    BY <1>1, <2>1, <2>2, Applying
  <2>4. CASE Settle(w)
    <3>1. Raise(w) \/ Goto(w, "watch") \/ Finish(w, "rolledBack") \/ Finish(w, "ok")
      BY <2>4, Zenon DEF Settle
    <3> QED BY <1>1, <2>2, <2>3, <3>1, GotoPlace, RaisePlace, FinishPlace DEF ApplySteps, Replies
  <2>5. CASE WatchHealth(w)
    <3>1. Restore(w) \/ Finish(w, "updated") \/ Finish(w, "error")
      BY <2>5, Zenon DEF WatchHealth
    <3>2. req[w].pc = "watch"
      BY <2>5 DEF WatchHealth
    <3>3. Updating(w)
      BY <1>1, <2>2, <3>2 DEF ExclusiveInv, TypeInv, ControlOK, WorkerOK
    <3>4. Restore(w) => Raise(w)
      BY <3>3 DEF Raise
    <3> QED BY <1>1, <2>2, <2>3, <3>1, <3>4, RaisePlace, FinishPlace DEF Replies
  <2> QED BY <1>8, <2>4, <2>5
<1>9. CASE GetForRemoval(w) \/ LeaveDomain(w)
  <2>1. \/ req'[w].pc \in {"rmPrev", "stop", "rmContainer"}
        \/ Raise(w) /\ req[w].pc \in RemoveSteps
    <3>1. GetForRemoval(w) => \/ req'[w].pc \in {"rmPrev", "stop"}
                              \/ Raise(w) /\ req[w].pc \in RemoveSteps
      BY <1>1 DEF GetForRemoval, RequestStates, RemoveSteps
    <3>2. \A l : SetLeave(w, l) => req'[w].pc = "rmContainer"
      BY <1>1 DEF SetLeave, RequestStates
    <3>3. LeaveDomain(w) => req[w].pc \in RemoveSteps /\ (Raise(w) \/ \E l : SetLeave(w, l))
      BY Zenon DEF LeaveDomain, RemoveSteps
    <3> QED BY <1>9, <3>1, <3>2, <3>3
  <2>2. req'[w].pc \in {"rmPrev", "stop", "rmContainer"} => Place(w)'
    BY DEF Place, ApplySteps
  <2>3. req[w].pc \in RemoveSteps => req[w].pc \notin ApplySteps
    BY DEF RemoveSteps, ApplySteps
  <2> QED BY <2>1, <2>2, <2>3, RaisePlace
<1>10. CASE \/ StopForLeave(w) \/ RemoveContainer(w) \/ RemoveVolume(w)
            \/ RemoveRendered(w) \/ RemovePrev(w) \/ RemoveRecord(w)
  <2>1. /\ req[w].pc \in RemoveSteps
        /\ \/ Raise(w) \/ Finish(w, "removed")
           \/ \E l \in {"leave", "rmVolume", "rmRendered", "rmPrev", "rmRecord"} : Goto(w, l)
    BY <1>10, Zenon DEF StopForLeave, RemoveContainer, RemoveVolume, RemoveRendered,
       RemovePrev, RemoveRecord, RemoveSteps
  <2>2. req[w].pc \notin ApplySteps
    BY <2>1 DEF RemoveSteps, ApplySteps
  <2> QED BY <1>1, <2>1, <2>2, GotoPlace, RaisePlace, FinishPlace DEF RemoveSteps, Replies
<1> QED BY <1>2, <1>3, <1>4, <1>5, <1>6, <1>7, <1>8, <1>9, <1>10, <1>11, <1>12 DEF WorkerStep

LEMMA BeginPlace ==
  ASSUME ExclusiveInv, NEW w \in Workers, NEW n \in Names,
         NEW o \in SingleOps \cup {"delete"}, NEW r, NEW l \in {"put", "prev", "get"},
         Begin(w, o, n, r, l), record' = record,
         l = "get" <=> o = "delete",
         l = "prev" <=> o = "update",
         o # "create" => record[n] # None
  PROVE  Place(w)'
<1> DEFINE new == [Idle EXCEPT !.pc = l, !.op = o, !.name = n, !.want = r, !.old = record[n]]
<1>1. new.pc = l /\ new.op = o /\ new.name = n /\ new.restoring = FALSE
  BY DEF Idle
<1>2. req'[w] = new
  BY DEF Begin, ExclusiveInv, TypeInv, ControlOK, ReqOK
<1> HIDE DEF new
<1>3. req'[w].pc = l /\ req'[w].op = o /\ req'[w].name = n
  BY <1>1, <1>2
<1>4. l = "put" => ~Updating(w)'
  BY <1>3 DEF Updating, SingleOps
<1> QED BY <1>3, <1>4 DEF Place, SingleOps, Batches, ApplySteps

LEMMA RequestPlace ==
  ASSUME PlaceInv, NEW w \in Workers, Request(w)
  PROVE  Place(w)'
<1> USE DEF PlaceInv
<1>1. ASSUME NEW n \in Names, NEW r \in Valid,
             CreateInstance(w, n, r) \/ PatchInstance(w, n, r)
      PROVE  Place(w)'
  BY <1>1, BeginPlace DEF CreateInstance, PatchInstance, Readable, SingleOps, ledger
<1>2. ASSUME NEW n \in Names, NEW c \in Cfgs, SetLdapCa(w, n, c) PROVE Place(w)'
  BY <1>2, BeginPlace DEF SetLdapCa, Readable, SingleOps, ledger
<1>3. ASSUME NEW n \in Names, NEW i \in Images, UpdateInstance(w, n, i) PROVE Place(w)'
  BY <1>3, BeginPlace DEF UpdateInstance, Readable, SingleOps, ledger
<1>4. ASSUME NEW n \in Names, RollbackInstance(w, n) \/ DeleteInstance(w, n) PROVE Place(w)'
  BY <1>4, BeginPlace DEF RollbackInstance, DeleteInstance, Readable, SingleOps, ledger
<1>5. ASSUME NEW o \in Batches, BeginBatch(w, o) PROVE Place(w)'
  <2> DEFINE new == [Idle EXCEPT !.pc = "next", !.op = o, !.todo = Listed]
  <2>1. new.pc = "next" /\ new.op = o
    BY DEF Idle
  <2>2. req'[w] = new
    BY <1>5 DEF BeginBatch, ExclusiveInv, TypeInv, ControlOK, ReqOK
  <2> HIDE DEF new
  <2> QED BY <2>1, <2>2 DEF Place, ApplySteps
<1> QED BY <1>1, <1>2, <1>3, <1>4, <1>5 DEF Request, Reconcile, UpdateAll, Batches

LEMMA RequestKeepsRecord ==
  ASSUME NEW w \in Workers, Request(w)
  PROVE  record' = record
BY DEF Request, CreateInstance, PatchInstance, SetLdapCa, UpdateInstance, RollbackInstance,
   DeleteInstance, Reconcile, UpdateAll, BeginBatch, ledger

LEMMA PlaceStep ==
  ASSUME Exclusive, PlaceInv, [Next]_vars
  PROVE  PlaceInv'
<1>1. ExclusiveInv'
  BY ExclusiveStep DEF PlaceInv
<1>2. ASSUME NEW w \in Workers, Request(w) \/ WorkerStep(w)
      PROVE  \A v \in Workers : Place(v)'
  <2>1. Place(w)'
    BY <1>2, RequestPlace, WorkerPlace
  <2>2. ASSUME NEW v \in Workers \ {w} PROVE Place(v)'
    <3>1. req'[v] = req[v]
      BY <1>2, OthersSilent DEF PlaceInv, ExclusiveInv
    <3>2. ASSUME NEW m \in Names, req[v].name = m PROVE record'[m] = record[m]
      <4>1. req[w].name # m
        BY <3>2 DEF PlaceInv, ExclusiveInv, Owner, Touches
      <4> QED BY <1>2, <4>1, RequestKeepsRecord, SameElsewhere
          DEF SameAt, PlaceInv, ExclusiveInv
    <3> QED BY <3>1, <3>2, PlaceElsewhere DEF PlaceInv
  <2> QED BY <2>1, <2>2
<1>3. ASSUME NEW v \in Workers, req' = req, record' = record PROVE Place(v)'
  BY <1>3, PlaceElsewhere DEF PlaceInv
<1>4. ASSUME NEW n \in Names, Lifecycle(n) \/ Environment(n) PROVE req' = req /\ record' = record
  BY <1>4 DEF Lifecycle, StartInstance, StopInstance, RestartInstance, Environment,
     BecomeHealthy, BecomeUnhealthy, CrashRestart, Join, ProvideFiles, ledger
<1>5. ASSUME NEW w \in Workers, Crash PROVE Place(w)'
  <2>1. req'[w] = Idle
    BY <1>5 DEF Crash
  <2>2. Idle.pc = "idle" /\ Idle.op = "none"
    BY DEF Idle
  <2> QED BY <2>1, <2>2 DEF Place, ApplySteps
<1>6. UNCHANGED vars => req' = req /\ record' = record
  BY DEF vars, ledger
<1>7. \/ \E w \in Workers : Request(w) \/ WorkerStep(w)
      \/ \E n \in Names : Lifecycle(n) \/ Environment(n)
      \/ Crash \/ UNCHANGED vars
  BY Zenon DEF Next
<1>8. \A v \in Workers : Place(v)'
  BY <1>2, <1>3, <1>4, <1>5, <1>6, <1>7
<1> QED BY <1>1, <1>8 DEF PlaceInv

LEMMA PlaceInit ==
  ASSUME Init
  PROVE  PlaceInv
<1>1. ASSUME NEW w \in Workers PROVE Place(w)
  <2>1. req[w] = Idle
    BY DEF Init
  <2>2. Idle.pc = "idle" /\ Idle.op = "none"
    BY DEF Idle
  <2> QED BY <2>1, <2>2 DEF Place, ApplySteps
<1> QED BY <1>1, ExclusiveInit DEF PlaceInv

-----------------------------------------------------------------------------
(* The refinement.                                                         *)

LEMMA GatedInit ==
  ASSUME Init
  PROVE  Gated!Init
<1>1. ASSUME NEW n \in Names
      PROVE  /\ SettledRecord(n) = None /\ ServedRecord(n) = None
             /\ Healthy(n) = FALSE /\ Remains(n) = FALSE
  <2>1. \A w \in Workers : req[w] = Idle
    BY DEF Init
  <2>2. Idle.op = "none"
    BY DEF Idle
  <2>3. \A w \in Workers : ~Updates(w, n)
    BY <2>1, <2>2 DEF Updates, UpdateOps
  <2>4. SettledRecord(n) = record[n]
    BY <2>3, SettledByRecord
  <2>5. /\ record[n] = None /\ prev[n] = None /\ rendered[n] = None
        /\ container[n] = None /\ volume[n] = FALSE
    BY DEF Init
  <2> QED BY <2>4, <2>5 DEF ServedRecord, Healthy, Remains
<1>2. ASSUME NEW w \in Workers PROVE Asked(w) = Gated!Nothing
  <2>1. req[w] = Idle
    BY DEF Init
  <2>2. Idle.name = None /\ Idle.op = "none" /\ Idle.reply = "none"
    BY DEF Idle
  <2>3. (req[w].op \in {"reconcile", "updateAll"}) = FALSE
    BY <2>1, <2>2
  <2>4. Asked(w) = [kind |-> "none", name |-> None, want |-> None,
                    batch |-> req[w].op \in {"reconcile", "updateAll"}, answer |-> "none"]
    BY <2>1, <2>2 DEF Asked, KindOf, WantOf
  <2>5. Asked(w) = [kind |-> "none", name |-> None, want |-> None,
                    batch |-> FALSE, answer |-> "none"]
    BY <2>3, <2>4, Zenon
  <2> QED BY <2>5 DEF Gated!Nothing
<1>3. [n \in Names |-> SettledRecord(n)] = [n \in Names |-> None]
  BY <1>1
<1>4. [n \in Names |-> ServedRecord(n)] = [n \in Names |-> None]
  BY <1>1
<1>5. [n \in Names |-> Healthy(n)] = [n \in Names |-> FALSE]
  BY <1>1, Zenon
<1>6. [n \in Names |-> Remains(n)] = [n \in Names |-> FALSE]
  BY <1>1, Zenon
<1>7. [w \in Workers |-> Asked(w)] = [w \in Workers |-> Gated!Nothing]
  BY <1>2
<1> QED BY <1>3, <1>4, <1>5, <1>6, <1>7, Zenon DEF Gated!Init

LEMMA WorkerGated ==
  ASSUME PlaceInv, ExclusiveInv', NEW w \in Workers, WorkerStep(w)
  PROVE  Gated!Next \/ UNCHANGED Gated!vars
BY NextReconcileGated, NextUpdateGated, EndBatchGated, WritePrevGated, TruncateGated, PutGated, ApplyGated,
   SettleGated, WatchHealthGated, RemovalGated, RemoveRecordGated, Zenon DEF WorkerStep

LEMMA GatedStep ==
  ASSUME Exclusive, PlaceInv, [Next]_vars
  PROVE  [Gated!Next]_(Gated!vars)
<1>1. ExclusiveInv' /\ ExclusiveInv
  BY ExclusiveStep DEF PlaceInv
<1>2. ASSUME NEW w \in Workers, Request(w) \/ WorkerStep(w)
      PROVE  Gated!Next \/ UNCHANGED Gated!vars
  BY <1>1, <1>2, RequestGated, WorkerGated
<1>3. ASSUME NEW n \in Names, Lifecycle(n) \/ Environment(n)
      PROVE  Gated!Next \/ UNCHANGED Gated!vars
  BY <1>1, <1>3, LifecycleGated, EnvironmentGated
<1>4. CASE Crash
  BY <1>4, CrashGated
<1>5. CASE UNCHANGED vars
  <2>1. req' = req /\ record' = record /\ UNCHANGED <<ledger, engine>>
    BY <1>5 DEF vars, ledger
  <2>2. \A m \in Names : SameAt(m)
    BY <2>1 DEF SameAt, ledger, engine
  <2> QED BY <2>1, <2>2, NothingSeen, NobodyMoves, Stutters
<1>6. Gated!Next \/ UNCHANGED Gated!vars
  BY <1>2, <1>3, <1>4, <1>5, Zenon DEF Next
<1> QED BY <1>6

\* With one request per instance at a time the management API keeps what
\* GatedUpdate promises, for any number of instances and workers, any bound on
\* faults and crashes: every step of a request, a batch, a rollback, an instance
\* on its own or a crash is a step of GatedUpdate or changes nothing of what an
\* operator sees (updater.py:49-113, reconciler.py:20-45, api.py:167-240).
THEOREM UpdatesAreGated ==
  ASSUME Exclusive
  PROVE  Spec => GatedUpdates
<1>1. Init => PlaceInv /\ Gated!Init
  BY PlaceInit, GatedInit
<1>2. PlaceInv /\ [Next]_vars => PlaceInv' /\ [Gated!Next]_(Gated!vars)
  BY PlaceStep, GatedStep
<1> QED BY <1>1, <1>2, PTL DEF Spec, GatedUpdates, Gated!Spec
=============================================================================
