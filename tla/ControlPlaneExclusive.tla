------------------------ MODULE ControlPlaneExclusive ------------------------
(***************************************************************************)
(* What ControlPlane guarantees when the operators send one request per    *)
(* instance at a time, for every value of the constants: nothing a removed *)
(* instance left behind is orphaned, a failed update leaves the record it  *)
(* found, a success is about the container that is there, and no computer  *)
(* account stays behind silently.  The code takes no lock, so each rests   *)
(* on no two workers having one instance in hand (Owner), on what a worker *)
(* has achieved at each label (InPlace), and on a step disturbing nothing  *)
(* but the instance it is about.                                           *)
(***************************************************************************)
EXTENDS ControlPlaneProofs

\* No two workers have the same instance in hand or on their lists.
Owner ==
  \A v, w \in Workers, n \in Names : Touches(v, n) /\ Touches(w, n) => v = w

\* What a batch has on its list is what the store still holds.
OnList(w) ==
  /\ \A n \in Names : req[w].todo[n] # None => record[n] = req[w].todo[n]
  /\ req[w].name \in Names => req[w].todo[req[w].name] = None

Applied(w) ==
  LET n == req[w].name
      r == req[w].want
  IN
  /\ req[w].pc \in {"prev", "prevWrite"} => record[n] = req[w].old
  /\ req[w].pc = "putWrite" => record[n] # None
  /\ req[w].pc \in {"render", "renderPolicy", "recreate", "run", "start", "settle", "watch"}
       => record[n] = r
  /\ req[w].pc \in {"recreate", "run", "start", "settle", "watch"} => rendered[n] = r.cfg
  /\ req[w].pc = "start" =>
       container[n] = [image |-> r.image, cfg |-> r.cfg, loaded |-> None, maker |-> w,
                       phase |-> "created"]
  /\ req[w].pc \in {"settle", "watch"} =>
       /\ container[n] # None
       /\ container[n].image = r.image
       /\ container[n].cfg = r.cfg
       /\ container[n].loaded = r.cfg
  /\ req[w].restoring =>
       /\ req[w].op \in {"update", "updateAll"}
       /\ req[w].pc \in ApplySteps
       /\ r = req[w].old

Removed(w) ==
  LET n == req[w].name IN
  /\ req[w].pc \in RemoveSteps => record[n] # None
  /\ req[w].pc = "get" => Readable(n)
  /\ req[w].pc \in {"rmVolume", "rmRendered", "rmPrev", "rmRecord"} => container[n] = None
  /\ req[w].pc \in {"rmRendered", "rmPrev", "rmRecord"} => volume[n] = FALSE
  /\ req[w].pc \in {"rmPrev", "rmRecord"} => rendered[n] = None
  /\ req[w].pc = "rmRecord" => prev[n] = None

InPlace(w) == OnList(w) /\ Applied(w) /\ Removed(w)

Clean(n) ==
  record[n] = None =>
    container[n] = None /\ volume[n] = FALSE /\ rendered[n] = None /\ prev[n] = None

\* The inductive invariant.
ExclusiveInv ==
  /\ TypeInv
  /\ Owner
  /\ \A w \in Workers : InPlace(w)
  /\ \A n \in Names : Clean(n)

-----------------------------------------------------------------------------
(* A step disturbs nothing but the instance it is about.                   *)

SameAt(m) ==
  /\ record'[m]    = record[m]
  /\ prev'[m]      = prev[m]
  /\ rendered'[m]  = rendered[m]
  /\ container'[m] = container[m]
  /\ volume'[m]    = volume[m]

LEMMA Undisturbed ==
  ASSUME ExclusiveInv, NEW v \in Workers, req'[v] = req[v],
         \A m \in Names : Touches(v, m) => SameAt(m)
  PROVE  InPlace(v)'
<1>1. WorkerOK(v) /\ InPlace(v)
  BY DEF ExclusiveInv, TypeInv, ControlOK
<1>2. OnList(v)'
  BY <1>1 DEF InPlace, OnList, Touches, SameAt
<1>3. req[v].name \in Names => SameAt(req[v].name)
  BY DEF Touches
<1>4. req[v].pc \notin {"idle", "next"} => req[v].name \in Names
  BY <1>1 DEF WorkerOK, ApplySteps, RemoveSteps, ExclusiveInv, TypeInv, ControlOK, ReqOK, RequestStates, Labels
<1>5. Applied(v)'
  BY <1>1, <1>3, <1>4 DEF InPlace, Applied, SameAt
<1>6. Removed(v)'
  BY <1>1, <1>3, <1>4 DEF InPlace, Removed, SameAt, RemoveSteps, Readable
<1>7. QED
  BY <1>2, <1>5, <1>6 DEF InPlace

LEMMA OwnStep ==
  ASSUME ExclusiveInv, NEW w \in Workers, NEW n \in Names, req[w].name = n,
         TypeInv', NothingGrabbed,
         \A v \in Workers \ {w} : req'[v] = req[v],
         req'[w].name \in {n, None},
         req'[w].todo \in {req[w].todo, NoTodo},
         \A m \in Names \ {n} : SameAt(m),
         Applied(w)', Removed(w)', Clean(n)'
  PROVE  ExclusiveInv'
<1>1. Owner'
  BY DEF ExclusiveInv, Owner, NothingGrabbed
<1>2. OnList(w)'
  <2>1. OnList(w)
    BY DEF ExclusiveInv, InPlace
  <2>2. QED
    BY <2>1, NoneApart DEF OnList, SameAt, NoTodo
<1>3. ASSUME NEW v \in Workers PROVE InPlace(v)'
  <2>1. CASE v = w
    BY <1>2, <2>1 DEF InPlace
  <2>2. CASE v # w
    <3>1. \A m \in Names : Touches(v, m) => m # n
      BY <2>2 DEF ExclusiveInv, Owner, Touches
    <3>2. QED
      BY <2>2, <3>1, Undisturbed
  <2>3. QED
    BY <2>1, <2>2
<1>4. ASSUME NEW m \in Names PROVE Clean(m)'
  <2>1. CASE m = n
    BY <2>1
  <2>2. CASE m # n
    BY <2>2 DEF ExclusiveInv, Clean, SameAt
  <2>3. QED
    BY <2>1, <2>2
<1>5. QED
  BY <1>1, <1>3, <1>4 DEF ExclusiveInv

\* An exception ends the work, or starts a rollback: either way the worker
\* claims nothing about its instance any more.
LEMMA RaiseStep ==
  ASSUME ExclusiveInv, NEW w \in Workers, NEW n \in Names, req[w].name = n,
         TypeInv', Raise(w),
         req[w].pc \in ApplySteps \cup RemoveSteps,
         \A m \in Names \ {n} : SameAt(m),
         Clean(n)'
  PROVE  ExclusiveInv'
<1>1. ControlOK /\ WorkerOK(w) /\ req[w] \in RequestStates
  BY DEF ExclusiveInv, TypeInv, ControlOK, ReqOK
<1>3. NothingGrabbed /\ \A v \in Workers \ {w} : req'[v] = req[v]
  BY <1>1, RaiseKeeps
<1>4. CASE /\ Updating(w)
           /\ req'[w] = [req[w] EXCEPT !.pc = "put", !.want = req[w].old,
                                       !.restoring = TRUE]
  <2>1. /\ req'[w].pc = "put" /\ req'[w].want = req'[w].old
        /\ req'[w].op = req[w].op /\ req'[w].name = req[w].name
        /\ req'[w].todo = req[w].todo
    BY <1>1, <1>4 DEF RequestStates
  <2>2. Applied(w)' /\ Removed(w)'
    BY <1>4, <2>1 DEF Applied, Removed, ApplySteps, RemoveSteps, Updating
  <2>3. QED
    BY <1>3, <2>1, <2>2, OwnStep
<1>5. CASE /\ req'[w].pc \in {"idle", "next"} /\ req'[w].name = None
           /\ req'[w].todo = req[w].todo \/ req'[w].todo = NoTodo
           /\ ~req'[w].restoring
  <2>1. Applied(w)' /\ Removed(w)'
    BY <1>5 DEF Applied, Removed, RemoveSteps
  <2>2. QED
    BY <1>3, <1>5, <2>1, OwnStep
<1>6. QED
  BY <1>1, <1>4, <1>5, RaiseKeeps

LEMMA FinishStep ==
  ASSUME ExclusiveInv, NEW w \in Workers, NEW n \in Names, req[w].name = n,
         NEW a \in Replies, TypeInv', Finish(w, a),
         req[w].pc \in ApplySteps \cup RemoveSteps,
         \A m \in Names \ {n} : SameAt(m),
         Clean(n)'
  PROVE  ExclusiveInv'
<1>1. ControlOK /\ WorkerOK(w)
  BY DEF ExclusiveInv, TypeInv, ControlOK
<1>3. /\ NothingGrabbed /\ \A v \in Workers \ {w} : req'[v] = req[v]
      /\ req'[w].pc \in {"idle", "next"} /\ req'[w].name = None
      /\ req'[w].todo = req[w].todo \/ req'[w].todo = NoTodo
      /\ ~req'[w].restoring
  BY <1>1, FinishKeeps
<1>4. Applied(w)' /\ Removed(w)'
  BY <1>3 DEF Applied, Removed, RemoveSteps
<1>5. QED
  BY <1>3, <1>4, OwnStep

\* The worker moves on with the same instance in hand.
HandKept(w, l) ==
  /\ req'[w].pc = l
  /\ req'[w].op = req[w].op
  /\ req'[w].name = req[w].name
  /\ req'[w].want = req[w].want
  /\ req'[w].old = req[w].old
  /\ req'[w].restoring = req[w].restoring

LEMMA GotoStep ==
  ASSUME ExclusiveInv, NEW w \in Workers, NEW n \in Names, req[w].name = n,
         NEW l \in Labels, TypeInv', NothingGrabbed, Goto(w, l),
         req[w].pc \in ApplySteps \cup RemoveSteps,
         \A m \in Names \ {n} : SameAt(m),
         HandKept(w, l) => Applied(w)' /\ Removed(w)',
         Clean(n)'
  PROVE  ExclusiveInv'
<1>1. WorkerOK(w) /\ req[w] \in RequestStates /\ req \in [Workers -> RequestStates]
  BY DEF ExclusiveInv, TypeInv, ControlOK, ReqOK
<1>3. /\ \A v \in Workers \ {w} : req'[v] = req[v]
      /\ req'[w] = [req[w] EXCEPT !.pc = l]
  BY <1>1 DEF Goto
<1>4. HandKept(w, l) /\ req'[w].todo = req[w].todo
  BY <1>1, <1>3 DEF RequestStates, HandKept
<1>5. QED
  BY <1>3, <1>4, OwnStep DEF HandKept

-----------------------------------------------------------------------------
(* The steps of apply().                                                   *)

\* What the invariant says of a worker in the middle of an apply.
LEMMA Applying ==
  ASSUME ExclusiveInv, NEW w \in Workers, req[w].pc \in ApplySteps
  PROVE  /\ req[w] \in RequestStates /\ req \in [Workers -> RequestStates]
         /\ req[w].name \in Names /\ req[w].want \in Records
         /\ Applied(w) /\ Clean(req[w].name)
         /\ record[req[w].name] # None \/ req[w].pc = "put"
         /\ Updating(w) => req[w].old \in Records
         /\ req[w].pc \in {"prev", "prevWrite"} => Updating(w)
         /\ StateOK
BY NoneApart
   DEF ExclusiveInv, TypeInv, ControlOK, ReqOK, WorkerOK, InPlace, Applied,
       ApplySteps, Updating

\* Removed speaks of the steps of a removal only.
LEMMA NotRemoving ==
  ASSUME NEW w \in Workers, NEW l \in ApplySteps, HandKept(w, l)
  PROVE  Removed(w)'
<1>1. (req[w].pc)' \notin RemoveSteps
  BY DEF HandKept, ApplySteps, RemoveSteps
<1>2. QED
  BY <1>1 DEF Removed, RemoveSteps

LEMMA TruncatePrevStep ==
  ASSUME ExclusiveInv, NEW w \in Workers, TruncatePrev(w)
  PROVE  ExclusiveInv'
<1>1. TypeInv' /\ NothingGrabbed
  BY TruncatePrevType DEF ExclusiveInv
<1>2. req[w].pc = "prev" /\ req[w].pc \in ApplySteps
  BY DEF TruncatePrev, ApplySteps
<1>3. PICK n \in Names : req[w].name = n
  BY <1>2, Applying
<1>4. \A m \in Names \ {n} : SameAt(m)
  BY <1>2, <1>3, Applying DEF StateOK, SameAt, TruncatePrev, engine
<1>5. record' = record /\ record[n] # None
  BY <1>2, <1>3, Applying DEF TruncatePrev
<1>6. Clean(n)'
  BY <1>5 DEF Clean
<1>7. ASSUME HandKept(w, "prevWrite")
      PROVE  Applied(w)' /\ Removed(w)'
  <2>1. Applied(w)'
    BY <1>2, <1>3, <1>5, Applying, <1>7, ZenonT(60) DEF Applied, HandKept, ApplySteps
  <2>2. QED
    BY <1>7, <2>1, NotRemoving DEF ApplySteps
<1>8. QED
  BY <1>1, <1>2, <1>3, <1>4, <1>6, <1>7, GotoStep DEF TruncatePrev, Labels

LEMMA WritePrevStep ==
  ASSUME ExclusiveInv, NEW w \in Workers, WritePrev(w)
  PROVE  ExclusiveInv'
<1>1. TypeInv' /\ NothingGrabbed
  BY WritePrevType DEF ExclusiveInv
<1>2. req[w].pc = "prevWrite" /\ req[w].pc \in ApplySteps
  BY DEF WritePrev, ApplySteps
<1>3. PICK n \in Names : req[w].name = n
  BY <1>2, Applying
<1>4. \A m \in Names \ {n} : SameAt(m)
  BY <1>2, <1>3, Applying DEF StateOK, SameAt, WritePrev, engine
<1>5. Clean(n)'
  BY <1>2, <1>3, Applying DEF Clean, WritePrev
<1>6. ASSUME HandKept(w, "put")
      PROVE  Applied(w)' /\ Removed(w)'
  <2>1. Applied(w)'
    BY <1>2, Applying, <1>6, ZenonT(60) DEF Applied, HandKept, ApplySteps
  <2>2. QED
    BY <1>6, <2>1, NotRemoving DEF ApplySteps
<1>7. QED
  BY <1>1, <1>2, <1>3, <1>4, <1>5, <1>6, GotoStep DEF WritePrev, Labels

LEMMA TruncateStep ==
  ASSUME ExclusiveInv, NEW w \in Workers, Truncate(w)
  PROVE  ExclusiveInv'
<1>1. TypeInv' /\ NothingGrabbed
  BY TruncateType DEF ExclusiveInv
<1>2. req[w].pc = "put" /\ req[w].pc \in ApplySteps
  BY DEF Truncate, ApplySteps
<1>3. PICK n \in Names : req[w].name = n
  BY <1>2, Applying
<1>4. \A m \in Names \ {n} : SameAt(m)
  BY <1>2, <1>3, Applying DEF StateOK, SameAt, Truncate, engine
<1>5. record'[n] # None
  <2>1. [req[w].want EXCEPT !.image = Torn] \in Records
    BY <1>2, Applying DEF Records
  <2>2. record'[n] = [req[w].want EXCEPT !.image = Torn]
    BY <1>2, <1>3, Applying DEF StateOK, Truncate
  <2>3. QED
    BY <2>1, <2>2, NoneApart
<1>6. Clean(n)'
  BY <1>5 DEF Clean
<1>7. ASSUME HandKept(w, "putWrite")
      PROVE  Applied(w)' /\ Removed(w)'
  <2>1. Applied(w)'
    BY <1>2, <1>3, <1>5, Applying, <1>7, ZenonT(60) DEF Applied, HandKept, ApplySteps
  <2>2. QED
    BY <1>7, <2>1, NotRemoving DEF ApplySteps
<1>8. QED
  BY <1>1, <1>2, <1>3, <1>4, <1>6, <1>7, GotoStep DEF Truncate, Labels

LEMMA PutStep ==
  ASSUME ExclusiveInv, NEW w \in Workers, Put(w)
  PROVE  ExclusiveInv'
<1>1. TypeInv' /\ NothingGrabbed
  BY PutType DEF ExclusiveInv
<1>2. req[w].pc = "putWrite" /\ req[w].pc \in ApplySteps
  BY DEF Put, ApplySteps
<1>3. PICK n \in Names : req[w].name = n
  BY <1>2, Applying
<1>4. \A m \in Names \ {n} : SameAt(m)
  BY <1>2, <1>3, Applying DEF StateOK, SameAt, Put, engine
<1>5. record'[n] = req[w].want /\ record'[n] # None
  BY <1>2, <1>3, Applying, NoneApart DEF StateOK, Put
<1>6. Clean(n)'
  BY <1>5 DEF Clean
<1>7. ASSUME HandKept(w, "render")
      PROVE  Applied(w)' /\ Removed(w)'
  <2>1. Applied(w)'
    BY <1>2, <1>3, <1>5, Applying, <1>7, ZenonT(60) DEF Applied, HandKept, ApplySteps
  <2>2. QED
    BY <1>7, <2>1, NotRemoving DEF ApplySteps
<1>8. QED
  BY <1>1, <1>2, <1>3, <1>4, <1>6, <1>7, GotoStep, RaiseStep DEF Put, Labels

LEMMA RenderStep ==
  ASSUME ExclusiveInv, NEW w \in Workers, Render(w)
  PROVE  ExclusiveInv'
<1>1. TypeInv' /\ NothingGrabbed
  BY RenderType DEF ExclusiveInv
<1>2. req[w].pc = "render" /\ req[w].pc \in ApplySteps
  BY DEF Render, ApplySteps
<1>3. PICK n \in Names : req[w].name = n
  BY <1>2, Applying
<1>4. \A m \in Names \ {n} : SameAt(m)
  BY <1>2, <1>3, Applying DEF StateOK, SameAt, Render, ledger
<1>5. record' = record /\ record[n] = req[w].want /\ record[n] # None
  BY <1>2, <1>3, Applying DEF Applied, Render, ledger
<1>6. Clean(n)'
  BY <1>5 DEF Clean
<1>7. ASSUME HandKept(w, "renderPolicy")
      PROVE  Applied(w)' /\ Removed(w)'
  <2>1. Applied(w)'
    BY <1>2, <1>3, <1>5, <1>7, Applying, ZenonT(60) DEF Applied, HandKept, ApplySteps
  <2>2. QED
    BY <1>7, <2>1, NotRemoving DEF ApplySteps
<1>8. QED
  BY <1>1, <1>2, <1>3, <1>4, <1>6, <1>7, GotoStep, RaiseStep DEF Render, Labels

LEMMA RenderPolicyStep ==
  ASSUME ExclusiveInv, NEW w \in Workers, RenderPolicy(w)
  PROVE  ExclusiveInv'
<1>1. TypeInv' /\ NothingGrabbed
  BY RenderPolicyType DEF ExclusiveInv
<1>2. req[w].pc = "renderPolicy" /\ req[w].pc \in ApplySteps
  BY DEF RenderPolicy, ApplySteps
<1>3. PICK n \in Names : req[w].name = n
  BY <1>2, Applying
<1>4. \A m \in Names \ {n} : SameAt(m)
  BY <1>2, <1>3, Applying DEF StateOK, SameAt, RenderPolicy, ledger
<1>5. record' = record /\ record[n] = req[w].want /\ record[n] # None
  BY <1>2, <1>3, Applying DEF Applied, RenderPolicy, ledger
<1>6. Clean(n)'
  BY <1>5 DEF Clean
<1>7. ASSUME rendered' = [rendered EXCEPT ![n] = req[w].want.cfg], HandKept(w, "recreate")
      PROVE  Applied(w)' /\ Removed(w)'
  <2>1. rendered'[n] = req[w].want.cfg
    BY <1>2, <1>3, <1>7, Applying DEF StateOK
  <2>2. Applied(w)'
    BY <1>2, <1>3, <1>5, <1>7, <2>1, Applying, ZenonT(60) DEF Applied, HandKept, ApplySteps
  <2>3. QED
    BY <1>7, <2>2, NotRemoving DEF ApplySteps
<1>8. CASE rendered' = [rendered EXCEPT ![n] = req[w].want.cfg] /\ Goto(w, "recreate")
  BY <1>1, <1>2, <1>3, <1>4, <1>6, <1>7, <1>8, GotoStep DEF Labels
<1>9. CASE Raise(w)
  BY <1>1, <1>2, <1>3, <1>4, <1>6, <1>9, RaiseStep
<1>10. QED
  BY <1>3, <1>8, <1>9 DEF RenderPolicy

LEMMA RemoveOldStep ==
  ASSUME ExclusiveInv, NEW w \in Workers, RemoveOld(w)
  PROVE  ExclusiveInv'
<1>1. TypeInv' /\ NothingGrabbed
  BY RemoveOldType DEF ExclusiveInv
<1>2. req[w].pc = "recreate" /\ req[w].pc \in ApplySteps
  BY DEF RemoveOld, ApplySteps
<1>3. PICK n \in Names : req[w].name = n
  BY <1>2, Applying
<1>4. \A m \in Names \ {n} : SameAt(m)
  BY <1>2, <1>3, Applying DEF StateOK, SameAt, RemoveOld, ledger
<1>5. record' = record /\ rendered' = rendered /\ record[n] # None
  BY <1>2, <1>3, Applying DEF RemoveOld, ledger
<1>6. Clean(n)'
  BY <1>5 DEF Clean
<1>7. ASSUME HandKept(w, "run")
      PROVE  Applied(w)' /\ Removed(w)'
  <2>1. Applied(w)'
    BY <1>2, <1>3, <1>5, Applying, <1>7, ZenonT(60) DEF Applied, HandKept, ApplySteps
  <2>2. QED
    BY <1>7, <2>1, NotRemoving DEF ApplySteps
<1>8. QED
  BY <1>1, <1>2, <1>3, <1>4, <1>6, <1>7, GotoStep, RaiseStep DEF RemoveOld, Labels

LEMMA CreateContainerStep ==
  ASSUME ExclusiveInv, NEW w \in Workers, CreateContainer(w)
  PROVE  ExclusiveInv'
<1>1. TypeInv' /\ NothingGrabbed
  BY CreateContainerType DEF ExclusiveInv
<1>2. req[w].pc = "run" /\ req[w].pc \in ApplySteps
  BY DEF CreateContainer, ApplySteps
<1>3. PICK n \in Names : req[w].name = n
  BY <1>2, Applying
<1> DEFINE made == [image |-> req[w].want.image, cfg |-> req[w].want.cfg,
                    loaded |-> None, maker |-> w, phase |-> "created"]
<1>4. \/ /\ container' = [container EXCEPT ![n] = made]
         /\ volume' = [volume EXCEPT ![n] = TRUE]
         /\ Goto(w, "start")
      \/ Raise(w) /\ UNCHANGED <<container, volume>>
  BY <1>3 DEF CreateContainer
<1>5. record' = record /\ prev' = prev /\ rendered' = rendered
  BY DEF CreateContainer, ledger
<1> HIDE DEF made
<1>6. \A m \in Names \ {n} : SameAt(m)
  BY <1>2, <1>4, <1>5, Applying DEF StateOK, SameAt
<1>7. Clean(n)'
  BY <1>2, <1>3, <1>5, Applying DEF Clean
<1>8. ASSUME container' = [container EXCEPT ![n] = made], HandKept(w, "start")
      PROVE  Applied(w)' /\ Removed(w)'
  <2>1. container'[n] = made
    BY <1>2, <1>8, Applying DEF StateOK
  <2>2. QED
    BY <1>2, <1>3, <1>5, <1>8, <2>1, Applying
       DEF Applied, Removed, HandKept, ApplySteps, RemoveSteps, made
<1>9. QED
  BY <1>1, <1>2, <1>3, <1>4, <1>6, <1>7, <1>8, GotoStep, RaiseStep DEF Labels

LEMMA StartContainerStep ==
  ASSUME ExclusiveInv, NEW w \in Workers, StartContainer(w)
  PROVE  ExclusiveInv'
<1>1. TypeInv' /\ NothingGrabbed
  BY StartContainerType DEF ExclusiveInv
<1>2. req[w].pc = "start" /\ req[w].pc \in ApplySteps
  BY DEF StartContainer, ApplySteps
<1>3. PICK n \in Names : req[w].name = n
  BY <1>2, Applying
<1>4. \/ /\ container[n] # None
         /\ container' = [Started(n) EXCEPT ![n].maker = None]
         /\ Goto(w, "settle")
      \/ container' = container /\ Raise(w)
  BY <1>3 DEF StartContainer
<1>5. record' = record /\ prev' = prev /\ rendered' = rendered /\ volume' = volume
  BY DEF StartContainer, ledger
<1>6. \A m \in Names \ {n} : SameAt(m)
  BY <1>2, <1>4, <1>5, Applying DEF StateOK, SameAt, Started
<1>7. Clean(n)'
  BY <1>2, <1>3, <1>5, Applying DEF Clean
<1>8. ASSUME container[n] # None, container' = [Started(n) EXCEPT ![n].maker = None],
             HandKept(w, "settle")
      PROVE  Applied(w)' /\ Removed(w)'
  <2>1. container[n] = [image |-> req[w].want.image, cfg |-> req[w].want.cfg,
                        loaded |-> None, maker |-> w, phase |-> "created"]
    BY <1>2, <1>3, Applying DEF Applied
  <2>2. rendered[n] = req[w].want.cfg /\ record[n] = req[w].want
    BY <1>2, <1>3, Applying DEF Applied
  <2>3. container'[n] = [container[n] EXCEPT !.phase = "starting", !.loaded = rendered[n],
                                             !.maker = None]
    BY <1>2, <1>8, Applying DEF StateOK, Started
  <2>4. container'[n] = [[image |-> req[w].want.image, cfg |-> req[w].want.cfg,
                          loaded |-> None, maker |-> w, phase |-> "created"]
                         EXCEPT !.phase = "starting", !.loaded = req[w].want.cfg,
                                !.maker = None]
    BY <2>1, <2>2, <2>3
  <2>5. /\ container'[n].image = req[w].want.image
        /\ container'[n].cfg = req[w].want.cfg
        /\ container'[n].loaded = req[w].want.cfg
    BY <2>4
  <2>6. container'[n] # None
    <3>1. container[n] \in Containers /\ rendered[n] \in Cfgs \cup {None, Torn}
      BY <1>2, <1>8, Applying DEF StateOK
    <3>2. container'[n] \in Containers
      BY <2>3, <3>1 DEF Containers, Running
    <3>3. QED
      BY <3>2, NoneApart
  <2>7. QED
    <3>1. Applied(w)'
      BY <1>2, <1>3, <1>5, <1>8, <2>2, <2>5, <2>6, Applying, ZenonT(60)
         DEF Applied, HandKept, ApplySteps
    <3>2. QED
      BY <1>8, <3>1, NotRemoving DEF ApplySteps
<1>9. QED
  BY <1>1, <1>2, <1>3, <1>4, <1>6, <1>7, <1>8, GotoStep, RaiseStep DEF Labels

LEMMA SettleStep ==
  ASSUME ExclusiveInv, NEW w \in Workers, Settle(w)
  PROVE  ExclusiveInv'
<1>1. TypeInv' /\ NothingGrabbed
  BY SettleType DEF ExclusiveInv
<1>2. req[w].pc = "settle" /\ req[w].pc \in ApplySteps
  BY DEF Settle, ApplySteps
<1>3. PICK n \in Names : req[w].name = n
  BY <1>2, Applying
<1>4. \A m \in Names : SameAt(m)
  BY DEF SameAt, Settle, ledger, engine
<1>5. Clean(n)'
  BY <1>4 DEF ExclusiveInv, Clean, SameAt
<1>6. CASE Raise(w)
  BY <1>1, <1>2, <1>3, <1>4, <1>5, <1>6, RaiseStep
<1>7. CASE \E a \in Replies : Finish(w, a)
  BY <1>1, <1>2, <1>3, <1>4, <1>5, <1>7, FinishStep
<1>8. CASE Goto(w, "watch")
  <2>1. record' = record /\ rendered' = rendered /\ container' = container
    BY DEF Settle, ledger, engine
  <2>2. Applied(w)
    BY <1>2, Applying
  <2>3. HandKept(w, "watch") => Applied(w)' /\ Removed(w)'
    BY <1>2, <2>1, <2>2 DEF Applied, Removed, HandKept, ApplySteps, RemoveSteps
  <2>4. QED
    BY <1>1, <1>2, <1>3, <1>4, <1>5, <1>8, <2>3, GotoStep DEF Labels
<1>9. QED
  BY <1>6, <1>7, <1>8 DEF Settle, Replies

LEMMA WatchHealthStep ==
  ASSUME ExclusiveInv, NEW w \in Workers, WatchHealth(w)
  PROVE  ExclusiveInv'
<1>1. TypeInv' /\ NothingGrabbed
  BY WatchHealthType DEF ExclusiveInv
<1>2. req[w].pc = "watch" /\ req[w].pc \in ApplySteps /\ Updating(w)
  BY DEF WatchHealth, ApplySteps, ExclusiveInv, TypeInv, ControlOK, WorkerOK
<1>3. PICK n \in Names : req[w].name = n
  BY <1>2, Applying
<1>4. \A m \in Names : SameAt(m)
  BY DEF SameAt, WatchHealth, ledger, engine
<1>5. Clean(n)'
  BY <1>4 DEF ExclusiveInv, Clean, SameAt
<1>6. CASE Restore(w)
  BY <1>1, <1>2, <1>3, <1>4, <1>5, <1>6, RaiseStep DEF Raise
<1>7. CASE \E a \in Replies : Finish(w, a)
  BY <1>1, <1>2, <1>3, <1>4, <1>5, <1>7, FinishStep
<1>8. QED
  BY <1>6, <1>7 DEF WatchHealth, Replies

-----------------------------------------------------------------------------
(* The steps of remove().                                                  *)

LEMMA Removing ==
  ASSUME ExclusiveInv, NEW w \in Workers, req[w].pc \in RemoveSteps
  PROVE  /\ req[w] \in RequestStates /\ req \in [Workers -> RequestStates]
         /\ req[w].name \in Names /\ req[w].op = "delete"
         /\ Removed(w) /\ Clean(req[w].name)
         /\ record[req[w].name] # None
         /\ ~req[w].restoring
         /\ StateOK
BY DEF ExclusiveInv, TypeInv, ControlOK, ReqOK, WorkerOK, InPlace, Applied,
       Removed, ApplySteps, RemoveSteps

LEMMA GetForRemovalStep ==
  ASSUME ExclusiveInv, NEW w \in Workers, GetForRemoval(w)
  PROVE  ExclusiveInv'
<1>1. TypeInv' /\ NothingGrabbed
  BY GetForRemovalType DEF ExclusiveInv
<1>2. req[w].pc = "get" /\ req[w].pc \in RemoveSteps
  BY DEF GetForRemoval, RemoveSteps
<1>3. PICK n \in Names : req[w].name = n
  BY <1>2, Removing
<1>4. \A m \in Names : SameAt(m)
  BY DEF SameAt, GetForRemoval, ledger, engine
<1>5. Clean(n)'
  BY <1>4 DEF ExclusiveInv, Clean, SameAt
<1>6. record[n] # None /\ Readable(n)
  BY <1>2, <1>3, Removing DEF Removed
<1>7. req' = [req EXCEPT ![w] = [req[w] EXCEPT !.want = record[n], !.pc = "stop"]]
  <2>1. Listed[n] = record[n] /\ record[n] # None
    BY <1>2, <1>6, ReadableRecord, Removing
  <2>2. req \in [Workers -> RequestStates]
    BY <1>2, Removing
  <2>3. QED
    BY <1>3, <1>6, <2>1, <2>2 DEF GetForRemoval, RequestStates
<1>8. /\ \A v \in Workers \ {w} : req'[v] = req[v]
      /\ req'[w] = [req[w] EXCEPT !.want = record[n], !.pc = "stop"]
  BY <1>2, <1>7, Removing
<1>9. /\ req'[w].pc = "stop" /\ req'[w].name = n /\ req'[w].todo = req[w].todo
      /\ req'[w].restoring = req[w].restoring
  BY <1>2, <1>3, <1>8, Removing DEF RequestStates
<1>10. Applied(w)' /\ Removed(w)'
  BY <1>2, <1>4, <1>6, <1>9, Removing DEF Applied, Removed, RemoveSteps, SameAt
<1>11. QED
  BY <1>1, <1>3, <1>4, <1>5, <1>8, <1>9, <1>10, OwnStep

LEMMA StopForLeaveStep ==
  ASSUME ExclusiveInv, NEW w \in Workers, StopForLeave(w)
  PROVE  ExclusiveInv'
<1>1. TypeInv' /\ NothingGrabbed
  BY StopForLeaveType DEF ExclusiveInv
<1>2. req[w].pc = "stop" /\ req[w].pc \in RemoveSteps
  BY DEF StopForLeave, RemoveSteps
<1>3. PICK n \in Names : req[w].name = n
  BY <1>2, Removing
<1>4. \A m \in Names \ {n} : SameAt(m)
  BY <1>2, <1>3, Removing DEF StateOK, SameAt, StopForLeave, ledger
<1>5. record' = record /\ record[n] # None
  BY <1>2, <1>3, Removing DEF StopForLeave, ledger
<1>6. Clean(n)'
  BY <1>5 DEF Clean
<1>7. HandKept(w, "leave") => Applied(w)' /\ Removed(w)'
  BY <1>2, <1>3, <1>5, Removing DEF Applied, Removed, HandKept, RemoveSteps
<1>8. QED
  BY <1>1, <1>2, <1>3, <1>4, <1>6, <1>7, GotoStep, RaiseStep DEF StopForLeave, Labels

LEMMA LeaveDomainStep ==
  ASSUME ExclusiveInv, NEW w \in Workers, LeaveDomain(w)
  PROVE  ExclusiveInv'
<1>1. TypeInv' /\ NothingGrabbed
  BY LeaveDomainType DEF ExclusiveInv
<1>2. req[w].pc = "leave" /\ req[w].pc \in RemoveSteps
  BY DEF LeaveDomain, RemoveSteps
<1>3. PICK n \in Names : req[w].name = n
  BY <1>2, Removing
<1>4. \A m \in Names : SameAt(m)
  BY DEF SameAt, LeaveDomain, ledger, engine
<1>5. Clean(n)'
  BY <1>4 DEF ExclusiveInv, Clean, SameAt
<1>6. CASE Raise(w)
  BY <1>1, <1>2, <1>3, <1>4, <1>5, <1>6, RaiseStep
<1>7. ASSUME NEW l \in {"neverJoined", "notAttempted", "left", "failed"},
             SetLeave(w, l)
      PROVE  ExclusiveInv'
  <2>1. /\ \A v \in Workers \ {w} : req'[v] = req[v]
        /\ req'[w] = [req[w] EXCEPT !.leave = l, !.pc = "rmContainer"]
    BY <1>2, <1>7, SetLeaveKeeps DEF ExclusiveInv, TypeInv
  <2>2. /\ req'[w].pc = "rmContainer" /\ req'[w].name = n /\ req'[w].todo = req[w].todo
        /\ req'[w].restoring = req[w].restoring
    BY <1>2, <1>3, <2>1, Removing DEF RequestStates
  <2>3. record'[n] # None /\ ~req[w].restoring
    BY <1>2, <1>3, <1>4, Removing DEF SameAt
  <2>4. Applied(w)' /\ Removed(w)'
    BY <2>2, <2>3 DEF Applied, Removed
  <2>5. QED
    BY <1>1, <1>3, <1>4, <1>5, <2>1, <2>2, <2>4, OwnStep
<1>8. QED
  BY <1>6, <1>7, Zenon DEF LeaveDomain

LEMMA RemoveContainerStep ==
  ASSUME ExclusiveInv, NEW w \in Workers, RemoveContainer(w)
  PROVE  ExclusiveInv'
<1>1. TypeInv' /\ NothingGrabbed
  BY RemoveContainerType DEF ExclusiveInv
<1>2. req[w].pc = "rmContainer" /\ req[w].pc \in RemoveSteps
  BY DEF RemoveContainer, RemoveSteps
<1>3. PICK n \in Names : req[w].name = n
  BY <1>2, Removing
<1>4. \/ container' = [container EXCEPT ![n] = None] /\ Goto(w, "rmVolume")
      \/ container' = container /\ Raise(w)
  BY <1>3 DEF RemoveContainer
<1>5. record' = record /\ prev' = prev /\ rendered' = rendered /\ volume' = volume
  BY DEF RemoveContainer, ledger
<1>6. \A m \in Names \ {n} : SameAt(m)
  BY <1>2, <1>4, <1>5, Removing DEF StateOK, SameAt
<1>7. record[n] # None /\ Clean(n)'
  BY <1>2, <1>3, <1>5, Removing DEF Clean
<1>8. ASSUME container' = [container EXCEPT ![n] = None], HandKept(w, "rmVolume")
      PROVE  Applied(w)' /\ Removed(w)'
  BY <1>2, <1>3, <1>5, <1>7, <1>8, Removing
     DEF StateOK, Applied, Removed, HandKept, RemoveSteps
<1>9. QED
  BY <1>1, <1>2, <1>3, <1>4, <1>6, <1>7, <1>8, GotoStep, RaiseStep DEF Labels

LEMMA RemoveVolumeStep ==
  ASSUME ExclusiveInv, NEW w \in Workers, RemoveVolume(w)
  PROVE  ExclusiveInv'
<1>1. TypeInv' /\ NothingGrabbed
  BY RemoveVolumeType DEF ExclusiveInv
<1>2. req[w].pc = "rmVolume" /\ req[w].pc \in RemoveSteps
  BY DEF RemoveVolume, RemoveSteps
<1>3. PICK n \in Names : req[w].name = n
  BY <1>2, Removing
<1>4. \/ volume' = [volume EXCEPT ![n] = FALSE] /\ Goto(w, "rmRendered")
      \/ volume' = volume /\ Raise(w)
  BY <1>3, Zenon DEF RemoveVolume
<1>5. /\ record' = record /\ prev' = prev /\ rendered' = rendered
      /\ container' = container
  BY Zenon DEF RemoveVolume, ledger
<1>6. \A m \in Names \ {n} : SameAt(m)
  BY <1>2, <1>4, <1>5, Removing DEF StateOK, SameAt
<1>7. record[n] # None /\ container[n] = None /\ Clean(n)'
  BY <1>2, <1>3, <1>5, Removing DEF Clean, Removed
<1>8. ASSUME volume' = [volume EXCEPT ![n] = FALSE], HandKept(w, "rmRendered")
      PROVE  Applied(w)' /\ Removed(w)'
  <2>1. volume'[n] = FALSE
    BY <1>2, <1>8, Removing DEF StateOK
  <2>2. QED
    BY <1>2, <1>3, <1>5, <1>7, <1>8, <2>1, Removing
       DEF Applied, Removed, HandKept, RemoveSteps
<1>9. QED
  BY <1>1, <1>2, <1>3, <1>4, <1>6, <1>7, <1>8, GotoStep, RaiseStep DEF Labels

LEMMA RemoveRenderedStep ==
  ASSUME ExclusiveInv, NEW w \in Workers, RemoveRendered(w)
  PROVE  ExclusiveInv'
<1>1. TypeInv' /\ NothingGrabbed
  BY RemoveRenderedType DEF ExclusiveInv
<1>2. req[w].pc = "rmRendered" /\ req[w].pc \in RemoveSteps
  BY DEF RemoveRendered, RemoveSteps
<1>3. PICK n \in Names : req[w].name = n
  BY <1>2, Removing
<1>4. \A m \in Names \ {n} : SameAt(m)
  BY <1>2, <1>3, Removing DEF StateOK, SameAt, RemoveRendered, ledger
<1>5. /\ record'[n] = record[n] /\ record[n] # None
      /\ container'[n] = container[n] /\ container[n] = None
      /\ volume'[n] = volume[n] /\ volume[n] = FALSE /\ rendered'[n] = None
  BY <1>2, <1>3, Removing DEF StateOK, Removed, RemoveRendered, ledger
<1>6. Clean(n)'
  BY <1>5 DEF Clean
<1>7. HandKept(w, "rmPrev") => Applied(w)' /\ Removed(w)'
  BY <1>2, <1>3, <1>5, Removing DEF Applied, Removed, HandKept, RemoveSteps
<1>8. QED
  BY <1>1, <1>2, <1>3, <1>4, <1>6, <1>7, GotoStep DEF RemoveRendered, Labels

LEMMA RemovePrevStep ==
  ASSUME ExclusiveInv, NEW w \in Workers, RemovePrev(w)
  PROVE  ExclusiveInv'
<1>1. TypeInv' /\ NothingGrabbed
  BY RemovePrevType DEF ExclusiveInv
<1>2. req[w].pc = "rmPrev" /\ req[w].pc \in RemoveSteps
  BY DEF RemovePrev, RemoveSteps
<1>3. PICK n \in Names : req[w].name = n
  BY <1>2, Removing
<1>4. \A m \in Names \ {n} : SameAt(m)
  BY <1>2, <1>3, Removing DEF StateOK, SameAt, RemovePrev, engine
<1>5. /\ record'[n] = record[n] /\ record[n] # None
      /\ container'[n] = container[n] /\ container[n] = None
      /\ volume'[n] = volume[n] /\ volume[n] = FALSE
      /\ rendered'[n] = rendered[n] /\ rendered[n] = None /\ prev'[n] = None
  BY <1>2, <1>3, Removing DEF StateOK, Removed, RemovePrev, engine
<1>6. Clean(n)'
  BY <1>5 DEF Clean
<1>7. HandKept(w, "rmRecord") => Applied(w)' /\ Removed(w)'
  BY <1>2, <1>3, <1>5, Removing DEF Applied, Removed, HandKept, RemoveSteps
<1>8. QED
  BY <1>1, <1>2, <1>3, <1>4, <1>6, <1>7, GotoStep DEF RemovePrev, Labels

\* The record goes last: by now there is nothing left to orphan.
LEMMA RemoveRecordStep ==
  ASSUME ExclusiveInv, NEW w \in Workers, RemoveRecord(w)
  PROVE  ExclusiveInv'
<1>1. TypeInv' /\ NothingGrabbed
  BY RemoveRecordType DEF ExclusiveInv
<1>2. req[w].pc = "rmRecord" /\ req[w].pc \in RemoveSteps
  BY DEF RemoveRecord, RemoveSteps
<1>3. PICK n \in Names : req[w].name = n
  BY <1>2, Removing
<1>4. /\ record' = [record EXCEPT ![n] = None] /\ prev' = prev
      /\ container' = container /\ volume' = volume /\ rendered' = rendered
      /\ Finish(w, "removed") \/ Raise(w)
  BY <1>3, Zenon DEF RemoveRecord, engine
<1>5. \A m \in Names \ {n} : SameAt(m)
  BY <1>2, <1>3, <1>4, Removing DEF StateOK, SameAt
<1>6. Clean(n)'
  BY <1>2, <1>3, <1>4, Removing DEF Clean, Removed
<1>7. QED
  BY <1>1, <1>2, <1>3, <1>4, <1>5, <1>6, FinishStep, RaiseStep DEF Replies

-----------------------------------------------------------------------------
(* The steps of a batch.                                                   *)

\* A worker between two instances, or with none, claims nothing.
LEMMA BatchStep ==
  ASSUME ExclusiveInv, NEW w \in Workers, TypeInv', NothingGrabbed,
         \A v \in Workers \ {w} : req'[v] = req[v],
         \A m \in Names : SameAt(m),
         InPlace(w)'
  PROVE  ExclusiveInv'
<1>1. Owner'
  BY DEF ExclusiveInv, Owner, NothingGrabbed
<1>2. \A v \in Workers : InPlace(v)'
  BY Undisturbed
<1>3. \A m \in Names : Clean(m)'
  BY DEF ExclusiveInv, Clean, SameAt
<1>4. QED
  BY <1>1, <1>2, <1>3 DEF ExclusiveInv

LEMMA Batching ==
  ASSUME ExclusiveInv, NEW w \in Workers, req[w].pc = "next"
  PROVE  /\ req[w] \in RequestStates /\ req \in [Workers -> RequestStates]
         /\ req[w].name = None /\ ~req[w].restoring /\ OnList(w)
         /\ StateOK
BY DEF ExclusiveInv, TypeInv, ControlOK, ReqOK, WorkerOK, InPlace

LEMMA NextReconcileStep ==
  ASSUME ExclusiveInv, NEW w \in Workers, NEW n \in Names, NextReconcile(w, n)
  PROVE  ExclusiveInv'
<1>1. req[w].pc = "next" /\ req[w].todo[n] # None
  BY DEF NextReconcile
<1>2. TypeInv'
  BY NextReconcileType DEF ExclusiveInv
<1>3. \A m \in Names : SameAt(m)
  BY DEF SameAt, NextReconcile, ledger, engine
<1>4. req' = [req EXCEPT ![w] = [req[w] EXCEPT !.pc = "render", !.name = n,
                !.want = req[w].todo[n], !.old = record[n],
                !.todo = [req[w].todo EXCEPT ![n] = None]]]
  BY <1>1, Batching DEF NextReconcile, Take, RequestStates
<1> DEFINE new == [req[w] EXCEPT !.pc = "render", !.name = n,
                     !.want = req[w].todo[n], !.old = record[n],
                     !.todo = [req[w].todo EXCEPT ![n] = None]]
<1>5. /\ new.pc = "render" /\ new.name = n /\ new.want = req[w].todo[n]
      /\ new.todo = [req[w].todo EXCEPT ![n] = None]
      /\ new.restoring = req[w].restoring
  BY <1>1, Batching DEF RequestStates
<1> HIDE DEF new
<1>6. req'[w] = new /\ \A v \in Workers \ {w} : req'[v] = req[v]
  BY <1>1, <1>4, Batching DEF new
<1>7. req[w].todo \in [Names -> Records \cup {None}]
  BY <1>1, Batching DEF RequestStates
<1>8. NothingGrabbed
  BY <1>1, <1>5, <1>6, <1>7 DEF NothingGrabbed, Touches
<1>9. record'[n] = req[w].todo[n]
  BY <1>1, <1>3, Batching DEF OnList, SameAt
<1>10. OnList(w)'
  BY <1>1, <1>3, <1>5, <1>6, <1>7, Batching DEF OnList, SameAt
<1>11. Applied(w)' /\ Removed(w)'
  BY <1>1, <1>5, <1>6, <1>9, Batching DEF Applied, Removed, RemoveSteps
<1>12. QED
  BY <1>2, <1>3, <1>6, <1>8, <1>10, <1>11, BatchStep DEF InPlace

LEMMA NextUpdateStep ==
  ASSUME ExclusiveInv, NEW w \in Workers, NEW n \in Names, NextUpdate(w, n)
  PROVE  ExclusiveInv'
<1>1. req[w].pc = "next" /\ req[w].todo[n] # None /\ req[w].op = "updateAll"
  BY DEF NextUpdate
<1>2. TypeInv'
  BY NextUpdateType DEF ExclusiveInv
<1>3. \A m \in Names : SameAt(m)
  BY DEF SameAt, NextUpdate, ledger, engine
<1>4. req[w].todo \in [Names -> Records \cup {None}]
  BY <1>1, Batching DEF RequestStates
<1> DEFINE rest == [req[w].todo EXCEPT ![n] = None]
<1>5. ASSUME NEW r \in Records, Take(w, n, r, "prev") PROVE ExclusiveInv'
  <2> DEFINE new == [req[w] EXCEPT !.pc = "prev", !.name = n, !.want = r,
                                   !.old = record[n], !.todo = rest]
  <2>1. req' = [req EXCEPT ![w] = new]
    BY <1>1, <1>5, Batching DEF Take, RequestStates
  <2>2. /\ new.pc = "prev" /\ new.name = n /\ new.old = record[n]
        /\ new.todo = rest /\ new.restoring = req[w].restoring
    BY <1>1, Batching DEF RequestStates
  <2> HIDE DEF new
  <2>3. req'[w] = new /\ \A v \in Workers \ {w} : req'[v] = req[v]
    BY <1>1, <2>1, Batching
  <2>4. NothingGrabbed
    BY <1>1, <1>4, <2>2, <2>3 DEF NothingGrabbed, Touches
  <2>5. OnList(w)'
    BY <1>1, <1>3, <1>4, <2>2, <2>3, Batching DEF OnList, SameAt
  <2>6. Applied(w)' /\ Removed(w)'
    BY <1>1, <1>3, <2>2, <2>3, Batching DEF Applied, Removed, RemoveSteps, SameAt
  <2>7. QED
    BY <1>2, <1>3, <2>3, <2>4, <2>5, <2>6, BatchStep DEF InPlace
<1>6. ASSUME NEW still \in BOOLEAN,
             req' = [req EXCEPT ![w] = [req[w] EXCEPT !.clean = still, !.todo = rest]]
      PROVE  ExclusiveInv'
  <2> DEFINE new == [req[w] EXCEPT !.clean = still, !.todo = rest]
  <2>1. /\ new.pc = "next" /\ new.name = None /\ new.todo = rest
        /\ new.restoring = req[w].restoring
    BY <1>1, Batching DEF RequestStates
  <2>2. req'[w] = new /\ \A v \in Workers \ {w} : req'[v] = req[v]
    BY <1>1, <1>6, Batching
  <2> HIDE DEF new
  <2>3. NothingGrabbed
    BY <1>1, <1>4, <2>1, <2>2, NoneApart DEF NothingGrabbed, Touches
  <2>4. OnList(w)'
    BY <1>1, <1>3, <1>4, <2>1, <2>2, Batching, NoneApart DEF OnList, SameAt
  <2>5. Applied(w)' /\ Removed(w)'
    BY <1>1, <2>1, <2>2, Batching DEF Applied, Removed, RemoveSteps
  <2>6. QED
    BY <1>2, <1>3, <2>2, <2>3, <2>4, <2>5, BatchStep DEF InPlace
<1>7. QED
  BY <1>5, <1>6, NextUpdateReq DEF ExclusiveInv

LEMMA EndBatchStep ==
  ASSUME ExclusiveInv, NEW w \in Workers, EndBatch(w)
  PROVE  ExclusiveInv'
<1>1. TypeInv' /\ NothingGrabbed
  BY EndBatchType DEF ExclusiveInv
<1>2. req[w].pc = "next"
  BY DEF EndBatch
<1>3. \A m \in Names : SameAt(m)
  BY DEF SameAt, EndBatch, ledger, engine
<1>4. PICK a \in Replies : Respond(w, a)
  BY DEF EndBatch, Replies
<1> DEFINE new == [Idle EXCEPT !.reply = a]
<1>5. /\ new.pc = "idle" /\ new.name = None /\ new.todo = NoTodo
      /\ new.restoring = FALSE
  BY DEF Idle
<1>6. req'[w] = new /\ \A v \in Workers \ {w} : req'[v] = req[v]
  BY <1>2, <1>4, Batching DEF Respond
<1> HIDE DEF new
<1>7. InPlace(w)'
  BY <1>5, <1>6, NoneApart DEF InPlace, OnList, Applied, Removed, RemoveSteps, NoTodo
<1>8. QED
  BY <1>1, <1>3, <1>6, <1>7, BatchStep

LEMMA WorkerStepExclusive ==
  ASSUME ExclusiveInv, NEW w \in Workers, WorkerStep(w)
  PROVE  ExclusiveInv'
BY NextReconcileStep, NextUpdateStep, EndBatchStep, TruncatePrevStep, WritePrevStep,
   TruncateStep, PutStep, RenderStep, RenderPolicyStep, RemoveOldStep, CreateContainerStep, StartContainerStep, SettleStep,
   WatchHealthStep, GetForRemovalStep, StopForLeaveStep, LeaveDomainStep, RemoveContainerStep,
   RemoveVolumeStep, RemoveRenderedStep, RemovePrevStep, RemoveRecordStep
   DEF WorkerStep

-----------------------------------------------------------------------------
(* A new request takes only what nobody has in hand.                       *)

LEMMA BeginStep ==
  ASSUME ExclusiveInv, Exclusive, NEW w \in Workers, NEW n \in Names,
         NEW o \in RequestKinds, NEW r, NEW l \in {"put", "prev", "get"},
         Begin(w, o, n, r, l), TypeInv',
         l # "put" => record[n] # None,
         l = "get" => Readable(n),
         UNCHANGED <<ledger, engine>>
  PROVE  ExclusiveInv'
<1>1. \A m \in Names : SameAt(m)
  BY DEF SameAt, ledger, engine
<1>2. \A v \in Workers : ~Touches(v, n)
  BY DEF Begin, Free
<1> DEFINE new == [Idle EXCEPT !.pc = l, !.op = o, !.name = n, !.want = r,
                               !.old = record[n]]
<1>3. /\ new.pc = l /\ new.name = n /\ new.old = record[n]
      /\ new.todo = NoTodo /\ new.restoring = FALSE
  BY DEF Idle
<1>4. req'[w] = new /\ \A v \in Workers \ {w} : req'[v] = req[v]
  BY DEF Begin, ExclusiveInv, TypeInv, ControlOK, ReqOK
<1> HIDE DEF new
<1>5. \A m \in Names : Touches(w, m)' => m = n
  BY <1>3, <1>4 DEF Touches, NoTodo
<1>6. \A v \in Workers \ {w}, m \in Names : Touches(v, m)' => Touches(v, m) /\ m # n
  BY <1>2, <1>4 DEF Touches
<1>7. Owner'
  BY <1>5, <1>6 DEF ExclusiveInv, Owner
<1>8. InPlace(w)'
  BY <1>1, <1>3, <1>4
     DEF InPlace, OnList, Applied, Removed, RemoveSteps, NoTodo, SameAt, Readable
<1>9. \A v \in Workers : InPlace(v)'
  BY <1>1, <1>4, <1>8, Undisturbed
<1>10. \A m \in Names : Clean(m)'
  BY <1>1 DEF ExclusiveInv, Clean, SameAt
<1>11. QED
  BY <1>7, <1>9, <1>10 DEF ExclusiveInv

LEMMA BeginBatchStep ==
  ASSUME ExclusiveInv, Exclusive, NEW w \in Workers,
         NEW o \in {"reconcile", "updateAll"}, BeginBatch(w, o)
  PROVE  ExclusiveInv'
<1>1. TypeInv' /\ req' = [req EXCEPT ![w] = [Idle EXCEPT !.pc = "next", !.op = o,
                                                        !.todo = Listed]]
  BY BeginBatchType DEF ExclusiveInv
<1>2. \A m \in Names : SameAt(m)
  BY DEF SameAt, BeginBatch, ledger, engine
<1>3. \A v \in Workers, m \in Names : Touches(v, m) => ~Readable(m)
  BY DEF BeginBatch, Free
<1> DEFINE new == [Idle EXCEPT !.pc = "next", !.op = o, !.todo = Listed]
<1>4. new.pc = "next" /\ new.name = None /\ new.todo = Listed /\ new.restoring = FALSE
  BY DEF Idle
<1>5. req'[w] = new /\ \A v \in Workers \ {w} : req'[v] = req[v]
  BY <1>1 DEF ExclusiveInv, TypeInv, ControlOK, ReqOK
<1> HIDE DEF new
<1>6. \A m \in Names : Touches(w, m)' => Readable(m) /\ Listed[m] = record[m]
  BY <1>4, <1>5, NoneApart, ReadableRecord DEF Touches, ExclusiveInv, TypeInv
<1>7. \A v \in Workers \ {w}, m \in Names : Touches(v, m)' => Touches(v, m) /\ ~Readable(m)
  BY <1>3, <1>5 DEF Touches
<1>8. Owner'
  BY <1>6, <1>7 DEF ExclusiveInv, Owner
<1>9. InPlace(w)'
  BY <1>2, <1>4, <1>5, <1>6, NoneApart
     DEF InPlace, OnList, Applied, Removed, RemoveSteps, SameAt, Touches
<1>10. \A v \in Workers : InPlace(v)'
  BY <1>2, <1>5, <1>9, Undisturbed
<1>11. \A m \in Names : Clean(m)'
  BY <1>2 DEF ExclusiveInv, Clean, SameAt
<1>12. QED
  BY <1>1, <1>8, <1>10, <1>11 DEF ExclusiveInv

LEMMA RequestExclusive ==
  ASSUME ExclusiveInv, Exclusive, NEW w \in Workers, Request(w)
  PROVE  ExclusiveInv'
<1>1. TypeInv'
  BY RequestType DEF ExclusiveInv
<1>2. ASSUME NEW n \in Names, NEW r \in Valid,
             CreateInstance(w, n, r) \/ PatchInstance(w, n, r)
      PROVE  ExclusiveInv'
  BY <1>1, <1>2, BeginStep DEF CreateInstance, PatchInstance, RequestKinds
<1>3. ASSUME NEW n \in Names, NEW c \in Cfgs, SetLdapCa(w, n, c)
      PROVE  ExclusiveInv'
  BY <1>1, <1>3, BeginStep DEF SetLdapCa, RequestKinds, Readable
<1>4. ASSUME NEW n \in Names, NEW i \in Images, UpdateInstance(w, n, i)
      PROVE  ExclusiveInv'
  BY <1>1, <1>4, BeginStep DEF UpdateInstance, RequestKinds, Readable
<1>5. ASSUME NEW n \in Names, RollbackInstance(w, n) \/ DeleteInstance(w, n)
      PROVE  ExclusiveInv'
  BY <1>1, <1>5, BeginStep DEF RollbackInstance, DeleteInstance, RequestKinds, Readable
<1>6. CASE Reconcile(w) \/ UpdateAll(w)
  BY <1>6, BeginBatchStep DEF Reconcile, UpdateAll
<1>7. QED
  BY <1>2, <1>3, <1>4, <1>5, <1>6 DEF Request

-----------------------------------------------------------------------------
(* What goes on outside the requests.                                      *)

LEMMA LifecycleExclusive ==
  ASSUME ExclusiveInv, Exclusive, NEW n \in Names, Lifecycle(n)
  PROVE  ExclusiveInv'
<1>1. TypeInv' /\ NothingGrabbed
  BY LifecycleType DEF ExclusiveInv
<1>2. /\ \A v \in Workers : ~Touches(v, n)
      /\ record[n] # None
      /\ UNCHANGED <<ledger, volume, rendered, req>>
  BY DEF Lifecycle, StartInstance, StopInstance, RestartInstance, Free, Readable
<1>3. \A m \in Names \ {n} : SameAt(m)
  BY <1>2 DEF ExclusiveInv, TypeInv, StateOK, Lifecycle, StartInstance,
              StopInstance, RestartInstance, Started, SameAt, ledger
<1>4. Owner'
  BY <1>1 DEF ExclusiveInv, Owner, NothingGrabbed
<1>5. \A v \in Workers : InPlace(v)'
  <2> SUFFICES ASSUME NEW v \in Workers PROVE InPlace(v)'
    OBVIOUS
  <2>1. req'[v] = req[v] /\ \A m \in Names : Touches(v, m) => SameAt(m)
    BY <1>2, <1>3
  <2>2. QED
    BY <2>1, Undisturbed
<1>6. \A m \in Names : Clean(m)'
  BY <1>2, <1>3 DEF ExclusiveInv, Clean, SameAt, ledger
<1>7. QED
  BY <1>1, <1>4, <1>5, <1>6 DEF ExclusiveInv

\* A container that the engine restarts, or whose health changes, is still the
\* container that a worker made: only its phase moves, and a restart loads the
\* configuration that has been rendered.
LEMMA ContainerDrifts ==
  ASSUME ExclusiveInv, NEW n \in Names, TypeInv', NothingGrabbed,
         UNCHANGED <<ledger, volume, rendered, req>>,
         container[n] # None,
         container[n].phase \in Running,
         \A m \in Names \ {n} : container'[m] = container[m],
         container'[n] # None,
         container'[n].image = container[n].image,
         container'[n].cfg = container[n].cfg,
         container'[n].loaded \in {container[n].loaded, rendered[n]}
  PROVE  ExclusiveInv'
<1>1. Owner'
  BY DEF ExclusiveInv, Owner, NothingGrabbed
<1>2. \A m \in Names : Clean(m)'
  BY DEF ExclusiveInv, Clean, ledger
<1>3. ASSUME NEW v \in Workers PROVE InPlace(v)'
  <2>1. WorkerOK(v) /\ OnList(v) /\ Applied(v) /\ Removed(v)
    BY DEF ExclusiveInv, TypeInv, ControlOK, InPlace
  <2>2. OnList(v)'
    BY <2>1 DEF OnList, ledger
  <2>3. CASE req[v].name = n
    <3>1. req[v].pc # "start"
      <4>1. [image |-> req[v].want.image, cfg |-> req[v].want.cfg, loaded |-> None,
             maker |-> v, phase |-> "created"].phase \notin Running
        BY DEF Running
      <4>2. QED
        BY <2>1, <2>3, <4>1 DEF Applied
    <3>2. Applied(v)'
      BY <2>1, <2>3, <3>1 DEF Applied, ledger
    <3>3. Removed(v)'
      BY <2>1, <2>3 DEF Removed, Readable, ledger
    <3>4. QED
      BY <2>2, <3>2, <3>3 DEF InPlace
  <2>4. CASE req[v].name # n
    <3>1. req[v].pc \notin {"idle", "next"} =>
            container'[req[v].name] = container[req[v].name]
      <4>1. req[v].pc \notin {"idle", "next"} => req[v].name \in Names
        BY <2>1 DEF WorkerOK, ApplySteps, RemoveSteps, ExclusiveInv, TypeInv,
                    ControlOK, ReqOK, RequestStates, Labels
      <4>2. QED
        BY <2>4, <4>1
    <3>2. Applied(v)'
      BY <2>1, <3>1 DEF Applied, ledger
    <3>3. Removed(v)'
      BY <2>1, <3>1 DEF Removed, Readable, ledger
    <3>4. QED
      BY <2>2, <3>2, <3>3 DEF InPlace
  <2>5. QED
    BY <2>3, <2>4
<1>4. QED
  BY <1>1, <1>2, <1>3 DEF ExclusiveInv

LEMMA EnvironmentExclusive ==
  ASSUME ExclusiveInv, NEW n \in Names, Environment(n)
  PROVE  ExclusiveInv'
<1>1. TypeInv' /\ NothingGrabbed
  BY EnvironmentType DEF ExclusiveInv
<1>2. container \in [Names -> Containers \cup {None}] /\ None \notin Containers
  BY NoneApart DEF ExclusiveInv, TypeInv, StateOK
<1>3. CASE BecomeHealthy(n) \/ BecomeUnhealthy(n)
  <2>1. PICK p \in {"healthy", "unhealthy"} :
          container' = [container EXCEPT ![n].phase = p]
    BY <1>3 DEF BecomeHealthy, BecomeUnhealthy
  <2>2. container[n] \in Containers /\ container[n].phase \in Running
    BY <1>2, <1>3 DEF BecomeHealthy, BecomeUnhealthy, Running
  <2> DEFINE new == [container[n] EXCEPT !.phase = p]
  <2>3. container'[n] = new /\ \A m \in Names \ {n} : container'[m] = container[m]
    BY <1>2, <2>1
  <2>4. /\ new.image = container[n].image /\ new.cfg = container[n].cfg
        /\ new.loaded = container[n].loaded /\ new \in Containers
    BY <2>2 DEF Containers, Running
  <2> HIDE DEF new
  <2>5. UNCHANGED <<ledger, volume, rendered, req>>
    BY <1>3 DEF BecomeHealthy, BecomeUnhealthy
  <2>6. QED
    BY <1>1, <1>2, <2>2, <2>3, <2>4, <2>5, ContainerDrifts
<1>4. CASE CrashRestart(n)
  <2>1. container[n] \in Containers /\ container[n].phase \in Running
    BY <1>2, <1>4 DEF CrashRestart
  <2> DEFINE new == [container[n] EXCEPT !.phase = "starting", !.loaded = rendered[n]]
  <2>2. container'[n] = new /\ \A m \in Names \ {n} : container'[m] = container[m]
    BY <1>2, <1>4 DEF CrashRestart, Started
  <2>3. /\ new.image = container[n].image /\ new.cfg = container[n].cfg
        /\ new.loaded = rendered[n]
    BY <2>1 DEF Containers
  <2>4. new \in Containers
    BY <2>1 DEF Containers, Running, ExclusiveInv, TypeInv, StateOK
  <2> HIDE DEF new
  <2>5. UNCHANGED <<ledger, volume, rendered, req>>
    BY <1>4 DEF CrashRestart
  <2>6. QED
    BY <1>1, <1>2, <2>1, <2>2, <2>3, <2>4, <2>5, ContainerDrifts
<1>5. CASE Join(n) \/ \E c \in Cfgs : ProvideFiles(n, c)
  <2>1. UNCHANGED <<ledger, engine, req>>
    BY <1>5 DEF Join, ProvideFiles
  <2>2. \A m \in Names : SameAt(m)
    BY <2>1 DEF SameAt, ledger, engine
  <2>3. Owner'
    BY <1>1 DEF ExclusiveInv, Owner, NothingGrabbed
  <2>4. \A v \in Workers : InPlace(v)'
    BY <2>1, <2>2, Undisturbed
  <2>5. \A m \in Names : Clean(m)'
    BY <2>2 DEF ExclusiveInv, Clean, SameAt
  <2>6. QED
    BY <1>1, <2>3, <2>4, <2>5 DEF ExclusiveInv
<1>6. QED
  BY <1>3, <1>4, <1>5 DEF Environment

LEMMA CrashExclusive ==
  ASSUME ExclusiveInv, Crash
  PROVE  ExclusiveInv'
<1>1. TypeInv' /\ NothingGrabbed
  BY CrashType DEF ExclusiveInv
<1>2. \A w \in Workers : req'[w] = Idle
  BY DEF Crash
<1>3. UNCHANGED <<ledger, engine>>
  BY DEF Crash
<1>4. /\ Idle.pc = "idle" /\ Idle.name = None /\ Idle.todo = NoTodo
      /\ Idle.restoring = FALSE
  BY DEF Idle
<1>5. \A w \in Workers : InPlace(w)'
  BY <1>2, <1>4, NoneApart DEF InPlace, OnList, Applied, Removed, RemoveSteps, NoTodo
<1>6. Owner'
  BY <1>1 DEF ExclusiveInv, Owner, NothingGrabbed
<1>7. \A m \in Names : Clean(m)'
  BY <1>3 DEF ExclusiveInv, Clean, ledger, engine
<1>8. QED
  BY <1>1, <1>5, <1>6, <1>7 DEF ExclusiveInv

-----------------------------------------------------------------------------
(* The invariant is inductive, and what it implies.                        *)

LEMMA ExclusiveInit == Init => ExclusiveInv
<1> SUFFICES ASSUME Init PROVE ExclusiveInv
  OBVIOUS
<1>1. TypeInv
  BY TypeInvInit
<1>2. /\ Idle.pc = "idle" /\ Idle.name = None /\ Idle.todo = NoTodo
      /\ Idle.restoring = FALSE
  BY DEF Idle
<1>3. \A w \in Workers : req[w] = Idle
  BY DEF Init
<1>4. \A w \in Workers : InPlace(w)
  BY <1>2, <1>3, NoneApart DEF InPlace, OnList, Applied, Removed, RemoveSteps, NoTodo
<1>5. Owner
  BY <1>2, <1>3, NoneApart DEF Owner, Touches, NoTodo
<1>6. \A n \in Names : Clean(n)
  BY DEF Init, Clean
<1>7. QED
  BY <1>1, <1>4, <1>5, <1>6 DEF ExclusiveInv

LEMMA ExclusiveStep ==
  ASSUME Exclusive
  PROVE  ExclusiveInv /\ [Next]_vars => ExclusiveInv'
<1> SUFFICES ASSUME ExclusiveInv, [Next]_vars PROVE ExclusiveInv'
  OBVIOUS
<1>1. CASE Next
  BY <1>1, RequestExclusive, WorkerStepExclusive, LifecycleExclusive,
     EnvironmentExclusive, CrashExclusive DEF Next
<1>2. CASE UNCHANGED vars
  <2>1. UNCHANGED <<ledger, engine, req>>
    BY <1>2 DEF vars
  <2>2. TypeInv' /\ NothingGrabbed
    BY <1>2, TypeInvStep, ReqUnchanged DEF ExclusiveInv, TypeInv, vars
  <2>3. \A m \in Names : SameAt(m)
    BY <2>1 DEF SameAt, ledger, engine
  <2>4. Owner'
    BY <2>2 DEF ExclusiveInv, Owner, NothingGrabbed
  <2>5. \A v \in Workers : InPlace(v)'
    BY <2>1, <2>3, Undisturbed
  <2>6. \A m \in Names : Clean(m)'
    BY <2>3 DEF ExclusiveInv, Clean, SameAt
  <2>7. QED
    BY <2>2, <2>4, <2>5, <2>6 DEF ExclusiveInv
<1>3. QED
  BY <1>1, <1>2

\* With one request per instance at a time nothing is ever orphaned: whatever
\* crashes, fails or is refused, an instance without a record has no container,
\* no machine-account volume, no rendered secret and no rollback pointer
\* (reconciler.py:28-38, store.py:92-105).
THEOREM NothingOrphaned ==
  ASSUME Exclusive
  PROVE  Spec => []ArtefactsHaveRecord
<1>1. Init => ExclusiveInv
  BY ExclusiveInit
<1>2. ExclusiveInv /\ [Next]_vars => ExclusiveInv'
  BY ExclusiveStep
<1>3. ExclusiveInv => ArtefactsHaveRecord
  BY DEF ExclusiveInv, Clean, ArtefactsHaveRecord
<1>4. QED
  BY <1>1, <1>2, <1>3, PTL DEF Spec

-----------------------------------------------------------------------------
(* What an answer says.                                                    *)

\* An answer is a step of the worker itself, in the middle of an apply or a
\* removal, in which it finishes or raises.
LEMMA WhoAnswers ==
  ASSUME ExclusiveInv, Next, NEW w \in Workers, NEW A, "none" \notin A,
         Answers(w, A)
  PROVE  WorkerStep(w) /\ req[w].pc \in ApplySteps \cup RemoveSteps
<1>1. req[w] \in RequestStates /\ req'[w] # req[w]
  BY DEF Answers, ExclusiveInv, TypeInv, ControlOK, ReqOK
<1>2. req[w].pc \in ApplySteps \cup RemoveSteps
  BY <1>1 DEF Answers, RequestStates, Labels, ApplySteps, RemoveSteps
<1>3. ~Crash
  BY DEF Crash, Answers, Idle
<1>4. \A n \in Names : ~Lifecycle(n) /\ ~Environment(n)
  BY <1>1 DEF Lifecycle, StartInstance, StopInstance, RestartInstance, Environment,
              BecomeHealthy, BecomeUnhealthy, CrashRestart, Join, ProvideFiles
<1>5. ~Request(w)
  BY DEF Answers, Request, CreateInstance, PatchInstance, SetLdapCa, UpdateInstance,
         RollbackInstance, DeleteInstance, Reconcile, UpdateAll, BeginBatch, Begin
<1>6. \A v \in Workers \ {w} : ~Request(v) /\ ~WorkerStep(v)
  BY <1>1, OthersSilent DEF ExclusiveInv
<1>7. QED
  BY <1>2, <1>3, <1>4, <1>5, <1>6 DEF Next

LEMMA HowAnswers ==
  ASSUME ExclusiveInv, NEW w \in Workers, NEW A, WorkerStep(w), Answers(w, A),
         req[w].pc \in ApplySteps \cup RemoveSteps
  PROVE  \/ Put(w) /\ Raise(w)
         \/ /\ req[w].pc \in {"render", "renderPolicy", "recreate", "run", "start"}
            /\ Raise(w) /\ record' = record
         \/ Settle(w) /\ ~Goto(w, "watch")
         \/ WatchHealth(w)
         \/ req[w].pc \in RemoveSteps /\ (Raise(w) \/ Finish(w, "removed"))
<1>1. req \in [Workers -> RequestStates] /\ req'[w].pc \in {"idle", "next"}
  BY DEF ExclusiveInv, TypeInv, ControlOK, ReqOK, Answers
<1>2. \A l \in Labels \ {"idle", "next"} : ~Goto(w, l)
  BY <1>1 DEF Goto, RequestStates
<1>3. /\ \A n \in Names : ~NextReconcile(w, n) /\ ~NextUpdate(w, n)
      /\ ~EndBatch(w)
  BY DEF NextReconcile, NextUpdate, EndBatch, ApplySteps, RemoveSteps
<1>4. ~TruncatePrev(w) /\ ~WritePrev(w) /\ ~Truncate(w)
  BY <1>2 DEF TruncatePrev, WritePrev, Truncate, Labels
<1>5. Put(w) => Raise(w)
  BY <1>2 DEF Put, Labels
<1>6. Render(w) \/ RenderPolicy(w) =>
        req[w].pc \in {"render", "renderPolicy"} /\ Raise(w) /\ record' = record
  BY <1>2 DEF Render, RenderPolicy, Labels, ledger
<1>7. RemoveOld(w) => req[w].pc = "recreate" /\ Raise(w) /\ record' = record
  BY <1>2 DEF RemoveOld, Labels, ledger
<1>8. CreateContainer(w) => req[w].pc = "run" /\ Raise(w) /\ record' = record
  BY <1>2 DEF CreateContainer, Labels, ledger
<1>9. StartContainer(w) => req[w].pc = "start" /\ Raise(w) /\ record' = record
  BY <1>2 DEF StartContainer, Labels, ledger
<1>10. StopForLeave(w) => req[w].pc \in RemoveSteps /\ Raise(w)
  BY <1>2, Zenon DEF StopForLeave, Labels, RemoveSteps
<1>11. /\ GetForRemoval(w) => req[w].pc \in RemoveSteps /\ Raise(w)
       /\ LeaveDomain(w) => req[w].pc \in RemoveSteps /\ Raise(w)
  <2>1. req[w] \in RequestStates
    BY <1>1
  <2>2. GetForRemoval(w) => /\ req[w].pc \in RemoveSteps
                            /\ Raise(w) \/ req'[w].pc \in {"rmPrev", "stop"}
    BY <1>1, <2>1 DEF GetForRemoval, RequestStates, RemoveSteps
  <2>3. LeaveDomain(w) => req[w].pc \in RemoveSteps /\ (Raise(w) \/ \E l : SetLeave(w, l))
    BY Zenon DEF LeaveDomain, RemoveSteps
  <2>4. \A l : SetLeave(w, l) => req'[w].pc = "rmContainer"
    BY <1>1, <2>1 DEF SetLeave, RequestStates
  <2>5. QED
    BY <1>1, <2>2, <2>3, <2>4
<1>12. RemoveContainer(w) \/ RemoveVolume(w) =>
         req[w].pc \in RemoveSteps /\ Raise(w)
  BY <1>2, Zenon DEF RemoveContainer, RemoveVolume, Labels, RemoveSteps
<1>13. ~RemoveRendered(w) /\ ~RemovePrev(w)
  BY <1>2 DEF RemoveRendered, RemovePrev, Labels
<1>14. RemoveRecord(w) => req[w].pc \in RemoveSteps /\ (Raise(w) \/ Finish(w, "removed"))
  BY Zenon DEF RemoveRecord, RemoveSteps
<1>15. ~Goto(w, "watch")
  BY <1>2 DEF Labels
<1>16. QED
  BY <1>15, <1>3, <1>4, <1>5, <1>6, <1>7, <1>8, <1>9, <1>10, <1>11, <1>12, <1>13, <1>14
     DEF WorkerStep

LEMMA RestoresRecord ==
  ASSUME ExclusiveInv, Next, NEW w \in Workers,
         req[w].op \in {"update", "updateAll"}, req[w].pc # "watch",
         Answers(w, {"rolledBack", "error"})
  PROVE  record'[req[w].name] = req[w].old
<1>1. WorkerStep(w) /\ req[w].pc \in ApplySteps \cup RemoveSteps
  BY WhoAnswers
<1>2. req[w].pc \in ApplySteps
  BY <1>1, Removing
<1>3. /\ req'[w].pc \in {"idle", "next"} /\ req'[w].reply \in {"rolledBack", "error"}
      /\ ControlOK
  BY DEF Answers, ExclusiveInv, TypeInv
<1>4. Raise(w) => req[w].restoring
  <2>1. ~Restore(w)
    BY <1>2, <1>3, Applying DEF Restore, RequestStates
  <2>2. QED
    BY <2>1 DEF Raise, Updating
<1>5. req[w].restoring => req[w].want = req[w].old
  BY <1>2, Applying DEF Applied
<1>6. CASE Put(w) /\ Raise(w)
  BY <1>2, <1>4, <1>5, <1>6, Applying DEF Put, StateOK
<1>7. CASE /\ req[w].pc \in {"render", "renderPolicy", "recreate", "run", "start"}
           /\ Raise(w) /\ record' = record
  BY <1>2, <1>4, <1>5, <1>7, Applying DEF Applied
<1>8. CASE Settle(w) /\ ~Goto(w, "watch")
  <2>1. record' = record /\ req[w].pc = "settle" /\ record[req[w].name] = req[w].want
    BY <1>2, <1>8, Applying DEF Settle, Applied, ledger
  <2>2. ~Updating(w)
    BY <1>4, <1>8 DEF Settle, Updating
  <2>3. QED
    BY <1>5, <2>1, <2>2 DEF Updating
<1>9. ~WatchHealth(w)
  BY DEF WatchHealth
<1>10. CASE req[w].pc \in RemoveSteps
  BY <1>2, <1>10 DEF ApplySteps, RemoveSteps
<1>11. QED
  BY <1>1, <1>6, <1>7, <1>8, <1>9, <1>10, HowAnswers

\* An update that does not end in "updated" leaves the record that it found, no
\* matter which step of it, or of its own rollback, failed (updater.py:58-94).
\* The one exception is a call that fails while the health is watched.
THEOREM FailedUpdatesRestore ==
  ASSUME Exclusive
  PROVE  Spec => FailedUpdateRestoresRecord
<1> DEFINE Restores == \A w \in Workers :
             /\ req[w].op \in {"update", "updateAll"}
             /\ req[w].pc # "watch"
             /\ Answers(w, {"rolledBack", "error"})
             => record'[req[w].name] = req[w].old
<1>1. Init => ExclusiveInv
  BY ExclusiveInit
<1>2. ExclusiveInv /\ [Next]_vars => ExclusiveInv'
  BY ExclusiveStep
<1>3. ExclusiveInv /\ [Next]_vars => [Restores]_vars
  BY RestoresRecord
<1>4. Spec => [][Restores]_vars
  BY <1>1, <1>2, <1>3, PTL DEF Spec
<1>5. QED
  BY <1>4 DEF FailedUpdateRestoresRecord

LEMMA SuccessDeployed ==
  ASSUME ExclusiveInv, Next, NEW w \in Workers,
         Answers(w, {"ok", "updated", "rolledBack"})
  PROVE  LET n == req[w].name IN
         /\ container[n] # None
         /\ record[n] = [image |-> container[n].image, cfg |-> container[n].cfg]
         /\ container[n].loaded = container[n].cfg
         /\ req'[w].reply = "updated" => container[n].phase = "healthy"
<1>1. WorkerStep(w) /\ req[w].pc \in ApplySteps \cup RemoveSteps
  BY WhoAnswers
<1>2. /\ req'[w].pc \in {"idle", "next"} /\ req'[w].reply \in {"ok", "updated", "rolledBack"}
      /\ ControlOK
  BY DEF Answers, ExclusiveInv, TypeInv
<1>3. ~Raise(w) /\ ~Finish(w, "removed")
  <2>1. ~Finish(w, "removed")
    BY <1>2, FinishKeeps DEF Replies
  <2>2. req[w] \in RequestStates
    BY <1>2 DEF ControlOK, ReqOK
  <2>3. ~Raise(w)
    BY <1>1, <1>2, <2>2, RaiseKeeps, ZenonT(60) DEF RequestStates
  <2>4. QED
    BY <2>1, <2>3
<1>4. (Settle(w) /\ ~Goto(w, "watch")) \/ WatchHealth(w)
  BY <1>1, <1>3, HowAnswers
<1>5. req[w].pc \in {"settle", "watch"} /\ req[w].pc \in ApplySteps
  BY <1>4 DEF Settle, WatchHealth, ApplySteps
<1>6. PICK n \in Names : req[w].name = n
  BY <1>5, Applying
<1>7. /\ record[n] = req[w].want /\ container[n] # None
      /\ container[n].image = req[w].want.image
      /\ container[n].cfg = req[w].want.cfg
      /\ container[n].loaded = req[w].want.cfg
  BY <1>5, <1>6, Applying DEF Applied
<1>8. req[w].want = [image |-> req[w].want.image, cfg |-> req[w].want.cfg]
  BY <1>5, Applying DEF Records
<1>9. req'[w].reply = "updated" => container[n].phase = "healthy"
  <2>1. /\ Finish(w, "rolledBack") => req'[w].reply = "rolledBack"
        /\ Finish(w, "ok") => req'[w].reply = "ok"
        /\ Finish(w, "error") => req'[w].reply = "error"
    BY <1>2, FinishKeeps DEF Replies
  <2>2. ~Restore(w)
    BY <1>2, <1>5, Applying DEF Restore, RequestStates
  <2>3. Settle(w) /\ ~Goto(w, "watch") => req'[w].reply # "updated"
    BY <1>3, <2>1 DEF Settle
  <2>4. WatchHealth(w) => Healthy(n)
    BY <1>2, <1>6, <2>1, <2>2 DEF WatchHealth
  <2>5. QED
    BY <1>4, <2>3, <2>4 DEF Healthy
<1>10. QED
  BY <1>6, <1>7, <1>8, <1>9

\* A success is about the container that is there: made from the record on disk,
\* running that record's configuration, and healthy after an update
\* (updater.py:77-84, docker_service.py:294-338).
THEOREM SuccessIsDeployed ==
  ASSUME Exclusive
  PROVE  Spec => SuccessMeansDeployed
<1> DEFINE Deployed == \A w \in Workers :
             LET n == req[w].name IN
             Answers(w, {"ok", "updated", "rolledBack"}) =>
               /\ container[n] # None
               /\ record[n] = [image |-> container[n].image, cfg |-> container[n].cfg]
               /\ container[n].loaded = container[n].cfg
               /\ req'[w].reply = "updated" => container[n].phase = "healthy"
<1>1. Init => ExclusiveInv
  BY ExclusiveInit
<1>2. ExclusiveInv /\ [Next]_vars => ExclusiveInv'
  BY ExclusiveStep
<1>3. ExclusiveInv /\ [Next]_vars => [Deployed]_vars
  BY SuccessDeployed
<1>4. Spec => [][Deployed]_vars
  BY <1>1, <1>2, <1>3, PTL DEF Spec
<1>5. QED
  BY <1>4 DEF SuccessMeansDeployed

-----------------------------------------------------------------------------
(* What goes, goes for a reason.                                           *)

LEMMA ContainerGone ==
  ASSUME TypeInv, Next, NEW n \in Names, container[n] # None, container'[n] = None
  PROVE  \E w \in Workers : req[w].name = n /\ (RemoveOld(w) \/ RemoveContainer(w))
<1> USE DEF engine
<1>1. container \in [Names -> Containers \cup {None}]
  BY DEF TypeInv, StateOK
<1>2. container' # container
  OBVIOUS
<1>3. ASSUME NEW m \in Names, NEW p \in Running \cup {"stopped"}, container[m] # None,
             container' = [container EXCEPT ![m].phase = p] \/ container' = Started(m)
      PROVE  FALSE
  <2>1. container[m] \in Containers
    BY <1>1, <1>3
  <2>2. rendered[m] \in Cfgs \cup {None, Torn}
    BY DEF TypeInv, StateOK
  <2>3. [container[m] EXCEPT !.phase = p] \in Containers
    BY <2>1 DEF Containers, Running
  <2>4. [container[m] EXCEPT !.phase = "starting", !.loaded = rendered[m]] \in Containers
    BY <2>1, <2>2 DEF Containers, Running
  <2>5. container'[n] \in {container[n], [container[m] EXCEPT !.phase = p],
                         [container[m] EXCEPT !.phase = "starting", !.loaded = rendered[m]]}
    BY <1>1, <1>3 DEF Started
  <2> QED BY <2>3, <2>4, <2>5, NoneApart
<1>4. \A m \in Names : ~Lifecycle(m) /\ ~Environment(m)
  BY <1>2, <1>3 DEF Running, Lifecycle, StartInstance, StopInstance, RestartInstance, Environment,
     BecomeHealthy, BecomeUnhealthy, CrashRestart, Join, ProvideFiles
<1>5. ~Crash
  BY <1>2 DEF Crash
<1>6. \A w \in Workers : ~Request(w)
  BY <1>2, Zenon DEF Request, CreateInstance, PatchInstance, SetLdapCa, UpdateInstance,
     RollbackInstance, DeleteInstance, Reconcile, UpdateAll, BeginBatch
<1>7. PICK w \in Workers : WorkerStep(w)
  BY <1>4, <1>5, <1>6 DEF Next
<1>8. ~StartContainer(w) /\ ~StopForLeave(w)
  <2>1. StartContainer(w) \/ StopForLeave(w) => req[w].name \in Names
    BY DEF StartContainer, StopForLeave, TypeInv, ControlOK, WorkerOK, ApplySteps, RemoveSteps
  <2>2. ~StartContainer(w)
    <3>1. SUFFICES ASSUME StartContainer(w), NEW m \in Names, req[w].name = m,
                          container[m] # None,
                          container' = [Started(m) EXCEPT ![m].maker = None]
                   PROVE  FALSE
      BY <1>2, <2>1 DEF StartContainer
    <3>2. container[m] \in Containers /\ rendered[m] \in Cfgs \cup {None, Torn}
      BY <1>1, <3>1 DEF TypeInv, StateOK
    <3>3. [container[m] EXCEPT !.phase = "starting", !.loaded = rendered[m], !.maker = None]
            \in Containers
      BY <3>2 DEF Containers, Running
    <3>4. container'[n] \in {container[n],
                            [container[m] EXCEPT !.phase = "starting", !.loaded = rendered[m],
                                                 !.maker = None]}
      BY <1>1, <3>1 DEF Started
    <3> QED BY <3>3, <3>4, NoneApart
  <2> QED BY <1>2, <1>3, <2>1, <2>2 DEF StopForLeave, Running
<1>9. ~CreateContainer(w)
  <2>1. \A i, c : \/ [image |-> i, cfg |-> c, loaded |-> None, maker |-> w,
                     phase |-> "created"] \in Containers
                  \/ i \notin Images \/ c \notin Cfgs
    BY DEF Containers
  <2>2. CreateContainer(w) => req[w].want.cfg \in Cfgs
    BY DEF CreateContainer, TypeInv, ControlOK, WorkerOK, ApplySteps, Records
  <2>3. CreateContainer(w) => req[w].want.image \in Images
    BY <1>2, ConstantsOK DEF CreateContainer, ConstantsOK
  <2> QED BY <1>1, <2>1, <2>2, <2>3, NoneApart DEF CreateContainer
<1>10. RemoveOld(w) \/ RemoveContainer(w)
  BY <1>2, <1>7, <1>8, <1>9, Zenon DEF WorkerStep, NextReconcile, NextUpdate, EndBatch, TruncatePrev,
     WritePrev, Truncate, Put, Render, RenderPolicy, Settle, WatchHealth, GetForRemoval,
     LeaveDomain, RemoveVolume, RemoveRendered, RemovePrev, RemoveRecord
<1>11. req[w].name = n
  BY <1>1, <1>2, <1>10 DEF RemoveOld, RemoveContainer
<1> QED BY <1>10, <1>11

LEMMA GoneForAReason ==
  ASSUME ExclusiveInv, FilesInv, Next, NEW n \in Names, container[n] # None, container'[n] = None
  PROVE  \E w \in Workers :
           /\ req[w].name = n
           /\ \/ req[w].op = "delete"
              \/ rendered[n] = req[w].want.cfg /\ req[w].want.cfg \in mounts[n]
<1>1. PICK w \in Workers : req[w].name = n /\ (RemoveOld(w) \/ RemoveContainer(w))
  BY ContainerGone DEF ExclusiveInv
<1>2. CASE RemoveOld(w)
  <2>1. req[w].pc = "recreate"
    BY <1>2 DEF RemoveOld
  <2>2. rendered[n] = req[w].want.cfg
    BY <1>1, <2>1 DEF ExclusiveInv, InPlace, Applied
  <2>3. req[w].want.cfg \in mounts[n]
    BY <1>1, <2>1 DEF FilesInv, Checked
  <2> QED BY <1>1, <2>2, <2>3
<1>3. CASE RemoveContainer(w)
  <2>1. req[w].op = "delete"
    BY <1>3 DEF RemoveContainer, RemoveSteps, ExclusiveInv, TypeInv, ControlOK, WorkerOK
  <2> QED BY <1>1, <2>1
<1> QED BY <1>1, <1>2, <1>3

\* A container is only ever taken away by a removal, or by an apply that has
\* rendered the new configuration and found all of its files
\* (docker_service.py:310-319, "validate BEFORE we tear down").
THEOREM TeardownIsValidated ==
  ASSUME Exclusive
  PROVE  Spec => NoTeardownBeforeValidation
<1> DEFINE Validated == \A n \in Names :
             container[n] # None /\ container'[n] = None =>
               \E w \in Workers :
                 /\ req[w].name = n
                 /\ \/ req[w].op = "delete"
                    \/ rendered[n] = req[w].want.cfg /\ req[w].want.cfg \in mounts[n]
<1>1. Init => ExclusiveInv /\ FilesInv
  BY ExclusiveInit DEF Init, FilesInv, FailClosed, Checked, Idle
<1>2. ExclusiveInv /\ FilesInv /\ [Next]_vars => ExclusiveInv' /\ FilesInv'
  BY ExclusiveStep, FilesStep DEF ExclusiveInv
<1>3. ExclusiveInv /\ FilesInv /\ [Next]_vars => [Validated]_vars
  BY GoneForAReason
<1>4. Spec => [][Validated]_vars
  BY <1>1, <1>2, <1>3, PTL DEF Spec
<1>5. QED
  BY <1>4 DEF NoTeardownBeforeValidation

-----------------------------------------------------------------------------
(* No computer account stays behind silently.                              *)

LEMMA SameElsewhere ==
  ASSUME TypeInv, NEW w \in Workers, WorkerStep(w), NEW m \in Names, m # req[w].name
  PROVE  SameAt(m)
<1>1. StateOK
  BY DEF TypeInv
<1>2. CASE \/ \E n \in Names : NextReconcile(w, n) \/ NextUpdate(w, n)
           \/ EndBatch(w) \/ Settle(w) \/ WatchHealth(w) \/ GetForRemoval(w)
           \/ LeaveDomain(w)
  BY <1>2, Zenon DEF NextReconcile, NextUpdate, EndBatch, Settle, WatchHealth,
     GetForRemoval, LeaveDomain, SameAt, ledger, engine
<1>3. CASE \/ TruncatePrev(w) \/ WritePrev(w) \/ Truncate(w) \/ Put(w)
           \/ Render(w) \/ RenderPolicy(w) \/ RemoveOld(w)
  BY <1>1, <1>3 DEF TruncatePrev, WritePrev, Truncate, Put, Render, RenderPolicy, RemoveOld,
     SameAt, StateOK, ledger, engine
<1>4. CASE CreateContainer(w) \/ StartContainer(w) \/ StopForLeave(w)
  <2>1. /\ record' = record /\ prev' = prev /\ rendered' = rendered
        /\ volume'[m] = volume[m] /\ container'[m] = container[m]
    BY <1>1, <1>4 DEF CreateContainer, StartContainer, Started, StopForLeave, StateOK, ledger
  <2> QED BY <2>1 DEF SameAt
<1>5. CASE RemoveContainer(w)
  BY <1>1, <1>5 DEF RemoveContainer, SameAt, StateOK, ledger
<1>6. CASE RemoveVolume(w)
  <2>1. /\ volume' = volume \/ volume' = [volume EXCEPT ![req[w].name] = FALSE]
        /\ UNCHANGED <<ledger, container, rendered>>
    BY <1>6, Zenon DEF RemoveVolume
  <2>2. volume'[m] = volume[m]
    BY <1>1, <2>1 DEF StateOK
  <2> QED BY <2>1, <2>2 DEF SameAt, ledger
<1>7. CASE RemoveRendered(w) \/ RemovePrev(w) \/ RemoveRecord(w)
  <2>1. /\ record' = record \/ record' = [record EXCEPT ![req[w].name] = None]
        /\ prev' = prev \/ prev' = [prev EXCEPT ![req[w].name] = None]
        /\ rendered' = rendered \/ rendered' = [rendered EXCEPT ![req[w].name] = None]
        /\ container' = container /\ volume' = volume
    BY <1>7, Zenon DEF RemoveRendered, RemovePrev, RemoveRecord, ledger, engine
  <2> QED BY <1>1, <2>1 DEF SameAt, StateOK
<1> QED BY <1>2, <1>3, <1>4, <1>5, <1>6, <1>7 DEF WorkerStep

\* The computer account is still there, and nothing came of it so far.
Untold(n) == account[n] = TRUE /\ report[n] = "none"

\* A worker has taken the volume away, and with it the last trace of an account
\* that it could not delete; it is about to say so.
Behind(n) ==
  \E w \in Workers :
    /\ req[w].name = n
    /\ req[w].pc \in {"rmRendered", "rmPrev", "rmRecord"}
    /\ LeftBehind(w)

\* A container that could not be stopped runs on, and can join again.
AtLarge(n) == container[n] # None /\ container[n].phase \in Running

LeaveSteps == {"rmContainer", "rmVolume"}

\* What a removal knows of the account once it is done with the leave.
Left(w) ==
  LET n == req[w].name IN
  /\ req[w].pc = "rmContainer" =>
       /\ LeftBehind(w) \/ req[w].leave = "left" \/ container[n] = None
       /\ Untold(n) => LeftBehind(w) \/ AtLarge(n)
  /\ req[w].pc = "rmVolume" => (Untold(n) => LeftBehind(w))

Accounted(n) ==
  /\ container[n] # None => volume[n] = TRUE
  /\ Untold(n) => volume[n] = TRUE \/ Behind(n)

LeaveInv ==
  /\ \A n \in Names : Accounted(n)
  /\ \A w \in Workers : Left(w)

SameAccount(m) ==
  /\ container'[m] = container[m] /\ volume'[m] = volume[m]
  /\ account'[m] = account[m] /\ report'[m] = report[m]

LEMMA LeaveAtName ==
  ASSUME ExclusiveInv, NEW w \in Workers, req[w].pc \in LeaveSteps
  PROVE  req[w].name \in Names
BY DEF ExclusiveInv, TypeInv, ControlOK, WorkerOK, LeaveSteps, RemoveSteps

\* What a worker knows depends on its own instance only.
LEMMA LeftStays ==
  ASSUME ExclusiveInv, LeaveInv, NEW v \in Workers, req'[v] = req[v],
         \A k \in Names : k = req[v].name => SameAccount(k)
  PROVE  Left(v)'
<1>1. CASE req[v].pc \in LeaveSteps
  <2>1. PICK k \in Names : req[v].name = k
    BY <1>1, LeaveAtName
  <2>2. /\ AtLarge(k)' <=> AtLarge(k)
        /\ Untold(k)' <=> Untold(k)
        /\ container'[k] = container[k]
    BY <2>1 DEF SameAccount, Untold, AtLarge
  <2>3. LeftBehind(v)' <=> LeftBehind(v)
    BY DEF LeftBehind
  <2>4. /\ req[v].pc = "rmContainer" =>
             /\ LeftBehind(v) \/ req[v].leave = "left" \/ container[k] = None
             /\ Untold(k) => LeftBehind(v) \/ AtLarge(k)
        /\ req[v].pc = "rmVolume" => (Untold(k) => LeftBehind(v))
    BY <2>1 DEF LeaveInv, Left
  <2>5. /\ req'[v].pc = "rmContainer" =>
             /\ LeftBehind(v)' \/ req'[v].leave = "left" \/ container'[k] = None
             /\ Untold(k)' => LeftBehind(v)' \/ AtLarge(k)'
        /\ req'[v].pc = "rmVolume" => (Untold(k)' => LeftBehind(v)')
    BY <2>2, <2>3, <2>4
  <2>6. req'[v].name = k
    BY <2>1
  <2> QED BY <2>5, <2>6 DEF Left
<1>2. CASE req[v].pc \notin LeaveSteps
  BY <1>2 DEF Left, LeaveSteps
<1> QED BY <1>1, <1>2

LEMMA LeaveElsewhere ==
  ASSUME ExclusiveInv, LeaveInv, NEW w \in Workers,
         \A v \in Workers \ {w} : req'[v] = req[v],
         \A m \in Names : m # req[w].name => SameAccount(m),
         \A m \in Names : m = req[w].name => Accounted(m)',
         Left(w)'
  PROVE  LeaveInv'
<1>1. ASSUME NEW m \in Names, m # req[w].name PROVE Accounted(m)'
  <2>1. SameAccount(m) /\ Accounted(m)
    BY <1>1 DEF LeaveInv
  <2>2. Behind(m) => Behind(m)'
    <3>1. SUFFICES ASSUME Behind(m) PROVE Behind(m)'
      OBVIOUS
    <3>2. PICK v \in Workers : /\ req[v].name = m
                               /\ req[v].pc \in {"rmRendered", "rmPrev", "rmRecord"}
                               /\ LeftBehind(v)
      BY <3>1 DEF Behind
    <3>3. req'[v] = req[v]
      BY <1>1, <3>2
    <3> QED BY <3>2, <3>3 DEF Behind, LeftBehind
  <2> QED BY <2>1, <2>2 DEF Accounted, SameAccount, Untold
<1>2. ASSUME NEW v \in Workers \ {w} PROVE Left(v)'
  <2>1. CASE req[v].pc \in LeaveSteps
    <3>1. req[v].name \in Names /\ req[v].name # req[w].name
      BY <2>1, LeaveAtName DEF ExclusiveInv, Owner, Touches
    <3> QED BY <3>1, LeftStays
  <2>2. CASE req[v].pc \notin LeaveSteps
    BY <2>2 DEF Left, LeaveSteps
  <2> QED BY <2>1, <2>2
<1> QED BY <1>1, <1>2 DEF LeaveInv

\* A worker that is not at the end of a removal is not who is about to say so.
LEMMA NotBehind ==
  ASSUME ExclusiveInv, NEW w \in Workers, req[w].name \in Names,
         req[w].pc \notin {"rmRendered", "rmPrev", "rmRecord"}
  PROVE  ~Behind(req[w].name)
BY DEF Behind, ExclusiveInv, Owner, Touches

\* A step of an apply, or of a batch, may put a container and a volume in place
\* but takes no volume away and leaves nothing of a removal behind.
LEMMA ApplyAccounts ==
  ASSUME ExclusiveInv, LeaveInv, NEW w \in Workers, WorkerStep(w),
         req[w].pc \notin LeaveSteps, req'[w].pc \notin LeaveSteps,
         req[w].pc \notin {"rmRendered", "rmPrev", "rmRecord"},
         account' = account,
         \A m \in Names : report'[m] = report[m] \/ volume'[m] = TRUE,
         \A m \in Names : m # req[w].name => report'[m] = report[m],
         \A m \in Names : volume[m] = TRUE => volume'[m] = TRUE,
         \A m \in Names : container'[m] # None => volume'[m] = TRUE
  PROVE  LeaveInv'
<1>1. Left(w)'
  BY DEF Left, LeaveSteps
<1>2. \A v \in Workers \ {w} : req'[v] = req[v]
  BY OthersSilent DEF ExclusiveInv
<1>3. ASSUME NEW m \in Names, m # req[w].name PROVE SameAccount(m)
  BY <1>3, SameElsewhere DEF SameAt, SameAccount, ExclusiveInv
<1>4. ASSUME NEW m \in Names, m = req[w].name PROVE Accounted(m)'
  <2>1. ~Behind(m)
    BY <1>4, NotBehind
  <2>2. Untold(m)' => Untold(m) \/ volume'[m] = TRUE
    BY DEF Untold
  <2>3. Untold(m) => volume[m] = TRUE
    BY <2>1 DEF LeaveInv, Accounted
  <2> QED BY <2>2, <2>3 DEF Accounted
<1> QED BY <1>1, <1>2, <1>3, <1>4, LeaveElsewhere

\* An apply never turns into a removal.
LEMMA ApplyStays ==
  ASSUME ExclusiveInv, NEW w \in Workers, WorkerStep(w), req[w].pc \in ApplySteps
  PROVE  req'[w].pc \notin LeaveSteps
<1>1. req[w] \in RequestStates /\ req \in [Workers -> RequestStates] /\ ControlOK
  BY Applying DEF ExclusiveInv, TypeInv
<1>2. ASSUME NEW l, Goto(w, l) PROVE req'[w].pc = l
  BY <1>1, <1>2 DEF Goto, RequestStates
<1>3. ASSUME NEW a \in Replies, Finish(w, a) PROVE req'[w].pc \in {"idle", "next"}
  BY <1>1, <1>3, FinishKeeps
<1>4. Restore(w) => req'[w].pc = "put"
  BY <1>1 DEF Restore, RequestStates
<1>5. Raise(w) => req'[w].pc \in {"idle", "next", "put"}
  BY <1>3, <1>4 DEF Raise, Replies
<1>6. \/ Raise(w) \/ Restore(w) \/ \E a \in {"ok", "updated", "rolledBack", "error"} : Finish(w, a)
      \/ \E l \in ApplySteps : Goto(w, l)
  <2>1. /\ \A n \in Names : ~NextReconcile(w, n) /\ ~NextUpdate(w, n)
        /\ ~EndBatch(w)
    BY DEF NextReconcile, NextUpdate, EndBatch, ApplySteps
  <2>2. /\ ~GetForRemoval(w) /\ ~StopForLeave(w) /\ ~LeaveDomain(w) /\ ~RemoveContainer(w)
        /\ ~RemoveVolume(w) /\ ~RemoveRendered(w) /\ ~RemovePrev(w) /\ ~RemoveRecord(w)
    BY Zenon DEF GetForRemoval, StopForLeave, LeaveDomain, RemoveContainer, RemoveVolume,
       RemoveRendered, RemovePrev, RemoveRecord, ApplySteps
  <2>3. (\/ TruncatePrev(w) \/ WritePrev(w) \/ Truncate(w) \/ Put(w) \/ Render(w)
         \/ RenderPolicy(w) \/ RemoveOld(w) \/ CreateContainer(w) \/ StartContainer(w)) =>
          \/ Raise(w)
          \/ \E l \in {"prevWrite", "put", "putWrite", "render", "renderPolicy", "recreate",
                       "run", "start", "settle"} : Goto(w, l)
    BY DEF TruncatePrev, WritePrev, Truncate, Put, Render, RenderPolicy, RemoveOld,
           CreateContainer, StartContainer
  <2>4. Settle(w) \/ WatchHealth(w) =>
          \/ Raise(w) \/ Restore(w) \/ Goto(w, "watch")
          \/ \E a \in {"ok", "updated", "rolledBack", "error"} : Finish(w, a)
    BY Zenon DEF Settle, WatchHealth
  <2> QED BY <2>1, <2>2, <2>3, <2>4 DEF WorkerStep, ApplySteps
<1> QED BY <1>2, <1>3, <1>4, <1>5, <1>6 DEF LeaveSteps, ApplySteps, Replies

LEMMA ApplyLeave ==
  ASSUME ExclusiveInv, LeaveInv, NEW w \in Workers, WorkerStep(w), req[w].pc \in ApplySteps
  PROVE  LeaveInv'
<1> USE DEF ledger
<1>1. /\ req'[w].pc \notin LeaveSteps /\ req[w].pc \notin LeaveSteps
      /\ req[w].pc \notin {"rmRendered", "rmPrev", "rmRecord"}
  BY ApplyStays DEF ApplySteps, LeaveSteps
<1>2. StateOK /\ req[w].name \in Names
  BY Applying
<1>3. \/ TruncatePrev(w) \/ WritePrev(w) \/ Truncate(w) \/ Put(w) \/ Render(w)
      \/ RenderPolicy(w) \/ RemoveOld(w) \/ CreateContainer(w) \/ StartContainer(w)
      \/ Settle(w) \/ WatchHealth(w)
  BY Zenon DEF WorkerStep, ApplySteps, NextReconcile, NextUpdate, EndBatch, GetForRemoval,
     StopForLeave, LeaveDomain, RemoveContainer, RemoveVolume, RemoveRendered, RemovePrev,
     RemoveRecord
<1>4. /\ account' = account
      /\ \/ report' = report
         \/ CreateContainer(w) /\ volume' = [volume EXCEPT ![req[w].name] = TRUE]
            /\ report' = [report EXCEPT ![req[w].name] = "none"]
  BY <1>3, Zenon DEF TruncatePrev, WritePrev, Truncate, Put, Render, RenderPolicy, RemoveOld,
     CreateContainer, StartContainer, Settle, WatchHealth, outside
<1>5. \A m \in Names : container[m] # None => volume[m] = TRUE
  BY DEF LeaveInv, Accounted
<1>6. /\ \A m \in Names : volume[m] = TRUE => volume'[m] = TRUE
      /\ \A m \in Names : container'[m] # None => volume'[m] = TRUE
  <2>1. CASE \/ TruncatePrev(w) \/ WritePrev(w) \/ Truncate(w) \/ Put(w) \/ Render(w)
             \/ RenderPolicy(w) \/ Settle(w) \/ WatchHealth(w)
    <3>1. container' = container /\ volume' = volume
      BY <2>1, Zenon DEF TruncatePrev, WritePrev, Truncate, Put, Render, RenderPolicy, Settle,
         WatchHealth, engine
    <3> QED BY <1>5, <3>1
  <2>2. CASE RemoveOld(w)
    BY <1>2, <1>5, <2>2 DEF RemoveOld, StateOK
  <2>3. CASE CreateContainer(w)
    <3>1. \/ container' = container /\ volume' = volume
          \/ /\ volume' = [volume EXCEPT ![req[w].name] = TRUE]
             /\ \E c : container' = [container EXCEPT ![req[w].name] = c]
      BY <2>3, Zenon DEF CreateContainer
    <3> QED BY <1>2, <1>5, <3>1 DEF StateOK
  <2>4. CASE StartContainer(w)
    <3>1. \/ container' = container /\ volume' = volume
          \/ /\ container[req[w].name] # None /\ volume' = volume
             /\ container' = [Started(req[w].name) EXCEPT ![req[w].name].maker = None]
      BY <2>4, Zenon DEF StartContainer
    <3>2. \A m \in Names : container'[m] # None => container[m] # None
      BY <1>2, <3>1 DEF StateOK, Started
    <3> QED BY <1>5, <3>1, <3>2
  <2> QED BY <1>3, <2>1, <2>2, <2>3, <2>4
<1>7. \A m \in Names : report'[m] = report[m] \/ volume'[m] = TRUE
  BY <1>2, <1>4 DEF StateOK
<1>8. \A m \in Names : m # req[w].name => report'[m] = report[m]
  BY <1>2, <1>4 DEF StateOK
<1>9. account' = account
  BY <1>4
<1> QED BY <1>1, <1>6, <1>7, <1>8, <1>9, ApplyAccounts

LEMMA RemoveEnds ==
  ASSUME ExclusiveInv, NEW w \in Workers, req[w].pc \in RemoveSteps,
         Raise(w) \/ Finish(w, "removed")
  PROVE  req'[w].pc \in {"idle", "next"}
<1>1. ~Updating(w)
  BY Removing DEF Updating
<1>2. \E a \in Replies : Finish(w, a)
  BY <1>1 DEF Raise, Replies
<1> QED BY <1>2, FinishKeeps DEF ExclusiveInv, TypeInv

LEMMA BatchLeave ==
  ASSUME ExclusiveInv, LeaveInv, NEW w \in Workers,
         \/ \E n \in Names : NextReconcile(w, n) \/ NextUpdate(w, n)
         \/ EndBatch(w) \/ GetForRemoval(w)
  PROVE  LeaveInv'
<1>1. WorkerStep(w)
  BY Zenon DEF WorkerStep
<1>2. req[w] \in RequestStates /\ req \in [Workers -> RequestStates]
  BY DEF ExclusiveInv, TypeInv, ControlOK, ReqOK
<1>3. UNCHANGED <<engine, outside, report>> /\ req[w].pc \in {"next", "get"}
  BY DEF NextReconcile, NextUpdate, EndBatch, GetForRemoval
<1>4. req'[w].pc \notin LeaveSteps
  <2>1. ASSUME NEW n \in Names, NextReconcile(w, n) \/ NextUpdate(w, n)
        PROVE  req'[w].pc \in {"render", "prev", "next"}
    <3>1. ASSUME NEW r, NEW l, Take(w, n, r, l) PROVE req'[w].pc = l
      BY <1>2, <3>1 DEF Take, RequestStates
    <3>2. CASE NextReconcile(w, n)
      BY <3>1, <3>2 DEF NextReconcile
    <3>3. CASE NextUpdate(w, n)
      <4>1. \/ Take(w, n, [record[n] EXCEPT !.image = DefaultImage], "prev")
            \/ \E still \in BOOLEAN :
                 req' = [req EXCEPT ![w] = [req[w] EXCEPT !.clean = still,
                                               !.todo = [req[w].todo EXCEPT ![n] = None]]]
        BY <3>3, NextUpdateReq DEF ExclusiveInv
      <4>2. ASSUME NEW still, NEW rest,
                   req' = [req EXCEPT ![w] = [req[w] EXCEPT !.clean = still, !.todo = rest]]
            PROVE  req'[w].pc = req[w].pc
        BY <1>2, <4>2 DEF RequestStates
      <4>3. req[w].pc = "next"
        BY <3>3 DEF NextUpdate
      <4> QED BY <3>1, <4>1, <4>2, <4>3
    <3> QED BY <2>1, <3>2, <3>3
  <2>2. EndBatch(w) => req'[w].pc = "idle"
    BY <1>2 DEF EndBatch, Respond, Idle
  <2>3. GetForRemoval(w) => req'[w].pc \in {"idle", "next", "stop", "rmPrev"}
    <3>1. GetForRemoval(w) => req[w].pc \in RemoveSteps /\ (Got(w) \/ Raise(w))
      BY GetForRemovalType DEF ExclusiveInv, GetForRemoval, RemoveSteps
    <3>2. Got(w) => req'[w].pc \in {"stop", "rmPrev"}
      BY <1>2 DEF Got, RequestStates
    <3> QED BY <3>1, <3>2, RemoveEnds
  <2> QED BY <2>1, <2>2, <2>3 DEF LeaveSteps
<1>5. /\ req[w].pc \notin LeaveSteps /\ req[w].pc \notin {"rmRendered", "rmPrev", "rmRecord"}
      /\ UNCHANGED <<container, volume, account, report>>
  BY <1>3 DEF LeaveSteps, engine, outside
<1>6. /\ \A m \in Names : volume[m] = TRUE => volume'[m] = TRUE
      /\ \A m \in Names : container'[m] # None => volume'[m] = TRUE
  BY <1>5 DEF LeaveInv, Accounted
<1> QED BY <1>1, <1>4, <1>5, <1>6, ApplyAccounts

-----------------------------------------------------------------------------
(* The steps of a removal, from the leave on.                              *)

LEMMA RemoveGoes ==
  ASSUME ExclusiveInv, NEW w \in Workers, req[w].pc \in RemoveSteps, NEW l, Goto(w, l)
  PROVE  /\ req'[w].pc = l /\ req'[w].name = req[w].name /\ req'[w].leave = req[w].leave
         /\ LeftBehind(w)' = LeftBehind(w)
<1>1. req'[w].pc = l /\ req'[w].name = req[w].name /\ req'[w].leave = req[w].leave
  BY Removing DEF Goto, RequestStates
<1> QED BY <1>1 DEF LeftBehind

LEMMA RemoveLeave ==
  ASSUME ExclusiveInv, LeaveInv, NEW w \in Workers, WorkerStep(w), NEW n \in Names,
         req[w].name = n, Accounted(n)', Left(w)',
         \A m \in Names \ {n} : account'[m] = account[m] /\ report'[m] = report[m]
  PROVE  LeaveInv'
<1>1. \A v \in Workers \ {w} : req'[v] = req[v]
  BY OthersSilent DEF ExclusiveInv
<1>2. ASSUME NEW m \in Names, m # n PROVE SameAccount(m)
  BY <1>2, SameElsewhere DEF SameAt, SameAccount, ExclusiveInv
<1> QED BY <1>1, <1>2, LeaveElsewhere

LEMMA StopLeave ==
  ASSUME ExclusiveInv, LeaveInv, NEW w \in Workers, StopForLeave(w)
  PROVE  LeaveInv'
<1>1. req[w].pc = "stop" /\ req[w].pc \in RemoveSteps /\ WorkerStep(w)
  BY Zenon DEF StopForLeave, RemoveSteps, WorkerStep
<1>2. PICK n \in Names : req[w].name = n
  BY <1>1, Removing
<1>3. account' = account /\ report' = report /\ volume' = volume
  BY DEF StopForLeave, outside
<1>4. ~Behind(n) /\ container \in [Names -> Containers \cup {None}]
  BY <1>1, <1>2, NotBehind DEF ExclusiveInv, TypeInv, StateOK
<1>5. container'[n] # None => container[n] # None
  BY <1>2, <1>4 DEF StopForLeave
<1>6. Accounted(n)'
  <2>1. Untold(n)' => Untold(n)
    BY <1>3 DEF Untold
  <2> QED BY <1>3, <1>4, <1>5, <2>1 DEF LeaveInv, Accounted
<1>7. Left(w)'
  <2>1. Raise(w) => req'[w].pc \in {"idle", "next"}
    BY <1>1, RemoveEnds
  <2>2. Goto(w, "leave") => req'[w].pc = "leave"
    BY <1>1, RemoveGoes
  <2>3. Raise(w) \/ Goto(w, "leave")
    BY Zenon DEF StopForLeave
  <2> QED BY <2>1, <2>2, <2>3 DEF Left
<1> QED BY <1>1, <1>2, <1>3, <1>6, <1>7, RemoveLeave

LEMMA LeaveDomainLeave ==
  ASSUME ExclusiveInv, LeaveInv, NEW w \in Workers, LeaveDomain(w)
  PROVE  LeaveInv'
<1>1. req[w].pc = "leave" /\ req[w].pc \in RemoveSteps /\ WorkerStep(w)
  BY Zenon DEF LeaveDomain, RemoveSteps, WorkerStep
<1>2. PICK n \in Names : req[w].name = n
  BY <1>1, Removing
<1>3. /\ report' = report /\ container' = container /\ volume' = volume
      /\ account' = account \/ account' = [account EXCEPT ![n] = FALSE]
  BY <1>2, Zenon DEF LeaveDomain, engine
<1>4. ~Behind(n) /\ account \in [Names -> BOOLEAN] /\ StateOK
  BY <1>1, <1>2, NotBehind DEF ExclusiveInv, TypeInv, StateOK
<1>5. \A m \in Names \ {n} : account'[m] = account[m] /\ report'[m] = report[m]
  BY <1>3, <1>4
<1>6. Untold(n)' => Untold(n)
  BY <1>3, <1>4 DEF Untold
<1>7. Accounted(n)'
  BY <1>3, <1>4, <1>6 DEF LeaveInv, Accounted
<1>8. Left(w)'
  <2>1. CASE Raise(w)
    <3>1. req'[w].pc \in {"idle", "next"}
      BY <1>1, <2>1, RemoveEnds
    <3> QED BY <3>1 DEF Left, LeaveSteps
  <2>2. ASSUME NEW l, SetLeave(w, l)
        PROVE  /\ req'[w].pc = "rmContainer" /\ req'[w].name = n /\ req'[w].leave = l
    BY <1>1, <1>2, <2>2, Removing DEF SetLeave, RequestStates
  <2>3. container'[n] = None \/ volume[n] = TRUE
    BY <1>3 DEF LeaveInv, Accounted
  <2>4. CASE \E l \in {"failed", "notAttempted"} : SetLeave(w, l)
    <3>1. LeftBehind(w)'
      BY <2>2, <2>4 DEF LeftBehind
    <3> QED BY <2>2, <2>4, <3>1 DEF Left
  <2>5. CASE SetLeave(w, "neverJoined") /\ volume[n] # TRUE
    <3>1. ~Untold(n)
      BY <1>4, <2>5 DEF LeaveInv, Accounted
    <3>2. ~Untold(n)'
      BY <1>6, <3>1
    <3> QED BY <2>2, <2>3, <2>5, <3>2 DEF Left
  <2>6. CASE SetLeave(w, "left") /\ account' = [account EXCEPT ![n] = FALSE]
    <3>1. ~Untold(n)'
      BY <1>4, <2>6 DEF Untold
    <3> QED BY <2>2, <2>6, <3>1 DEF Left
  <2>7. ~volume[n] => volume[n] # TRUE
    OBVIOUS
  <2>8. \/ Raise(w)
        \/ \E l \in {"failed", "notAttempted"} : SetLeave(w, l)
        \/ SetLeave(w, "neverJoined") /\ ~volume[n]
        \/ SetLeave(w, "left") /\ account' = [account EXCEPT ![n] = FALSE]
    BY <1>2, Zenon DEF LeaveDomain
  <2> QED BY <2>1, <2>4, <2>5, <2>6, <2>7, <2>8
<1> QED BY <1>1, <1>2, <1>5, <1>7, <1>8, RemoveLeave

LEMMA RemoveContainerLeave ==
  ASSUME ExclusiveInv, LeaveInv, NEW w \in Workers, RemoveContainer(w)
  PROVE  LeaveInv'
<1>1. req[w].pc = "rmContainer" /\ req[w].pc \in RemoveSteps /\ WorkerStep(w)
  BY Zenon DEF RemoveContainer, RemoveSteps, WorkerStep
<1>2. PICK n \in Names : req[w].name = n
  BY <1>1, Removing
<1>3. /\ account' = account /\ volume' = volume
      /\ \/ Raise(w) /\ report' = report /\ container' = container
         \/ /\ Goto(w, "rmVolume")
            /\ container' = [container EXCEPT ![n] = None]
            /\ report' = IF Rejoined(w) THEN [report EXCEPT ![n] = "lost"] ELSE report
  BY <1>2, Zenon DEF RemoveContainer, outside
<1>4. /\ ~Behind(n) /\ container \in [Names -> Containers \cup {None}]
      /\ report \in [Names -> {"none", "told", "lost"}] /\ account[n] \in BOOLEAN
  BY <1>1, <1>2, NotBehind DEF ExclusiveInv, TypeInv, StateOK
<1>5. /\ Untold(n)' => Untold(n)
      /\ container'[n] # None => container[n] # None
      /\ \A m \in Names \ {n} : report'[m] = report[m]
  BY <1>3, <1>4 DEF Untold
<1>6. Accounted(n)'
  BY <1>3, <1>4, <1>5 DEF LeaveInv, Accounted
<1>7. Left(w)'
  <2>1. CASE Raise(w)
    <3>1. req'[w].pc \in {"idle", "next"}
      BY <1>1, <2>1, RemoveEnds
    <3> QED BY <3>1 DEF Left
  <2>2. CASE /\ Goto(w, "rmVolume")
             /\ report' = IF Rejoined(w) THEN [report EXCEPT ![n] = "lost"] ELSE report
    <3>1. req'[w].pc = "rmVolume" /\ req'[w].name = n /\ (LeftBehind(w) => LeftBehind(w)')
      BY <1>1, <1>2, <2>2, RemoveGoes
    <3>2. /\ LeftBehind(w) \/ req[w].leave = "left" \/ container[n] = None
          /\ Untold(n) => LeftBehind(w) \/ AtLarge(n)
      BY <1>1, <1>2 DEF LeaveInv, Left
    <3>3. Untold(n)' => ~Rejoined(w)
      BY <1>4, <2>2 DEF Untold
    <3>4. Untold(n) /\ AtLarge(n) /\ req[w].leave = "left" => Rejoined(w)
      BY <1>2 DEF Untold, AtLarge, Rejoined
    <3>5. AtLarge(n) => container[n] # None
      BY DEF AtLarge
    <3>6. Untold(n)' => LeftBehind(w)'
      BY <1>5, <3>1, <3>2, <3>3, <3>4, <3>5
    <3> QED BY <3>1, <3>6 DEF Left
  <2> QED BY <1>3, <2>1, <2>2
<1> QED BY <1>1, <1>2, <1>3, <1>5, <1>6, <1>7, RemoveLeave

LEMMA RemoveVolumeLeave ==
  ASSUME ExclusiveInv, LeaveInv, NEW w \in Workers, RemoveVolume(w)
  PROVE  LeaveInv'
<1>1. req[w].pc = "rmVolume" /\ req[w].pc \in RemoveSteps /\ WorkerStep(w)
  BY Zenon DEF RemoveVolume, RemoveSteps, WorkerStep
<1>2. PICK n \in Names : req[w].name = n
  BY <1>1, Removing
<1>3. /\ account' = account /\ report' = report /\ container' = container
      /\ \/ Raise(w) /\ volume' = volume
         \/ Goto(w, "rmRendered")
  BY <1>2, Zenon DEF RemoveVolume, outside
<1>4. ~Behind(n) /\ container[n] = None
  BY <1>1, <1>2, NotBehind, Removing DEF Removed
<1>5. Untold(n)' <=> Untold(n)
  BY <1>3 DEF Untold
<1>6. CASE Raise(w) /\ volume' = volume
  <2>1. req'[w].pc \in {"idle", "next"}
    BY <1>1, <1>6, RemoveEnds
  <2>2. Accounted(n)'
    BY <1>3, <1>4, <1>5, <1>6 DEF LeaveInv, Accounted
  <2>3. Left(w)'
    BY <2>1 DEF Left
  <2> QED BY <1>1, <1>2, <1>3, <2>2, <2>3, RemoveLeave
<1>7. CASE Goto(w, "rmRendered")
  <2>1. req'[w].pc = "rmRendered" /\ req'[w].name = n /\ (LeftBehind(w) => LeftBehind(w)')
    BY <1>1, <1>2, <1>7, RemoveGoes
  <2>2. Untold(n) => LeftBehind(w)
    BY <1>1, <1>2 DEF LeaveInv, Left
  <2>3. LeftBehind(w)' => Behind(n)'
    BY <2>1 DEF Behind
  <2>4. Accounted(n)'
    BY <1>3, <1>4, <1>5, <2>1, <2>2, <2>3 DEF Accounted
  <2>5. Left(w)'
    BY <2>1 DEF Left
  <2> QED BY <1>1, <1>2, <1>3, <2>4, <2>5, RemoveLeave
<1> QED BY <1>3, <1>6, <1>7

\* Without the volume only the removal at work can have left an account untold.
LEMMA UntoldIsBehind ==
  ASSUME ExclusiveInv, LeaveInv, NEW w \in Workers, NEW n \in Names, req[w].name = n,
         req[w].pc \in {"rmRendered", "rmPrev", "rmRecord"}, Untold(n)
  PROVE  LeftBehind(w)
<1>1. volume[n] = FALSE
  BY Removing DEF Removed, RemoveSteps
<1>2. Behind(n)
  BY <1>1 DEF LeaveInv, Accounted
<1>3. PICK v \in Workers : req[v].name = n /\ LeftBehind(v)
  BY <1>2 DEF Behind
<1>4. v = w
  BY <1>3 DEF ExclusiveInv, Owner, Touches
<1> QED BY <1>3, <1>4

LEMMA RemoveFilesLeave ==
  ASSUME ExclusiveInv, LeaveInv, NEW w \in Workers, RemoveRendered(w) \/ RemovePrev(w)
  PROVE  LeaveInv'
<1>1. /\ req[w].pc \in {"rmRendered", "rmPrev"} /\ req[w].pc \in RemoveSteps /\ WorkerStep(w)
      /\ Goto(w, "rmPrev") \/ Goto(w, "rmRecord")
  BY Zenon DEF RemoveRendered, RemovePrev, RemoveSteps, WorkerStep
<1>2. PICK n \in Names : req[w].name = n
  BY <1>1, Removing
<1>3. UNCHANGED <<account, report, container, volume>>
  BY DEF RemoveRendered, RemovePrev, outside, engine
<1>4. container[n] = None
  BY <1>1, <1>2, Removing DEF Removed
<1>5. Untold(n)' => Untold(n)
  BY <1>3 DEF Untold
<1>6. /\ req'[w].pc \in {"rmPrev", "rmRecord"} /\ req'[w].name = n
      /\ LeftBehind(w) => LeftBehind(w)'
  BY <1>1, <1>2, RemoveGoes
<1>7. Untold(n) => LeftBehind(w)
  BY <1>1, <1>2, UntoldIsBehind
<1>8. LeftBehind(w)' => Behind(n)'
  BY <1>6 DEF Behind
<1>9. Accounted(n)'
  BY <1>3, <1>4, <1>5, <1>6, <1>7, <1>8 DEF Accounted
<1>10. Left(w)'
  BY <1>6 DEF Left
<1> QED BY <1>1, <1>2, <1>3, <1>9, <1>10, RemoveLeave

\* With the record goes the news that the removal could not leave, to the operator
\* or into nothing.
LEMMA RemoveRecordLeave ==
  ASSUME ExclusiveInv, LeaveInv, NEW w \in Workers, RemoveRecord(w)
  PROVE  LeaveInv'
<1>1. /\ req[w].pc = "rmRecord" /\ req[w].pc \in RemoveSteps /\ WorkerStep(w)
      /\ Finish(w, "removed") \/ Raise(w)
  BY Zenon DEF RemoveRecord, RemoveSteps, WorkerStep
<1>2. PICK n \in Names : req[w].name = n
  BY <1>1, Removing
<1>3. /\ account' = account /\ container' = container /\ volume' = volume
      /\ \E r \in {"told", "lost"} :
           report' = IF LeftBehind(w) THEN [report EXCEPT ![n] = r] ELSE report
  BY <1>2 DEF RemoveRecord, outside, engine
<1>4. container[n] = None /\ report \in [Names -> {"none", "told", "lost"}]
  BY <1>1, <1>2, Removing DEF Removed, StateOK
<1>5. \A m \in Names \ {n} : report'[m] = report[m]
  BY <1>3, <1>4
<1>6. Untold(n)' => Untold(n) /\ ~LeftBehind(w)
  BY <1>3, <1>4 DEF Untold
<1>7. ~Untold(n)'
  BY <1>1, <1>2, <1>6, UntoldIsBehind
<1>8. Accounted(n)'
  BY <1>3, <1>4, <1>7 DEF Accounted
<1>9. Left(w)'
  <2>1. req'[w].pc \in {"idle", "next"}
    BY <1>1, RemoveEnds
  <2> QED BY <2>1 DEF Left
<1> QED BY <1>1, <1>2, <1>3, <1>5, <1>8, <1>9, RemoveLeave

-----------------------------------------------------------------------------
(* Everything else.                                                        *)

LEMMA RequestLeave ==
  ASSUME ExclusiveInv, LeaveInv, NEW w \in Workers, Request(w)
  PROVE  LeaveInv'
<1>1. UNCHANGED <<container, volume, account, report>>
  BY Zenon DEF Request, CreateInstance, PatchInstance, SetLdapCa, UpdateInstance, RollbackInstance,
     DeleteInstance, Reconcile, UpdateAll, BeginBatch, engine, outside
<1>2. \A v \in Workers \ {w} : req'[v] = req[v]
  BY OthersSilent DEF ExclusiveInv
<1>3. req[w].pc = "idle" /\ req'[w].pc \in {"put", "prev", "get", "next"}
  <2>1. req \in [Workers -> RequestStates]
    BY DEF ExclusiveInv, TypeInv, ControlOK, ReqOK
  <2>2. ASSUME NEW o, NEW n, NEW r, NEW l, Begin(w, o, n, r, l)
        PROVE  req[w].pc = "idle" /\ req'[w].pc = l
    <3>1. [Idle EXCEPT !.pc = l, !.op = o, !.name = n, !.want = r, !.old = record[n]].pc = l
      BY DEF Idle
    <3> QED BY <2>1, <2>2, <3>1 DEF Begin
  <2>3. ASSUME NEW o, BeginBatch(w, o)
        PROVE  req[w].pc = "idle" /\ req'[w].pc = "next"
    <3>1. [Idle EXCEPT !.pc = "next", !.op = o, !.todo = Listed].pc = "next"
      BY DEF Idle
    <3> QED BY <2>1, <2>3, <3>1 DEF BeginBatch
  <2>4. \/ \E o, n, r : \E l \in {"put", "prev", "get"} : Begin(w, o, n, r, l)
        \/ \E o : BeginBatch(w, o)
    BY Zenon DEF Request, CreateInstance, PatchInstance, SetLdapCa, UpdateInstance,
       RollbackInstance, DeleteInstance, Reconcile, UpdateAll
  <2> QED BY <2>2, <2>3, <2>4
<1>4. req[w].name = None
  BY <1>3 DEF ExclusiveInv, TypeInv, ControlOK, WorkerOK
<1>5. \A m \in Names : m # req[w].name /\ SameAccount(m)
  BY <1>1, <1>4, NoneApart DEF SameAccount
<1>6. Left(w)'
  BY <1>3 DEF Left, LeaveSteps
<1> QED BY <1>2, <1>5, <1>6, LeaveElsewhere

\* What happens to an instance itself, or is done to it beside the requests.
LEMMA HostLeave ==
  ASSUME ExclusiveInv, LeaveInv, NEW n \in Names, req' = req,
         \A m \in Names \ {n} : SameAccount(m),
         Accounted(n)',
         \A w \in Workers : req[w].name = n => Left(w)'
  PROVE  LeaveInv'
<1>1. ASSUME NEW m \in Names \ {n} PROVE Accounted(m)'
  <2>1. Behind(m)' <=> Behind(m)
    BY DEF Behind, LeftBehind
  <2>2. SameAccount(m) /\ Accounted(m)
    BY DEF LeaveInv
  <2> QED BY <2>1, <2>2 DEF Accounted, SameAccount, Untold
<1>2. ASSUME NEW w \in Workers, req[w].name # n PROVE Left(w)'
  BY <1>2, LeftStays
<1> QED BY <1>1, <1>2 DEF LeaveInv

LEMMA LifecycleLeave ==
  ASSUME ExclusiveInv, LeaveInv, Exclusive, NEW n \in Names, Lifecycle(n)
  PROVE  LeaveInv'
<1>1. /\ req' = req /\ UNCHANGED <<volume, account, report>> /\ container[n] # None
      /\ \A w \in Workers : req[w].name # n
  BY DEF Lifecycle, StartInstance, StopInstance, RestartInstance, Free, Touches, outside
<1>2. \A m \in Names \ {n} : container'[m] = container[m]
  BY DEF Lifecycle, StartInstance, StopInstance, RestartInstance, Started, ExclusiveInv,
         TypeInv, StateOK
<1>3. volume[n] = TRUE
  BY <1>1 DEF LeaveInv, Accounted
<1>4. Accounted(n)'
  BY <1>1, <1>3 DEF Accounted
<1>5. \A m \in Names \ {n} : SameAccount(m)
  BY <1>1, <1>2 DEF SameAccount
<1> QED BY <1>1, <1>4, <1>5, HostLeave

\* The engine and the container change the phase of one that runs, not that it does.
LEMMA RunningOn ==
  ASSUME TypeInv, NEW n \in Names,
         BecomeHealthy(n) \/ BecomeUnhealthy(n) \/ CrashRestart(n)
  PROVE  container'[n] # None /\ container'[n].phase \in Running
<1>1. container[n] \in Containers /\ rendered[n] \in Cfgs \cup {None, Torn}
  BY DEF TypeInv, StateOK, BecomeHealthy, BecomeUnhealthy, CrashRestart
<1>2. \A p \in Running : [container[n] EXCEPT !.phase = p] \in Containers
                        /\ [container[n] EXCEPT !.phase = p].phase = p
  BY <1>1 DEF Containers
<1>3. /\ [container[n] EXCEPT !.phase = "starting", !.loaded = rendered[n]] \in Containers
      /\ [container[n] EXCEPT !.phase = "starting", !.loaded = rendered[n]].phase = "starting"
  BY <1>1 DEF Containers, Running
<1>4. \/ \E p \in Running : container'[n] = [container[n] EXCEPT !.phase = p]
      \/ container'[n] = [container[n] EXCEPT !.phase = "starting", !.loaded = rendered[n]]
  BY DEF TypeInv, StateOK, BecomeHealthy, BecomeUnhealthy, CrashRestart, Started, Running
<1> QED BY <1>2, <1>3, <1>4, NoneApart DEF Running

LEMMA EnvironmentLeave ==
  ASSUME ExclusiveInv, LeaveInv, NEW n \in Names, Environment(n)
  PROVE  LeaveInv'
<1>1. CASE \E c \in Cfgs : ProvideFiles(n, c)
  <2>1. req' = req /\ UNCHANGED <<container, volume, account, report>>
    BY <1>1 DEF ProvideFiles, engine
  <2>2. \A m \in Names : SameAccount(m)
    BY <2>1 DEF SameAccount
  <2>3. Accounted(n)'
    <3>1. Behind(n) => Behind(n)'
      BY <2>1 DEF Behind, LeftBehind
    <3> QED BY <2>1, <3>1 DEF LeaveInv, Accounted, Untold
  <2>4. \A w \in Workers : Left(w)'
    BY <2>1, <2>2, LeftStays
  <2> QED BY <2>1, <2>2, <2>3, <2>4, HostLeave
<1>2. CASE BecomeHealthy(n) \/ BecomeUnhealthy(n) \/ CrashRestart(n) \/ Join(n)
  <2>1. container[n] # None /\ container[n].phase \in Running /\ container[n] \in Containers
    BY <1>2 DEF BecomeHealthy, BecomeUnhealthy, CrashRestart, Join, Running, ExclusiveInv,
       TypeInv, StateOK
  <2>2. /\ req' = req /\ volume' = volume /\ report' = report
        /\ \A m \in Names \ {n} : /\ container'[m] = container[m]
                                  /\ account'[m] = account[m]
    BY <1>2 DEF BecomeHealthy, BecomeUnhealthy, CrashRestart, Join, Started, ExclusiveInv,
       TypeInv, StateOK, engine, outside
  <2>3. volume[n] = TRUE
    BY <2>1 DEF LeaveInv, Accounted
  <2>4. Accounted(n)'
    BY <2>2, <2>3 DEF Accounted
  <2>5. AtLarge(n)'
    <3>1. Join(n) => container' = container
      BY DEF Join, engine
    <3>2. container'[n] # None /\ container'[n].phase \in Running
      BY <1>2, <2>1, <3>1, RunningOn DEF ExclusiveInv
    <3> QED BY <3>2 DEF AtLarge
  <2>6. ASSUME NEW w \in Workers, req[w].name = n PROVE Left(w)'
    <3>1. req[w].pc # "rmVolume"
      BY <2>1, <2>6 DEF ExclusiveInv, InPlace, Removed
    <3>2. req[w].pc = "rmContainer" => LeftBehind(w) \/ req[w].leave = "left"
      BY <2>1, <2>6 DEF LeaveInv, Left
    <3>3. LeftBehind(w)' <=> LeftBehind(w)
      BY <2>2 DEF LeftBehind
    <3> QED BY <2>2, <2>5, <2>6, <3>1, <3>2, <3>3 DEF Left
  <2>7. \A m \in Names \ {n} : SameAccount(m)
    BY <2>2 DEF SameAccount
  <2> QED BY <2>2, <2>4, <2>6, <2>7, HostLeave
<1> QED BY <1>1, <1>2 DEF Environment

LEMMA CrashLeave ==
  ASSUME ExclusiveInv, LeaveInv, Crash
  PROVE  LeaveInv'
<1>1. ASSUME NEW w \in Workers PROVE Left(w)'
  <2>1. req'[w].pc = "idle"
    BY DEF Crash, Idle
  <2> QED BY <2>1 DEF Left
<1>2. ASSUME NEW n \in Names PROVE Accounted(n)'
  <2>1. UNCHANGED <<container, volume, account>>
    BY DEF Crash, engine, outside
  <2>2. report'[n] = IF ~volume[n] /\ \E w \in Workers : req[w].name = n /\ LeftBehind(w)
                       THEN "lost" ELSE report[n]
    BY DEF Crash
  <2>3. volume[n] \in BOOLEAN
    BY DEF ExclusiveInv, TypeInv, StateOK
  <2>4. Untold(n)' => Untold(n) /\ (volume[n] = TRUE \/ ~Behind(n))
    BY <2>1, <2>2, <2>3 DEF Untold, Behind
  <2> QED BY <2>1, <2>4 DEF LeaveInv, Accounted
<1> QED BY <1>1, <1>2 DEF LeaveInv

LEMMA WorkerLeave ==
  ASSUME ExclusiveInv, LeaveInv, NEW w \in Workers, WorkerStep(w)
  PROVE  LeaveInv'
<1>1. CASE \/ TruncatePrev(w) \/ WritePrev(w) \/ Truncate(w) \/ Put(w) \/ Render(w)
           \/ RenderPolicy(w) \/ RemoveOld(w) \/ CreateContainer(w) \/ StartContainer(w)
           \/ Settle(w) \/ WatchHealth(w)
  <2>1. req[w].pc \in ApplySteps
    BY <1>1, Zenon DEF TruncatePrev, WritePrev, Truncate, Put, Render, RenderPolicy, RemoveOld,
       CreateContainer, StartContainer, Settle, WatchHealth, ApplySteps
  <2> QED BY <2>1, ApplyLeave
<1>2. CASE \/ \E n \in Names : NextReconcile(w, n) \/ NextUpdate(w, n)
           \/ EndBatch(w) \/ GetForRemoval(w)
  BY <1>2, BatchLeave
<1>3. CASE \/ StopForLeave(w) \/ LeaveDomain(w) \/ RemoveContainer(w) \/ RemoveVolume(w)
           \/ RemoveRendered(w) \/ RemovePrev(w) \/ RemoveRecord(w)
  BY <1>3, StopLeave, LeaveDomainLeave, RemoveContainerLeave, RemoveVolumeLeave, RemoveFilesLeave,
     RemoveRecordLeave
<1> QED BY <1>1, <1>2, <1>3, Zenon DEF WorkerStep

LEMMA LeaveStep ==
  ASSUME Exclusive, ExclusiveInv, LeaveInv, [Next]_vars
  PROVE  LeaveInv'
<1>1. CASE UNCHANGED vars
  <2>1. UNCHANGED <<container, volume, account, report, req>>
    BY <1>1 DEF vars, engine, outside
  <2>2. ASSUME NEW w \in Workers PROVE Left(w)'
    BY <2>1, LeftStays DEF SameAccount
  <2>3. ASSUME NEW n \in Names PROVE Accounted(n)'
    <3>1. Behind(n) => Behind(n)'
      BY <2>1 DEF Behind, LeftBehind
    <3> QED BY <2>1, <3>1 DEF LeaveInv, Accounted, Untold
  <2> QED BY <2>2, <2>3 DEF LeaveInv
<1>2. CASE Next
  BY <1>2, RequestLeave, WorkerLeave, LifecycleLeave, EnvironmentLeave, CrashLeave, Zenon DEF Next
<1> QED BY <1>1, <1>2

LEMMA LeaveInit == Init => LeaveInv
<1> SUFFICES ASSUME Init PROVE LeaveInv
  OBVIOUS
<1>1. ASSUME NEW w \in Workers PROVE Left(w)
  BY DEF Init, Idle, Left
<1>2. ASSUME NEW n \in Names PROVE Accounted(n)
  BY DEF Init, Accounted, Untold
<1> QED BY <1>1, <1>2 DEF LeaveInv

\* "A failed leave is reported, never hidden" (api.py:229-231): with one request
\* per instance at a time, whatever fails or crashes, the failing stop before the
\* leave included, and however often a removal is tried again, a computer account
\* that outlives its instance is one whose failed leave was answered, or whose news
\* got lost in one of the three ways that `report' counts.
THEOREM LeftoversAreReported ==
  ASSUME Exclusive
  PROVE  Spec => []LeftoverAccountIsReported
<1>1. Init => ExclusiveInv /\ LeaveInv
  BY ExclusiveInit, LeaveInit
<1>2. ExclusiveInv /\ LeaveInv /\ [Next]_vars => ExclusiveInv' /\ LeaveInv'
  BY ExclusiveStep, LeaveStep
<1>3. ExclusiveInv /\ LeaveInv => LeftoverAccountIsReported
  <2> SUFFICES ASSUME ExclusiveInv, LeaveInv, NEW n \in Names, record[n] = None, account[n]
               PROVE  report[n] # "none"
    BY DEF LeftoverAccountIsReported
  <2>1. account[n] = TRUE
    BY DEF ExclusiveInv, TypeInv, StateOK
  <2>2. volume[n] = FALSE
    BY DEF ExclusiveInv, Clean
  <2>3. ~Behind(n)
    <3>1. ASSUME NEW w \in Workers, req[w].name = n, req[w].pc \in RemoveSteps PROVE FALSE
      BY <3>1, Removing
    <3> QED BY <3>1 DEF Behind, RemoveSteps
  <2>4. ~Untold(n)
    BY <2>2, <2>3 DEF LeaveInv, Accounted
  <2> QED BY <2>1, <2>4 DEF Untold
<1>4. QED
  BY <1>1, <1>2, <1>3, PTL DEF Spec

=============================================================================
