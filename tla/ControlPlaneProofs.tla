------------------------- MODULE ControlPlaneProofs -------------------------
(***************************************************************************)
(* ControlPlane is type-correct, for every value of its constants.  TypeOK *)
(* alone is not inductive: a step that reads the record or the target it   *)
(* was given needs to know that the worker has them at that label, which   *)
(* WorkerOK says.                                                          *)
(***************************************************************************)
EXTENDS ControlPlane, TLAPS

ApplySteps  == {"prev", "prevWrite", "put", "putWrite", "render", "renderPolicy",
                "recreate", "run", "start", "settle", "watch"}
RemoveSteps == {"get", "stop", "leave", "rmContainer", "rmVolume", "rmRendered",
                "rmPrev", "rmRecord"}
Replies     == {"none", "ok", "updated", "rolledBack", "removed", "error"}

ReqOK == req \in [Workers -> RequestStates]

\* What a worker has in hand at each label.
WorkerOK(w) ==
  /\ req[w].pc \in ApplySteps =>
       /\ req[w].name \in Names
       /\ req[w].want \in Records
       /\ req[w].op \in {"update", "updateAll"} => req[w].old \in Records
  /\ req[w].pc \in RemoveSteps => req[w].name \in Names /\ req[w].op = "delete"
  /\ req[w].pc \in {"stop", "leave"} => req[w].want \in Records
  /\ req[w].pc \in {"idle", "next"} => req[w].name = None
  /\ req[w].pc = "idle" => req[w].todo = NoTodo
  /\ req[w].pc \in {"prev", "prevWrite", "watch"} => Updating(w)
  /\ req[w].pc = "next" => ~req[w].restoring

ControlOK == ReqOK /\ \A w \in Workers : WorkerOK(w)

StateOK ==
  /\ record    \in [Names -> Records \cup {None}]
  /\ prev      \in [Names -> Images \cup {None, Torn}]
  /\ rendered  \in [Names -> Cfgs \cup {None, Torn}]
  /\ container \in [Names -> Containers \cup {None}]
  /\ volume    \in [Names -> BOOLEAN]
  /\ account   \in [Names -> BOOLEAN]
  /\ mounts    \in [Names -> SUBSET Cfgs]
  /\ report    \in [Names -> {"none", "told", "lost"}]
  /\ faults    \in Nat
  /\ crashes   \in Nat

\* TypeOK is not inductive: what a step writes was put in the worker's hand by
\* an earlier one.
TypeInv == StateOK /\ ControlOK

\* No worker gets hold of an instance it had nothing to do with.
NothingGrabbed ==
  \A v \in Workers, n \in Names : Touches(v, n)' => Touches(v, n)

-----------------------------------------------------------------------------
(* The control operators keep every worker's hand in order.                *)

LEMMA IdleType == Idle \in RequestStates
BY DEF Idle, RequestStates, Labels, NoTodo

LEMMA NoneApart ==
  /\ None \notin Names /\ None \notin Records /\ None \notin Images
  /\ None \notin Cfgs /\ None \notin Containers /\ None \notin Workers
BY ConstantsOK DEF ConstantsOK

LEMMA ValidRecords ==
  Valid \subseteq Records /\ \A r \in Valid : r.image \in Images /\ r.cfg \in Cfgs
BY DEF Valid, Records

\* What a request finds can be read, and is a record then.
LEMMA ReadableRecord ==
  ASSUME StateOK, NEW n \in Names
  PROVE  /\ Readable(n) => record[n] \in Records /\ record[n].image \in Images
         /\ Listed[n] \in Records \cup {None}
         /\ Listed[n] = (IF Readable(n) THEN record[n] ELSE None)
BY DEF StateOK, Readable, Listed, Records

\* Only the worker that moves needs looking at.
LEMMA OneMoves ==
  ASSUME ControlOK, NEW w \in Workers, NEW new \in RequestStates,
         req' = [req EXCEPT ![w] = new], WorkerOK(w)'
  PROVE  ControlOK'
<1>1. ReqOK'
  BY DEF ControlOK, ReqOK
<1>2. ASSUME NEW v \in Workers PROVE WorkerOK(v)'
  <2>1. CASE v = w
    BY <2>1
  <2>2. CASE v # w
    <3>1. req'[v] = req[v]
      BY <2>2 DEF ControlOK, ReqOK
    <3>2. WorkerOK(v)
      BY DEF ControlOK
    <3>3. QED
      BY <3>1, <3>2 DEF WorkerOK, Updating
  <2>3. QED
    BY <2>1, <2>2
<1>3. QED
  BY <1>1, <1>2 DEF ControlOK

LEMMA OneReleases ==
  ASSUME ReqOK, NEW w \in Workers, NEW new,
         req' = [req EXCEPT ![w] = new],
         \A n \in Names : new.name = n \/ new.todo[n] # None => Touches(w, n)
  PROVE  NothingGrabbed
BY DEF NothingGrabbed, Touches, ReqOK

LEMMA GotoKeeps ==
  ASSUME ControlOK, NEW w \in Workers, NEW l \in Labels, Goto(w, l),
         \/ /\ req[w].pc \in ApplySteps /\ l \in ApplySteps \ {"prev"}
            /\ l \in {"prevWrite", "watch"} => Updating(w)
         \/ /\ req[w].pc \in RemoveSteps /\ l \in RemoveSteps \ {"stop"}
            /\ l = "leave" => req[w].pc = "stop"
  PROVE  ControlOK' /\ NothingGrabbed /\ req' = [req EXCEPT ![w] = [req[w] EXCEPT !.pc = l]]
<1> DEFINE new == [req[w] EXCEPT !.pc = l]
<1>1. req[w] \in RequestStates /\ WorkerOK(w)
  BY DEF ControlOK, ReqOK
<1>2. new \in RequestStates
  BY <1>1 DEF RequestStates
<1>3. req' = [req EXCEPT ![w] = new]
  BY DEF Goto
<1>4. req'[w] = new
  BY <1>3 DEF ControlOK, ReqOK
<1>5. WorkerOK(w)'
  BY <1>1, <1>4 DEF WorkerOK, Updating, ApplySteps, RemoveSteps, RequestStates
<1>6. \A n \in Names : new.name = n \/ new.todo[n] # None => Touches(w, n)
  BY <1>1 DEF Touches, RequestStates
<1> HIDE DEF new
<1>7. QED
  BY <1>2, <1>3, <1>5, <1>6, OneMoves, OneReleases DEF ControlOK, new

LEMMA RespondKeeps ==
  ASSUME ControlOK, NEW w \in Workers, NEW a \in Replies, Respond(w, a)
  PROVE  ControlOK' /\ NothingGrabbed /\ req' = [req EXCEPT ![w] = [Idle EXCEPT !.reply = a]]
<1> DEFINE new == [Idle EXCEPT !.reply = a]
<1>1. new \in RequestStates
  BY IdleType DEF RequestStates, Replies
<1>2. req' = [req EXCEPT ![w] = new]
  BY DEF Respond
<1>3. req'[w] = new
  BY <1>2 DEF ControlOK, ReqOK
<1>4. new.pc = "idle" /\ new.name = None /\ new.todo = NoTodo
  BY DEF Idle
<1> HIDE DEF new
<1>5. WorkerOK(w)'
  BY <1>3, <1>4 DEF WorkerOK, ApplySteps, RemoveSteps, NoTodo
<1>6. \A n \in Names : new.name = n \/ new.todo[n] # None => Touches(w, n)
  BY <1>4, NoneApart DEF NoTodo
<1>7. QED
  BY <1>1, <1>2, <1>5, <1>6, OneMoves, OneReleases DEF ControlOK, new

LEMMA AdvanceKeeps ==
  ASSUME ControlOK, NEW w \in Workers, NEW a \in Replies, Advance(w, a)
  PROVE  /\ ControlOK' /\ NothingGrabbed
         /\ \A v \in Workers \ {w} : req'[v] = req[v]
         /\ req'[w].pc = "next" /\ req'[w].name = None /\ req'[w].todo = req[w].todo
         /\ req'[w].op = req[w].op /\ req'[w].reply = a
         /\ ~req'[w].restoring
<1> DEFINE still == IF a \in {"ok", "updated"} THEN req[w].clean ELSE FALSE
           new   == [req[w] EXCEPT !.pc = "next", !.name = None, !.want = None,
                                   !.old = None, !.restoring = FALSE,
                                   !.clean = still, !.reply = a]
<1>1. req[w] \in RequestStates /\ WorkerOK(w)
  BY DEF ControlOK, ReqOK
<1>2. still \in BOOLEAN
  BY <1>1 DEF RequestStates
<1>3. req' = [req EXCEPT ![w] = new]
  BY DEF Advance
<1> HIDE DEF still
<1>4. new \in RequestStates
  BY <1>1, <1>2, ZenonT(60) DEF RequestStates, Labels, Replies
<1>5. /\ new.pc = "next" /\ new.name = None /\ new.todo = req[w].todo
      /\ new.op = req[w].op /\ new.reply = a /\ new.restoring = FALSE
  BY <1>1 DEF RequestStates
<1> HIDE DEF new
<1>6. req'[w] = new /\ \A v \in Workers \ {w} : req'[v] = req[v]
  BY <1>3 DEF ControlOK, ReqOK
<1>7. WorkerOK(w)'
  BY <1>5, <1>6 DEF WorkerOK, ApplySteps, RemoveSteps
<1>8. \A n \in Names : new.name = n \/ new.todo[n] # None => Touches(w, n)
  BY <1>5, NoneApart DEF Touches
<1>9. QED
  BY <1>3, <1>4, <1>5, <1>6, <1>7, <1>8, OneMoves, OneReleases DEF ControlOK

\* The work on an instance is over, and the worker's hand is empty.
LEMMA FinishKeeps ==
  ASSUME ControlOK, NEW w \in Workers, NEW a \in Replies, Finish(w, a)
  PROVE  /\ ControlOK' /\ NothingGrabbed
         /\ \A v \in Workers \ {w} : req'[v] = req[v]
         /\ req'[w].pc \in {"idle", "next"} /\ req'[w].name = None
         /\ req'[w].todo = req[w].todo \/ req'[w].todo = NoTodo
         /\ req'[w].reply = a /\ ~req'[w].restoring
<1>1. CASE Advance(w, a)
  BY <1>1, AdvanceKeeps
<1>2. CASE Respond(w, a)
  <2>1. /\ ControlOK' /\ NothingGrabbed
        /\ req' = [req EXCEPT ![w] = [Idle EXCEPT !.reply = a]]
    BY <1>2, RespondKeeps
  <2> DEFINE new == [Idle EXCEPT !.reply = a]
  <2>2. /\ new.pc = "idle" /\ new.name = None /\ new.todo = NoTodo /\ new.reply = a
        /\ new.restoring = FALSE
    BY DEF Idle
  <2> HIDE DEF new
  <2>3. req'[w] = new /\ \A v \in Workers \ {w} : req'[v] = req[v]
    BY <2>1 DEF ControlOK, ReqOK, new
  <2>4. QED
    BY <2>1, <2>2, <2>3
<1>3. QED
  BY <1>1, <1>2 DEF Finish

LEMMA RestoreKeeps ==
  ASSUME ControlOK, NEW w \in Workers, Restore(w), Updating(w),
         req[w].pc \in ApplySteps
  PROVE  /\ ControlOK' /\ NothingGrabbed
         /\ \A v \in Workers \ {w} : req'[v] = req[v]
         /\ req'[w] = [req[w] EXCEPT !.pc = "put", !.want = req[w].old,
                                     !.restoring = TRUE]
<1> DEFINE new == [req[w] EXCEPT !.pc = "put", !.want = req[w].old, !.restoring = TRUE]
<1>1. req[w] \in RequestStates /\ WorkerOK(w)
  BY DEF ControlOK, ReqOK
<1>2. new \in RequestStates
  BY <1>1 DEF RequestStates, Labels
<1>3. req' = [req EXCEPT ![w] = new]
  BY DEF Restore
<1>4. /\ new.pc = "put" /\ new.want = req[w].old /\ new.name = req[w].name
      /\ new.op = req[w].op /\ new.old = req[w].old /\ new.todo = req[w].todo
  BY <1>1 DEF RequestStates
<1>5. req'[w] = new /\ \A v \in Workers \ {w} : req'[v] = req[v]
  BY <1>3 DEF ControlOK, ReqOK
<1> HIDE DEF new
<1>6. WorkerOK(w)'
  BY <1>1, <1>4, <1>5 DEF WorkerOK, ApplySteps, RemoveSteps, Updating
<1>7. \A n \in Names : new.name = n \/ new.todo[n] # None => Touches(w, n)
  BY <1>4 DEF Touches
<1>8. QED
  BY <1>2, <1>3, <1>5, <1>6, <1>7, OneMoves, OneReleases DEF ControlOK, new

\* An exception either starts the rollback of an update or ends the work.
LEMMA RaiseKeeps ==
  ASSUME ControlOK, NEW w \in Workers, Raise(w),
         req[w].pc \in ApplySteps \cup RemoveSteps
  PROVE  /\ ControlOK' /\ NothingGrabbed
         /\ \A v \in Workers \ {w} : req'[v] = req[v]
         /\ \/ /\ Updating(w)
               /\ req'[w] = [req[w] EXCEPT !.pc = "put", !.want = req[w].old,
                                           !.restoring = TRUE]
            \/ /\ ~Updating(w)
               /\ req'[w].pc \in {"idle", "next"} /\ req'[w].name = None
               /\ req'[w].todo = req[w].todo \/ req'[w].todo = NoTodo
               /\ req'[w].reply = "error" /\ ~req'[w].restoring
<1>1. WorkerOK(w)
  BY DEF ControlOK
<1>2. CASE Updating(w) /\ Restore(w)
  <2>1. req[w].pc \in ApplySteps
    BY <1>1, <1>2 DEF WorkerOK, Updating
  <2>2. QED
    BY <1>2, <2>1, RestoreKeeps
<1>3. CASE ~Updating(w) /\ Finish(w, "error")
  BY <1>3, FinishKeeps DEF Replies
<1>4. QED
  BY <1>2, <1>3 DEF Raise

\* A request begins with a well-formed hand.
LEMMA BeginKeeps ==
  ASSUME ControlOK, NEW w \in Workers, NEW o \in RequestKinds, NEW n \in Names,
         NEW r \in Records \cup {None}, NEW l \in {"put", "prev", "get"},
         record[n] \in Records \cup {None}, Begin(w, o, n, r, l),
         l = "get" <=> o = "delete",
         l = "prev" <=> o = "update",
         l # "get" => r \in Records,
         l = "prev" => record[n] \in Records,
         o # "updateAll"
  PROVE  /\ ControlOK'
         /\ req' = [req EXCEPT ![w] = [Idle EXCEPT !.pc = l, !.op = o, !.name = n,
                                                   !.want = r, !.old = record[n]]]
<1> DEFINE new == [Idle EXCEPT !.pc = l, !.op = o, !.name = n, !.want = r,
                               !.old = record[n]]
<1>1. new \in RequestStates
  BY IdleType DEF RequestStates, Labels
<1>2. req' = [req EXCEPT ![w] = new]
  BY DEF Begin
<1>3. /\ new.pc = l /\ new.op = o /\ new.name = n /\ new.want = r
      /\ new.old = record[n] /\ new.restoring = FALSE
  BY DEF Idle
<1>4. req'[w] = new
  BY <1>2 DEF ControlOK, ReqOK
<1> HIDE DEF new
<1>5. WorkerOK(w)'
  BY <1>3, <1>4 DEF WorkerOK, ApplySteps, RemoveSteps, Updating
<1>6. QED
  BY <1>1, <1>2, <1>5, OneMoves DEF new

\* A batch takes the next instance in hand.
LEMMA TakeKeeps ==
  ASSUME ControlOK, NEW w \in Workers, NEW n \in Names, NEW r \in Records,
         NEW l \in {"prev", "render"}, Take(w, n, r, l),
         record[n] \in Records \cup {None},
         req[w].pc = "next", req[w].op \in {"reconcile", "updateAll"},
         l = "prev" <=> req[w].op = "updateAll",
         l = "prev" => record[n] \in Records /\ ~req[w].restoring
  PROVE  /\ ControlOK'
         /\ req' = [req EXCEPT ![w] = [req[w] EXCEPT !.pc = l, !.name = n, !.want = r,
                                          !.old = record[n],
                                          !.todo = [req[w].todo EXCEPT ![n] = None]]]
<1> DEFINE new == [req[w] EXCEPT !.pc = l, !.name = n, !.want = r, !.old = record[n],
                                 !.todo = [req[w].todo EXCEPT ![n] = None]]
<1>1. req[w] \in RequestStates /\ WorkerOK(w)
  BY DEF ControlOK, ReqOK
<1>2. [req[w].todo EXCEPT ![n] = None] \in [Names -> Records \cup {None}]
  BY <1>1 DEF RequestStates
<1>3. new \in RequestStates
  BY <1>1, <1>2 DEF RequestStates, Labels
<1>4. req' = [req EXCEPT ![w] = new]
  BY <1>1 DEF Take, RequestStates
<1>5. /\ new.pc = l /\ new.op = req[w].op /\ new.name = n /\ new.want = r
      /\ new.old = record[n] /\ new.restoring = req[w].restoring
  BY <1>1 DEF RequestStates
<1>6. req'[w] = new
  BY <1>4 DEF ControlOK, ReqOK
<1> HIDE DEF new
<1>7. WorkerOK(w)'
  BY <1>5, <1>6 DEF WorkerOK, ApplySteps, RemoveSteps, Updating
<1>8. QED
  BY <1>3, <1>4, <1>7, OneMoves DEF new

-----------------------------------------------------------------------------
(* Requests keep the type invariant.                                       *)

LEMMA CreateInstanceType ==
  ASSUME TypeInv, NEW w \in Workers, NEW n \in Names, NEW r \in Valid,
         CreateInstance(w, n, r)
  PROVE  TypeInv'
<1>1. ControlOK'
  BY BeginKeeps, ValidRecords DEF TypeInv, StateOK, CreateInstance, RequestKinds
<1>2. StateOK'
  BY ValidRecords DEF TypeInv, StateOK, CreateInstance, PinLdapCa, ledger, engine, budget
<1>3. QED
  BY <1>1, <1>2 DEF TypeInv

LEMMA PatchInstanceType ==
  ASSUME TypeInv, NEW w \in Workers, NEW n \in Names, NEW r \in Valid,
         PatchInstance(w, n, r)
  PROVE  TypeInv'
<1>1. ControlOK'
  BY BeginKeeps, ValidRecords DEF TypeInv, StateOK, PatchInstance, RequestKinds
<1>2. StateOK'
  BY DEF TypeInv, StateOK, PatchInstance, ledger, engine, outside, budget
<1>3. QED
  BY <1>1, <1>2 DEF TypeInv

LEMMA SetLdapCaType ==
  ASSUME TypeInv, NEW w \in Workers, NEW n \in Names, NEW c \in Cfgs,
         SetLdapCa(w, n, c)
  PROVE  TypeInv'
<1>1. [record[n] EXCEPT !.cfg = c] \in Records
  BY ReadableRecord DEF TypeInv, SetLdapCa, Records
<1>2. ControlOK'
  BY <1>1, BeginKeeps DEF TypeInv, StateOK, SetLdapCa, RequestKinds
<1>3. StateOK'
  BY DEF TypeInv, StateOK, SetLdapCa, PinLdapCa, ledger, engine, budget
<1>4. QED
  BY <1>2, <1>3 DEF TypeInv

LEMMA UpdateInstanceType ==
  ASSUME TypeInv, NEW w \in Workers, NEW n \in Names, NEW i \in Images,
         UpdateInstance(w, n, i)
  PROVE  TypeInv'
<1>1. record[n] \in Records
  BY ReadableRecord DEF TypeInv, UpdateInstance
<1>2. [record[n] EXCEPT !.image = i] \in Records
  BY <1>1 DEF Records
<1>3. ControlOK'
  BY <1>1, <1>2, BeginKeeps DEF TypeInv, UpdateInstance, RequestKinds
<1>4. StateOK'
  BY DEF TypeInv, StateOK, UpdateInstance, ledger, engine, outside, budget
<1>5. QED
  BY <1>3, <1>4 DEF TypeInv

LEMMA RollbackInstanceType ==
  ASSUME TypeInv, NEW w \in Workers, NEW n \in Names, RollbackInstance(w, n)
  PROVE  TypeInv'
<1>1. record[n] \in Records /\ prev[n] \in Images \cup {Torn}
  BY ReadableRecord DEF TypeInv, StateOK, RollbackInstance
<1>2. [record[n] EXCEPT !.image = prev[n]] \in Records
  BY <1>1 DEF Records
<1>3. ControlOK'
  BY <1>1, <1>2, BeginKeeps DEF TypeInv, RollbackInstance, RequestKinds
<1>4. StateOK'
  BY DEF TypeInv, StateOK, RollbackInstance, ledger, engine, outside, budget
<1>5. QED
  BY <1>3, <1>4 DEF TypeInv

LEMMA DeleteInstanceType ==
  ASSUME TypeInv, NEW w \in Workers, NEW n \in Names, DeleteInstance(w, n)
  PROVE  TypeInv'
<1>1. record[n] \in Records
  BY ReadableRecord DEF TypeInv, DeleteInstance
<1>2. ControlOK'
  BY <1>1, BeginKeeps DEF TypeInv, DeleteInstance, RequestKinds
<1>3. StateOK'
  BY DEF TypeInv, StateOK, DeleteInstance, ledger, engine, outside, budget
<1>4. QED
  BY <1>2, <1>3 DEF TypeInv

LEMMA BeginBatchType ==
  ASSUME TypeInv, NEW w \in Workers, NEW o \in {"reconcile", "updateAll"},
         BeginBatch(w, o)
  PROVE  /\ TypeInv'
         /\ req' = [req EXCEPT ![w] =
                      [Idle EXCEPT !.pc = "next", !.op = o, !.todo = Listed]]
<1> DEFINE new == [Idle EXCEPT !.pc = "next", !.op = o, !.todo = Listed]
<1>1. new \in RequestStates
  <2>1. Listed \in [Names -> Records \cup {None}] /\ o \in RequestKinds
    BY ReadableRecord DEF TypeInv, Listed, RequestKinds
  <2>2. QED
    BY <2>1, IdleType, ZenonT(60) DEF RequestStates, Labels
<1>2. req' = [req EXCEPT ![w] = new]
  BY DEF BeginBatch
<1>3. new.pc = "next" /\ new.name = None /\ new.restoring = FALSE
  BY DEF Idle
<1>4. req'[w] = new
  BY <1>2 DEF TypeInv, ControlOK, ReqOK
<1> HIDE DEF new
<1>5. WorkerOK(w)'
  BY <1>3, <1>4 DEF WorkerOK, ApplySteps, RemoveSteps
<1>6. ControlOK'
  BY <1>1, <1>2, <1>5, OneMoves DEF TypeInv
<1>7. StateOK'
  BY DEF TypeInv, StateOK, BeginBatch, ledger, engine, outside, budget
<1>8. QED
  BY <1>2, <1>6, <1>7 DEF TypeInv, new

LEMMA RequestType ==
  ASSUME TypeInv, NEW w \in Workers, Request(w)
  PROVE  TypeInv'
BY CreateInstanceType, PatchInstanceType, SetLdapCaType, UpdateInstanceType,
   RollbackInstanceType, DeleteInstanceType, BeginBatchType
   DEF Request, Reconcile, UpdateAll

-----------------------------------------------------------------------------
(* So do the steps of a request.                                           *)

LEMMA NextReconcileType ==
  ASSUME TypeInv, NEW w \in Workers, NEW n \in Names, NextReconcile(w, n)
  PROVE  TypeInv'
<1>1. req[w].todo[n] \in Records /\ record[n] \in Records \cup {None}
  BY DEF TypeInv, StateOK, ControlOK, ReqOK, RequestStates, NextReconcile
<1>2. ControlOK'
  BY <1>1, TakeKeeps DEF TypeInv, NextReconcile
<1>3. StateOK'
  BY DEF TypeInv, StateOK, NextReconcile, ledger, engine, outside, budget
<1>4. QED
  BY <1>2, <1>3 DEF TypeInv

\* Striking an instance off the list.
LEMMA StrikeKeeps ==
  ASSUME ControlOK, NEW w \in Workers, NEW n \in Names, NEW still \in BOOLEAN,
         req[w].pc = "next",
         req' = [req EXCEPT ![w] = [req[w] EXCEPT !.clean = still,
                                       !.todo = [req[w].todo EXCEPT ![n] = None]]]
  PROVE  ControlOK' /\ NothingGrabbed
<1> DEFINE new == [req[w] EXCEPT !.clean = still,
                                 !.todo = [req[w].todo EXCEPT ![n] = None]]
<1>1. req[w] \in RequestStates /\ WorkerOK(w)
  BY DEF ControlOK, ReqOK
<1>2. [req[w].todo EXCEPT ![n] = None] \in [Names -> Records \cup {None}]
  BY <1>1 DEF RequestStates
<1>3. new \in RequestStates
  BY <1>1, <1>2 DEF RequestStates
<1>4. /\ new.pc = "next" /\ new.name = req[w].name /\ new.restoring = req[w].restoring
      /\ new.todo = [req[w].todo EXCEPT ![n] = None]
  BY <1>1 DEF RequestStates
<1>5. req'[w] = new
  BY DEF ControlOK, ReqOK
<1> HIDE DEF new
<1>6. WorkerOK(w)'
  BY <1>1, <1>4, <1>5 DEF WorkerOK, ApplySteps, RemoveSteps
<1>7. \A m \in Names : new.name = m \/ new.todo[m] # None => Touches(w, m)
  BY <1>1, <1>4 DEF Touches, RequestStates
<1>8. QED
  BY <1>3, <1>6, <1>7, OneMoves, OneReleases DEF ControlOK, new

LEMMA NextUpdateReq ==
  ASSUME TypeInv, NEW w \in Workers, NEW n \in Names, NextUpdate(w, n)
  PROVE  \/ /\ record[n] \in Records
            /\ [record[n] EXCEPT !.image = DefaultImage] \in Records
            /\ Take(w, n, [record[n] EXCEPT !.image = DefaultImage], "prev")
         \/ \E still \in BOOLEAN :
              req' = [req EXCEPT ![w] = [req[w] EXCEPT !.clean = still,
                                            !.todo = [req[w].todo EXCEPT ![n] = None]]]
<1>1. req[w] \in RequestStates /\ req \in [Workers -> RequestStates]
  BY DEF TypeInv, ControlOK, ReqOK
<1>2. Readable(n) => record[n] \in Records
  BY ReadableRecord DEF TypeInv
<1>3. CASE Readable(n) /\ Take(w, n, [record[n] EXCEPT !.image = DefaultImage], "prev")
  BY <1>2, <1>3, ConstantsOK DEF ConstantsOK, Records
<1>4. CASE req' = [req EXCEPT ![w].todo[n] = None, ![w].clean = FALSE]
  <2>1. req' = [req EXCEPT ![w] = [req[w] EXCEPT !.clean = FALSE,
                                      !.todo = [req[w].todo EXCEPT ![n] = None]]]
    BY <1>1, <1>4 DEF RequestStates
  <2>2. QED
    BY <2>1
<1>5. CASE req' = [req EXCEPT ![w].todo[n] = None]
  <2>1. req' = [req EXCEPT ![w] = [req[w] EXCEPT !.clean = req[w].clean,
                                      !.todo = [req[w].todo EXCEPT ![n] = None]]]
    BY <1>1, <1>5 DEF RequestStates
  <2>2. req[w].clean \in BOOLEAN
    BY <1>1 DEF RequestStates
  <2>3. QED
    BY <2>1, <2>2
<1>6. QED
  BY <1>3, <1>4, <1>5 DEF NextUpdate

LEMMA NextUpdateType ==
  ASSUME TypeInv, NEW w \in Workers, NEW n \in Names, NextUpdate(w, n)
  PROVE  TypeInv'
<1>1. req[w].pc = "next" /\ req[w].op = "updateAll" /\ ~req[w].restoring
  BY DEF TypeInv, ControlOK, WorkerOK, NextUpdate
<1>2. ControlOK'
  BY <1>1, NextUpdateReq, TakeKeeps, StrikeKeeps DEF TypeInv
<1>3. StateOK'
  BY DEF TypeInv, StateOK, NextUpdate, ledger, engine, outside, budget
<1>4. QED
  BY <1>2, <1>3 DEF TypeInv

LEMMA EndBatchType ==
  ASSUME TypeInv, NEW w \in Workers, EndBatch(w)
  PROVE  TypeInv' /\ NothingGrabbed
<1>1. ControlOK' /\ NothingGrabbed
  BY RespondKeeps DEF TypeInv, EndBatch, Replies
<1>2. StateOK'
  BY DEF TypeInv, StateOK, EndBatch, ledger, engine, outside, budget
<1>3. QED
  BY <1>1, <1>2 DEF TypeInv

LEMMA TruncatePrevType ==
  ASSUME TypeInv, NEW w \in Workers, TruncatePrev(w)
  PROVE  TypeInv' /\ NothingGrabbed
<1>1. req[w].name \in Names /\ Updating(w)
  BY DEF TypeInv, ControlOK, WorkerOK, TruncatePrev, ApplySteps
<1>2. ControlOK' /\ NothingGrabbed
  BY <1>1, GotoKeeps DEF TypeInv, TruncatePrev, ApplySteps, Labels
<1>3. StateOK'
  BY <1>1 DEF TypeInv, StateOK, TruncatePrev, engine, outside, budget
<1>4. QED
  BY <1>2, <1>3 DEF TypeInv

LEMMA WritePrevType ==
  ASSUME TypeInv, NEW w \in Workers, WritePrev(w)
  PROVE  TypeInv' /\ NothingGrabbed
<1>1. req[w].name \in Names /\ req[w].old \in Records
  BY DEF TypeInv, ControlOK, WorkerOK, WritePrev, ApplySteps, Updating
<1>2. ControlOK' /\ NothingGrabbed
  BY GotoKeeps DEF TypeInv, WritePrev, ApplySteps, Labels
<1>3. StateOK'
  BY <1>1 DEF TypeInv, StateOK, WritePrev, Records, engine, outside, budget
<1>4. QED
  BY <1>2, <1>3 DEF TypeInv

LEMMA TruncateType ==
  ASSUME TypeInv, NEW w \in Workers, Truncate(w)
  PROVE  TypeInv' /\ NothingGrabbed
<1>1. req[w].name \in Names /\ [req[w].want EXCEPT !.image = Torn] \in Records
  BY DEF TypeInv, ControlOK, WorkerOK, Truncate, ApplySteps, Records
<1>2. ControlOK' /\ NothingGrabbed
  BY GotoKeeps DEF TypeInv, Truncate, ApplySteps, Labels
<1>3. StateOK'
  BY <1>1 DEF TypeInv, StateOK, Truncate, engine, outside, budget
<1>4. QED
  BY <1>2, <1>3 DEF TypeInv

LEMMA PutType ==
  ASSUME TypeInv, NEW w \in Workers, Put(w)
  PROVE  TypeInv' /\ NothingGrabbed
<1>1. req[w].name \in Names /\ req[w].want \in Records /\ req[w].pc \in ApplySteps
  BY DEF TypeInv, ControlOK, WorkerOK, Put, ApplySteps
<1>2. ControlOK' /\ NothingGrabbed
  BY <1>1, GotoKeeps, RaiseKeeps DEF TypeInv, Put, ApplySteps, Labels
<1>3. StateOK'
  BY <1>1 DEF TypeInv, StateOK, Put, Fault, engine, outside, budget
<1>4. QED
  BY <1>2, <1>3 DEF TypeInv

LEMMA RenderType ==
  ASSUME TypeInv, NEW w \in Workers, Render(w)
  PROVE  TypeInv' /\ NothingGrabbed
<1>1. req[w].name \in Names /\ req[w].want \in Records /\ req[w].pc \in ApplySteps
  BY DEF TypeInv, ControlOK, WorkerOK, Render, ApplySteps
<1>2. ControlOK' /\ NothingGrabbed
  BY <1>1, GotoKeeps, RaiseKeeps DEF TypeInv, Render, ApplySteps, Labels
<1>3. StateOK'
  BY <1>1 DEF TypeInv, StateOK, Render, Records, ledger, outside, budget
<1>4. QED
  BY <1>2, <1>3 DEF TypeInv

LEMMA RenderPolicyType ==
  ASSUME TypeInv, NEW w \in Workers, RenderPolicy(w)
  PROVE  TypeInv' /\ NothingGrabbed
<1>1. req[w].name \in Names /\ req[w].want \in Records /\ req[w].pc \in ApplySteps
  BY DEF TypeInv, ControlOK, WorkerOK, RenderPolicy, ApplySteps
<1>2. ControlOK' /\ NothingGrabbed
  BY <1>1, GotoKeeps, RaiseKeeps DEF TypeInv, RenderPolicy, ApplySteps, Labels
<1>3. StateOK'
  BY <1>1 DEF TypeInv, StateOK, RenderPolicy, Fault, Records, ledger, outside, budget
<1>4. QED
  BY <1>2, <1>3 DEF TypeInv

LEMMA RemoveOldType ==
  ASSUME TypeInv, NEW w \in Workers, RemoveOld(w)
  PROVE  TypeInv' /\ NothingGrabbed
<1>1. req[w].name \in Names /\ req[w].pc \in ApplySteps
  BY DEF TypeInv, ControlOK, WorkerOK, RemoveOld, ApplySteps
<1>2. ControlOK' /\ NothingGrabbed
  BY <1>1, GotoKeeps, RaiseKeeps DEF TypeInv, RemoveOld, ApplySteps, Labels
<1>3. StateOK'
  BY <1>1 DEF TypeInv, StateOK, RemoveOld, Fault, ledger, outside, budget
<1>4. QED
  BY <1>2, <1>3 DEF TypeInv

LEMMA CreateContainerType ==
  ASSUME TypeInv, NEW w \in Workers, CreateContainer(w)
  PROVE  TypeInv' /\ NothingGrabbed
<1>1. req[w].name \in Names /\ req[w].want \in Records /\ req[w].pc \in ApplySteps
  BY DEF TypeInv, ControlOK, WorkerOK, CreateContainer, ApplySteps
<1>2. ControlOK' /\ NothingGrabbed
  BY <1>1, GotoKeeps, RaiseKeeps DEF TypeInv, CreateContainer, ApplySteps, Labels
<1>3. [image |-> req[w].want.image, cfg |-> req[w].want.cfg,
       loaded |-> None, maker |-> w, phase |-> "created"] \in Containers
    \/ req[w].want.image \notin LocalImages
  BY <1>1, ConstantsOK DEF Containers, Records, ConstantsOK
<1>4. container' \in [Names -> Containers \cup {None}]
  BY <1>1, <1>3 DEF TypeInv, StateOK, CreateContainer
<1>5. volume' \in [Names -> BOOLEAN] /\ report' \in [Names -> {"none", "told", "lost"}]
  BY <1>1 DEF TypeInv, StateOK, CreateContainer
<1>6. StateOK'
  BY <1>4, <1>5 DEF TypeInv, StateOK, CreateContainer, Fault, ledger, outside, budget
<1>7. QED
  BY <1>2, <1>6 DEF TypeInv

LEMMA StartedType ==
  ASSUME StateOK, NEW n \in Names, container[n] # None
  PROVE  Started(n) \in [Names -> Containers \cup {None}]
<1>1. container[n] \in Containers /\ rendered[n] \in Cfgs \cup {None, Torn}
  BY DEF StateOK
<1>2. [container[n] EXCEPT !.phase = "starting", !.loaded = rendered[n]] \in Containers
  BY <1>1 DEF Containers, Running
<1>3. QED
  BY <1>2 DEF StateOK, Started, Containers

LEMMA LaunchedType ==
  ASSUME StateOK, NEW n \in Names, container[n] # None
  PROVE  [Started(n) EXCEPT ![n].maker = None] \in [Names -> Containers \cup {None}]
<1>1. container[n] \in Containers /\ rendered[n] \in Cfgs \cup {None, Torn}
  BY DEF StateOK
<1> DEFINE new == [container[n] EXCEPT !.phase = "starting", !.loaded = rendered[n],
                                       !.maker = None]
<1>2. new \in Containers
  BY <1>1 DEF Containers, Running
<1>3. [Started(n) EXCEPT ![n].maker = None] = [container EXCEPT ![n] = new]
  BY <1>1 DEF StateOK, Started, Containers
<1> HIDE DEF new
<1>4. QED
  BY <1>2, <1>3 DEF StateOK

LEMMA StartContainerType ==
  ASSUME TypeInv, NEW w \in Workers, StartContainer(w)
  PROVE  TypeInv' /\ NothingGrabbed
<1>1. req[w].name \in Names /\ req[w].pc \in ApplySteps
  BY DEF TypeInv, ControlOK, WorkerOK, StartContainer, ApplySteps
<1>2. ControlOK' /\ NothingGrabbed
  BY <1>1, GotoKeeps, RaiseKeeps DEF TypeInv, StartContainer, ApplySteps, Labels
<1>3. StateOK'
  BY <1>1, LaunchedType
     DEF TypeInv, StateOK, StartContainer, Fault, ledger, outside, budget
<1>4. QED
  BY <1>2, <1>3 DEF TypeInv

LEMMA SettleType ==
  ASSUME TypeInv, NEW w \in Workers, Settle(w)
  PROVE  TypeInv' /\ NothingGrabbed
<1>1. req[w].pc \in ApplySteps
  BY DEF Settle, ApplySteps
<1>2. ControlOK' /\ NothingGrabbed
  BY <1>1, GotoKeeps, FinishKeeps, RaiseKeeps
     DEF TypeInv, Settle, Replies, ApplySteps, Labels
<1>3. StateOK'
  BY DEF TypeInv, StateOK, Settle, Fault, ledger, engine, outside, budget
<1>4. QED
  BY <1>2, <1>3 DEF TypeInv

LEMMA WatchHealthType ==
  ASSUME TypeInv, NEW w \in Workers, WatchHealth(w)
  PROVE  TypeInv' /\ NothingGrabbed
<1>1. req[w].pc \in ApplySteps /\ Updating(w)
  BY DEF WatchHealth, ApplySteps, TypeInv, ControlOK, WorkerOK
<1>2. ControlOK' /\ NothingGrabbed
  BY <1>1, FinishKeeps, RestoreKeeps DEF TypeInv, WatchHealth, Replies
<1>3. StateOK'
  BY DEF TypeInv, StateOK, WatchHealth, Fault, ledger, engine, outside, budget
<1>4. QED
  BY <1>2, <1>3 DEF TypeInv

\* The record is read again, in vain or not, and the removal goes on.
Got(w) ==
  LET found == Listed[req[w].name] IN
  req' = [req EXCEPT ![w] = [req[w] EXCEPT !.want = found,
                               !.pc = IF found = None THEN "rmPrev" ELSE "stop"]]

LEMMA GotKeeps ==
  ASSUME TypeInv, NEW w \in Workers, req[w].pc = "get", Got(w)
  PROVE  ControlOK' /\ NothingGrabbed
<1> DEFINE found == Listed[req[w].name]
           new   == [req[w] EXCEPT !.want = found,
                                   !.pc = IF found = None THEN "rmPrev" ELSE "stop"]
<1>1. req[w] \in RequestStates /\ WorkerOK(w)
  BY DEF TypeInv, ControlOK, ReqOK
<1>2. req[w].name \in Names /\ req[w].op = "delete"
  BY <1>1 DEF WorkerOK, RemoveSteps
<1>3. found \in Records \cup {None}
  BY <1>2, ReadableRecord DEF TypeInv
<1>4. req' = [req EXCEPT ![w] = new]
  BY DEF Got
<1> HIDE DEF found
<1>5. new \in RequestStates
  BY <1>1, <1>3 DEF RequestStates, Labels
<1>6. /\ new.name = req[w].name /\ new.op = req[w].op /\ new.want = found
      /\ new.pc = (IF found = None THEN "rmPrev" ELSE "stop") /\ new.todo = req[w].todo
  BY <1>1 DEF RequestStates
<1>7. req'[w] = new
  BY <1>4 DEF TypeInv, ControlOK, ReqOK
<1> HIDE DEF new
<1>8. WorkerOK(w)'
  <2>1. CASE found = None
    BY <2>1, <1>2, <1>6, <1>7 DEF WorkerOK, ApplySteps, RemoveSteps
  <2>2. CASE found # None
    BY <2>2, <1>2, <1>3, <1>6, <1>7 DEF WorkerOK, ApplySteps, RemoveSteps
  <2>3. QED
    BY <2>1, <2>2
<1>9. \A m \in Names : new.name = m \/ new.todo[m] # None => Touches(w, m)
  BY <1>6 DEF Touches
<1>10. QED
  BY <1>4, <1>5, <1>8, <1>9, OneMoves, OneReleases DEF TypeInv, ControlOK

LEMMA GetForRemovalType ==
  ASSUME TypeInv, NEW w \in Workers, GetForRemoval(w)
  PROVE  /\ TypeInv' /\ NothingGrabbed
         /\ Got(w) \/ Raise(w)
<1>1. Got(w) \/ Raise(w)
  BY DEF Got, GetForRemoval, TypeInv, ControlOK, ReqOK, RequestStates
<1>2. req[w].pc = "get" /\ req[w].pc \in RemoveSteps
  BY DEF GetForRemoval, RemoveSteps
<1>3. ControlOK' /\ NothingGrabbed
  BY <1>1, <1>2, GotKeeps, RaiseKeeps DEF TypeInv
<1>4. StateOK'
  BY DEF TypeInv, StateOK, GetForRemoval, ledger, engine, outside, budget
<1>5. QED
  BY <1>1, <1>3, <1>4 DEF TypeInv

LEMMA StopForLeaveType ==
  ASSUME TypeInv, NEW w \in Workers, StopForLeave(w)
  PROVE  TypeInv' /\ NothingGrabbed
<1>1. req[w].name \in Names /\ req[w].pc \in RemoveSteps
  BY DEF TypeInv, ControlOK, WorkerOK, StopForLeave, RemoveSteps
<1>2. ControlOK' /\ NothingGrabbed
  BY <1>1, GotoKeeps, RaiseKeeps DEF TypeInv, StopForLeave, RemoveSteps, Labels
<1>3. container[req[w].name] # None =>
        [container[req[w].name] EXCEPT !.phase = "stopped"] \in Containers
  BY <1>1 DEF TypeInv, StateOK, Containers
<1>4. container' \in [Names -> Containers \cup {None}]
  BY <1>1, <1>3 DEF TypeInv, StateOK, StopForLeave
<1>5. StateOK'
  BY <1>4 DEF TypeInv, StateOK, StopForLeave, Fault, ledger, outside, budget
<1>6. QED
  BY <1>2, <1>5 DEF TypeInv

LEMMA SetLeaveKeeps ==
  ASSUME ControlOK, NEW w \in Workers, req[w].pc = "leave",
         NEW l \in {"neverJoined", "notAttempted", "left", "failed"}, SetLeave(w, l)
  PROVE  /\ ControlOK' /\ NothingGrabbed
         /\ \A v \in Workers \ {w} : req'[v] = req[v]
         /\ req'[w] = [req[w] EXCEPT !.leave = l, !.pc = "rmContainer"]
<1>1. req[w] \in RequestStates /\ WorkerOK(w)
  BY DEF ControlOK, ReqOK
<1>2. req[w].name \in Names /\ req[w].op = "delete"
  BY <1>1 DEF WorkerOK, RemoveSteps
<1> DEFINE new == [req[w] EXCEPT !.leave = l, !.pc = "rmContainer"]
<1>3. new \in RequestStates
  BY <1>1 DEF RequestStates, Labels
<1>4. req' = [req EXCEPT ![w] = new]
  BY DEF SetLeave
<1>5. /\ new.name = req[w].name /\ new.op = req[w].op /\ new.todo = req[w].todo
      /\ new.pc = "rmContainer"
  BY <1>1 DEF RequestStates
<1>6. req'[w] = new /\ \A v \in Workers \ {w} : req'[v] = req[v]
  BY <1>4 DEF ControlOK, ReqOK
<1> HIDE DEF new
<1>7. WorkerOK(w)'
  BY <1>2, <1>5, <1>6 DEF WorkerOK, ApplySteps, RemoveSteps
<1>8. \A m \in Names : new.name = m \/ new.todo[m] # None => Touches(w, m)
  BY <1>5 DEF Touches
<1>9. QED
  BY <1>3, <1>4, <1>6, <1>7, <1>8, OneMoves, OneReleases, ZenonT(60) DEF ControlOK, new

LEMMA LeaveDomainType ==
  ASSUME TypeInv, NEW w \in Workers, LeaveDomain(w)
  PROVE  TypeInv' /\ NothingGrabbed
<1>1. req[w].name \in Names /\ req[w].pc = "leave" /\ req[w].pc \in RemoveSteps
  BY DEF TypeInv, ControlOK, WorkerOK, LeaveDomain, RemoveSteps
<1>2. \/ \E l \in {"neverJoined", "notAttempted", "left", "failed"} : SetLeave(w, l)
      \/ Raise(w)
  BY Zenon DEF LeaveDomain
<1>3. ControlOK' /\ NothingGrabbed
  BY <1>1, <1>2, SetLeaveKeeps, RaiseKeeps DEF TypeInv
<1>4. account' \in [Names -> BOOLEAN]
  BY <1>1 DEF TypeInv, StateOK, LeaveDomain
<1>5. faults' \in Nat /\ crashes' \in Nat
  <2>1. (\E k : Fault(k)) \/ UNCHANGED budget
    BY Zenon DEF LeaveDomain
  <2>2. QED
    BY <2>1 DEF TypeInv, StateOK, Fault, budget
<1>6. StateOK'
  BY <1>4, <1>5 DEF TypeInv, StateOK, LeaveDomain, ledger, engine
<1>7. QED
  BY <1>3, <1>6 DEF TypeInv

LEMMA RemoveContainerType ==
  ASSUME TypeInv, NEW w \in Workers, RemoveContainer(w)
  PROVE  TypeInv' /\ NothingGrabbed
<1>1. req[w].name \in Names /\ req[w].pc \in RemoveSteps
  BY DEF TypeInv, ControlOK, WorkerOK, RemoveContainer, RemoveSteps
<1>2. ControlOK' /\ NothingGrabbed
  BY <1>1, GotoKeeps, RaiseKeeps DEF TypeInv, RemoveContainer, RemoveSteps, Labels
<1>3. StateOK'
  BY <1>1 DEF TypeInv, StateOK, RemoveContainer, Fault, ledger, outside, budget
<1>4. QED
  BY <1>2, <1>3 DEF TypeInv

LEMMA RemoveVolumeType ==
  ASSUME TypeInv, NEW w \in Workers, RemoveVolume(w)
  PROVE  TypeInv' /\ NothingGrabbed
<1>1. req[w].name \in Names /\ req[w].pc \in RemoveSteps
  BY DEF TypeInv, ControlOK, WorkerOK, RemoveVolume, RemoveSteps
<1>2. ControlOK' /\ NothingGrabbed
  BY <1>1, GotoKeeps, RaiseKeeps DEF TypeInv, RemoveVolume, RemoveSteps, Labels
<1>3. volume' \in [Names -> BOOLEAN]
  BY <1>1 DEF TypeInv, StateOK, RemoveVolume
<1>4. StateOK'
  BY <1>3 DEF TypeInv, StateOK, RemoveVolume, Fault, ledger, outside, budget
<1>5. QED
  BY <1>2, <1>4 DEF TypeInv

LEMMA RemoveRenderedType ==
  ASSUME TypeInv, NEW w \in Workers, RemoveRendered(w)
  PROVE  TypeInv' /\ NothingGrabbed
<1>1. req[w].name \in Names /\ req[w].pc \in RemoveSteps
  BY DEF TypeInv, ControlOK, WorkerOK, RemoveRendered, RemoveSteps
<1>2. ControlOK' /\ NothingGrabbed
  BY <1>1, GotoKeeps DEF TypeInv, RemoveRendered, RemoveSteps, Labels
<1>3. StateOK'
  BY <1>1 DEF TypeInv, StateOK, RemoveRendered, ledger, outside, budget
<1>4. QED
  BY <1>2, <1>3 DEF TypeInv

LEMMA RemovePrevType ==
  ASSUME TypeInv, NEW w \in Workers, RemovePrev(w)
  PROVE  TypeInv' /\ NothingGrabbed
<1>1. req[w].name \in Names /\ req[w].pc \in RemoveSteps
  BY DEF TypeInv, ControlOK, WorkerOK, RemovePrev, RemoveSteps
<1>2. ControlOK' /\ NothingGrabbed
  BY <1>1, GotoKeeps DEF TypeInv, RemovePrev, RemoveSteps, Labels
<1>3. StateOK'
  BY <1>1 DEF TypeInv, StateOK, RemovePrev, engine, outside, budget
<1>4. QED
  BY <1>2, <1>3 DEF TypeInv

LEMMA RemoveRecordType ==
  ASSUME TypeInv, NEW w \in Workers, RemoveRecord(w)
  PROVE  TypeInv' /\ NothingGrabbed
<1>1. req[w].name \in Names /\ req[w].pc \in RemoveSteps
  BY DEF TypeInv, ControlOK, WorkerOK, RemoveRecord, RemoveSteps
<1>2. ControlOK' /\ NothingGrabbed
  BY <1>1, FinishKeeps, RaiseKeeps DEF TypeInv, RemoveRecord, Replies
<1>3. report' \in [Names -> {"none", "told", "lost"}]
  <2>1. \E r \in {"none", "told", "lost"} :
          report' = IF LeftBehind(w) THEN [report EXCEPT ![req[w].name] = r] ELSE report
    BY Zenon DEF RemoveRecord
  <2>2. QED
    BY <1>1, <2>1 DEF TypeInv, StateOK
<1>4. record' \in [Names -> Records \cup {None}]
  BY <1>1 DEF TypeInv, StateOK, RemoveRecord
<1>5. faults' \in Nat /\ crashes' \in Nat
  <2>1. Fault("git") \/ UNCHANGED budget
    BY Zenon DEF RemoveRecord
  <2>2. QED
    BY <2>1 DEF TypeInv, StateOK, Fault, budget
<1>6. StateOK'
  BY <1>3, <1>4, <1>5 DEF TypeInv, StateOK, RemoveRecord, engine, outside
<1>7. QED
  BY <1>2, <1>6 DEF TypeInv

LEMMA WorkerStepType ==
  ASSUME TypeInv, NEW w \in Workers, WorkerStep(w)
  PROVE  TypeInv'
BY NextReconcileType, NextUpdateType, EndBatchType, TruncatePrevType, WritePrevType,
   TruncateType, PutType, RenderType, RenderPolicyType, RemoveOldType, CreateContainerType, StartContainerType, SettleType,
   WatchHealthType, GetForRemovalType, StopForLeaveType, LeaveDomainType, RemoveContainerType,
   RemoveVolumeType, RemoveRenderedType, RemovePrevType, RemoveRecordType
   DEF WorkerStep

-----------------------------------------------------------------------------
(* So does everything that happens outside the requests.                   *)

LEMMA ReqUnchanged ==
  ASSUME ControlOK, req' = req
  PROVE  ControlOK' /\ NothingGrabbed
BY DEF ControlOK, ReqOK, WorkerOK, Updating, NothingGrabbed, Touches

LEMMA LifecycleType ==
  ASSUME TypeInv, NEW n \in Names, Lifecycle(n)
  PROVE  TypeInv' /\ NothingGrabbed
<1>1. req' = req
  BY DEF Lifecycle, StartInstance, StopInstance, RestartInstance
<1>2. container[n] # None =>
        [container[n] EXCEPT !.phase = "stopped"] \in Containers
  BY DEF TypeInv, StateOK, Containers
<1>3. container' \in [Names -> Containers \cup {None}]
  BY <1>2, StartedType
     DEF TypeInv, StateOK, Lifecycle, StartInstance, StopInstance, RestartInstance
<1>4. StateOK'
  BY <1>3 DEF TypeInv, StateOK, Lifecycle, StartInstance, StopInstance,
              RestartInstance, ledger, outside, budget
<1>5. QED
  BY <1>1, <1>4, ReqUnchanged DEF TypeInv

LEMMA PhaseType ==
  ASSUME StateOK, NEW n \in Names, container[n] # None,
         NEW p \in {"healthy", "unhealthy"},
         container' = [container EXCEPT ![n].phase = p]
  PROVE  container' \in [Names -> Containers \cup {None}]
<1>1. container[n] \in Containers
  BY DEF StateOK
<1>2. [container[n] EXCEPT !.phase = p] \in Containers
  BY <1>1 DEF Containers, Running
<1>3. QED
  BY <1>2 DEF StateOK

LEMMA EnvironmentType ==
  ASSUME TypeInv, NEW n \in Names, Environment(n)
  PROVE  TypeInv' /\ NothingGrabbed
<1>1. req' = req
  BY DEF Environment, BecomeHealthy, BecomeUnhealthy, CrashRestart, Join, ProvideFiles
<1>2. CASE BecomeHealthy(n) \/ BecomeUnhealthy(n) \/ CrashRestart(n)
  <2>1. container' \in [Names -> Containers \cup {None}]
    BY <1>2, PhaseType, StartedType
       DEF TypeInv, BecomeHealthy, BecomeUnhealthy, CrashRestart
  <2>2. StateOK'
    BY <1>2, <2>1 DEF TypeInv, StateOK, BecomeHealthy, BecomeUnhealthy,
                      CrashRestart, ledger, outside, budget
  <2>3. QED
    BY <1>1, <2>2, ReqUnchanged DEF TypeInv
<1>3. CASE Join(n)
  <2>1. account' \in [Names -> BOOLEAN]
    BY <1>3 DEF TypeInv, StateOK, Join
  <2>2. StateOK'
    BY <1>3, <2>1 DEF TypeInv, StateOK, Join, ledger, engine, budget
  <2>3. QED
    BY <1>1, <2>2, ReqUnchanged DEF TypeInv
<1>4. CASE \E c \in Cfgs : ProvideFiles(n, c)
  <2>1. StateOK'
    BY <1>4 DEF TypeInv, StateOK, ProvideFiles, ledger, engine, budget
  <2>2. QED
    BY <1>1, <2>1, ReqUnchanged DEF TypeInv
<1>5. QED
  BY <1>2, <1>3, <1>4 DEF Environment

LEMMA CrashType ==
  ASSUME TypeInv, Crash
  PROVE  TypeInv' /\ NothingGrabbed
<1>1. ReqOK' /\ \A w \in Workers : req'[w] = Idle
  BY IdleType DEF Crash, ReqOK
<1>2. Idle.pc = "idle" /\ Idle.name = None /\ Idle.todo = NoTodo
  BY DEF Idle
<1>3. \A w \in Workers : WorkerOK(w)'
  BY <1>1, <1>2 DEF WorkerOK, ApplySteps, RemoveSteps
<1>4. NothingGrabbed
  BY <1>1, <1>2, NoneApart DEF NothingGrabbed, Touches, NoTodo
<1>5. report' \in [Names -> {"none", "told", "lost"}]
  BY Zenon DEF TypeInv, StateOK, Crash
<1>6. StateOK'
  BY <1>5 DEF TypeInv, StateOK, Crash, ledger, engine, outside
<1>7. QED
  BY <1>1, <1>3, <1>4, <1>6 DEF TypeInv, ControlOK

LEMMA TypeInvInit == Init => TypeInv
<1>1. Init => ControlOK
  BY IdleType DEF Init, ControlOK, ReqOK, WorkerOK, Idle, ApplySteps, RemoveSteps
<1>2. Init => StateOK
  BY DEF Init, StateOK
<1>3. QED
  BY <1>1, <1>2 DEF TypeInv

LEMMA TypeInvStep == TypeInv /\ [Next]_vars => TypeInv'
<1> SUFFICES ASSUME TypeInv, [Next]_vars PROVE TypeInv'
  OBVIOUS
<1>1. CASE Next
  BY <1>1, RequestType, WorkerStepType, LifecycleType, EnvironmentType, CrashType
     DEF Next
<1>2. CASE UNCHANGED vars
  <2>1. ControlOK'
    BY <1>2, ReqUnchanged DEF TypeInv, vars
  <2>2. StateOK'
    BY <1>2 DEF TypeInv, StateOK, vars, ledger, engine, outside, budget
  <2>3. QED
    BY <2>1, <2>2 DEF TypeInv
<1>3. QED
  BY <1>1, <1>2

THEOREM TypeInvariant == Spec => []TypeInv
BY TypeInvInit, TypeInvStep, PTL DEF Spec

\* Every variable keeps its type, for any number of instances, requests, images
\* and configurations, and any number of faults and crashes.
THEOREM TypeCorrect == Spec => []TypeOK
<1>1. TypeInv => TypeOK
  BY DEF TypeInv, StateOK, ControlOK, ReqOK, TypeOK
<1>2. QED
  BY <1>1, TypeInvariant, PTL

-----------------------------------------------------------------------------
(* No container without its files, even if requests meet on one instance.  *)

\* A step of a request changes nothing in the hands of the others.
LEMMA OthersSilent ==
  ASSUME TypeInv, NEW v \in Workers, Request(v) \/ WorkerStep(v)
  PROVE  \A w \in Workers \ {v} : req'[w] = req[w]
<1>1. req \in [Workers -> RequestStates]
  BY DEF TypeInv, ControlOK, ReqOK
<1>2. CASE Request(v)
  BY <1>1, <1>2
     DEF Request, CreateInstance, PatchInstance, SetLdapCa, UpdateInstance,
         RollbackInstance, DeleteInstance, Reconcile, UpdateAll, BeginBatch, Begin
<1>3. ASSUME NEW l, Goto(v, l) PROVE \A w \in Workers \ {v} : req'[w] = req[w]
  BY <1>1, <1>3 DEF Goto
<1>4. ASSUME NEW a, Finish(v, a) PROVE \A w \in Workers \ {v} : req'[w] = req[w]
  BY <1>1, <1>4 DEF Finish, Advance, Respond
<1>5. ASSUME Restore(v) PROVE \A w \in Workers \ {v} : req'[w] = req[w]
  BY <1>1, <1>5 DEF Restore
<1>6. ASSUME Raise(v) PROVE \A w \in Workers \ {v} : req'[w] = req[w]
  BY <1>4, <1>5, <1>6 DEF Raise
<1>7. CASE \E n \in Names : NextReconcile(v, n) \/ NextUpdate(v, n)
  BY <1>1, <1>7 DEF NextReconcile, NextUpdate, Take
<1>8. CASE EndBatch(v) \/ GetForRemoval(v) \/ LeaveDomain(v)
  BY <1>1, <1>6, <1>8, Zenon DEF EndBatch, Respond, GetForRemoval, LeaveDomain, SetLeave
<1>9. CASE \/ TruncatePrev(v) \/ WritePrev(v) \/ Truncate(v) \/ Put(v) \/ Render(v)
           \/ RenderPolicy(v) \/ RemoveOld(v) \/ CreateContainer(v) \/ StartContainer(v) \/ Settle(v)
           \/ WatchHealth(v)
  BY <1>3, <1>4, <1>5, <1>6, <1>9
     DEF TruncatePrev, WritePrev, Truncate, Put, Render, RenderPolicy, RemoveOld,
         CreateContainer, StartContainer, Settle,
         WatchHealth
<1>10. CASE \/ StopForLeave(v) \/ RemoveContainer(v) \/ RemoveVolume(v)
            \/ RemoveRendered(v) \/ RemovePrev(v) \/ RemoveRecord(v)
  BY <1>3, <1>4, <1>6, <1>10, Zenon
     DEF StopForLeave, RemoveContainer, RemoveVolume, RemoveRendered,
         RemovePrev, RemoveRecord
<1>11. QED
  BY <1>2, <1>7, <1>8, <1>9, <1>10 DEF WorkerStep

\* Files are not taken away again.
LEMMA MountsGrow ==
  ASSUME TypeInv, [Next]_vars, NEW n \in Names
  PROVE  mounts[n] \subseteq mounts'[n]
<1> USE DEF outside
<1>1. ASSUME NEW m \in Names, NEW c \in Cfgs, PinLdapCa(m, c) \/ ProvideFiles(m, c)
      PROVE  mounts[n] \subseteq mounts'[n]
  BY <1>1 DEF TypeInv, StateOK, PinLdapCa, ProvideFiles
<1>2. ASSUME NEW w \in Workers, Request(w) PROVE mounts[n] \subseteq mounts'[n]
  BY <1>1, <1>2 DEF Request, CreateInstance, PatchInstance, SetLdapCa, UpdateInstance,
     RollbackInstance, DeleteInstance, Reconcile, UpdateAll, BeginBatch, Valid
<1>3. ASSUME NEW w \in Workers, WorkerStep(w) PROVE UNCHANGED mounts
  BY <1>3, Zenon DEF WorkerStep, NextReconcile, NextUpdate, EndBatch, TruncatePrev, WritePrev,
     Truncate, Put, Render, RenderPolicy, RemoveOld,
     CreateContainer, StartContainer, Settle, WatchHealth, GetForRemoval, StopForLeave,
     LeaveDomain, RemoveContainer, RemoveVolume, RemoveRendered, RemovePrev, RemoveRecord
<1>4. ASSUME NEW m \in Names, Lifecycle(m) \/ Environment(m) PROVE mounts[n] \subseteq mounts'[n]
  BY <1>1, <1>4 DEF Lifecycle, StartInstance, StopInstance, RestartInstance, Environment,
     BecomeHealthy, BecomeUnhealthy, CrashRestart, Join
<1>5. Crash \/ UNCHANGED vars => UNCHANGED mounts
  BY DEF Crash, vars
<1> QED BY <1>2, <1>3, <1>4, <1>5 DEF Next

\* Whoever is about to replace a container has found the new one's files.
Checked(w) ==
  req[w].pc \in {"recreate", "run"} => req[w].want.cfg \in mounts[req[w].name]

FilesInv == FailClosed /\ \A w \in Workers : Checked(w)

LEMMA CheckedStep ==
  ASSUME TypeInv, NEW w \in Workers, Checked(w), Request(w) \/ WorkerStep(w),
         req'[w].pc \in {"recreate", "run"}
  PROVE  /\ req[w].want.cfg \in mounts[req[w].name] /\ req[w].name \in Names
         /\ req'[w].want = req[w].want /\ req'[w].name = req[w].name
<1>1. req \in [Workers -> RequestStates] /\ req[w] \in RequestStates /\ WorkerOK(w)
  BY DEF TypeInv, ControlOK, ReqOK
<1>2. ~Request(w)
  <2>1. ASSUME NEW o, NEW n, NEW r, NEW l, Begin(w, o, n, r, l) PROVE req'[w].pc = l
    BY <1>1, <2>1 DEF Begin, Idle
  <2>2. ASSUME NEW o, BeginBatch(w, o) PROVE req'[w].pc = "next"
    BY <1>1, <2>2 DEF BeginBatch, Idle
  <2> QED BY <2>1, <2>2, Zenon DEF Request, CreateInstance, PatchInstance, SetLdapCa,
       UpdateInstance, RollbackInstance, DeleteInstance, Reconcile, UpdateAll
<1>3. (\A a : ~Finish(w, a)) /\ (\A a : ~Respond(w, a))
  <2>1. ASSUME NEW a, Advance(w, a) PROVE req'[w].pc = "next"
    BY <1>1, <2>1 DEF Advance, RequestStates
  <2>2. ASSUME NEW a, Respond(w, a) PROVE req'[w].pc = "idle"
    BY <1>1, <2>2 DEF Respond, Idle
  <2> QED BY <2>1, <2>2 DEF Finish
<1>4. ~Restore(w)
  BY <1>1 DEF Restore, RequestStates
<1>5. ~Raise(w)
  BY <1>3, <1>4 DEF Raise
<1>6. \A l : Goto(w, l) => l = req'[w].pc
  BY <1>1 DEF Goto, RequestStates
<1>7. /\ \A n \in Names : ~NextReconcile(w, n) /\ ~NextUpdate(w, n)
      /\ ~EndBatch(w)
  <2>1. ASSUME NEW n, NEW r, NEW l, Take(w, n, r, l) PROVE req'[w].pc = l
    BY <1>1, <2>1 DEF Take, RequestStates
  <2>2. ASSUME NEW n, NextReconcile(w, n) PROVE req'[w].pc = "render"
    BY <2>1, <2>2 DEF NextReconcile
  <2>3. ASSUME NEW n, NextUpdate(w, n) PROVE req'[w].pc \in {"prev", "next"}
    <3>1. CASE \E r : Take(w, n, r, "prev")
      BY <2>1, <3>1
    <3>2. CASE ~\E r : Take(w, n, r, "prev")
      <4>1. /\ req[w].pc = "next"
            /\ \/ req' = [req EXCEPT ![w].todo[n] = None, ![w].clean = FALSE]
               \/ req' = [req EXCEPT ![w].todo[n] = None]
        BY <2>3, <3>2 DEF NextUpdate
      <4> QED BY <1>1, <4>1 DEF RequestStates
    <3> QED BY <3>1, <3>2
  <2> QED BY <1>3, <2>2, <2>3 DEF EndBatch
<1>8. /\ ~TruncatePrev(w) /\ ~WritePrev(w) /\ ~Truncate(w) /\ ~Put(w) /\ ~Render(w)
      /\ ~CreateContainer(w) /\ ~StartContainer(w)
  BY <1>5, <1>6
     DEF TruncatePrev, WritePrev, Truncate, Put, Render, CreateContainer, StartContainer
<1>9. ~Settle(w) /\ ~WatchHealth(w)
  BY <1>3, <1>4, <1>5, <1>6 DEF Settle, WatchHealth
<1>10. ~GetForRemoval(w) /\ \A l : ~SetLeave(w, l)
  BY <1>1, <1>5 DEF GetForRemoval, SetLeave, RequestStates
<1>11. ~LeaveDomain(w)
  BY <1>5, <1>10, Zenon DEF LeaveDomain
<1>12. ~StopForLeave(w) /\ ~RemoveContainer(w) /\ ~RemoveVolume(w)
  BY <1>5, <1>6 DEF StopForLeave, RemoveContainer, RemoveVolume
<1>13. ~RemoveRendered(w) /\ ~RemovePrev(w) /\ ~RemoveRecord(w)
  BY <1>3, <1>5, <1>6 DEF RemoveRendered, RemovePrev, RemoveRecord
<1>14. RenderPolicy(w) \/ RemoveOld(w)
  <2>1. WorkerStep(w)
    BY <1>2
  <2> QED BY <1>7, <1>8, <1>9, <1>10, <1>11, <1>12, <1>13, <2>1 DEF WorkerStep
<1>15. PICK l \in Labels : Goto(w, l)
  BY <1>5, <1>14 DEF RenderPolicy, RemoveOld, Labels
<1>16. req'[w].want = req[w].want /\ req'[w].name = req[w].name
  BY <1>1, <1>15 DEF Goto, RequestStates
<1>17. req[w].want.cfg \in mounts[req[w].name]
  BY <1>5, <1>14 DEF RenderPolicy, RemoveOld, Checked
<1>18. req[w].name \in Names
  BY <1>1, <1>14 DEF RenderPolicy, RemoveOld, WorkerOK, ApplySteps
<1> QED BY <1>16, <1>17, <1>18

\* A container's configuration is the one it was made with.
LEMMA ContainerCfg ==
  ASSUME TypeInv, [Next]_vars, NEW n \in Names, container'[n] # None
  PROVE  \/ container[n] # None /\ container'[n].cfg = container[n].cfg
         \/ \E w \in Workers :
              /\ req[w].pc = "run" /\ req[w].name = n
              /\ container'[n].cfg = req[w].want.cfg
<1> USE DEF engine
<1>1. container \in [Names -> Containers \cup {None}]
  BY DEF TypeInv, StateOK
<1>2. ASSUME NEW m \in Names, NEW p, container[m] # None,
             container' = [container EXCEPT ![m].phase = p] \/ container' = Started(m)
      PROVE  container[n] # None /\ container'[n].cfg = container[n].cfg
  BY <1>1, <1>2, NoneApart DEF Started, Containers
<1>3. ASSUME NEW m, container' = [container EXCEPT ![m] = None]
      PROVE  container'[n] = container[n]
  BY <1>1, <1>3
<1>4. CASE UNCHANGED container
  BY <1>4
<1>5. ASSUME NEW m \in Names, Lifecycle(m) \/ Environment(m)
      PROVE  container[n] # None /\ container'[n].cfg = container[n].cfg
  BY <1>2, <1>4, <1>5 DEF Lifecycle, StartInstance, StopInstance, RestartInstance, Environment,
     BecomeHealthy, BecomeUnhealthy, CrashRestart, Join, ProvideFiles
<1>6. ASSUME NEW w \in Workers, Request(w) PROVE UNCHANGED container
  BY <1>6, Zenon DEF Request, CreateInstance, PatchInstance, SetLdapCa, UpdateInstance,
     RollbackInstance, DeleteInstance, Reconcile, UpdateAll, BeginBatch
<1>7. Crash \/ UNCHANGED vars => UNCHANGED container
  BY DEF Crash, vars
<1>8. ASSUME NEW w \in Workers, StartContainer(w) \/ StopForLeave(w)
      PROVE  container[n] # None /\ container'[n].cfg = container[n].cfg
  <2>1. req[w].name \in Names
    BY <1>8 DEF StartContainer, StopForLeave, TypeInv, ControlOK, WorkerOK, ApplySteps, RemoveSteps
  <2>2. CASE container' = [Started(req[w].name) EXCEPT ![req[w].name].maker = None]
    BY <1>1, <1>8, <2>1, <2>2, NoneApart DEF Started, Containers, StartContainer, StopForLeave
  <2> QED BY <1>2, <1>8, <2>1, <2>2 DEF StartContainer, StopForLeave
<1>9. ASSUME NEW w \in Workers, RemoveOld(w) \/ RemoveContainer(w)
      PROVE  container'[n] = container[n]
  BY <1>3, <1>9 DEF RemoveOld, RemoveContainer
<1>10. ASSUME NEW w \in Workers, CreateContainer(w)
       PROVE  \/ container'[n] = container[n]
              \/ req[w].pc = "run" /\ req[w].name = n /\ container'[n].cfg = req[w].want.cfg
  BY <1>1, <1>10 DEF CreateContainer
<1>11. ASSUME NEW w \in Workers, WorkerStep(w),
              ~(\/ StartContainer(w) \/ StopForLeave(w) \/ RemoveOld(w) \/ RemoveContainer(w)
                \/ CreateContainer(w))
       PROVE  UNCHANGED container
  BY <1>11, Zenon DEF WorkerStep, NextReconcile, NextUpdate, EndBatch, TruncatePrev, WritePrev,
     Truncate, Put, Render, RenderPolicy, Settle,
     WatchHealth, GetForRemoval, LeaveDomain, RemoveVolume, RemoveRendered, RemovePrev, RemoveRecord
<1> QED BY <1>4, <1>5, <1>6, <1>7, <1>8, <1>9, <1>10, <1>11 DEF Next

LEMMA FilesStep == TypeInv /\ FilesInv /\ [Next]_vars => FilesInv'
<1> SUFFICES ASSUME TypeInv, FilesInv, [Next]_vars PROVE FilesInv'
  OBVIOUS
<1>1. ASSUME NEW n \in Names, container'[n] # None PROVE container'[n].cfg \in mounts'[n]
  BY <1>1, ContainerCfg, MountsGrow DEF FilesInv, FailClosed, Checked
<1>2. ASSUME NEW v \in Workers, req'[v].pc \in {"recreate", "run"}
      PROVE  req'[v].want.cfg \in mounts'[req'[v].name]
  <2>1. CASE req'[v] = req[v]
    <3>1. req[v].name \in Names /\ req[v].want.cfg \in mounts[req[v].name]
      BY <1>2, <2>1 DEF FilesInv, Checked, TypeInv, ControlOK, WorkerOK, ApplySteps
    <3> QED BY <2>1, <3>1, MountsGrow
  <2>2. CASE Request(v) \/ WorkerStep(v)
    <3>1. /\ req[v].want.cfg \in mounts[req[v].name] /\ req[v].name \in Names
          /\ req'[v].want = req[v].want /\ req'[v].name = req[v].name
      BY <1>2, <2>2, CheckedStep DEF FilesInv
    <3> QED BY <3>1, MountsGrow
  <2>3. ~Crash
    BY <1>2 DEF Crash, Idle
  <2>4. ASSUME NEW w \in Workers \ {v}, Request(w) \/ WorkerStep(w) PROVE req'[v] = req[v]
    BY <2>4, OthersSilent
  <2>5. (\E n \in Names : Lifecycle(n) \/ Environment(n)) \/ UNCHANGED vars => req' = req
    BY DEF Lifecycle, StartInstance, StopInstance, RestartInstance, Environment,
       BecomeHealthy, BecomeUnhealthy, CrashRestart, Join, ProvideFiles, vars
  <2> QED BY <2>1, <2>2, <2>3, <2>4, <2>5 DEF Next
<1> QED BY <1>1, <1>2 DEF FilesInv, FailClosed, Checked

\* A container exists only for a configuration whose secrets, EAP certificate and
\* pinned CA were all there, whoever else is at work on the instance
\* (docker_service.py:340-382, "fails closed").
THEOREM AlwaysFailsClosed == Spec => []FailClosed
<1>1. Init => FilesInv
  BY DEF Init, FilesInv, FailClosed, Checked, Idle
<1>2. FilesInv => FailClosed
  BY DEF FilesInv
<1> QED BY <1>1, <1>2, FilesStep, TypeInvariant, PTL DEF Spec
=============================================================================
