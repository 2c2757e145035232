--------------------------- MODULE ChangeLogProofs ---------------------------
(***************************************************************************)
(* Proofs about the change log: its types, what the holder of index.lock   *)
(* has read, and so what a success, an error and a silent upgrade mean;    *)
(* and that whatever git does, the records are those of a RecordStore.     *)
(***************************************************************************)
EXTENDS ChangeLogStored, TLAPS

\* A worker has an instance in hand, and has not answered, while it has something
\* to do; the import has one while it adds it.
Handed ==
  /\ \A w \in Workers : req[w].pc = "idle" <=> req[w].name = None
  /\ \A w \in Workers : req[w].pc \in {"write", "writing"} => req[w].value \in Values
  /\ \A w \in Workers : req[w].pc # "idle" => req[w].reply = "none"
  /\ pkg.pc = "adding" => pkg.cur \in Names

TypeInv == TypeOK /\ Handed

PackageHolds == pkg.pc \in {"adding", "committing"}

\* .git/index.lock has one holder at most.
LockInv ==
  /\ \A v, w \in Workers : Holds(v) /\ Holds(w) => v = w
  /\ \A w \in Workers : Holds(w) => locked /\ ~PackageHolds
  /\ PackageHolds => locked

-----------------------------------------------------------------------------
(* A request on its own.                                                   *)

\* What the package is about to put into the index is what is in the file.
PackageFresh(n) == pkg.pc = "adding" /\ pkg.cur = n => pkg.read = file[n]

\* What a request has achieved at each label, if no other one had its record.
Achieved(w) ==
  LET n == req[w].name IN
  /\ \A v \in Workers : Touches(v, n) => v = w
  /\ req[w].pc = "unlink" => file[n] # None
  /\ req[w].pc = "writing" => file[n] = Torn
  /\ req[w].pc \in {"rm", "removing"} => file[n] = None
  /\ req[w].pc \in {"adding", "committing"} => req[w].read = file[n]
  /\ req[w].pc \in {"diff", "commit"} /\ ~req[w].skipped
       => index[n] = file[n] /\ PackageFresh(n)

AloneInv == \A w \in Workers : req[w].alone /\ req[w].pc # "idle" => Achieved(w)

-----------------------------------------------------------------------------
(* The import on its own.                                                  *)

\* What the import has achieved for a record nobody has touched meanwhile.
Imported(n) ==
  /\ \A w \in Workers : ~Touches(w, n)
  /\ PackageFresh(n)
  /\ pkg.pc \in {"loop", "adding", "staged", "committing"} /\ ~pkg.warned /\ file[n] # None
       => n \in pkg.todo \/ index[n] = file[n] \/ (pkg.pc = "adding" /\ pkg.cur = n)

ImportInv ==
  /\ \A n \in pkg.quiet : Imported(n)
  /\ pkg.pc \in {"staged", "committing"} => pkg.todo = {}

-----------------------------------------------------------------------------
(* Requests that meet.                                                     *)

\* Somebody has the file in hand, or has changed it and not looked at the index since.
Ahead(n) ==
  \E w \in Workers :
    /\ Touches(w, n)
    /\ req[w].pc \in {"writing", "add"} \/ (req[w].pc = "rm" /\ file[n] = None)

\* Somebody holds the lock to bring the index up to the file.
Publishing(n) ==
  \E w \in Workers :
    /\ Touches(w, n)
    /\ \/ req[w].pc \in {"adding", "committing"} /\ req[w].read = file[n]
       \/ req[w].pc = "removing" /\ file[n] = None

\* Somebody has still to compare the index with HEAD.
Checking(n) ==
  \E w \in Workers :
    /\ Touches(w, n)
    /\ req[w].pc \in {"writing", "add", "adding", "rm", "removing", "diff", "commit",
                     "committing"}

\* Every difference has somebody who is going to deal with it.
Attended(n) ==
  /\ index[n] # file[n] => Ahead(n) \/ Publishing(n)
  /\ index[n] # head[n] => Checking(n)
  /\ \A w \in Workers :
       Touches(w, n) /\ req[w].pc \in {"adding", "committing"} /\ req[w].read # file[n]
         => Ahead(n)
  /\ ~PackageFresh(n) => Ahead(n)

LoudInv ==
  /\ budget.outages = 0 => repo
  /\ budget.outages = 0 => \A n \in Names : told[n] \/ Attended(n)

LogInv == TypeInv /\ LockInv /\ AloneInv /\ ImportInv /\ LoudInv
-----------------------------------------------------------------------------
(* How a step moves a worker.                                              *)

USE ChangeLogConstants

LEMMA Nothing == {None, Torn} \subseteq Contents /\ Idle \in Requests /\ Resting \in Imports
BY DEF Contents, Idle, Requests, Resting, Imports

\* To whom a step of w happens, and what w has in hand after it.
Moved(w) ==
  /\ req' \in [Workers -> Requests]
  /\ \A v \in Workers : v # w => req'[v] = req[v]
  /\ req'[w].pc = "idle" => /\ req'[w].name = None
                            /\ req'[w].value = None
                            /\ req'[w].alone
  /\ req'[w].pc # "idle" => /\ req'[w].name = req[w].name
                            /\ req'[w].alone = req[w].alone
                            /\ req'[w].value = req[w].value
                            /\ req'[w].reply = req[w].reply

Kept(w) == req'[w].skipped = req[w].skipped

LEMMA GotoMoves ==
  ASSUME NEW w \in Workers, req \in [Workers -> Requests],
         NEW l \in {"writing", "add", "rm", "commit"}, Goto(w, l)
  PROVE  Moved(w) /\ req'[w].pc = l /\ Kept(w)
BY DEF Goto, Moved, Kept, Requests

LEMMA ReplyMoves ==
  ASSUME NEW w \in Workers, req \in [Workers -> Requests],
         NEW a \in {"ok", "error"}, Reply(w, a)
  PROVE  Moved(w) /\ req'[w].pc = "idle" /\ req'[w].reply = a
BY Nothing DEF Reply, Moved, Idle, Requests

LEMMA SkipMoves ==
  ASSUME NEW w \in Workers, req \in [Workers -> Requests], Skip(w)
  PROVE  /\ Moved(w)
         /\ \/ req[w].pc = "commit" /\ req'[w].pc = "idle"
            \/ req'[w].pc = "diff" /\ req'[w].skipped
<1>1. CASE req[w].pc = "commit" /\ Reply(w, "ok")
  BY <1>1, ReplyMoves
<1>2. CASE req[w].pc # "commit" /\ req' = [req EXCEPT ![w].pc = "diff", ![w].skipped = TRUE]
  BY <1>2 DEF Moved, Requests
<1> QED BY <1>1, <1>2 DEF Skip

LEMMA HoldMoves ==
  ASSUME NEW w \in Workers, req \in [Workers -> Requests], NEW c \in Contents,
         NEW l \in {"adding", "removing", "committing", "diff"},
         req' = [req EXCEPT ![w].pc = l, ![w].read = c]
  PROVE  /\ Moved(w)
         /\ req'[w].pc = l /\ req'[w].read = c
         /\ req'[w].skipped = req[w].skipped
<1>1. [req[w] EXCEPT !.pc = l, !.read = c] \in Requests
  BY DEF Requests
<1>2. req' = [req EXCEPT ![w] = [req[w] EXCEPT !.pc = l, !.read = c]]
  OBVIOUS
<1>3. req'[w] = [req[w] EXCEPT !.pc = l, !.read = c]
  BY <1>2
<1>4. \A v \in Workers : v # w => req'[v] = req[v]
  BY <1>2
<1>5. req' \in [Workers -> Requests]
  BY <1>1, <1>2
<1>6. req'[w].pc = l /\ req'[w].read = c /\ req'[w].skipped = req[w].skipped
      /\ req'[w].name = req[w].name /\ req'[w].alone = req[w].alone
      /\ req'[w].value = req[w].value /\ req'[w].reply = req[w].reply
  BY <1>3 DEF Requests
<1> QED BY <1>4, <1>5, <1>6 DEF Moved

-----------------------------------------------------------------------------
(* What the steps of a worker amount to.                                   *)

\* A git call that is not made, or fails: it is said.
GivenUp(w) ==
  /\ Moved(w)
  /\ \/ req'[w].pc = "idle"
     \/ req'[w].pc = "diff" /\ req'[w].skipped
  /\ told' = [told EXCEPT ![req[w].name] = TRUE]
  /\ UNCHANGED locked

\* A git process that has taken the lock and read the file.
Taken(w, l) ==
  /\ Moved(w)
  /\ req'[w].pc = l
  /\ req'[w].read = file[req[w].name]
  /\ req'[w].skipped = req[w].skipped
  /\ ~locked /\ locked'
  /\ UNCHANGED told

LEMMA NameOfWorker ==
  ASSUME TypeInv, NEW w \in Workers, req[w].pc # "idle"
  PROVE  /\ req[w].name \in Names /\ req[w].name # None
         /\ req[w].value \in Contents /\ req[w].read \in Contents
         /\ file[req[w].name] \in Contents
BY DEF TypeInv, TypeOK, Handed, Requests

LEMMA StartGitMoves ==
  ASSUME TypeInv, NEW w \in Workers, NEW from \in {"add", "rm", "commit"},
         NEW to \in {"adding", "removing", "committing"}, NEW accepts,
         StartGit(w, from, to, accepts)
  PROVE  \/ GivenUp(w)
         \/ Taken(w, to) /\ repo /\ accepts
<1>1. req[w].pc = from /\ req[w].pc # "idle" /\ req \in [Workers -> Requests]
  BY DEF StartGit, TypeInv, TypeOK
<1>2. CASE Skip(w) /\ UNCHANGED locked
  BY <1>1, <1>2, SkipMoves DEF GivenUp, Skip
<1>3. CASE Fail(w) /\ UNCHANGED locked
  BY <1>1, <1>3, ReplyMoves DEF GivenUp, Fail
<1>4. CASE /\ repo /\ ~locked /\ accepts /\ locked'
           /\ req' = [req EXCEPT ![w].pc = to, ![w].read = file[req[w].name]]
           /\ UNCHANGED told
  BY <1>1, <1>4, NameOfWorker, HoldMoves DEF Taken
<1> QED BY <1>2, <1>3, <1>4 DEF StartGit

\* A step that takes no git lock.
Steps(w, l) == Moved(w) /\ req'[w].pc = l /\ Kept(w)

LEMMA StepMoves ==
  ASSUME TypeInv, NEW w \in Workers
  PROVE  /\ Truncate(w) => Steps(w, "writing")
         /\ Write(w) => Steps(w, "add")
         /\ Unlink(w) => \/ Steps(w, "rm") /\ file[req[w].name] # None /\ UNCHANGED told
                         \/ Moved(w) /\ req'[w].pc = "idle" /\ file[req[w].name] = None
         /\ FinishAdd(w) => Steps(w, "diff")
         /\ FinishRemove(w) => Steps(w, "diff")
         /\ Diff(w) => \/ Steps(w, "commit")
                       \/ /\ Moved(w) /\ req'[w].pc = "idle"
                          /\ ~repo \/ index[req[w].name] = head[req[w].name]
         /\ FinishCommit(w) => Moved(w) /\ req'[w].pc = "idle"
<1>1. req \in [Workers -> Requests]
  BY DEF TypeInv, TypeOK
<1>2. \A l \in {"writing", "add", "rm", "commit"} : Goto(w, l) => Steps(w, l)
  BY <1>1, GotoMoves DEF Steps
<1>5. Release(w) => Steps(w, "diff")
  BY <1>1, Nothing, HoldMoves DEF Steps, Kept, Release
<1>3. Succeed(w) => Moved(w) /\ req'[w].pc = "idle"
  BY <1>1, ReplyMoves DEF Succeed
<1>4. Fail(w) => Moved(w) /\ req'[w].pc = "idle"
  BY <1>1, ReplyMoves DEF Fail
<1> QED BY <1>2, <1>3, <1>4, <1>5
        DEF Truncate, Write, Unlink, FinishAdd, Release, FinishRemove, Diff, FinishCommit

-----------------------------------------------------------------------------
(* Types.                                                                  *)

LEMMA TypeInit == Init => TypeInv
<1> SUFFICES ASSUME Init PROVE TypeInv
  OBVIOUS
<1>1. TypeOK
  BY Nothing DEF Init, TypeOK
<1>2. Handed
  BY DEF Init, Handed, Idle, Resting
<1> QED BY <1>1, <1>2 DEF TypeInv

LEMMA MovedTypes ==
  ASSUME TypeInv, NEW w \in Workers, Moved(w), req[w].pc # "idle", req'[w].pc # "write",
         req'[w].pc = "writing" => req[w].pc = "write", UNCHANGED pkg
  PROVE  /\ req' \in [Workers -> Requests] /\ pkg' \in Imports
         /\ Handed'
BY DEF TypeInv, TypeOK, Handed, Moved

\* A request begins before its first change.
LEMMA Beginnings ==
  ASSUME NEW w \in Workers, NEW n \in Names,
         BeginDelete(w, n) \/ \E v \in Values : BeginPut(w, n, v)
  PROVE  \E r \in Requests :
           /\ Begin(w, r)
           /\ r.name = n /\ r.reply = "none"
           /\ \/ r.pc = "write" /\ r.value \in Values
              \/ r.pc = "unlink" /\ r.value = None /\ file[n] # None
<1>1. CASE BeginDelete(w, n)
  <2> DEFINE r == [Idle EXCEPT !.pc = "unlink", !.op = "delete", !.name = n]
  <2>1. r \in Requests /\ r.name = n /\ r.pc = "unlink" /\ r.value = None
        /\ r.reply = "none"
    BY Nothing DEF Idle, Requests
  <2>2. Begin(w, r) /\ file[n] # None
    BY <1>1 DEF BeginDelete
  <2> QED BY <2>1, <2>2
<1>2. ASSUME NEW v \in Values, BeginPut(w, n, v)
      PROVE  \E r \in Requests : Begin(w, r) /\ r.name = n /\ r.reply = "none"
                               /\ r.pc = "write" /\ r.value \in Values
  <2> DEFINE r == [Idle EXCEPT !.pc = "write", !.op = "put", !.name = n, !.value = v]
  <2>1. r \in Requests /\ r.name = n /\ r.pc = "write" /\ r.value \in Values
        /\ r.reply = "none"
    BY Nothing DEF Idle, Requests, Contents
  <2>2. Begin(w, r)
    BY <1>2 DEF BeginPut
  <2> QED BY <2>1, <2>2
<1> QED BY <1>1, <1>2

LEMMA BeginTypes ==
  ASSUME TypeInv, NEW w \in Workers, NEW r \in Requests, r.pc # "idle",
         r.name \in Names, r.pc \in {"write", "writing"} => r.value \in Values,
         r.reply = "none", Begin(w, r)
  PROVE  TypeInv'
<1>1. \A v \in Workers : req[v] \in Requests
  BY DEF TypeInv, TypeOK
<1>3. \A v \in Workers : [req[v] EXCEPT !.alone = FALSE] \in Requests
  BY <1>1 DEF Requests
<1>4. req' \in [Workers -> Requests]
  BY <1>1, <1>3 DEF Begin, Requests
<1>5. pkg' \in Imports /\ pkg'.pc = pkg.pc /\ pkg'.cur = pkg.cur
  BY DEF Begin, TypeInv, TypeOK, Imports
<1>6. \A v \in Workers : v # w => /\ req'[v].pc = req[v].pc /\ req'[v].name = req[v].name
                                      /\ req'[v].value = req[v].value
                                      /\ req'[v].reply = req[v].reply
  BY <1>1 DEF Begin, Requests
<1>7. req'[w].pc = r.pc /\ req'[w].name = r.name /\ req'[w].value = r.value
      /\ req'[w].reply = r.reply
  BY DEF Begin, Requests
<1>8. Handed'
  BY <1>5, <1>6, <1>7 DEF Handed, TypeInv
<1>9. UNCHANGED <<file, index, head, locked, repo, told, budget>>
  BY DEF Begin, git
<1> QED BY <1>4, <1>5, <1>8, <1>9 DEF TypeInv, TypeOK

\* The steps of a request, but for its beginning.
WorkerStep(w) ==
  \/ Truncate(w) \/ Write(w) \/ Unlink(w)
  \/ StartAdd(w) \/ FinishAdd(w) \/ StartRemove(w) \/ FinishRemove(w)
  \/ Diff(w) \/ StartCommit(w) \/ FinishCommit(w)

PackageStep ==
  \/ Configure \/ \E n \in Names : PackageAdd(n)
  \/ PackageAdded \/ PackageDiff \/ PackageCommit \/ PackageCommitted

LEMMA NextCases ==
  Next <=> \/ \E w \in Workers, n \in Names :
               BeginDelete(w, n) \/ \E v \in Values : BeginPut(w, n, v)
           \/ \E w \in Workers : WorkerStep(w)
           \/ PackageStep
           \/ Crash \/ RemoveStaleLock \/ LoseRepo \/ RepairRepo
BY DEF Next, WorkerStep, PackageStep

LEMMA StartMoves ==
  ASSUME TypeInv, NEW w \in Workers
  PROVE  /\ StartAdd(w) => GivenUp(w) \/ (Taken(w, "adding") /\ repo /\ Addable(req[w].name))
         /\ StartRemove(w) =>
              GivenUp(w) \/ (Taken(w, "removing") /\ repo /\ Removable(req[w].name))
         /\ StartCommit(w) =>
              GivenUp(w) \/ (Taken(w, "committing") /\ repo /\ Committable(req[w].name))
<1>1. ASSUME StartAdd(w)
      PROVE  GivenUp(w) \/ (Taken(w, "adding") /\ repo /\ Addable(req[w].name))
  BY ONLY TypeInv, <1>1, StartGitMoves DEF StartAdd
<1>2. ASSUME StartRemove(w)
      PROVE  GivenUp(w) \/ (Taken(w, "removing") /\ repo /\ Removable(req[w].name))
  BY ONLY TypeInv, <1>2, StartGitMoves DEF StartRemove
<1>3. ASSUME StartCommit(w)
      PROVE  GivenUp(w) \/ (Taken(w, "committing") /\ repo /\ Committable(req[w].name))
  BY ONLY TypeInv, <1>3, StartGitMoves DEF StartCommit
<1> QED BY <1>1, <1>2, <1>3

LEMMA WorkerMoves ==
  ASSUME TypeInv, NEW w \in Workers, WorkerStep(w)
  PROVE  /\ Moved(w) /\ req[w].pc # "idle" /\ req'[w].pc # "write"
         /\ req'[w].pc = "writing" => req[w].pc = "write"
         /\ UNCHANGED <<repo, pkg, budget>>
<1>1. Moved(w) /\ req'[w].pc # "write"
  BY StepMoves, StartMoves DEF WorkerStep, Steps, GivenUp, Taken
<1>3. req'[w].pc = "writing" => Truncate(w)
  BY StepMoves, StartMoves DEF WorkerStep, Steps, GivenUp, Taken
<1>2. req[w].pc # "idle" /\ UNCHANGED <<repo, pkg, budget>>
  BY DEF WorkerStep, Truncate, Write, Unlink, StartAdd, FinishAdd, Release, StartRemove,
         FinishRemove, Diff,
         StartCommit, FinishCommit, StartGit
<1> QED BY <1>1, <1>2, <1>3 DEF Truncate

LEMMA WorkerTypes ==
  ASSUME TypeInv, NEW w \in Workers, WorkerStep(w)
  PROVE  TypeInv'
<1>1. /\ Moved(w) /\ req[w].pc # "idle" /\ req'[w].pc # "write"
      /\ req'[w].pc = "writing" => req[w].pc = "write"
      /\ UNCHANGED <<repo, pkg, budget>>
  BY WorkerMoves
<1>2. req' \in [Workers -> Requests] /\ pkg' \in Imports /\ Handed'
  BY <1>1, MovedTypes
<1>3. req[w].name \in Names /\ req[w].value \in Contents /\ req[w].read \in Contents
  BY <1>1, NameOfWorker
<1>4. told' \in [Names -> BOOLEAN] /\ locked' \in BOOLEAN
  BY <1>3 DEF TypeInv, TypeOK, WorkerStep, Truncate, Write, Unlink, StartAdd, FinishAdd,
         Release,
              StartRemove,
              FinishRemove, Diff, StartCommit, FinishCommit, StartGit, Skip, Fail, Succeed, git
<1>5. file' \in [Names -> Contents]
  BY <1>3, Nothing
     DEF TypeInv, TypeOK, WorkerStep, Truncate, Write, Unlink, StartAdd, FinishAdd, Release,
         StartRemove,
         FinishRemove, Diff, StartCommit, FinishCommit, StartGit
<1>6. index' \in [Names -> Contents] /\ head' \in [Names -> Contents]
  BY <1>3, Nothing
     DEF TypeInv, TypeOK, WorkerStep, Truncate, Write, Unlink, StartAdd, FinishAdd, Release,
         StartRemove,
         FinishRemove, Diff, StartCommit, FinishCommit, StartGit, git
<1> QED BY <1>1, <1>2, <1>4, <1>5, <1>6 DEF TypeInv, TypeOK

LEMMA PackageTypes ==
  ASSUME TypeInv, PackageStep
  PROVE  TypeInv'
<1>1. /\ budget' \in [crashes : Nat, outages : Nat, upgrades : Nat]
      /\ budget'.outages = budget.outages
  <2>1. CASE Configure
    <3>1. budget' = [budget EXCEPT !["upgrades"] = @ + 1]
      BY <2>1 DEF Configure, Spend
    <3> QED BY <3>1 DEF TypeInv, TypeOK
  <2>2. CASE UNCHANGED budget
    BY <2>2 DEF TypeInv, TypeOK
  <2> QED BY <2>1, <2>2 DEF PackageStep, PackageAdd, PackageAdded, PackageDiff, PackageCommit,
         PackageCommitted
<1>2. pkg' \in Imports /\ (pkg'.pc = "adding" => pkg'.cur \in Names)
  <2>1. CASE Configure
    <3>1. [Resting EXCEPT !.pc = "loop", !.quiet = Untouched,
                          !.todo = {n \in Names : file[n] # None}] \in Imports
      BY Nothing DEF Imports, Resting, Untouched
    <3>2. [Resting EXCEPT !.pc = "done", !.warned = TRUE] \in Imports
      BY Nothing DEF Imports, Resting
    <3>3. pkg'.pc # "adding"
      BY <2>1 DEF Configure, Resting
    <3> QED BY <2>1, <3>1, <3>2, <3>3 DEF Configure
  <2>2. CASE \E n \in Names : PackageAdd(n)
    <3> PICK n \in Names : PackageAdd(n)
      BY <2>2
    <3>1. pkg \in Imports /\ file[n] \in Contents
      BY DEF TypeInv, TypeOK
    <3>2. CASE pkg' = [pkg EXCEPT !.todo = @ \ {n}]
      BY <3>1, <3>2 DEF PackageAdd, Imports
    <3>3. CASE pkg' = [pkg EXCEPT !.todo = @ \ {n}, !.warned = TRUE]
      BY <3>1, <3>3 DEF PackageAdd, Imports
    <3>4. CASE pkg' = [pkg EXCEPT !.pc = "adding", !.todo = @ \ {n}, !.cur = n,
                                  !.read = file[n]]
      BY <3>1, <3>4 DEF Imports
    <3> QED BY <3>2, <3>3, <3>4 DEF PackageAdd
  <2>3. CASE PackageAdded \/ PackageDiff \/ PackageCommit \/ PackageCommitted
    <3>1. pkg \in Imports
      BY DEF TypeInv, TypeOK
    <3>2. CASE PackageAdded
      <4>1. pkg' = [pkg EXCEPT !.pc = "loop", !.cur = None, !.read = None]
        BY <3>2 DEF PackageAdded
      <4> QED BY <3>1, <4>1, Nothing DEF Imports
    <3>3. CASE PackageCommit
      BY <3>1, <3>3 DEF PackageCommit, Imports
    <3>4. CASE PackageCommitted
      BY <3>1, <3>4 DEF PackageCommitted, Imports
    <3>5. CASE PackageDiff
      BY <3>1, <3>5 DEF PackageDiff, Imports
    <3> QED BY <2>3, <3>2, <3>3, <3>4, <3>5
  <2> QED BY <2>1, <2>2, <2>3 DEF PackageStep
<1>3. UNCHANGED <<file, repo, req, told>> /\ locked' \in BOOLEAN
  BY DEF TypeInv, TypeOK, PackageStep, Configure, PackageAdd, PackageAdded, PackageDiff,
         PackageCommit,
         PackageCommitted, git
<1>4. index' \in [Names -> Contents] /\ head' \in [Names -> Contents]
  BY DEF TypeInv, TypeOK, Handed, Imports, PackageStep, Configure, PackageAdd, PackageAdded,
         PackageDiff,
         PackageCommit, PackageCommitted, git
<1> QED BY <1>1, <1>2, <1>3, <1>4 DEF TypeInv, TypeOK, Handed

LEMMA OutsideTypes ==
  ASSUME TypeInv, Crash \/ RemoveStaleLock \/ LoseRepo \/ RepairRepo
  PROVE  TypeInv'
<1>1. budget' \in [crashes : Nat, outages : Nat, upgrades : Nat]
  BY DEF TypeInv, TypeOK, Crash, RemoveStaleLock, LoseRepo, RepairRepo, Spend
<1>2. req' \in [Workers -> Requests] /\ told' \in [Names -> BOOLEAN]
  BY Nothing DEF TypeInv, TypeOK, Crash, RemoveStaleLock, LoseRepo, RepairRepo
<1>3. Handed'
  BY DEF TypeInv, Handed, Crash, RemoveStaleLock, LoseRepo, RepairRepo, Idle
<1>4. UNCHANGED <<file, index, head, pkg>> /\ locked' \in BOOLEAN /\ repo' \in BOOLEAN
  BY DEF TypeInv, TypeOK, Crash, RemoveStaleLock, LoseRepo, RepairRepo, git
<1> QED BY <1>1, <1>2, <1>3, <1>4 DEF TypeInv, TypeOK

LEMMA TypeStep == TypeInv /\ [Next]_vars => TypeInv'
<1> SUFFICES ASSUME TypeInv, [Next]_vars PROVE TypeInv'
  OBVIOUS
<1>1. ASSUME NEW w \in Workers, NEW n \in Names,
             BeginDelete(w, n) \/ \E v \in Values : BeginPut(w, n, v)
      PROVE  TypeInv'
  BY <1>1, Beginnings, BeginTypes
<1>2. CASE UNCHANGED vars
  BY <1>2 DEF vars, git, TypeInv, TypeOK, Handed
<1> QED BY <1>1, <1>2, WorkerTypes, PackageTypes, OutsideTypes, NextCases

-----------------------------------------------------------------------------
(* The lock.                                                               *)

LEMMA LockInit == Init => LockInv
BY DEF Init, LockInv, Holds, PackageHolds, Idle, Resting

\* A beginning gives nobody a lock.
LEMMA BeginEffect ==
  ASSUME TypeInv, NEW w \in Workers, NEW r \in Requests, Begin(w, r)
  PROVE  /\ req[w].pc = "idle"
         /\ req'[w].pc = r.pc /\ req'[w].name = r.name /\ req'[w].skipped = r.skipped
         /\ req'[w].alone => \A v \in Workers : ~Touches(v, r.name)
         /\ \A v \in Workers : v # w =>
              /\ req'[v].pc = req[v].pc /\ req'[v].name = req[v].name
              /\ req'[v].read = req[v].read /\ req'[v].skipped = req[v].skipped
              /\ req'[v].alone => req[v].alone /\ req[v].name # r.name
         /\ pkg' = [pkg EXCEPT !.quiet = @ \ {r.name}]
         /\ pkg'.pc = pkg.pc /\ pkg'.cur = pkg.cur /\ pkg'.read = pkg.read
         /\ pkg'.todo = pkg.todo /\ pkg'.warned = pkg.warned
         /\ pkg'.quiet = pkg.quiet \ {r.name}
         /\ UNCHANGED <<file, index, head, locked, repo, told, budget>>
<1>1. req[w].pc = "idle" /\ UNCHANGED <<file, index, head, locked, repo, told, budget>>
  BY DEF Begin, git
<1>2. \A v \in Workers : req[v] \in Requests
  BY DEF TypeInv, TypeOK
<1>3. /\ req'[w].pc = r.pc /\ req'[w].name = r.name /\ req'[w].skipped = r.skipped
      /\ req'[w].alone => \A v \in Workers : ~Touches(v, r.name)
  BY DEF Begin, Requests
<1>4. ASSUME NEW v \in Workers, v # w
      PROVE  /\ req'[v].pc = req[v].pc /\ req'[v].name = req[v].name
             /\ req'[v].read = req[v].read /\ req'[v].skipped = req[v].skipped
             /\ req'[v].alone => req[v].alone /\ req[v].name # r.name
  BY <1>2, <1>4 DEF Begin, Requests, Touches
<1>5. /\ pkg' = [pkg EXCEPT !.quiet = @ \ {r.name}] /\ pkg \in Imports
  BY DEF Begin, TypeInv, TypeOK
<1> QED BY <1>1, <1>3, <1>4, <1>5 DEF Imports

\* A step either takes a lock that is free or ends what its worker held.
LEMMA WorkerLock ==
  ASSUME TypeInv, NEW w \in Workers, WorkerStep(w)
  PROVE  \/ ~locked /\ locked'
         \/ ~Holds(w)' /\ (Holds(w) \/ UNCHANGED locked)
<1>1. Truncate(w) \/ Write(w) \/ Unlink(w) \/ Diff(w) => ~Holds(w)' /\ UNCHANGED locked
  BY StepMoves DEF Steps, Holds, Truncate, Write, Unlink, Diff, git
<1>2. FinishAdd(w) \/ FinishRemove(w) \/ FinishCommit(w) => ~Holds(w)' /\ Holds(w)
  BY StepMoves DEF Steps, Holds, FinishAdd, Release, FinishRemove, FinishCommit
<1>3. GivenUp(w) => ~Holds(w)' /\ UNCHANGED locked
  BY DEF GivenUp, Holds
<1> QED BY <1>1, <1>2, <1>3, StartMoves DEF WorkerStep, Taken

LEMMA WorkerLocks ==
  ASSUME TypeInv, LockInv, NEW w \in Workers, WorkerStep(w)
  PROVE  LockInv'
<1>1. Moved(w) /\ UNCHANGED pkg
  BY WorkerMoves
<1>2. \A v \in Workers : v # w => (Holds(v)' <=> Holds(v))
  BY <1>1 DEF Moved, Holds
<1> QED BY <1>1, <1>2, WorkerLock DEF LockInv, PackageHolds

LEMMA PackageLocks ==
  ASSUME TypeInv, LockInv, PackageStep
  PROVE  LockInv'
<1>1. UNCHANGED req /\ pkg \in Imports
  BY DEF TypeInv, TypeOK, PackageStep, Configure, PackageAdd, PackageAdded, PackageDiff,
         PackageCommit,
         PackageCommitted
<1>2. \/ ~locked /\ locked'
      \/ ~PackageHolds' /\ UNCHANGED locked
      \/ PackageHolds /\ ~PackageHolds'
  BY <1>1 DEF PackageStep, Configure, PackageAdd, PackageAdded, PackageDiff, PackageCommit,
         PackageCommitted,
              PackageHolds, git, Resting, Imports
<1> QED BY <1>1, <1>2 DEF LockInv, Holds

LEMMA LockStep == TypeInv /\ LockInv /\ [Next]_vars => LockInv'
<1> SUFFICES ASSUME TypeInv, LockInv, [Next]_vars PROVE LockInv'
  OBVIOUS
<1>1. ASSUME NEW w \in Workers, NEW n \in Names,
             BeginDelete(w, n) \/ \E v \in Values : BeginPut(w, n, v)
      PROVE  LockInv'
  BY <1>1, Beginnings, BeginEffect DEF LockInv, Holds, PackageHolds
<1>2. CASE Crash \/ RemoveStaleLock \/ LoseRepo \/ RepairRepo \/ UNCHANGED vars
  BY <1>2 DEF Crash, RemoveStaleLock, LoseRepo, RepairRepo, vars, git, LockInv, Holds,
              PackageHolds, Idle
<1> QED BY <1>1, <1>2, WorkerLocks, PackageLocks, NextCases

-----------------------------------------------------------------------------
(* A request on its own.                                                   *)

LEMMA AloneInit == Init => AloneInv
BY DEF Init, AloneInv, Idle

\* No request disturbs the record of another one.
LEMMA WorkerElsewhere ==
  ASSUME TypeInv, NEW w \in Workers, WorkerStep(w), NEW n \in Names, n # req[w].name
  PROVE  /\ file'[n] = file[n] /\ index'[n] = index[n] /\ head'[n] = head[n]
         /\ told'[n] = told[n]
         /\ (PackageFresh(n)' <=> PackageFresh(n))
<1>1. file \in [Names -> Contents] /\ index \in [Names -> Contents]
      /\ head \in [Names -> Contents] /\ told \in [Names -> BOOLEAN]
  BY DEF TypeInv, TypeOK
<1>2. file'[n] = file[n] /\ index'[n] = index[n] /\ head'[n] = head[n]
  BY <1>1 DEF WorkerStep, Truncate, Write, Unlink, StartAdd, FinishAdd, Release, StartRemove,
              FinishRemove, Diff,
              StartCommit, FinishCommit, StartGit, git
<1>3. told'[n] = told[n]
  BY <1>1 DEF WorkerStep, Truncate, Write, Unlink, StartAdd, FinishAdd, Release, StartRemove,
              FinishRemove, Diff,
              StartCommit, FinishCommit, StartGit, Skip, Fail, Succeed, git
<1> QED BY <1>2, <1>3, WorkerMoves DEF PackageFresh

LEMMA WorkerAchieves ==
  ASSUME TypeInv, LockInv, NEW w \in Workers, WorkerStep(w), req'[w].pc # "idle", Achieved(w)
  PROVE  Achieved(w)'
<1> DEFINE n == req[w].name
<1>1. /\ Moved(w) /\ req[w].pc # "idle" /\ UNCHANGED <<repo, pkg, budget>>
      /\ n \in Names /\ n # None
  BY WorkerMoves, NameOfWorker
<1>2. req'[w].name = n /\ \A v \in Workers : Touches(v, n)' => v = w
  BY <1>1 DEF Moved, Achieved, Touches
<1>3. file \in [Names -> Contents] /\ index \in [Names -> Contents]
  BY DEF TypeInv, TypeOK
<1>4. CASE Truncate(w) \/ Write(w)
  <2>1. Truncate(w) => file'[n] = Torn
    BY <1>1, <1>3 DEF Truncate
  <2> QED BY <1>2, <1>4, <2>1, StepMoves DEF Steps, Achieved
<1>5. CASE Unlink(w)
  <2>1. req'[w].pc = "rm"
    BY <1>5, StepMoves DEF Steps
  <2>2. file'[n] = None
    BY <1>1, <1>3, <1>5 DEF Unlink
  <2> QED BY <1>2, <2>1, <2>2 DEF Achieved
<1>6. CASE GivenUp(w)
  BY <1>2, <1>6 DEF GivenUp, Achieved
<1>7. CASE StartAdd(w) /\ Taken(w, "adding")
  BY <1>2, <1>7 DEF StartAdd, StartGit, Taken, Achieved
<1>8. CASE StartRemove(w) /\ Taken(w, "removing")
  <2>1. file[n] = None /\ UNCHANGED file
    BY <1>8 DEF StartRemove, StartGit, Achieved
  <2> QED BY <1>2, <1>8, <2>1 DEF Taken, Achieved
<1>9. CASE StartCommit(w) /\ Taken(w, "committing")
  BY <1>2, <1>9 DEF StartCommit, StartGit, Taken, Achieved
<1>10. CASE FinishAdd(w)
  <2>1. index'[n] = file'[n]
    BY <1>1, <1>3, <1>10 DEF FinishAdd, Release, Achieved
  <2>2. PackageFresh(n)'
    BY <1>1, <1>10 DEF FinishAdd, Release, LockInv, Holds, PackageHolds, PackageFresh
  <2> QED BY <1>2, <1>10, <2>1, <2>2, StepMoves DEF Steps, Achieved
<1>11. CASE FinishRemove(w)
  <2>1. index'[n] = file'[n]
    BY <1>1, <1>3, <1>11 DEF FinishRemove, Release, Achieved
  <2>2. PackageFresh(n)'
    BY <1>1, <1>11 DEF FinishRemove, Release, LockInv, Holds, PackageHolds, PackageFresh
  <2> QED BY <1>2, <1>11, <2>1, <2>2, StepMoves DEF Steps, Achieved
<1>12. CASE Diff(w)
  <2>1. req'[w].pc = "commit" /\ req'[w].skipped = req[w].skipped /\ req[w].pc = "diff"
        /\ UNCHANGED <<file, index, pkg>>
    BY <1>12, StepMoves DEF Steps, Kept, Diff, git
  <2> QED BY <1>2, <2>1 DEF Achieved, PackageFresh
<1>13. CASE FinishCommit(w)
  BY <1>13, StepMoves
<1> QED BY <1>4, <1>5, <1>6, <1>7, <1>8, <1>9, <1>10, <1>11, <1>12, <1>13, StartMoves
        DEF WorkerStep

LEMMA WorkerAlone ==
  ASSUME TypeInv, LockInv, AloneInv, NEW w \in Workers, WorkerStep(w)
  PROVE  AloneInv'
<1>1. Moved(w) /\ req[w].pc # "idle"
  BY WorkerMoves
<1> SUFFICES ASSUME NEW v \in Workers, req'[v].alone, req'[v].pc # "idle"
             PROVE  Achieved(v)'
  BY DEF AloneInv
<1>2. CASE v = w
  <2>1. req[w].alone
    BY <1>1, <1>2 DEF Moved
  <2> QED BY <1>1, <1>2, <2>1, WorkerAchieves DEF AloneInv
<1>3. CASE v # w
  <2>1. req'[v] = req[v] /\ Achieved(v)
    BY <1>1, <1>3 DEF Moved, AloneInv
  <2> PICK n \in Names : n = req[v].name
    BY <2>1, NameOfWorker
  <2>2. n # None /\ n # req[w].name
    BY <1>3, <2>1 DEF Achieved, Touches
  <2>3. \A u \in Workers : Touches(u, n)' => Touches(u, n)
    BY <1>1, <2>2 DEF Moved, Touches
  <2>4. file'[n] = file[n] /\ index'[n] = index[n] /\ (PackageFresh(n)' <=> PackageFresh(n))
    BY <2>2, WorkerElsewhere
  <2> QED BY <2>1, <2>3, <2>4 DEF Achieved
<1> QED BY <1>2, <1>3

LEMMA PackageFile ==
  ASSUME PackageStep
  PROVE  UNCHANGED <<file, repo, req, told>>
BY DEF PackageStep, Configure, PackageAdd, PackageAdded, PackageDiff, PackageCommit,
       PackageCommitted

\* The package reads the file before it writes the index.
LEMMA PackageReads ==
  ASSUME TypeInv, PackageStep, NEW n \in Names, PackageFresh(n)
  PROVE  /\ PackageFresh(n)'
         /\ index'[n] = index[n] \/ index'[n] = file[n]
<1>1. index \in [Names -> Contents] /\ pkg \in Imports /\ UNCHANGED file
  BY PackageFile DEF TypeInv, TypeOK
<1>2. CASE \E m \in Names : PackageAdd(m)
  <2> PICK m \in Names : PackageAdd(m)
    BY <1>2
  <2>1. UNCHANGED index
    BY DEF PackageAdd
  <2>2. pkg'.pc = "adding" => pkg'.cur = m /\ pkg'.read = file[m]
    BY <1>1 DEF PackageAdd, Imports
  <2> QED BY <1>1, <2>1, <2>2 DEF PackageFresh
<1>3. CASE PackageAdded
  BY <1>1, <1>3 DEF PackageAdded, PackageFresh, Imports
<1>4. CASE Configure \/ PackageDiff \/ PackageCommit \/ PackageCommitted
  BY <1>1, <1>4 DEF Configure, PackageDiff, PackageCommit, PackageCommitted, PackageFresh,
         Imports, Resting,
                    git
<1> QED BY <1>2, <1>3, <1>4 DEF PackageStep

LEMMA PackageAlone ==
  ASSUME TypeInv, AloneInv, PackageStep
  PROVE  AloneInv'
<1> SUFFICES ASSUME NEW w \in Workers, req'[w].alone, req'[w].pc # "idle"
             PROVE  Achieved(w)'
  BY DEF AloneInv
<1>1. UNCHANGED <<file, repo, req, told>> /\ Achieved(w)
  BY PackageFile DEF AloneInv
<1> PICK n \in Names : n = req[w].name
  BY <1>1, NameOfWorker
<1>2. CASE req[w].pc \in {"diff", "commit"} /\ ~req[w].skipped
  <2>1. index'[n] = file'[n] /\ PackageFresh(n)'
    BY <1>1, <1>2, PackageReads DEF Achieved
  <2> QED BY <1>1, <1>2, <2>1 DEF Achieved, Touches
<1>3. CASE ~(req[w].pc \in {"diff", "commit"} /\ ~req[w].skipped)
  BY <1>1, <1>3 DEF Achieved, Touches
<1> QED BY <1>2, <1>3

LEMMA AloneStep == TypeInv /\ LockInv /\ AloneInv /\ [Next]_vars => AloneInv'
<1> SUFFICES ASSUME TypeInv, LockInv, AloneInv, [Next]_vars PROVE AloneInv'
  OBVIOUS
<1>1. ASSUME NEW w \in Workers, NEW n \in Names,
             BeginDelete(w, n) \/ \E v \in Values : BeginPut(w, n, v)
      PROVE  AloneInv'
  <2> PICK r \in Requests : Begin(w, r) /\ r.name = n
                            /\ (r.pc = "write" \/ (r.pc = "unlink" /\ file[n] # None))
    BY <1>1, Beginnings
  <2> SUFFICES ASSUME NEW v \in Workers, req'[v].alone, req'[v].pc # "idle"
               PROVE  Achieved(v)'
    BY DEF AloneInv
  <2>1. CASE v = w
    BY <2>1, BeginEffect DEF Achieved, Touches
  <2>2. CASE v # w
    <3>1. /\ Achieved(v) /\ req[v].name # r.name
          /\ req'[v].pc = req[v].pc /\ req'[v].name = req[v].name
          /\ req'[v].read = req[v].read /\ req'[v].skipped = req[v].skipped
      BY <2>2, BeginEffect DEF AloneInv
    <3>2. UNCHANGED <<file, index>> /\ (PackageFresh(req[v].name)' <=> PackageFresh(req[v].name))
      BY <3>1, BeginEffect DEF PackageFresh
    <3> QED BY <2>2, <3>1, <3>2, BeginEffect DEF Achieved, Touches
  <2> QED BY <2>1, <2>2
<1>2. CASE Crash
  BY <1>2 DEF Crash, AloneInv, Idle
<1>3. CASE RemoveStaleLock \/ LoseRepo \/ RepairRepo \/ UNCHANGED vars
  BY <1>3 DEF RemoveStaleLock, LoseRepo, RepairRepo, vars, git, AloneInv, Achieved, Touches,
              PackageFresh
<1> QED BY <1>1, <1>2, <1>3, WorkerAlone, PackageAlone, NextCases

-----------------------------------------------------------------------------
(* The import on its own.                                                  *)

LEMMA ImportInit == Init => ImportInv
BY DEF Init, ImportInv, Resting

LEMMA WorkerImport ==
  ASSUME TypeInv, ImportInv, NEW w \in Workers, WorkerStep(w)
  PROVE  ImportInv'
<1>1. Moved(w) /\ req[w].pc # "idle" /\ UNCHANGED pkg
  BY WorkerMoves
<1> SUFFICES ASSUME NEW n \in pkg.quiet
             PROVE  Imported(n)'
  BY <1>1 DEF ImportInv
<1>2. Imported(n) /\ n \in Names /\ n # None
  BY DEF ImportInv, TypeInv, TypeOK, Imports
<1>3. n # req[w].name
  BY <1>2 DEF Imported, Touches
<1>4. \A v \in Workers : ~Touches(v, n)'
  BY <1>1, <1>2 DEF Moved, Imported, Touches
<1>5. file'[n] = file[n] /\ index'[n] = index[n] /\ (PackageFresh(n)' <=> PackageFresh(n))
  BY <1>2, <1>3, WorkerElsewhere
<1> QED BY <1>1, <1>2, <1>4, <1>5 DEF Imported

LEMMA PackageImports ==
  ASSUME TypeInv, ImportInv, PackageStep
  PROVE  ImportInv'
<1>1. /\ UNCHANGED <<file, req>> /\ pkg \in Imports /\ pkg.quiet \subseteq Names
      /\ index \in [Names -> Contents]
  BY PackageFile DEF TypeInv, TypeOK, Imports
<1>2. CASE Configure
  <2>1. /\ pkg'.pc \in {"loop", "done"} /\ pkg'.quiet \subseteq Untouched
        /\ pkg'.pc = "loop" => pkg'.todo = {n \in Names : file[n] # None}
    BY <1>2 DEF Configure, Resting
  <2> QED BY <1>1, <2>1 DEF ImportInv, Imported, PackageFresh, Touches, Untouched
<1>3. CASE \E m \in Names : PackageAdd(m)
  <2> PICK m \in Names : PackageAdd(m)
    BY <1>3
  <2>1. /\ UNCHANGED index /\ pkg'.quiet = pkg.quiet /\ pkg'.todo = pkg.todo \ {m}
        /\ pkg.pc = "loop" /\ pkg'.pc \in {"loop", "adding"}
        /\ pkg'.pc = "adding" => pkg'.cur = m /\ pkg'.read = file[m]
        /\ pkg'.pc = "loop" => file[m] = None \/ pkg'.warned
        /\ pkg.warned => pkg'.warned
    BY <1>1 DEF PackageAdd, Imports
  <2> QED BY <1>1, <2>1 DEF ImportInv, Imported, PackageFresh, Touches
<1>4. CASE PackageAdded
  <2>1. /\ pkg.pc = "adding" /\ pkg'.pc = "loop" /\ pkg'.quiet = pkg.quiet
        /\ pkg'.todo = pkg.todo /\ pkg'.warned = pkg.warned
    BY <1>1, <1>4 DEF PackageAdded, Imports
  <2>2. ASSUME NEW n \in pkg.quiet
        PROVE  index'[n] = IF pkg.cur = n THEN file[n] ELSE index[n]
    BY <1>1, <1>4, <2>1 DEF PackageAdded, ImportInv, Imported, PackageFresh
  <2> QED BY <1>1, <2>1, <2>2 DEF ImportInv, Imported, PackageFresh, Touches
<1>5. CASE PackageDiff \/ PackageCommit \/ PackageCommitted
  <2>1. /\ UNCHANGED index /\ pkg'.quiet = pkg.quiet /\ pkg'.todo = pkg.todo
        /\ pkg'.pc \in {"done", "staged", "committing"}
        /\ pkg'.pc # "done" => /\ pkg.pc \in {"loop", "staged"} /\ pkg.todo = {}
                               /\ pkg'.warned = pkg.warned
    BY <1>1, <1>5
    DEF PackageDiff, PackageCommit, PackageCommitted, git, Imports, ImportInv
  <2> QED BY <1>1, <2>1 DEF ImportInv, Imported, PackageFresh, Touches
<1> QED BY <1>2, <1>3, <1>4, <1>5 DEF PackageStep

LEMMA ImportStep == TypeInv /\ ImportInv /\ [Next]_vars => ImportInv'
<1> SUFFICES ASSUME TypeInv, ImportInv, [Next]_vars PROVE ImportInv'
  OBVIOUS
<1>1. ASSUME NEW w \in Workers, NEW n \in Names,
             BeginDelete(w, n) \/ \E v \in Values : BeginPut(w, n, v)
      PROVE  ImportInv'
  <2> PICK r \in Requests : Begin(w, r)
    BY <1>1, Beginnings
  <2> SUFFICES ASSUME NEW m \in pkg'.quiet
               PROVE  Imported(m)'
    BY BeginEffect DEF ImportInv
  <2>1. m \in pkg.quiet /\ m # r.name /\ Imported(m)
    BY BeginEffect DEF ImportInv
  <2>2. PackageFresh(m)' /\ \A v \in Workers : ~Touches(v, m)'
    BY <2>1, BeginEffect DEF Imported, PackageFresh, Touches
  <2> QED BY <2>1, <2>2, BeginEffect DEF Imported
<1>2. CASE Crash
  <2>1. \A n \in pkg.quiet : n # None
    BY DEF TypeInv, TypeOK, Imports
  <2> QED BY <1>2, <2>1 DEF Crash, git, ImportInv, Imported, PackageFresh, Touches, Idle
<1>3. CASE RemoveStaleLock \/ LoseRepo \/ RepairRepo \/ UNCHANGED vars
  BY <1>3 DEF RemoveStaleLock, LoseRepo, RepairRepo, vars, git, ImportInv, Imported, Touches,
              PackageFresh
<1> QED BY <1>1, <1>2, <1>3, WorkerImport, PackageImports, NextCases

-----------------------------------------------------------------------------
(* Requests that meet.                                                     *)

LEMMA LoudInit == Init => LoudInv
BY DEF Init, LoudInv, Attended, Touches, PackageFresh, Idle, Resting

\* What is not touched needs no attention.
LEMMA AttendedStays ==
  ASSUME NEW n \in Names, Attended(n),
         file'[n] = file[n], index'[n] = index[n], head'[n] = head[n],
         PackageFresh(n)' <=> PackageFresh(n),
         \A v \in Workers : Touches(v, n)' <=> Touches(v, n),
         \A v \in Workers : Touches(v, n) => req'[v].pc = req[v].pc /\ req'[v].read = req[v].read
  PROVE  Attended(n)'
<1>1. Ahead(n) => Ahead(n)'
  BY DEF Ahead
<1>2. Publishing(n) => Publishing(n)'
  BY DEF Publishing
<1>3. Checking(n) => Checking(n)'
  BY DEF Checking
<1> QED BY <1>1, <1>2, <1>3 DEF Attended

\* Whoever is ahead, or compares, goes on if it was somebody else's step.
LEMMA OthersGoOn ==
  ASSUME TypeInv, NEW w \in Workers, Moved(w), NEW n \in Names
  PROVE  /\ Ahead(n) /\ file'[n] = file[n] /\ req[w].pc \notin {"writing", "add", "rm"}
              => Ahead(n)'
         /\ \A v \in Workers : v # w => (Touches(v, n)' <=> Touches(v, n)) /\ req'[v] = req[v]
BY DEF Moved, Ahead, Touches

LEMMA WriteAttended ==
  ASSUME TypeInv, NEW w \in Workers, NEW n \in Names, n = req[w].name, Attended(n),
         Truncate(w) \/ Write(w) \/ (Unlink(w) /\ Steps(w, "rm"))
  PROVE  Attended(n)'
<1>1. /\ Moved(w) /\ Touches(w, n)'
      /\ req'[w].pc \in {"writing", "add"} \/ (req'[w].pc = "rm" /\ file'[n] = None)
  <2>1. CASE Truncate(w) \/ Write(w)
    <3>1. Moved(w) /\ req'[w].pc \in {"writing", "add"} /\ req[w].pc # "idle"
      BY <2>1, StepMoves DEF Steps, Truncate, Write
    <3> QED BY <3>1 DEF Moved, Touches
  <2>2. CASE Unlink(w) /\ Steps(w, "rm")
    BY <2>2 DEF Unlink, Steps, Moved, Touches, TypeInv, TypeOK
  <2> QED BY <2>1, <2>2
<1>2. Ahead(n)'
  BY <1>1 DEF Ahead
<1>3. Checking(n)'
  BY <1>1 DEF Checking
<1> QED BY <1>2, <1>3 DEF Attended

LEMMA TakenAttended ==
  ASSUME TypeInv, LockInv, NEW w \in Workers, NEW n \in Names, n = req[w].name, Attended(n),
         \/ StartAdd(w) /\ Taken(w, "adding")
         \/ StartRemove(w) /\ Taken(w, "removing") /\ Removable(n)
         \/ StartCommit(w) /\ Taken(w, "committing")
  PROVE  Attended(n)'
<1>1. /\ Moved(w) /\ Touches(w, n)' /\ UNCHANGED <<file, index, head, pkg>>
      /\ req'[w].pc \in {"adding", "removing", "committing"} /\ req'[w].read = file'[n]
  BY DEF Taken, Moved, Touches, StartAdd, StartRemove, StartCommit, StartGit
<1>2. Checking(n)'
  BY <1>1 DEF Checking
<1>3. PackageFresh(n)' /\ \A v \in Workers : ~Holds(v)
  BY <1>1 DEF Taken, LockInv, PackageHolds, PackageFresh
<1>4. ASSUME NEW v \in Workers, Touches(v, n)', req'[v].pc \in {"adding", "committing"}
      PROVE  req'[v].read = file'[n]
  BY <1>1, <1>3, <1>4 DEF Moved, Holds
<1>5. ASSUME index'[n] # file'[n]
      PROVE  Ahead(n)' \/ Publishing(n)'
  <2>1. CASE req'[w].pc \in {"adding", "committing"} \/ file'[n] = None
    BY <1>1, <2>1 DEF Publishing
  <2>2. CASE req'[w].pc = "removing" /\ file'[n] # None
    <3>1. ~Publishing(n)
      BY <1>3 DEF Publishing, Holds
    <3>2. PICK v \in Workers : Touches(v, n) /\ req[v].pc \in {"writing", "add"}
      BY <1>1, <1>5, <2>2, <3>1 DEF Attended, Ahead
    <3>3. v # w
      BY <2>2, <3>2 DEF StartAdd, StartCommit, StartRemove, StartGit, Taken
    <3> QED BY <1>1, <2>2, <3>2, <3>3 DEF Moved, Ahead, Touches
  <2> QED BY <1>1, <2>1, <2>2
<1> QED BY <1>2, <1>3, <1>4, <1>5 DEF Attended

\* The end of a git process: the others have not held the lock meanwhile.
LEMMA FinishAttended ==
  ASSUME TypeInv, LockInv, NEW w \in Workers, NEW n \in Names, n = req[w].name, Attended(n),
         FinishAdd(w) \/ FinishRemove(w) \/ FinishCommit(w)
  PROVE  Attended(n)'
<1>1. /\ Moved(w) /\ Touches(w, n) /\ Holds(w) /\ ~Holds(w)' /\ UNCHANGED pkg
      /\ req[w].pc \notin {"writing", "add", "rm"}
      /\ file \in [Names -> Contents] /\ index \in [Names -> Contents]
      /\ head \in [Names -> Contents]
  BY StepMoves
     DEF Steps, Touches, Holds, FinishAdd, Release, FinishRemove, FinishCommit, TypeInv, TypeOK
<1>2. PackageFresh(n)'
  BY <1>1 DEF LockInv, PackageHolds, PackageFresh
<1>3. \A v \in Workers : ~Holds(v)'
  BY <1>1 DEF Moved, LockInv, Holds
<1>4. \A v \in Workers : req'[v].pc \notin {"adding", "committing"}
  BY <1>3 DEF Holds
<1>5. index'[n] # head'[n] => Checking(n)'
  <2>1. CASE FinishAdd(w) \/ FinishRemove(w)
    BY <1>1, <2>1, StepMoves DEF Steps, Moved, Touches, Checking
  <2>2. CASE FinishCommit(w)
    BY <1>1, <2>2 DEF FinishCommit
  <2> QED BY <2>1, <2>2
<1>6. index'[n] # file'[n] => Ahead(n)'
  <2>1. CASE FinishAdd(w) \/ FinishCommit(w)
    <3>1. index'[n] = req[w].read /\ UNCHANGED file
      BY <1>1, <2>1 DEF FinishAdd, Release, FinishCommit
    <3>2. req[w].read # file[n] => Ahead(n)
      BY <1>1, <2>1 DEF FinishAdd, Release, FinishCommit, Attended
    <3> QED BY <1>1, <3>1, <3>2, OthersGoOn
  <2>2. CASE FinishRemove(w) /\ index[n] # None
    BY <1>1, <2>2 DEF FinishRemove, Release
  <2>3. CASE FinishRemove(w) /\ index[n] = None
    <3>1. file'[n] = file[n] /\ index'[n] = None
      BY <1>1, <2>3 DEF FinishRemove, Release
    <3>2. ASSUME file[n] # None PROVE ~Publishing(n)
      BY <1>1, <2>3, <3>2 DEF Publishing, LockInv, Holds, FinishRemove, Release
    <3>3. file[n] # None => Ahead(n)
      BY <2>3, <3>2 DEF Attended
    <3> QED BY <1>1, <3>1, <3>3, OthersGoOn
  <2> QED BY <2>1, <2>2, <2>3
<1> QED BY <1>2, <1>4, <1>5, <1>6 DEF Attended

\* A request that says "ok" was nobody's last hope.
LEMMA LeaveAttended ==
  ASSUME TypeInv, NEW w \in Workers, NEW n \in Names, n = req[w].name, Attended(n), Moved(w),
         UNCHANGED <<index, head, pkg>>, file'[n] = file[n],
         \/ req[w].pc = "unlink" /\ req'[w].pc = "idle"
         \/ req[w].pc = "diff" /\ req'[w].pc = "idle" /\ index[n] = head[n]
         \/ req[w].pc = "diff" /\ req'[w].pc = "commit"
  PROVE  Attended(n)'
<1>1. \A v \in Workers : v # w => (Touches(v, n)' <=> Touches(v, n)) /\ req'[v] = req[v]
  BY OthersGoOn
<1>2. Ahead(n) => Ahead(n)'
  BY OthersGoOn
<1>3. Publishing(n) => Publishing(n)'
  BY <1>1 DEF Publishing
<1>4. Checking(n) /\ index[n] # head[n] => Checking(n)'
  BY <1>1 DEF Checking, Moved, Touches
<1>5. ASSUME NEW v \in Workers, Touches(v, n)', req'[v].pc \in {"adding", "committing"}
      PROVE  Touches(v, n) /\ req'[v] = req[v]
  BY <1>1, <1>5
<1>6. PackageFresh(n)' <=> PackageFresh(n)
  BY DEF PackageFresh
<1> QED BY <1>2, <1>3, <1>4, <1>5, <1>6 DEF Attended

LEMMA WorkerAttended ==
  ASSUME TypeInv, LockInv, repo, NEW w \in Workers, WorkerStep(w), NEW n \in Names, Attended(n)
  PROVE  told'[n] \/ Attended(n)'
<1>1. /\ Moved(w) /\ req[w].pc # "idle" /\ UNCHANGED <<repo, pkg, budget>>
      /\ told \in [Names -> BOOLEAN]
  BY WorkerMoves DEF TypeInv, TypeOK
<1>2. CASE n # req[w].name
  <2>1. \A v \in Workers : Touches(v, n)' <=> Touches(v, n)
    BY <1>1, <1>2 DEF Moved, Touches, TypeInv
  <2>2. \A v \in Workers : Touches(v, n) => req'[v] = req[v]
    BY <1>1, <1>2 DEF Moved, Touches
  <2> QED BY <1>2, <2>1, <2>2, WorkerElsewhere, AttendedStays
<1>3. CASE n = req[w].name
  <2>1. CASE GivenUp(w)
    BY <1>1, <1>3, <2>1 DEF GivenUp
  <2>2. CASE Truncate(w) \/ Write(w)
    BY <1>3, <2>2, WriteAttended
  <2>3. CASE Unlink(w)
    <3>1. CASE Steps(w, "rm")
      BY <1>3, <2>3, <3>1, WriteAttended
    <3>2. CASE req'[w].pc = "idle" /\ file[n] = None
      <4>1. file'[n] = file[n] /\ UNCHANGED <<index, head>> /\ req[w].pc = "unlink"
        BY <1>3, <2>3, <3>2 DEF Unlink, git, TypeInv, TypeOK
      <4> QED BY <1>1, <1>3, <3>2, <4>1, LeaveAttended
    <3> QED BY <1>3, <2>3, <3>1, <3>2, StepMoves
  <2>4. CASE Diff(w)
    <3>1. UNCHANGED <<file, index, head>> /\ req[w].pc = "diff"
      BY <2>4 DEF Diff, git
    <3>2. req'[w].pc = "commit" \/ (req'[w].pc = "idle" /\ index[n] = head[n])
      BY <1>3, <2>4, StepMoves DEF Steps
    <3> QED BY <1>1, <1>3, <3>1, <3>2, LeaveAttended
  <2>5. CASE FinishAdd(w) \/ FinishRemove(w) \/ FinishCommit(w)
    BY <1>3, <2>5, FinishAttended
  <2>6. CASE StartAdd(w) \/ StartRemove(w) \/ StartCommit(w)
    BY <1>3, <2>1, <2>6, StartMoves, TakenAttended
  <2> QED BY <2>2, <2>3, <2>4, <2>5, <2>6 DEF WorkerStep
<1> QED BY <1>2, <1>3

LEMMA PackageAttended ==
  ASSUME TypeInv, LockInv, PackageStep, NEW n \in Names, Attended(n)
  PROVE  Attended(n)'
<1>1. /\ UNCHANGED <<file, req>> /\ pkg \in Imports /\ index \in [Names -> Contents]
  BY PackageFile DEF TypeInv, TypeOK
<1>2. /\ (Ahead(n)' <=> Ahead(n)) /\ (Publishing(n)' <=> Publishing(n))
      /\ (Checking(n)' <=> Checking(n))
  BY <1>1 DEF Ahead, Publishing, Checking, Touches
<1>3. (Ahead(n) => Checking(n)) /\ (Publishing(n) => Checking(n))
  BY DEF Ahead, Publishing, Checking
<1>4. PackageFresh(n) => PackageFresh(n)'
  BY PackageReads
<1>5. CASE Configure \/ PackageDiff \/ PackageCommit \/ \E m \in Names : PackageAdd(m)
  <2>1. UNCHANGED <<index, head>>
    BY <1>5 DEF Configure, PackageDiff, PackageCommit, PackageAdd, git
  <2> QED BY <1>1, <1>2, <1>4, <2>1 DEF Attended, Touches
<1>6. CASE PackageAdded
  <2>1. UNCHANGED head /\ index'[n] = IF pkg.cur = n THEN pkg.read ELSE index[n]
    BY <1>1, <1>6 DEF PackageAdded
  <2>2. CASE pkg.cur # n
    BY <1>1, <1>2, <1>4, <2>1, <2>2 DEF Attended, Touches
  <2>3. CASE pkg.cur = n /\ pkg.read = file[n]
    BY <1>1, <1>2, <1>3, <1>4, <2>1, <2>3 DEF Attended, Touches, PackageFresh
  <2>4. CASE pkg.cur = n /\ pkg.read # file[n]
    BY <1>1, <1>2, <1>3, <1>6, <2>1, <2>4 DEF Attended, Touches, PackageFresh, PackageAdded
  <2> QED BY <2>2, <2>3, <2>4
<1>7. CASE PackageCommitted
  BY <1>1, <1>2, <1>4, <1>7 DEF PackageCommitted, Attended, Touches
<1> QED BY <1>5, <1>6, <1>7 DEF PackageStep

LEMMA RestAttended ==
  ASSUME TypeInv, NEW n \in Names, Attended(n),
         Crash \/ RemoveStaleLock \/ LoseRepo \/ RepairRepo \/ UNCHANGED vars
  PROVE  told'[n] \/ Attended(n)'
<1>1. CASE Crash /\ \E w \in Workers : Touches(w, n)
  BY <1>1 DEF Crash
<1>2. CASE Crash /\ \A w \in Workers : ~Touches(w, n)
  <2>1. \A w \in Workers : ~Touches(w, n)'
    BY <1>2 DEF Crash, Touches, Idle
  <2> QED BY <1>2, <2>1, AttendedStays DEF Crash, git, PackageFresh
<1>3. CASE RemoveStaleLock \/ LoseRepo \/ RepairRepo \/ UNCHANGED vars
  BY <1>3, AttendedStays
     DEF RemoveStaleLock, LoseRepo, RepairRepo, vars, git, Touches, PackageFresh
<1> QED BY <1>1, <1>2, <1>3

\* What was told stays told, and an outage is not forgotten.
LEMMA ToldForGood ==
  ASSUME TypeInv, [Next]_vars
  PROVE  /\ \A n \in Names : told[n] => told'[n]
         /\ budget'.outages = 0 => budget.outages = 0 /\ (repo => repo')
<1>1. /\ told \in [Names -> BOOLEAN]
      /\ budget \in [crashes : Nat, outages : Nat, upgrades : Nat]
  BY DEF TypeInv, TypeOK
<1>2. ASSUME NEW w \in Workers, NEW n \in Names,
             BeginDelete(w, n) \/ \E v \in Values : BeginPut(w, n, v)
      PROVE  UNCHANGED <<told, repo, budget>>
  BY <1>2, Beginnings, BeginEffect
<1>3. ASSUME NEW w \in Workers, WorkerStep(w)
      PROVE  /\ \A n \in Names : told[n] => told'[n]
             /\ UNCHANGED <<repo, budget>>
  BY <1>1, <1>3, WorkerMoves
     DEF WorkerStep, Truncate, Write, Unlink, StartAdd, FinishAdd, Release, StartRemove,
         FinishRemove, Diff,
         StartCommit, FinishCommit, StartGit, Skip, Fail, Succeed
<1>4. ASSUME PackageStep
      PROVE  UNCHANGED <<told, repo>> /\ budget'.outages = budget.outages
  <2>1. CASE Configure
    <3>1. budget' = [budget EXCEPT !["upgrades"] = @ + 1]
      BY <2>1 DEF Configure, Spend
    <3> QED BY <1>1, <1>4, <3>1, PackageFile
  <2>2. CASE UNCHANGED budget
    BY <1>4, <2>2, PackageFile
  <2> QED BY <1>4, <2>1, <2>2
          DEF PackageStep, PackageAdd, PackageAdded, PackageDiff, PackageCommit,
          PackageCommitted
<1>5. CASE Crash
  <2>1. budget' = [budget EXCEPT !["crashes"] = @ + 1]
    BY <1>5 DEF Crash, Spend
  <2> QED BY <1>1, <1>5, <2>1 DEF Crash
<1>6. CASE LoseRepo
  <2>1. budget' = [budget EXCEPT !["outages"] = @ + 1]
    BY <1>6 DEF LoseRepo, Spend
  <2>2. budget'.outages = budget.outages + 1 /\ budget.outages \in Nat
    BY <1>1, <2>1
  <2> QED BY <1>6, <2>2 DEF LoseRepo
<1>7. CASE RemoveStaleLock \/ RepairRepo \/ UNCHANGED vars
  BY <1>7 DEF RemoveStaleLock, RepairRepo, vars
<1> QED BY <1>2, <1>3, <1>4, <1>5, <1>6, <1>7, NextCases

LEMMA LoudStep == TypeInv /\ LockInv /\ LoudInv /\ [Next]_vars => LoudInv'
<1> SUFFICES ASSUME TypeInv, LockInv, LoudInv, [Next]_vars, budget'.outages = 0
             PROVE  repo' /\ \A n \in Names : told'[n] \/ Attended(n)'
  BY DEF LoudInv
<1>1. repo /\ repo' /\ budget.outages = 0
  BY ToldForGood DEF LoudInv
<1> SUFFICES ASSUME NEW n \in Names, Attended(n)
             PROVE  told'[n] \/ Attended(n)'
  BY <1>1, ToldForGood DEF LoudInv
<1>2. ASSUME NEW w \in Workers, NEW m \in Names,
             BeginDelete(w, m) \/ \E v \in Values : BeginPut(w, m, v)
      PROVE  Attended(n)'
  <2> PICK r \in Requests : Begin(w, r) /\ r.pc \in {"write", "unlink"}
    BY <1>2, Beginnings
  <2>1. req[w].pc = "idle" /\ ~Touches(w, n) /\ req'[w].pc \in {"write", "unlink"}
    BY BeginEffect DEF TypeInv, Handed, Touches
  <2>2. \A v \in Workers : v # w => /\ req'[v].pc = req[v].pc /\ req'[v].read = req[v].read
                                    /\ (Touches(v, n)' <=> Touches(v, n))
    BY BeginEffect DEF Touches
  <2>3. /\ UNCHANGED <<file, index, head>>
        /\ (PackageFresh(n)' <=> PackageFresh(n))
    BY BeginEffect DEF PackageFresh
  <2>4. Ahead(n) => Ahead(n)'
    BY <2>1, <2>2, <2>3 DEF Ahead
  <2>5. Publishing(n) => Publishing(n)'
    BY <2>1, <2>2, <2>3 DEF Publishing
  <2>6. Checking(n) => Checking(n)'
    BY <2>1, <2>2 DEF Checking
  <2> QED BY <2>1, <2>2, <2>3, <2>4, <2>5, <2>6 DEF Attended
<1> QED BY <1>1, <1>2, WorkerAttended, PackageAttended, RestAttended, NextCases

-----------------------------------------------------------------------------
(* The theorems.                                                           *)

LEMMA LogAlways == Spec => []LogInv
<1>1. Init => LogInv
  BY TypeInit, LockInit, AloneInit, ImportInit, LoudInit DEF LogInv
<1>2. LogInv /\ [Next]_vars => LogInv'
  BY TypeStep, LockStep, AloneStep, ImportStep, LoudStep DEF LogInv
<1> QED BY <1>1, <1>2, PTL DEF Spec

\* The variables keep their types.
THEOREM TypeCorrect == Spec => []TypeOK
<1>1. LogInv => TypeOK
  BY DEF LogInv, TypeInv
<1> QED BY <1>1, LogAlways, PTL

\* While git accepts the repository, a record that no request has in hand is what
\* the last commit has, or an error was answered for it (store.py:32-33).
THEOREM DifferencesAreLoud == Spec => []BrokenLogIsLoud
<1>1. LogInv => BrokenLogIsLoud
  <2> SUFFICES ASSUME LogInv, budget.outages = 0, NEW n \in Untouched, ~told[n]
               PROVE  head[n] = file[n]
    BY DEF BrokenLogIsLoud
  <2>1. n \in Names /\ Attended(n) /\ \A w \in Workers : ~Touches(w, n)
    BY DEF LogInv, LoudInv, Untouched
  <2>2. ~Ahead(n) /\ ~Publishing(n) /\ ~Checking(n)
    BY <2>1 DEF Ahead, Publishing, Checking
  <2> QED BY <2>1, <2>2 DEF Attended
<1> QED BY <1>1, LogAlways, PTL

LEMMA SuccessStep ==
  ASSUME LogInv, [Next]_vars, NEW w \in Workers, req[w].alone, req[w].pc # "idle",
         req'[w].reply = "ok", repo, ~req[w].skipped
  PROVE  head'[req[w].name] = file'[req[w].name]
<1> PICK n \in Names : n = req[w].name
  BY NameOfWorker DEF LogInv
<1>1. /\ TypeInv /\ TypeInv' /\ Achieved(w) /\ req[w].reply = "none"
      /\ req \in [Workers -> Requests]
  BY TypeStep DEF LogInv, AloneInv, TypeInv, TypeOK, Handed
<1>2. req'[w].pc = "idle"
  BY <1>1 DEF TypeInv, Handed
<1>3. CASE WorkerStep(w)
  <2>1. CASE Unlink(w)
    <3>1. file[n] # None
      BY <1>1, <2>1 DEF Achieved, Unlink
    <3> QED BY <1>1, <1>2, <2>1, <3>1, StepMoves DEF Steps
  <2>2. CASE StartAdd(w) \/ StartRemove(w) \/ StartCommit(w)
    <3>1. Fail(w)
      BY <1>1, <1>2, <2>2 DEF StartAdd, StartRemove, StartCommit, StartGit, Requests
    <3> QED BY <1>1, <3>1, ReplyMoves DEF Fail
  <2>3. CASE Diff(w)
    <3>1. UNCHANGED <<file, head>> /\ index[n] = file[n]
      BY <1>1, <2>3 DEF Diff, git, Achieved
    <3>2. index[n] = head[n]
      BY <1>1, <1>2, <2>3, StepMoves DEF Steps
    <3> QED BY <3>1, <3>2
  <2>4. CASE FinishCommit(w)
    BY <1>1, <2>4 DEF FinishCommit, Achieved, TypeInv, TypeOK
  <2>5. CASE Truncate(w) \/ Write(w) \/ FinishAdd(w) \/ FinishRemove(w)
    BY <1>1, <1>2, <2>5, StepMoves DEF Steps
  <2> QED BY <1>3, <2>1, <2>2, <2>3, <2>4, <2>5 DEF WorkerStep
<1>4. ASSUME NEW v \in Workers, v # w, WorkerStep(v)
      PROVE  FALSE
  BY <1>1, <1>4, WorkerMoves DEF Moved
<1>5. ASSUME NEW v \in Workers, NEW m \in Names,
             BeginDelete(v, m) \/ \E x \in Values : BeginPut(v, m, x)
      PROVE  FALSE
  <2> PICK r \in Requests : Begin(v, r)
    BY <1>5, Beginnings
  <2> QED BY <1>1, <1>2, BeginEffect
<1>6. CASE PackageStep \/ RemoveStaleLock \/ LoseRepo \/ RepairRepo \/ UNCHANGED vars
  BY <1>1, <1>6, PackageFile DEF RemoveStaleLock, LoseRepo, RepairRepo, vars
<1>7. CASE Crash
  BY <1>7 DEF Crash, Idle
<1> QED BY <1>3, <1>4, <1>5, <1>6, <1>7, NextCases

\* "ok" to a request that had its record for itself and found the repository
\* usable: the last commit has it (store.py:75-112).
THEOREM SuccessesAreLogged == Spec => SuccessIsLogged
<1>1. LogInv /\ [Next]_vars =>
        [\A w \in Workers :
           LET n == req[w].name IN
           req[w].alone /\ req[w].pc # "idle" /\ req'[w].reply = "ok"
             /\ repo /\ ~req[w].skipped => head'[n] = file'[n]]_vars
  BY SuccessStep
<1> QED BY <1>1, LogAlways, PTL DEF Spec, SuccessIsLogged

LEMMA UpgradeStep ==
  ASSUME LogInv, [Next]_vars, CleanUpgrade, NEW n \in pkg.quiet, file[n] # None
  PROVE  head'[n] = file[n]
<1>1. TypeInv /\ n \in Names /\ Imported(n) /\ pkg \in Imports
  BY DEF LogInv, ImportInv, TypeInv, TypeOK, Imports
<1>2. CASE PackageDiff
  <2>1. repo /\ index = head /\ pkg.pc = "loop" /\ pkg.todo = {} /\ UNCHANGED head
    BY <1>1, <1>2 DEF PackageDiff, git, CleanUpgrade, Imports
  <2> QED BY <1>1, <2>1 DEF Imported, CleanUpgrade
<1>3. CASE PackageCommitted
  <2>1. pkg.pc = "committing" /\ pkg.todo = {} /\ head' = index
    BY <1>3 DEF PackageCommitted, LogInv, ImportInv
  <2> QED BY <1>1, <2>1 DEF Imported, CleanUpgrade
<1>4. CASE Configure \/ PackageAdded \/ PackageCommit \/ \E m \in Names : PackageAdd(m)
  <2>1. pkg'.pc # "done" \/ pkg'.warned
    BY <1>1, <1>4 DEF Configure, PackageAdded, PackageAdd, PackageCommit, Imports, Resting
  <2> QED BY <2>1 DEF CleanUpgrade
<1>5. pkg'.pc = pkg.pc => FALSE
  BY DEF CleanUpgrade
<1>6. ASSUME NEW w \in Workers, NEW m \in Names,
             BeginDelete(w, m) \/ \E v \in Values : BeginPut(w, m, v)
      PROVE  FALSE
  BY <1>1, <1>5, <1>6, Beginnings, BeginEffect
<1>7. ASSUME NEW w \in Workers, WorkerStep(w)
      PROVE  FALSE
  BY <1>1, <1>5, <1>7, WorkerMoves
<1>8. CASE Crash \/ RemoveStaleLock \/ LoseRepo \/ RepairRepo \/ UNCHANGED vars
  BY <1>5, <1>8 DEF Crash, RemoveStaleLock, LoseRepo, RepairRepo, vars
<1> QED BY <1>2, <1>3, <1>4, <1>6, <1>7, <1>8, NextCases DEF PackageStep

\* An upgrade that warns of nothing has every record it had for itself in the last
\* commit (postinst:88-99).
THEOREM UpgradesAreComplete == Spec => UpgradeImportsRecords
<1>1. LogInv /\ [Next]_vars =>
        [CleanUpgrade => \A n \in pkg.quiet : file[n] # None => head'[n] = file[n]]_vars
  BY UpgradeStep
<1> QED BY <1>1, LogAlways, PTL DEF Spec, UpgradeImportsRecords
-----------------------------------------------------------------------------
(* The records, whatever becomes of the log.                               *)

\* What a deletion in hand is to leave is nothing.
Deleted ==
  \A w \in Workers :
    req[w].pc \in {"unlink", "rm", "removing"} => req[w].value = None

\* What a beginning leaves of the calls.
LEMMA BeginCalls ==
  ASSUME TypeInv, NEW w \in Workers, NEW r \in Requests, Begin(w, r)
  PROVE  /\ req[w].pc = "idle"
         /\ req'[w].pc = r.pc /\ req'[w].name = r.name /\ req'[w].value = r.value
         /\ req'[w].alone = ({v \in Workers : Touches(v, r.name)} = {})
         /\ \A v \in Workers : v # w =>
              /\ req'[v].pc = req[v].pc /\ req'[v].name = req[v].name
              /\ req'[v].value = req[v].value
              /\ Touches(v, r.name) => req'[v].alone = FALSE
              /\ ~Touches(v, r.name) => req'[v].alone = req[v].alone
         /\ UNCHANGED file
<1>1. \A v \in Workers : req[v] \in Requests
  BY DEF TypeInv, TypeOK
<1>2. req[w].pc = "idle" /\ UNCHANGED file
  BY DEF Begin
<1>3. req'[w] = [r EXCEPT !.alone = ({v \in Workers : Touches(v, r.name)} = {})]
  BY DEF Begin
<1>4. ASSUME NEW v \in Workers, v # w
      PROVE  req'[v] = IF Touches(v, r.name) THEN [req[v] EXCEPT !.alone = FALSE] ELSE req[v]
  BY <1>4 DEF Begin
<1>5. /\ req'[w].pc = r.pc /\ req'[w].name = r.name /\ req'[w].value = r.value
      /\ req'[w].alone = ({v \in Workers : Touches(v, r.name)} = {})
  BY <1>3 DEF Requests
<1>6. ASSUME NEW v \in Workers, v # w
      PROVE  /\ req'[v].pc = req[v].pc /\ req'[v].name = req[v].name
             /\ req'[v].value = req[v].value
             /\ Touches(v, r.name) => req'[v].alone = FALSE
             /\ ~Touches(v, r.name) => req'[v].alone = req[v].alone
  <2>1. req[v] \in Requests
    BY <1>1
  <2>2. CASE Touches(v, r.name)
    BY <1>4, <1>6, <2>1, <2>2 DEF Requests
  <2>3. CASE ~Touches(v, r.name)
    <3>1. req'[v] = req[v]
      BY <1>4, <1>6, <2>3
    <3> QED BY <2>3, <3>1
  <2> QED BY <2>2, <2>3
<1> QED BY <1>2, <1>5, <1>6

LEMMA DeletedStep == TypeInv /\ Deleted /\ [Next]_vars => Deleted'
<1> SUFFICES ASSUME TypeInv, Deleted, [Next]_vars PROVE Deleted'
  OBVIOUS
<1>1. ASSUME NEW w \in Workers, WorkerStep(w)
      PROVE  Deleted'
  <2>1. Moved(w)
    BY <1>1, WorkerMoves
  <2>2. ASSUME req'[w].pc \in {"unlink", "rm", "removing"}
        PROVE  req[w].pc \in {"unlink", "rm"}
    <3>1. CASE Unlink(w)
      BY <3>1 DEF Unlink
    <3>2. CASE StartRemove(w)
      BY <3>2 DEF StartRemove, StartGit
    <3>3. CASE GivenUp(w) \/ Taken(w, "adding") \/ Taken(w, "committing")
      BY <2>2, <3>3 DEF GivenUp, Taken
    <3> QED BY <1>1, <2>2, <3>1, <3>2, <3>3, StepMoves, StartMoves DEF WorkerStep, Steps
  <2> QED BY <2>1, <2>2 DEF Moved, Deleted
<1>2. ASSUME NEW w \in Workers, NEW n \in Names,
             BeginDelete(w, n) \/ \E v \in Values : BeginPut(w, n, v)
      PROVE  Deleted'
  <2> PICK r \in Requests : Begin(w, r) /\ r.pc \in {"write", "unlink"}
                             /\ (r.pc = "unlink" => r.value = None)
    BY <1>2, Beginnings
  <2>1. /\ req'[w].pc = r.pc /\ req'[w].value = r.value
        /\ \A v \in Workers : v # w => /\ req'[v].pc = req[v].pc
                                       /\ req'[v].value = req[v].value
    BY BeginCalls
  <2> QED BY <2>1 DEF Deleted
<1>3. CASE PackageStep \/ RemoveStaleLock \/ LoseRepo \/ RepairRepo \/ UNCHANGED vars
  BY <1>3, PackageFile DEF RemoveStaleLock, LoseRepo, RepairRepo, vars, Deleted
<1>4. CASE Crash
  BY <1>4 DEF Crash, Idle, Deleted
<1> QED BY <1>1, <1>2, <1>3, <1>4, NextCases

\* A call has taken effect.
Past(label) == label \notin {"idle", "write", "writing", "unlink"}

Calls == [name : Names \cup {None}, value : Contents, alone : BOOLEAN, done : BOOLEAN]

\* One call moves on.
LEMMA CallGoesOn ==
  ASSUME TypeInv, NEW w \in Workers, Moved(w), req'[w].pc # "idle"
  PROVE  [v \in Workers |-> CallOf(v)]' =
           [[v \in Workers |-> CallOf(v)] EXCEPT ![w].done = Past(req'[w].pc)]
<1>1. ASSUME NEW v \in Workers, v # w
      PROVE  CallOf(v)' = CallOf(v)
  BY <1>1 DEF Moved, CallOf
<1>2. CallOf(w)' = [CallOf(w) EXCEPT !.done = Past(req'[w].pc)]
  BY DEF Moved, CallOf, Past
<1> QED BY <1>1, <1>2

LEMMA CallEnds ==
  ASSUME TypeInv, NEW w \in Workers, Moved(w), req'[w].pc = "idle"
  PROVE  [v \in Workers |-> CallOf(v)]' =
           [[v \in Workers |-> CallOf(v)] EXCEPT ![w] = Store!NoCall]
<1>1. ASSUME NEW v \in Workers, v # w
      PROVE  CallOf(v)' = CallOf(v)
  BY <1>1 DEF Moved, CallOf
<1>2. req'[w].alone \in BOOLEAN
  BY DEF Moved, Requests
<1>3. CallOf(w)' = Store!NoCall
  BY <1>2 DEF Moved, CallOf, Store!NoCall
<1> QED BY <1>1, <1>3

\* A step that leaves the file alone, of a call that has taken effect.
LEMMA LaterSteps ==
  ASSUME TypeInv, NEW w \in Workers, Moved(w), Past(req[w].pc), UNCHANGED file,
         req'[w].pc = "idle" \/ Past(req'[w].pc)
  PROVE  Store!Next \/ UNCHANGED Store!vars
<1>1. CallOf(w).name # None /\ CallOf(w).done
  BY NameOfWorker DEF CallOf, Past
<1>2. CASE req'[w].pc = "idle"
  <2>1. Store!Answer(w)
    BY <1>1, <1>2, CallEnds DEF Store!Answer
  <2> QED BY <2>1 DEF Store!Next
<1>3. CASE req'[w].pc # "idle"
  <2>1. Past(req'[w].pc) = CallOf(w).done
    BY <1>1, <1>3 DEF Past, CallOf
  <2>2. [CallOf(w) EXCEPT !.done = CallOf(w).done] = CallOf(w)
    BY DEF CallOf
  <2>3. UNCHANGED [v \in Workers |-> CallOf(v)]
    BY <1>3, <2>1, <2>2, CallGoesOn
  <2> QED BY <2>3 DEF Store!vars
<1> QED BY <1>2, <1>3

LEMMA TruncateStored ==
  ASSUME TypeInv, NEW w \in Workers, Truncate(w)
  PROVE  Store!Tear(w)
<1>1. /\ Steps(w, "writing") /\ req[w].pc = "write"
      /\ file' = [file EXCEPT ![req[w].name] = Torn]
  BY StepMoves DEF Truncate
<1>2. /\ CallOf(w).name # None /\ CallOf(w).name = req[w].name
      /\ CallOf(w).value # None /\ ~CallOf(w).done
  BY <1>1, NameOfWorker DEF CallOf, TypeInv, Handed
<1>3. ASSUME NEW v \in Workers
      PROVE  CallOf(v)' = CallOf(v)
  BY <1>1 DEF Steps, Moved, CallOf
<1> QED BY <1>1, <1>2, <1>3 DEF Store!Tear

\* What is written is lost or mixed only with another request at the file.
LEMMA WriteStored ==
  ASSUME TypeInv, AloneInv, NEW w \in Workers, Write(w)
  PROVE  Store!TakeEffect(w)
<1> DEFINE n == req[w].name
<1>1. Steps(w, "add") /\ req[w].pc = "writing" /\ req[w].value # None
  BY StepMoves DEF Write, TypeInv, Handed
<1>2. /\ CallOf(w).name # None /\ CallOf(w).name = n /\ ~CallOf(w).done
      /\ CallOf(w).value = req[w].value /\ CallOf(w).alone = req[w].alone
  BY <1>1, NameOfWorker DEF CallOf
<1>3. [v \in Workers |-> CallOf(v)]' = [[v \in Workers |-> CallOf(v)] EXCEPT ![w].done = TRUE]
  BY <1>1, CallGoesOn DEF Steps, Past
<1>4. req[w].alone => file[n] = Torn
  BY <1>1 DEF AloneInv, Achieved
<1>5. PICK c \in Contents :
        /\ file' = [file EXCEPT ![n] = c]
        /\ IF file[n] = None THEN c = None
           ELSE c = req[w].value \/ (~req[w].alone /\ c \in {file[n], Torn})
  BY DEF Write
<1>6. c \in Store!Outcomes(CallOf(w))
  BY <1>1, <1>2, <1>4, <1>5 DEF Store!Outcomes
<1> QED BY <1>2, <1>3, <1>5, <1>6 DEF Store!TakeEffect

LEMMA UnlinkStored ==
  ASSUME TypeInv, Deleted, NEW w \in Workers, Unlink(w)
  PROVE  Store!TakeEffect(w) \/ Store!Answer(w)
<1>1. req[w].pc = "unlink" /\ req[w].value = None
      /\ file' = [file EXCEPT ![req[w].name] = None] /\ file \in [Names -> Contents]
  BY DEF Unlink, Deleted, TypeInv, TypeOK
<1>2. CallOf(w).name # None /\ ~CallOf(w).done /\ CallOf(w).value = None
      /\ CallOf(w).name = req[w].name
  BY <1>1, NameOfWorker DEF CallOf
<1>3. CASE Steps(w, "rm")
  <2>1. [v \in Workers |-> CallOf(v)]' = [[v \in Workers |-> CallOf(v)] EXCEPT ![w].done = TRUE]
    BY <1>3, CallGoesOn DEF Steps, Past
  <2> QED BY <1>1, <1>2, <2>1 DEF Store!TakeEffect, Store!Outcomes
<1>4. CASE Moved(w) /\ req'[w].pc = "idle" /\ file[req[w].name] = None
  <2>1. UNCHANGED file
    BY <1>1, <1>4
  <2> QED BY <1>2, <1>4, <2>1, CallEnds DEF Store!Answer
<1> QED BY <1>3, <1>4, StepMoves

\* "git rm" removes the file only of a request that was not alone.
LEMMA RemoveStored ==
  ASSUME TypeInv, AloneInv, Deleted, NEW w \in Workers, FinishRemove(w)
  PROVE  Store!TakeEffect(w) \/ (UNCHANGED file /\ Steps(w, "diff"))
<1> DEFINE n == req[w].name
<1>1. /\ Steps(w, "diff") /\ req[w].pc = "removing" /\ req[w].value = None
      /\ file \in [Names -> Contents] /\ n \in Names /\ n # None
  BY StepMoves, NameOfWorker DEF FinishRemove, Release, Deleted, TypeInv, TypeOK
<1>2. CASE index[n] = None \/ file[n] = None
  BY <1>1, <1>2 DEF FinishRemove, Release
<1>3. CASE index[n] # None /\ file[n] # None
  <2>1. file' = [file EXCEPT ![n] = None]
    BY <1>3 DEF FinishRemove, Release
  <2>2. ~req[w].alone
    BY <1>1, <1>3 DEF AloneInv, Achieved
  <2>3. [v \in Workers |-> CallOf(v)]' = [[v \in Workers |-> CallOf(v)] EXCEPT ![w].done = TRUE]
    BY <1>1, CallGoesOn DEF Steps, Past
  <2>4. CallOf(w).name = n /\ CallOf(w).value = None /\ ~CallOf(w).alone
    BY <1>1, <2>2 DEF CallOf
  <2> QED BY <1>1, <2>1, <2>3, <2>4 DEF Store!TakeEffect, Store!Outcomes
<1> QED BY <1>2, <1>3

LEMMA WorkerStored ==
  ASSUME TypeInv, AloneInv, Deleted, NEW w \in Workers, WorkerStep(w)
  PROVE  Store!Next \/ UNCHANGED Store!vars
<1>1. Moved(w)
  BY WorkerMoves
<1>2. CASE Truncate(w) \/ Write(w)
  BY <1>2, TruncateStored, WriteStored DEF Store!Next
<1>3. CASE Unlink(w)
  BY <1>3, UnlinkStored DEF Store!Next
<1>4. CASE FinishRemove(w)
  <2>1. Past(req[w].pc)
    BY <1>4 DEF FinishRemove, Release, Past
  <2>2. CASE Store!TakeEffect(w)
    BY <2>2 DEF Store!Next
  <2>3. CASE UNCHANGED file /\ Steps(w, "diff")
    BY <1>1, <2>1, <2>3, LaterSteps DEF Steps, Past
  <2> QED BY <1>4, <2>2, <2>3, RemoveStored
<1>5. CASE StartAdd(w) \/ StartRemove(w) \/ StartCommit(w)
  <2>1. UNCHANGED file /\ Past(req[w].pc)
    BY <1>5 DEF StartAdd, StartRemove, StartCommit, StartGit, Past
  <2>2. req'[w].pc = "idle" \/ Past(req'[w].pc)
    BY <1>5, StartMoves DEF GivenUp, Taken, Past
  <2> QED BY <1>1, <2>1, <2>2, LaterSteps
<1>6. CASE FinishAdd(w) \/ Diff(w) \/ FinishCommit(w)
  <2>1. UNCHANGED file /\ Past(req[w].pc)
    BY <1>6 DEF FinishAdd, Release, Diff, FinishCommit, Past
  <2>2. req'[w].pc = "idle" \/ Past(req'[w].pc)
    BY <1>6, StepMoves DEF Steps, Past
  <2> QED BY <1>1, <2>1, <2>2, LaterSteps
<1> QED BY <1>2, <1>3, <1>4, <1>5, <1>6 DEF WorkerStep

LEMMA BeginStored ==
  ASSUME TypeInv, NEW w \in Workers, NEW r \in Requests, Begin(w, r),
         r.pc \in {"write", "unlink"}, r.name \in Names, r.value \in Values \cup {None}
  PROVE  Store!Next
<1> DEFINE Others == {u \in Workers : CallOf(u).name = r.name}
           After(u) == IF u = w THEN [name |-> r.name, value |-> r.value, done |-> FALSE,
                                      alone |-> (Others = {})]
                       ELSE IF u \in Others THEN [CallOf(u) EXCEPT !.alone = FALSE]
                       ELSE CallOf(u)
<1>1. Others = {v \in Workers : Touches(v, r.name)}
  BY DEF CallOf, Touches
<1>2. CallOf(w)' = After(w)
  BY <1>1, BeginCalls DEF CallOf
<1>3. ASSUME NEW v \in Workers, v # w
      PROVE  CallOf(v)' = After(v)
  <2>1. /\ req'[v].pc = req[v].pc /\ req'[v].name = req[v].name
        /\ req'[v].value = req[v].value
        /\ Touches(v, r.name) => req'[v].alone = FALSE
        /\ ~Touches(v, r.name) => req'[v].alone = req[v].alone
    BY <1>3, BeginCalls
  <2>2. v \in Others <=> Touches(v, r.name)
    BY <1>1
  <2>3. CASE Touches(v, r.name)
    <3>1. CallOf(v)' \in Calls /\ CallOf(v) \in Calls
      BY <2>1, <2>3 DEF CallOf, Calls, Requests, TypeInv, TypeOK
    <3>2. /\ CallOf(v)'.name = CallOf(v).name /\ CallOf(v)'.value = CallOf(v).value
          /\ CallOf(v)'.alone = FALSE /\ CallOf(v)'.done = CallOf(v).done
      BY <2>1, <2>3 DEF CallOf
    <3>3. CallOf(v)' = [CallOf(v) EXCEPT !.alone = FALSE]
      BY <3>1, <3>2 DEF Calls
    <3> QED BY <1>3, <2>2, <2>3, <3>3
  <2>4. CASE ~Touches(v, r.name)
    <3>1. CallOf(v)' = CallOf(v)
      BY <2>1, <2>4 DEF CallOf
    <3> QED BY <1>3, <2>2, <2>4, <3>1
  <2> QED BY <2>3, <2>4
<1>4. [v \in Workers |-> CallOf(v)]' = [v \in Workers |-> After(v)]
  BY <1>2, <1>3
<1>5. CallOf(w).name = None /\ UNCHANGED file
  BY BeginCalls DEF CallOf, TypeInv, Handed
<1>6. Store!Call(w, r.name, r.value)
  BY <1>4, <1>5 DEF Store!Call
<1> QED BY <1>6 DEF Store!Next

LEMMA StoredStep ==
  TypeInv /\ AloneInv /\ Deleted /\ [Next]_vars => [Store!Next]_(Store!vars)
<1> SUFFICES ASSUME TypeInv, AloneInv, Deleted, [Next]_vars
             PROVE  Store!Next \/ UNCHANGED Store!vars
  OBVIOUS
<1>1. ASSUME NEW w \in Workers, NEW n \in Names,
             BeginDelete(w, n) \/ \E v \in Values : BeginPut(w, n, v)
      PROVE  Store!Next
  <2> PICK r \in Requests : /\ Begin(w, r) /\ r.name = n
                            /\ r.pc \in {"write", "unlink"}
                            /\ r.value \in Values \cup {None}
    BY <1>1, Beginnings
  <2> QED BY BeginStored
<1>2. ASSUME NEW w \in Workers, WorkerStep(w)
      PROVE  Store!Next \/ UNCHANGED Store!vars
  BY <1>2, WorkerStored
<1>3. CASE PackageStep \/ RemoveStaleLock \/ LoseRepo \/ RepairRepo \/ UNCHANGED vars
  <2>1. UNCHANGED <<file, req>>
    BY <1>3, PackageFile DEF RemoveStaleLock, LoseRepo, RepairRepo, vars
  <2> QED BY <2>1 DEF Store!vars, CallOf
<1>4. CASE Crash
  <2>1. UNCHANGED file /\ \A v \in Workers : CallOf(v)' = Store!NoCall
    BY <1>4 DEF Crash, Idle, CallOf, Store!NoCall
  <2>2. Store!Kill
    BY <2>1 DEF Store!Kill
  <2> QED BY <2>2 DEF Store!Next
<1> QED BY <1>1, <1>2, <1>3, <1>4, NextCases

\* The records on disk are those of a store in which a put or a delete takes effect
\* once, before its answer, whatever becomes of the log (store.py:75-112).
THEOREM RecordsAreKept == Spec => KeepsRecords
<1>1. Init => Store!Init /\ Deleted
  <2> SUFFICES ASSUME Init PROVE Store!Init /\ Deleted
    OBVIOUS
  <2>1. ASSUME NEW w \in Workers
        PROVE  req[w].pc = "idle" /\ CallOf(w) = Store!NoCall
    BY DEF Init, Idle, CallOf, Store!NoCall
  <2>2. file = [n \in Names |-> None]
    BY DEF Init
  <2>3. [w \in Workers |-> CallOf(w)] = [w \in Workers |-> Store!NoCall]
    BY <2>1
  <2> QED BY <2>1, <2>2, <2>3 DEF Store!Init, Deleted
<1>2. LogInv /\ Deleted /\ [Next]_vars => Deleted'
  BY DeletedStep DEF LogInv
<1>3. LogInv /\ Deleted /\ [Next]_vars => [Store!Next]_(Store!vars)
  BY StoredStep DEF LogInv
<1> QED BY <1>1, <1>2, <1>3, LogAlways, PTL DEF Spec, KeepsRecords, Store!Spec
=============================================================================
