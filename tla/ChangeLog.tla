----------------------------- MODULE ChangeLog -----------------------------
(***************************************************************************)
(* The change log of the instance records: Store.put and Store.delete      *)
(* (controlplane/lmnradius/store.py) write a file and commit it with git,  *)
(* one git process after another, and the package's postinst imports what  *)
(* is not committed yet while the service goes on running.                 *)
(*                                                                         *)
(* A git process that changes the index creates .git/index.lock first and  *)
(* fails at once if it is there; what it read under the lock it publishes  *)
(* when it removes the lock.  One that is killed leaves the lock behind.   *)
(***************************************************************************)
EXTENDS Naturals

CONSTANTS
  Workers,     \* requests that can be in flight at once
  Names,       \* instances
  Values,      \* what a record can say
  None,        \* no such file, no such entry
  Torn,        \* a file that is empty, or the mixture of two writes: no record
  MaxCrashes,  \* how often the service is killed in a behaviour
  MaxOutages,  \* how often the repository becomes unusable in a behaviour
  MaxUpgrades  \* how often the package is configured in a behaviour

ASSUME ChangeLogConstants ==
  /\ {MaxCrashes, MaxOutages, MaxUpgrades} \subseteq Nat
  /\ {None, Torn} \cap Values = {} /\ None # Torn /\ None \notin Names

VARIABLES
  file,      \* instances/<name>.yaml
  index,     \* its entry in git's index
  head,      \* its content in the last commit
  locked,    \* does .git/index.lock exist?
  repo,      \* does git accept the directory as a repository?
  req,       \* what each worker is doing
  pkg,       \* what the postinst is doing
  told,      \* history: was an error answered, or a warning logged, for it?
  budget     \* crashes, outages and upgrades so far

git  == <<index, head, locked>>
vars == <<file, git, repo, req, pkg, told, budget>>

Contents == Values \cup {None, Torn}

\* `alone': has no other request for the instance overlapped this one?
Idle == [pc |-> "idle", op |-> "none", name |-> None, value |-> None,
         read |-> None, skipped |-> FALSE, alone |-> TRUE, reply |-> "none"]

\* `quiet' is history: the instances no request has touched since it began.
Resting == [pc |-> "idle", todo |-> {}, cur |-> None, read |-> None,
            warned |-> FALSE, quiet |-> {}]

Requests ==
  [pc : {"idle", "write", "writing", "add", "adding", "unlink", "rm", "removing",
         "diff", "commit", "committing"},
   op : {"none", "put", "delete"}, name : Names \cup {None}, value : Contents,
   read : Contents, skipped : BOOLEAN, alone : BOOLEAN, reply : {"none", "ok", "error"}]

Imports ==
  [pc : {"idle", "loop", "adding", "staged", "committing", "done"}, todo : SUBSET Names,
   cur : Names \cup {None}, read : Contents, warned : BOOLEAN, quiet : SUBSET Names]

TypeOK ==
  /\ file  \in [Names -> Contents]
  /\ index \in [Names -> Contents]
  /\ head  \in [Names -> Contents]
  /\ locked \in BOOLEAN
  /\ repo   \in BOOLEAN
  /\ req \in [Workers -> Requests]
  /\ pkg \in Imports
  /\ told \in [Names -> BOOLEAN]
  /\ budget \in [crashes : Nat, outages : Nat, upgrades : Nat]

Init ==
  /\ file  = [n \in Names |-> None]
  /\ index = [n \in Names |-> None]
  /\ head  = [n \in Names |-> None]
  /\ locked = FALSE
  /\ repo   = TRUE
  /\ req  = [w \in Workers |-> Idle]
  /\ pkg  = Resting
  /\ told = [n \in Names |-> FALSE]
  /\ budget = [crashes |-> 0, outages |-> 0, upgrades |-> 0]

-----------------------------------------------------------------------------
(* git.                                                                    *)

\* "git add -- f" stages what is in the directory, a removal too; it fails for
\* a path neither the directory nor the index knows.
Addable(n) == file[n] # None \/ index[n] # None

\* "git rm -- f" succeeds on a path that is not in the index
\* (--ignore-unmatch) or whose file is gone; a file that is back is removed
\* with its entry, but only if it is the one in the index and in HEAD.
Removable(n) ==
  \/ index[n] = None
  \/ file[n] = None
  \/ file[n] = index[n] /\ index[n] = head[n]

\* "git commit -- f" takes the file as it is in the directory, whatever is
\* staged, and fails when that is what HEAD has.
Committable(n) == file[n] # head[n] /\ (index[n] # None \/ head[n] # None)

-----------------------------------------------------------------------------
(* Requests.                                                               *)

Touches(w, n) == req[w].name = n

Goto(w, label) == req' = [req EXCEPT ![w].pc = label]

Reply(w, answer) == req' = [req EXCEPT ![w] = [Idle EXCEPT !.reply = answer]]

Succeed(w) == Reply(w, "ok") /\ UNCHANGED told

Fail(w) ==
  /\ Reply(w, "error")
  /\ told' = [told EXCEPT ![req[w].name] = TRUE]

\* The code takes no lock: two requests for one instance may overlap.
Begin(w, r) ==
  LET others == {v \in Workers : Touches(v, r.name)} IN
  /\ req[w].pc = "idle"
  /\ req' = [v \in Workers |->
               IF v = w THEN [r EXCEPT !.alone = (others = {})]
               ELSE IF v \in others THEN [req[v] EXCEPT !.alone = FALSE]
               ELSE req[v]]
  /\ pkg' = [pkg EXCEPT !.quiet = @ \ {r.name}]
  /\ UNCHANGED <<file, git, repo, told, budget>>

BeginPut(w, n, v) ==
  Begin(w, [Idle EXCEPT !.pc = "write", !.op = "put", !.name = n, !.value = v])

\* A record that cannot be read is "not found".
BeginDelete(w, n) ==
  /\ file[n] \in Values
  /\ Begin(w, [Idle EXCEPT !.pc = "unlink", !.op = "delete", !.name = n])

\* Store.put: the file first, which is emptied when it is opened, ...
Truncate(w) ==
  /\ req[w].pc = "write"
  /\ file' = [file EXCEPT ![req[w].name] = Torn]
  /\ Goto(w, "writing")
  /\ UNCHANGED <<git, repo, pkg, told, budget>>

\* ... then "git add".  What is written to a file that is unlinked is lost; where
\* another request has had the file it may be lost as well, or mix with its write.
Write(w) ==
  LET n == req[w].name IN
  /\ req[w].pc = "writing"
  /\ \E c \in Contents :
       /\ file' = [file EXCEPT ![n] = c]
       /\ IF file[n] = None THEN c = None
          ELSE c = req[w].value \/ (~req[w].alone /\ c \in {file[n], Torn})
  /\ Goto(w, "add")
  /\ UNCHANGED <<git, repo, pkg, told, budget>>

\* Mutation: the file is left to "git rm", whatever that answers.
Unlink_LeftToGit(w) ==
  /\ req[w].pc = "unlink"
  /\ Goto(w, "rm")
  /\ UNCHANGED <<file, git, repo, pkg, told, budget>>

\* Store.delete: a file that is gone by now needs no commit; one that goes
\* between the question and the unlink is an error.
Unlink(w) ==
  LET n == req[w].name IN
  /\ req[w].pc = "unlink"
  /\ file' = [file EXCEPT ![n] = None]
  /\ \/ file[n] = None /\ (Succeed(w) \/ Fail(w))
     \/ file[n] # None /\ Goto(w, "rm") /\ UNCHANGED told
  /\ UNCHANGED <<git, repo, pkg, budget>>

\* Mutation: _git does not look at the exit code.
StartGit_ExitIgnored(w, from, to, accepts) ==
  /\ req[w].pc = from
  /\ \/ /\ ~repo \/ locked \/ ~accepts
        /\ Goto(w, "diff")
        /\ UNCHANGED locked
     \/ /\ repo /\ ~locked /\ accepts
        /\ locked' = TRUE
        /\ req' = [req EXCEPT ![w].pc = to, ![w].read = file[req[w].name]]
  /\ UNCHANGED <<file, index, head, repo, pkg, told, budget>>

\* Outside a repository a call is a warning; the next one asks for itself, and
\* after the commit there is none.
Skip(w) ==
  /\ told' = [told EXCEPT ![req[w].name] = TRUE]
  /\ \/ req[w].pc = "commit" /\ Reply(w, "ok")
     \/ /\ req[w].pc # "commit"
        /\ req' = [req EXCEPT ![w].pc = "diff", ![w].skipped = TRUE]

\* _git: a git process that changes the index; one that fails is a StoreError,
\* also if the repository is lost after _git has asked for it.
StartGit(w, from, to, accepts) ==
  /\ req[w].pc = from
  /\ \/ /\ ~repo
        /\ Skip(w) \/ Fail(w)
        /\ UNCHANGED locked
     \/ /\ repo /\ (locked \/ ~accepts)
        /\ Fail(w)
        /\ UNCHANGED locked
     \/ /\ repo /\ ~locked /\ accepts
        /\ locked' = TRUE
        /\ req' = [req EXCEPT ![w].pc = to, ![w].read = file[req[w].name]]
        /\ UNCHANGED told
  /\ UNCHANGED <<file, index, head, repo, pkg, budget>>

StartAdd(w)    == StartGit(w, "add", "adding", Addable(req[w].name))
StartRemove(w) == StartGit(w, "rm", "removing", Removable(req[w].name))
StartCommit(w) == StartGit(w, "commit", "committing", Committable(req[w].name))

\* A git process that has staged something ends.
Release(w) ==
  /\ locked' = FALSE
  /\ req' = [req EXCEPT ![w].pc = "diff", ![w].read = None]

FinishAdd(w) ==
  /\ req[w].pc = "adding"
  /\ index' = [index EXCEPT ![req[w].name] = req[w].read]
  /\ Release(w)
  /\ UNCHANGED <<file, head, repo, pkg, told, budget>>

\* A file that somebody has written again is removed along with its entry.
FinishRemove(w) ==
  LET n == req[w].name IN
  /\ req[w].pc = "removing"
  /\ file'  = [file  EXCEPT ![n] = IF index[n] = None THEN @ ELSE None]
  /\ index' = [index EXCEPT ![n] = None]
  /\ Release(w)
  /\ UNCHANGED <<head, repo, pkg, told, budget>>

\* Mutation: "git diff" without --cached compares the file with the index.
Diff_WorkTree(w) ==
  LET n == req[w].name IN
  /\ req[w].pc = "diff"
  /\ \/ (~repo \/ file[n] = index[n]) /\ Succeed(w)
     \/ repo /\ file[n] # index[n] /\ Goto(w, "commit") /\ UNCHANGED told
  /\ UNCHANGED <<file, git, repo, pkg, budget>>

\* _commit: "git diff --cached" takes no lock; nothing staged, nothing to do.  If
\* the repository is lost between the question for it and the diff, the diff
\* fails, which counts as something staged.
Diff(w) ==
  LET n == req[w].name IN
  /\ req[w].pc = "diff"
  /\ \/ (~repo \/ index[n] = head[n]) /\ Succeed(w)
     \/ (~repo \/ index[n] # head[n]) /\ Goto(w, "commit") /\ UNCHANGED told
  /\ UNCHANGED <<file, git, repo, pkg, budget>>

FinishCommit(w) ==
  LET n == req[w].name IN
  /\ req[w].pc = "committing"
  /\ head'  = [head  EXCEPT ![n] = req[w].read]
  /\ index' = [index EXCEPT ![n] = req[w].read]
  /\ locked' = FALSE
  /\ Succeed(w)
  /\ UNCHANGED <<file, repo, pkg, budget>>

-----------------------------------------------------------------------------
(* The package's postinst, on an upgrade: the service keeps running.        *)

Spend(what, bound) ==
  /\ budget[what] < bound
  /\ budget' = [budget EXCEPT ![what] = @ + 1]

Untouched == {n \in Names : \A w \in Workers : ~Touches(w, n)}

\* Mutation: only what is staged already is imported.
Configure_NoAdd ==
  /\ pkg.pc \in {"idle", "done"}
  /\ Spend("upgrades", MaxUpgrades)
  /\ pkg' = IF repo THEN [Resting EXCEPT !.pc = "loop", !.quiet = Untouched]
                    ELSE [Resting EXCEPT !.pc = "done", !.warned = TRUE]
  /\ UNCHANGED <<file, git, repo, req, told>>

\* Mutation: the loop runs on an unexpanded *.yaml if there is no record.
Configure_LiteralGlob ==
  /\ pkg.pc \in {"idle", "done"}
  /\ Spend("upgrades", MaxUpgrades)
  /\ pkg' = IF repo
              THEN [Resting EXCEPT !.pc = "loop", !.quiet = Untouched,
                                   !.todo = IF \E n \in Names : file[n] # None
                                              THEN {n \in Names : file[n] # None}
                                              ELSE {None}]
              ELSE [Resting EXCEPT !.pc = "done", !.warned = TRUE]
  /\ UNCHANGED <<file, git, repo, req, told>>

\* An unusable repository is warned about and left alone.
Configure ==
  /\ pkg.pc \in {"idle", "done"}
  /\ Spend("upgrades", MaxUpgrades)
  /\ pkg' = IF repo
              THEN [Resting EXCEPT !.pc = "loop", !.quiet = Untouched,
                                   !.todo = {n \in Names : file[n] # None}]
              ELSE [Resting EXCEPT !.pc = "done", !.warned = TRUE]
  /\ UNCHANGED <<file, git, repo, req, told>>

\* "git add" of one record; a failure is a warning and the loop goes on.
PackageAdd(n) ==
  /\ pkg.pc = "loop" /\ n \in pkg.todo
  /\ \/ /\ file[n] = None
        /\ pkg' = [pkg EXCEPT !.todo = @ \ {n}]
        /\ UNCHANGED locked
     \/ /\ file[n] # None /\ (~repo \/ locked)
        /\ pkg' = [pkg EXCEPT !.todo = @ \ {n}, !.warned = TRUE]
        /\ UNCHANGED locked
     \/ /\ file[n] # None /\ repo /\ ~locked
        /\ locked' = TRUE
        /\ pkg' = [pkg EXCEPT !.pc = "adding", !.todo = @ \ {n}, !.cur = n,
                             !.read = file[n]]
  /\ UNCHANGED <<file, index, head, repo, req, told, budget>>

PackageAdded ==
  /\ pkg.pc = "adding"
  /\ index' = [index EXCEPT ![pkg.cur] = pkg.read]
  /\ locked' = FALSE
  /\ pkg' = [pkg EXCEPT !.pc = "loop", !.cur = None, !.read = None]
  /\ UNCHANGED <<file, head, repo, req, told, budget>>

\* "git diff --cached" of everything.
PackageDiff ==
  /\ pkg.pc = "loop" /\ pkg.todo = {}
  /\ pkg' = IF ~repo THEN [pkg EXCEPT !.pc = "done", !.warned = TRUE]
            ELSE [pkg EXCEPT !.pc = IF index = head THEN "done" ELSE "staged"]
  /\ UNCHANGED <<file, git, repo, req, told, budget>>

\* All that is staged by now, whoever staged it, goes into one commit, which fails
\* if the service has committed it meanwhile.
PackageCommit ==
  /\ pkg.pc = "staged"
  /\ \/ /\ ~repo \/ locked \/ index = head
        /\ pkg' = [pkg EXCEPT !.pc = "done", !.warned = TRUE]
        /\ UNCHANGED locked
     \/ /\ repo /\ index # head /\ ~locked
        /\ locked' = TRUE
        /\ pkg' = [pkg EXCEPT !.pc = "committing"]
  /\ UNCHANGED <<file, index, head, repo, req, told, budget>>

PackageCommitted ==
  /\ pkg.pc = "committing"
  /\ head' = index
  /\ locked' = FALSE
  /\ pkg' = [pkg EXCEPT !.pc = "done"]
  /\ UNCHANGED <<file, index, repo, req, told, budget>>

-----------------------------------------------------------------------------
(* What happens to them.                                                   *)

\* systemd kills the service and the git processes it has started.
Crash ==
  /\ Spend("crashes", MaxCrashes)
  /\ req' = [w \in Workers |-> Idle]
  /\ told' = [n \in Names |-> told[n] \/ \E w \in Workers : Touches(w, n)]
  /\ UNCHANGED <<file, git, repo, pkg>>

Holds(w) == req[w].pc \in {"adding", "removing", "committing"}

\* The operator removes a lock that a killed git has left behind.
RemoveStaleLock ==
  /\ locked
  /\ \A w \in Workers : ~Holds(w)
  /\ pkg.pc \notin {"adding", "committing"}
  /\ locked' = FALSE
  /\ UNCHANGED <<file, index, head, repo, req, pkg, told, budget>>

\* A foreign owner, for instance, makes git refuse the directory until repaired.
LoseRepo ==
  /\ repo
  /\ Spend("outages", MaxOutages)
  /\ repo' = FALSE
  /\ UNCHANGED <<file, git, req, pkg, told>>

RepairRepo ==
  /\ ~repo
  /\ repo' = TRUE
  /\ UNCHANGED <<file, git, req, pkg, told, budget>>

Next ==
  \/ \E w \in Workers :
       \/ \E n \in Names : BeginDelete(w, n) \/ \E v \in Values : BeginPut(w, n, v)
       \/ Truncate(w) \/ Write(w) \/ Unlink(w)
       \/ StartAdd(w) \/ FinishAdd(w) \/ StartRemove(w) \/ FinishRemove(w)
       \/ Diff(w) \/ StartCommit(w) \/ FinishCommit(w)
  \/ Configure \/ \E n \in Names : PackageAdd(n)
  \/ PackageAdded \/ PackageDiff \/ PackageCommit \/ PackageCommitted
  \/ Crash \/ RemoveStaleLock \/ LoseRepo \/ RepairRepo

Spec == Init /\ [][Next]_vars

-----------------------------------------------------------------------------
(* Properties.                                                             *)

\* "A silently broken change log is worse than a loud one" (store.py:32-33): as
\* long as git accepts the repository, and whatever racing requests, an upgrade
\* and crashes do to each other, a record that differs from the last commit was
\* answered with an error.
BrokenLogIsLoud ==
  budget.outages = 0 => \A n \in Untouched : head[n] = file[n] \/ told[n]

\* The answer "ok" to a request that no other one for its instance overlapped,
\* and that found the repository usable, means that the last commit has what it
\* did, whatever failed before and whatever is committed next to it
\* (store.py:75-112).
SuccessIsLogged ==
  [][\A w \in Workers :
       LET n == req[w].name IN
       req[w].alone /\ req[w].pc # "idle" /\ req'[w].reply = "ok"
         /\ repo /\ ~req[w].skipped => head'[n] = file'[n]]_vars

\* A configure that ends without a warning.
CleanUpgrade ==
  /\ pkg.pc # "done" /\ ~pkg.warned
  /\ pkg'.pc = "done" /\ ~pkg'.warned

\* An upgrade without a warning leaves no record that it had for itself out of
\* the log, whether it was never added or never committed (postinst:88-99).
UpgradeImportsRecords ==
  [][CleanUpgrade =>
       \A n \in pkg.quiet : file[n] # None => head'[n] = file[n]]_vars
=============================================================================
