----------------------------- MODULE RecordStore -----------------------------
(***************************************************************************)
(* The store of instance records as its callers see it: a call that puts   *)
(* or deletes a record takes effect once, before it is answered, whatever  *)
(* becomes of the change log.  ControlPlane has its Put and RemoveRecord   *)
(* from this, without the tearing; ChangeLog has every git process, and    *)
(* implements this one (ChangeLogStored).                                  *)
(***************************************************************************)
CONSTANTS
  Workers, Names, Values, None,
  Torn   \* a record that cannot be read

VARIABLES
  record,  \* what is on disk for each instance
  call     \* what each worker has called for and not been answered

vars == <<record, call>>

\* `value' is what the record is to become, None for a deletion; `alone': has no
\* other call for the record overlapped this one?
NoCall == [name |-> None, value |-> None, done |-> FALSE, alone |-> TRUE]

Init ==
  /\ record = [n \in Names |-> None]
  /\ call   = [w \in Workers |-> NoCall]

Call(w, n, v) ==
  LET others == {u \in Workers : call[u].name = n} IN
  /\ call[w].name = None
  /\ call' = [u \in Workers |->
                IF u = w THEN [name |-> n, value |-> v, done |-> FALSE,
                               alone |-> (others = {})]
                ELSE IF u \in others THEN [call[u] EXCEPT !.alone = FALSE]
                ELSE call[u]]
  /\ UNCHANGED record

\* A record cannot be read while it is written.
Tear(w) ==
  LET c == call[w] IN
  /\ c.name # None /\ c.value # None /\ ~c.done
  /\ record' = [record EXCEPT ![c.name] = Torn]
  /\ UNCHANGED call

\* What a call may leave: a put that meets another call can be lost, or mix with it.
Outcomes(c) ==
  IF c.alone \/ c.value = None THEN {c.value} ELSE {c.value, record[c.name], Torn}

\* Once; but a deletion that meets another call may hit what that one has put.
TakeEffect(w) ==
  LET c == call[w] IN
  /\ c.name # None
  /\ ~c.done \/ (c.value = None /\ ~c.alone)
  /\ \E r \in Outcomes(c) : record' = [record EXCEPT ![c.name] = r]
  /\ call' = [call EXCEPT ![w].done = TRUE]

\* Success or error; only a deletion of what is gone has no effect before it.
Answer(w) ==
  LET c == call[w] IN
  /\ c.name # None
  /\ c.done \/ (c.value = None /\ record[c.name] = None)
  /\ call' = [call EXCEPT ![w] = NoCall]
  /\ UNCHANGED record

\* The service is killed: what was being written stays as it is.
Kill ==
  /\ call' = [w \in Workers |-> NoCall]
  /\ UNCHANGED record

Next ==
  \/ \E w \in Workers :
       \/ \E n \in Names, v \in Values \cup {None} : Call(w, n, v)
       \/ Tear(w) \/ TakeEffect(w) \/ Answer(w)
  \/ Kill

Spec == Init /\ [][Next]_vars
=============================================================================
