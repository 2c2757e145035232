------------------------------- MODULE EapCa -------------------------------
(***************************************************************************)
(* The dedicated EAP certificate authority (controlplane/lmnradius/ca.py)  *)
(* behind POST /v1/ca and POST /v1/instances/{name}/cert (api.py), and the *)
(* containers that serve what it issued.                                   *)
(*                                                                         *)
(* Its whole state is files, and every file is opened with O_TRUNC and     *)
(* written in place: between the two it is there and empty ("Torn"), and a *)
(* crash can leave it so.  A key pair is a number; a certificate is the    *)
(* pair it is about and the pair that signed it.                           *)
(***************************************************************************)
EXTENDS Naturals, Sequences

CONSTANTS
  Workers,     \* requests that can be in flight at once
  Names,       \* instances
  Phrases,     \* passphrases an operator may type
  None,        \* the file does not exist
  Torn,        \* the file exists and is empty
  Exclusive,   \* TRUE: one request at a time for the CA, and one per instance
  MaxPairs,    \* how many key pairs are generated in a behaviour
  MaxCrashes   \* how often the control plane is killed in a behaviour

ASSUME EapCaConstants ==
  /\ Exclusive \in BOOLEAN
  /\ MaxPairs \in Nat
  /\ MaxCrashes \in Nat

CaKey     == <<"ca", "ca.key.pem">>
CaCert    == <<"ca", "ca.cert.pem">>
Key(n)    == <<n, "server.key">>
Cert(n)   == <<n, "server.pem">>
Anchor(n) == <<n, "ca.pem">>

Paths == {CaKey, CaCert} \cup (Names \X {"server.key", "server.pem", "ca.pem"})

Pairs == 1 .. MaxPairs

\* What a file can hold: a private key, encrypted or not, or a certificate.
Contents ==
  [pair : Pairs, phrase : Phrases \cup {None}] \cup [pub : Pairs, by : Pairs]

\* A file that is missing or empty is neither a key nor a certificate.
ASSUME EapCaNoContents ==
  None # Torn /\ None \notin Contents /\ Torn \notin Contents /\ None \notin Names

VARIABLES
  disk,      \* certs_dir
  req,       \* what each worker is doing
  serving,   \* the certificate an instance's radiusd was started with
  exported,  \* history: the anchors handed out to be installed on clients
  pairs,     \* key pairs generated so far
  crashes

vars == <<disk, req, serving, exported, pairs, crashes>>

Idle == [op |-> "idle", for |-> None, phrase |-> None, issuer |-> None,
         writes |-> <<>>, open |-> FALSE, reply |-> "none"]

TypeOK ==
  /\ disk \in [Paths -> Contents \cup {None, Torn}]
  /\ \A w \in Workers :
       /\ req[w].op \in {"idle", "init", "issue"}
       /\ req[w].for \in Names \cup {CaKey, None}
       /\ req[w].phrase \in Phrases \cup {None}
       /\ req[w].issuer \in Contents \cup {None}
       /\ req[w].writes \in Seq(Paths \X Contents)
       /\ req[w].open \in BOOLEAN
       /\ req[w].reply \in {"none", "created", "exists", "issued", "refused"}
  /\ serving \in [Names -> Contents \cup {None}]
  /\ exported \subseteq Contents
  /\ pairs \in 0 .. MaxPairs
  /\ crashes \in 0 .. MaxCrashes

Init ==
  /\ disk = [p \in Paths |-> None]
  /\ req = [w \in Workers |-> Idle]
  /\ serving = [n \in Names |-> None]
  /\ exported = {}
  /\ pairs = 0
  /\ crashes = 0

-----------------------------------------------------------------------------
\* The code takes no lock on certs_dir; whether two requests meet on the CA or
\* on one instance is up to those who send them.
Free(target) == Exclusive => \A w \in Workers : req[w].for # target

Answer(w, a) == req' = [req EXCEPT ![w] = [Idle EXCEPT !.reply = a]]

NewPair ==
  /\ pairs < MaxPairs
  /\ pairs' = pairs + 1

EncryptedKey(p, phrase) == [pair |-> p, phrase |-> phrase]
PlainKey(p)             == [pair |-> p, phrase |-> None]
Certificate(p, signer)  == [pub |-> p, by |-> signer]

\* Mutation: no guard against a CA that is there already.
InitCa_Unguarded(w, phrase) ==
  /\ req[w].op = "idle" /\ Free(CaKey)
  /\ NewPair
  /\ req' = [req EXCEPT ![w] =
               [Idle EXCEPT !.op = "init", !.for = CaKey,
                            !.writes = << <<CaKey, EncryptedKey(pairs', phrase)>>,
                                          <<CaCert, Certificate(pairs', pairs')>> >>]]
  /\ UNCHANGED <<disk, serving, exported, crashes>>

\* Mutation: the certificate is written before its key.
InitCa_CertFirst(w, phrase) ==
  /\ req[w].op = "idle" /\ Free(CaKey)
  /\ \/ disk[CaCert] # None /\ Answer(w, "exists") /\ UNCHANGED pairs
     \/ /\ disk[CaCert] = None
        /\ NewPair
        /\ req' = [req EXCEPT ![w] =
                     [Idle EXCEPT !.op = "init", !.for = CaKey,
                                  !.writes = << <<CaCert, Certificate(pairs', pairs')>>,
                                                <<CaKey, EncryptedKey(pairs', phrase)>> >>]]
  /\ UNCHANGED <<disk, serving, exported, crashes>>

\* POST /v1/ca: refused if a certificate exists, whatever is in it.  The key is
\* generated (for seconds) between that check and the first write.
InitCa(w, phrase) ==
  /\ req[w].op = "idle" /\ Free(CaKey)
  /\ \/ disk[CaCert] # None /\ Answer(w, "exists") /\ UNCHANGED pairs
     \/ /\ disk[CaCert] = None
        /\ NewPair
        /\ req' = [req EXCEPT ![w] =
                     [Idle EXCEPT !.op = "init", !.for = CaKey,
                                  !.writes = << <<CaKey, EncryptedKey(pairs', phrase)>>,
                                                <<CaCert, Certificate(pairs', pairs')>> >>]]
  /\ UNCHANGED <<disk, serving, exported, crashes>>

\* POST /v1/instances/{name}/cert: both CA files must exist; the certificate is
\* read first.
IssueServerCert(w, n, phrase) ==
  /\ req[w].op = "idle" /\ Free(n)
  /\ \/ (disk[CaCert] \in {None, Torn} \/ disk[CaKey] = None) /\ Answer(w, "refused")
     \/ /\ disk[CaCert] \notin {None, Torn} /\ disk[CaKey] # None
        /\ req' = [req EXCEPT ![w] =
                     [Idle EXCEPT !.op = "issue", !.for = n, !.phrase = phrase,
                                  !.issuer = disk[CaCert]]]
  /\ UNCHANGED <<disk, serving, exported, pairs, crashes>>

\* The CA key as it is by now opens only with the passphrase it was made with.
Unlocks(phrase) == disk[CaKey] # Torn /\ disk[CaKey].phrase = phrase

\* Mutation: a key that is there already is kept when a certificate is renewed.
Sign_KeepKey(w) ==
  LET n == req[w].for IN
  /\ req[w].op = "issue" /\ req[w].writes = <<>>
  /\ \/ ~Unlocks(req[w].phrase) /\ Answer(w, "refused") /\ UNCHANGED pairs
     \/ /\ Unlocks(req[w].phrase)
        /\ NewPair
        /\ req' = [req EXCEPT ![w].writes =
                     (IF disk[Key(n)] = None THEN << <<Key(n), PlainKey(pairs')>> >> ELSE <<>>)
                     \o << <<Cert(n), Certificate(pairs', disk[CaKey].pair)>>,
                           <<Anchor(n), req[w].issuer>> >>]
  /\ UNCHANGED <<disk, serving, exported, crashes>>

\* A fresh server key is signed; the certificate read before is its anchor.
Sign(w) ==
  LET n == req[w].for IN
  /\ req[w].op = "issue" /\ req[w].writes = <<>>
  /\ \/ ~Unlocks(req[w].phrase) /\ Answer(w, "refused") /\ UNCHANGED pairs
     \/ /\ Unlocks(req[w].phrase)
        /\ NewPair
        /\ req' = [req EXCEPT ![w].writes =
                     << <<Key(n), PlainKey(pairs')>>,
                        <<Cert(n), Certificate(pairs', disk[CaKey].pair)>>,
                        <<Anchor(n), req[w].issuer>> >>]
  /\ UNCHANGED <<disk, serving, exported, crashes>>

\* _write_file, first half: open(O_CREAT | O_TRUNC).
Truncate(w) ==
  /\ req[w].writes # <<>> /\ ~req[w].open
  /\ disk' = [disk EXCEPT ![Head(req[w].writes)[1]] = Torn]
  /\ req' = [req EXCEPT ![w].open = TRUE]
  /\ UNCHANGED <<serving, exported, pairs, crashes>>

\* Second half: the data, all of it when the file is closed.  The last file of
\* a request is followed by its answer.
Flush(w) ==
  LET path == Head(req[w].writes)[1]
      rest == Tail(req[w].writes)
  IN
  /\ req[w].open
  /\ disk' = [disk EXCEPT ![path] = Head(req[w].writes)[2]]
  /\ \/ rest # <<>> /\ req' = [req EXCEPT ![w].writes = rest, ![w].open = FALSE]
     \/ rest = <<>> /\ req[w].op = "init"  /\ Answer(w, "created")
     \/ rest = <<>> /\ req[w].op = "issue" /\ Answer(w, "issued")
  /\ UNCHANGED <<serving, exported, pairs, crashes>>

\* GET /v1/ca/export: the operator installs the anchor on the clients.
ExportCa ==
  /\ disk[CaCert] \notin {None, Torn}
  /\ exported' = exported \cup {disk[CaCert]}
  /\ UNCHANGED <<disk, req, serving, pairs, crashes>>

\* radiusd -XC accepts a certificate with the key that belongs to it.
Usable(n) ==
  /\ disk[Key(n)]  \notin {None, Torn}
  /\ disk[Cert(n)] \notin {None, Torn}
  /\ disk[Anchor(n)] # Torn
  /\ disk[Key(n)].pair = disk[Cert(n)].pub

\* Mutation: radiusd is started without its configuration check.
StartContainer_Unchecked(n) ==
  /\ None \notin {disk[Key(n)], disk[Cert(n)], disk[Anchor(n)]}
  /\ serving' = [serving EXCEPT ![n] = disk[Cert(n)]]
  /\ UNCHANGED <<disk, req, exported, pairs, crashes>>

\* A container starts: it is only created if all three files exist, and radiusd
\* only serves what its configuration check accepts.
StartContainer(n) ==
  /\ None \notin {disk[Key(n)], disk[Cert(n)], disk[Anchor(n)]}
  /\ serving' = [serving EXCEPT ![n] = IF Usable(n) THEN disk[Cert(n)] ELSE None]
  /\ UNCHANGED <<disk, req, exported, pairs, crashes>>

\* The service is killed: requests are lost, files stay as they are.
Crash ==
  /\ crashes < MaxCrashes
  /\ crashes' = crashes + 1
  /\ req' = [w \in Workers |-> Idle]
  /\ UNCHANGED <<disk, serving, exported, pairs>>

Next ==
  \/ \E w \in Workers :
       \/ \E p \in Phrases : InitCa(w, p) \/ \E n \in Names : IssueServerCert(w, n, p)
       \/ Sign(w) \/ Truncate(w) \/ Flush(w)
  \/ ExportCa
  \/ \E n \in Names : StartContainer(n)
  \/ Crash

Spec == Init /\ [][Next]_vars

-----------------------------------------------------------------------------
(* Properties.                                                             *)

Complete(path) == disk[path] \notin {None, Torn}

\* The key is on disk before its certificate, so whenever the process dies a CA
\* that has a certificate can sign (ca.py:208-209).
CaCanSign ==
  Complete(CaCert) => Complete(CaKey) /\ disk[CaKey].pair = disk[CaCert].pub

\* What a container serves verifies against every anchor ever handed out,
\* whatever was created, renewed or interrupted since (ca.py:1-13).
ServedVerifies ==
  \A n \in Names, a \in exported : serving[n] # None => serving[n].by = a.pub

\* After an answer "issued", with no other request for the instance in flight,
\* the disk holds a certificate, its key and the anchor that verifies it, although
\* a re-issue overwrites the three one after another (ca.py:334-341).
IssuedIsUsable ==
  [][\A w \in Workers, n \in Names :
       /\ req[w].for = n /\ req'[w].reply = "issued"
       /\ \A v \in Workers \ {w} : req[v].for # n
       =>
         /\ Usable(n)'
         /\ disk'[Cert(n)].by = disk'[Anchor(n)].pub
         /\ disk'[Anchor(n)] = disk'[CaCert]]_vars
=============================================================================
