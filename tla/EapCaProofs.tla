---------------------------- MODULE EapCaProofs ----------------------------
(***************************************************************************)
(* What EapCa.tla promises, for every number of instances, workers and     *)
(* passphrases and for any crash, provided that operators send one request *)
(* for the CA at a time and one per instance (Exclusive).                  *)
(*                                                                         *)
(* The inductive invariant CaInv says how far each request in flight has   *)
(* come: which of its files are still to be written and what the others    *)
(* hold by now.  A request that creates the CA runs while there is no      *)
(* complete CA certificate, one that issues a server certificate while     *)
(* there is one, so the two never meet on the CA's files.                  *)
(***************************************************************************)
EXTENDS EapCa, SequenceTheorems, TLAPS

Keys         == [pair : Pairs, phrase : Phrases \cup {None}]
Certificates == [pub : Pairs, by : Pairs]

Requests ==
  [op : {"idle", "init", "issue"}, for : Names \cup {CaKey, None},
   phrase : Phrases \cup {None}, issuer : Contents \cup {None},
   writes : Seq(Paths \X Contents), open : BOOLEAN,
   reply : {"none", "created", "exists", "issued", "refused"}]

TypeInv ==
  /\ disk \in [Paths -> Contents \cup {None, Torn}]
  /\ disk[CaKey] \in Keys \cup {None, Torn}
  /\ disk[CaCert] \in Certificates \cup {None, Torn}
  /\ req \in [Workers -> Requests]
  /\ serving \in [Names -> Contents \cup {None}]
  /\ exported \subseteq Contents
  /\ pairs \in 0 .. MaxPairs
  /\ crashes \in 0 .. MaxCrashes

\* An init has its key written before it touches the certificate, and until it
\* is done there is no complete CA certificate.
InitStage(r) ==
  /\ r.for = CaKey
  /\ \E p \in Pairs, f \in Phrases :
       \/ /\ r.writes = << <<CaKey, EncryptedKey(p, f)>>, <<CaCert, Certificate(p, p)>> >>
          /\ disk[CaCert] = None
       \/ /\ r.writes = << <<CaCert, Certificate(p, p)>> >>
          /\ disk[CaKey] = EncryptedKey(p, f)
          /\ disk[CaCert] \in {None, Torn}

\* An issue works under the complete CA certificate it has read; key, certificate
\* and anchor follow one another.
IssueStage(r) ==
  LET n == r.for
      i == r.issuer
  IN
  /\ n \in Names
  /\ i = disk[CaCert] /\ i \in Certificates
  /\ \/ r.writes = <<>> /\ r.open = FALSE
     \/ \E p \in Pairs :
          \/ r.writes = << <<Key(n), PlainKey(p)>>, <<Cert(n), Certificate(p, i.pub)>>,
                           <<Anchor(n), i>> >>
          \/ /\ r.writes = << <<Cert(n), Certificate(p, i.pub)>>, <<Anchor(n), i>> >>
             /\ disk[Key(n)] = PlainKey(p)
          \/ /\ r.writes = << <<Anchor(n), i>> >>
             /\ disk[Key(n)] = PlainKey(p)
             /\ disk[Cert(n)] = Certificate(p, i.pub)

StageInv ==
  \A w \in Workers :
    /\ req[w].op = "idle" => req[w].writes = <<>> /\ req[w].open = FALSE
    /\ req[w].op = "init" => InitStage(req[w])
    /\ req[w].op = "issue" => IssueStage(req[w])

\* Requests in flight are for different targets.
ApartInv ==
  \A v, w \in Workers :
    v # w /\ req[v].op # "idle" /\ req[w].op # "idle" => req[v].for # req[w].for

\* Whatever has been signed, served or exported goes back to the certificate
\* that is there.
SignedInv ==
  /\ \A n \in Names :
       /\ disk[Cert(n)] \notin {None, Torn} =>
            disk[CaCert] \in Certificates /\ disk[Cert(n)].by = disk[CaCert].pub
       /\ serving[n] # None =>
            disk[CaCert] \in Certificates /\ serving[n].by = disk[CaCert].pub
  /\ \A a \in exported : a = disk[CaCert]

CaInv == TypeInv /\ StageInv /\ ApartInv /\ CaCanSign /\ SignedInv

-----------------------------------------------------------------------------
(* Facts about the data.                                                   *)

\* The files of the CA and those of the instances are different files.
LEMMA DistinctPaths ==
  /\ CaKey \in Paths /\ CaCert \in Paths /\ CaKey # CaCert
  /\ \A n \in Names :
       /\ {Key(n), Cert(n), Anchor(n)} \subseteq Paths
       /\ Key(n) # Cert(n) /\ Key(n) # Anchor(n) /\ Cert(n) # Anchor(n)
       /\ CaKey \notin {Key(n), Cert(n), Anchor(n)}
       /\ CaCert \notin {Key(n), Cert(n), Anchor(n)}
  /\ \A m, n \in Names :
       m # n => {Key(m), Cert(m), Anchor(m)} \cap {Key(n), Cert(n), Anchor(n)} = {}
  BY DEF CaKey, CaCert, Key, Cert, Anchor, Paths

\* A key or a certificate is a content, and neither is a missing or empty file.
LEMMA Values ==
  /\ Keys \subseteq Contents /\ Certificates \subseteq Contents
  /\ None \notin Contents /\ Torn \notin Contents /\ None # Torn
  /\ \A p \in Pairs, f \in Phrases : EncryptedKey(p, f) \in Keys
  /\ \A p \in Pairs : PlainKey(p) \in Keys
  /\ \A p, q \in Pairs : Certificate(p, q) \in Certificates
  BY EapCaNoContents DEF Keys, Certificates, Contents, EncryptedKey, PlainKey, Certificate

\* What is left of a list of writes after the first.
LEMMA Lists ==
  /\ \A a : Head(<<a>>) = a /\ Tail(<<a>>) = <<>> /\ <<a>> # <<>>
  /\ \A a, b : Head(<<a, b>>) = a /\ Tail(<<a, b>>) = <<b>> /\ <<a, b>> # <<>>
  /\ \A a, b, c : Head(<<a, b, c>>) = a /\ Tail(<<a, b, c>>) = <<b, c>> /\ <<a, b, c>> # <<>>
  OBVIOUS

\* An idle worker has no file to write.
LEMMA IdleRequest ==
  Idle \in Requests /\ Idle.op = "idle" /\ Idle.writes = <<>> /\ Idle.open = FALSE
  BY DEF Idle, Requests

\* The CA starts without a file, a request or an anchor.
LEMMA CaInit == Init => CaInv
  <1> SUFFICES ASSUME Init PROVE CaInv
    OBVIOUS
  <1> USE DEF Init
  <1>1. Idle \in Requests /\ Idle.op = "idle" /\ Idle.writes = <<>> /\ Idle.open = FALSE
    BY IdleRequest
  <1>2. TypeInv
    BY <1>1, DistinctPaths, EapCaConstants DEF TypeInv
  <1>3. StageInv /\ ApartInv
    BY <1>1 DEF StageInv, ApartInv
  <1>4. CaCanSign /\ SignedInv
    BY DistinctPaths DEF CaCanSign, SignedInv, Complete
  <1> QED
    BY <1>2, <1>3, <1>4 DEF CaInv

-----------------------------------------------------------------------------
(* Who else is at work.                                                    *)

\* While the CA is being created no other request is in flight.
LEMMA InitIsAlone ==
  ASSUME CaInv, NEW w \in Workers, req[w].op = "init", NEW v \in Workers, v # w
  PROVE  req[v].op = "idle"
  <1> USE DEF CaInv
  <1>1. disk[CaCert] \notin Certificates /\ req[w].for = CaKey
    BY Values DEF StageInv, InitStage
  <1>2. req[v].op # "issue"
    BY <1>1 DEF StageInv, IssueStage
  <1>3. req[v].op # "init"
    <2> SUFFICES ASSUME req[v].op = "init" PROVE FALSE
      OBVIOUS
    <2>1. req[v].for = CaKey
      BY DEF StageInv, InitStage
    <2> QED
      BY <1>1, <2>1 DEF ApartInv
  <1> QED
    BY <1>2, <1>3 DEF TypeInv, Requests

\* While a server certificate is issued the others issue for other instances.
LEMMA IssueHasItsInstance ==
  ASSUME CaInv, NEW w \in Workers, req[w].op = "issue", NEW v \in Workers, v # w,
         req[v].op # "idle"
  PROVE  req[v].op = "issue" /\ req[v].for \in Names /\ req[v].for # req[w].for
  <1> USE DEF CaInv
  <1>1. req[v].op # "init"
    BY InitIsAlone
  <1>2. req[v].op = "issue"
    BY <1>1 DEF TypeInv, Requests
  <1> QED
    BY <1>2 DEF ApartInv, StageInv, IssueStage

\* A step of an issue: one file of its instance is written, and the request is
\* a stage further or answered.
LEMMA IssueWrites ==
  ASSUME CaInv, NEW w \in Workers, req[w].op = "issue", NEW path,
         path \in {Key(req[w].for), Cert(req[w].for), Anchor(req[w].for)},
         disk' \in [Paths -> Contents \cup {None, Torn}],
         \A q \in Paths : q # path => disk'[q] = disk[q],
         path = Cert(req[w].for) =>
           disk'[path] = Torn \/ disk'[path].by = disk[CaCert].pub,
         req' \in [Workers -> Requests],
         \A v \in Workers : v # w => req'[v] = req[v],
         \/ req'[w].op = "idle" /\ req'[w].writes = <<>> /\ req'[w].open = FALSE
         \/ req'[w].op = "issue" /\ req'[w].for = req[w].for /\ IssueStage(req[w])',
         UNCHANGED <<serving, exported, pairs, crashes>>
  PROVE  CaInv'
  <1> DEFINE n == req[w].for
  <1>1. n \in Names /\ disk[CaCert] \in Certificates
    BY DEF CaInv, StageInv, IssueStage
  <1>2. disk'[CaCert] = disk[CaCert] /\ disk'[CaKey] = disk[CaKey]
    BY <1>1, DistinctPaths
  <1>3. TypeInv'
    BY <1>2 DEF CaInv, TypeInv
  <1>4. ApartInv'
    BY DEF CaInv, ApartInv
  <1>5. StageInv'
    <2> SUFFICES ASSUME NEW v \in Workers, v # w
                 PROVE  /\ req'[v].op = "idle" => req'[v].writes = <<>> /\ req'[v].open = FALSE
                        /\ req'[v].op = "init" => InitStage(req[v])'
                        /\ req'[v].op = "issue" => IssueStage(req[v])'
      BY DEF StageInv
    <2>1. CASE req[v].op = "idle"
      BY <2>1 DEF CaInv, StageInv
    <2>2. CASE req[v].op # "idle"
      <3>1. req[v].op = "issue" /\ req[v].for \in Names /\ req[v].for # n
        BY <2>2, IssueHasItsInstance
      <3>2. disk'[Key(req[v].for)] = disk[Key(req[v].for)]
            /\ disk'[Cert(req[v].for)] = disk[Cert(req[v].for)]
        BY <1>1, <3>1, DistinctPaths
      <3>3. IssueStage(req[v])
        BY <3>1 DEF CaInv, StageInv
      <3> QED
        BY <1>2, <3>1, <3>2, <3>3, ZenonT(60) DEF IssueStage
    <2> QED
      BY <2>1, <2>2
  <1>6. CaCanSign'
    BY <1>2 DEF CaInv, CaCanSign, Complete
  <1>7. SignedInv'
    <2>1. ASSUME NEW m \in Names, disk'[Cert(m)] \notin {None, Torn}
          PROVE  disk'[Cert(m)].by = disk[CaCert].pub
      <3>1. CASE path = Cert(m)
        <4>1. m = n
          BY <1>1, <3>1, DistinctPaths
        <4> QED
          BY <2>1, <3>1, <4>1
      <3>2. CASE path # Cert(m)
        BY <2>1, <3>2, DistinctPaths DEF CaInv, SignedInv
      <3> QED
        BY <3>1, <3>2
    <2> QED
      BY <1>1, <1>2, <2>1 DEF CaInv, SignedInv
  <1> QED
    BY <1>3, <1>4, <1>5, <1>6, <1>7 DEF CaInv

\* A step of the creation of the CA: one of its two files is written.
LEMMA InitWrites ==
  ASSUME CaInv, NEW w \in Workers, req[w].op = "init", NEW path,
         path \in {CaKey, CaCert},
         disk' \in [Paths -> Contents \cup {None, Torn}],
         \A q \in Paths : q # path => disk'[q] = disk[q],
         disk'[CaKey] \in Keys \cup {None, Torn},
         req' \in [Workers -> Requests],
         \A v \in Workers : v # w => req'[v] = req[v],
         \/ /\ req'[w].op = "init" /\ InitStage(req[w])'
         \/ /\ req'[w].op = "idle" /\ req'[w].writes = <<>> /\ req'[w].open = FALSE
            /\ disk'[CaCert] \in Certificates /\ disk'[CaKey] \in Keys
            /\ disk'[CaKey].pair = disk'[CaCert].pub,
         UNCHANGED <<serving, exported, pairs, crashes>>
  PROVE  CaInv'
  <1>1. disk[CaCert] \notin Certificates
    BY Values DEF CaInv, StageInv, InitStage
  <1>2. disk'[CaCert] \in Certificates \cup {None, Torn}
    BY DEF InitStage
  <1>3. TypeInv'
    BY <1>2 DEF CaInv, TypeInv
  <1>4. \A v \in Workers : v # w => req'[v].op = "idle" /\ req'[v] = req[v]
    BY InitIsAlone
  <1>5. ApartInv'
    BY <1>4 DEF ApartInv
  <1>6. StageInv'
    BY <1>4 DEF CaInv, StageInv
  <1>7. CaCanSign'
    BY Values DEF InitStage, CaCanSign, Complete
  <1>8. SignedInv'
    <2>1. \A n \in Names : disk'[Cert(n)] = disk[Cert(n)]
      BY DistinctPaths
    <2>2. \A n \in Names : disk[Cert(n)] \in {None, Torn} /\ serving[n] = None
      BY <1>1 DEF CaInv, SignedInv
    <2>3. exported = {}
      BY <1>1, Values DEF CaInv, SignedInv, TypeInv
    <2> QED
      BY <2>1, <2>2, <2>3 DEF SignedInv
  <1> QED
    BY <1>3, <1>5, <1>6, <1>7, <1>8 DEF CaInv

-----------------------------------------------------------------------------
(* The actions.                                                            *)

\* A request that is answered at once, or is refused by Sign, leaves the files
\* as they are.
LEMMA Answered ==
  ASSUME CaInv, NEW w \in Workers, NEW a \in {"exists", "refused"}, Answer(w, a),
         UNCHANGED <<disk, serving, exported, pairs, crashes>>
  PROVE  CaInv'
  <1> DEFINE r == [Idle EXCEPT !.reply = a]
  <1>1. r \in Requests /\ r.op = "idle" /\ r.writes = <<>> /\ r.open = FALSE
    BY IdleRequest DEF Requests
  <1> HIDE DEF r
  <1>2. req' = [req EXCEPT ![w] = r]
    BY DEF Answer, r
  <1>3. TypeInv'
    BY <1>1, <1>2 DEF CaInv, TypeInv
  <1>4. StageInv'
    BY <1>1, <1>2 DEF CaInv, TypeInv, StageInv, InitStage, IssueStage
  <1>5. ApartInv'
    BY <1>1, <1>2 DEF CaInv, TypeInv, ApartInv
  <1>6. CaCanSign' /\ SignedInv'
    BY DEF CaInv, CaCanSign, SignedInv, Complete
  <1> QED
    BY <1>3, <1>4, <1>5, <1>6 DEF CaInv

\* A request that begins: nothing else is in flight for its target, and it has
\* its first stage before it.
LEMMA Begins ==
  ASSUME CaInv, Exclusive, NEW w \in Workers, req[w].op = "idle",
         Free(req'[w].for), req'[w].op # "idle",
         req' \in [Workers -> Requests],
         \A v \in Workers : v # w => req'[v] = req[v],
         req'[w].op = "init" => InitStage(req[w])',
         req'[w].op = "issue" => IssueStage(req[w])',
         pairs' \in 0 .. MaxPairs,
         UNCHANGED <<disk, serving, exported, crashes>>
  PROVE  CaInv'
  <1>1. TypeInv'
    BY DEF CaInv, TypeInv
  <1>2. StageInv'
    BY DEF CaInv, StageInv, InitStage, IssueStage
  <1>3. ApartInv'
    BY DEF CaInv, ApartInv, Free
  <1>4. CaCanSign' /\ SignedInv'
    BY DEF CaInv, CaCanSign, SignedInv, Complete
  <1> QED
    BY <1>1, <1>2, <1>3, <1>4 DEF CaInv

\* POST /v1/ca: refused at once, or the first of its stages begins.
LEMMA InitCaKeeps ==
  ASSUME CaInv, Exclusive, NEW w \in Workers, NEW f \in Phrases, InitCa(w, f)
  PROVE  CaInv'
  <1>1. CASE Answer(w, "exists") /\ UNCHANGED pairs
    BY <1>1, Answered DEF InitCa
  <1>2. CASE disk[CaCert] = None /\ NewPair
             /\ req' = [req EXCEPT ![w] =
                  [Idle EXCEPT !.op = "init", !.for = CaKey,
                     !.writes = << <<CaKey, EncryptedKey(pairs', f)>>,
                                   <<CaCert, Certificate(pairs', pairs')>> >>]]
    <2> DEFINE k == EncryptedKey(pairs', f)
               c == Certificate(pairs', pairs')
               ws == << <<CaKey, k>>, <<CaCert, c>> >>
               r == [Idle EXCEPT !.op = "init", !.for = CaKey, !.writes = ws]
    <2>1. pairs' \in Pairs /\ pairs' \in 0 .. MaxPairs
      BY <1>2, EapCaConstants DEF CaInv, TypeInv, NewPair, Pairs
    <2>2. k \in Contents /\ c \in Contents
      BY <2>1, Values
    <2>3. ws \in Seq(Paths \X Contents)
      <3> HIDE DEF k, c
      <3> QED
        BY <2>2, DistinctPaths
    <2>4. r \in Requests /\ r.op = "init" /\ r.for = CaKey /\ r.writes = ws
      <3> HIDE DEF ws
      <3> QED
        BY <2>3 DEF Idle, Requests
    <2> HIDE DEF r
    <2>5. req' = [req EXCEPT ![w] = r]
      BY <1>2 DEF r
    <2>6. req'[w] = r /\ req' \in [Workers -> Requests]
          /\ \A v \in Workers : v # w => req'[v] = req[v]
      BY <2>4, <2>5 DEF CaInv, TypeInv
    <2>7. disk'[CaCert] = None
      BY <1>2 DEF InitCa
    <2>8. InitStage(req[w])'
      BY <2>1, <2>4, <2>6, <2>7 DEF InitStage
    <2> QED
      BY <2>1, <2>4, <2>6, <2>8, Begins DEF InitCa
  <1> QED
    BY <1>1, <1>2 DEF InitCa

\* POST /v1/instances/{name}/cert: refused, or its certificate is the one it read.
LEMMA IssueServerCertKeeps ==
  ASSUME CaInv, Exclusive, NEW w \in Workers, NEW n \in Names, NEW f \in Phrases,
         IssueServerCert(w, n, f)
  PROVE  CaInv'
  <1>1. CASE Answer(w, "refused")
    BY <1>1, Answered DEF IssueServerCert
  <1>2. CASE disk[CaCert] \notin {None, Torn} /\ disk[CaKey] # None
             /\ req' = [req EXCEPT ![w] =
                  [Idle EXCEPT !.op = "issue", !.for = n, !.phrase = f, !.issuer = disk[CaCert]]]
    <2> DEFINE r == [Idle EXCEPT !.op = "issue", !.for = n, !.phrase = f,
                                 !.issuer = disk[CaCert]]
    <2>1. disk[CaCert] \in Certificates /\ disk[CaCert] \in Contents
      BY <1>2, Values DEF CaInv, TypeInv
    <2>2. r \in Requests /\ r.op = "issue" /\ r.for = n /\ r.issuer = disk[CaCert]
          /\ r.writes = <<>> /\ r.open = FALSE
      BY <2>1, IdleRequest DEF Requests
    <2> HIDE DEF r
    <2>3. req' = [req EXCEPT ![w] = r]
      BY <1>2 DEF r
    <2>4. req'[w] = r /\ req' \in [Workers -> Requests]
          /\ \A v \in Workers : v # w => req'[v] = req[v]
      BY <2>2, <2>3 DEF CaInv, TypeInv
    <2>5. IssueStage(req[w])'
      BY <2>1, <2>2, <2>4 DEF IssueServerCert, IssueStage
    <2> QED
      BY <2>2, <2>4, <2>5, Begins DEF IssueServerCert, CaInv, TypeInv
  <1> QED
    BY <1>1, <1>2 DEF IssueServerCert

\* The key that is read is the one of the certificate that was read before.
LEMMA SignKeeps ==
  ASSUME CaInv, NEW w \in Workers, Sign(w)
  PROVE  CaInv'
  <1> DEFINE n == req[w].for
  <1>1. n \in Names /\ req[w].issuer = disk[CaCert] /\ disk[CaCert] \in Certificates
        /\ req[w].op = "issue" /\ req[w].open = FALSE
    BY DEF Sign, CaInv, StageInv, IssueStage
  <1>2. CASE Answer(w, "refused") /\ UNCHANGED pairs
    BY <1>2, Answered DEF Sign
  <1>3. CASE Unlocks(req[w].phrase) /\ NewPair
             /\ req' = [req EXCEPT ![w].writes =
                  << <<Key(n), PlainKey(pairs')>>,
                     <<Cert(n), Certificate(pairs', disk[CaKey].pair)>>,
                     <<Anchor(n), req[w].issuer>> >>]
    <2> DEFINE k == PlainKey(pairs')
               c == Certificate(pairs', req[w].issuer.pub)
               ws == << <<Key(n), k>>, <<Cert(n), c>>, <<Anchor(n), req[w].issuer>> >>
    <2>1. pairs' \in Pairs /\ pairs' \in 0 .. MaxPairs
      BY <1>3, EapCaConstants DEF CaInv, TypeInv, NewPair, Pairs
    <2>2. disk[CaKey].pair = req[w].issuer.pub
      BY <1>1, Values DEF CaInv, CaCanSign, Complete
    <2>3. disk[CaCert].pub \in Pairs
      BY <1>1 DEF Certificates
    <2>4. k \in Contents /\ c \in Contents /\ req[w].issuer \in Contents
      BY <1>1, <2>1, <2>3, Values
    <2>5. ws \in Seq(Paths \X Contents)
      <3> HIDE DEF k, c
      <3> QED
        BY <1>1, <2>4, DistinctPaths
    <2>6. req' = [req EXCEPT ![w].writes = ws]
      BY <1>3, <2>2
    <2> HIDE DEF ws
    <2>7. /\ req' \in [Workers -> Requests]
          /\ \A v \in Workers : v # w => req'[v] = req[v]
          /\ req'[w].op = "issue" /\ req'[w].for = n /\ req'[w].writes = ws
          /\ req'[w].issuer = req[w].issuer
      BY <1>1, <2>5, <2>6, ZenonT(60) DEF CaInv, TypeInv, Requests
    <2>8. IssueStage(req[w])'
      BY <1>1, <2>1, <2>7 DEF IssueStage, Sign, ws
    <2>9. TypeInv' /\ CaCanSign' /\ SignedInv'
      BY <2>1, <2>7 DEF Sign, CaInv, TypeInv, CaCanSign, SignedInv, Complete
    <2>10. ApartInv'
      BY <1>1, <2>7 DEF CaInv, ApartInv
    <2>11. StageInv'
      BY <2>7, <2>8 DEF Sign, CaInv, StageInv, InitStage, IssueStage
    <2> QED
      BY <2>9, <2>10, <2>11 DEF CaInv
  <1> QED
    BY <1>2, <1>3 DEF Sign

\* _write_file's truncation: the request stays in its stage, the file is empty.
LEMMA TruncateKeeps ==
  ASSUME CaInv, NEW w \in Workers, Truncate(w)
  PROVE  CaInv'
  <1> DEFINE n == req[w].for
             path == Head(req[w].writes)[1]
  <1>1. /\ req' \in [Workers -> Requests]
        /\ \A v \in Workers : v # w => req'[v] = req[v]
        /\ req'[w].op = req[w].op /\ req'[w].for = req[w].for
        /\ req'[w].issuer = req[w].issuer /\ req'[w].writes = req[w].writes
    BY ZenonT(60) DEF Truncate, CaInv, TypeInv, Requests
  <1>2. req[w].op \in {"init", "issue"}
    BY DEF Truncate, CaInv, TypeInv, StageInv, Requests
  <1>3. /\ disk' \in [Paths -> Contents \cup {None, Torn}]
        /\ \A q \in Paths : q # path => disk'[q] = disk[q]
        /\ path \in Paths => disk'[path] = Torn
    BY DEF Truncate, CaInv, TypeInv
  <1>4. CASE req[w].op = "init"
    <2>1. PICK p \in Pairs, f \in Phrases :
            \/ /\ req[w].writes = << <<CaKey, EncryptedKey(p, f)>>, <<CaCert, Certificate(p, p)>> >>
               /\ disk[CaCert] = None
            \/ /\ req[w].writes = << <<CaCert, Certificate(p, p)>> >>
               /\ disk[CaKey] = EncryptedKey(p, f)
               /\ disk[CaCert] \in {None, Torn}
      BY <1>4 DEF CaInv, StageInv, InitStage
    <2>2. path \in {CaKey, CaCert}
      BY <2>1, Lists
    <2>3. InitStage(req[w])'
      <3>1. CASE path = CaKey
        <4>1. disk'[CaCert] = disk[CaCert] /\ disk[CaCert] = None
              /\ req[w].writes = << <<CaKey, EncryptedKey(p, f)>>, <<CaCert, Certificate(p, p)>> >>
          BY <1>3, <2>1, <3>1, Lists, DistinctPaths
        <4> QED
          BY <1>1, <1>4, <2>1, <4>1 DEF InitStage, CaInv, StageInv
      <3>2. CASE path = CaCert
        <4>1. disk'[CaCert] = Torn /\ disk'[CaKey] = disk[CaKey] /\ disk[CaKey] = EncryptedKey(p, f)
              /\ req[w].writes = << <<CaCert, Certificate(p, p)>> >>
          BY <1>3, <2>1, <3>2, Lists, DistinctPaths
        <4> QED
          BY <1>1, <1>4, <2>1, <4>1 DEF InitStage, CaInv, StageInv
      <3> QED
        BY <2>2, <3>1, <3>2
    <2>4. disk'[CaKey] \in Keys \cup {None, Torn}
      BY <1>3, DistinctPaths DEF CaInv, TypeInv
    <2> HIDE DEF path
    <2> QED
      BY <1>1, <1>3, <1>4, <2>2, <2>3, <2>4, InitWrites DEF Truncate
  <1>5. CASE req[w].op = "issue"
    <2>1. n \in Names /\ req[w].issuer = disk[CaCert] /\ disk[CaCert] \in Certificates
      BY <1>5 DEF CaInv, StageInv, IssueStage
    <2>2. PICK p \in Pairs :
            \/ req[w].writes = << <<Key(n), PlainKey(p)>>, <<Cert(n), Certificate(p, req[w].issuer.pub)>>,
                                  <<Anchor(n), req[w].issuer>> >>
            \/ /\ req[w].writes = << <<Cert(n), Certificate(p, req[w].issuer.pub)>>,
                                     <<Anchor(n), req[w].issuer>> >>
               /\ disk[Key(n)] = PlainKey(p)
            \/ /\ req[w].writes = << <<Anchor(n), req[w].issuer>> >>
               /\ disk[Key(n)] = PlainKey(p)
               /\ disk[Cert(n)] = Certificate(p, req[w].issuer.pub)
      BY <1>5 DEF CaInv, StageInv, IssueStage, Truncate
    <2>3. path \in {Key(n), Cert(n), Anchor(n)}
      BY <2>2, Lists
    <2>4. disk'[CaCert] = disk[CaCert] /\ disk'[path] = Torn
      BY <1>3, <2>1, <2>3, DistinctPaths
    <2>5. IssueStage(req[w])'
      <3>1. CASE req[w].writes = << <<Key(n), PlainKey(p)>>, <<Cert(n), Certificate(p, req[w].issuer.pub)>>,
                                  <<Anchor(n), req[w].issuer>> >>
        BY <1>1, <2>1, <2>2, <2>4, <3>1 DEF IssueStage
      <3>2. CASE /\ req[w].writes = << <<Cert(n), Certificate(p, req[w].issuer.pub)>>,
                                     <<Anchor(n), req[w].issuer>> >>
                 /\ disk[Key(n)] = PlainKey(p)
        <4>1. path = Cert(n)
          BY <3>2, Lists
        <4>2. disk'[Key(n)] = disk[Key(n)]
          BY <1>3, <2>1, <4>1, DistinctPaths
        <4> QED
          BY <1>1, <2>1, <2>2, <2>4, <3>2, <4>2 DEF IssueStage
      <3>3. CASE /\ req[w].writes = << <<Anchor(n), req[w].issuer>> >>
                 /\ disk[Key(n)] = PlainKey(p)
                 /\ disk[Cert(n)] = Certificate(p, req[w].issuer.pub)
        <4>1. path = Anchor(n)
          BY <3>3, Lists
        <4>2. disk'[Key(n)] = disk[Key(n)] /\ disk'[Cert(n)] = disk[Cert(n)]
          BY <1>3, <2>1, <4>1, DistinctPaths
        <4> QED
          BY <1>1, <2>1, <2>2, <2>4, <3>3, <4>2 DEF IssueStage
      <3> QED
        BY <2>2, <3>1, <3>2, <3>3
    <2> HIDE DEF path
    <2> QED
      BY <1>1, <1>3, <1>5, <2>3, <2>4, <2>5, IssueWrites, ZenonT(60) DEF Truncate
  <1> QED
    BY <1>2, <1>4, <1>5

\* The frame of Flush: one file is written, one request moves on or is answered.
LEMMA FlushFrame ==
  ASSUME CaInv, NEW w \in Workers, Flush(w)
  PROVE  LET h == Head(req[w].writes)
             rest == Tail(req[w].writes)
         IN
         /\ req[w].op \in {"init", "issue"}
         /\ req[w].writes # <<>>
         /\ h \in Paths \X Contents
         /\ disk' \in [Paths -> Contents \cup {None, Torn}]
         /\ \A q \in Paths : q # h[1] => disk'[q] = disk[q]
         /\ disk'[h[1]] = h[2]
         /\ req' \in [Workers -> Requests]
         /\ \A v \in Workers : v # w => req'[v] = req[v]
         /\ rest # <<>> =>
              /\ req'[w].op = req[w].op /\ req'[w].for = req[w].for
              /\ req'[w].issuer = req[w].issuer
              /\ req'[w].writes = rest /\ req'[w].open = FALSE
         /\ rest = <<>> =>
              req'[w].op = "idle" /\ req'[w].writes = <<>> /\ req'[w].open = FALSE
  <1> DEFINE h == Head(req[w].writes)
             rest == Tail(req[w].writes)
  <1>1. req[w].op \in {"init", "issue"} /\ req[w] \in Requests
    BY DEF Flush, CaInv, TypeInv, StageInv, Requests
  <1>2. req[w].writes # <<>>
    <2>1. CASE req[w].op = "init"
      BY <2>1, Lists DEF CaInv, StageInv, InitStage
    <2>2. CASE req[w].op = "issue"
      BY <2>2, Lists DEF Flush, CaInv, StageInv, IssueStage
    <2> QED
      BY <1>1, <2>1, <2>2
  <1>3. h \in Paths \X Contents /\ rest \in Seq(Paths \X Contents)
    BY <1>1, <1>2, HeadTailProperties DEF Requests
  <1> HIDE DEF h, rest
  <1>4. disk' = [disk EXCEPT ![h[1]] = h[2]]
    BY DEF Flush, h
  <1>5. disk' \in [Paths -> Contents \cup {None, Torn}]
        /\ disk'[h[1]] = h[2] /\ \A q \in Paths : q # h[1] => disk'[q] = disk[q]
    BY <1>3, <1>4 DEF CaInv, TypeInv
  <1>6. CASE rest # <<>>
    <2>1. req' = [req EXCEPT ![w].writes = rest, ![w].open = FALSE]
      BY <1>6 DEF Flush, rest
    <2> DEFINE r == [req[w] EXCEPT !.writes = rest, !.open = FALSE]
    <2>2. /\ r \in Requests /\ r.writes = rest /\ r.open = FALSE
          /\ r.op = req[w].op /\ r.for = req[w].for /\ r.issuer = req[w].issuer
      BY <1>1, <1>3 DEF Requests
    <2>3. req' = [req EXCEPT ![w] = r]
      BY <2>1
    <2> HIDE DEF r
    <2>4. req' \in [Workers -> Requests] /\ req'[w] = r
          /\ \A v \in Workers : v # w => req'[v] = req[v]
      BY <2>2, <2>3 DEF CaInv, TypeInv
    <2> QED
      BY <1>1, <1>2, <1>3, <1>5, <1>6, <2>2, <2>4 DEF h, rest
  <1>7. CASE rest = <<>>
    <2>1. PICK a \in {"created", "issued"} : Answer(w, a)
      BY <1>7 DEF Flush, rest
    <2> DEFINE r == [Idle EXCEPT !.reply = a]
    <2>2. r \in Requests /\ r.op = "idle" /\ r.writes = <<>> /\ r.open = FALSE
      BY IdleRequest DEF Requests
    <2> HIDE DEF r
    <2>3. req' = [req EXCEPT ![w] = r]
      BY <2>1 DEF Answer, r
    <2>4. /\ req' \in [Workers -> Requests]
          /\ \A v \in Workers : v # w => req'[v] = req[v]
          /\ req'[w].op = "idle" /\ req'[w].writes = <<>> /\ req'[w].open = FALSE
      BY <2>2, <2>3 DEF CaInv, TypeInv
    <2> QED
      BY <1>1, <1>2, <1>3, <1>5, <1>7, <2>4 DEF h, rest
  <1> QED
    BY <1>6, <1>7

\* The files of a new CA are complete when the request is answered.
LEMMA FlushInit ==
  ASSUME CaInv, NEW w \in Workers, Flush(w), req[w].op = "init"
  PROVE  CaInv'
  <1> DEFINE h == Head(req[w].writes)
             rest == Tail(req[w].writes)
  <1>0. /\ disk' \in [Paths -> Contents \cup {None, Torn}]
        /\ \A q \in Paths : q # h[1] => disk'[q] = disk[q]
        /\ disk'[h[1]] = h[2]
        /\ req' \in [Workers -> Requests]
        /\ \A v \in Workers : v # w => req'[v] = req[v]
        /\ rest # <<>> =>
             /\ req'[w].op = req[w].op /\ req'[w].for = req[w].for
             /\ req'[w].issuer = req[w].issuer
             /\ req'[w].writes = rest /\ req'[w].open = FALSE
        /\ rest = <<>> =>
             req'[w].op = "idle" /\ req'[w].writes = <<>> /\ req'[w].open = FALSE
    BY FlushFrame
  <1>1. PICK p \in Pairs, f \in Phrases :
          \/ /\ req[w].writes = << <<CaKey, EncryptedKey(p, f)>>, <<CaCert, Certificate(p, p)>> >>
             /\ disk[CaCert] = None
          \/ /\ req[w].writes = << <<CaCert, Certificate(p, p)>> >>
             /\ disk[CaKey] = EncryptedKey(p, f)
             /\ disk[CaCert] \in {None, Torn}
    BY DEF CaInv, StageInv, InitStage
  <1> HIDE DEF h, rest
  <1>2. EncryptedKey(p, f) \in Keys /\ Certificate(p, p) \in Certificates
    BY Values
  <1>3. UNCHANGED <<serving, exported, pairs, crashes>>
    BY DEF Flush
  <1>4. CASE /\ req[w].writes = << <<CaKey, EncryptedKey(p, f)>>, <<CaCert, Certificate(p, p)>> >>
             /\ disk[CaCert] = None
    <2>1. h = <<CaKey, EncryptedKey(p, f)>> /\ rest = << <<CaCert, Certificate(p, p)>> >>
          /\ rest # <<>>
      BY <1>4, Lists DEF h, rest
    <2>2. disk'[CaKey] = EncryptedKey(p, f) /\ disk'[CaCert] = None
      BY <1>4, <2>1, <1>0, DistinctPaths
    <2>3. req'[w].op = "init" /\ req'[w].for = CaKey
          /\ req'[w].writes = << <<CaCert, Certificate(p, p)>> >>
      BY <2>1, <1>0 DEF CaInv, StageInv, InitStage
    <2>4. InitStage(req[w])'
      BY <2>2, <2>3 DEF InitStage
    <2>5. \A q \in Paths : q # CaKey => disk'[q] = disk[q]
      BY <2>1, <1>0
    <2> QED
      BY <1>2, <1>3, <2>2, <2>3, <2>4, <2>5, <1>0, InitWrites
  <1>5. CASE /\ req[w].writes = << <<CaCert, Certificate(p, p)>> >>
             /\ disk[CaKey] = EncryptedKey(p, f)
    <2>1. h = <<CaCert, Certificate(p, p)>> /\ rest = <<>>
      BY <1>5, Lists DEF h, rest
    <2>2. disk'[CaCert] = Certificate(p, p) /\ disk'[CaKey] = EncryptedKey(p, f)
      BY <1>5, <2>1, <1>0, DistinctPaths
    <2>3. disk'[CaKey].pair = disk'[CaCert].pub
      BY <2>2 DEF EncryptedKey, Certificate
    <2>4. \A q \in Paths : q # CaCert => disk'[q] = disk[q]
      BY <2>1, <1>0
    <2>5. req'[w].op = "idle" /\ req'[w].writes = <<>> /\ req'[w].open = FALSE
      BY <2>1, <1>0
    <2> QED
      BY <1>2, <1>3, <2>2, <2>3, <2>4, <2>5, <1>0, InitWrites
  <1> QED
    BY <1>1, <1>4, <1>5

\* The files of an instance follow one another, and belong together when the
\* request is answered.
LEMMA FlushIssue ==
  ASSUME CaInv, NEW w \in Workers, Flush(w), req[w].op = "issue", NEW n, n = req[w].for
  PROVE  /\ CaInv'
         /\ n \in Names
         /\ req'[w].op = "idle" =>
              Usable(n)' /\ disk'[Cert(n)].by = disk'[Anchor(n)].pub
                         /\ disk'[Anchor(n)] = disk'[CaCert]
  <1> DEFINE i == req[w].issuer
             h == Head(req[w].writes)
             rest == Tail(req[w].writes)
  <1>0. /\ disk' \in [Paths -> Contents \cup {None, Torn}]
        /\ \A q \in Paths : q # h[1] => disk'[q] = disk[q]
        /\ disk'[h[1]] = h[2]
        /\ req' \in [Workers -> Requests]
        /\ \A v \in Workers : v # w => req'[v] = req[v]
        /\ rest # <<>> =>
             /\ req'[w].op = req[w].op /\ req'[w].for = req[w].for
             /\ req'[w].issuer = req[w].issuer
             /\ req'[w].writes = rest /\ req'[w].open = FALSE
        /\ rest = <<>> =>
             req'[w].op = "idle" /\ req'[w].writes = <<>> /\ req'[w].open = FALSE
    BY FlushFrame
  <1>1. n \in Names /\ i = disk[CaCert] /\ i \in Certificates
    BY DEF CaInv, StageInv, IssueStage
  <1>2. PICK p \in Pairs :
          \/ req[w].writes = << <<Key(n), PlainKey(p)>>, <<Cert(n), Certificate(p, i.pub)>>,
                                <<Anchor(n), i>> >>
          \/ /\ req[w].writes = << <<Cert(n), Certificate(p, i.pub)>>, <<Anchor(n), i>> >>
             /\ disk[Key(n)] = PlainKey(p)
          \/ /\ req[w].writes = << <<Anchor(n), i>> >>
             /\ disk[Key(n)] = PlainKey(p)
             /\ disk[Cert(n)] = Certificate(p, i.pub)
    BY DEF CaInv, StageInv, IssueStage, Flush
  <1> HIDE DEF h, rest
  <1>3. UNCHANGED <<serving, exported, pairs, crashes>>
    BY DEF Flush
  <1>4. PlainKey(p) \in Keys /\ Certificate(p, i.pub) \in Certificates
        /\ Certificate(p, i.pub).by = i.pub /\ Certificate(p, i.pub).pub = p
        /\ PlainKey(p).pair = p
    BY <1>1, Values DEF Certificates, Certificate, PlainKey
  <1>5. h[1] \in {Key(n), Cert(n), Anchor(n)}
    BY <1>2, Lists DEF h
  <1>6. disk'[CaCert] = disk[CaCert]
    BY <1>1, <1>5, <1>0, DistinctPaths
  <1>7. CASE req[w].writes = << <<Key(n), PlainKey(p)>>, <<Cert(n), Certificate(p, i.pub)>>,
                               <<Anchor(n), i>> >>
    <2>1. h = <<Key(n), PlainKey(p)>> /\ rest # <<>>
          /\ rest = << <<Cert(n), Certificate(p, i.pub)>>, <<Anchor(n), i>> >>
      BY <1>7, Lists DEF h, rest
    <2>2. disk'[Key(n)] = PlainKey(p) /\ h[1] = Key(n) /\ h[1] # Cert(n)
      BY <1>1, <2>1, <1>0, DistinctPaths
    <2>3. /\ req'[w].op = "issue" /\ req'[w].for = n /\ req'[w].issuer = i
          /\ req'[w].writes = << <<Cert(n), Certificate(p, i.pub)>>, <<Anchor(n), i>> >>
      BY <2>1, <1>0
    <2>4. IssueStage(req[w])'
      BY <1>1, <1>6, <2>2, <2>3 DEF IssueStage
    <2>5. CaInv'
      <3> QED
        BY <1>3, <1>5, <2>2, <2>3, <2>4, <1>0, IssueWrites
    <2> QED
      BY <1>1, <2>3, <2>5
  <1>8. CASE /\ req[w].writes = << <<Cert(n), Certificate(p, i.pub)>>, <<Anchor(n), i>> >>
             /\ disk[Key(n)] = PlainKey(p)
    <2>1. h = <<Cert(n), Certificate(p, i.pub)>> /\ rest # <<>>
          /\ rest = << <<Anchor(n), i>> >>
      BY <1>8, Lists DEF h, rest
    <2>2. disk'[Key(n)] = PlainKey(p) /\ disk'[Cert(n)] = Certificate(p, i.pub) /\ h[1] = Cert(n)
      BY <1>1, <1>8, <2>1, <1>0, DistinctPaths
    <2>3. /\ req'[w].op = "issue" /\ req'[w].for = n /\ req'[w].issuer = i
          /\ req'[w].writes = << <<Anchor(n), i>> >>
      BY <2>1, <1>0
    <2>4. IssueStage(req[w])'
      BY <1>1, <1>6, <2>2, <2>3 DEF IssueStage
    <2>5. disk'[Cert(n)].by = disk[CaCert].pub
      BY <1>1, <1>4, <2>2
    <2>6. CaInv'
      <3> QED
        BY <1>3, <1>5, <2>2, <2>3, <2>4, <2>5, <1>0, IssueWrites
    <2> QED
      BY <1>1, <2>3, <2>6
  <1>9. CASE /\ req[w].writes = << <<Anchor(n), i>> >>
             /\ disk[Key(n)] = PlainKey(p)
             /\ disk[Cert(n)] = Certificate(p, i.pub)
    <2>1. h = <<Anchor(n), i>> /\ rest = <<>>
      BY <1>9, Lists DEF h, rest
    <2>2. /\ disk'[Key(n)] = PlainKey(p) /\ disk'[Cert(n)] = Certificate(p, i.pub)
          /\ disk'[Anchor(n)] = i /\ h[1] = Anchor(n) /\ h[1] # Cert(n)
      BY <1>1, <1>9, <2>1, <1>0, DistinctPaths
    <2>3. req'[w].op = "idle" /\ req'[w].writes = <<>> /\ req'[w].open = FALSE
      BY <2>1, <1>0
    <2>4. CaInv'
      <3> QED
        BY <1>3, <1>5, <2>2, <2>3, <1>0, IssueWrites
    <2>5. Usable(n)'
      BY <1>1, <1>4, <2>2, Values DEF Usable
    <2>6. disk'[Cert(n)].by = disk'[Anchor(n)].pub /\ disk'[Anchor(n)] = disk'[CaCert]
      BY <1>1, <1>4, <1>6, <2>2
    <2> QED
      BY <1>1, <2>4, <2>5, <2>6
  <1> QED
    BY <1>2, <1>7, <1>8, <1>9

-----------------------------------------------------------------------------
\* Only the certificate that is there is ever handed out.
LEMMA ExportCaKeeps ==
  ASSUME CaInv, ExportCa
  PROVE  CaInv'
  <1>1. disk[CaCert] \in Contents
    BY Values DEF ExportCa, CaInv, TypeInv
  <1>2. TypeInv' /\ ApartInv' /\ CaCanSign'
    BY <1>1 DEF ExportCa, CaInv, TypeInv, ApartInv, CaCanSign, Complete
  <1>3. StageInv'
    BY DEF ExportCa, CaInv, StageInv, InitStage, IssueStage
  <1>4. SignedInv'
    BY DEF ExportCa, CaInv, SignedInv
  <1> QED
    BY <1>2, <1>3, <1>4 DEF CaInv

\* A container serves a certificate that is on disk, or none.
LEMMA StartContainerKeeps ==
  ASSUME CaInv, NEW n \in Names, StartContainer(n)
  PROVE  CaInv'
  <1>1. Cert(n) \in Paths
    BY DistinctPaths
  <1>2. TypeInv'
    BY <1>1 DEF StartContainer, CaInv, TypeInv, Usable
  <1>3. StageInv' /\ ApartInv' /\ CaCanSign'
    BY DEF StartContainer, CaInv, StageInv, InitStage, IssueStage, ApartInv, CaCanSign, Complete
  <1>4. SignedInv'
    BY DEF StartContainer, CaInv, TypeInv, SignedInv, Usable
  <1> QED
    BY <1>2, <1>3, <1>4 DEF CaInv

\* A crash ends every request and leaves the files.
LEMMA CrashKeeps ==
  ASSUME CaInv, Crash
  PROVE  CaInv'
  <1>1. TypeInv'
    BY IdleRequest, EapCaConstants DEF Crash, CaInv, TypeInv
  <1>2. StageInv' /\ ApartInv'
    BY IdleRequest DEF Crash, StageInv, ApartInv
  <1>3. CaCanSign' /\ SignedInv'
    BY DEF Crash, CaInv, CaCanSign, SignedInv, Complete
  <1> QED
    BY <1>1, <1>2, <1>3 DEF CaInv

\* Every step preserves the invariant.
LEMMA CaStep ==
  ASSUME CaInv, Exclusive, [Next]_vars
  PROVE  CaInv'
  <1>1. CASE UNCHANGED vars
    BY <1>1 DEF vars, CaInv, TypeInv, StageInv, InitStage, IssueStage, ApartInv, CaCanSign,
                SignedInv, Complete
  <1>2. CASE Next
    <2>1. ASSUME NEW w \in Workers, Flush(w) PROVE CaInv'
      <3>1. req[w].op \in {"init", "issue"}
        BY <2>1, FlushFrame
      <3> QED
        BY <2>1, <3>1, FlushInit, FlushIssue
    <2> QED
      BY <1>2, <2>1, InitCaKeeps, IssueServerCertKeeps, SignKeeps, TruncateKeeps,
         ExportCaKeeps, StartContainerKeeps, CrashKeeps DEF Next
  <1> QED
    BY <1>1, <1>2

\* Hence it always holds.
LEMMA CaInvariant == ASSUME Exclusive PROVE Spec => []CaInv
  <1>1. CaInv /\ [Next]_vars => CaInv'
    BY CaStep
  <1> QED
    BY CaInit, <1>1, PTL DEF Spec

-----------------------------------------------------------------------------
(* The theorems.                                                           *)

\* Every reachable state is type-correct: in particular a certificate is only
\* ever signed with a key that was read, never with a missing or empty file
\* (ca.py:268-282).
THEOREM CaTypeCorrect == ASSUME Exclusive PROVE Spec => []TypeOK
  <1>1. CaInv => TypeOK
    BY DEF CaInv, TypeInv, TypeOK, Requests
  <1> QED
    BY CaInvariant, <1>1, PTL

\* A CA that has a certificate has the key it was signed with, however often the
\* control plane was killed while it was created (ca.py:205-209).
THEOREM CaAlwaysSigns == ASSUME Exclusive PROVE Spec => []CaCanSign
  <1>1. CaInv => CaCanSign
    BY DEF CaInv
  <1> QED
    BY CaInvariant, <1>1, PTL

\* What a container serves verifies against every anchor that was ever handed out
\* to be installed on the clients (ca.py:1-13, docker_service.py:351-366).
THEOREM ClientsCanVerify == ASSUME Exclusive PROVE Spec => []ServedVerifies
  <1>1. CaInv => ServedVerifies
    BY DEF CaInv, SignedInv, ServedVerifies
  <1> QED
    BY CaInvariant, <1>1, PTL

\* An idle worker has no target, and a busy one has not answered yet.
ReplyInv ==
  \A w \in Workers :
    /\ req[w].op = "idle" => req[w].for = None
    /\ req[w].op # "idle" => req[w].reply = "none"

\* No step answers for a request that is still busy.
LEMMA ReplyStep ==
  ASSUME CaInv, ReplyInv, [Next]_vars
  PROVE  ReplyInv'
  <1>1. req \in [Workers -> Requests]
    BY DEF CaInv, TypeInv
  <1>2. Idle.op = "idle" /\ Idle.for = None /\ Idle.reply = "none" /\ Idle \in Requests
    BY IdleRequest DEF Idle
  <1>3. ASSUME NEW w \in Workers, NEW a, Answer(w, a) PROVE ReplyInv'
    <2> DEFINE r == [Idle EXCEPT !.reply = a]
    <2>1. r.op = "idle" /\ r.for = None
      BY <1>2 DEF Requests
    <2> HIDE DEF r
    <2>2. req' = [req EXCEPT ![w] = r]
      BY <1>3 DEF Answer, r
    <2> QED
      BY <1>1, <2>1, <2>2 DEF ReplyInv
  <1>4. ASSUME NEW w \in Workers, NEW r, req' = [req EXCEPT ![w] = r],
               r.op # "idle", r.reply = "none"
        PROVE  ReplyInv'
    BY <1>1, <1>4 DEF ReplyInv
  <1>5. ASSUME NEW w \in Workers, NEW f \in Phrases, InitCa(w, f) PROVE ReplyInv'
    <2>1. CASE Answer(w, "exists")
      BY <2>1, <1>3
    <2>2. CASE ~Answer(w, "exists")
      <3> DEFINE r == [Idle EXCEPT !.op = "init", !.for = CaKey,
                         !.writes = << <<CaKey, EncryptedKey(pairs', f)>>,
                                       <<CaCert, Certificate(pairs', pairs')>> >>]
      <3>1. r.op = "init" /\ r.reply = "none"
        BY <1>2 DEF Requests
      <3>2. req' = [req EXCEPT ![w] = r]
        BY <1>5, <2>2 DEF InitCa
      <3> HIDE DEF r
      <3> QED
        BY <1>4, <3>1, <3>2
    <2> QED
      BY <2>1, <2>2
  <1>6. ASSUME NEW w \in Workers, NEW n \in Names, NEW f \in Phrases, IssueServerCert(w, n, f)
        PROVE  ReplyInv'
    <2>1. CASE Answer(w, "refused")
      BY <2>1, <1>3
    <2>2. CASE ~Answer(w, "refused")
      <3> DEFINE r == [Idle EXCEPT !.op = "issue", !.for = n, !.phrase = f,
                                   !.issuer = disk[CaCert]]
      <3>1. r.op = "issue" /\ r.reply = "none"
        BY <1>2 DEF Requests
      <3>2. req' = [req EXCEPT ![w] = r]
        BY <1>6, <2>2 DEF IssueServerCert
      <3> HIDE DEF r
      <3> QED
        BY <1>4, <3>1, <3>2
    <2> QED
      BY <2>1, <2>2
  <1>7. ASSUME NEW w \in Workers, NEW x, req' = [req EXCEPT ![w].writes = x], req[w].op # "idle"
        PROVE  ReplyInv'
    BY <1>1, <1>7 DEF ReplyInv, Requests
  <1>8. ASSUME NEW w \in Workers, Sign(w) PROVE ReplyInv'
    <2>1. CASE Answer(w, "refused")
      BY <2>1, <1>3
    <2>2. CASE ~Answer(w, "refused")
      BY <1>7, <1>8, <2>2 DEF Sign
    <2> QED
      BY <2>1, <2>2
  <1>9. ASSUME NEW w \in Workers, Truncate(w) PROVE ReplyInv'
    BY <1>1, <1>9 DEF Truncate, ReplyInv, Requests
  <1>10. ASSUME NEW w \in Workers, Flush(w) PROVE ReplyInv'
    <2>1. CASE Tail(req[w].writes) = <<>>
      BY <1>3, <1>10, <2>1 DEF Flush
    <2>2. CASE Tail(req[w].writes) # <<>>
      <3> DEFINE rest == Tail(req[w].writes)
                 r == [req[w] EXCEPT !.writes = rest, !.open = FALSE]
      <3> HIDE DEF rest
      <3>1. req[w] \in Requests /\ req[w].op # "idle"
        BY <1>1, <1>10, FlushFrame
      <3>2. r.op # "idle" /\ r.reply = "none"
        BY <3>1 DEF ReplyInv, Requests
      <3>3. req' = [req EXCEPT ![w] = r]
        BY <1>10, <2>2 DEF Flush, rest
      <3> HIDE DEF r
      <3> QED
        BY <1>4, <3>2, <3>3
    <2> QED
      BY <2>1, <2>2
  <1>11. CASE UNCHANGED req
    BY <1>11 DEF ReplyInv
  <1>12. CASE Crash
    BY <1>2, <1>12 DEF Crash, ReplyInv
  <1> QED
    BY <1>5, <1>6, <1>8, <1>9, <1>10, <1>11, <1>12 DEF Next, vars, ExportCa, StartContainer

\* A request that is answered "issued" has left a certificate, the key that belongs
\* to it and the CA's certificate that verifies it (ca.py:334-341).
THEOREM IssuesAreUsable == ASSUME Exclusive PROVE Spec => IssuedIsUsable
  <1> DEFINE Delivered ==
        \A w \in Workers, n \in Names :
          /\ req[w].for = n /\ req'[w].reply = "issued"
          /\ \A v \in Workers \ {w} : req[v].for # n
          =>
            /\ Usable(n)'
            /\ disk'[Cert(n)].by = disk'[Anchor(n)].pub
            /\ disk'[Anchor(n)] = disk'[CaCert]
  <1>1. ASSUME CaInv, ReplyInv, Next, NEW w \in Workers, NEW n \in Names,
               req[w].for = n, req'[w].reply = "issued"
        PROVE  /\ Usable(n)'
               /\ disk'[Cert(n)].by = disk'[Anchor(n)].pub
               /\ disk'[Anchor(n)] = disk'[CaCert]
    <2>1. req \in [Workers -> Requests] /\ Idle \in Requests /\ Idle.reply = "none"
      BY <1>1, IdleRequest DEF CaInv, TypeInv, Idle
    <2>2. req[w].op # "idle" /\ req[w].reply = "none"
      BY <1>1, EapCaNoContents DEF ReplyInv
    <2>3. \A v \in Workers : \A a : Answer(v, a) =>
            req'[v].reply = a /\ \A u \in Workers : u # v => req'[u] = req[u]
      <3> TAKE v \in Workers
      <3> TAKE a
      <3> DEFINE r == [Idle EXCEPT !.reply = a]
      <3>1. r.reply = a
        BY <2>1 DEF Requests
      <3> HIDE DEF r
      <3> QED
        BY <2>1, <3>1 DEF Answer, r
    <2>4. ASSUME NEW v \in Workers, Flush(v)
          PROVE  /\ Usable(n)'
                 /\ disk'[Cert(n)].by = disk'[Anchor(n)].pub
                 /\ disk'[Anchor(n)] = disk'[CaCert]
      <3>1. v = w
        BY <1>1, <2>2, <2>4, FlushFrame
      <3>2. \/ req[w].op = "issue" /\ Answer(w, "issued")
            \/ Tail(req[w].writes) # <<>>
        BY <1>1, <2>2, <2>3, <2>4, <3>1 DEF Flush
      <3>3. CASE Tail(req[w].writes) # <<>>
        <4> DEFINE rest == Tail(req[w].writes)
                   r == [req[w] EXCEPT !.writes = rest, !.open = FALSE]
        <4> HIDE DEF rest
        <4>1. r.reply = "none"
          BY <2>1, <2>2 DEF Requests
        <4>2. req' = [req EXCEPT ![w] = r]
          BY <2>4, <3>1, <3>3 DEF Flush, rest
        <4> HIDE DEF r
        <4> QED
          BY <1>1, <2>1, <4>1, <4>2
      <3>4. CASE req[w].op = "issue" /\ Answer(w, "issued")
        <4> DEFINE r == [Idle EXCEPT !.reply = "issued"]
        <4>1. r.op = "idle"
          BY IdleRequest DEF Requests
        <4> HIDE DEF r
        <4>2. req'[w].op = "idle"
          BY <2>1, <3>4, <4>1 DEF Answer, r
        <4> QED
          BY <1>1, <2>4, <3>1, <3>4, <4>2, FlushIssue
      <3> QED
        BY <3>2, <3>3, <3>4
    <2>5. ASSUME NEW v \in Workers, Sign(v) PROVE req'[w].reply # "issued"
      <3>1. CASE Answer(v, "refused")
        BY <2>2, <2>3, <3>1
      <3>2. CASE ~Answer(v, "refused")
        <4>1. PICK x : req' = [req EXCEPT ![v].writes = x]
          BY <2>5, <3>2 DEF Sign
        <4> QED
          BY <2>1, <2>2, <4>1 DEF Requests
      <3> QED
        BY <3>1, <3>2
    <2>6. ASSUME NEW v \in Workers, Truncate(v) PROVE req'[w].reply # "issued"
      BY <2>1, <2>2, <2>6 DEF Truncate, Requests
    <2>7. ASSUME NEW v \in Workers, req[v].op = "idle",
                 \A u \in Workers : u # v => req'[u] = req[u]
          PROVE  req'[w].reply # "issued"
      BY <2>2, <2>7
    <2>8. ASSUME NEW v \in Workers, NEW f \in Phrases, InitCa(v, f)
          PROVE  req'[w].reply # "issued"
      BY <2>1, <2>3, <2>7, <2>8 DEF InitCa
    <2>9. ASSUME NEW v \in Workers, NEW m \in Names, NEW f \in Phrases, IssueServerCert(v, m, f)
          PROVE  req'[w].reply # "issued"
      BY <2>1, <2>3, <2>7, <2>9 DEF IssueServerCert
    <2>10. ASSUME UNCHANGED req \/ Crash PROVE req'[w].reply # "issued"
      BY <2>1, <2>2, <2>10 DEF Crash
    <2> QED
      BY <1>1, <2>4, <2>5, <2>6, <2>8, <2>9, <2>10 DEF Next, ExportCa, StartContainer
  <1>2. CaInv /\ ReplyInv /\ [Next]_vars => [Delivered]_vars
    BY <1>1
  <1>3. Init => ReplyInv
    <2>1. Idle.op = "idle" /\ Idle.for = None
      BY DEF Idle
    <2> QED
      BY <2>1 DEF Init, ReplyInv
  <1>4. CaInv /\ ReplyInv /\ [Next]_vars => ReplyInv'
    BY ReplyStep
  <1> QED
    BY CaInvariant, <1>2, <1>3, <1>4, PTL DEF Spec, IssuedIsUsable
=============================================================================
