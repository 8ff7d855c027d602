---------------------------- MODULE Accounts_proofs ----------------------------
(***************************************************************************)
(* Proofs about the accounts: the types, which need to know what the       *)
(* sign-in worker can be doing; what holds between a job and the signer it *)
(* uses; what keeps a signer's record in the vault or out of it; and who   *)
(* is on screen.                                                           *)
(***************************************************************************)
EXTENDS Accounts, TLAPS

Signers0 == [Remote -> Signer \cup {None}]
Second   == {"free", "login", "store", "undo", "signout", "forget"}

\* Only a remote sign-in connects and has a second pass, and what it works on then is a
\* remote account; a sign-in that did not fail has named its account.
AuthShape ==
  auth # None =>
    /\ IF auth.method = "remote" THEN auth.stage # "call" /\ auth.acct \in Remote \cup {None}
       ELSE auth.stage \in {"call", "done"} /\ ~auth.login
    /\ auth.login \/ auth.stage \in Second \/ (auth.stage = "done" /\ ~auth.err) => auth.acct # None

\* What the jobs js may rely on of the signers ss: a signer a job took is there, and
\* attached if the job signs.
Held(ss, js) ==
  \A j \in js : j.signer =>
    /\ j.acct \in Remote /\ ss[j.acct] # None
    /\ j.kind \in {"switch", "sign"} => ss[j.acct].registered /\ ss[j.acct].attach = "none"

\* The signers are freed after the jobs were joined.
JobsJoined == phase \in {"signers", "closed"} => jobs = {}

TypeInv == TypeOK /\ AuthShape
JobInv  == OneJobEach /\ Held(signer, jobs) /\ JobsJoined
IInv    == TypeInv /\ JobInv

\* The steps of Next: the workers of jobs and signers, the sign-in worker, the frame
\* loop's drains, what the user asks for and the ends of a session.
WorkerStep ==
  \/ \E j \in jobs : Join(j) \/ CallOther(j) \/ CallLeave(j) \/ Forget(j)
  \/ \E a \in Remote : AttachStep(a) \/ PersistStep(a)
TickStep ==
  \/ \E j \in jobs : DrainJob(j)
  \/ \E a \in Remote : AttachDrained(a) \/ PersistDrained(a) \/ PersistStarts(a)
SessionStep == Stop \/ BeginStop \/ Boot \/ Crash \/ OtherSecretSaved
UserStep ==
  \/ \E kind \in Kind, a \in Accounts : Ask(kind, a)
  \/ OpenPane \/ CancelAuth \/ ClosePane
  \/ \E method \in {"import", "create", "remote"} : StartAuth(method)

LEMMA NextSteps ==
  Next => WorkerStep \/ TickStep \/ AuthWorker \/ DrainAuth \/ SessionStep \/ UserStep
  BY DEF Next, WorkerStep, TickStep, SessionStep, UserStep, JobWorker, DrainJobOf, User

-----------------------------------------------------------------------------
(* Records.                                                                *)

LEMMA SignerFields ==
  ASSUME NEW s \in Signer, NEW at \in {"none", "connect", "store", "register", "done"},
         NEW b \in BOOLEAN, NEW p \in {"none", "store", "done"}
  PROVE  /\ [s EXCEPT !.attach = at] \in Signer
         /\ [s EXCEPT !.attach = at, !.registered = b] \in Signer
         /\ [s EXCEPT !.attach = at, !.wanted = b] \in Signer
         /\ [s EXCEPT !.registered = b] \in Signer
         /\ [s EXCEPT !.wanted = b] \in Signer
         /\ [s EXCEPT !.persist = p] \in Signer
  BY DEF Signer

LEMMA SignerSome == ASSUME NEW s \in Signer PROVE s # None
  BY AccountsAssumption

LEMMA StartedType ==
  ASSUME NEW kind \in Kind, NEW a \in Accounts
  PROVE  /\ Started(kind, a) \in Job /\ Started(kind, a).acct = a /\ Started(kind, a).kind = kind
         /\ (Started(kind, a).signer <=> SignerOf(a) # None)
  <1>1. /\ (SignerOf(a) # None) \in BOOLEAN
        /\ (IF kind \in {"leave", "remove"} THEN "join" ELSE "call") \in {"join", "call", "forget", "done"}
    OBVIOUS
  <1> QED BY <1>1, Zenon DEF Started, Job

LEMMA ForgotType ==
  ASSUME signer \in Signers0, NEW kind \in Kind
  PROVE  /\ ForgotWanted(kind) \in Signers0
         /\ \A b \in Remote : ForgotWanted(kind)[b] = None <=> signer[b] = None
         /\ \A b \in Remote : signer[b] # None =>
              /\ ForgotWanted(kind)[b].registered = signer[b].registered
              /\ ForgotWanted(kind)[b].attach = signer[b].attach
  <1> DEFINE off(b) == IF signer[b] = None THEN None ELSE [signer[b] EXCEPT !.wanted = FALSE]
  <1>1. ASSUME NEW b \in Remote
        PROVE  /\ off(b) \in Signer \cup {None}
               /\ off(b) = None <=> signer[b] = None
               /\ signer[b] # None => /\ off(b).registered = signer[b].registered
                                      /\ off(b).attach = signer[b].attach
    <2>1. CASE signer[b] = None
      BY <2>1
    <2>2. CASE signer[b] # None
      <3>1. signer[b] \in Signer
        BY <2>2 DEF Signers0
      <3>2. [signer[b] EXCEPT !.wanted = FALSE] \in Signer
        BY <3>1, SignerFields
      <3> QED BY <2>2, <3>1, <3>2, SignerSome DEF Signer
    <2> QED BY <2>1, <2>2
  <1>2. CASE kind = "switch"
    <2>1. ForgotWanted(kind) = [b \in Remote |-> off(b)]
      BY <1>2 DEF ForgotWanted
    <2> HIDE DEF off
    <2> QED BY <1>1, <2>1 DEF Signers0
  <1>3. CASE kind # "switch"
    BY <1>3 DEF ForgotWanted
  <1> QED BY <1>2, <1>3

LEMMA AfterLoginType ==
  ASSUME TypeOK, NEW active \in Accounts \cup {None}, AfterLogin(active)
  PROVE  rows' \subseteq Accounts /\ cur' \in Accounts \cup {None} /\ pane' \in BOOLEAN
  BY DEF AfterLogin, SignedIn

LEMMA VaultKeeps ==
  ASSUME TypeOK, NEW a \in Accounts, Stored(a) \/ StoreFails(a) \/ Removed(a), UNCHANGED unlocked
  PROVE  /\ desc' \in [Remote -> BOOLEAN] /\ mem' \in [Remote -> BOOLEAN]
         /\ ~unlocked' => \A b \in Remote : ~mem'[b]
  BY DEF TypeOK, Stored, StoreFails, Removed

-----------------------------------------------------------------------------
(* A new job.                                                              *)

LEMMA NewJobType ==
  ASSUME TypeOK, NEW kind \in Kind, NEW a \in Accounts, NEW ss \in Signers0,
         NewJobOver(kind, a, ss)
  PROVE  signer' \in Signers0 /\ jobs' \subseteq Job
  <1> DEFINE s == IF a \in Remote THEN ss[a] ELSE None
  <1>1. CASE Occupied(kind, a)
    BY <1>1 DEF NewJobOver, TypeOK
  <1>2. CASE ~Occupied(kind, a) /\ Unattached(kind, s)
    <2>1. a \in Remote /\ ss[a] \in Signer
      BY <1>2 DEF Unattached, Signers0
    <2> DEFINE at == IF ss[a].attach = "none" THEN "connect" ELSE ss[a].attach
               t  == [ss[a] EXCEPT !.wanted = TRUE, !.attach = at]
    <2>2. t \in Signer
      BY <2>1 DEF Signer
    <2>3. signer' = IF kind # "switch" THEN ss ELSE [ss EXCEPT ![a] = t]
      BY <1>2, <2>1 DEF NewJobOver, Signers0
    <2> HIDE DEF t
    <2>4. signer' \in Signers0
      BY <2>2, <2>3 DEF Signers0
    <2> QED BY <1>2, <2>4 DEF NewJobOver, TypeOK
  <1>3. CASE ~Occupied(kind, a) /\ ~Unattached(kind, s)
    <2>1. signer' = ss /\ jobs' = jobs \cup {Started(kind, a)}
      BY <1>3 DEF NewJobOver
    <2> QED BY <2>1, StartedType DEF TypeOK
  <1> QED BY <1>1, <1>2, <1>3

LEMMA NewJobHeld ==
  ASSUME TypeOK, OneJobEach, NEW kind \in Kind, NEW a \in Accounts, NEW ss \in Signers0,
         NewJobOver(kind, a, ss), Held(ss, jobs),
         \A b \in Remote : ss[b] = None <=> signer[b] = None
  PROVE  OneJobEach' /\ Held(signer, jobs)'
  <1> DEFINE s == IF a \in Remote THEN ss[a] ELSE None
  <1>1. CASE Occupied(kind, a)
    BY <1>1 DEF NewJobOver, OneJobEach, Held
  <1>2. CASE ~Occupied(kind, a) /\ Unattached(kind, s)
    <2>1. a \in Remote /\ ss[a] \in Signer
      BY <1>2 DEF Unattached, Signers0
    <2>2. UNCHANGED jobs /\ \A b \in Remote \ {a} : signer'[b] = ss[b]
      BY <1>2 DEF NewJobOver, Signers0
    <2>3. \A j \in jobs : j.acct # a
      BY <1>2 DEF Occupied
    <2>4. OneJobEach'
      BY <2>2 DEF OneJobEach
    <2>5. Held(signer, jobs)'
      BY <2>2, <2>3 DEF Held
    <2> QED BY <2>4, <2>5
  <1>3. CASE ~Occupied(kind, a) /\ ~Unattached(kind, s)
    <2> DEFINE n == Started(kind, a)
    <2>1. signer' = ss /\ jobs' = jobs \cup {n}
      BY <1>3 DEF NewJobOver
    <2>2. n.acct = a /\ n.kind = kind /\ (n.signer <=> SignerOf(a) # None)
      BY StartedType
    <2> HIDE DEF n
    <2>3. OneJobEach'
      BY <1>3, <2>1, <2>2 DEF OneJobEach, Occupied
    <2>4. n.signer => a \in Remote /\ ss[a] # None
      BY <2>2 DEF SignerOf
    <2>5. n.signer /\ kind \in {"switch", "sign"} => ss[a].registered /\ ss[a].attach = "none"
      BY <1>3, <2>4 DEF Unattached
    <2>6. Held(signer, jobs)'
      BY <2>1, <2>2, <2>4, <2>5 DEF Held
    <2> QED BY <2>3, <2>6
  <1> QED BY <1>1, <1>2, <1>3

\* As NewJob asks for it, over the signers as they are but for who is wanted.
LEMMA NewJobKeeps ==
  ASSUME TypeOK, JobInv, NEW kind \in Kind, NEW a \in Accounts, NewJob(kind, a)
  PROVE  signer' \in Signers0 /\ jobs' \subseteq Job /\ OneJobEach' /\ Held(signer, jobs)'
  <1>1. signer \in Signers0
    BY DEF TypeOK, Signers0
  <1> DEFINE ss == ForgotWanted(kind)
  <1>2. /\ ss \in Signers0 /\ \A b \in Remote : ss[b] = None <=> signer[b] = None
        /\ \A b \in Remote : signer[b] # None => /\ ss[b].registered = signer[b].registered
                                                 /\ ss[b].attach = signer[b].attach
    BY <1>1, ForgotType
  <1>3. NewJobOver(kind, a, ss)
    BY DEF NewJob
  <1> HIDE DEF ss
  <1>4. Held(ss, jobs)
    BY <1>2 DEF JobInv, Held
  <1>5. signer' \in Signers0 /\ jobs' \subseteq Job
    BY <1>2, <1>3, NewJobType
  <1>6. OneJobEach' /\ Held(signer, jobs)'
    BY <1>2, <1>3, <1>4, NewJobHeld DEF JobInv
  <1> QED BY <1>5, <1>6

-----------------------------------------------------------------------------
(* The workers of jobs and signers.                                        *)

\* What is left of a job that goes on.
LEMMA JobFields ==
  ASSUME NEW j \in Job, NEW st \in {"join", "call", "forget", "done"},
         Advance(j, [j EXCEPT !.stage = st]) \/ Advance(j, [j EXCEPT !.stage = st, !.ok = TRUE])
  PROVE  \E k \in Job : Advance(j, k) /\ k.acct = j.acct /\ k.kind = j.kind /\ k.signer = j.signer
  <1> DEFINE k == [j EXCEPT !.stage = st]
             m == [j EXCEPT !.stage = st, !.ok = TRUE]
  <1>1. k \in Job /\ k.acct = j.acct /\ k.kind = j.kind /\ k.signer = j.signer
    BY DEF Job
  <1>2. m \in Job /\ m.acct = j.acct /\ m.kind = j.kind /\ m.signer = j.signer
    BY DEF Job
  <1> HIDE DEF k, m
  <1>3. Advance(j, k) \/ Advance(j, m)
    BY DEF k, m
  <1> QED BY <1>1, <1>2, <1>3

\* A job that goes on stays the job of its account.
LEMMA AdvanceKeeps ==
  ASSUME TypeOK, OneJobEach, Held(signer, jobs), NEW j \in jobs, NEW k \in Job,
         k.acct = j.acct, k.kind = j.kind, k.signer = j.signer, Advance(j, k), UNCHANGED signer
  PROVE  jobs' \subseteq Job /\ OneJobEach' /\ Held(signer, jobs)'
  <1>1. jobs' = (jobs \ {j}) \cup {k}
    BY DEF Advance
  <1>2. jobs' \subseteq Job
    BY <1>1 DEF TypeOK
  <1>3. OneJobEach'
    BY <1>1 DEF OneJobEach
  <1>4. Held(signer, jobs)'
    BY <1>1 DEF Held
  <1> QED BY <1>2, <1>3, <1>4

\* What the type invariant says of the sign-in, apart from the rest.
AuthType ==
  /\ auth \in Auth \cup {None}
  /\ auth # None /\ auth.stage \notin {"call", "connect", "done"} => auth.acct \in Accounts

\* And of what is neither a signer, a job nor a sign-in.
RestType ==
  /\ store \in [Accounts -> {"absent", "out", "in"}]
  /\ desc \in [Remote -> BOOLEAN] /\ mem \in [Remote -> BOOLEAN] /\ unlocked \in BOOLEAN
  /\ ~unlocked => \A a \in Remote : ~mem[a]
  /\ rows \subseteq Accounts /\ cur \in Accounts \cup {None} /\ pane \in BOOLEAN
  /\ phase \in {"run", "stopping", "jobs", "signers", "closed"}
  /\ starts \in 0..MaxStarts
  /\ raced \subseteq Remote /\ cut \subseteq Remote

LEMMA TypeParts ==
  TypeOK <=> RestType /\ signer \in Signers0 /\ jobs \subseteq Job /\ AuthType
  BY DEF TypeOK, RestType, AuthType, Signers0

LEMMA TypePartsNext ==
  RestType' /\ (signer \in Signers0)' /\ (jobs \subseteq Job)' /\ AuthType' => TypeOK'
  BY TypeParts, PTL

LEMMA BecomesKeeps ==
  ASSUME TypeInv, JobInv, NEW a \in Remote, NEW s \in Signers(a) \ {None}, NEW t \in Signer,
         Becomes(a, s, t), UNCHANGED jobs,
         s.attach # "none" \/ (t.attach = s.attach /\ t.registered = s.registered)
  PROVE  signer' \in Signers0 /\ AuthType' /\ AuthShape' /\ Held(signer, jobs)'
  <1>1. CASE s = signer[a] /\ signer' = [signer EXCEPT ![a] = t] /\ UNCHANGED auth
    <2>1. signer' \in Signers0
      BY <1>1 DEF TypeInv, TypeOK, Signers0
    <2>2. AuthType' /\ AuthShape'
      BY <1>1, TypeParts DEF TypeInv, AuthType, AuthShape
    <2>3. \A b \in Remote : signer'[b] = IF b = a THEN t ELSE signer[b]
      BY <1>1 DEF TypeInv, TypeOK
    <2>4. Held(signer, jobs)'
      BY <1>1, <2>3, SignerSome DEF JobInv, Held
    <2> QED BY <2>1, <2>2, <2>4
  <1>2. CASE auth # None /\ auth' = [auth EXCEPT !.prev = t] /\ UNCHANGED signer
    <2>1. auth \in Auth
      BY <1>2 DEF TypeInv, TypeOK
    <2>2. /\ auth' \in Auth /\ auth'.method = auth.method /\ auth'.acct = auth.acct
          /\ auth'.stage = auth.stage /\ auth'.login = auth.login /\ auth'.err = auth.err
      BY <1>2, <2>1 DEF Auth
    <2>3. AuthType' /\ AuthShape'
      BY <1>2, <2>2, TypeParts DEF TypeInv, AuthType, AuthShape
    <2> QED BY <1>2, <2>3 DEF TypeInv, TypeOK, Signers0, JobInv, Held
  <1> QED BY <1>1, <1>2 DEF Becomes

LEMMA SignersType ==
  ASSUME TypeOK, NEW a \in Remote, NEW s \in Signers(a) \ {None}
  PROVE  s \in Signer
  <1>1. CASE s = signer[a]
    BY <1>1 DEF TypeOK
  <1>2. CASE auth # None /\ s = auth.prev
    BY <1>2 DEF TypeOK, Auth
  <1> QED BY <1>1, <1>2 DEF Signers, InFlight

LEMMA WorkerKeeps ==
  ASSUME IInv, WorkerStep
  PROVE  IInv'
  <1> USE DEF IInv
  <1>1. ASSUME NEW a \in Remote, AttachStep(a)
        PROVE  IInv'
    <2>1. PICK s \in Signers(a) \ {None} :
            \/ /\ s.attach = "connect" /\ UNCHANGED <<mem, desc>>
               /\ \E next \in {"store", "done"} : Becomes(a, s, [s EXCEPT !.attach = next])
            \/ /\ s.attach = "store" /\ Stored(a)
               /\ Becomes(a, s, [s EXCEPT !.attach = "register"])
            \/ /\ s.attach = "store" /\ StoreFails(a)
               /\ Becomes(a, s, [s EXCEPT !.attach = "done"])
            \/ /\ s.attach = "register" /\ UNCHANGED <<mem, desc>>
               /\ \E ok \in BOOLEAN :
                    Becomes(a, s, [s EXCEPT !.attach = "done", !.registered = ok \/ @])
      BY <1>1 DEF AttachStep
    <2>2. s \in Signer /\ a \in Accounts
      BY SignersType DEF TypeInv, Accounts
    <2>3. \E t \in Signer : Becomes(a, s, t)
      <3>1. s.registered \in BOOLEAN
        BY <2>2 DEF Signer
      <3>2. PICK at \in {"none", "connect", "store", "register", "done"}, ok \in BOOLEAN :
              \/ Becomes(a, s, [s EXCEPT !.attach = at])
              \/ Becomes(a, s, [s EXCEPT !.attach = at, !.registered = ok \/ s.registered])
        BY <2>1, Zenon
      <3>3. (ok \/ s.registered) \in BOOLEAN
        OBVIOUS
      <3> QED BY <2>2, <3>2, <3>3, SignerFields, Zenon
    <2>4. s.attach # "none" /\ UNCHANGED jobs
      BY <1>1, <2>1 DEF AttachStep
    <2>5. signer' \in Signers0 /\ AuthType' /\ AuthShape' /\ Held(signer, jobs)'
      BY <2>3, <2>4, BecomesKeeps
    <2>6. UNCHANGED <<mem, desc>> \/ Stored(a) \/ StoreFails(a)
      BY <2>1
    <2>7. RestType'
      BY <1>1, <2>2, <2>6, VaultKeeps, TypeParts DEF AttachStep, TypeInv, RestType, screen, life, history
    <2> QED BY <1>1, <2>4, <2>5, <2>7, TypeParts, TypePartsNext
            DEF AttachStep, TypeInv, JobInv, OneJobEach, JobsJoined, life
  <1>2. ASSUME NEW a \in Remote, PersistStep(a)
        PROVE  IInv'
    <2>1. PICK s \in Signers(a) \ {None} :
            s.persist = "store" /\ Becomes(a, s, [s EXCEPT !.persist = "done"])
      BY <1>2 DEF PersistStep
    <2>2. s \in Signer /\ a \in Accounts
      BY SignersType DEF TypeInv, Accounts
    <2> DEFINE t == [s EXCEPT !.persist = "done"]
    <2>3. t \in Signer /\ t.attach = s.attach /\ t.registered = s.registered
      BY <2>2 DEF Signer
    <2>4. Becomes(a, s, t) /\ UNCHANGED jobs
      BY <1>2, <2>1 DEF PersistStep
    <2> HIDE DEF t
    <2>5. signer' \in Signers0 /\ AuthType' /\ AuthShape' /\ Held(signer, jobs)'
      BY <2>3, <2>4, BecomesKeeps
    <2>7. RestType'
      BY <1>2, <2>2, VaultKeeps, TypeParts DEF PersistStep, TypeInv, RestType, screen, life, history
    <2> QED BY <1>2, <2>4, <2>5, <2>7, TypeParts, TypePartsNext
            DEF PersistStep, TypeInv, JobInv, OneJobEach, JobsJoined, life
  <1>3. ASSUME NEW j \in jobs, Join(j) \/ CallOther(j) \/ Forget(j)
        PROVE  IInv'
    <2>1. j \in Job
      BY DEF TypeInv, TypeOK
    <2>2. \E k \in Job : Advance(j, k) /\ k.acct = j.acct /\ k.kind = j.kind /\ k.signer = j.signer
      <3>1. PICK st \in {"join", "call", "forget", "done"} :
              Advance(j, [j EXCEPT !.stage = st]) \/ Advance(j, [j EXCEPT !.stage = st, !.ok = TRUE])
        BY <1>3, Zenon DEF Join, CallOther, Forget
      <3> QED BY <2>1, <3>1, JobFields
    <2>3. UNCHANGED <<signer, auth, phase>>
      BY <1>3 DEF Join, CallOther, Forget, life
    <2>4. jobs' \subseteq Job /\ OneJobEach' /\ Held(signer, jobs)'
      BY <2>2, <2>3, AdvanceKeeps DEF TypeInv, JobInv
    <2>5. JobsJoined'
      BY <2>3 DEF JobInv, JobsJoined
    <2>6. signer' \in Signers0 /\ AuthType' /\ AuthShape'
      BY <2>3, TypeParts DEF TypeInv, AuthType, AuthShape
    <2>7. j.acct \in Accounts
      BY <2>1 DEF Job
    <2>8. RestType'
      <3>1. CASE Join(j)
        BY <3>1, TypeParts DEF Join, TypeInv, RestType, disk, vault, screen, life, history
      <3>2. CASE CallOther(j)
        BY <2>7, <3>2, TypeParts DEF CallOther, TypeInv, RestType, vault, screen, life, history
      <3>3. CASE Forget(j)
        BY <2>7, <3>3, TypeParts, VaultKeeps DEF Forget, TypeInv, RestType, screen, life, history
      <3> QED BY <1>3, <3>1, <3>2, <3>3
    <2> QED BY <2>4, <2>5, <2>6, <2>8, TypePartsNext DEF TypeInv, JobInv
  <1>4. ASSUME NEW j \in jobs, CallLeave(j)
        PROVE  IInv'
    <2>1. j \in Job /\ j.acct \in Accounts /\ Leaving(j)
      BY <1>4 DEF TypeInv, TypeOK, Job, CallLeave
    <2>2. PICK k \in Job : Advance(j, k) /\ k.acct = j.acct /\ k.kind = j.kind /\ k.signer = j.signer
      <3>1. PICK st \in {"join", "call", "forget", "done"} :
              Advance(j, [j EXCEPT !.stage = st]) \/ Advance(j, [j EXCEPT !.stage = st, !.ok = TRUE])
        BY <1>4, Zenon DEF CallLeave
      <3> QED BY <2>1, <3>1, JobFields
    <2>3. UNCHANGED <<auth, phase>>
      BY <1>4 DEF CallLeave, life
    <2>4. signer' = signer \/ (j.signer /\ signer' = [signer EXCEPT ![j.acct].registered = FALSE])
      BY <1>4 DEF CallLeave
    <2>5. j.signer => j.acct \in Remote /\ signer[j.acct] \in Signer
      BY DEF JobInv, Held, TypeInv, TypeOK
    <2>6. signer' \in Signers0
      BY <2>4, <2>5, SignerFields DEF TypeInv, TypeOK, Signers0
    <2>7. /\ \A b \in Remote \ {j.acct} : signer'[b] = signer[b]
          /\ j.signer => signer'[j.acct] # None
      <3>1. CASE signer' = signer
        BY <2>5, <3>1, SignerSome
      <3>2. CASE j.signer /\ signer' = [signer EXCEPT ![j.acct].registered = FALSE]
        <4> DEFINE t == [signer[j.acct] EXCEPT !.registered = FALSE]
        <4>1. t \in Signer
          BY <2>5, <3>2, SignerFields
        <4>2. signer' = [signer EXCEPT ![j.acct] = t]
          BY <3>2
        <4> HIDE DEF t
        <4> QED BY <2>5, <3>2, <4>1, <4>2, SignerSome DEF TypeInv, TypeOK
      <3> QED BY <2>4, <3>1, <3>2
    <2>8. jobs' = (jobs \ {j}) \cup {k}
      BY <2>2 DEF Advance
    <2>9. jobs' \subseteq Job /\ OneJobEach' /\ JobsJoined'
      <3>1. jobs' \subseteq Job
        BY <2>8 DEF TypeInv, TypeOK
      <3>2. OneJobEach'
        BY <2>2, <2>8 DEF JobInv, OneJobEach
      <3> QED BY <2>3, <3>1, <3>2 DEF JobInv, JobsJoined
    <2>10. Held(signer, jobs)'
      <3>1. ASSUME NEW i \in jobs', i.signer
            PROVE  /\ i.acct \in Remote /\ signer'[i.acct] # None
                   /\ i.kind \in {"switch", "sign"} =>
                        signer'[i.acct].registered /\ signer'[i.acct].attach = "none"
        <4>1. CASE i = k
          BY <2>1, <2>2, <2>5, <2>7, <3>1, <4>1 DEF Leaving
        <4>2. CASE i \in jobs \ {j}
          <5>1. i.acct # j.acct
            BY <4>2 DEF JobInv, OneJobEach
          <5> QED BY <2>7, <3>1, <4>2, <5>1 DEF JobInv, Held
        <4> QED BY <2>8, <4>1, <4>2
      <3> QED BY <3>1 DEF Held
    <2>11. RestType'
      BY <1>4, <2>1, TypeParts DEF CallLeave, TypeInv, RestType, vault, screen, life, history
    <2>12. AuthType' /\ AuthShape'
      BY <2>3, TypeParts DEF TypeInv, AuthType, AuthShape
    <2> QED BY <2>6, <2>9, <2>10, <2>11, <2>12, TypePartsNext DEF TypeInv, JobInv
  <1> QED BY <1>1, <1>2, <1>3, <1>4 DEF WorkerStep

-----------------------------------------------------------------------------
(* The frame loop's drains of signers and jobs.                            *)

LEMMA TickKeeps ==
  ASSUME IInv, TickStep
  PROVE  IInv'
  <1> USE DEF IInv
  <1>0. /\ UNCHANGED <<disk, auth, life, history>> /\ phase = "run"
        /\ AuthType' /\ AuthShape'
    <2>1. UNCHANGED <<disk, auth, life, history>> /\ phase = "run"
      BY DEF TickStep, DrainJob, AttachDrained, PersistDrained, PersistStarts
    <2> QED BY <2>1, TypeParts DEF TypeInv, AuthType, AuthShape
  <1>1. ASSUME NEW a \in Remote, PersistDrained(a) \/ PersistStarts(a)
        PROVE  IInv'
    <2>1. signer[a] \in Signer
      BY <1>1 DEF PersistDrained, PersistStarts, TypeInv, TypeOK
    <2>2. PICK p \in {"none", "store"} : signer' = [signer EXCEPT ![a].persist = p]
      BY <1>1 DEF PersistDrained, PersistStarts
    <2> DEFINE t == [signer[a] EXCEPT !.persist = p]
    <2>3. /\ t \in Signer /\ t # None /\ t.attach = signer[a].attach
          /\ t.registered = signer[a].registered
      <3>1. t \in Signer
        BY <2>1, SignerFields
      <3> QED BY <2>1, <3>1, SignerSome DEF Signer
    <2>4. signer' = [signer EXCEPT ![a] = t] /\ UNCHANGED <<jobs, screen>>
      BY <1>1, <2>2 DEF PersistDrained, PersistStarts
    <2> HIDE DEF t
    <2>5. signer' \in Signers0
      BY <2>3, <2>4 DEF TypeInv, TypeOK, Signers0
    <2>6. \A b \in Remote : signer'[b] = IF b = a THEN t ELSE signer[b]
      BY <2>4 DEF TypeInv, TypeOK
    <2>7. Held(signer, jobs)'
      BY <2>3, <2>4, <2>6 DEF JobInv, Held
    <2>8. RestType'
      BY <1>0, <2>4, TypeParts DEF TypeInv, RestType, disk, vault, screen, life, history
    <2> QED BY <1>0, <2>4, <2>5, <2>7, <2>8, TypeParts, TypePartsNext
            DEF TypeInv, JobInv, OneJobEach, JobsJoined, life
  <1>2. ASSUME NEW a \in Remote, AttachDrained(a)
        PROVE  IInv'
    <2>1. signer[a] \in Signer /\ signer[a].attach = "done" /\ a \in Accounts
      BY <1>2 DEF AttachDrained, TypeInv, TypeOK, Accounts
    <2> DEFINE idle == [signer EXCEPT ![a].attach = "none", ![a].wanted = FALSE]
               t    == [signer[a] EXCEPT !.attach = "none", !.wanted = FALSE]
               others == [b \in Remote |-> IF idle[b] = None THEN None
                                           ELSE [idle[b] EXCEPT !.wanted = FALSE]]
    <2>2. t \in Signer /\ t # None /\ t.registered = signer[a].registered
      <3>1. t \in Signer
        BY <2>1, SignerFields
      <3> QED BY <2>1, <3>1, SignerSome DEF Signer
    <2>3. idle = [signer EXCEPT ![a] = t]
      BY <2>1 DEF TypeInv, TypeOK
    <2> HIDE DEF idle, t
    <2>4. idle \in Signers0 /\ \A b \in Remote : idle[b] = IF b = a THEN t ELSE signer[b]
      BY <2>2, <2>3 DEF TypeInv, TypeOK, Signers0
    <2>5. \A j \in jobs : j.signer /\ j.kind \in {"switch", "sign"} => j.acct # a
      BY <2>1 DEF JobInv, Held
    <2>6. Held(idle, jobs) /\ \A b \in Remote : idle[b] = None <=> signer[b] = None
      BY <2>1, <2>2, <2>4, <2>5, SignerSome DEF JobInv, Held
    <2>7. ASSUME NEW b \in Remote
          PROVE  /\ others[b] \in Signer \cup {None}
                 /\ others[b] = None <=> idle[b] = None
                 /\ idle[b] # None => /\ others[b].registered = idle[b].registered
                                      /\ others[b].attach = idle[b].attach
      <3>1. CASE idle[b] = None
        BY <3>1
      <3>2. CASE idle[b] # None
        <4>1. idle[b] \in Signer
          BY <2>4, <3>2 DEF Signers0
        <4>2. others[b] = [idle[b] EXCEPT !.wanted = FALSE]
          BY <3>2
        <4>3. others[b] \in Signer
          BY <4>1, <4>2, SignerFields
        <4> HIDE DEF others
        <4> QED BY <3>2, <4>1, <4>2, <4>3, SignerSome DEF Signer
      <3> QED BY <3>1, <3>2
    <2>8. others \in Signers0
      <3>1. others = [b \in Remote |-> others[b]]
        OBVIOUS
      <3> HIDE DEF others
      <3> QED BY <2>7, <3>1 DEF Signers0
    <2>9. \/ NewJobOver("switch", a, others)
          \/ signer' = idle /\ UNCHANGED jobs
      BY <1>2, Zenon DEF AttachDrained, idle
    <2> HIDE DEF others
    <2>10. Held(others, jobs) /\ \A b \in Remote : others[b] = None <=> signer[b] = None
      BY <2>6, <2>7 DEF Held
    <2>11. signer' \in Signers0 /\ jobs' \subseteq Job /\ OneJobEach' /\ Held(signer, jobs)'
      <3>1. CASE NewJobOver("switch", a, others)
        <4>1. signer' \in Signers0 /\ jobs' \subseteq Job
          BY <2>1, <2>8, <3>1, NewJobType DEF TypeInv, Kind
        <4>2. OneJobEach' /\ Held(signer, jobs)'
          BY <2>1, <2>8, <2>10, <3>1, NewJobHeld DEF TypeInv, JobInv, Kind
        <4> QED BY <4>1, <4>2
      <3>2. CASE signer' = idle /\ UNCHANGED jobs
        BY <2>4, <2>6, <3>2 DEF TypeInv, TypeOK, JobInv, OneJobEach, Held
      <3> QED BY <2>9, <3>1, <3>2
    <2>12. RestType'
      BY <1>0, <1>2, TypeParts DEF AttachDrained, TypeInv, RestType, disk, vault, screen, life, history
    <2> QED BY <1>0, <2>11, <2>12, TypePartsNext DEF TypeInv, JobInv, JobsJoined, life
  <1>3. ASSUME NEW j \in jobs, DrainJob(j)
        PROVE  IInv'
    <2>1. j \in Job /\ j.acct \in Accounts
      BY DEF TypeInv, TypeOK, Job
    <2>2. jobs' = jobs \ {j}
      BY <1>3 DEF DrainJob
    <2>3. signer' = signer \/ (j.signer /\ signer' = [signer EXCEPT ![j.acct] = None])
      BY <1>3 DEF DrainJob
    <2>4. signer' \in Signers0
      BY <2>3 DEF TypeInv, TypeOK, Signers0
    <2>5. \A b \in Remote \ {j.acct} : signer'[b] = signer[b]
      BY <2>3 DEF TypeInv, TypeOK
    <2>6. \A i \in jobs' : i \in jobs /\ i.acct # j.acct
      BY <2>2 DEF JobInv, OneJobEach
    <2>7. jobs' \subseteq Job /\ OneJobEach' /\ Held(signer, jobs)'
      <3>1. jobs' \subseteq Job /\ OneJobEach'
        BY <2>6 DEF TypeInv, TypeOK, JobInv, OneJobEach
      <3>2. Held(signer, jobs)'
        BY <2>5, <2>6 DEF JobInv, Held
      <3> QED BY <3>1, <3>2
    <2>8. rows' \subseteq Accounts /\ cur' \in Accounts \cup {None} /\ pane' \in BOOLEAN
      <3>1. \/ \E active \in Accounts \cup {None} : AfterLogin(active)
            \/ cur' = j.acct /\ UNCHANGED <<rows, pane>>
            \/ UNCHANGED screen
        <4>1. cur \in Accounts \cup {None}
          BY DEF TypeInv, TypeOK
        <4> QED BY <1>3, <4>1 DEF DrainJob
      <3> QED BY <2>1, <3>1, AfterLoginType DEF TypeInv, TypeOK, screen
    <2>9. RestType'
      BY <1>0, <2>8, TypeParts DEF TypeInv, RestType, disk, vault, life, history
    <2> QED BY <1>0, <2>4, <2>7, <2>9, TypePartsNext DEF TypeInv, JobInv, JobsJoined, life
  <1> QED BY <1>1, <1>2, <1>3 DEF TickStep

-----------------------------------------------------------------------------
(* The sign-in.                                                            *)

LEMMA AuthSome == ASSUME NEW x \in Auth PROVE x # None
  BY AccountsAssumption

\* The sign-in worker touches neither the jobs nor the signers in nip46_accounts.
LEMMA AuthWorkerKeeps ==
  ASSUME IInv, AuthWorker
  PROVE  IInv'
  <1> USE DEF IInv
  <1>0. UNCHANGED <<signer, jobs, screen, life, raced, unlocked>> /\ auth # None
    BY DEF AuthWorker, AuthFails, FreePrevious, RemoteLogin, StoreLogin, SignOutAgain, ForgetLogin,
           LocalLogin, Connected, At, disk, vault, history
  <1>1. auth \in Auth /\ AuthType
    BY <1>0, TypeParts DEF TypeInv, AuthType
  <1>2. AuthType' /\ AuthShape'
    <2>1. CASE AuthFails
      BY <1>1, <2>1 DEF AuthFails, TypeInv, AuthType, AuthShape, Auth, Second
    <2>2. CASE FreePrevious
      BY <1>1, <2>2 DEF FreePrevious, At, TypeInv, AuthType, AuthShape, Auth, Second
    <2>3. CASE RemoteLogin
      BY <1>1, <2>3 DEF RemoteLogin, At, TypeInv, AuthType, AuthShape, Auth, Second
    <2>4. CASE StoreLogin
      BY <1>1, <2>4 DEF StoreLogin, At, TypeInv, AuthType, AuthShape, Auth, Second
    <2>5. CASE SignOutAgain
      <3>1. auth.stage \in {"undo", "signout"} /\ auth.acct \in Remote
        BY <1>0, <1>1, <2>5 DEF SignOutAgain, At, TypeInv, AuthShape, Second
      <3>2. CASE auth' = [auth EXCEPT !.stage = "forget"]
        <4>1. /\ auth' \in Auth /\ auth'.method = auth.method /\ auth'.acct = auth.acct
              /\ auth'.stage = "forget" /\ auth'.login = auth.login /\ auth'.err = auth.err
          BY <1>1, <3>2 DEF Auth
        <4> QED BY <1>1, <3>1, <4>1, AuthSome DEF TypeInv, AuthType, AuthShape, Second, Accounts
      <3>3. CASE auth' = [auth EXCEPT !.stage = "done", !.err = TRUE]
        <4>1. /\ auth' \in Auth /\ auth'.method = auth.method /\ auth'.acct = auth.acct
              /\ auth'.stage = "done" /\ auth'.login = auth.login /\ auth'.err = TRUE
          BY <1>1, <3>3 DEF Auth
        <4> QED BY <1>1, <3>1, <4>1, AuthSome DEF TypeInv, AuthType, AuthShape, Second, Accounts
      <3> QED BY <2>5, <3>2, <3>3 DEF SignOutAgain
    <2>6. CASE ForgetLogin
      BY <1>1, <2>6 DEF ForgetLogin, At, TypeInv, AuthType, AuthShape, Auth, Second
    <2>7. ASSUME NEW a \in Local, LocalLogin(a)
          PROVE  AuthType' /\ AuthShape'
      BY <1>1, <2>7, AccountsAssumption
      DEF LocalLogin, At, TypeInv, AuthType, AuthShape, Auth, Second, Accounts
    <2>8. ASSUME NEW a \in Remote, Connected(a)
          PROVE  AuthType' /\ AuthShape'
      BY <1>1, <2>8, AccountsAssumption
      DEF Connected, At, TypeInv, AuthType, AuthShape, Auth, Second, Accounts
    <2> QED BY <2>1, <2>2, <2>3, <2>4, <2>5, <2>6, <2>7, <2>8 DEF AuthWorker
  <1>3. auth.stage \in Second => auth.acct \in Remote
    BY <1>0, <1>1 DEF TypeInv, AuthShape, Second
  <1>4. RestType'
    <2> USE TypeParts DEF TypeInv
    <2>1. CASE AuthFails \/ \E a \in Remote : Connected(a)
      BY <2>1 DEF AuthFails, Connected, RestType, disk, vault, screen, life, history
    <2>2. ASSUME FreePrevious \/ StoreLogin \/ ForgetLogin
          PROVE  RestType'
      <3>1. auth.acct \in Accounts
        BY <1>3, <2>2 DEF FreePrevious, StoreLogin, ForgetLogin, At, Second, Accounts
      <3>2. \/ UNCHANGED <<mem, desc>>
            \/ Stored(auth.acct) \/ StoreFails(auth.acct) \/ Removed(auth.acct)
        BY <2>2 DEF FreePrevious, StoreLogin, ForgetLogin
      <3>3. UNCHANGED <<store, unlocked, screen, life, history>>
        BY <2>2 DEF FreePrevious, StoreLogin, ForgetLogin
      <3> QED BY <3>1, <3>2, <3>3, VaultKeeps DEF RestType, screen, life, history
    <2>3. CASE RemoteLogin
      <3>1. auth.acct \in Accounts
        BY <1>3, <2>3 DEF RemoteLogin, At, Second, Accounts
      <3> QED BY <2>3, <3>1 DEF RemoteLogin, RestType, vault, screen, life
    <2>4. CASE SignOutAgain
      <3>1. auth.acct \in Accounts /\ auth.acct \in Remote
        BY <1>3, <2>4 DEF SignOutAgain, At, Second, Accounts
      <3> QED BY <2>4, <3>1 DEF SignOutAgain, RestType, vault, screen, life
    <2>5. ASSUME NEW a \in Local, LocalLogin(a)
          PROVE  RestType'
      BY <2>5 DEF LocalLogin, RestType, vault, screen, life, history, Accounts
    <2> QED BY <2>1, <2>2, <2>3, <2>4, <2>5 DEF AuthWorker
  <1> QED BY <1>0, <1>2, <1>4, TypeParts, TypePartsNext
          DEF TypeInv, JobInv, OneJobEach, Held, JobsJoined, life, Signers0

\* The drain takes a signer away only from an account without a job.
LEMMA DrainAuthKeeps ==
  ASSUME IInv, DrainAuth
  PROVE  IInv'
  <1> USE DEF IInv
  <1>0. UNCHANGED <<disk, life, history>> /\ phase = "run" /\ auth # None /\ auth.stage = "done"
    BY DEF DrainAuth, CancelledLocal, CancelledRemote, Reconnect, Dropped, Adopted, Drained, At
  <1>1. auth \in Auth /\ AuthType /\ (~auth.err => auth.acct \in Accounts)
    BY <1>0, TypeParts DEF TypeInv, AuthType, AuthShape, Auth
  <1>2. auth.method = "remote" /\ ~auth.err => auth.acct \in Remote
    BY <1>0, <1>1 DEF TypeInv, AuthShape
  <1>3. AuthType' /\ AuthShape'
    <2>1. auth' = None => AuthType' /\ AuthShape'
      BY DEF AuthType, AuthShape
    <2>2. CASE CancelledRemote
      BY <1>0, <1>1, <1>2, <2>2 DEF CancelledRemote, TypeInv, AuthType, AuthShape, Auth, Second
    <2>3. CASE Reconnect /\ ~Busy(auth.acct)
      <3>1. signer[auth.acct] \in Signer \cup {None}
        BY <1>2, <2>3 DEF Reconnect, TypeInv, TypeOK
      <3>2. auth' = [auth EXCEPT !.login = TRUE, !.stage = "free", !.prev = signer[auth.acct]]
        BY <2>3 DEF Reconnect
      <3> QED BY <1>0, <1>1, <1>2, <2>3, <3>1, <3>2
              DEF Reconnect, TypeInv, AuthType, AuthShape, Auth, Second
    <2> QED BY <2>1, <2>2, <2>3 DEF DrainAuth, CancelledLocal, Reconnect, Dropped, Adopted
  <1>4. signer' \in Signers0 /\ jobs' \subseteq Job /\ OneJobEach' /\ Held(signer, jobs)'
    <2>1. CASE CancelledLocal /\ Unwanted(auth)
      <3>1. auth.acct \in Accounts
        BY <1>1, <2>1 DEF Unwanted, Auth
      <3>2. PICK kind \in Kind : NewJob(kind, auth.acct)
        BY <2>1 DEF CancelledLocal, Kind
      <3> QED BY <3>1, <3>2, NewJobKeeps DEF TypeInv
    <2>2. CASE Reconnect /\ ~Busy(auth.acct)
      <3>1. signer' = [signer EXCEPT ![auth.acct] = None] /\ UNCHANGED jobs
        BY <2>2 DEF Reconnect
      <3>2. signer' \in Signers0
        BY <3>1 DEF TypeInv, TypeOK, Signers0
      <3>3. \A b \in Remote \ {auth.acct} : signer'[b] = signer[b]
        BY <3>1 DEF TypeInv, TypeOK
      <3>4. Held(signer, jobs)'
        BY <2>2, <3>1, <3>3 DEF JobInv, Held, Busy
      <3> QED BY <3>1, <3>2, <3>4 DEF TypeInv, TypeOK, JobInv, OneJobEach
    <2>3. CASE Adopted /\ auth.method = "remote"
      <3> DEFINE new == [attach |-> "none", registered |-> TRUE, wanted |-> FALSE, persist |-> "none"]
      <3>1. new \in Signer /\ new # None /\ new.registered /\ new.attach = "none"
        <4>1. new \in Signer
          BY Zenon DEF Signer
        <4> QED BY <4>1, SignerSome
      <3>2. signer' = [signer EXCEPT ![auth.acct] = new] /\ UNCHANGED jobs
        BY <2>3 DEF Adopted
      <3> HIDE DEF new
      <3>3. signer' \in Signers0
        BY <3>1, <3>2 DEF TypeInv, TypeOK, Signers0
      <3>4. \A b \in Remote : signer'[b] = IF b = auth.acct THEN new ELSE signer[b]
        BY <3>2 DEF TypeInv, TypeOK
      <3>5. Held(signer, jobs)'
        BY <3>1, <3>2, <3>4 DEF JobInv, Held
      <3> QED BY <3>2, <3>3, <3>5 DEF TypeInv, TypeOK, JobInv, OneJobEach
    <2>4. UNCHANGED <<signer, jobs>> =>
            signer' \in Signers0 /\ jobs' \subseteq Job /\ OneJobEach' /\ Held(signer, jobs)'
      BY DEF TypeInv, TypeOK, Signers0, JobInv, OneJobEach, Held
    <2> QED BY <2>1, <2>2, <2>3, <2>4 DEF DrainAuth, CancelledLocal, CancelledRemote, Reconnect, Dropped, Adopted
  <1>5. RestType'
    <2>1. UNCHANGED screen \/ (AfterLogin(auth.acct) /\ Adopted)
      BY DEF DrainAuth, CancelledLocal, CancelledRemote, Reconnect, Dropped, Adopted
    <2>2. rows' \subseteq Accounts /\ cur' \in Accounts \cup {None} /\ pane' \in BOOLEAN
      BY <1>1, <2>1, AfterLoginType DEF Adopted, TypeInv, TypeOK, screen
    <2> QED BY <1>0, <2>2, TypeParts DEF TypeInv, RestType, disk, vault, life, history
  <1> QED BY <1>0, <1>3, <1>4, <1>5, TypePartsNext DEF TypeInv, JobInv, JobsJoined, life

-----------------------------------------------------------------------------
(* The user, and the ends of a session.                                    *)

LEMMA UserKeeps ==
  ASSUME IInv, UserStep
  PROVE  IInv'
  <1> USE DEF IInv
  <1>0. UNCHANGED <<disk, rows, cur, life, cut>> /\ phase = "run"
    BY DEF UserStep, Ask, OpenPane, CancelAuth, ClosePane, StartAuth, Using, AtLogin, screen, history
  <1>1. ASSUME NEW kind \in Kind, NEW a \in Accounts, Ask(kind, a)
        PROVE  IInv'
    <2>1. signer' \in Signers0 /\ jobs' \subseteq Job /\ OneJobEach' /\ Held(signer, jobs)'
      BY <1>1, NewJobKeeps DEF Ask, TypeInv
    <2>2. AuthType' /\ AuthShape'
      BY <1>1, TypeParts DEF Ask, TypeInv, AuthType, AuthShape
    <2>3. InFlight(a) /\ auth.login => a \in Remote
      BY DEF InFlight, TypeInv, AuthShape
    <2>4. raced' \subseteq Remote
      BY <1>1, <2>3 DEF Ask, TypeInv, TypeOK
    <2>5. RestType'
      BY <1>0, <1>1, <2>4, TypeParts DEF Ask, TypeInv, RestType, disk, vault, screen, life
    <2> QED BY <1>0, <2>1, <2>2, <2>5, TypePartsNext DEF TypeInv, JobInv, JobsJoined, life
  <1>2. ASSUME \/ OpenPane \/ CancelAuth \/ ClosePane
               \/ \E method \in {"import", "create", "remote"} : StartAuth(method)
        PROVE  IInv'
    <2>1. UNCHANGED <<signer, jobs, raced>> /\ pane' \in BOOLEAN
      BY <1>2 DEF OpenPane, CancelAuth, ClosePane, StartAuth, TypeInv, TypeOK, history, screen
    <2>2. RestType'
      BY <1>0, <2>1, TypeParts DEF TypeInv, RestType, disk, vault, life
    <2>3. AuthType' /\ AuthShape'
      <3>1. CASE OpenPane \/ ClosePane
        BY <3>1, TypeParts DEF OpenPane, ClosePane, TypeInv, AuthType, AuthShape
      <3>2. CASE CancelAuth
        <4>1. auth \in Auth /\ auth' = [auth EXCEPT !.cancelled = TRUE]
          BY <3>2 DEF CancelAuth, TypeInv, TypeOK
        <4>2. /\ auth' \in Auth /\ auth'.method = auth.method /\ auth'.acct = auth.acct
              /\ auth'.stage = auth.stage /\ auth'.login = auth.login /\ auth'.err = auth.err
          BY <4>1 DEF Auth
        <4> QED BY <4>1, <4>2, AuthSome, TypeParts DEF TypeInv, AuthType, AuthShape
      <3>3. ASSUME NEW method \in {"import", "create", "remote"}, StartAuth(method)
            PROVE  AuthType' /\ AuthShape'
        <4> DEFINE stage == IF method = "remote" THEN "connect" ELSE "call"
                   prior == IF method = "import" THEN rows \cap Local ELSE {}
        <4>1. prior \in SUBSET Local /\ stage \in {"connect", "call"}
          OBVIOUS
        <4>2. auth' = [method |-> method, acct |-> None, stage |-> stage, cancelled |-> FALSE,
                       login |-> FALSE, prev |-> None, err |-> FALSE, prior |-> prior]
          BY <3>3 DEF StartAuth
        <4> HIDE DEF prior
        <4>3. auth' \in Auth
          BY <4>1, <4>2, Zenon DEF Auth
        <4>4. /\ auth'.method = method /\ auth'.stage = stage /\ auth'.acct = None
              /\ auth'.login = FALSE /\ auth'.err = FALSE
          BY <4>2
        <4> QED BY <4>3, <4>4 DEF AuthType, AuthShape, Second
      <3> QED BY <1>2, <3>1, <3>2, <3>3
    <2> QED BY <1>0, <2>1, <2>2, <2>3, TypeParts, TypePartsNext
            DEF TypeInv, JobInv, OneJobEach, Held, JobsJoined, life, Signers0
  <1> QED BY <1>1, <1>2 DEF UserStep

\* A session that ends joins its jobs before it frees the signers.
LEMMA SessionKeeps ==
  ASSUME IInv, SessionStep
  PROVE  IInv'
  <1> USE DEF IInv
  <1>1. jobs' = jobs \/ jobs' = {}
    BY DEF SessionStep, Stop, AuthStopped, JobsStopped, SignersStopped, BeginStop, Boot, Crash,
           OtherSecretSaved
  <1>2. jobs' \subseteq Job /\ OneJobEach'
    BY <1>1 DEF TypeInv, TypeOK, JobInv, OneJobEach
  <1>3. auth' = auth \/ auth' = None
    BY DEF SessionStep, Stop, AuthStopped, JobsStopped, SignersStopped, BeginStop, Boot, Crash,
           OtherSecretSaved
  <1>4. AuthType' /\ AuthShape'
    BY <1>3, TypeParts DEF TypeInv, AuthType, AuthShape
  <1>5. signer' = signer \/ jobs' = {}
    BY DEF SessionStep, Stop, AuthStopped, JobsStopped, SignersStopped, BeginStop, Boot, Crash,
           OtherSecretSaved, JobInv, JobsJoined
  <1>6. Held(signer, jobs)'
    BY <1>1, <1>5 DEF JobInv, Held
  <1>7. signer' \in Signers0
    <2>1. CASE Boot
      <3>1. PICK restored \in SUBSET Remote, last \in Accounts \cup {None} :
              signer' = [a \in Remote |-> IF a \in restored THEN NewSigner(a = last) ELSE None]
        BY <2>1 DEF Boot
      <3>2. \A b \in BOOLEAN : NewSigner(b) \in Signer
        BY Zenon DEF NewSigner, Signer
      <3>3. \A a \in Remote : (a = last) \in BOOLEAN
        OBVIOUS
      <3> QED BY <3>1, <3>2, <3>3 DEF Signers0
    <2>2. CASE signer' = signer \/ signer' = NoSigner
      BY <2>2 DEF TypeInv, TypeOK, NoSigner, Signers0
    <2> QED BY <2>1, <2>2 DEF SessionStep, Stop, AuthStopped, JobsStopped, SignersStopped, BeginStop,
                              Crash, OtherSecretSaved
  <1>8. JobsJoined'
    BY <1>1 DEF SessionStep, Stop, AuthStopped, JobsStopped, SignersStopped, BeginStop, Boot, Crash,
                OtherSecretSaved, JobInv, JobsJoined, life
  <1>9. RestType'
    <2> USE TypeParts DEF TypeInv
    <2>1. CASE AuthStopped \/ JobsStopped
      BY <2>1 DEF AuthStopped, JobsStopped, RestType, disk, vault, screen, history
    <2>2. CASE SignersStopped
      BY <2>2 DEF SignersStopped, RestType, screen, history
    <2>3. CASE BeginStop \/ Crash
      BY <2>3 DEF BeginStop, Crash, RestType, history
    <2>4. CASE OtherSecretSaved
      BY <2>4 DEF OtherSecretSaved, RestType, screen, life, history
    <2>5. CASE Boot
      <3>1. rows' \subseteq Accounts /\ cur' \in Accounts \cup {None} /\ pane' \in BOOLEAN
        <4>1. \E active \in Accounts \cup {None} : AfterLogin(active)
          BY <2>5 DEF Boot, Accounts
        <4> QED BY <4>1, AfterLoginType
      <3>2. starts' \in 0..MaxStarts
        BY <2>5, AccountsAssumption DEF Boot, RestType
      <3> QED BY <2>5, <3>1, <3>2 DEF Boot, RestType, history
    <2> QED BY <2>1, <2>2, <2>3, <2>4, <2>5 DEF SessionStep, Stop
  <1> QED BY <1>2, <1>4, <1>6, <1>7, <1>8, <1>9, TypePartsNext DEF TypeInv, JobInv

-----------------------------------------------------------------------------
LEMMA InitOK == Init => IInv
  <1> SUFFICES ASSUME Init PROVE IInv
    OBVIOUS
  <1>1. signer \in Signers0 /\ jobs = {} /\ auth = None
    BY DEF Init, NoSigner, Signers0
  <1>2. RestType
    <2>1. mem \in [Remote -> BOOLEAN] /\ \A a \in Remote : ~mem[a]
      BY DEF Init
    <2>2. 0 \in 0..MaxStarts
      BY AccountsAssumption
    <2> QED BY <2>1, <2>2 DEF Init, RestType
  <1>3. AuthType /\ AuthShape
    BY <1>1 DEF AuthType, AuthShape
  <1>4. OneJobEach /\ Held(signer, jobs) /\ JobsJoined
    BY <1>1 DEF OneJobEach, Held, JobsJoined
  <1> QED BY <1>1, <1>2, <1>3, <1>4, TypeParts DEF IInv, TypeInv, JobInv

LEMMA StepOK == IInv /\ [Next]_vars => IInv'
  <1>1. ASSUME IInv, Next PROVE IInv'
    BY <1>1, NextSteps, WorkerKeeps, TickKeeps, AuthWorkerKeeps, DrainAuthKeeps, SessionKeeps, UserKeeps
  <1>2. ASSUME IInv, UNCHANGED vars PROVE IInv'
    <2>1. RestType' /\ AuthType' /\ AuthShape' /\ signer' \in Signers0 /\ jobs' \subseteq Job
      BY <1>2, TypeParts DEF IInv, TypeInv, RestType, AuthType, AuthShape, vars, Signers0
    <2>2. JobInv'
      BY <1>2 DEF IInv, JobInv, OneJobEach, Held, JobsJoined, vars
    <2> QED BY <2>1, <2>2, TypePartsNext DEF IInv, TypeInv
  <1> QED BY <1>1, <1>2

LEMMA Inductive == Spec => []IInv
  BY InitOK, StepOK, PTL DEF Spec

\* The type invariant, for any number of accounts and sessions: whatever the workers and
\* the user do, a second pass of the sign-in works on a remote account it has named.
THEOREM AccountTypes == Spec => []TypeOK
  <1>1. IInv => TypeOK
    BY DEF IInv, TypeInv
  <1> QED BY <1>1, Inductive, PTL

\* An account has one job and one switch runs at a time, for any number of accounts.
THEOREM JobsExclusive == Spec => []OneJobEach
  <1>1. IInv => OneJobEach
    BY DEF IInv, JobInv
  <1> QED BY <1>1, Inductive, PTL

\* No reconnection, departure or session end frees a signer under the job that uses it.
THEOREM SignerKept == Spec => []SignerOutlivesJob
  <1>1. IInv => SignerOutlivesJob
    BY DEF IInv, JobInv, Held, SignerOutlivesJob
  <1> QED BY <1>1, Inductive, PTL

\* A switch or an operation that signs runs with its signer registered and at rest.
THEOREM SignerAttached == Spec => []AttachedWhileWorking
  <1>1. IInv => AttachedWhileWorking
    BY DEF IInv, JobInv, Held, AttachedWhileWorking
  <1> QED BY <1>1, Inductive, PTL

\* What the run checks as one: types, and the four about jobs and their signers.
THEOREM JobsSafe == Spec => []Inv
  BY AccountTypes, JobsExclusive, SignerKept, SignerAttached, PTL DEF Inv

-----------------------------------------------------------------------------
(* The signer records of the vault.                                        *)

\* The sign-in, between its passes: the first one has no signer to free, and only a login
\* reaches the stages past it.
AuthForm ==
  auth # None =>
    /\ auth.stage \in {"call", "connect"} => ~auth.login
    /\ auth.prev # None => auth.stage = "free"
    /\ auth.stage \in Second \ {"signout"} => auth.login
AuthJoined == phase \in {"jobs", "signers", "closed"} => auth = None

Logging(a) == InFlight(a) /\ auth.login
Left(a) == \E j \in jobs : j.acct = a /\ Leaving(j) /\ j.ok

\* Nothing of this signer runs, and the end of the session does not save it.
Idle(s) == s # None => Quiet(s) /\ ~s.registered

\* The record of a is in the file, and in memory as long as the vault is open.
Safe(a) == desc[a] /\ (unlocked => mem[a])
\* The next write of the vault brings the record of a to the file.
Dirty(a) == mem[a] /\ ~desc[a]

\* A signer belongs to an account that is signed in and saved, unless the account left or
\* its jobs were joined.
SignerFine(a) ==
  signer[a] # None => \/ store[a] = "in" /\ Safe(a)
                      \/ Idle(signer[a]) /\ (Left(a) \/ phase = "signers")

\* A departure that is not raced has the account to itself: it joins the threads of the
\* signer before it calls marmot, and no login brings another one.
LeaveFine(a) ==
  \A j \in jobs : j.acct = a /\ Leaving(j) =>
    /\ ~Logging(a)
    /\ signer[a] # None => j.signer
    /\ j.stage # "join" => Quiet(signer[a])
    /\ j.stage = "forget" => j.ok
    /\ j.ok => Idle(signer[a])

\* What a login to a relies on and brings about.
LoginFine(a) ==
  InFlight(a) =>
    /\ auth.login => signer[a] = None
    /\ auth.prev # None => store[a] = "in" /\ Safe(a)
    /\ auth.stage \in {"store", "undo"} => store[a] = "in"
    /\ auth.login /\ (auth.stage = "signout" \/ (auth.stage = "done" /\ ~auth.err)) =>
         store[a] = "in" /\ Safe(a)

DirtyFine(a) == Dirty(a) => InFlight(a) /\ auth.stage \in {"undo", "forget"}

Fine(a) == SignerFine(a) /\ LeaveFine(a) /\ LoginFine(a) /\ DirtyFine(a)
Forgetters == \A j \in jobs : j.stage = "forget" => Leaving(j)
FileInv == AuthForm /\ AuthJoined /\ Forgetters /\ \A a \in Remote : a \notin raced => Fine(a)

\* A step that leaves the parts of account a alone, or only moves them on.
SignerLike(a) ==
  /\ signer'[a] # None => signer[a] # None
  /\ Quiet(signer[a]) => Quiet(signer'[a])
  /\ signer'[a] # None /\ signer'[a].registered => signer[a].registered
JobsLike(a) ==
  /\ Left(a) => Left(a)'
  /\ \A k \in jobs' : k.acct = a /\ Leaving(k) =>
       \E j \in jobs : /\ j.acct = a /\ Leaving(j) /\ j.signer = k.signer /\ j.ok = k.ok
                       /\ k.stage # "join" => j.stage # "join"
                       /\ k.stage = "forget" => j.stage = "forget"
AuthLike(a) ==
  /\ InFlight(a)' => /\ InFlight(a) /\ auth'.login = auth.login /\ auth'.stage = auth.stage
                     /\ auth'.err = auth.err /\ (auth'.prev # None => auth.prev # None)
  /\ InFlight(a) /\ auth.stage \in {"undo", "forget"} => InFlight(a)'
FileLike(a) == (Safe(a) => Safe(a)') /\ (Dirty(a)' => Dirty(a))
StoreLike(a) == store[a] = "in" => store'[a] = "in"

LEMMA LoginKept ==
  ASSUME NEW a \in Remote, Fine(a), SignerLike(a), AuthLike(a), FileLike(a), StoreLike(a)
  PROVE  LoginFine(a)' /\ DirtyFine(a)'
  <1>1. LoginFine(a)'
    BY DEF Fine, LoginFine, AuthLike, SignerLike, FileLike, StoreLike
  <1>2. DirtyFine(a)'
    BY DEF Fine, DirtyFine, AuthLike, FileLike
  <1> QED BY <1>1, <1>2

LEMMA FineKept ==
  ASSUME NEW a \in Remote, Fine(a), SignerLike(a), JobsLike(a), AuthLike(a), FileLike(a), StoreLike(a),
         phase = "signers" => phase' = "signers"
  PROVE  Fine(a)'
  <1>1. Idle(signer[a]) => Idle(signer'[a])
    BY DEF SignerLike, Idle
  <1>2. SignerFine(a)'
    BY <1>1 DEF Fine, SignerFine, SignerLike, JobsLike, FileLike, StoreLike
  <1>3. Logging(a)' => Logging(a)
    BY DEF Logging, AuthLike
  <1>4. LeaveFine(a)'
    <2> SUFFICES ASSUME NEW k \in jobs', k.acct = a, Leaving(k)
                 PROVE  /\ ~Logging(a)'
                        /\ signer'[a] # None => k.signer
                        /\ k.stage # "join" => Quiet(signer'[a])
                        /\ k.stage = "forget" => k.ok
                        /\ k.ok => Idle(signer'[a])
      BY DEF LeaveFine, Leaving
    <2>1. PICK j \in jobs : /\ j.acct = a /\ Leaving(j) /\ j.signer = k.signer /\ j.ok = k.ok
                            /\ k.stage # "join" => j.stage # "join"
                            /\ k.stage = "forget" => j.stage = "forget"
      BY DEF JobsLike
    <2> QED BY <1>1, <1>3, <2>1 DEF Fine, LeaveFine, SignerLike
  <1>5. LoginFine(a)' /\ DirtyFine(a)'
    BY LoginKept
  <1> QED BY <1>2, <1>4, <1>5 DEF Fine

\* An account that is signed in and saved is fine whatever its signer does.
LEMMA FineSafe ==
  ASSUME NEW a \in Remote, store'[a] = "in", Safe(a)', LeaveFine(a)', Logging(a)' => signer'[a] = None
  PROVE  Fine(a)'
  <1>1. SignerFine(a)' /\ LoginFine(a)' /\ DirtyFine(a)'
    BY DEF SignerFine, LoginFine, DirtyFine, Logging, Dirty, Safe
  <1> QED BY <1>1 DEF Fine

\* No write of the vault takes a saved record of another account, nor of this one but for
\* its removal; only a failed save leaves it in memory alone.
LEMMA FileWrites ==
  ASSUME TypeOK, NEW a \in Remote, NEW b \in Accounts, UNCHANGED unlocked
  PROVE  /\ Stored(b) => /\ Safe(a) => Safe(a)'
                         /\ Dirty(a)' => Dirty(a)
                         /\ ~desc[a] /\ desc'[a] => Dirty(a) \/ a = b
         /\ StoreFails(b) => /\ Safe(a) => Safe(a)'
                             /\ a # b \/ Safe(a) => (Dirty(a)' => Dirty(a))
                             /\ desc'[a] = desc[a]
         /\ Removed(b) => /\ a # b => (Safe(a) => Safe(a)')
                          /\ Dirty(a)' => Dirty(a)
                          /\ ~desc[a] /\ desc'[a] => Dirty(a)
  <1> DEFINE grown == [mem EXCEPT ![b] = TRUE]
             cut1  == [mem EXCEPT ![b] = FALSE]
  <1>0. mem \in [Remote -> BOOLEAN] /\ desc \in [Remote -> BOOLEAN] /\ (~unlocked => ~mem[a])
    BY DEF TypeOK
  <1>1. grown[a] = (a = b \/ mem[a]) /\ cut1[a] = (a # b /\ mem[a])
    BY <1>0
  <1>2. Stored(b) => UNCHANGED <<mem, desc>> \/ (unlocked /\ mem' = grown /\ desc' = grown)
    BY DEF Stored
  <1>3. StoreFails(b) => UNCHANGED desc /\ (mem' = mem \/ (unlocked /\ mem' = grown))
    BY DEF StoreFails
  <1>4. Removed(b) => \/ UNCHANGED <<mem, desc>>
                      \/ mem' = cut1 /\ (desc' = cut1 \/ desc' = desc)
    BY DEF Removed
  <1> HIDE DEF grown, cut1
  <1>5. Stored(b) => /\ Safe(a) => Safe(a)'
                     /\ Dirty(a)' => Dirty(a)
                     /\ ~desc[a] /\ desc'[a] => Dirty(a) \/ a = b
    BY <1>0, <1>1, <1>2 DEF Safe, Dirty
  <1>6. StoreFails(b) => /\ Safe(a) => Safe(a)'
                         /\ a # b \/ Safe(a) => (Dirty(a)' => Dirty(a))
                         /\ desc'[a] = desc[a]
    BY <1>0, <1>1, <1>3 DEF Safe, Dirty
  <1>7. Removed(b) => /\ a # b => (Safe(a) => Safe(a)')
                      /\ Dirty(a)' => Dirty(a)
                      /\ ~desc[a] /\ desc'[a] => Dirty(a)
    <2>1. Removed(b) /\ ~UNCHANGED <<mem, desc>> => unlocked
      BY DEF Removed, TypeOK
    <2> QED BY <1>0, <1>1, <1>4, <2>1 DEF Safe, Dirty
  <1> QED BY <1>5, <1>6, <1>7

LEMMA LikeSame ==
  ASSUME NEW a \in Remote
  PROVE  /\ UNCHANGED jobs => JobsLike(a)
         /\ UNCHANGED auth => AuthLike(a)
         /\ UNCHANGED vault => FileLike(a)
         /\ UNCHANGED store => StoreLike(a)
         /\ signer'[a] = signer[a] => SignerLike(a)
  <1>1. UNCHANGED jobs => JobsLike(a)
    BY DEF JobsLike, Left
  <1>2. UNCHANGED auth => AuthLike(a)
    BY DEF AuthLike, InFlight
  <1>3. UNCHANGED vault => FileLike(a)
    BY DEF FileLike, Safe, Dirty, vault
  <1> QED BY <1>1, <1>2, <1>3 DEF StoreLike, SignerLike

LEMMA QuietNone == Quiet(None)
  BY DEF Quiet

\* A thread of a signer that runs belongs to an account that is signed in and saved.
LEMMA BecomesFine ==
  ASSUME IInv, AuthForm, NEW a \in Remote, Fine(a), NEW b \in Remote, NEW s \in Signers(b) \ {None},
         NEW t \in Signer, Becomes(b, s, t), ~Quiet(s), UNCHANGED <<store, unlocked, jobs, phase>>,
         UNCHANGED <<mem, desc>> \/ Stored(b) \/ StoreFails(b)
  PROVE  Fine(a)'
  <1>a. TypeOK /\ b \in Accounts /\ signer \in Signers0
    BY DEF IInv, TypeInv, TypeOK, Signers0, Accounts
  <1>b. /\ Safe(a) => Safe(a)'
        /\ a # b => FileLike(a)
    BY <1>a, FileWrites DEF FileLike, Safe, Dirty
  <1>1. CASE a # b
    <2>1. SignerLike(a)
      <3>1. signer'[a] = signer[a]
        BY <1>a, <1>1 DEF Becomes, Signers0
      <3> QED BY <3>1, LikeSame
    <2>2. AuthLike(a)
      <3>1. CASE UNCHANGED auth
        BY <3>1, LikeSame
      <3>2. CASE auth # None /\ auth.acct = b /\ auth' = [auth EXCEPT !.prev = t]
        <4>1. auth \in Auth
          BY <1>a, <3>2 DEF TypeOK
        <4>2. auth'.acct = auth.acct
          BY <3>2, <4>1 DEF Auth
        <4> QED BY <1>1, <3>2, <4>2 DEF AuthLike, InFlight
      <3> QED BY <3>1, <3>2 DEF Becomes
    <2> QED BY <1>1, <1>b, <2>1, <2>2, LikeSame, FineKept
  <1>2. CASE a = b /\ s = signer[a] /\ UNCHANGED auth
    <2>1. signer[a] # None /\ ~Idle(signer[a])
      BY <1>2 DEF Idle
    <2>2. store[a] = "in" /\ Safe(a)
      BY <2>1 DEF Fine, SignerFine
    <2>3. ~Logging(a) /\ ~Logging(a)'
      BY <1>2, <2>1 DEF Fine, LoginFine, Logging, InFlight
    <2>4. LeaveFine(a)'
      <3>1. \A j \in jobs : j.acct = a /\ Leaving(j) => j.signer /\ j.stage = "join" /\ ~j.ok
        BY <1>2, <2>1 DEF Fine, LeaveFine
      <3> QED BY <2>3, <3>1 DEF LeaveFine, Leaving
    <2> QED BY <1>b, <2>2, <2>3, <2>4, FineSafe
  <1>3. CASE /\ a = b /\ InFlight(a) /\ s = auth.prev
             /\ auth' = [auth EXCEPT !.prev = t] /\ UNCHANGED signer
    <2>1. auth \in Auth
      BY <1>a, <1>3 DEF InFlight, TypeOK
    <2>2. auth'.login = auth.login
      BY <1>3, <2>1 DEF Auth
    <2>3. auth.login
      BY <1>3 DEF AuthForm, InFlight, Second
    <2>4. store[a] = "in" /\ Safe(a) /\ signer[a] = None
      BY <1>3, <2>3 DEF Fine, LoginFine
    <2>5. LeaveFine(a)'
      BY <1>3, <2>3 DEF Fine, LeaveFine, Logging, Leaving
    <2> QED BY <1>3, <1>b, <2>4, <2>5, FineSafe
  <1> QED BY <1>1, <1>2, <1>3 DEF Becomes, InFlight

LEMMA SignerThreadFine ==
  ASSUME IInv, FileInv, NEW b \in Remote, AttachStep(b) \/ PersistStep(b),
         NEW a \in Remote, a \notin raced
  PROVE  Fine(a)'
  <1>a. Fine(a) /\ AuthForm
    BY DEF FileInv
  <1>1. CASE AttachStep(b)
    <2>1. PICK s \in Signers(b) \ {None} :
            \/ /\ s.attach = "connect" /\ UNCHANGED <<mem, desc>>
               /\ \E next \in {"store", "done"} : Becomes(b, s, [s EXCEPT !.attach = next])
            \/ /\ s.attach = "store" /\ Stored(b)
               /\ Becomes(b, s, [s EXCEPT !.attach = "register"])
            \/ /\ s.attach = "store" /\ StoreFails(b)
               /\ Becomes(b, s, [s EXCEPT !.attach = "done"])
            \/ /\ s.attach = "register" /\ UNCHANGED <<mem, desc>>
               /\ \E ok \in BOOLEAN :
                    Becomes(b, s, [s EXCEPT !.attach = "done", !.registered = ok \/ @])
      BY <1>1 DEF AttachStep
    <2>2. s \in Signer
      BY SignersType DEF IInv, TypeInv
    <2>3. \E t \in Signer : Becomes(b, s, t)
      <3>1. s.registered \in BOOLEAN
        BY <2>2 DEF Signer
      <3>2. PICK at \in {"none", "connect", "store", "register", "done"}, ok \in BOOLEAN :
              \/ Becomes(b, s, [s EXCEPT !.attach = at])
              \/ Becomes(b, s, [s EXCEPT !.attach = at, !.registered = ok \/ s.registered])
        BY <2>1, Zenon
      <3>3. (ok \/ s.registered) \in BOOLEAN
        OBVIOUS
      <3> QED BY <2>2, <3>2, <3>3, SignerFields, Zenon
    <2>4. ~Quiet(s)
      BY <2>1 DEF Quiet
    <2>5. UNCHANGED <<mem, desc>> \/ Stored(b) \/ StoreFails(b)
      BY <2>1
    <2>6. UNCHANGED <<store, unlocked, jobs, phase>>
      BY <1>1 DEF AttachStep, life
    <2> QED BY <1>a, <2>3, <2>4, <2>5, <2>6, BecomesFine
  <1>2. CASE PersistStep(b)
    <2>1. PICK s \in Signers(b) \ {None} :
            s.persist = "store" /\ Becomes(b, s, [s EXCEPT !.persist = "done"])
      BY <1>2 DEF PersistStep
    <2>2. s \in Signer
      BY SignersType DEF IInv, TypeInv
    <2>3. [s EXCEPT !.persist = "done"] \in Signer
      BY <2>2 DEF Signer
    <2>4. ~Quiet(s)
      BY <2>1 DEF Quiet
    <2>5. UNCHANGED <<store, unlocked, jobs, phase>> /\ (Stored(b) \/ StoreFails(b))
      BY <1>2 DEF PersistStep, life
    <2> QED BY <1>a, <2>1, <2>3, <2>4, <2>5, BecomesFine
  <1> QED BY <1>1, <1>2

\* The jobs after one of them went on.
LEMMA AdvanceLike ==
  ASSUME IInv, NEW j \in jobs, NEW k, Advance(j, k), k.acct = j.acct, k.kind = j.kind,
         NEW a \in Remote
  PROVE  /\ a # j.acct \/ ~Leaving(j) => JobsLike(a)
         /\ a = j.acct => \A i \in jobs' : i.acct = a => i = k
         /\ a = j.acct /\ Leaving(j) => (Left(a)' <=> k.ok)
  <1>1. jobs' = (jobs \ {j}) \cup {k} /\ OneJobEach
    BY DEF Advance, IInv, JobInv
  <1>2. Leaving(k) <=> Leaving(j)
    BY DEF Leaving
  <1>3. a = j.acct => \A i \in jobs' : i.acct = a => i = k
    BY <1>1 DEF OneJobEach
  <1>4. a = j.acct /\ Leaving(j) => (Left(a)' <=> k.ok)
    BY <1>1, <1>2, <1>3 DEF Left, Leaving
  <1>5. ASSUME a # j.acct \/ ~Leaving(j) PROVE JobsLike(a)
    <2>1. \A i \in jobs' : i.acct = a /\ Leaving(i) => i \in jobs
      BY <1>1, <1>2, <1>5
    <2>2. Left(a) => Left(a)'
      BY <1>1, <1>5 DEF Left, Leaving
    <2> QED BY <2>1, <2>2 DEF JobsLike
  <1> QED BY <1>3, <1>4, <1>5

LEMMA JobWorkerFine ==
  ASSUME IInv, FileInv, NEW j \in jobs, Join(j) \/ CallOther(j) \/ CallLeave(j) \/ Forget(j),
         NEW a \in Remote, a \notin raced
  PROVE  Fine(a)'
  <1>a. /\ Fine(a) /\ AuthForm /\ j \in Job /\ TypeOK /\ signer \in Signers0
        /\ store \in [Accounts -> {"absent", "out", "in"}]
    BY DEF FileInv, IInv, TypeInv, TypeOK, Signers0
  <1>b. UNCHANGED <<auth, phase, unlocked>> /\ AuthLike(a)
    <2>1. UNCHANGED <<auth, phase, unlocked>>
      BY DEF Join, CallOther, CallLeave, Forget, disk, vault, life
    <2> QED BY <2>1, LikeSame
  <1>c. j.acct \in Accounts
    BY <1>a DEF Job
  <1>1. CASE Join(j)
    <2> DEFINE k == [j EXCEPT !.stage = "call"]
    <2>1. k.acct = j.acct /\ k.kind = j.kind /\ k.signer = j.signer /\ k.ok = j.ok /\ k.stage = "call"
      BY <1>a DEF Job
    <2>2. /\ Advance(j, k) /\ j.stage = "join" /\ UNCHANGED <<store, vault, signer>>
          /\ (j.signer => Quiet(signer[j.acct]))
      BY <1>1 DEF Join, disk
    <2> HIDE DEF k
    <2>3. /\ a # j.acct \/ ~Leaving(j) => JobsLike(a)
          /\ a = j.acct => \A i \in jobs' : i.acct = a => i = k
          /\ a = j.acct /\ Leaving(j) => (Left(a)' <=> k.ok)
      BY <2>1, <2>2, AdvanceLike
    <2>4. CASE a # j.acct \/ ~Leaving(j)
      BY <1>a, <1>b, <2>2, <2>3, <2>4, LikeSame, FineKept
    <2>5. CASE a = j.acct /\ Leaving(j)
      <3>1. Left(a) => Left(a)'
        BY <1>a, <2>1, <2>3, <2>5 DEF Left, IInv, JobInv, OneJobEach
      <3>2. SignerFine(a)' /\ LoginFine(a)' /\ DirtyFine(a)'
        BY <1>a, <1>b, <2>2, <3>1 DEF Fine, SignerFine, LoginFine, DirtyFine, InFlight, Safe, Dirty, vault
      <3>3. Quiet(signer[a])
        BY <1>a, <2>2, <2>5, QuietNone DEF Fine, LeaveFine
      <3>4. LeaveFine(a)'
        <4>1. ~Logging(a) /\ (signer[a] # None => j.signer) /\ (j.ok => Idle(signer[a]))
          BY <1>a, <2>5 DEF Fine, LeaveFine
        <4>2. ~Logging(a)'
          BY <1>b, <4>1 DEF Logging, InFlight
        <4> QED BY <2>1, <2>2, <2>3, <2>5, <3>3, <4>1, <4>2 DEF LeaveFine
      <3> QED BY <3>2, <3>4 DEF Fine
    <2> QED BY <2>4, <2>5
  <1>2. CASE CallOther(j)
    <2>1. ~Leaving(j) /\ UNCHANGED <<vault, signer>>
      BY <1>2 DEF CallOther
    <2>2. \E k : Advance(j, k) /\ k.acct = j.acct /\ k.kind = j.kind
      <3>1. PICK st \in {"join", "call", "forget", "done"} :
              Advance(j, [j EXCEPT !.stage = st]) \/ Advance(j, [j EXCEPT !.stage = st, !.ok = TRUE])
        BY <1>2, Zenon DEF CallOther
      <3> QED BY <1>a, <3>1, JobFields
    <2>3. StoreLike(a)
      BY <1>2, <1>a, <1>c DEF CallOther, StoreLike, Accounts
    <2>4. JobsLike(a)
      BY <2>1, <2>2, AdvanceLike
    <2> QED BY <1>a, <1>b, <2>1, <2>3, <2>4, LikeSame, FineKept
  <1>3. CASE CallLeave(j)
    <2> DEFINE left == [j EXCEPT !.stage = "forget", !.ok = TRUE]
               kept == [j EXCEPT !.stage = "done"]
               out  == [signer EXCEPT ![j.acct].registered = FALSE]
    <2>1. /\ left.acct = j.acct /\ left.kind = j.kind /\ left.signer = j.signer
          /\ left.ok = TRUE /\ left.stage = "forget"
          /\ kept.acct = j.acct /\ kept.kind = j.kind /\ kept.signer = j.signer
          /\ kept.ok = j.ok /\ kept.stage = "done"
      BY <1>a DEF Job
    <2>2. /\ j.stage = "call" /\ Leaving(j) /\ UNCHANGED vault
          /\ \/ /\ Advance(j, left)
                /\ store' = [store EXCEPT ![j.acct] = IF j.kind = "remove" THEN "absent" ELSE "out"]
                /\ signer' = IF j.signer THEN out ELSE signer
             \/ Advance(j, kept) /\ UNCHANGED <<store, signer>>
      BY <1>3 DEF CallLeave
    <2>3. /\ \A b \in Remote : b # j.acct => out[b] = signer[b]
          /\ j.acct \in Remote /\ signer[j.acct] # None =>
               out[j.acct] = [signer[j.acct] EXCEPT !.registered = FALSE]
      BY <1>a DEF Signers0
    <2> HIDE DEF left, kept, out
    <2>4. CASE a # j.acct
      <3>1. JobsLike(a)
        BY <2>1, <2>2, <2>4, AdvanceLike
      <3>2. signer'[a] = signer[a] /\ StoreLike(a)
        BY <1>a, <1>c, <2>2, <2>3, <2>4 DEF StoreLike, Accounts
      <3> QED BY <1>a, <1>b, <2>2, <3>1, <3>2, LikeSame, FineKept
    <2>5. /\ a = j.acct => ~Logging(a) /\ (signer[a] # None => j.signer) /\ Quiet(signer[a])
          /\ a = j.acct /\ j.ok => Idle(signer[a])
      BY <1>a, <2>2 DEF Fine, LeaveFine
    <2>6. CASE a = j.acct /\ Advance(j, kept) /\ UNCHANGED <<store, signer>>
      <3>1. Left(a)' <=> j.ok
        BY <2>1, <2>2, <2>6, AdvanceLike
      <3>2. Left(a) => j.ok
        BY <2>2, <2>6 DEF Left, IInv, JobInv, OneJobEach
      <3>3. SignerFine(a)' /\ LoginFine(a)' /\ DirtyFine(a)'
        BY <1>a, <1>b, <2>2, <2>6, <3>1, <3>2
           DEF Fine, SignerFine, LoginFine, DirtyFine, InFlight, Safe, Dirty, vault
      <3>4. LeaveFine(a)'
        <4>1. \A i \in jobs' : i.acct = a => i = kept
          BY <2>1, <2>2, <2>6, AdvanceLike
        <4>2. ~Logging(a)'
          BY <1>b, <2>5, <2>6 DEF Logging, InFlight
        <4> QED BY <2>1, <2>2, <2>5, <2>6, <4>1, <4>2 DEF LeaveFine
      <3> QED BY <3>3, <3>4 DEF Fine
    <2>7. CASE a = j.acct /\ Advance(j, left) /\ signer' = (IF j.signer THEN out ELSE signer)
      <3>1. Left(a)' /\ \A i \in jobs' : i.acct = a => i = left
        BY <2>1, <2>2, <2>7, AdvanceLike
      <3>2. /\ signer'[a] # None => signer[a] # None
            /\ Idle(signer'[a])
        <4>1. CASE signer[a] = None
          <5>1. ~j.signer
            BY <2>7, <4>1 DEF IInv, JobInv, Held
          <5> QED BY <2>7, <4>1, <5>1 DEF Idle
        <4>2. CASE signer[a] # None
          <5>1. signer'[a] = [signer[a] EXCEPT !.registered = FALSE] /\ signer[a] \in Signer
            BY <1>a, <2>3, <2>5, <2>7, <4>2 DEF Signers0
          <5>2. /\ signer'[a].attach = signer[a].attach /\ signer'[a].persist = signer[a].persist
                /\ signer'[a].registered = FALSE
            BY <5>1 DEF Signer
          <5> QED BY <2>5, <2>7, <4>2, <5>2 DEF Idle, Quiet
        <4> QED BY <4>1, <4>2
      <3>3. SignerFine(a)'
        BY <3>1, <3>2 DEF SignerFine
      <3>4. ~Logging(a)' /\ LeaveFine(a)'
        <4>1. ~Logging(a)'
          BY <1>b, <2>5, <2>7 DEF Logging, InFlight
        <4>2. signer'[a] # None => j.signer
          BY <2>5, <2>7, <3>2
        <4>3. Quiet(signer'[a]) /\ left.signer = j.signer /\ left.ok
          BY <2>1, <3>2, QuietNone DEF Idle
        <4> QED BY <3>1, <3>2, <4>1, <4>2, <4>3 DEF LeaveFine
      <3>5. InFlight(a) => ~auth.login /\ auth.stage \notin Second \ {"signout"} /\ auth.prev = None
        BY <1>a, <2>5, <2>7 DEF AuthForm, Logging, InFlight, Second
      <3>6. LoginFine(a)' /\ DirtyFine(a)'
        BY <1>a, <1>b, <2>2, <3>5 DEF Fine, LoginFine, DirtyFine, InFlight, Dirty, vault, Second
      <3> QED BY <3>3, <3>4, <3>6 DEF Fine
    <2> QED BY <2>2, <2>4, <2>6, <2>7
  <1>4. CASE Forget(j)
    <2> DEFINE k == [j EXCEPT !.stage = "done"]
    <2>1. k.acct = j.acct /\ k.kind = j.kind /\ k.signer = j.signer /\ k.ok = j.ok /\ k.stage = "done"
      BY <1>a DEF Job
    <2>2. Advance(j, k) /\ j.stage = "forget" /\ Removed(j.acct) /\ UNCHANGED <<store, signer>>
      BY <1>4 DEF Forget
    <2> HIDE DEF k
    <2>3. /\ a # j.acct \/ ~Leaving(j) => JobsLike(a)
          /\ a = j.acct => \A i \in jobs' : i.acct = a => i = k
          /\ a = j.acct /\ Leaving(j) => (Left(a)' <=> k.ok)
      BY <2>1, <2>2, AdvanceLike
    <2>4. (a # j.acct => (Safe(a) => Safe(a)')) /\ (Dirty(a)' => Dirty(a))
      BY <1>a, <1>b, <1>c, <2>2, FileWrites
    <2>5. CASE a # j.acct
      BY <1>a, <1>b, <2>2, <2>3, <2>4, <2>5, LikeSame, FineKept DEF FileLike
    <2>6. CASE a = j.acct
      <3>1. Leaving(j)
        BY <2>2 DEF FileInv, Forgetters
      <3>2. /\ j.ok /\ Idle(signer[a]) /\ ~Logging(a) /\ Quiet(signer[a])
            /\ signer[a] # None => j.signer
        BY <1>a, <2>2, <2>6, <3>1 DEF Fine, LeaveFine
      <3>3. Left(a)' /\ \A i \in jobs' : i.acct = a => i = k
        BY <2>1, <2>3, <2>6, <3>1, <3>2
      <3>4. SignerFine(a)'
        BY <2>2, <3>2, <3>3 DEF SignerFine
      <3>5. ~Logging(a)'
        BY <1>b, <3>2 DEF Logging, InFlight
      <3>6. LeaveFine(a)'
        BY <2>1, <2>2, <3>2, <3>3, <3>5 DEF LeaveFine
      <3>7. InFlight(a) => ~auth.login /\ auth.stage \notin Second \ {"signout"} /\ auth.prev = None
        BY <1>a, <3>2 DEF AuthForm, Logging, InFlight, Second
      <3>8. LoginFine(a)' /\ DirtyFine(a)'
        BY <1>a, <1>b, <2>4, <3>7 DEF Fine, LoginFine, DirtyFine, InFlight, Second
      <3> QED BY <3>4, <3>6, <3>8 DEF Fine
    <2> QED BY <2>5, <2>6
  <1> QED BY <1>1, <1>2, <1>3, <1>4

-----------------------------------------------------------------------------
(* The frame loop and the signer records.                                  *)

\* In a running session the account of a signer is signed in and saved, unless it leaves.
LEMMA HomeFine ==
  ASSUME NEW a \in Remote, Fine(a), signer[a] # None, ~Departing(a), phase # "signers"
  PROVE  store[a] = "in" /\ Safe(a) /\ ~Logging(a)
  <1>1. ~Left(a)
    BY DEF Left, Departing
  <1> QED BY <1>1 DEF Fine, SignerFine, LoginFine, Logging

LEMMA WantedOff ==
  ASSUME NEW s \in Signer
  PROVE  LET t == [s EXCEPT !.wanted = FALSE] IN
         /\ t \in Signer /\ t # None
         /\ t.attach = s.attach /\ t.persist = s.persist /\ t.registered = s.registered
  <1> DEFINE t == [s EXCEPT !.wanted = FALSE]
  <1>1. t \in Signer
    BY SignerFields
  <1> QED BY <1>1, SignerSome DEF Signer

\* Two signers of which the same runs.
Alike(t, s) ==
  /\ t = None <=> s = None
  /\ s # None => t.attach = s.attach /\ t.persist = s.persist /\ t.registered = s.registered

LEMMA ForgotAlike ==
  ASSUME signer \in Signers0, NEW kind, NEW a \in Remote
  PROVE  Alike(ForgotWanted(kind)[a], signer[a])
  <1>1. CASE kind = "switch" /\ signer[a] # None
    <2>1. signer[a] \in Signer
      BY <1>1 DEF Signers0
    <2>2. ForgotWanted(kind)[a] = [signer[a] EXCEPT !.wanted = FALSE]
      BY <1>1 DEF ForgotWanted
    <2> QED BY <1>1, <2>1, <2>2, WantedOff DEF Alike
  <1>2. CASE kind = "switch" /\ signer[a] = None
    BY <1>2 DEF ForgotWanted, Alike
  <1>3. CASE kind # "switch"
    BY <1>3 DEF ForgotWanted, Alike
  <1> QED BY <1>1, <1>2, <1>3

LEMMA AlikeLike ==
  ASSUME NEW a \in Remote, Alike(signer'[a], signer[a])
  PROVE  SignerLike(a)
  BY DEF Alike, SignerLike, Quiet

\* A job starts for an account without one: a departure finds no login to the account in
\* flight, and a switch starts the threads of a signer that is at home.
LEMMA NewJobFine ==
  ASSUME IInv, NEW a \in Remote, Fine(a), NEW kind \in Kind, NEW b \in Accounts, NEW ss \in Signers0,
         NewJobOver(kind, b, ss), phase = "run", UNCHANGED <<store, vault, phase>>, AuthLike(a),
         kind \in {"leave", "remove"} /\ a = b => ~Logging(a)',
         ss[a] = None <=> signer[a] = None,
         Alike(ss[a], signer[a]) \/ (kind = "switch" /\ ~Departing(a))
  PROVE  Fine(a)'
  <1> DEFINE n == Started(kind, b)
  <1>0. /\ n.acct = b /\ n.kind = kind /\ (n.signer <=> SignerOf(b) # None)
        /\ n.ok = FALSE /\ (Leaving(n) => n.stage = "join")
    BY StartedType DEF Started, Leaving
  <1>1. \/ jobs' = jobs /\ signer'[a] = ss[a]
        \/ jobs' = jobs /\ a = b /\ ~Busy(a) /\ signer[a] # None
        \/ jobs' = jobs \cup {n} /\ signer'[a] = ss[a] /\ ~Busy(b)
    <2>1. CASE Occupied(kind, b)
      BY <2>1 DEF NewJobOver
    <2>2. CASE ~Occupied(kind, b) /\ Unattached(kind, IF b \in Remote THEN ss[b] ELSE None)
      <3>1. b \in Remote /\ ss[b] # None /\ ~Busy(b) /\ jobs' = jobs
        BY <2>2 DEF Unattached, NewJobOver, Occupied, Busy
      <3>2. a # b => signer'[a] = ss[a]
        BY <2>2 DEF NewJobOver, Signers0
      <3> QED BY <3>1, <3>2
    <2>3. CASE ~Occupied(kind, b) /\ ~Unattached(kind, IF b \in Remote THEN ss[b] ELSE None)
      BY <2>3 DEF NewJobOver, Occupied, Busy
    <2> QED BY <2>1, <2>2, <2>3
  <1> HIDE DEF n
  <1>2. \A j \in jobs' : j \in jobs \/ j = n
    BY <1>1
  <1>3. ~Logging(a) => ~Logging(a)'
    BY DEF AuthLike, Logging
  <1>4. ASSUME signer[a] # None, ~Departing(a), kind = "switch" \/ jobs' = jobs
        PROVE  Fine(a)'
    <2>1. store[a] = "in" /\ Safe(a) /\ ~Logging(a)
      BY <1>4, HomeFine
    <2>2. LeaveFine(a)'
      <3>1. \A j \in jobs' : j.acct = a /\ Leaving(j) => FALSE
        BY <1>0, <1>2, <1>4 DEF Departing, Leaving
      <3> QED BY <3>1 DEF LeaveFine, Leaving
    <2>3. Safe(a)'
      BY <2>1 DEF Safe, vault
    <2> QED BY <1>3, <2>1, <2>2, <2>3, FineSafe
  <1>5. CASE jobs' = jobs /\ a = b /\ ~Busy(a) /\ signer[a] # None
    BY <1>4, <1>5 DEF Busy, Departing
  <1>6. CASE signer'[a] = ss[a]
    <2>1. CASE signer[a] # None /\ kind = "switch" /\ ~Departing(a)
      BY <1>4, <2>1
    <2>2. CASE signer[a] = None \/ Alike(ss[a], signer[a])
      <3>1. SignerLike(a) /\ FileLike(a) /\ StoreLike(a)
        BY <1>6, <2>2, AlikeLike, LikeSame DEF SignerLike, Quiet
      <3>2. CASE jobs' = jobs \/ ~Leaving(n) \/ a # b
        <4>1. JobsLike(a)
          <5>1. \A j \in jobs' : j.acct = a /\ Leaving(j) => j \in jobs
            BY <1>0, <1>2, <3>2
          <5>2. Left(a) => Left(a)'
            BY <1>1 DEF Left
          <5> QED BY <5>1, <5>2 DEF JobsLike
        <4> QED BY <3>1, <4>1, FineKept
      <3>3. CASE jobs' = jobs \cup {n} /\ ~Busy(b) /\ Leaving(n) /\ a = b
        <4>1. LoginFine(a)' /\ DirtyFine(a)'
          BY <3>1, LoginKept
        <4>2. SignerFine(a)'
          <5>1. signer'[a] # None => store[a] = "in" /\ Safe(a)
            BY <3>1, <3>3, HomeFine DEF SignerLike, Busy, Departing
          <5> QED BY <3>1, <5>1 DEF SignerFine, FileLike, StoreLike
        <4>3. LeaveFine(a)'
          <5>1. \A j \in jobs' : j.acct = a => j = n
            BY <1>2, <3>3 DEF Busy
          <5>2. ~Logging(a)' /\ n.stage = "join" /\ n.ok = FALSE
            BY <1>0, <3>3 DEF Leaving
          <5>3. signer'[a] # None => n.signer
            BY <1>0, <3>1, <3>3 DEF SignerLike, SignerOf
          <5> QED BY <5>1, <5>2, <5>3 DEF LeaveFine
        <4> QED BY <4>1, <4>2, <4>3 DEF Fine
      <3> QED BY <1>1, <3>2, <3>3, <1>5
    <2> QED BY <2>1, <2>2
  <1> QED BY <1>1, <1>5, <1>6

LEMMA TickFine ==
  ASSUME IInv, FileInv, TickStep, NEW a \in Remote, a \notin raced
  PROVE  Fine(a)'
  <1>a. Fine(a) /\ signer \in Signers0
    BY DEF FileInv, IInv, TypeInv, TypeOK, Signers0
  <1>b. UNCHANGED <<store, vault, auth, phase>> /\ phase = "run"
    BY DEF TickStep, DrainJob, AttachDrained, PersistDrained, PersistStarts, disk, life
  <1>c. AuthLike(a) /\ FileLike(a) /\ StoreLike(a)
    BY <1>b, LikeSame
  <1>1. ASSUME NEW b \in Remote, PersistDrained(b) \/ PersistStarts(b) PROVE Fine(a)'
    <2>1. signer[b] # None /\ ~Departing(b) /\ UNCHANGED jobs
      BY <1>1 DEF PersistDrained, PersistStarts
    <2>2. CASE a # b
      <3>1. signer'[a] = signer[a]
        BY <1>1, <1>a, <2>2 DEF PersistDrained, PersistStarts, Signers0
      <3> QED BY <1>a, <1>b, <1>c, <2>1, <3>1, LikeSame, FineKept
    <2>3. CASE a = b
      <3>1. store[a] = "in" /\ Safe(a) /\ ~Logging(a)
        BY <1>a, <1>b, <2>1, <2>3, HomeFine
      <3>2. Safe(a)' /\ ~Logging(a)' /\ store'[a] = "in"
        BY <1>b, <3>1 DEF Safe, vault, Logging, InFlight
      <3>3. LeaveFine(a)'
        BY <2>1, <2>3 DEF LeaveFine, Departing, Leaving
      <3> QED BY <3>2, <3>3, FineSafe
    <2> QED BY <2>2, <2>3
  <1>2. ASSUME NEW b \in Remote, AttachDrained(b) PROVE Fine(a)'
    <2> DEFINE idle == [signer EXCEPT ![b].attach = "none", ![b].wanted = FALSE]
               others == [c \in Remote |-> IF idle[c] = None THEN None
                                           ELSE [idle[c] EXCEPT !.wanted = FALSE]]
    <2>1. signer[b] \in Signer /\ signer[b] # None /\ ~Departing(b)
      BY <1>2, <1>a DEF AttachDrained, Signers0
    <2>2. /\ idle \in [Remote -> Signer \cup {None}]
          /\ \A c \in Remote : c # b => idle[c] = signer[c]
          /\ idle[b] # None
      <3> DEFINE t == [signer[b] EXCEPT !.attach = "none", !.wanted = FALSE]
      <3>1. t \in Signer /\ t # None
        <4>1. t \in Signer
          BY <2>1, SignerFields
        <4> QED BY <4>1, SignerSome
      <3>2. idle = [signer EXCEPT ![b] = t]
        BY <1>a DEF Signers0
      <3> HIDE DEF t, idle
      <3> QED BY <1>a, <3>1, <3>2 DEF Signers0
    <2>3. \/ NewJobOver("switch", b, others)
          \/ signer' = idle /\ UNCHANGED jobs
      BY <1>2, Zenon DEF AttachDrained, idle, others
    <2> HIDE DEF idle
    <2>4. \A c \in Remote : Alike(others[c], idle[c]) /\ others[c] \in Signer \cup {None}
      <3> SUFFICES ASSUME NEW c \in Remote PROVE Alike(others[c], idle[c]) /\ others[c] \in Signer \cup {None}
        OBVIOUS
      <3>1. CASE idle[c] = None
        BY <3>1 DEF Alike
      <3>2. CASE idle[c] # None
        <4>1. idle[c] \in Signer /\ others[c] = [idle[c] EXCEPT !.wanted = FALSE]
          BY <2>2, <3>2
        <4> QED BY <3>2, <4>1, WantedOff DEF Alike
      <3> QED BY <3>1, <3>2
    <2>5. others \in Signers0
      <3>1. others = [c \in Remote |-> others[c]]
        OBVIOUS
      <3> HIDE DEF others
      <3> QED BY <2>4, <3>1 DEF Signers0
    <2>6. b \in Accounts /\ "switch" \in Kind
      BY DEF Accounts, Kind
    <2> HIDE DEF others
    <2>7. CASE NewJobOver("switch", b, others)
      <3>1. others[a] = None <=> signer[a] = None
        BY <2>1, <2>2, <2>4 DEF Alike
      <3>2. Alike(others[a], signer[a]) \/ ~Departing(a)
        BY <2>1, <2>2, <2>4
      <3> QED BY <1>a, <1>b, <1>c, <2>5, <2>6, <2>7, <3>1, <3>2, NewJobFine
    <2>8. CASE signer' = idle /\ UNCHANGED jobs
      <3>1. CASE a # b
        BY <1>a, <1>b, <1>c, <2>2, <2>8, <3>1, LikeSame, FineKept
      <3>2. CASE a = b
        <4>1. store[a] = "in" /\ Safe(a) /\ ~Logging(a)
          BY <1>a, <1>b, <2>1, <3>2, HomeFine
        <4>2. Safe(a)' /\ ~Logging(a)' /\ store'[a] = "in"
          BY <1>b, <4>1 DEF Safe, vault, Logging, InFlight
        <4>3. LeaveFine(a)'
          BY <2>1, <2>8, <3>2 DEF LeaveFine, Departing, Leaving
        <4> QED BY <4>2, <4>3, FineSafe
      <3> QED BY <3>1, <3>2
    <2> QED BY <2>3, <2>7, <2>8
  <1>3. ASSUME NEW j \in jobs, DrainJob(j) PROVE Fine(a)'
    <2>1. /\ jobs' = jobs \ {j}
          /\ signer' = IF Leaving(j) /\ j.ok /\ j.signer THEN [signer EXCEPT ![j.acct] = None] ELSE signer
      BY <1>3 DEF DrainJob
    <2>2. CASE a # j.acct
      <3>1. signer'[a] = signer[a]
        BY <1>a, <2>1, <2>2 DEF Signers0
      <3>2. JobsLike(a)
        BY <2>1, <2>2 DEF JobsLike, Left
      <3> QED BY <1>a, <1>b, <1>c, <3>1, <3>2, LikeSame, FineKept
    <2>3. CASE a = j.acct
      <3>1. \A k \in jobs' : k.acct # a
        BY <2>1, <2>3 DEF IInv, JobInv, OneJobEach
      <3>2. LeaveFine(a)'
        BY <3>1 DEF LeaveFine
      <3>3. SignerLike(a)
        BY <1>a, <2>1, <2>3 DEF SignerLike, Signers0, Quiet
      <3>4. LoginFine(a)' /\ DirtyFine(a)'
        BY <1>a, <1>c, <3>3, LoginKept
      <3>5. SignerFine(a)'
        <4>1. CASE Leaving(j) /\ j.ok
          <5>1. signer'[a] = None
            BY <1>a, <2>1, <2>3, <4>1 DEF Fine, LeaveFine, Signers0
          <5> QED BY <5>1 DEF SignerFine
        <4>2. CASE ~(Leaving(j) /\ j.ok)
          <5>1. ~Left(a)
            BY <2>3, <4>2 DEF Left, IInv, JobInv, OneJobEach
          <5> QED BY <1>a, <1>b, <1>c, <3>3, <5>1 DEF Fine, SignerFine, SignerLike, FileLike, StoreLike
        <4> QED BY <4>1, <4>2
      <3> QED BY <3>2, <3>4, <3>5 DEF Fine
    <2> QED BY <2>2, <2>3
  <1> QED BY <1>1, <1>2, <1>3 DEF TickStep

-----------------------------------------------------------------------------
(* The sign-in and the signer records.                                     *)

\* A login keeps its account to itself.
LEMMA LoginAlone ==
  ASSUME NEW a \in Remote, Fine(a), Logging(a), UNCHANGED <<signer, jobs>>
  PROVE  signer[a] = None /\ SignerFine(a)' /\ LeaveFine(a)'
  <1>1. signer[a] = None
    BY DEF Fine, LoginFine, Logging
  <1>2. \A j \in jobs : ~(j.acct = a /\ Leaving(j))
    BY DEF Fine, LeaveFine
  <1> QED BY <1>1, <1>2 DEF SignerFine, LeaveFine, Leaving

\* Where the sign-in may stand, field by field.
LEMMA AuthStands ==
  ASSUME IInv, AuthForm, auth # None
  PROVE  /\ auth \in Auth
         /\ auth.stage \in {"free", "login", "store", "undo", "forget"} =>
              auth.login /\ auth.acct \in Remote /\ InFlight(auth.acct) /\ Logging(auth.acct)
         /\ auth.stage = "signout" => auth.acct \in Remote
         /\ auth.stage # "free" => auth.prev = None
         /\ auth.stage \in {"call", "connect"} => ~auth.login
  <1>1. auth \in Auth /\ AuthShape
    BY DEF IInv, TypeInv, TypeOK
  <1>2. auth.stage \in Second => auth.method = "remote"
    BY <1>1 DEF AuthShape, Second
  <1>3. auth.stage \in Second => auth.acct \in Remote
    BY <1>1, <1>2 DEF AuthShape, Second
  <1> QED BY <1>1, <1>3 DEF AuthForm, Second, InFlight, Logging

LEMMA AuthWorkerFine ==
  ASSUME IInv, FileInv, AuthWorker, NEW a \in Remote, a \notin raced
  PROVE  Fine(a)'
  <1>a. Fine(a) /\ AuthForm /\ TypeOK /\ auth # None
    BY DEF FileInv, IInv, TypeInv, AuthWorker, AuthFails, FreePrevious, RemoteLogin, StoreLogin,
           SignOutAgain, ForgetLogin, LocalLogin, Connected, At
  <1>b. /\ auth \in Auth
        /\ auth.stage \in {"free", "login", "store", "undo", "forget"} =>
             auth.login /\ auth.acct \in Remote /\ InFlight(auth.acct) /\ Logging(auth.acct)
        /\ auth.stage = "signout" => auth.acct \in Remote
        /\ auth.stage # "free" => auth.prev = None
        /\ auth.stage \in {"call", "connect"} => ~auth.login
    BY <1>a, AuthStands
  <1>c. UNCHANGED <<signer, jobs, unlocked, phase>>
    BY DEF AuthWorker, AuthFails, FreePrevious, RemoteLogin, StoreLogin,
           SignOutAgain, ForgetLogin, LocalLogin, Connected, disk, vault, life
  <1>d. SignerLike(a) /\ JobsLike(a)
    BY <1>c, LikeSame
  <1>e. \A b \in Remote : b \in Accounts
    BY DEF Accounts
  <1>f. store \in [Accounts -> {"absent", "out", "in"}] /\ mem \in [Remote -> BOOLEAN]
    BY <1>a DEF TypeOK
  <1>g. auth.acct = a => InFlight(a)
    BY <1>a DEF InFlight
  \* What the fields of auth become.
  <1>1. CASE AuthFails
    <2>1. /\ UNCHANGED <<store, vault>> /\ auth.stage \in {"call", "connect", "login"}
          /\ auth'.acct = auth.acct /\ auth'.login = auth.login /\ auth'.err
          /\ auth'.prev = auth.prev /\ auth'.stage = "done"
      BY <1>1, <1>b DEF AuthFails, disk, Auth
    <2>2. FileLike(a) /\ StoreLike(a)
      BY <2>1, LikeSame
    <2>3. CASE a # auth.acct
      <3>1. AuthLike(a)
        BY <2>1, <2>3 DEF AuthLike, InFlight
      <3> QED BY <1>a, <1>c, <1>d, <2>2, <3>1, FineKept
    <2>4. CASE a = auth.acct
      <3>1. SignerFine(a)' /\ LeaveFine(a)'
        <4>1. Logging(a)' => Logging(a)
          BY <1>a, <2>1 DEF Logging, InFlight
        <4> QED BY <1>a, <1>c, <2>1, <4>1 DEF Fine, SignerFine, LeaveFine, Left, Leaving, Safe, vault
      <3>2. LoginFine(a)' /\ DirtyFine(a)'
        BY <1>a, <1>b, <1>c, <1>g, <2>1, <2>4 DEF Fine, LoginFine, DirtyFine, Dirty, InFlight, vault
      <3> QED BY <3>1, <3>2 DEF Fine
    <2> QED BY <2>3, <2>4
  <1>2. CASE FreePrevious
    <2>1. /\ UNCHANGED store /\ auth.stage = "free"
          /\ auth'.acct = auth.acct /\ auth'.login = auth.login
          /\ auth'.prev = None /\ auth'.stage = "login"
      BY <1>2, <1>b DEF FreePrevious, At, Auth
    <2>2. \/ UNCHANGED <<mem, desc>>
          \/ auth.prev # None /\ (Stored(auth.acct) \/ StoreFails(auth.acct))
      BY <1>2 DEF FreePrevious
    <2>3. CASE a # auth.acct
      <3>1. FileLike(a)
        BY <1>a, <1>b, <1>c, <1>e, <2>1, <2>2, <2>3, FileWrites DEF FileLike, Safe, Dirty
      <3>2. AuthLike(a)
        BY <2>1, <2>3 DEF AuthLike, InFlight
      <3> QED BY <1>a, <1>c, <1>d, <2>1, <3>1, <3>2, FineKept, LikeSame
    <2>4. CASE a = auth.acct
      <3>1. signer[a] = None /\ SignerFine(a)' /\ LeaveFine(a)'
        BY <1>a, <1>b, <1>c, <2>1, <2>4, LoginAlone
      <3>2. LoginFine(a)'
        BY <1>c, <2>1, <3>1 DEF LoginFine
      <3>3. auth.prev # None => Safe(a)
        BY <1>a, <1>g, <2>4 DEF Fine, LoginFine
      <3>4. ~Dirty(a)
        BY <1>a, <2>1 DEF Fine, DirtyFine
      <3>5. ~Dirty(a)'
        BY <1>a, <1>c, <1>e, <2>2, <2>4, <3>3, <3>4, FileWrites DEF Dirty
      <3> QED BY <3>1, <3>2, <3>5 DEF Fine, DirtyFine
    <2> QED BY <2>3, <2>4
  <1>3. CASE RemoteLogin
    <2>1. /\ auth.stage = "login" /\ UNCHANGED vault /\ store' = [store EXCEPT ![auth.acct] = "in"]
          /\ auth'.acct = auth.acct /\ auth'.login = auth.login
          /\ auth'.prev = auth.prev /\ auth'.stage = "store"
      BY <1>3, <1>b DEF RemoteLogin, At, Auth
    <2>2. store'[auth.acct] = "in" /\ StoreLike(a) /\ FileLike(a)
      BY <1>b, <1>e, <1>f, <2>1, LikeSame DEF StoreLike
    <2>3. CASE a # auth.acct
      <3>2. AuthLike(a)
        BY <2>1, <2>3 DEF AuthLike, InFlight
      <3> QED BY <1>a, <1>c, <1>d, <2>2, <3>2, FineKept
    <2>4. CASE a = auth.acct
      <3>1. signer[a] = None /\ SignerFine(a)' /\ LeaveFine(a)'
        BY <1>a, <1>b, <1>c, <2>1, <2>4, LoginAlone
      <3>2. LoginFine(a)' /\ DirtyFine(a)'
        BY <1>a, <1>b, <1>c, <2>1, <2>2, <2>4, <3>1 DEF Fine, LoginFine, DirtyFine, Dirty, vault
      <3> QED BY <3>1, <3>2 DEF Fine
    <2> QED BY <2>3, <2>4
  <1>4. CASE StoreLogin
    <2>1. /\ auth.stage = "store" /\ UNCHANGED store
          /\ auth' # None /\ auth'.acct = auth.acct /\ auth'.login = auth.login /\ auth'.prev = auth.prev
          /\ \/ Stored(auth.acct) /\ auth'.stage = "done"
             \/ StoreFails(auth.acct) /\ auth'.stage = "undo"
      <3>1. \E st \in {"done", "undo"} : auth' = [auth EXCEPT !.stage = st]
        BY <1>4 DEF StoreLogin
      <3>2. /\ auth' # None /\ auth'.acct = auth.acct /\ auth'.login = auth.login
            /\ auth'.prev = auth.prev
        BY <1>b, <3>1, AuthSome DEF Auth
      <3>3. auth' = [auth EXCEPT !.stage = "done"] => auth'.stage = "done"
        BY <1>b DEF Auth
      <3>4. auth' = [auth EXCEPT !.stage = "undo"] => auth'.stage = "undo"
        BY <1>b DEF Auth
      <3> QED BY <1>4, <3>2, <3>3, <3>4 DEF StoreLogin, At
    <2>3. CASE a # auth.acct
      <3>1. FileLike(a)
        BY <1>a, <1>b, <1>c, <1>e, <2>1, <2>3, FileWrites DEF FileLike
      <3>2. AuthLike(a)
        BY <2>1, <2>3 DEF AuthLike, InFlight
      <3> QED BY <1>a, <1>c, <1>d, <2>1, <3>1, <3>2, FineKept, LikeSame
    <2>4. CASE a = auth.acct
      <3>1. signer[a] = None /\ SignerFine(a)' /\ LeaveFine(a)'
        BY <1>a, <1>b, <1>c, <2>1, <2>4, LoginAlone
      <3>2. store[a] = "in" /\ ~Dirty(a)
        BY <1>a, <1>g, <2>1, <2>4 DEF Fine, LoginFine, DirtyFine
      <3>3. Stored(a) => Safe(a)'
        BY <1>c, <1>f, <3>2 DEF Stored, Safe, Dirty
      <3>4. LoginFine(a)' /\ DirtyFine(a)'
        BY <1>b, <1>c, <2>1, <2>4, <3>1, <3>2, <3>3 DEF LoginFine, DirtyFine, Dirty, Safe, InFlight
      <3> QED BY <3>1, <3>4 DEF Fine
    <2> QED BY <2>3, <2>4
  <1>5. CASE SignOutAgain
    <2>1. /\ auth.stage \in {"undo", "signout"} /\ UNCHANGED vault
          /\ auth' # None /\ auth'.acct = auth.acct /\ auth'.login = auth.login /\ auth'.prev = auth.prev
          /\ \/ auth'.stage = "forget" /\ auth.login /\ store' = [store EXCEPT ![auth.acct] = "out"]
             \/ auth'.stage = "forget" /\ auth.login /\ UNCHANGED store
             \/ auth'.stage = "done" /\ auth'.err /\ UNCHANGED store /\ auth.stage = "signout"
      <3>1. \/ auth' = [auth EXCEPT !.stage = "forget"]
            \/ auth' = [auth EXCEPT !.stage = "done", !.err = TRUE]
        BY <1>5 DEF SignOutAgain
      <3>2. /\ auth' # None /\ auth'.acct = auth.acct /\ auth'.login = auth.login
            /\ auth'.prev = auth.prev
        BY <1>b, <3>1, AuthSome DEF Auth
      <3>3. auth' = [auth EXCEPT !.stage = "forget"] => auth'.stage = "forget"
        BY <1>b DEF Auth
      <3>4. auth' = [auth EXCEPT !.stage = "done", !.err = TRUE] => auth'.stage = "done" /\ auth'.err
        BY <1>b DEF Auth
      <3>5. auth.stage \in {"undo", "signout"} /\ UNCHANGED vault
        BY <1>5 DEF SignOutAgain, At
      <3> QED BY <1>5, <1>b, <3>2, <3>3, <3>4, <3>5 DEF SignOutAgain
    <2>2. FileLike(a) /\ auth.acct \in Remote
      BY <1>b, <2>1, LikeSame
    <2>3. CASE a # auth.acct
      <3>1. StoreLike(a)
        BY <1>e, <1>f, <2>1, <2>2, <2>3 DEF StoreLike
      <3>2. AuthLike(a)
        BY <2>1, <2>3 DEF AuthLike, InFlight
      <3> QED BY <1>a, <1>c, <1>d, <2>2, <3>1, <3>2, FineKept
    <2>4. CASE a = auth.acct /\ auth'.stage = "forget" /\ auth.login
      <3>1. signer[a] = None /\ SignerFine(a)' /\ LeaveFine(a)'
        <4>1. Logging(a)
          BY <1>g, <2>4 DEF Logging
        <4> QED BY <1>a, <1>c, <4>1, LoginAlone
      <3>2. LoginFine(a)' /\ DirtyFine(a)'
        BY <1>b, <1>c, <2>1, <2>4, <3>1 DEF LoginFine, DirtyFine, InFlight
      <3> QED BY <3>1, <3>2 DEF Fine
    <2>5. CASE a = auth.acct /\ auth'.stage = "done" /\ auth'.err /\ UNCHANGED store /\ auth.stage = "signout"
      <3>1. SignerFine(a)' /\ LeaveFine(a)'
        <4>1. Logging(a)' => Logging(a)
          BY <1>a, <2>1 DEF Logging, InFlight
        <4> QED BY <1>a, <1>c, <2>1, <2>5, <4>1 DEF Fine, SignerFine, LeaveFine, Left, Leaving, Safe, vault
      <3>2. LoginFine(a)' /\ DirtyFine(a)'
        BY <1>a, <1>b, <1>c, <1>g, <2>1, <2>5 DEF Fine, LoginFine, DirtyFine, Dirty, InFlight, vault
      <3> QED BY <3>1, <3>2 DEF Fine
    <2> QED BY <2>1, <2>3, <2>4, <2>5
  <1>6. CASE ForgetLogin
    <2>1. /\ auth.stage = "forget" /\ UNCHANGED store /\ Removed(auth.acct)
          /\ auth'.acct = auth.acct /\ auth'.login = auth.login
          /\ auth'.prev = auth.prev /\ auth'.stage = "done" /\ auth'.err
      BY <1>6, <1>b DEF ForgetLogin, At, Auth
    <2>3. CASE a # auth.acct
      <3>1. FileLike(a)
        BY <1>a, <1>b, <1>c, <1>e, <2>1, <2>3, FileWrites DEF FileLike
      <3>2. AuthLike(a)
        BY <2>1, <2>3 DEF AuthLike, InFlight
      <3> QED BY <1>a, <1>c, <1>d, <2>1, <3>1, <3>2, FineKept, LikeSame
    <2>4. CASE a = auth.acct
      <3>1. signer[a] = None /\ SignerFine(a)' /\ LeaveFine(a)'
        BY <1>a, <1>b, <1>c, <2>1, <2>4, LoginAlone
      <3>2. ~Dirty(a)'
        <4>1. ~mem'[a]
          BY <1>f, <2>1, <2>4 DEF Removed
        <4> QED BY <4>1 DEF Dirty
      <3>3. LoginFine(a)' /\ DirtyFine(a)'
        BY <1>b, <1>c, <2>1, <3>1, <3>2 DEF LoginFine, DirtyFine
      <3> QED BY <3>1, <3>3 DEF Fine
    <2> QED BY <2>3, <2>4
  <1>7. ASSUME NEW b \in Local, LocalLogin(b) PROVE Fine(a)'
    <2>1. auth.stage = "call" /\ auth'.acct = b /\ a # b /\ b \in Accounts
      BY <1>7, <1>b, AccountsAssumption DEF LocalLogin, At, Auth, Accounts
    <2>2. AuthLike(a)
      BY <2>1 DEF AuthLike, InFlight
    <2>3. UNCHANGED vault /\ StoreLike(a)
      BY <1>7, <1>e, <1>f, <2>1 DEF LocalLogin, StoreLike
    <2> QED BY <1>a, <1>c, <1>d, <2>2, <2>3, FineKept, LikeSame
  <1>8. ASSUME NEW b \in Remote, Connected(b) PROVE Fine(a)'
    <2>1. /\ auth.stage = "connect" /\ UNCHANGED <<store, vault>>
          /\ auth'.acct = b /\ auth'.login = auth.login
          /\ auth'.prev = auth.prev /\ auth'.stage = "done"
      BY <1>8, <1>b DEF Connected, At, Auth, disk
    <2>2. FileLike(a) /\ StoreLike(a)
      BY <2>1, LikeSame
    <2>3. ~Logging(a)'
      BY <1>b, <2>1 DEF Logging
    <2>4. SignerFine(a)' /\ LeaveFine(a)'
      BY <1>a, <1>c, <2>1, <2>3 DEF Fine, SignerFine, LeaveFine, Left, Leaving, Safe, vault
    <2>5. LoginFine(a)' /\ DirtyFine(a)'
      BY <1>a, <1>b, <2>1, <2>2 DEF Fine, LoginFine, DirtyFine, FileLike
    <2> QED BY <2>4, <2>5 DEF Fine
  <1> QED BY <1>1, <1>2, <1>3, <1>4, <1>5, <1>6, <1>7, <1>8 DEF AuthWorker

\* A sign-in that is over needs nothing any more.
LEMMA AuthOver ==
  ASSUME NEW a \in Remote, auth' = None, auth = None \/ auth.stage = "done"
  PROVE  AuthLike(a)
  BY DEF AuthLike, InFlight

LEMMA DrainAuthFine ==
  ASSUME IInv, FileInv, DrainAuth, NEW a \in Remote, a \notin raced
  PROVE  Fine(a)'
  <1>a. /\ Fine(a) /\ AuthForm /\ signer \in Signers0
        /\ phase = "run" /\ auth # None /\ auth.stage = "done"
        /\ UNCHANGED <<store, vault, unlocked, phase>>
    BY DEF FileInv, IInv, TypeInv, TypeOK, Signers0, DrainAuth, CancelledLocal, CancelledRemote,
           Reconnect, Dropped, Adopted, Drained, At, disk, vault, life
  <1>b. auth \in Auth /\ auth.prev = None
    BY <1>a, AuthStands
  <1>c. FileLike(a) /\ StoreLike(a) /\ ~Dirty(a)
    BY <1>a, LikeSame DEF Fine, DirtyFine
  <1>d. auth.method = "remote" /\ ~auth.err => auth.acct \in Remote
    BY <1>a DEF IInv, TypeInv, AuthShape
  <1>1. CASE auth' = None /\ UNCHANGED <<signer, jobs>>
    BY <1>1, <1>a, <1>c, AuthOver, LikeSame, FineKept
  <1>2. CASE CancelledLocal /\ Unwanted(auth)
    <2>1. auth' = None /\ auth.acct \in Accounts
      BY <1>2, <1>b DEF CancelledLocal, Unwanted, Auth
    <2>2. PICK kind \in Kind : NewJob(kind, auth.acct)
      BY <1>2 DEF CancelledLocal, Kind
    <2>3. AuthLike(a) /\ ~Logging(a)'
      BY <1>a, <2>1, AuthOver DEF Logging, InFlight
    <2>4. ForgotWanted(kind) \in Signers0 /\ (ForgotWanted(kind)[a] = None <=> signer[a] = None)
      BY <1>a, ForgotType
    <2>5. Alike(ForgotWanted(kind)[a], signer[a])
      BY <1>a, ForgotAlike
    <2> QED BY <1>a, <2>1, <2>2, <2>3, <2>4, <2>5, NewJobFine DEF NewJob
  <1>3. CASE CancelledRemote
    <2>1. /\ auth' = [auth EXCEPT !.stage = "signout"] /\ ~auth.err /\ UNCHANGED <<signer, jobs>>
      BY <1>3 DEF CancelledRemote
    <2>2. /\ auth'.stage = "signout" /\ auth'.acct = auth.acct /\ auth'.login = auth.login
          /\ auth'.prev = None
      BY <1>b, <2>1 DEF Auth
    <2>3. Logging(a)' => Logging(a) /\ store[a] = "in" /\ Safe(a) /\ signer[a] = None
      BY <1>a, <2>1, <2>2 DEF Fine, LoginFine, Logging, InFlight
    <2>4. SignerFine(a)' /\ LeaveFine(a)'
      BY <1>a, <1>c, <2>1, <2>3 DEF Fine, SignerFine, LeaveFine, Left, Leaving, FileLike, StoreLike
    <2>5. LoginFine(a)' /\ DirtyFine(a)'
      BY <1>c, <2>1, <2>2, <2>3 DEF LoginFine, DirtyFine, FileLike, StoreLike, Logging
    <2> QED BY <2>4, <2>5 DEF Fine
  <1>4. CASE Reconnect /\ ~Busy(auth.acct)
    <2>1. /\ auth' = [auth EXCEPT !.login = TRUE, !.stage = "free", !.prev = signer[auth.acct]]
          /\ signer' = [signer EXCEPT ![auth.acct] = None] /\ UNCHANGED jobs
          /\ auth.acct \in Remote
      BY <1>4, <1>d DEF Reconnect
    <2>2. /\ auth'.stage = "free" /\ auth'.acct = auth.acct /\ auth'.login
          /\ auth'.prev = signer[auth.acct]
      BY <1>b, <2>1 DEF Auth
    <2>3. CASE a # auth.acct
      <3>1. AuthLike(a) /\ signer'[a] = signer[a]
        BY <1>a, <2>1, <2>2, <2>3 DEF AuthLike, InFlight, Signers0
      <3> QED BY <1>a, <1>c, <2>1, <3>1, LikeSame, FineKept
    <2>4. CASE a = auth.acct
      <3>1. signer'[a] = None
        BY <1>a, <2>1, <2>4 DEF Signers0
      <3>2. \A j \in jobs : j.acct # a
        BY <1>4, <2>4 DEF Busy
      <3>3. signer[a] # None => store[a] = "in" /\ Safe(a)
        BY <1>a, <3>2, HomeFine DEF Departing
      <3>4. SignerFine(a)' /\ LeaveFine(a)' /\ DirtyFine(a)'
        BY <1>c, <2>1, <3>1, <3>2 DEF SignerFine, LeaveFine, DirtyFine, FileLike
      <3>5. LoginFine(a)'
        BY <1>c, <2>2, <2>4, <3>1, <3>3 DEF LoginFine, FileLike, StoreLike
      <3> QED BY <3>4, <3>5 DEF Fine
    <2> QED BY <2>3, <2>4
  <1>5. CASE Adopted /\ auth.method = "remote"
    <2>1. auth' = None /\ UNCHANGED jobs /\ auth.login /\ ~auth.err /\ auth.acct \in Remote
      BY <1>5, <1>d DEF Adopted
    <2>2. a # auth.acct => signer'[a] = signer[a]
      BY <1>5, <1>a DEF Adopted, Signers0
    <2>3. CASE a # auth.acct
      BY <1>a, <1>c, <2>1, <2>2, <2>3, AuthOver, LikeSame, FineKept
    <2>4. CASE a = auth.acct
      <3>1. Logging(a) /\ store[a] = "in" /\ Safe(a)
        BY <1>a, <2>1, <2>4 DEF Fine, LoginFine, Logging, InFlight
      <3>2. LeaveFine(a)'
        BY <1>a, <2>1, <3>1 DEF Fine, LeaveFine, Leaving
      <3>3. ~Logging(a)' /\ store'[a] = "in" /\ Safe(a)'
        BY <1>c, <2>1, <3>1 DEF Logging, InFlight, FileLike, StoreLike
      <3> QED BY <3>2, <3>3, FineSafe
    <2> QED BY <2>3, <2>4
  <1> QED BY <1>1, <1>2, <1>3, <1>4, <1>5
          DEF DrainAuth, CancelledLocal, Reconnect, Dropped, Adopted

\* The user asks for no departure of an account a login works on, or it is raced.
LEMMA UserFine ==
  ASSUME IInv, FileInv, UserStep, NEW a \in Remote, a \notin raced'
  PROVE  a \notin raced /\ Fine(a)'
  <1>0. a \notin raced
    BY DEF UserStep, Ask, OpenPane, CancelAuth, ClosePane, StartAuth, history
  <1>a. /\ Fine(a) /\ AuthForm /\ signer \in Signers0 /\ phase = "run"
        /\ UNCHANGED <<store, vault, phase>>
    BY <1>0 DEF FileInv, IInv, TypeInv, TypeOK, Signers0, UserStep, Ask, OpenPane, CancelAuth, ClosePane,
           StartAuth, Using, AtLogin, disk, life
  <1>b. FileLike(a) /\ StoreLike(a)
    BY <1>a, LikeSame
  <1>1. ASSUME NEW kind \in Kind, NEW b \in Accounts, Ask(kind, b) PROVE Fine(a)'
    <2>1. AuthLike(a) /\ NewJobOver(kind, b, ForgotWanted(kind)) /\ UNCHANGED auth
      BY <1>1, LikeSame DEF Ask, NewJob
    <2>2. kind \in {"leave", "remove"} /\ a = b => ~Logging(a)'
      BY <1>1, <2>1 DEF Ask, Logging, InFlight
    <2>3. /\ ForgotWanted(kind) \in Signers0
          /\ ForgotWanted(kind)[a] = None <=> signer[a] = None
          /\ Alike(ForgotWanted(kind)[a], signer[a])
      BY <1>a, ForgotType, ForgotAlike
    <2> QED BY <1>a, <2>1, <2>2, <2>3, NewJobFine
  <1>2. ASSUME UNCHANGED <<signer, jobs>>, AuthLike(a) PROVE Fine(a)'
    BY <1>2, <1>a, <1>b, LikeSame, FineKept
  <1>3. CASE OpenPane \/ ClosePane
    <2>1. UNCHANGED <<signer, jobs, auth>>
      BY <1>3 DEF OpenPane, ClosePane
    <2>2. AuthLike(a)
      BY <2>1, LikeSame
    <2> QED BY <1>0, <1>2, <2>1, <2>2
  <1>4. CASE CancelAuth
    <2>1. auth \in Auth /\ auth' = [auth EXCEPT !.cancelled = TRUE] /\ UNCHANGED <<signer, jobs>>
      BY <1>4 DEF CancelAuth, IInv, TypeInv, TypeOK
    <2>2. /\ auth' \in Auth /\ auth'.acct = auth.acct /\ auth'.stage = auth.stage
          /\ auth'.login = auth.login /\ auth'.err = auth.err /\ auth'.prev = auth.prev
      BY <2>1 DEF Auth
    <2>3. AuthLike(a)
      BY <1>4, <2>2, AuthSome DEF CancelAuth, AuthLike, InFlight
    <2> QED BY <1>0, <1>2, <2>1, <2>3
  <1>5. ASSUME NEW method \in {"import", "create", "remote"}, StartAuth(method) PROVE Fine(a)'
    <2>1. auth = None /\ auth'.acct = None /\ a # None /\ UNCHANGED <<signer, jobs>>
      BY <1>5, AccountsAssumption DEF StartAuth, Accounts
    <2>2. AuthLike(a)
      BY <2>1 DEF AuthLike, InFlight
    <2> QED BY <1>2, <2>1, <2>2
  <1> QED BY <1>0, <1>1, <1>3, <1>4, <1>5 DEF UserStep

LEMMA SessionFine ==
  ASSUME IInv, FileInv, SessionStep, NEW a \in Remote, a \notin raced
  PROVE  Fine(a)'
  <1>a. Fine(a) /\ signer \in Signers0 /\ AuthJoined /\ JobsJoined /\ TypeOK
    BY DEF FileInv, IInv, JobInv, TypeInv, TypeOK, Signers0
  <1>1. CASE AuthStopped
    <2>1. auth' = None /\ UNCHANGED <<store, vault, signer, jobs>> /\ phase # "signers"
          /\ (auth = None \/ auth.stage = "done")
      BY <1>1 DEF AuthStopped, disk, At
    <2> QED BY <1>a, <2>1, AuthOver, LikeSame, FineKept
  <1>2. CASE JobsStopped
    <2>1. auth = None /\ jobs' = {} /\ UNCHANGED <<store, vault, signer, auth>> /\ phase' = "signers"
      BY <1>2, <1>a DEF JobsStopped, AuthJoined, disk
    <2>2. LeaveFine(a)' /\ LoginFine(a)' /\ DirtyFine(a)'
      BY <1>a, <2>1 DEF Fine, LeaveFine, LoginFine, DirtyFine, InFlight, Dirty, vault
    <2>3. SignerFine(a)'
      BY <1>a, <2>1 DEF Fine, SignerFine, Safe, vault
    <2> QED BY <2>2, <2>3 DEF Fine
  <1>3. ASSUME signer'[a] = None, jobs' = {}, auth' = None, mem'[a] = FALSE PROVE Fine(a)'
    BY <1>3 DEF Fine, SignerFine, LeaveFine, LoginFine, DirtyFine, InFlight, Dirty
  <1>4. CASE SignersStopped
    BY <1>3, <1>4, <1>a DEF SignersStopped, NoSigner, AuthJoined, JobsJoined
  <1>5. CASE Crash
    BY <1>3, <1>5 DEF Crash, NoSigner
  <1>6. CASE BeginStop
    <2>1. FileLike(a)
      BY <1>6, <1>a DEF BeginStop, FileLike, Safe, Dirty
    <2> QED BY <1>6, <1>a, <2>1, LikeSame, FineKept DEF BeginStop
  <1>7. CASE OtherSecretSaved
    <2>1. FileLike(a)
      BY <1>7, <1>a DEF OtherSecretSaved, FileLike, Safe, Dirty
    <2> QED BY <1>7, <1>a, <2>1, LikeSame, FineKept DEF OtherSecretSaved, life
  <1>8. CASE Boot
    <2>1. /\ auth' = None /\ jobs' = {} /\ mem' = desc /\ desc' = desc /\ store' = store
      BY <1>8, <1>a DEF Boot, AuthJoined, JobsJoined
    <2>2. signer'[a] # None => store[a] = "in" /\ desc[a]
      BY <1>8 DEF Boot
    <2> QED BY <2>1, <2>2 DEF Fine, SignerFine, LeaveFine, LoginFine, DirtyFine, InFlight, Dirty, Safe
  <1> QED BY <1>1, <1>2, <1>4, <1>5, <1>6, <1>7, <1>8 DEF SessionStep, Stop

-----------------------------------------------------------------------------
(* The inductive invariant of the records, and what follows from it.       *)

LEMMA AuthFormKept ==
  ASSUME IInv, AuthForm, Next
  PROVE  AuthForm'
  <1>1. CASE auth' = None \/ UNCHANGED auth
    BY <1>1 DEF AuthForm
  <1>2. CASE auth # None /\ \E t : \E s \in Signer : auth.prev = s /\ auth' = [auth EXCEPT !.prev = t]
    <2>1. auth.prev # None /\ auth \in Auth
      BY <1>2, SignerSome DEF IInv, TypeInv, TypeOK
    <2>2. auth'.stage = auth.stage /\ auth'.login = auth.login
      BY <1>2, <2>1 DEF Auth
    <2> QED BY <1>2, <2>1, <2>2 DEF AuthForm
  <1>3. CASE AuthWorker
    <2>1. auth # None
      BY <1>3 DEF AuthWorker, AuthFails, FreePrevious, RemoteLogin, StoreLogin,
                  SignOutAgain, ForgetLogin, LocalLogin, Connected, At
    <2>2. /\ auth \in Auth
          /\ auth.stage \in {"free", "login", "store", "undo", "forget"} => auth.login
          /\ auth.stage # "free" => auth.prev = None
      BY <2>1, AuthStands
    <2>3. CASE SignOutAgain
      <3>1. \/ auth' = [auth EXCEPT !.stage = "forget"] /\ auth.login
            \/ auth' = [auth EXCEPT !.stage = "done", !.err = TRUE]
        BY <2>2, <2>3 DEF SignOutAgain, At
      <3>2. auth'.prev = auth.prev /\ auth'.login = auth.login /\ auth.stage # "free"
        BY <2>2, <2>3, <3>1 DEF Auth, SignOutAgain, At
      <3>3. (auth'.stage = "forget" /\ auth.login) \/ auth'.stage = "done"
        BY <2>2, <3>1 DEF Auth
      <3> QED BY <2>2, <3>2, <3>3 DEF AuthForm, Second
    <2>4. CASE StoreLogin
      <3>1. \E st \in {"done", "undo"} : auth' = [auth EXCEPT !.stage = st]
        BY <2>4 DEF StoreLogin
      <3> QED BY <2>2, <2>4, <3>1 DEF AuthForm, Auth, StoreLogin, At, Second
    <2>5. CASE FreePrevious
      BY <2>2, <2>5 DEF FreePrevious, At, AuthForm, Auth, Second
    <2>6. CASE AuthFails
      BY <2>2, <2>6 DEF AuthFails, AuthForm, Auth, Second
    <2>7. CASE RemoteLogin \/ ForgetLogin
      <3>1. \/ auth.stage = "login" /\ auth' = [auth EXCEPT !.stage = "store"]
            \/ auth.stage = "forget" /\ auth' = [auth EXCEPT !.stage = "done", !.err = TRUE]
        BY <2>7 DEF RemoteLogin, ForgetLogin, At
      <3>2. auth'.prev = None /\ auth'.login /\ auth'.stage \in {"store", "done"}
        BY <2>2, <3>1 DEF Auth
      <3> QED BY <3>2 DEF AuthForm
    <2>8. CASE (\E a \in Local : LocalLogin(a)) \/ \E a \in Remote : Connected(a)
      BY <2>2, <2>8 DEF LocalLogin, Connected, At, AuthForm, Auth, Second
    <2> QED BY <1>3, <2>3, <2>4, <2>5, <2>6, <2>7, <2>8 DEF AuthWorker
  <1>4. CASE CancelledRemote
    <2>1. auth \in Auth /\ auth.prev = None
      BY <1>4, AuthStands DEF CancelledRemote, Drained, At
    <2> QED BY <1>4, <2>1 DEF CancelledRemote, AuthForm, Auth, Second
  <1>5. CASE Reconnect /\ ~Busy(auth.acct)
    <2>1. auth \in Auth /\ auth' = [auth EXCEPT !.login = TRUE, !.stage = "free", !.prev = signer[auth.acct]]
      BY <1>5, AuthStands DEF Reconnect, Drained, At
    <2> QED BY <2>1 DEF AuthForm, Auth, Second
  <1>6. CASE CancelAuth
    <2>1. auth \in Auth /\ auth # None /\ auth' = [auth EXCEPT !.cancelled = TRUE]
      BY <1>6 DEF CancelAuth, IInv, TypeInv, TypeOK
    <2>2. auth'.stage = auth.stage /\ auth'.login = auth.login /\ auth'.prev = auth.prev
      BY <2>1 DEF Auth
    <2> QED BY <2>1, <2>2 DEF AuthForm
  <1>7. ASSUME NEW method \in {"import", "create", "remote"}, StartAuth(method) PROVE AuthForm'
    <2>1. /\ auth'.prev = None /\ auth'.login = FALSE
          /\ auth'.stage = IF method = "remote" THEN "connect" ELSE "call"
      BY <1>7 DEF StartAuth
    <2> QED BY <2>1 DEF AuthForm, Second
  <1>8. ASSUME NEW b \in Remote, AttachStep(b) \/ PersistStep(b) PROVE AuthForm'
    <2>1. \E t : \E s \in Signers(b) \ {None} : Becomes(b, s, t)
      BY <1>8 DEF AttachStep, PersistStep
    <2>2. \A s \in Signers(b) \ {None} : s \in Signer
      BY SignersType DEF IInv, TypeInv
    <2>3. \/ UNCHANGED auth
          \/ auth # None /\ \E t : \E s \in Signer : auth.prev = s /\ auth' = [auth EXCEPT !.prev = t]
      BY <2>1, <2>2 DEF Becomes
    <2> QED BY <1>1, <1>2, <2>3
  <1>9. CASE WorkerStep
    <2>1. ASSUME NEW j \in jobs, Join(j) \/ CallOther(j) \/ CallLeave(j) \/ Forget(j) PROVE UNCHANGED auth
      BY <2>1 DEF Join, CallOther, CallLeave, Forget
    <2> QED BY <1>1, <1>8, <1>9, <2>1 DEF WorkerStep
  <1>10. CASE TickStep
    BY <1>1, <1>10 DEF TickStep, DrainJob, AttachDrained, PersistDrained, PersistStarts
  <1>11. CASE DrainAuth
    BY <1>1, <1>4, <1>5, <1>11 DEF DrainAuth, CancelledLocal, Reconnect, Dropped, Adopted
  <1>12. CASE SessionStep
    BY <1>1, <1>12 DEF SessionStep, Stop, AuthStopped, JobsStopped, SignersStopped, BeginStop, Boot, Crash,
                       OtherSecretSaved
  <1>13. CASE UserStep
    BY <1>1, <1>6, <1>7, <1>13 DEF UserStep, Ask, OpenPane, ClosePane
  <1> QED BY <1>3, <1>9, <1>10, <1>11, <1>12, <1>13, NextSteps

\* The end of a session frees the sign-in before it joins the jobs.
LEMMA AuthJoinedKept ==
  ASSUME AuthJoined, Next
  PROVE  AuthJoined'
  <1>1. CASE UNCHANGED phase /\ (auth = None => auth' = None)
    BY <1>1 DEF AuthJoined
  <1>2. CASE auth' = None \/ phase' \in {"run", "stopping"}
    BY <1>2 DEF AuthJoined
  <1>3. CASE WorkerStep
    <2>1. ASSUME NEW j \in jobs, Join(j) \/ CallOther(j) \/ CallLeave(j) \/ Forget(j) PROVE UNCHANGED <<auth, phase>>
      BY <2>1 DEF Join, CallOther, CallLeave, Forget, life
    <2>2. ASSUME NEW b \in Remote, AttachStep(b) \/ PersistStep(b)
          PROVE  UNCHANGED phase /\ (auth = None => auth' = None)
      BY <2>2 DEF AttachStep, PersistStep, Becomes, life
    <2> QED BY <1>1, <1>3, <2>1, <2>2 DEF WorkerStep
  <1>4. CASE TickStep
    BY <1>1, <1>4 DEF TickStep, DrainJob, AttachDrained, PersistDrained, PersistStarts, life
  <1>5. CASE AuthWorker
    BY <1>1, <1>5 DEF AuthWorker, AuthFails, FreePrevious, RemoteLogin, StoreLogin,
                      SignOutAgain, ForgetLogin, LocalLogin, Connected, At, life
  <1>6. CASE DrainAuth \/ UserStep
    <2>1. phase = "run" /\ phase' = phase
      BY <1>6 DEF DrainAuth, CancelledLocal, CancelledRemote, Reconnect, Dropped, Adopted, Drained,
                  UserStep, Ask, OpenPane, CancelAuth, ClosePane, StartAuth, Using, AtLogin, life
    <2> QED BY <1>2, <2>1
  <1>7. CASE SessionStep
    <2>1. CASE AuthStopped \/ Boot \/ BeginStop \/ Crash
      BY <1>2, <2>1 DEF AuthStopped, Boot, BeginStop, Crash
    <2>2. CASE JobsStopped \/ SignersStopped \/ OtherSecretSaved
      <3>1. UNCHANGED auth /\ (UNCHANGED phase \/ phase \in {"jobs", "signers"})
        BY <2>2 DEF JobsStopped, SignersStopped, OtherSecretSaved, life
      <3> QED BY <3>1 DEF AuthJoined
    <2> QED BY <1>7, <2>1, <2>2 DEF SessionStep, Stop
  <1> QED BY <1>3, <1>4, <1>5, <1>6, <1>7, NextSteps

LEMMA ForgettersKept ==
  ASSUME IInv, Forgetters, Next
  PROVE  Forgetters'
  <1>1. ASSUME \A k \in jobs' : k \in jobs \/ k.stage # "forget" \/ Leaving(k) PROVE Forgetters'
    BY <1>1 DEF Forgetters, Leaving
  <1>2. jobs \subseteq Job
    BY DEF IInv, TypeInv, TypeOK
  <1>3. ASSUME NEW kind \in Kind, NEW a \in Accounts, NEW ss, NewJobOver(kind, a, ss) PROVE Forgetters'
    <2>1. jobs' = jobs \/ jobs' = jobs \cup {Started(kind, a)}
      BY <1>3 DEF NewJobOver
    <2>2. Started(kind, a).stage # "forget"
      BY DEF Started
    <2> QED BY <1>1, <2>1, <2>2
  <1>4. CASE jobs' \subseteq jobs
    BY <1>1, <1>4
  <1>5. CASE WorkerStep
    <2>1. ASSUME NEW j \in jobs, NEW k, Advance(j, k), k.stage # "forget" \/ Leaving(k) PROVE Forgetters'
      BY <1>1, <2>1 DEF Advance
    <2>2. ASSUME NEW j \in jobs, Join(j) \/ CallOther(j) \/ CallLeave(j) \/ Forget(j) PROVE Forgetters'
      <3>1. /\ [j EXCEPT !.stage = "call"].stage = "call"
            /\ [j EXCEPT !.stage = "done"].stage = "done"
            /\ [j EXCEPT !.stage = "done", !.ok = TRUE].stage = "done"
            /\ [j EXCEPT !.stage = "forget", !.ok = TRUE].kind = j.kind
        BY <1>2 DEF Job
      <3>2. \/ Advance(j, [j EXCEPT !.stage = "call"]) \/ Advance(j, [j EXCEPT !.stage = "done"])
            \/ Advance(j, [j EXCEPT !.stage = "done", !.ok = TRUE])
            \/ Leaving(j) /\ Advance(j, [j EXCEPT !.stage = "forget", !.ok = TRUE])
        BY <2>2 DEF Join, CallOther, CallLeave, Forget
      <3>3. Leaving(j) => Leaving([j EXCEPT !.stage = "forget", !.ok = TRUE])
        BY <3>1 DEF Leaving
      <3>4. CASE Leaving(j) /\ Advance(j, [j EXCEPT !.stage = "forget", !.ok = TRUE])
        BY <2>1, <3>3, <3>4
      <3>5. CASE \/ Advance(j, [j EXCEPT !.stage = "call"]) \/ Advance(j, [j EXCEPT !.stage = "done"])
                 \/ Advance(j, [j EXCEPT !.stage = "done", !.ok = TRUE])
        BY <2>1, <3>1, <3>5
      <3> QED BY <3>2, <3>4, <3>5
    <2>3. ASSUME NEW b \in Remote, AttachStep(b) \/ PersistStep(b) PROVE Forgetters'
      BY <1>4, <2>3 DEF AttachStep, PersistStep
    <2> QED BY <1>5, <2>2, <2>3 DEF WorkerStep
  <1>6. CASE TickStep
    <2>1. ASSUME NEW b \in Remote, AttachDrained(b) PROVE Forgetters'
      <3>1. jobs' = jobs \/ \E ss : NewJobOver("switch", b, ss)
        BY <2>1 DEF AttachDrained
      <3>2. "switch" \in Kind /\ b \in Accounts
        BY DEF Kind, Accounts
      <3> QED BY <1>3, <1>4, <3>1, <3>2
    <2>2. CASE \/ \E j \in jobs : DrainJob(j)
               \/ \E a \in Remote : PersistDrained(a) \/ PersistStarts(a)
      BY <1>4, <2>2 DEF DrainJob, PersistDrained, PersistStarts
    <2> QED BY <1>6, <2>1, <2>2 DEF TickStep
  <1>7. CASE AuthWorker
    BY <1>4, <1>7 DEF AuthWorker, AuthFails, FreePrevious, RemoteLogin, StoreLogin,
                      SignOutAgain, ForgetLogin, LocalLogin, Connected
  <1>8. CASE DrainAuth
    <2>1. CASE CancelledLocal /\ Unwanted(auth)
      <3>1. auth.acct \in Accounts
        BY <2>1 DEF CancelledLocal, Drained, At, Unwanted, IInv, TypeInv, TypeOK, Auth
      <3>2. \E kind \in Kind : NewJobOver(kind, auth.acct, ForgotWanted(kind))
        BY <2>1 DEF CancelledLocal, NewJob, Kind
      <3> QED BY <1>3, <3>1, <3>2
    <2> QED BY <1>4, <1>8, <2>1 DEF DrainAuth, CancelledLocal, CancelledRemote, Reconnect, Dropped, Adopted
  <1>9. CASE SessionStep
    BY <1>4, <1>9 DEF SessionStep, Stop, AuthStopped, JobsStopped, SignersStopped, BeginStop, Boot, Crash,
                      OtherSecretSaved
  <1>10. CASE UserStep
    BY <1>3, <1>4, <1>10 DEF UserStep, Ask, NewJob, OpenPane, CancelAuth, ClosePane, StartAuth
  <1> QED BY <1>5, <1>6, <1>7, <1>8, <1>9, <1>10, NextSteps

LEMMA FileInit == Init => FileInv
  BY DEF Init, FileInv, AuthForm, AuthJoined, Forgetters, Fine, SignerFine, LeaveFine, LoginFine,
         DirtyFine, Dirty, NoSigner, InFlight

LEMMA FileStep == IInv /\ FileInv /\ [Next]_vars => FileInv'
  <1>1. ASSUME IInv, FileInv, Next PROVE FileInv'
    <2>1. AuthForm' /\ AuthJoined' /\ Forgetters'
      BY <1>1, AuthFormKept, AuthJoinedKept, ForgettersKept DEF FileInv
    <2>2. ASSUME NEW a \in Remote, a \notin raced' PROVE Fine(a)'
      <3>1. CASE UserStep
        BY <1>1, <2>2, <3>1, UserFine
      <3>2. CASE ~UserStep
        <4>1. a \notin raced
          BY <1>1, <2>2, <3>2, NextSteps
             DEF WorkerStep, Join, CallOther, CallLeave, Forget, AttachStep, PersistStep,
                 TickStep, DrainJob, AttachDrained, PersistDrained, PersistStarts,
                 AuthWorker, AuthFails, FreePrevious, RemoteLogin, StoreLogin,
                 SignOutAgain, ForgetLogin, LocalLogin, Connected,
                 DrainAuth, CancelledLocal, CancelledRemote, Reconnect, Dropped, Adopted,
                 SessionStep, Stop, AuthStopped, JobsStopped, SignersStopped, BeginStop, Boot, Crash,
                 OtherSecretSaved, history
        <4>2. CASE WorkerStep
          BY <1>1, <4>1, <4>2, JobWorkerFine, SignerThreadFine DEF WorkerStep
        <4> QED BY <1>1, <3>2, <4>1, <4>2, NextSteps, TickFine, AuthWorkerFine, DrainAuthFine, SessionFine
      <3> QED BY <3>1, <3>2
    <2> QED BY <2>1, <2>2 DEF FileInv
  <1>2. ASSUME FileInv, UNCHANGED vars PROVE FileInv'
    <2>1. AuthForm' /\ AuthJoined' /\ Forgetters'
      BY <1>2 DEF FileInv, AuthForm, AuthJoined, Forgetters, vars
    <2>2. ASSUME NEW a \in Remote, a \notin raced' PROVE Fine(a)'
      BY <1>2, <2>2, LikeSame, FineKept DEF FileInv, vars, vault
    <2> QED BY <2>1, <2>2 DEF FileInv
  <1> QED BY <1>1, <1>2

LEMMA FileInductive == Spec => [](IInv /\ FileInv)
  BY InitOK, StepOK, FileInit, FileStep, PTL DEF Spec

\* The record of a registered signer of an account that is signed in is in the file, for
\* any number of accounts and sessions.
THEOREM RecordSaved == Spec => []RegisteredIsSaved
  <1>1. FileInv => RegisteredIsSaved
    BY DEF FileInv, Fine, SignerFine, Idle, Safe, RegisteredIsSaved
  <1> QED BY <1>1, FileInductive, PTL

\* A record that comes to the file comes by a write of its own, of an account that is
\* signed in, or by one that brings along what a failed save left in memory.
LEMMA ArrivesFine ==
  ASSUME IInv, FileInv, Next, NEW a \in Remote, a \notin raced, ~desc[a], desc'[a]
  PROVE  store[a] = "in" \/ Forgetting(a)
  <1>a. Fine(a) /\ AuthForm /\ AuthJoined /\ TypeOK
    BY DEF FileInv, IInv, TypeInv
  <1>b. Dirty(a) => store[a] = "in" \/ Forgetting(a)
    BY <1>a DEF Fine, DirtyFine, LoginFine, Forgetting, At, InFlight
  <1>c. \A b \in Remote : b \in Accounts
    BY DEF Accounts
  <1>1. ASSUME NEW b \in Accounts, UNCHANGED unlocked, Stored(b) \/ StoreFails(b) \/ Removed(b)
        PROVE  Dirty(a) \/ (a = b /\ Stored(b))
    BY <1>1, <1>a, FileWrites
  <1>2. desc' # desc
    OBVIOUS
  <1>3. CASE WorkerStep
    <2>1. ASSUME NEW j \in jobs, Join(j) \/ CallOther(j) \/ CallLeave(j) \/ Forget(j) PROVE Dirty(a)
      <3>1. Removed(j.acct) /\ UNCHANGED unlocked /\ j.acct \in Accounts
        BY <1>2, <1>a, <2>1 DEF Join, CallOther, CallLeave, Forget, disk, vault, TypeOK, Job
      <3> QED BY <1>a, <3>1, FileWrites
    <2>2. ASSUME NEW b \in Remote, AttachStep(b) \/ PersistStep(b)
          PROVE  Dirty(a) \/ store[a] = "in"
      <3>1. PICK s \in Signers(b) \ {None} : ~Quiet(s)
        BY <2>2 DEF AttachStep, PersistStep, Quiet
      <3>2. UNCHANGED unlocked /\ (Stored(b) \/ StoreFails(b))
        BY <1>2, <2>2 DEF AttachStep, PersistStep
      <3>3. CASE a = b
        <4>1. CASE s = signer[a]
          BY <1>a, <3>1, <3>3, <4>1 DEF Fine, SignerFine, Idle
        <4>2. CASE InFlight(a) /\ s = auth.prev
          BY <1>a, <3>1, <3>3, <4>2 DEF Fine, LoginFine
        <4> QED BY <3>1, <3>3, <4>1, <4>2 DEF Signers
      <3> QED BY <1>1, <1>c, <3>2, <3>3
    <2> QED BY <1>3, <1>b, <2>1, <2>2 DEF WorkerStep
  <1>4. CASE AuthWorker
    <2>1. auth # None /\ UNCHANGED unlocked
      BY <1>4 DEF AuthWorker, AuthFails, FreePrevious, RemoteLogin, StoreLogin, SignOutAgain, ForgetLogin,
                  LocalLogin, Connected, At, disk, vault
    <2>2. /\ \/ auth.stage = "free" /\ auth.prev # None
             \/ auth.stage \in {"store", "forget"}
          /\ Stored(auth.acct) \/ StoreFails(auth.acct) \/ Removed(auth.acct)
      BY <1>2, <1>4 DEF AuthWorker, AuthFails, FreePrevious, RemoteLogin, StoreLogin, SignOutAgain, ForgetLogin,
                        LocalLogin, Connected, At, disk, vault
    <2>3. auth.acct \in Accounts
      BY <1>a, <1>c, <2>1, <2>2, AuthStands
    <2>4. CASE a = auth.acct
      BY <1>a, <2>1, <2>2, <2>4 DEF Fine, LoginFine, InFlight, Forgetting, At
    <2> QED BY <1>1, <1>b, <2>1, <2>2, <2>3, <2>4
  <1>5. CASE TickStep \/ DrainAuth \/ UserStep
    BY <1>2, <1>5 DEF TickStep, DrainJob, AttachDrained, PersistDrained, PersistStarts,
                      DrainAuth, CancelledLocal, CancelledRemote, Reconnect, Dropped, Adopted,
                      UserStep, Ask, OpenPane, CancelAuth, ClosePane, StartAuth, disk, vault
  <1>6. CASE SessionStep
    <2>1. SignersStopped \/ OtherSecretSaved
      BY <1>2, <1>6 DEF SessionStep, Stop, AuthStopped, JobsStopped, BeginStop, Boot, Crash, disk, vault
    <2>2. CASE SignersStopped
      <3>1. PICK saved \in SUBSET SavedAll : desc' = [b \in Remote |-> mem[b] \/ b \in saved]
        BY <1>2, <2>2 DEF SignersStopped
      <3>2. CASE a \in saved
        BY <1>a, <3>2 DEF SavedAll, Fine, SignerFine, Idle, Safe
      <3> QED BY <1>b, <3>1, <3>2 DEF Dirty
    <2>3. CASE OtherSecretSaved
      BY <1>b, <2>3 DEF OtherSecretSaved, Dirty
    <2> QED BY <2>1, <2>2, <2>3
  <1> QED BY <1>3, <1>4, <1>5, <1>6, NextSteps

\* After a departure no late writer brings the record of the signer back, for any number
\* of accounts, threads and sessions.
THEOREM NoLateRecord == Spec => NoLateWriter
  <1>1. ASSUME IInv, FileInv, [Next]_vars
        PROVE  [\A a \in Remote \ raced : ~desc[a] /\ desc'[a] => store[a] = "in" \/ Forgetting(a)]_vars
    BY <1>1, ArrivesFine
  <1> QED BY <1>1, FileInductive, PTL DEF Spec, NoLateWriter

-----------------------------------------------------------------------------
(* The account on screen.                                                  *)

\* An account that may be shown: it is signed in, or the frame loop is yet to drain what
\* signed it out, or the sign-in worker undid a login to it.
Shown(a) == store[a] = "in" \/ Left(a) \/ a \in cut
Switched(j) == j.kind = "switch" /\ j.ok
CurInv ==
  /\ cur # None => phase = "run" /\ cur \in Accounts /\ Shown(cur)
  /\ \A j \in jobs : Switched(j) => store[j.acct] = "in" \/ j.acct \in cut

\* A step that signs no account out but by a departure or an undone login, and ends no
\* switch of an account that is not signed in.
Stays ==
  /\ \A a \in Accounts : store[a] = "in" \/ a \in cut => Shown(a)'
  /\ \A k \in jobs' : Switched(k) =>
       store'[k.acct] = "in" \/ \E j \in jobs : Switched(j) /\ j.acct = k.acct

LEMMA SwitchesKept ==
  ASSUME IInv, IInv', CurInv, Stays
  PROVE  (\A j \in jobs : Switched(j) => store[j.acct] = "in" \/ j.acct \in cut)'
  <1> SUFFICES ASSUME NEW k \in jobs', Switched(k) PROVE store'[k.acct] = "in" \/ k.acct \in cut'
    BY DEF Switched
  <1>1. CASE \E j \in jobs : Switched(j) /\ j.acct = k.acct
    <2>1. k.acct \in Accounts
      BY <1>1 DEF IInv, TypeInv, TypeOK, Job
    <2>2. Shown(k.acct)'
      BY <1>1, <2>1 DEF CurInv, Stays
    <2>3. ~Left(k.acct)'
      BY DEF IInv, JobInv, OneJobEach, Left, Leaving, Switched
    <2> QED BY <2>2, <2>3 DEF Shown
  <1> QED BY <1>1 DEF Stays

\* The screen stays as it is, and so does what it waits for.
LEMMA CurKept ==
  ASSUME IInv, IInv', CurInv, Stays, UNCHANGED <<cur, phase>>,
         \A a \in Accounts : Left(a) => Left(a)'
  PROVE  CurInv'
  <1>1. \A a \in Accounts : Shown(a) => Shown(a)'
    BY DEF Shown, Stays
  <1> QED BY <1>1, SwitchesKept DEF CurInv

\* The screen shows another account, or none.
LEMMA CurNew ==
  ASSUME IInv, IInv', CurInv, Stays,
         cur' # None => phase' = "run" /\ cur' \in Accounts /\ (store[cur'] = "in" \/ cur' \in cut)
  PROVE  CurInv'
  <1>1. cur' # None => Shown(cur)'
    BY DEF Stays, Shown, Left
  <1> QED BY <1>1, SwitchesKept DEF CurInv

LEMMA StaysAlone ==
  ASSUME UNCHANGED <<store, cut>>, \A k \in jobs' : k \in jobs \/ ~k.ok
  PROVE  Stays
  BY DEF Stays, Shown, Switched

LEMMA NewJobLeft ==
  ASSUME NEW kind \in Kind, NEW b \in Accounts, NEW ss, NewJobOver(kind, b, ss)
  PROVE  (\A k \in jobs' : k \in jobs \/ ~k.ok) /\ \A a \in Accounts : Left(a) => Left(a)'
  <1>1. jobs' = jobs \/ jobs' = jobs \cup {Started(kind, b)}
    BY DEF NewJobOver
  <1>2. ~Started(kind, b).ok
    BY DEF Started
  <1> QED BY <1>1, <1>2 DEF Left

LEMMA WorkerShown ==
  ASSUME IInv, IInv', CurInv, WorkerStep
  PROVE  CurInv'
  <1>a. store \in [Accounts -> {"absent", "out", "in"}] /\ jobs \subseteq Job
    BY DEF IInv, TypeInv, TypeOK
  <1>1. ASSUME NEW b \in Remote, AttachStep(b) \/ PersistStep(b) PROVE CurInv'
    <2>1. UNCHANGED <<store, cut, jobs, cur, phase>>
      BY <1>1 DEF AttachStep, PersistStep, screen, life, history
    <2>2. Stays /\ \A a \in Accounts : Left(a) => Left(a)'
      BY <2>1, StaysAlone DEF Left
    <2> QED BY <2>1, <2>2, CurKept
  <1>2. ASSUME NEW j \in jobs, Join(j) \/ CallOther(j) \/ CallLeave(j) \/ Forget(j) PROVE CurInv'
    <2>1. UNCHANGED <<cut, cur, phase>> /\ j \in Job /\ j.acct \in Accounts
      BY <1>2, <1>a DEF Join, CallOther, CallLeave, Forget, screen, life, history, Job
    <2>3. PICK k : /\ Advance(j, k) /\ k.acct = j.acct /\ k.kind = j.kind /\ (j.ok => k.ok)
                   /\ \/ UNCHANGED store /\ k.ok = j.ok
                      \/ j.kind = "switch" /\ store' = [store EXCEPT ![j.acct] = "in"]
                      \/ Leaving(j) /\ k.ok /\ \E st \in {"absent", "out"} : store' = [store EXCEPT ![j.acct] = st]
      <3>1. CASE Join(j)
        BY <2>1, <3>1 DEF Join, Job, disk
      <3>2. CASE CallOther(j)
        <4>1. CASE j.kind = "switch" /\ Advance(j, [j EXCEPT !.stage = "done", !.ok = TRUE])
                   /\ store' = [store EXCEPT ![j.acct] = "in"]
          <5> DEFINE k == [j EXCEPT !.stage = "done", !.ok = TRUE]
          <5>1. k.acct = j.acct /\ k.kind = j.kind /\ k.ok
            BY <2>1 DEF Job
          <5>2. Advance(j, k)
            BY <4>1
          <5> HIDE DEF k
          <5> QED BY <4>1, <5>1, <5>2
        <4>2. CASE Advance(j, [j EXCEPT !.stage = "done"]) /\ UNCHANGED store
          BY <2>1, <4>2 DEF Job
        <4> QED BY <3>2, <4>1, <4>2 DEF CallOther
      <3>3. CASE CallLeave(j)
        <4>1. CASE /\ Advance(j, [j EXCEPT !.stage = "forget", !.ok = TRUE])
                   /\ \E st \in {"absent", "out"} : store' = [store EXCEPT ![j.acct] = st]
          <5> DEFINE k == [j EXCEPT !.stage = "forget", !.ok = TRUE]
          <5>1. k.acct = j.acct /\ k.kind = j.kind /\ k.ok
            BY <2>1 DEF Job
          <5>2. Leaving(j)
            BY <3>3 DEF CallLeave
          <5>3. Advance(j, k)
            BY <4>1
          <5> HIDE DEF k
          <5> QED BY <4>1, <5>1, <5>2, <5>3
        <4>2. CASE Advance(j, [j EXCEPT !.stage = "done"]) /\ UNCHANGED store
          BY <2>1, <4>2 DEF Job
        <4> QED BY <3>3, <4>1, <4>2 DEF CallLeave
      <3>4. CASE Forget(j)
        BY <2>1, <3>4 DEF Forget, Job
      <3> QED BY <1>2, <3>1, <3>2, <3>3, <3>4
    <2>4. jobs' = (jobs \ {j}) \cup {k}
      BY <2>3 DEF Advance
    <2>5. Leaving(k) <=> Leaving(j)
      BY <2>3 DEF Leaving
    <2>6. \A a \in Accounts : Left(a) => Left(a)'
      BY <2>3, <2>4, <2>5 DEF Left, Leaving
    <2>7. \A a \in Accounts : store[a] = "in" \/ a \in cut => Shown(a)'
      <3>1. \A a \in Accounts : a # j.acct => store'[a] = store[a]
        BY <1>a, <2>3
      <3>2. Leaving(j) /\ k.ok => Left(j.acct)'
        BY <2>3, <2>4, <2>5 DEF Left, Leaving
      <3>3. store' = [store EXCEPT ![j.acct] = "in"] => store'[j.acct] = "in"
        BY <1>a, <2>1
      <3> QED BY <2>1, <2>3, <3>1, <3>2, <3>3 DEF Shown
    <2>8. Switched(k) => store'[k.acct] = "in" \/ Switched(j)
      <3>1. j.kind = "switch" => ~Leaving(j)
        BY DEF Leaving
      <3> QED BY <1>a, <2>1, <2>3, <3>1 DEF Switched
    <2>9. Stays
      BY <2>3, <2>4, <2>7, <2>8 DEF Stays
    <2> QED BY <2>1, <2>6, <2>9, CurKept
  <1> QED BY <1>1, <1>2 DEF WorkerStep

LEMMA TickShown ==
  ASSUME IInv, IInv', CurInv, TickStep
  PROVE  CurInv'
  <1>0. UNCHANGED <<store, cut, phase>> /\ phase = "run"
    BY DEF TickStep, DrainJob, AttachDrained, PersistDrained, PersistStarts, disk, life, history
  <1>1. ASSUME NEW b \in Remote, AttachDrained(b) \/ PersistDrained(b) \/ PersistStarts(b) PROVE CurInv'
    <2>1. jobs' = jobs \/ \E ss : NewJobOver("switch", b, ss)
      BY <1>1 DEF AttachDrained, PersistDrained, PersistStarts
    <2>2. "switch" \in Kind /\ b \in Accounts
      BY DEF Kind, Accounts
    <2>3. (\A k \in jobs' : k \in jobs \/ ~k.ok) /\ \A a \in Accounts : Left(a) => Left(a)'
      BY <2>1, <2>2, NewJobLeft DEF Left
    <2>4. UNCHANGED cur
      BY <1>1 DEF AttachDrained, PersistDrained, PersistStarts, screen
    <2> QED BY <1>0, <2>3, <2>4, StaysAlone, CurKept
  <1>2. ASSUME NEW j \in jobs, DrainJob(j) PROVE CurInv'
    <2>1. jobs' = jobs \ {j} /\ j.acct \in Accounts
      BY <1>2 DEF DrainJob, IInv, TypeInv, TypeOK, Job
    <2>2. Stays
      BY <1>0, <2>1, StaysAlone
    <2>3. CASE Leaving(j) /\ j.ok
      <3>1. AfterLogin(IF cur = j.acct THEN None ELSE cur)
        BY <1>2, <2>3 DEF DrainJob, Leaving
      <3>2. cur' # None => cur' \in SignedIn
        BY <3>1 DEF AfterLogin
      <3> QED BY <1>0, <2>2, <3>2, CurNew DEF SignedIn
    <2>4. CASE j.kind = "switch" /\ j.ok
      <3>1. cur' = j.acct
        BY <1>2, <2>4 DEF DrainJob, Leaving
      <3> QED BY <1>0, <2>1, <2>2, <2>4, <3>1, CurNew DEF CurInv, Switched
    <2>5. CASE ~(Leaving(j) /\ j.ok) /\ ~(j.kind = "switch" /\ j.ok)
      <3>1. UNCHANGED cur
        BY <1>2, <2>5 DEF DrainJob, screen
      <3>2. \A a \in Accounts : Left(a) => Left(a)'
        BY <2>1, <2>5 DEF Left
      <3> QED BY <1>0, <2>2, <3>1, <3>2, CurKept
    <2> QED BY <2>3, <2>4, <2>5
  <1> QED BY <1>1, <1>2 DEF TickStep

LEMMA AuthShown ==
  ASSUME IInv, IInv', CurInv, AuthWorker
  PROVE  CurInv'
  <1>1. UNCHANGED <<jobs, cur, phase>>
    BY DEF AuthWorker, AuthFails, FreePrevious, RemoteLogin, StoreLogin, SignOutAgain, ForgetLogin,
           LocalLogin, Connected, screen, life
  <1>2. store \in [Accounts -> {"absent", "out", "in"}]
    BY DEF IInv, TypeInv, TypeOK
  <1>3. \/ UNCHANGED <<store, cut>>
        \/ \E a : store' = [store EXCEPT ![a] = "in"] /\ cut \subseteq cut' \cup {a}
        \/ \E a : store' = [store EXCEPT ![a] = "out"] /\ cut' = cut \cup {a}
    BY DEF AuthWorker, AuthFails, FreePrevious, RemoteLogin, StoreLogin, SignOutAgain, ForgetLogin,
           LocalLogin, Connected, disk, history
  <1>4. \A a \in Accounts : store[a] = "in" \/ a \in cut => store'[a] = "in" \/ a \in cut'
    BY <1>2, <1>3
  <1>5. Stays /\ \A a \in Accounts : Left(a) => Left(a)'
    BY <1>1, <1>4 DEF Stays, Shown, Left
  <1> QED BY <1>1, <1>5, CurKept

LEMMA LoopShown ==
  ASSUME IInv, IInv', CurInv, DrainAuth \/ UserStep
  PROVE  CurInv'
  <1>0. UNCHANGED <<store, cut, phase>> /\ phase = "run"
    BY DEF DrainAuth, CancelledLocal, CancelledRemote, Reconnect, Dropped, Adopted, Drained,
           UserStep, Ask, OpenPane, CancelAuth, ClosePane, StartAuth, Using, AtLogin, disk, life, history
  <1>1. (\A k \in jobs' : k \in jobs \/ ~k.ok) /\ \A a \in Accounts : Left(a) => Left(a)'
    <2>1. CASE jobs' = jobs
      BY <2>1 DEF Left
    <2>2. CASE \E kind \in Kind, b \in Accounts : NewJob(kind, b)
      BY <2>2, NewJobLeft DEF NewJob
    <2>3. CancelledLocal /\ Unwanted(auth) => auth.acct \in Accounts
      BY DEF CancelledLocal, Drained, At, Unwanted, IInv, TypeInv, TypeOK, Auth
    <2> QED BY <2>1, <2>2, <2>3
            DEF DrainAuth, CancelledLocal, CancelledRemote, Reconnect, Dropped, Adopted,
                UserStep, Ask, OpenPane, CancelAuth, ClosePane, StartAuth, Kind
  <1>2. Stays
    BY <1>0, <1>1, StaysAlone
  <1>3. CASE Adopted
    <2>1. cur' # None => cur' \in SignedIn
      BY <1>3 DEF Adopted, AfterLogin
    <2> QED BY <1>0, <1>2, <2>1, CurNew DEF SignedIn
  <1>4. CASE UNCHANGED cur
    BY <1>0, <1>1, <1>2, <1>4, CurKept
  <1> QED BY <1>3, <1>4 DEF DrainAuth, CancelledLocal, CancelledRemote, Reconnect, Dropped,
                             UserStep, Ask, OpenPane, CancelAuth, ClosePane, StartAuth, screen

LEMMA SessionShown ==
  ASSUME IInv, IInv', CurInv, SessionStep
  PROVE  CurInv'
  <1>1. UNCHANGED <<store, cut>> /\ jobs' \subseteq jobs
    BY DEF SessionStep, Stop, AuthStopped, JobsStopped, SignersStopped, BeginStop, Boot, Crash,
           OtherSecretSaved, disk, history
  <1>2. Stays
    BY <1>1, StaysAlone
  <1>3. CASE Boot
    <2>1. phase' = "run" /\ \E active : AfterLogin(active)
      BY <1>3 DEF Boot
    <2>2. cur' # None => cur' \in SignedIn
      BY <2>1 DEF AfterLogin
    <2> QED BY <1>2, <2>1, <2>2, CurNew DEF SignedIn
  <1>4. CASE OtherSecretSaved
    BY <1>2, <1>4, CurKept DEF OtherSecretSaved, screen, life, Left
  <1>5. CASE cur' = None
    BY <1>2, <1>5, CurNew
  <1>6. CASE AuthStopped \/ JobsStopped \/ SignersStopped
    <2>1. phase # "run" /\ UNCHANGED cur
      BY <1>6 DEF AuthStopped, JobsStopped, SignersStopped, screen
    <2> QED BY <1>5, <2>1 DEF CurInv
  <1> QED BY <1>3, <1>4, <1>5, <1>6 DEF SessionStep, Stop, BeginStop, Crash

LEMMA CurInductive == Spec => [](IInv /\ CurInv)
  <1>1. Init => CurInv
    BY DEF Init, CurInv
  <1>2. ASSUME IInv, IInv', CurInv, Next PROVE CurInv'
    BY <1>2, NextSteps, WorkerShown, TickShown, AuthShown, LoopShown, SessionShown
  <1>3. CurInv /\ UNCHANGED vars => CurInv'
    BY DEF CurInv, Switched, Shown, Left, vars
  <1>4. IInv /\ CurInv /\ [Next]_vars => IInv' /\ CurInv'
    BY <1>2, <1>3, StepOK
  <1> QED BY <1>1, <1>4, InitOK, PTL DEF Spec

\* The account on screen is signed in, or the frame loop is yet to hear that it left, for
\* any number of accounts and sessions.
THEOREM CurrentKept == Spec => []CurrentIsSignedIn
  <1>1. CurInv => CurrentIsSignedIn
    BY DEF CurInv, Shown, Left, Departing, CurrentIsSignedIn
  <1> QED BY <1>1, CurInductive, PTL
=============================================================================
