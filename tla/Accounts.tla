------------------------------ MODULE Accounts ------------------------------
(***************************************************************************)
(* The accounts of a session: the account jobs (app/account_worker.odin),  *)
(* the remote signers (app/nip46.odin), the sign-in worker                 *)
(* (app/workers.odin) and the part of a session's end that joins them      *)
(* (app/vault_session.odin).  Marmot's account store and the vault are     *)
(* external; of the vault (Vault.tla) only the nip46:<account> records in  *)
(* memory and in the file matter here, and whether it is unlocked.         *)
(*                                                                         *)
(* The frame loop starts and drains the workers; every marmot or vault     *)
(* call of a worker is a step of its own, and succeeds or fails.  The      *)
(* loop's drains and the user's input are taken in any order.              *)
(***************************************************************************)
EXTENDS Naturals, FiniteSets

CONSTANTS
  Local,      \* identities that sign with a key in marmot's store
  Remote,     \* identities that sign through a NIP-46 signer
  None,       \* no account, no signer, no sign-in
  MaxStarts   \* bound on sessions in a behaviour

Accounts == Local \cup Remote

Signer == [attach: {"none", "connect", "store", "register", "done"}, registered: BOOLEAN,
           wanted: BOOLEAN, persist: {"none", "store", "done"}]
Kind   == {"switch", "leave", "remove", "sign", "read"}
Job    == [acct: Accounts, kind: Kind, signer: BOOLEAN, stage: {"join", "call", "forget", "done"},
           ok: BOOLEAN]
Auth   == [method: {"import", "create", "remote"}, acct: Accounts \cup {None},
           stage: {"call", "connect", "free", "login", "store", "undo", "signout",
                   "forget", "done"},
           cancelled: BOOLEAN, login: BOOLEAN, prev: Signer \cup {None}, err: BOOLEAN,
           prior: SUBSET Local]

ASSUME AccountsAssumption ==
  /\ Local \cap Remote = {}
  /\ None \notin Accounts \cup Signer \cup Auth
  /\ MaxStarts \in Nat

VARIABLES
  store,    \* marmot's accounts: "absent", "out" (signed out) or "in"
  desc,     \* desc[a]: the vault file holds nip46:<a>
  mem,      \* mem[a]: the vault's map in memory holds it
  unlocked, \* the vault is open
  signer,   \* nip46_accounts
  jobs,     \* account_jobs
  auth,     \* auth_job and its worker
  rows,     \* ui.accounts, the accounts the user can see
  cur,      \* ui.account_ref
  pane,     \* ui.add_account_open
  phase,    \* "run", the joins of the session's end, or "closed"
  starts,   \* history: sessions started
  raced,    \* history: accounts told to leave while a login to them was in flight
  cut       \* history: accounts the sign-in worker signed out again

vars == <<store, desc, mem, unlocked, signer, jobs, auth, rows, cur, pane, phase, starts, raced, cut>>
vault == <<desc, mem, unlocked>>
disk == <<store, vault>>
screen == <<rows, cur, pane>>
life == <<phase, starts>>
history == <<raced, cut>>

NoSigner == [a \in Remote |-> None]
NewSigner(wanted) ==
  [attach |-> "connect", registered |-> FALSE, wanted |-> wanted, persist |-> "none"]
SignerOf(a) == IF a \in Remote THEN signer[a] ELSE None
Leaving(j) == j.kind \in {"leave", "remove"}
Busy(a) == \E j \in jobs : j.acct = a
Departing(a) == \E j \in jobs : j.acct = a /\ Leaving(j)
SignedIn == {a \in Accounts : store[a] = "in"}
InFlight(a) == auth # None /\ auth.acct = a

Init ==
  /\ store \in [Accounts -> {"absent", "out", "in"}]
  /\ desc \in [Remote -> BOOLEAN]
  /\ mem = [a \in Remote |-> FALSE] /\ unlocked = FALSE
  /\ signer = NoSigner /\ jobs = {} /\ auth = None
  /\ rows = {} /\ cur = None /\ pane = FALSE
  /\ phase = "closed" /\ starts = 0
  /\ raced = {} /\ cut = {}

-----------------------------------------------------------------------------
(* Starting account jobs.                                                  *)

\* after_login: the accounts are listed anew, the one asked for becomes current if it is
\* signed in, else the first one.
AfterLogin(active) ==
  /\ rows' = SignedIn /\ pane' = FALSE
  /\ cur' \in IF active \in SignedIn THEN {active}
              ELSE IF SignedIn = {} THEN {None} ELSE SignedIn

\* A new switch forgets the ones that wait for their signer, also when it is refused.
ForgotWanted(kind) ==
  IF kind # "switch" THEN signer
  ELSE [a \in Remote |-> IF signer[a] = None THEN None ELSE [signer[a] EXCEPT !.wanted = FALSE]]

Occupied(kind, a) ==
  \E j \in jobs : j.acct = a \/ (kind = "switch" /\ j.kind = "switch")

\* Switching and the operations that sign need the account's signer attached.
Unattached(kind, s) ==
  /\ kind \in {"switch", "sign"}
  /\ s # None
  /\ s.attach # "none" \/ ~s.registered

Started(kind, a) ==
  [acct |-> a, kind |-> kind, signer |-> SignerOf(a) # None,
   stage |-> IF kind \in {"leave", "remove"} THEN "join" ELSE "call", ok |-> FALSE]

\* account_job_new and account_job_start, over the signers the caller left.
NewJobOver(kind, a, signers) ==
  LET s == IF a \in Remote THEN signers[a] ELSE None IN
  IF Occupied(kind, a)
  THEN signer' = signers /\ UNCHANGED jobs
  ELSE IF Unattached(kind, s)
  THEN /\ signer' = IF kind # "switch" THEN signers
                    ELSE [signers EXCEPT ![a].wanted = TRUE,
                                         ![a].attach = IF @ = "none" THEN "connect" ELSE @]
       /\ UNCHANGED jobs
  ELSE signer' = signers /\ jobs' = jobs \cup {Started(kind, a)}

NewJob(kind, a) == NewJobOver(kind, a, ForgotWanted(kind))

\* What the user asks for outside the login pane.
Using == phase = "run" /\ rows # {} /\ ~pane

Ask(kind, a) ==
  /\ Using
  /\ CASE kind = "switch" -> a \in rows \ {cur}
       [] kind \in {"sign", "read"} -> a = cur
       [] OTHER           -> a \in rows
  /\ NewJob(kind, a)
  /\ raced' = IF kind \in {"leave", "remove"} /\ InFlight(a) /\ auth.login
              THEN raced \cup {a} ELSE raced
  /\ UNCHANGED <<disk, auth, screen, life, cut>>

-----------------------------------------------------------------------------
(* The vault: a write saves all that memory holds, and may fail.           *)

\* nip46_store finds the same descriptor in memory, or writes it.
Stored(a) ==
  \/ mem[a] /\ UNCHANGED <<mem, desc>>
  \/ unlocked /\ mem' = [mem EXCEPT ![a] = TRUE] /\ desc' = mem'
\* It fails before or after the map was changed, for lack of a descriptor, of an unlocked
\* vault or of a file to write to.
StoreFails(a) ==
  /\ UNCHANGED mem \/ (unlocked /\ mem' = [mem EXCEPT ![a] = TRUE])
  /\ UNCHANGED desc
\* vault_remove: a record that is not in memory is not looked for in the file.
Removed(a) ==
  IF a \notin Remote \/ ~mem[a] THEN UNCHANGED <<mem, desc>>
  ELSE mem' = [mem EXCEPT ![a] = FALSE] /\ desc' \in {mem', desc}

\* Any other secret is saved.
OtherSecretSaved ==
  /\ unlocked /\ desc # mem /\ desc' = mem
  /\ UNCHANGED <<store, mem, unlocked, signer, jobs, auth, screen, life, history>>

-----------------------------------------------------------------------------
(* The worker of an account job.                                           *)

Advance(j, k) == jobs' = (jobs \ {j}) \cup {k}

\* Switch signs the account in again; the other operations leave the accounts alone,
\* whatever comes of them.
CallOther(j) ==
  /\ j \in jobs /\ j.stage = "call" /\ ~Leaving(j)
  /\ \/ /\ j.kind = "switch"
        /\ Advance(j, [j EXCEPT !.stage = "done", !.ok = TRUE])
        /\ store' = [store EXCEPT ![j.acct] = "in"]
     \/ /\ Advance(j, [j EXCEPT !.stage = "done"])
        /\ UNCHANGED store
  /\ UNCHANGED <<vault, signer, auth, screen, life, history>>

\* A signer none of whose threads runs any more.
Quiet(s) == s # None => s.attach \in {"none", "done"} /\ s.persist \in {"none", "done"}

\* Leaving joins the descriptor writers of the signer it found first.
Join(j) ==
  /\ j \in jobs /\ j.stage = "join"
  /\ j.signer => Quiet(signer[j.acct])
  /\ Advance(j, [j EXCEPT !.stage = "call"])
  /\ UNCHANGED <<disk, signer, auth, screen, life, history>>

CallLeave(j) ==
  /\ j \in jobs /\ j.stage = "call" /\ Leaving(j)
  /\ \/ /\ Advance(j, [j EXCEPT !.stage = "forget", !.ok = TRUE])
        /\ store' = [store EXCEPT ![j.acct] = IF j.kind = "remove" THEN "absent" ELSE "out"]
        /\ signer' = IF j.signer THEN [signer EXCEPT ![j.acct].registered = FALSE] ELSE signer
     \/ /\ Advance(j, [j EXCEPT !.stage = "done"])
        /\ UNCHANGED <<store, signer>>
  /\ UNCHANGED <<vault, auth, screen, life, history>>

\* The signer record leaves the vault.
Forget(j) ==
  /\ j \in jobs /\ j.stage = "forget"
  /\ Advance(j, [j EXCEPT !.stage = "done"])
  /\ Removed(j.acct)
  /\ UNCHANGED <<store, unlocked, signer, auth, screen, life, history>>

-----------------------------------------------------------------------------
(* The threads of a signer: the one in nip46_accounts, or the one a        *)
(* reconnection took out of it and is about to free.                       *)

Becomes(a, s, t) ==
  \/ s = signer[a] /\ signer' = [signer EXCEPT ![a] = t] /\ UNCHANGED auth
  \/ auth # None /\ auth.acct = a /\ s = auth.prev
     /\ auth' = [auth EXCEPT !.prev = t] /\ UNCHANGED signer

Signers(a) == {signer[a]} \cup (IF InFlight(a) THEN {auth.prev} ELSE {})

AttachStep(a) ==
  /\ \E s \in Signers(a) \ {None} :
       \/ /\ s.attach = "connect" /\ UNCHANGED <<mem, desc>>
          /\ \E next \in {"store", "done"} : Becomes(a, s, [s EXCEPT !.attach = next])
       \/ /\ s.attach = "store" /\ Stored(a)
          /\ Becomes(a, s, [s EXCEPT !.attach = "register"])
       \/ /\ s.attach = "store" /\ StoreFails(a)
          /\ Becomes(a, s, [s EXCEPT !.attach = "done"])
       \/ /\ s.attach = "register" /\ UNCHANGED <<mem, desc>>
          /\ \E ok \in BOOLEAN :
               Becomes(a, s, [s EXCEPT !.attach = "done", !.registered = ok \/ @])
  /\ UNCHANGED <<store, unlocked, jobs, screen, life, history>>

PersistStep(a) ==
  /\ \E s \in Signers(a) \ {None} :
       /\ s.persist = "store"
       /\ Becomes(a, s, [s EXCEPT !.persist = "done"])
  /\ Stored(a) \/ StoreFails(a)
  /\ UNCHANGED <<store, unlocked, jobs, screen, life, history>>

-----------------------------------------------------------------------------
(* The frame loop: nip46_tick and account_job_drain.                       *)

\* A finished attach of an account that is not leaving; a switch that waited for it
\* starts if the signer is registered.
AttachDrained(a) ==
  /\ phase = "run" /\ signer[a] # None /\ signer[a].attach = "done"
  /\ ~Departing(a)
  /\ LET idle == [signer EXCEPT ![a].attach = "none", ![a].wanted = FALSE]
         others == [b \in Remote |-> IF idle[b] = None THEN None
                                     ELSE [idle[b] EXCEPT !.wanted = FALSE]]
     IN  IF signer[a].wanted /\ signer[a].registered
         THEN NewJobOver("switch", a, others)
         ELSE signer' = idle /\ UNCHANGED jobs
  /\ UNCHANGED <<disk, auth, screen, life, history>>

PersistDrained(a) ==
  /\ phase = "run" /\ signer[a] # None /\ signer[a].persist = "done"
  /\ ~Departing(a)
  /\ signer' = [signer EXCEPT ![a].persist = "none"]
  /\ UNCHANGED <<disk, jobs, auth, screen, life, history>>

\* Every ten seconds the descriptor of a ready signer is saved again.
PersistAnyway(a) ==  \* mutant: a leaving account's descriptor is saved too
  /\ phase = "run" /\ signer[a] # None
  /\ signer[a].registered /\ signer[a].attach = "none" /\ signer[a].persist = "none"
  /\ signer' = [signer EXCEPT ![a].persist = "store"]
  /\ UNCHANGED <<disk, jobs, auth, screen, life, history>>
PersistStarts(a) ==
  /\ phase = "run" /\ signer[a] # None /\ ~Departing(a)
  /\ signer[a].registered /\ signer[a].attach = "none" /\ signer[a].persist = "none"
  /\ signer' = [signer EXCEPT ![a].persist = "store"]
  /\ UNCHANGED <<disk, jobs, auth, screen, life, history>>

\* A departed account's signer is freed and the accounts are listed anew.
DrainJobStays(j) ==  \* mutant: a departed account stays on screen
  /\ phase = "run" /\ j \in jobs /\ j.stage = "done"
  /\ jobs' = jobs \ {j}
  /\ signer' = IF Leaving(j) /\ j.ok /\ j.signer THEN [signer EXCEPT ![j.acct] = None] ELSE signer
  /\ rows' = SignedIn /\ UNCHANGED <<cur, pane>>
  /\ UNCHANGED <<disk, auth, life, history>>
DrainJob(j) ==
  /\ phase = "run" /\ j \in jobs /\ j.stage = "done"
  /\ jobs' = jobs \ {j}
  /\ signer' = IF Leaving(j) /\ j.ok /\ j.signer THEN [signer EXCEPT ![j.acct] = None] ELSE signer
  /\ CASE Leaving(j) /\ j.ok -> AfterLogin(IF cur = j.acct THEN None ELSE cur)
       [] j.kind = "switch" /\ j.ok -> cur' = j.acct /\ UNCHANGED <<rows, pane>>
       [] OTHER -> UNCHANGED screen
  /\ UNCHANGED <<disk, auth, life, history>>

-----------------------------------------------------------------------------
(* Signing in.                                                             *)

AtLogin == phase = "run" /\ (pane \/ rows = {})

OpenPane ==
  /\ Using
  /\ pane' = TRUE
  /\ UNCHANGED <<disk, signer, jobs, auth, rows, cur, life, history>>

\* start_auth and start_remote_auth: one sign-in at a time.
StartAuth(method) ==
  /\ AtLogin /\ auth = None
  /\ auth' = [method |-> method, acct |-> None,
              stage |-> IF method = "remote" THEN "connect" ELSE "call", cancelled |-> FALSE,
              login |-> FALSE, prev |-> None, err |-> FALSE,
              prior |-> IF method = "import" THEN rows \cap Local ELSE {}]
  /\ UNCHANGED <<disk, signer, jobs, screen, life, history>>

\* auth_cancel from the progress card, or from the rail, which also closes the pane.
CancelAuth ==
  /\ AtLogin /\ auth # None
  /\ auth' = [auth EXCEPT !.cancelled = TRUE]
  /\ pane' \in {pane, FALSE}
  /\ UNCHANGED <<disk, signer, jobs, rows, cur, life, history>>

ClosePane ==
  /\ phase = "run" /\ pane /\ auth = None
  /\ pane' = FALSE
  /\ UNCHANGED <<disk, signer, jobs, auth, rows, cur, life, history>>

\* auth_worker, one marmot or vault call at a time.
At(stage) == auth # None /\ auth.stage = stage

AuthFails ==
  /\ auth # None /\ auth.stage \in {"call", "connect", "login"}
  /\ auth' = [auth EXCEPT !.stage = "done", !.err = TRUE]
  /\ UNCHANGED <<disk, signer, jobs, screen, life, history>>

\* import_identity_blocking and create_identity_blocking: the identity is in the store,
\* whatever becomes of the profile and the relays they go on to publish.
LocalLogin(a) ==
  /\ At("call")
  /\ auth.method = "create" => store[a] = "absent"
  /\ auth' = [auth EXCEPT !.acct = a, !.stage = "done"]
  /\ store' = [store EXCEPT ![a] = "in"]
  /\ UNCHANGED <<vault, signer, jobs, screen, life, history>>

\* nip46_connect names the account.
Connected(a) ==
  /\ At("connect")
  /\ auth' = [auth EXCEPT !.acct = a, !.stage = "done"]
  /\ UNCHANGED <<disk, signer, jobs, screen, life, history>>

\* nip46_account_free of the signer a reconnection replaces: its threads are joined and
\* the descriptor of a registered one is saved a last time.
FreePrevious ==
  /\ At("free") /\ Quiet(auth.prev)
  /\ auth' = [auth EXCEPT !.stage = "login", !.prev = None]
  /\ IF auth.prev # None /\ auth.prev.registered
     THEN Stored(auth.acct) \/ StoreFails(auth.acct)
     ELSE UNCHANGED <<mem, desc>>
  /\ UNCHANGED <<store, unlocked, signer, jobs, screen, life, history>>

RemoteLogin ==
  /\ At("login")
  /\ auth' = [auth EXCEPT !.stage = "store"]
  /\ store' = [store EXCEPT ![auth.acct] = "in"]
  /\ cut' = cut \ {auth.acct}
  /\ UNCHANGED <<vault, signer, jobs, screen, life, raced>>

\* nip46_store; a login whose descriptor cannot be saved is undone.
StoreLoginAnyway ==  \* mutant: a login whose descriptor is lost is adopted
  /\ At("store")
  /\ Stored(auth.acct) \/ StoreFails(auth.acct)
  /\ auth' = [auth EXCEPT !.stage = "done"]
  /\ UNCHANGED <<store, unlocked, signer, jobs, screen, life, history>>
StoreLogin ==
  /\ At("store")
  /\ \/ Stored(auth.acct) /\ auth' = [auth EXCEPT !.stage = "done"]
     \/ StoreFails(auth.acct) /\ auth' = [auth EXCEPT !.stage = "undo"]
  /\ UNCHANGED <<store, unlocked, signer, jobs, screen, life, history>>

\* sign_out of an undone or cancelled login; what fails here is not tried again, and
\* the cancelled login whose sign_out fails keeps its descriptor.
SignOutAgain ==
  /\ At("undo") \/ At("signout")
  /\ \/ /\ auth.login
        /\ store' = [store EXCEPT ![auth.acct] = "out"]
        /\ auth' = [auth EXCEPT !.stage = "forget"]
        /\ cut' = cut \cup {auth.acct}
     \/ /\ UNCHANGED <<store, cut>>
        /\ auth' = IF auth.stage = "undo" THEN [auth EXCEPT !.stage = "forget"]
                   ELSE [auth EXCEPT !.stage = "done", !.err = TRUE]
  /\ UNCHANGED <<vault, signer, jobs, screen, life, raced>>

ForgetLogin ==
  /\ At("forget")
  /\ auth' = [auth EXCEPT !.stage = "done", !.err = TRUE]
  /\ Removed(auth.acct)
  /\ UNCHANGED <<store, unlocked, signer, jobs, screen, life, history>>

-----------------------------------------------------------------------------
(* drain_auth.                                                             *)

Drained == phase = "run" /\ At("done")

\* A cancelled import or creation: an identity the user did not have is signed out, a
\* new key is removed.
Unwanted(job) == job.acct # None /\ job.acct \notin job.prior
CancelledLocal ==
  /\ Drained /\ auth.cancelled /\ auth.method # "remote"
  /\ auth' = None
  /\ IF Unwanted(auth)
     THEN NewJob(IF auth.method = "create" THEN "remove" ELSE "leave", auth.acct)
     ELSE UNCHANGED <<signer, jobs>>
  /\ UNCHANGED <<disk, screen, life, history>>

\* A cancelled connection that succeeded all the same: a second pass undoes it.
CancelledRemote ==
  /\ Drained /\ auth.cancelled /\ auth.method = "remote" /\ ~auth.err
  /\ auth' = [auth EXCEPT !.stage = "signout"]
  /\ UNCHANGED <<disk, signer, jobs, screen, life, history>>

\* The connection named an account: the old signer leaves nip46_accounts and the second
\* pass logs in, unless the account has a job.
ReconnectAnyway ==  \* mutant: the pending job is not looked for
  /\ Drained /\ ~auth.cancelled /\ auth.method = "remote" /\ ~auth.err /\ ~auth.login
  /\ auth' = [auth EXCEPT !.login = TRUE, !.stage = "free", !.prev = signer[auth.acct]]
  /\ signer' = [signer EXCEPT ![auth.acct] = None]
  /\ UNCHANGED <<disk, jobs, screen, life, history>>
Reconnect ==
  /\ Drained /\ ~auth.cancelled /\ auth.method = "remote" /\ ~auth.err /\ ~auth.login
  /\ IF Busy(auth.acct)
     THEN auth' = None /\ UNCHANGED signer
     ELSE /\ auth' = [auth EXCEPT !.login = TRUE, !.stage = "free", !.prev = signer[auth.acct]]
          /\ signer' = [signer EXCEPT ![auth.acct] = None]
  /\ UNCHANGED <<disk, jobs, screen, life, history>>

\* A failed sign-in, or a cancelled one that left nothing.
Dropped ==
  /\ Drained /\ auth.err /\ (auth.cancelled => auth.method = "remote")
  /\ auth' = None
  /\ UNCHANGED <<disk, signer, jobs, screen, life, history>>

\* finish_auth: the session becomes the account's signer and the account is shown.
Adopted ==
  /\ Drained /\ ~auth.cancelled /\ ~auth.err
  /\ auth.method = "remote" => auth.login
  /\ signer' = IF auth.method = "remote"
               THEN [signer EXCEPT ![auth.acct] = [attach |-> "none", registered |-> TRUE,
                                                   wanted |-> FALSE, persist |-> "none"]]
               ELSE signer
  /\ AfterLogin(auth.acct)
  /\ auth' = None
  /\ UNCHANGED <<disk, jobs, life, history>>

-----------------------------------------------------------------------------
(* Sessions.                                                               *)

\* boot_marmot, nip46_restore and nip46_attach_all: the app opens on the local account
\* used last, a remote one used last is switched to when its signer connects.
Boot ==
  /\ phase = "closed" /\ starts < MaxStarts
  /\ starts' = starts + 1 /\ phase' = "run" /\ unlocked' = TRUE /\ mem' = desc
  /\ \E restored \in SUBSET {a \in Remote : store[a] = "in" /\ desc[a]},
        last \in Accounts \cup {None} :
       /\ signer' = [a \in Remote |-> IF a \in restored THEN NewSigner(a = last) ELSE None]
       /\ IF Local \cap SignedIn = {} THEN AfterLogin(None)
          ELSE \E a \in Local \cap SignedIn :
                 (last \in Local \cap SignedIn => a = last) /\ AfterLogin(a)
  /\ UNCHANGED <<store, desc, jobs, auth, history>>

\* The frame loop ends and the screen is not read any more; Lock now wipes the vault
\* before the workers are joined.
BeginStop ==
  /\ phase = "run"
  /\ phase' = "stopping"
  /\ \/ UNCHANGED <<mem, unlocked>>
     \/ unlocked' = FALSE /\ mem' = [a \in Remote |-> FALSE]
  /\ rows' = {} /\ cur' = None /\ pane' = FALSE
  /\ UNCHANGED <<store, desc, signer, jobs, auth, starts, history>>

\* auth_stop and account_jobs_stop join their workers and free what they brought.
AuthStopped ==
  /\ phase = "stopping" /\ (auth = None \/ At("done"))
  /\ auth' = None /\ phase' = "jobs"
  /\ UNCHANGED <<disk, signer, jobs, screen, starts, history>>

JobsStopped ==
  /\ phase = "jobs" /\ \A j \in jobs : j.stage = "done"
  /\ jobs' = {} /\ phase' = "signers"
  /\ UNCHANGED <<disk, signer, auth, screen, starts, history>>

\* nip46_stop saves the descriptors of the registered signers; then vault_lock.
SavedAll == {a \in Remote : signer[a] # None /\ signer[a].registered}
SignersStopped ==
  /\ phase = "signers" /\ \A a \in Remote : Quiet(signer[a])
  /\ \/ UNCHANGED desc
     \/ /\ unlocked
        /\ \E saved \in SUBSET SavedAll \ {{}} : desc' = [a \in Remote |-> mem[a] \/ a \in saved]
  /\ signer' = NoSigner /\ unlocked' = FALSE /\ mem' = [a \in Remote |-> FALSE]
  /\ phase' = "closed"
  /\ UNCHANGED <<store, jobs, auth, screen, starts, history>>

\* The process dies.
Crash ==
  /\ phase # "closed"
  /\ signer' = NoSigner /\ jobs' = {} /\ auth' = None
  /\ unlocked' = FALSE /\ mem' = [a \in Remote |-> FALSE]
  /\ rows' = {} /\ cur' = None /\ pane' = FALSE
  /\ phase' = "closed"
  /\ UNCHANGED <<store, desc, starts, history>>

JobWorker(a) == \E j \in jobs : j.acct = a /\ (Join(j) \/ CallOther(j) \/ CallLeave(j) \/ Forget(j))
AuthWorker ==
  \/ AuthFails \/ FreePrevious \/ RemoteLogin \/ StoreLogin \/ SignOutAgain
  \/ ForgetLogin
  \/ \E a \in Local : LocalLogin(a)
  \/ \E a \in Remote : Connected(a)
DrainJobOf(a) == \E j \in jobs : j.acct = a /\ DrainJob(j)
DrainAuth == CancelledLocal \/ CancelledRemote \/ Reconnect \/ Dropped \/ Adopted
Stop == AuthStopped \/ JobsStopped \/ SignersStopped
User ==
  \/ \E kind \in Kind, a \in Accounts : Ask(kind, a)
  \/ OpenPane \/ CancelAuth \/ ClosePane
  \/ \E method \in {"import", "create", "remote"} : StartAuth(method)
  \/ BeginStop

Next ==
  \/ \E a \in Accounts : JobWorker(a) \/ DrainJobOf(a)
  \/ \E a \in Remote : AttachStep(a) \/ PersistStep(a)
  \/ \E a \in Remote : AttachDrained(a) \/ PersistDrained(a) \/ PersistStarts(a)
  \/ AuthWorker \/ DrainAuth \/ Stop \/ User
  \/ OtherSecretSaved \/ Boot \/ Crash

Spec == Init /\ [][Next]_vars

\* The frame loop keeps draining, every marmot and vault call returns and the end of a
\* session goes on once its joins are met.  Only nip46_connect may wait for ever, unless
\* nip46_cancel was called on its session.
Connecting(s) == s # None /\ s.attach = "connect"
ReturnsAlone(a) == ~Connecting(signer[a])  \* mutant: the end of a session cancels nothing
Returns(a) == phase # "run" \/ ~Connecting(signer[a])
ConnectReturns == IF At("connect") THEN auth.cancelled \/ phase # "run" ELSE TRUE
Fairness ==
  /\ \A a \in Accounts : WF_vars(JobWorker(a)) /\ WF_vars(DrainJobOf(a))
  /\ \A a \in Remote : /\ WF_vars(Returns(a) /\ AttachStep(a)) /\ WF_vars(PersistStep(a))
                       /\ WF_vars(AttachDrained(a)) /\ WF_vars(PersistDrained(a))
  /\ WF_vars(ConnectReturns /\ AuthWorker) /\ WF_vars(DrainAuth) /\ WF_vars(Stop)
FairSpec == Spec /\ Fairness

-----------------------------------------------------------------------------
TypeOK ==
  /\ store \in [Accounts -> {"absent", "out", "in"}]
  /\ desc \in [Remote -> BOOLEAN]
  /\ mem \in [Remote -> BOOLEAN]
  /\ unlocked \in BOOLEAN
  /\ ~unlocked => \A a \in Remote : ~mem[a]
  /\ signer \in [Remote -> Signer \cup {None}]
  /\ jobs \subseteq Job
  /\ auth \in Auth \cup {None}
  /\ auth # None /\ auth.stage \notin {"call", "connect", "done"} => auth.acct \in Accounts
  /\ rows \subseteq Accounts
  /\ cur \in Accounts \cup {None}
  /\ pane \in BOOLEAN
  /\ phase \in {"run", "stopping", "jobs", "signers", "closed"}
  /\ starts \in 0..MaxStarts
  /\ raced \subseteq Remote /\ cut \subseteq Remote

\* The signer a job took from nip46_accounts is not freed before the job is: neither a
\* reconnection nor another departure takes it away (drain_auth's busy check,
\* account_job_new's one job per account, account_job_drain).
SignerOutlivesJob ==
  \A j \in jobs : j.signer => j.acct \in Remote /\ signer[j.acct] # None

\* The record of a is about to be removed.
Forgetting(a) ==
  \/ \E j \in jobs : j.acct = a /\ j.stage = "forget"
  \/ InFlight(a) /\ At("forget")

\* A signer record reaches the file only while the account is signed in or before its
\* removal: once a departure removed it no late writer brings it back, not the attach or
\* persist thread, not the last save of a freed signer, not another secret's.  Departures
\* asked for while a login to the account was in flight are left out: account_worker
\* does not know that login's writer (account_worker's joins, nip46_tick's
\* account_departing, nip46_account_free).
NoLateWriter ==
  [][\A a \in Remote \ raced : ~desc[a] /\ desc'[a] => store[a] = "in" \/ Forgetting(a)]_vars

\* The account on screen is signed in, unless it is just leaving or the sign-in worker
\* undid a reconnection to it (after_login, finish_account_switch).
CurrentIsSignedIn ==
  phase = "run" /\ cur # None =>
    store[cur] = "in" \/ Departing(cur) \/ cur \in cut

\* The record of a registered signer of a signed-in account is in the file, so the next
\* session connects it again (nip46_attach_worker and auth_worker save before they
\* register); again but for an account that departed while a login to it was in flight.
RegisteredIsSaved ==
  \A a \in Remote \ raced :
    signer[a] # None /\ signer[a].registered /\ store[a] = "in" => desc[a]

\* An account has one job at a time and one switch runs at a time, so results are
\* applied in the order the user asked for them (account_job_new).
OneJobEach ==
  \A j, k \in jobs : j.acct = k.acct \/ (j.kind = "switch" /\ k.kind = "switch") => j = k

\* An operation of an account with a signer starts only while the signer is attached,
\* and the signer stays registered until the operation is over (account_job_new).
AttachedWhileWorking ==
  \A j \in jobs : j.signer /\ j.kind \in {"switch", "sign"} =>
    signer[j.acct].registered /\ signer[j.acct].attach = "none"

\* A job has its account and its signer to itself, in states of the right shape.
Inv == TypeOK /\ SignerOutlivesJob /\ OneJobEach /\ AttachedWhileWorking

\* A session that is told to end does end, whatever its workers are doing
\* (session_stop_worker's joins wait for nobody that waits for them).
StopEnds == phase = "stopping" ~> phase = "closed"

\* A cancelled sign-in ends, also one that takes a second pass (drain_auth).
CancelEnds == auth # None /\ auth.cancelled ~> auth = None

\* Leaving an account waits for no signer (the comment in account_job_new), except for one
\* that is still connecting, which account_worker joins without cancelling it.
LeavingEnds ==
  \A a \in Accounts : Departing(a) ~> ~Departing(a) \/ Connecting(SignerOf(a))

\* What is told to end ends: a session, a sign-in, the departure of an account.
JobsEnd == StopEnds /\ CancelEnds /\ LeavingEnds
=============================================================================
