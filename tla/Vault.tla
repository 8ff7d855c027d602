-------------------------------- MODULE Vault --------------------------------
(***************************************************************************)
(* The password vault (app/vault.odin), the gate that opens it             *)
(* (app/vault_gate.odin), the password change (app/vault_pw.odin) and the  *)
(* part of a session's end that wipes it (app/vault_session.odin).         *)
(*                                                                         *)
(* Every vault operation runs under g_vault_lock, so an operation that     *)
(* writes the file is modelled as op: it begins (memory changes), then the *)
(* new file is renamed into place or the write fails, then it returns; the *)
(* process may crash between any two of these.  Worker threads read, write *)
(* and remove secrets, and seal blobs, until the end of the session joins  *)
(* them.                                                                   *)
(***************************************************************************)
EXTENDS Naturals, FiniteSets

CONSTANTS
  Passwords,    \* what is typed at the gate and in the password change
  Salts,        \* the random salts a behaviour can draw
  Names,        \* the secrets: account:<label>, nip46:<account>, network:socks5
  Values,       \* what a secret can hold
  Blobs,        \* the files sealed under the blob key
  DevBuild,     \* WN_DEV: a watcher's memfd caches the master key
  MaxRestarts,  \* bound on process restarts in a behaviour
  None,         \* nothing there
  Revoked,      \* the one-byte marker of dev_vault_revoke
  Unknown       \* the outcome of a write that failed or was cut short

(***************************************************************************)
(* A key is named by what it was made from.  A master key is derived from  *)
(* a password and a salt; the historical blob key is a hash of the master  *)
(* key and is named by it; a random blob key has no password and the name  *)
(* of the salt drawn with it.                                              *)
(***************************************************************************)
Key == [pw: Passwords \cup {None}, salt: Salts]
Master(p, s) == [pw |-> p, salt |-> s]
Random(s) == [pw |-> None, salt |-> s]

Map  == [Names -> Values \cup {None}]
File == [key: Key, salt: Salts, data: Map, blob: Key \cup {None}]
Mem  == [key: Key \cup {None}, salt: Salts \cup {None}, data: Map, blob: Key \cup {None},
         unlocked: BOOLEAN]
Op   == [kind: {"create", "rekey", "set", "remove"}, name: Names \cup {None},
         key: Key \cup {None}, salt: Salts \cup {None}, inserted: BOOLEAN, renamed: BOOLEAN,
         known: SUBSET Passwords]

ASSUME VaultAssumption ==
  /\ None \notin Passwords \cup Salts \cup Values \cup Key \cup File \cup Op
  /\ Unknown \notin Values \cup {None}
  /\ Revoked \notin Key \cup {None}
  /\ DevBuild \in BOOLEAN
  /\ MaxRestarts \in Nat

VARIABLES
  file,     \* vault.db: the key it is sealed under, its salt, map and blob-key entry
  mem,      \* g_vault
  op,       \* the operation that holds g_vault_lock while it writes the file
  cache,    \* the development watcher's memfd
  blobs,    \* blobs[b]: the key the file b is sealed under
  sealing,  \* sealing[b]: the key a worker sealed b with, before b is written
  doomed,   \* the sealed files a reset has still to remove
  session,  \* what the process is doing
  lockReq,  \* ui.lock_requested
  used,     \* salts drawn so far
  restarts, \* history: processes ended so far
  ghost     \* history: what the person at the keyboard and the callers were told

vars == <<file, mem, op, cache, blobs, sealing, doomed, session, lockReq, used, restarts, ghost>>

Ghost == [known: SUBSET Passwords,                    \* passwords that may be the vault's
          acked: [Names -> Values \cup {None, Unknown}],  \* what its last caller was told
          orphans: SUBSET Blobs,                      \* blobs of a deleted vault that are left
          locked: BOOLEAN]                            \* locked by the user, not reopened yet

Empty == [n \in Names |-> None]
NoBlobs == [b \in Blobs |-> None]

\* vault_wipe: key and map go, the salt stays.
Wiped(m) == [m EXCEPT !.key = None, !.data = Empty, !.blob = None, !.unlocked = FALSE]

\* blob_key: the stored entry, else the historical derivation.
BlobKeyDerived(v) == v.key  \* mutant: the stored entry is ignored
BlobKey(v) == IF v.blob # None THEN v.blob ELSE v.key

\* What vault_persist seals into the file.
Sealed(m) == [key |-> m.key, salt |-> m.salt, data |-> m.data, blob |-> m.blob]

\* What vault_open installs from the file.
Opened(f) == [key |-> f.key, salt |-> f.salt, data |-> f.data, blob |-> f.blob,
              unlocked |-> TRUE]

\* dev_vault_store and dev_vault_revoke: nothing outside a development build.
Stored(m) == IF ~DevBuild THEN cache ELSE IF m.unlocked THEN m.key ELSE None
RevocationKeeps == cache  \* mutant: vault_lock instead of vault_relock
Revocation == IF DevBuild THEN Revoked ELSE cache

Begun(kind, name) ==
  [kind |-> kind, name |-> name, key |-> mem.key, salt |-> mem.salt, inserted |-> FALSE,
   renamed |-> FALSE, known |-> ghost.known]

\* A vault that an earlier version created has no blob-key entry; its blobs are
\* sealed under the derived key.
Legacy(p, s) == [key |-> Master(p, s), salt |-> s, data |-> Empty, blob |-> None]

Init ==
  /\ \/ file = None /\ blobs = NoBlobs /\ used = {}
     \/ \E p \in Passwords, s \in Salts :
          /\ file = Legacy(p, s)
          /\ blobs \in [Blobs -> {None, Master(p, s)}]
          /\ used = {s}
  /\ mem = [key |-> None, salt |-> None, data |-> Empty, blob |-> None, unlocked |-> FALSE]
  /\ op = None /\ cache = None
  /\ sealing = NoBlobs /\ doomed = {}
  /\ session = "boot" /\ lockReq = FALSE
  /\ restarts = 0
  /\ ghost = [known |-> IF file = None THEN {} ELSE {file.key.pw}, acked |-> Empty,
              orphans |-> {}, locked |-> FALSE]

-----------------------------------------------------------------------------
(* The gate.                                                               *)

InstallFile ==
  /\ mem' = Opened(file)
  /\ cache' = Stored(mem')
  /\ session' = "open" /\ lockReq' = FALSE

\* vault_gate's entry: the cached key opens the vault if its salt is the file's, it
\* decrypts the file, and the user did not lock; otherwise the screen appears.
Boot ==
  /\ session = "boot"
  /\ IF DevBuild /\ ~lockReq /\ file # None /\ cache \in Key /\ cache = file.key
     THEN InstallFile
     ELSE session' = "gate" /\ UNCHANGED <<mem, cache, lockReq>>
  /\ UNCHANGED <<file, op, blobs, sealing, doomed, used, restarts, ghost>>

\* gate_worker on an existing vault, vault_open with a password: a wrong one changes
\* nothing, the right one installs the file.
Unlock(p) ==
  /\ session = "gate" /\ op = None
  /\ file # None /\ Master(p, file.salt) = file.key
  /\ InstallFile
  /\ ghost' = [ghost EXCEPT !.known = {p}, !.locked = FALSE]
  /\ UNCHANGED <<file, op, blobs, sealing, doomed, used, restarts>>

\* gate_worker without a vault, vault_create up to its write.
BeginCreate(p, s) ==
  /\ session = "gate" /\ op = None
  /\ file = None /\ s \notin used
  /\ mem' = [key |-> Master(p, s), salt |-> s, data |-> Empty, blob |-> Random(s),
             unlocked |-> TRUE]
  /\ op' = Begun("create", None)
  /\ used' = used \cup {s}
  /\ ghost' = [ghost EXCEPT !.known = {p}]
  /\ UNCHANGED <<file, cache, blobs, sealing, doomed, session, lockReq, restarts>>

\* What stays of a set of sealed files whose vault is deleted is nobody's.
Left(S) == [ghost EXCEPT !.orphans = IF file = None THEN @ \cup S ELSE @]

\* GateReset joins the blob writers; vault_delete wipes memory, empties the cache and
\* removes vault.db.  No result is looked at: if the removal fails the vault stays as it
\* was, and what follows happens all the same ...
BeginReset ==
  /\ session = "gate" /\ op = None /\ file # None
  /\ sealing = NoBlobs
  /\ mem' = Wiped(mem)
  /\ cache' = Stored(mem')
  /\ doomed' = {b \in Blobs : blobs[b] # None}
  /\ session' = "reset"
  /\ \/ file' = None /\ ghost' = [ghost EXCEPT !.known = {}, !.acked = Empty]
     \/ UNCHANGED <<file, ghost>>
  /\ UNCHANGED <<op, blobs, sealing, lockReq, used, restarts>>

\* ... the sealed stores, each tried once ...
RemoveStore(b) ==
  /\ session = "reset" /\ b \in doomed
  /\ doomed' = doomed \ {b}
  /\ \/ blobs' = [blobs EXCEPT ![b] = None] /\ ghost' = [ghost EXCEPT !.orphans = @ \ {b}]
     \/ UNCHANGED blobs /\ ghost' = Left({b})
  /\ UNCHANGED <<file, mem, op, cache, sealing, session, lockReq, used, restarts>>

\* ... and the gate again, which asks for the password of a vault that is still there.
EndReset ==
  /\ session = "reset" /\ doomed = {}
  /\ session' = "gate"
  /\ UNCHANGED <<file, mem, op, cache, blobs, sealing, doomed, lockReq, used, restarts, ghost>>

-----------------------------------------------------------------------------
(* Secrets and the password, while the vault is open.  Worker threads go   *)
(* on until they are joined, so they may still write after the lock.       *)

Running == session \in {"open", "stopping", "draining"}

\* vault_set up to its write; a wiped vault refuses it (.Not_Found).
BeginSetWiped(n, v) ==  \* mutant: without the check of unlocked
  /\ Running /\ op = None
  /\ mem' = [mem EXCEPT !.data[n] = v]
  /\ op' = Begun("set", n)
  /\ ghost' = [ghost EXCEPT !.acked[n] = Unknown]
  /\ UNCHANGED <<file, cache, blobs, sealing, doomed, session, lockReq, used, restarts>>
BeginSet(n, v) ==
  /\ Running /\ op = None
  /\ mem.unlocked
  /\ mem' = [mem EXCEPT !.data[n] = v]
  /\ op' = Begun("set", n)
  /\ ghost' = [ghost EXCEPT !.acked[n] = Unknown]
  /\ UNCHANGED <<file, cache, blobs, sealing, doomed, session, lockReq, used, restarts>>

\* vault_remove up to its write.  A secret that is not in the map is reported as removed
\* and nothing changes, also when the file still holds it.
BeginRemove(n) ==
  /\ Running /\ op = None
  /\ mem.data[n] # None
  /\ mem' = [mem EXCEPT !.data[n] = None]
  /\ op' = Begun("remove", n)
  /\ ghost' = [ghost EXCEPT !.acked[n] = Unknown]
  /\ UNCHANGED <<file, cache, blobs, sealing, doomed, session, lockReq, used, restarts>>

\* vault_pw_apply: vault_verify accepts the current password, then vault_rekey draws a
\* salt and a key, and gives a legacy map the key its blobs are sealed under.
BeginRekey(cur, new, s) ==
  /\ session = "open" /\ op = None
  /\ mem.unlocked /\ Master(cur, mem.salt) = mem.key
  /\ s \notin used
  /\ op' = [Begun("rekey", None) EXCEPT !.inserted = mem.blob = None]
  /\ mem' = [mem EXCEPT !.key = Master(new, s), !.salt = s, !.blob = BlobKey(mem)]
  /\ used' = used \cup {s}
  /\ ghost' = [ghost EXCEPT !.known = @ \cup {new}]
  /\ UNCHANGED <<file, cache, blobs, sealing, doomed, session, lockReq, restarts>>

\* vault_persist: the rename puts the whole new file in place.
Rename ==
  /\ op # None /\ ~op.renamed
  /\ file' = Sealed(mem)
  /\ op' = [op EXCEPT !.renamed = TRUE]
  /\ UNCHANGED <<mem, cache, blobs, sealing, doomed, session, lockReq, used, restarts, ghost>>

\* What the caller is told once the file is in place.
Acknowledged ==
  CASE op.kind = "set"    -> [ghost EXCEPT !.acked[op.name] = mem.data[op.name]]
    [] op.kind = "remove" -> [ghost EXCEPT !.acked[op.name] = None]
    [] OTHER              -> [ghost EXCEPT !.known = {mem.key.pw}, !.locked = FALSE]

Persisted ==
  /\ op # None /\ op.renamed
  /\ cache' = Stored(mem)
  /\ op' = None
  /\ ghost' = Acknowledged
  /\ IF op.kind = "create"
     THEN session' = "open" /\ lockReq' = FALSE
     ELSE UNCHANGED <<session, lockReq>>
  /\ UNCHANGED <<file, mem, blobs, sealing, doomed, used, restarts>>

\* vault_persist fails in the write or in the rename.  vault_create wipes what it made;
\* vault_rekey takes back key, salt and an entry it inserted; vault_set and
\* vault_remove keep the changed map.
UndoneKeepsKey ==  \* mutant: a failed change leaves the new key in memory
  IF op.kind = "create" THEN Wiped(mem) ELSE mem
Undone ==
  CASE op.kind = "create" -> Wiped(mem)
    [] op.kind = "rekey"  -> [mem EXCEPT !.key = op.key, !.salt = op.salt,
                                         !.blob = IF op.inserted THEN None ELSE @]
    [] OTHER              -> mem

PersistFails ==
  /\ op # None /\ ~op.renamed
  /\ mem' = Undone
  /\ op' = None
  /\ ghost' = [ghost EXCEPT !.known = op.known]
  /\ UNCHANGED <<file, cache, blobs, sealing, doomed, session, lockReq, used, restarts>>

\* vault_seal_blob takes the blob key under the lock; the file is written after it
\* returned, or its write fails.
Seal(b) ==
  /\ Running /\ op = None
  /\ mem.unlocked /\ sealing[b] = None
  /\ sealing' = [sealing EXCEPT ![b] = BlobKey(mem)]
  /\ UNCHANGED <<file, mem, op, cache, blobs, doomed, session, lockReq, used, restarts, ghost>>

WriteBlob(b) ==
  /\ sealing[b] # None
  /\ sealing' = [sealing EXCEPT ![b] = None]
  /\ \/ /\ blobs' = [blobs EXCEPT ![b] = sealing[b]]
        /\ ghost' = [ghost EXCEPT !.orphans = @ \ {b}]
     \/ UNCHANGED <<blobs, ghost>>
  /\ UNCHANGED <<file, mem, op, cache, doomed, session, lockReq, used, restarts>>

-----------------------------------------------------------------------------
(* The end of a session and of the process.                                *)

\* The frame loop leaves: Lock now, or the window closed, or a development reload.
BeginStop(lock) ==
  /\ session = "open" /\ op = None
  /\ session' = "stopping" /\ lockReq' = lock
  /\ UNCHANGED <<file, mem, op, cache, blobs, sealing, doomed, used, restarts, ghost>>

\* session_stop_worker: a user lock wipes at once (vault_relock), before the workers
\* are told to stop.
Relock ==
  /\ session = "stopping" /\ op = None
  /\ session' = "draining"
  /\ IF lockReq
     THEN mem' = Wiped(mem) /\ cache' = Revocation /\ ghost' = [ghost EXCEPT !.locked = TRUE]
     ELSE UNCHANGED <<mem, cache, ghost>>
  /\ UNCHANGED <<file, op, blobs, sealing, doomed, lockReq, used, restarts>>

\* Every worker is joined; vault_lock, then the gate again or the end of the process.
EndStop ==
  /\ session = "draining" /\ op = None /\ sealing = NoBlobs
  /\ mem' = Wiped(mem)
  /\ IF lockReq THEN session' = "gate" /\ UNCHANGED <<lockReq, restarts>>
     ELSE /\ restarts < MaxRestarts /\ restarts' = restarts + 1
          /\ session' = "boot" /\ lockReq' = (cache = Revoked)
  /\ UNCHANGED <<file, op, cache, blobs, sealing, doomed, used, ghost>>

\* The window closes at the gate.
CloseGate ==
  /\ session = "gate" /\ op = None
  /\ restarts < MaxRestarts /\ restarts' = restarts + 1
  /\ mem' = Wiped(mem)
  /\ cache' = IF lockReq THEN Revocation ELSE cache
  /\ session' = "boot" /\ lockReq' = (cache' = Revoked)
  /\ UNCHANGED <<file, op, blobs, sealing, doomed, used, ghost>>

\* The process dies; the watcher and its memfd live on.
Crash ==
  /\ session # "boot"
  /\ restarts < MaxRestarts /\ restarts' = restarts + 1
  /\ mem' = [key |-> None, salt |-> None, data |-> Empty, blob |-> None, unlocked |-> FALSE]
  /\ op' = None /\ sealing' = NoBlobs /\ doomed' = {}
  /\ session' = "boot" /\ lockReq' = (cache = Revoked)
  /\ ghost' = Left(doomed)
  /\ UNCHANGED <<file, cache, blobs, used>>

Next ==
  \/ Boot \/ BeginReset \/ EndReset
  \/ \E p \in Passwords : Unlock(p) \/ \E s \in Salts : BeginCreate(p, s)
  \/ \E b \in Blobs : RemoveStore(b) \/ Seal(b) \/ WriteBlob(b)
  \/ \E n \in Names : BeginRemove(n) \/ \E v \in Values : BeginSet(n, v)
  \/ \E cur, new \in Passwords, s \in Salts : BeginRekey(cur, new, s)
  \/ Rename \/ Persisted \/ PersistFails
  \/ \E lock \in BOOLEAN : BeginStop(lock)
  \/ Relock \/ EndStop \/ CloseGate \/ Crash

Spec == Init /\ [][Next]_vars

-----------------------------------------------------------------------------
TypeOK ==
  /\ file \in File \cup {None}
  /\ mem \in Mem
  /\ op \in Op \cup {None}
  /\ cache \in Key \cup {None, Revoked}
  /\ blobs \in [Blobs -> Key \cup {None}]
  /\ sealing \in [Blobs -> Key \cup {None}]
  /\ doomed \subseteq Blobs
  /\ session \in {"boot", "gate", "reset", "open", "stopping", "draining"}
  /\ lockReq \in BOOLEAN
  /\ used \subseteq Salts
  /\ restarts \in 0..MaxRestarts
  /\ ghost \in Ghost

\* The vault on disk opens with a password the person at the keyboard was told is in
\* force, or with the new one of a change that a crash cut short: no failed change,
\* late worker write, lock or crash seals the file under a key nobody can derive
\* (vault_rekey's roll-back, vault_set's refusal of a wiped vault).
OpensWithKnownPassword ==
  file # None => file.key.salt = file.salt /\ file.key.pw \in ghost.known

\* Between operations an unlocked session holds the key, the salt and the blob-key
\* entry of the file on disk (the promise above vault_rekey).
SessionMatchesFile ==
  op = None /\ mem.unlocked =>
    /\ file # None
    /\ mem.key = file.key /\ mem.salt = file.salt /\ mem.blob = file.blob

\* Password changes, failed or cut short, leave every sealed file readable: the blob
\* key the vault on disk leads to is the one the file is sealed under, also while a
\* worker still holds it (vault_rekey, blob_key).  What a reset left behind is not the new
\* vault's; a vault that a reset could not delete still reads what is left of it.
BlobsStayReadable ==
  file # None => \A b \in Blobs :
    /\ blobs[b] # None /\ b \notin ghost.orphans => blobs[b] = BlobKey(file)
    /\ sealing[b] # None => sealing[b] = BlobKey(file)

\* What vault_set, and vault_remove of a secret it found, acknowledged is what the file holds, whatever else
\* was written, refused, rolled back or lost in a crash since.
AcknowledgedIsOnDisk ==
  file # None => \A n \in Names :
    ghost.acked[n] # Unknown => file.data[n] = ghost.acked[n]

\* After the user locked, nothing opens the vault until a password does: no secret is
\* in memory and no cached key survives, whatever the workers that are still being
\* joined try, and across process restarts (vault_relock, dev_vault_manual_locked).
LockHolds ==
  ghost.locked /\ op = None => ~mem.unlocked /\ mem.data = Empty /\ cache \notin Key

\* Without a vault a sealed file is there only because a reset could not remove it, or the
\* process died in the reset before its turn came: no reset passes over one, also after
\* others failed, and no writer of the old session lands after it (vault_delete,
\* vault_stores_quiesce).
OnlyFailuresLeave ==
  file = None /\ op = None =>
    \A b \in Blobs : blobs[b] # None => b \in doomed \cup ghost.orphans

\* Between operations session, file and sealed files belong together, in states of the
\* right shape.
Inv == TypeOK /\ SessionMatchesFile /\ BlobsStayReadable /\ OnlyFailuresLeave
=============================================================================
