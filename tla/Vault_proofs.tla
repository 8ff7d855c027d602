----------------------------- MODULE Vault_proofs -----------------------------
(***************************************************************************)
(* Proofs about the vault.  The invariants are proved in layers, each on   *)
(* top of the ones before it: the types; the keys in memory, in the file   *)
(* and in the operation that holds the lock; the sealed blobs; the         *)
(* acknowledged secrets; the lock.                                         *)
(***************************************************************************)
EXTENDS Vault, TLAPS

\* Memory holds a key exactly while it is unlocked, and the key belongs to its salt.
KeyOfSalt ==
  IF mem.unlocked
  THEN mem.key \in Key /\ mem.salt \in Salts /\ mem.key.salt = mem.salt /\ mem.key.pw \in ghost.known
  ELSE mem.key = None /\ mem.data = Empty /\ mem.blob = None /\ op = None

\* Outside an operation the vault is unlocked only while a session runs.
UnlockedRuns == mem.unlocked /\ op = None => Running

\* What an operation leaves for its end: the old key, salt and passwords to go back to,
\* or the new file in place.
OpKeepsOld ==
  op # None =>
    /\ op.renamed => file = Sealed(mem)
    /\ op.kind = "create" => session = "gate" /\ (~op.renamed => file = None)
    /\ op.kind # "create" => Running /\ file # None
    /\ op.kind \in {"set", "remove"} =>
         /\ op.name \in Names /\ op.known = ghost.known
         /\ mem.key = file.key /\ mem.salt = file.salt /\ mem.blob = file.blob
    /\ op.kind = "remove" => mem.data[op.name] = None
    /\ op.kind = "rekey" /\ ~op.renamed =>
         /\ op.key = file.key /\ op.salt = file.salt /\ file.key.pw \in op.known
         /\ mem.blob = BlobKey(file) /\ (op.inserted <=> file.blob = None)

KeyInv == OpensWithKnownPassword /\ SessionMatchesFile /\ KeyOfSalt /\ UnlockedRuns /\ OpKeepsOld

\* A worker holds a key only while the session that joins it runs, and without a vault
\* every blob is an orphan, or about to be removed.  Only a reset removes, and it holds no
\* lock for an operation.
BlobOwner ==
  /\ \A b \in Blobs : sealing[b] # None => Running /\ file # None
  /\ file = None \/ (op # None /\ op.kind = "create") =>
       \A b \in Blobs : blobs[b] # None => b \in doomed \cup ghost.orphans
  /\ IF session = "reset" THEN op = None ELSE doomed = {}

BlobInv == BlobsStayReadable /\ OnlyFailuresLeave /\ BlobOwner

\* Memory agrees with what was acknowledged, and without a vault nothing is.
MemAcknowledged ==
  /\ mem.unlocked => \A n \in Names : ghost.acked[n] # Unknown => mem.data[n] = ghost.acked[n]
  /\ file = None => ghost.acked = Empty

AckInv == AcknowledgedIsOnDisk /\ MemAcknowledged

\* A vault the user locked is unlocked again only by the gate.
LockedOutside ==
  ghost.locked =>
    /\ session \notin {"open", "stopping"} /\ cache \notin Key
    /\ mem.unlocked => session = "gate"

CacheOnlyInDev == ~DevBuild => cache = None

LockInv == LockHolds /\ LockedOutside /\ CacheOnlyInDev

\* The steps of Next, by what they are about: the gate and the reset; secrets, password
\* and blobs; the end of an operation, of a session and of the process.
GateStep ==
  \/ Boot \/ BeginReset \/ EndReset
  \/ \E p \in Passwords : Unlock(p) \/ \E s \in Salts : BeginCreate(p, s)
  \/ \E b \in Blobs : RemoveStore(b)

SessionStep ==
  \/ \E n \in Names : BeginRemove(n) \/ \E v \in Values : BeginSet(n, v)
  \/ \E cur, new \in Passwords, s \in Salts : BeginRekey(cur, new, s)
  \/ \E b \in Blobs : Seal(b) \/ WriteBlob(b)

EndStep ==
  \/ Rename \/ Persisted \/ PersistFails
  \/ \E lock \in BOOLEAN : BeginStop(lock)
  \/ Relock \/ EndStop \/ CloseGate \/ Crash

-----------------------------------------------------------------------------
(* Type correctness.                                                       *)

LEMMA MemType ==
  ASSUME NEW k \in Key \cup {None}, NEW s \in Salts \cup {None}, NEW d \in Map,
         NEW b \in Key \cup {None}, NEW u \in BOOLEAN
  PROVE  [key |-> k, salt |-> s, data |-> d, blob |-> b, unlocked |-> u] \in Mem
  BY Zenon DEF Mem

LEMMA EmptyType == Empty \in Map
  BY DEF Empty, Map

LEMMA WipedType == TypeOK => Wiped(mem) \in Mem
  BY EmptyType DEF TypeOK, Wiped, Mem

LEMMA BlobKeyType ==
  ASSUME TypeOK, mem.unlocked, KeyOfSalt
  PROVE  BlobKey(mem) \in Key
  BY DEF TypeOK, BlobKey, Mem, KeyOfSalt

LEMMA SealedType ==
  ASSUME TypeOK, mem.unlocked, KeyOfSalt
  PROVE  Sealed(mem) \in File /\ Sealed(mem) # None
  <1>1. Sealed(mem) \in File
    BY DEF TypeOK, Sealed, Mem, File, KeyOfSalt
  <1> QED BY <1>1, VaultAssumption

LEMMA BegunType ==
  ASSUME TypeOK, NEW kind \in {"create", "rekey", "set", "remove"}, NEW n \in Names \cup {None}
  PROVE  Begun(kind, n) \in Op
  <1>1. mem.key \in Key \cup {None} /\ mem.salt \in Salts \cup {None}
    BY DEF TypeOK, Mem
  <1>2. ghost.known \in SUBSET Passwords
    BY DEF TypeOK, Ghost
  <1> QED BY <1>1, <1>2, Zenon DEF Begun, Op

LEMMA StoredType ==
  ASSUME NEW m \in Mem, cache \in Key \cup {None, Revoked}
  PROVE  Stored(m) \in Key \cup {None, Revoked}
  BY DEF Stored, Mem

LEMMA LeftType ==
  ASSUME TypeOK, NEW S \in SUBSET Blobs
  PROVE  /\ Left(S) \in Ghost
         /\ Left(S).known = ghost.known /\ Left(S).acked = ghost.acked /\ Left(S).locked = ghost.locked
         /\ ghost.orphans \subseteq Left(S).orphans
         /\ Left(S).orphans = IF file = None THEN ghost.orphans \cup S ELSE ghost.orphans
  BY DEF TypeOK, Left, Ghost

\* A removal, failed or not, and the death of the process tell nobody anything.
LEMMA RemoveFrame ==
  ASSUME TypeOK, NEW b \in Blobs, RemoveStore(b)
  PROVE  /\ session = "reset" /\ UNCHANGED <<file, mem, op, cache, sealing, session, lockReq>>
         /\ ghost'.known = ghost.known /\ ghost'.acked = ghost.acked /\ ghost'.locked = ghost.locked
  <1>1. UNCHANGED <<file, mem, op, cache, sealing, session, lockReq>> /\ session = "reset"
    BY DEF RemoveStore
  <1>2. CASE ghost' = [ghost EXCEPT !.orphans = @ \ {b}]
    BY <1>1, <1>2 DEF TypeOK, Ghost
  <1>3. CASE ghost' = Left({b})
    BY <1>1, <1>3, LeftType
  <1> QED BY <1>2, <1>3 DEF RemoveStore

LEMMA CrashFrame ==
  ASSUME TypeOK, Crash
  PROVE  /\ UNCHANGED <<file, cache, blobs>> /\ session' = "boot" /\ op' = None /\ sealing' = NoBlobs
         /\ mem' = [key |-> None, salt |-> None, data |-> Empty, blob |-> None, unlocked |-> FALSE]
         /\ ghost'.known = ghost.known /\ ghost'.acked = ghost.acked /\ ghost'.locked = ghost.locked
  <1>1. ghost' = Left(doomed) /\ doomed \in SUBSET Blobs
    BY DEF Crash, TypeOK
  <1>2. ghost'.known = ghost.known /\ ghost'.acked = ghost.acked /\ ghost'.locked = ghost.locked
    BY <1>1, LeftType
  <1> QED BY <1>2 DEF Crash

LEMMA TypeInit == Init => TypeOK
  <1> SUFFICES ASSUME Init PROVE TypeOK
    OBVIOUS
  <1>1. mem \in Mem
    BY MemType, EmptyType DEF Init
  <1>2. file \in File \cup {None} /\ blobs \in [Blobs -> Key \cup {None}] /\ used \subseteq Salts
    <2>1. \A p \in Passwords, s \in Salts : Master(p, s) \in Key /\ Legacy(p, s) \in File
      BY EmptyType DEF Legacy, Master, Key, File
    <2> QED BY <2>1 DEF Init, NoBlobs
  <1>3. (IF file = None THEN {} ELSE {file.key.pw}) \subseteq Passwords
    BY DEF Init, Legacy, Master
  <1>4. Empty \in [Names -> Values \cup {None, Unknown}]
    BY DEF Empty
  <1>5. ghost \in Ghost
    <2> DEFINE known == IF file = None THEN {} ELSE {file.key.pw}
    <2>1. ghost = [known |-> known, acked |-> Empty, orphans |-> {}, locked |-> FALSE]
      BY DEF Init
    <2>2. known \in SUBSET Passwords
      BY <1>3
    <2> HIDE DEF known
    <2> QED BY <1>4, <2>1, <2>2 DEF Ghost
  <1>6. sealing \in [Blobs -> Key \cup {None}] /\ restarts \in 0..MaxRestarts
    BY VaultAssumption DEF Init, NoBlobs
  <1> QED BY <1>1, <1>2, <1>5, <1>6 DEF Init, TypeOK

\* The gate and the reset.
LEMMA TypeGate ==
  ASSUME TypeOK, GateStep
  PROVE  TypeOK'
  <1>1. InstallFile /\ file # None =>
          mem' \in Mem /\ cache' \in Key \cup {None, Revoked} /\ session' = "open" /\ lockReq' = FALSE
    <2> SUFFICES ASSUME InstallFile, file # None
        PROVE  mem' \in Mem /\ cache' \in Key \cup {None, Revoked}
      BY DEF InstallFile
    <2>1. file \in File
      BY DEF TypeOK
    <2>2. mem' \in Mem
      BY <2>1, MemType DEF InstallFile, Opened, File
    <2> QED BY <2>2, StoredType DEF InstallFile, TypeOK
  <1>2. CASE Boot
    BY <1>1, <1>2 DEF Boot, TypeOK
  <1>3. CASE BeginReset
    <2>1. mem' \in Mem /\ cache' \in Key \cup {None, Revoked}
      BY <1>3, WipedType, StoredType DEF BeginReset, TypeOK
    <2>2. ghost' \in Ghost
      <3>1. [ghost EXCEPT !.known = {}, !.acked = Empty] \in Ghost
        BY DEF TypeOK, Ghost, Empty
      <3> QED BY <1>3, <3>1 DEF BeginReset, TypeOK
    <2> QED BY <1>3, <2>1, <2>2 DEF BeginReset, TypeOK
  <1>4. CASE EndReset
    BY <1>4 DEF EndReset, TypeOK
  <1>5. ASSUME NEW p \in Passwords, Unlock(p) PROVE TypeOK'
    <2>1. ghost' \in Ghost
      BY <1>5 DEF Unlock, TypeOK, Ghost
    <2> QED BY <1>1, <1>5, <2>1 DEF Unlock, TypeOK
  <1>6. ASSUME NEW p \in Passwords, NEW s \in Salts, BeginCreate(p, s) PROVE TypeOK'
    <2>1. Master(p, s) \in Key /\ Random(s) \in Key
      BY DEF Master, Random, Key
    <2>2. mem' \in Mem
      BY <1>6, <2>1, MemType, EmptyType DEF BeginCreate
    <2>3. ghost' \in Ghost
      BY <1>6 DEF BeginCreate, TypeOK, Ghost
    <2> QED BY <1>6, <2>2, <2>3, BegunType DEF BeginCreate, TypeOK
  <1>7. ASSUME NEW b \in Blobs, RemoveStore(b) PROVE TypeOK'
    <2>1. [ghost EXCEPT !.orphans = @ \ {b}] \in Ghost
      BY DEF TypeOK, Ghost
    <2>2. ghost' \in Ghost
      BY <1>7, <2>1, LeftType DEF RemoveStore
    <2> QED BY <1>7, <2>2 DEF RemoveStore, TypeOK
  <1> QED BY <1>2, <1>3, <1>4, <1>5, <1>6, <1>7 DEF GateStep

\* Secrets, the password and the blobs.
LEMMA TypeSession ==
  ASSUME TypeOK, KeyOfSalt, SessionStep
  PROVE  TypeOK'
  <1>1. ASSUME NEW n \in Names, NEW v \in Values, BeginSet(n, v) PROVE TypeOK'
    <2>1. mem' \in Mem
      BY <1>1 DEF BeginSet, TypeOK, Mem, Map
    <2>2. ghost' \in Ghost
      BY <1>1 DEF BeginSet, TypeOK, Ghost
    <2> QED BY <1>1, <2>1, <2>2, BegunType DEF BeginSet, TypeOK
  <1>2. ASSUME NEW n \in Names, BeginRemove(n) PROVE TypeOK'
    <2>1. mem' \in Mem
      BY <1>2 DEF BeginRemove, TypeOK, Mem, Map
    <2>2. ghost' \in Ghost
      BY <1>2 DEF BeginRemove, TypeOK, Ghost
    <2> QED BY <1>2, <2>1, <2>2, BegunType DEF BeginRemove, TypeOK
  <1>3. ASSUME NEW cur \in Passwords, NEW new \in Passwords, NEW s \in Salts, BeginRekey(cur, new, s) PROVE TypeOK'
    <2>1. mem' \in Mem
      <3>1. Master(new, s) \in Key /\ BlobKey(mem) \in Key
        BY <1>3, BlobKeyType DEF BeginRekey, Master, Key
      <3> QED BY <1>3, <3>1 DEF BeginRekey, TypeOK, Mem
    <2>2. ghost' \in Ghost
      BY <1>3 DEF BeginRekey, TypeOK, Ghost
    <2>3. op' \in Op
      <3>1. (mem.blob = None) \in BOOLEAN
        OBVIOUS
      <3>2. Begun("rekey", None) \in Op
        BY BegunType
      <3> QED BY <1>3, <3>1, <3>2 DEF BeginRekey, Op
    <2> QED BY <1>3, <2>1, <2>2, <2>3 DEF BeginRekey, TypeOK
  <1>4. ASSUME NEW b \in Blobs, Seal(b) PROVE TypeOK'
    BY <1>4, BlobKeyType DEF Seal, TypeOK
  <1>5. ASSUME NEW b \in Blobs, WriteBlob(b) PROVE TypeOK'
    <2>1. ghost' \in Ghost
      BY <1>5 DEF WriteBlob, TypeOK, Ghost
    <2> QED BY <1>5, <2>1 DEF WriteBlob, TypeOK
  <1> QED BY <1>1, <1>2, <1>3, <1>4, <1>5 DEF SessionStep

\* The end of an operation, of a session and of the process.
LEMMA TypeEnds ==
  ASSUME TypeOK, KeyInv, EndStep
  PROVE  TypeOK'
  <1>1. CASE Rename
    <2>1. file' \in File
      BY <1>1 DEF Rename, TypeOK, Mem, File, Sealed, KeyInv, KeyOfSalt
    <2>2. op' \in Op
      BY <1>1 DEF Rename, TypeOK, Op
    <2> QED BY <1>1, <2>1, <2>2 DEF Rename, TypeOK
  <1>2. CASE Persisted
    <2>1. ghost' \in Ghost
      <3>1. op \in Op /\ ghost \in Ghost /\ mem \in Mem
        BY <1>2 DEF Persisted, TypeOK
      <3>2. CASE op.kind = "set"
        BY <1>2, <3>1, <3>2 DEF Persisted, Acknowledged, Ghost, Mem, Map, KeyInv, OpKeepsOld
      <3>3. CASE op.kind = "remove"
        BY <1>2, <3>1, <3>3 DEF Persisted, Acknowledged, Ghost, KeyInv, OpKeepsOld
      <3>4. CASE op.kind \notin {"set", "remove"}
        <4>1. mem.key.pw \in Passwords
          BY <1>2, <3>1 DEF Persisted, KeyInv, KeyOfSalt, Ghost
        <4> QED BY <1>2, <3>1, <3>4, <4>1 DEF Persisted, Acknowledged, Ghost
      <3> QED BY <3>2, <3>3, <3>4
    <2>2. cache' \in Key \cup {None, Revoked}
      BY <1>2, StoredType DEF Persisted, TypeOK
    <2> QED BY <1>2, <2>1, <2>2 DEF Persisted, TypeOK
  <1>3. CASE PersistFails
    <2>1. mem' \in Mem
      BY <1>3, WipedType DEF PersistFails, Undone, TypeOK, Mem, Op
    <2>2. ghost' \in Ghost
      BY <1>3 DEF PersistFails, TypeOK, Ghost, Op
    <2> QED BY <1>3, <2>1, <2>2 DEF PersistFails, TypeOK
  <1>4. ASSUME NEW lock \in BOOLEAN, BeginStop(lock) PROVE TypeOK'
    BY <1>4 DEF BeginStop, TypeOK
  <1>5. CASE Relock
    <2>1. mem' \in Mem /\ cache' \in Key \cup {None, Revoked}
      BY <1>5, WipedType DEF Relock, Revocation, TypeOK
    <2>2. ghost' \in Ghost
      BY <1>5 DEF Relock, TypeOK, Ghost
    <2> QED BY <1>5, <2>1, <2>2 DEF Relock, TypeOK
  <1>6. CASE EndStop
    <2>1. CASE lockReq
      BY <1>6, <2>1, WipedType DEF EndStop, TypeOK
    <2>2. CASE ~lockReq
      <3>1. restarts' \in 0..MaxRestarts
        BY <1>6, <2>2, VaultAssumption DEF EndStop, TypeOK
      <3> QED BY <1>6, <2>2, <3>1, WipedType DEF EndStop, TypeOK
    <2> QED BY <2>1, <2>2
  <1>7. CASE CloseGate
    BY <1>7, WipedType, VaultAssumption DEF CloseGate, Revocation, TypeOK
  <1>8. CASE Crash
    <2>1. mem' \in Mem
      BY <1>8, MemType, EmptyType DEF Crash
    <2>2. ghost' \in Ghost
      BY <1>8, LeftType DEF Crash, TypeOK
    <2> QED BY <1>8, <2>1, <2>2, VaultAssumption DEF Crash, TypeOK, NoBlobs
  <1> QED BY <1>1, <1>2, <1>3, <1>4, <1>5, <1>6, <1>7, <1>8 DEF EndStep

-----------------------------------------------------------------------------
(* The keys.                                                               *)

LEMMA KeyInit == Init => KeyInv
  BY DEF Init, KeyInv, OpensWithKnownPassword, SessionMatchesFile, KeyOfSalt, UnlockedRuns, OpKeepsOld,
         Legacy, Master, Running

LEMMA KeyGate ==
  ASSUME TypeOK, KeyInv, GateStep
  PROVE  KeyInv'
  <1> USE DEF KeyInv, OpensWithKnownPassword, SessionMatchesFile, KeyOfSalt, UnlockedRuns, OpKeepsOld, Running
  <1>1. CASE Boot
    BY <1>1 DEF Boot, InstallFile, Opened, TypeOK, File
  <1>2. CASE BeginReset
    BY <1>2 DEF BeginReset, Wiped, TypeOK, Mem
  <1>3. CASE EndReset
    BY <1>3 DEF EndReset
  <1>4. ASSUME NEW p \in Passwords, Unlock(p) PROVE KeyInv'
    BY <1>4 DEF Unlock, InstallFile, Opened, Master, TypeOK, File, Ghost
  <1>5. ASSUME NEW p \in Passwords, NEW s \in Salts, BeginCreate(p, s) PROVE KeyInv'
    <2>1. mem' = [key |-> Master(p, s), salt |-> s, data |-> Empty, blob |-> Random(s), unlocked |-> TRUE]
      BY <1>5 DEF BeginCreate
    <2>2. Master(p, s) \in Key /\ Master(p, s).salt = s /\ Master(p, s).pw = p
      BY DEF Master, Key
    <2>3. op' # None /\ op'.kind = "create" /\ ~op'.renamed
      <3>1. op' = Begun("create", None)
        BY <1>5 DEF BeginCreate
      <3>2. op' \in Op
        BY <3>1, BegunType
      <3> QED BY <3>1, <3>2, VaultAssumption DEF Begun
    <2>4. ghost'.known = {p} /\ file' = None /\ session' = "gate"
      BY <1>5 DEF BeginCreate, TypeOK, Ghost
    <2> QED BY <2>1, <2>2, <2>3, <2>4
  <1>6. ASSUME NEW b \in Blobs, RemoveStore(b) PROVE KeyInv'
    BY <1>6, RemoveFrame
  <1> QED BY <1>1, <1>2, <1>3, <1>4, <1>5, <1>6 DEF GateStep

LEMMA KeySession ==
  ASSUME TypeOK, KeyInv, SessionStep
  PROVE  KeyInv'
  <1> USE DEF KeyInv, OpensWithKnownPassword, SessionMatchesFile, KeyOfSalt, UnlockedRuns, OpKeepsOld, Running
  <1>1. ASSUME NEW n \in Names, NEW v \in Values, BeginSet(n, v) PROVE KeyInv'
    BY <1>1 DEF BeginSet, Begun, TypeOK, Mem, Ghost
  <1>2. ASSUME NEW n \in Names, BeginRemove(n) PROVE KeyInv'
    BY <1>2 DEF BeginRemove, Begun, TypeOK, Mem, Map, Ghost, Empty
  <1>3. ASSUME NEW cur \in Passwords, NEW new \in Passwords, NEW s \in Salts, BeginRekey(cur, new, s) PROVE KeyInv'
    <2>1. OpensWithKnownPassword'
      BY <1>3, VaultAssumption DEF BeginRekey, Begun, Master, BlobKey, Key, TypeOK, Mem, Ghost
    <2>2. KeyOfSalt'
      BY <1>3, VaultAssumption DEF BeginRekey, Begun, Master, BlobKey, Key, TypeOK, Mem, Ghost
    <2>3. OpKeepsOld'
      BY <1>3, VaultAssumption DEF BeginRekey, Begun, Master, BlobKey, Key, TypeOK, Mem, Ghost
    <2>4. op' # None
      <3>1. Begun("rekey", None) \in Op /\ (mem.blob = None) \in BOOLEAN
        BY BegunType
      <3>2. op' \in Op
        BY <1>3, <3>1 DEF BeginRekey, Op
      <3> QED BY <3>2, VaultAssumption
    <2> QED BY <2>1, <2>2, <2>3, <2>4
  <1>4. ASSUME NEW b \in Blobs, Seal(b) PROVE KeyInv'
    BY <1>4 DEF Seal
  <1>5. ASSUME NEW b \in Blobs, WriteBlob(b) PROVE KeyInv'
    BY <1>5 DEF WriteBlob, TypeOK, Ghost
  <1> QED BY <1>1, <1>2, <1>3, <1>4, <1>5 DEF SessionStep

LEMMA KeyEnds ==
  ASSUME TypeOK, KeyInv, EndStep
  PROVE  KeyInv'
  <1> USE DEF KeyInv, OpensWithKnownPassword, SessionMatchesFile, KeyOfSalt, UnlockedRuns, OpKeepsOld, Running
  <1>1. CASE Rename
    <2>1. OpensWithKnownPassword'
      BY <1>1 DEF Rename, Sealed, TypeOK, Mem, Op
    <2>2. KeyOfSalt'
      BY <1>1 DEF Rename, Sealed, TypeOK, Mem, Op
    <2>3. op' \in Op /\ op' # None /\ file' # None
      <3>1. op' \in Op
        BY <1>1 DEF Rename, TypeOK, Op
      <3>2. Sealed(mem) # None
        BY <1>1, SealedType DEF Rename
      <3> QED BY <1>1, <3>1, <3>2, VaultAssumption DEF Rename
    <2>4. OpKeepsOld'
      <3>1. op'.renamed /\ op'.kind = op.kind /\ op'.name = op.name /\ op'.known = op.known
        BY <1>1 DEF Rename, TypeOK, Op
      <3> QED BY <1>1, <2>3, <3>1 DEF Rename, Sealed, TypeOK, Mem
    <2> QED BY <2>1, <2>2, <2>3, <2>4
  <1>2. CASE Persisted
    <2>1. OpensWithKnownPassword'
      BY <1>2 DEF Persisted, Acknowledged, Sealed, TypeOK, Mem, Op, Ghost
    <2>2. KeyOfSalt'
      BY <1>2 DEF Persisted, Acknowledged, Sealed, TypeOK, Mem, Op, Ghost
    <2>3. OpKeepsOld'
      BY <1>2 DEF Persisted, Acknowledged, Sealed, TypeOK, Mem, Op, Ghost
    <2>4. SessionMatchesFile'
      <3>1. Sealed(mem) # None /\ file = Sealed(mem) /\ mem' = mem /\ file' = file
        BY <1>2, SealedType DEF Persisted
      <3> QED BY <3>1 DEF Sealed
    <2>5. UnlockedRuns'
      BY <1>2 DEF Persisted, TypeOK, Op
    <2> QED BY <2>1, <2>2, <2>3, <2>4, <2>5
  <1>3. CASE PersistFails
    BY <1>3, SMTT(20) DEF PersistFails, Undone, Wiped, BlobKey, TypeOK, Mem, Op, Ghost, File
  <1>4. ASSUME NEW lock \in BOOLEAN, BeginStop(lock) PROVE KeyInv'
    BY <1>4 DEF BeginStop
  <1>5. CASE Relock
    BY <1>5 DEF Relock, Wiped, TypeOK, Mem, Ghost
  <1>6. CASE EndStop
    BY <1>6 DEF EndStop, Wiped, TypeOK, Mem
  <1>7. CASE CloseGate
    BY <1>7 DEF CloseGate, Wiped, TypeOK, Mem
  <1>8. CASE Crash
    BY <1>8, CrashFrame
  <1> QED BY <1>1, <1>2, <1>3, <1>4, <1>5, <1>6, <1>7, <1>8 DEF EndStep

-----------------------------------------------------------------------------
(* The sealed blobs.                                                       *)

LEMMA BlobInit == Init => BlobInv
  <1> SUFFICES ASSUME Init PROVE BlobInv
    OBVIOUS
  <1>1. sealing = NoBlobs /\ doomed = {} /\ session = "boot" /\ op = None
    BY DEF Init
  <1>2. CASE file = None
    <2>1. \A p \in Passwords, s \in Salts : Legacy(p, s) # None
      <3> TAKE p \in Passwords, s \in Salts
      <3>1. Legacy(p, s) \in File
        BY EmptyType DEF Legacy, Master, Key, File
      <3> QED BY <3>1, VaultAssumption
    <2>2. blobs = NoBlobs
      BY <1>2, <2>1 DEF Init
    <2> QED BY <1>1, <1>2, <2>2 DEF BlobInv, BlobsStayReadable, OnlyFailuresLeave, BlobOwner, NoBlobs
  <1>3. CASE file # None
    <2>1. PICK p \in Passwords, s \in Salts : file = Legacy(p, s) /\ blobs \in [Blobs -> {None, Master(p, s)}]
      BY <1>3 DEF Init
    <2>2. BlobKey(file) = Master(p, s)
      BY <2>1 DEF Legacy, BlobKey
    <2> QED BY <1>1, <1>3, <2>1, <2>2 DEF BlobInv, BlobsStayReadable, OnlyFailuresLeave, BlobOwner, NoBlobs
  <1> QED BY <1>2, <1>3

LEMMA BlobGate ==
  ASSUME TypeOK, KeyInv, BlobInv, GateStep
  PROVE  BlobInv'
  <1> USE DEF BlobInv, BlobsStayReadable, OnlyFailuresLeave, BlobOwner, Running
  <1>1. CASE Boot
    BY <1>1 DEF Boot, InstallFile, BlobKey
  <1>2. CASE BeginReset
    BY <1>2 DEF BeginReset, Running
  <1>3. CASE EndReset
    BY <1>3 DEF EndReset, NoBlobs
  <1>4. ASSUME NEW p \in Passwords, Unlock(p) PROVE BlobInv'
    BY <1>4 DEF Unlock, InstallFile, BlobKey, TypeOK, Ghost
  <1>5. ASSUME NEW p \in Passwords, NEW s \in Salts, BeginCreate(p, s) PROVE BlobInv'
    BY <1>5 DEF BeginCreate, TypeOK, Ghost
  <1>6. ASSUME NEW c \in Blobs, RemoveStore(c) PROVE BlobInv'
    <2>1. UNCHANGED <<file, op, sealing, session>> /\ session = "reset" /\ doomed' = doomed \ {c}
      BY <1>6, RemoveFrame DEF RemoveStore
    <2>2. CASE blobs' = [blobs EXCEPT ![c] = None] /\ ghost' = [ghost EXCEPT !.orphans = @ \ {c}]
      <3>1. ghost'.orphans = ghost.orphans \ {c} /\ \A b \in Blobs : blobs'[b] = IF b = c THEN None ELSE blobs[b]
        BY <2>2 DEF TypeOK, Ghost
      <3> QED BY <2>1, <3>1 DEF BlobKey
    <2>3. CASE UNCHANGED blobs /\ ghost' = Left({c})
      <3>1. /\ ghost.orphans \subseteq ghost'.orphans
            /\ ghost'.orphans = IF file = None THEN ghost.orphans \cup {c} ELSE ghost.orphans
        BY <2>3, LeftType
      <3>2. file = None \/ (op # None /\ op.kind = "create") => file = None
        BY <2>1
      <3> QED BY <2>1, <2>3, <3>1, <3>2 DEF BlobKey
    <2> QED BY <1>6, <2>2, <2>3 DEF RemoveStore
  <1> QED BY <1>1, <1>2, <1>3, <1>4, <1>5, <1>6 DEF GateStep

LEMMA BlobSession ==
  ASSUME TypeOK, KeyInv, BlobInv, SessionStep
  PROVE  BlobInv'
  <1> USE DEF BlobInv, BlobsStayReadable, OnlyFailuresLeave, BlobOwner, Running
  <1>1. ASSUME NEW n \in Names, NEW v \in Values, BeginSet(n, v) PROVE BlobInv'
    BY <1>1 DEF BeginSet, Begun, BlobKey, TypeOK, Ghost, KeyInv, SessionMatchesFile
  <1>2. ASSUME NEW n \in Names, BeginRemove(n) PROVE BlobInv'
    BY <1>2 DEF BeginRemove, Begun, BlobKey, TypeOK, Ghost, Mem, Empty, KeyInv, KeyOfSalt, SessionMatchesFile
  <1>3. ASSUME NEW cur \in Passwords, NEW new \in Passwords, NEW s \in Salts, BeginRekey(cur, new, s) PROVE BlobInv'
    BY <1>3 DEF BeginRekey, Begun, BlobKey, TypeOK, Ghost, KeyInv, SessionMatchesFile
  <1>4. ASSUME NEW c \in Blobs, Seal(c) PROVE BlobInv'
    BY <1>4 DEF Seal, BlobKey, TypeOK, KeyInv, SessionMatchesFile
  <1>5. ASSUME NEW c \in Blobs, WriteBlob(c) PROVE BlobInv'
    <2>1. Running /\ file # None /\ sealing[c] = BlobKey(file)
      BY <1>5 DEF WriteBlob, KeyInv, OpKeepsOld
    <2>2. \A b \in Blobs : blobs'[b] = blobs[b] \/ (b = c /\ blobs'[b] = sealing[b])
      BY <1>5 DEF WriteBlob, TypeOK
    <2> QED BY <1>5, <2>1, <2>2 DEF WriteBlob, BlobKey, TypeOK, Ghost, KeyInv, OpKeepsOld
  <1> QED BY <1>1, <1>2, <1>3, <1>4, <1>5 DEF SessionStep

LEMMA BlobEnds ==
  ASSUME TypeOK, KeyInv, BlobInv, EndStep
  PROVE  BlobInv'
  <1> USE DEF BlobInv, BlobsStayReadable, OnlyFailuresLeave, BlobOwner, Running
  <1>1. CASE Rename
    <2>1. op.kind \in {"create", "rekey", "set", "remove"} /\ op'.kind = op.kind /\ mem.unlocked
      BY <1>1 DEF Rename, TypeOK, Op, KeyInv, KeyOfSalt
    <2>2. file' # None /\ BlobKey(file') = BlobKey(mem)
      BY <1>1, <2>1, SealedType DEF Rename, Sealed, BlobKey, KeyInv
    <2>3. CASE op.kind = "create"
      <3>1. file = None /\ session = "gate"
        BY <1>1, <2>3 DEF Rename, KeyInv, OpKeepsOld
      <3> QED BY <1>1, <2>2, <2>3, <3>1 DEF Rename
    <2>4. CASE op.kind # "create"
      <3>1. file \in File /\ Running
        BY <1>1, <2>4 DEF Rename, KeyInv, OpKeepsOld, TypeOK
      <3>2. BlobKey(file) # None
        BY <3>1, VaultAssumption DEF BlobKey, File
      <3>3. BlobKey(mem) = BlobKey(file)
        BY <1>1, <2>1, <2>4, <3>2 DEF Rename, KeyInv, OpKeepsOld, BlobKey
      <3> HIDE DEF BlobsStayReadable
      <3>4. BlobsStayReadable'
        BY <1>1, <2>2, <3>1, <3>3, VaultAssumption DEF Rename, BlobsStayReadable
      <3> QED BY <1>1, <2>1, <2>2, <2>4, <3>1, <3>4, VaultAssumption DEF Rename
    <2> QED BY <2>3, <2>4
  <1>2. CASE Persisted
    BY <1>2 DEF Persisted, Acknowledged, BlobKey, TypeOK, Op, Ghost, KeyInv, OpKeepsOld
  <1>3. CASE PersistFails
    BY <1>3 DEF PersistFails, BlobKey, TypeOK, Op, Ghost, KeyInv, OpKeepsOld
  <1>4. ASSUME NEW lock \in BOOLEAN, BeginStop(lock) PROVE BlobInv'
    BY <1>4 DEF BeginStop, BlobKey
  <1>5. CASE Relock
    BY <1>5 DEF Relock, BlobKey, TypeOK, Ghost
  <1>6. CASE EndStop
    BY <1>6 DEF EndStop, BlobKey, NoBlobs
  <1>7. CASE CloseGate
    BY <1>7 DEF CloseGate, BlobKey
  <1>8. CASE Crash
    <2>1. UNCHANGED <<file, blobs>> /\ session' = "boot" /\ op' = None /\ sealing' = NoBlobs
      BY <1>8, CrashFrame
    <2>2. /\ doomed' = {} /\ ghost.orphans \subseteq ghost'.orphans
          /\ file = None => ghost'.orphans = ghost.orphans \cup doomed
      <3>1. ghost' = Left(doomed) /\ doomed' = {} /\ doomed \in SUBSET Blobs
        BY <1>8 DEF Crash, TypeOK
      <3> QED BY <3>1, LeftType
    <2> QED BY <2>1, <2>2 DEF BlobKey, NoBlobs
  <1> QED BY <1>1, <1>2, <1>3, <1>4, <1>5, <1>6, <1>7, <1>8 DEF EndStep

-----------------------------------------------------------------------------
(* The acknowledged secrets.                                               *)

LEMMA AckInit == Init => AckInv
  BY DEF Init, AckInv, AcknowledgedIsOnDisk, MemAcknowledged, Legacy, Empty

LEMMA AckGate ==
  ASSUME TypeOK, KeyInv, AckInv, GateStep
  PROVE  AckInv'
  <1> USE DEF AckInv, AcknowledgedIsOnDisk, MemAcknowledged
  <1>1. CASE Boot
    BY <1>1 DEF Boot, InstallFile, Opened
  <1>2. CASE BeginReset
    BY <1>2 DEF BeginReset, Wiped, TypeOK, Mem, Ghost
  <1>3. CASE EndReset
    BY <1>3 DEF EndReset
  <1>4. ASSUME NEW p \in Passwords, Unlock(p) PROVE AckInv'
    BY <1>4 DEF Unlock, InstallFile, Opened, TypeOK, Ghost
  <1>5. ASSUME NEW p \in Passwords, NEW s \in Salts, BeginCreate(p, s) PROVE AckInv'
    BY <1>5 DEF BeginCreate, TypeOK, Ghost
  <1>6. ASSUME NEW c \in Blobs, RemoveStore(c) PROVE AckInv'
    BY <1>6, RemoveFrame
  <1> QED BY <1>1, <1>2, <1>3, <1>4, <1>5, <1>6 DEF GateStep

LEMMA AckSession ==
  ASSUME TypeOK, KeyInv, AckInv, SessionStep
  PROVE  AckInv'
  <1> USE DEF AckInv, AcknowledgedIsOnDisk, MemAcknowledged
  <1>1. ASSUME NEW n \in Names, NEW v \in Values, BeginSet(n, v) PROVE AckInv'
    BY <1>1 DEF BeginSet, TypeOK, Mem, Map, Ghost, KeyInv, SessionMatchesFile
  <1>2. ASSUME NEW n \in Names, BeginRemove(n) PROVE AckInv'
    BY <1>2 DEF BeginRemove, TypeOK, Mem, Map, Ghost, Empty, KeyInv, KeyOfSalt, SessionMatchesFile
  <1>3. ASSUME NEW cur \in Passwords, NEW new \in Passwords, NEW s \in Salts, BeginRekey(cur, new, s) PROVE AckInv'
    BY <1>3 DEF BeginRekey, TypeOK, Mem, Ghost
  <1>4. ASSUME NEW c \in Blobs, Seal(c) PROVE AckInv'
    BY <1>4 DEF Seal
  <1>5. ASSUME NEW c \in Blobs, WriteBlob(c) PROVE AckInv'
    BY <1>5 DEF WriteBlob, TypeOK, Ghost
  <1> QED BY <1>1, <1>2, <1>3, <1>4, <1>5 DEF SessionStep

LEMMA AckEnds ==
  ASSUME TypeOK, KeyInv, AckInv, EndStep
  PROVE  AckInv'
  <1> USE DEF AckInv, AcknowledgedIsOnDisk, MemAcknowledged
  <1>1. CASE Rename
    BY <1>1, SealedType DEF Rename, Sealed, KeyInv, KeyOfSalt
  <1>2. CASE Persisted
    <2>1. /\ op.kind \in {"create", "rekey", "set", "remove"} /\ ghost \in Ghost
          /\ file' = file /\ mem' = mem /\ file = Sealed(mem) /\ mem.unlocked
      BY <1>2 DEF Persisted, TypeOK, Op, KeyInv, OpKeepsOld, KeyOfSalt
    <2>2. file # None
      BY <1>2, <2>1, SealedType DEF KeyInv
    <2>3. file.data = mem.data
      BY <2>1 DEF Sealed
    <2>4. CASE op.kind = "set"
      BY <1>2, <2>1, <2>2, <2>3, <2>4 DEF Persisted, Acknowledged, Ghost
    <2>5. CASE op.kind = "remove"
      <3>1. mem.data[op.name] = None
        BY <1>2, <2>1, <2>5 DEF Persisted, KeyInv, OpKeepsOld
      <3> QED BY <1>2, <2>1, <2>2, <2>3, <2>5, <3>1 DEF Persisted, Acknowledged, Ghost
    <2>6. CASE op.kind \in {"create", "rekey"}
      BY <1>2, <2>1, <2>2, <2>3, <2>6 DEF Persisted, Acknowledged, Ghost
    <2> QED BY <2>1, <2>4, <2>5, <2>6
  <1>3. CASE PersistFails
    BY <1>3 DEF PersistFails, Undone, Wiped, TypeOK, Op, Mem, Ghost
  <1>4. ASSUME NEW lock \in BOOLEAN, BeginStop(lock) PROVE AckInv'
    BY <1>4 DEF BeginStop
  <1>5. CASE Relock
    BY <1>5 DEF Relock, Wiped, TypeOK, Mem, Ghost
  <1>6. CASE EndStop
    BY <1>6 DEF EndStop, Wiped, TypeOK, Mem
  <1>7. CASE CloseGate
    BY <1>7 DEF CloseGate, Wiped, TypeOK, Mem
  <1>8. CASE Crash
    BY <1>8, CrashFrame
  <1> QED BY <1>1, <1>2, <1>3, <1>4, <1>5, <1>6, <1>7, <1>8 DEF EndStep

-----------------------------------------------------------------------------
(* The lock.                                                               *)

LEMMA LockInit == Init => LockInv
  BY DEF Init, LockInv, LockHolds, LockedOutside, CacheOnlyInDev

LEMMA LockGate ==
  ASSUME TypeOK, KeyInv, LockInv, GateStep
  PROVE  LockInv'
  <1> USE DEF LockInv, LockHolds, LockedOutside, CacheOnlyInDev
  <1>1. CASE Boot
    BY <1>1 DEF Boot
  <1>2. CASE BeginReset
    BY <1>2, VaultAssumption DEF BeginReset, Wiped, Stored, TypeOK, Mem, Ghost
  <1>3. CASE EndReset
    BY <1>3 DEF EndReset
  <1>4. ASSUME NEW p \in Passwords, Unlock(p) PROVE LockInv'
    <2>1. ghost'.locked = FALSE
      BY <1>4 DEF Unlock, TypeOK, Ghost
    <2>2. ~DevBuild => cache' = cache
      BY <1>4 DEF Unlock, InstallFile, Stored
    <2> QED BY <2>1, <2>2
  <1>5. ASSUME NEW p \in Passwords, NEW s \in Salts, BeginCreate(p, s) PROVE LockInv'
    <2>1. op' # None
      <3>1. op' \in Op
        BY <1>5, BegunType DEF BeginCreate
      <3> QED BY <3>1, VaultAssumption
    <2> QED BY <1>5, <2>1 DEF BeginCreate, TypeOK, Ghost
  <1>6. ASSUME NEW c \in Blobs, RemoveStore(c) PROVE LockInv'
    BY <1>6, RemoveFrame
  <1> QED BY <1>1, <1>2, <1>3, <1>4, <1>5, <1>6 DEF GateStep

LEMMA LockSession ==
  ASSUME TypeOK, KeyInv, LockInv, SessionStep
  PROVE  LockInv'
  <1> USE DEF LockInv, LockHolds, LockedOutside, CacheOnlyInDev, Running
  <1>1. ASSUME NEW n \in Names, NEW v \in Values, BeginSet(n, v) PROVE LockInv'
    BY <1>1 DEF BeginSet, TypeOK, Mem, Ghost
  <1>2. ASSUME NEW n \in Names, BeginRemove(n) PROVE LockInv'
    BY <1>2 DEF BeginRemove, TypeOK, Mem, Ghost, Empty, KeyInv, KeyOfSalt
  <1>3. ASSUME NEW cur \in Passwords, NEW new \in Passwords, NEW s \in Salts, BeginRekey(cur, new, s) PROVE LockInv'
    BY <1>3 DEF BeginRekey, TypeOK, Mem, Ghost
  <1>4. ASSUME NEW c \in Blobs, Seal(c) PROVE LockInv'
    BY <1>4 DEF Seal
  <1>5. ASSUME NEW c \in Blobs, WriteBlob(c) PROVE LockInv'
    BY <1>5 DEF WriteBlob, TypeOK, Ghost
  <1> QED BY <1>1, <1>2, <1>3, <1>4, <1>5 DEF SessionStep

LEMMA LockEnds ==
  ASSUME TypeOK, KeyInv, LockInv, EndStep
  PROVE  LockInv'
  <1> USE DEF LockInv, LockHolds, LockedOutside, CacheOnlyInDev, Running
  <1>1. CASE Rename
    <2>1. op' \in Op
      BY <1>1 DEF Rename, TypeOK, Op
    <2> QED BY <1>1, <2>1, VaultAssumption DEF Rename
  <1>2. CASE Persisted
    <2>1. ~DevBuild => cache' = cache
      BY <1>2 DEF Persisted, Stored
    <2>2. op.kind \in {"create", "rekey", "set", "remove"}
      BY <1>2 DEF Persisted, TypeOK, Op
    <2>3. CASE op.kind \in {"create", "rekey"}
      <3>1. ghost'.locked = FALSE
        BY <1>2, <2>3 DEF Persisted, Acknowledged, TypeOK, Ghost
      <3> QED BY <2>1, <3>1
    <2>4. CASE op.kind \in {"set", "remove"}
      <3>1. mem.unlocked /\ mem' = mem /\ ghost'.locked = ghost.locked /\ session' = session
        BY <1>2, <2>4 DEF Persisted, Acknowledged, TypeOK, Ghost, KeyInv, KeyOfSalt, OpKeepsOld
      <3> QED BY <1>2, <2>1, <2>4, <3>1 DEF KeyInv, KeyOfSalt, OpKeepsOld, UnlockedRuns
    <2> QED BY <2>2, <2>3, <2>4
  <1>3. CASE PersistFails
    BY <1>3, SMTT(20) DEF PersistFails, Undone, Wiped, TypeOK, Op, Mem, Ghost, KeyInv, KeyOfSalt, OpKeepsOld
  <1>4. ASSUME NEW lock \in BOOLEAN, BeginStop(lock) PROVE LockInv'
    BY <1>4 DEF BeginStop
  <1>5. CASE Relock
    BY <1>5, VaultAssumption DEF Relock, Wiped, Revocation, TypeOK, Mem, Ghost
  <1>6. CASE EndStop
    BY <1>6 DEF EndStop, Wiped, TypeOK, Mem
  <1>7. CASE CloseGate
    BY <1>7, VaultAssumption DEF CloseGate, Wiped, Revocation, TypeOK, Mem
  <1>8. CASE Crash
    BY <1>8, CrashFrame
  <1> QED BY <1>1, <1>2, <1>3, <1>4, <1>5, <1>6, <1>7, <1>8 DEF EndStep

-----------------------------------------------------------------------------
(* The theorems.                                                           *)

VaultInv == TypeOK /\ KeyInv /\ BlobInv /\ AckInv /\ LockInv

LEMMA VaultInit == Init => VaultInv
  BY TypeInit, KeyInit, BlobInit, AckInit, LockInit DEF VaultInv

LEMMA VaultNext == VaultInv /\ [Next]_vars => VaultInv'
  <1> SUFFICES ASSUME VaultInv, [Next]_vars PROVE VaultInv'
    OBVIOUS
  <1>1. GateStep \/ SessionStep \/ EndStep \/ UNCHANGED vars
    BY DEF Next, GateStep, SessionStep, EndStep
  <1>2. CASE GateStep
    BY <1>2, TypeGate, KeyGate, BlobGate, AckGate, LockGate DEF VaultInv
  <1>3. CASE SessionStep
    BY <1>3, TypeSession, KeySession, BlobSession, AckSession, LockSession DEF VaultInv, KeyInv
  <1>4. CASE EndStep
    BY <1>4, TypeEnds, KeyEnds, BlobEnds, AckEnds, LockEnds DEF VaultInv
  <1>5. CASE UNCHANGED vars
    BY <1>5 DEF vars, VaultInv, TypeOK, KeyInv, OpensWithKnownPassword, SessionMatchesFile, KeyOfSalt,
         UnlockedRuns, OpKeepsOld, Running, BlobInv, BlobsStayReadable, OnlyFailuresLeave, BlobOwner,
         BlobKey, Sealed, AckInv, AcknowledgedIsOnDisk, MemAcknowledged, LockInv, LockHolds,
         LockedOutside, CacheOnlyInDev
  <1> QED BY <1>1, <1>2, <1>3, <1>4, <1>5

LEMMA VaultInvariant == Spec => []VaultInv
  BY VaultInit, VaultNext, PTL DEF Spec

\* The state of the vault stays within its types, for every set of passwords, salts,
\* secrets and sealed files.
THEOREM VaultTypes == Spec => []TypeOK
  BY VaultInvariant, PTL DEF VaultInv

\* Nobody is locked out: the file always opens with a password its owner knows of
\* (vault_create, vault_rekey and its roll-back, vault_set).
THEOREM NobodyLockedOut == Spec => []OpensWithKnownPassword
  BY VaultInvariant, PTL DEF VaultInv, KeyInv

\* Between operations the session's keys are the file's, after failed changes too.
THEOREM SessionAgrees == Spec => []SessionMatchesFile
  BY VaultInvariant, PTL DEF VaultInv, KeyInv

\* No password change, finished, failed or crashed, makes a sealed file unreadable, also
\* one that a worker is about to write, in new and in legacy vaults.
THEOREM BlobsReadable == Spec => []BlobsStayReadable
  BY VaultInvariant, PTL DEF VaultInv, BlobInv

\* A deleted vault leaves a sealed file only where its removal failed or the process died
\* before it; the files of a vault that could not be deleted are BlobsReadable's.
THEOREM ResetComplete == Spec => []OnlyFailuresLeave
  BY VaultInvariant, PTL DEF VaultInv, BlobInv

\* An acknowledged write or removal of a secret is what the file holds.
THEOREM WritesDurable == Spec => []AcknowledgedIsOnDisk
  BY VaultInvariant, PTL DEF VaultInv, AckInv

\* After the user locked, nothing but a password opens the vault.
THEOREM LockIsFinal == Spec => []LockHolds
  BY VaultInvariant, PTL DEF VaultInv, LockInv

\* What the run checks as one: types, agreement of session and file, readable files and
\* a reset that passes over nothing.
THEOREM VaultSafe == Spec => []Inv
  BY VaultInvariant, PTL DEF VaultInv, KeyInv, BlobInv, Inv
=============================================================================
